-------------------------- MODULE ChatSectorsProofs --------------------------
(***************************************************************************)
(* Proofs about ChatSectors for every map of sectors, every set of         *)
(* sessions and every set of workers.                                      *)
(***************************************************************************)
EXTENDS ChatSectors, TLAPS

-----------------------------------------------------------------------------
(* The inductive invariant *)

\* A worker holds locks only where its handler is between taking and releasing
\* them, and only those that its place in the handler says.
LocksHeld ==
    \A w \in Workers, p \in Sectors :
        /\ excl[p] = w =>
               \/ At(w, "lock2") /\ p = FirstOf(me[w].from, me[w].to)
               \/ At(w, "move") /\ p \in {me[w].from, me[w].to}
               \/ At(w, "unlock") \/ At(w, "remove")
        /\ w \in shared[p] =>
               \/ At(w, "around") /\ \E j \in 1..9 : j < me[w].k /\ p = Around(me[w].from, j)
               \/ At(w, "send") /\ \E j \in 1..9 : j >= me[w].k /\ p = Around(me[w].from, j)

\* ... and it does hold them there.
LocksKept ==
    /\ \A p \in Sectors : excl[p] # None => shared[p] = {}
    /\ \A w \in Workers :
        /\ At(w, "lock2") => excl[FirstOf(me[w].from, me[w].to)] = w
        /\ At(w, "move") => excl[me[w].from] = w /\ excl[me[w].to] = w
        /\ \A j \in 1..9 : SectorRangeCheck(Around(me[w].from, j)) =>
               /\ At(w, "around") /\ j < me[w].k => w \in shared[Around(me[w].from, j)]
               /\ At(w, "send") /\ j >= me[w].k => w \in shared[Around(me[w].from, j)]

Handling == {"login", "first", "lock1", "lock2", "move", "unlock", "done", "around", "send"}
Leaving == {"leave", "remove"}

\* A session is in the hands of one worker: of one that handles its message
\* while it is busy, or of the one that runs its OnClientLeave.
OneWorker ==
    /\ \A w \in Workers : me[w].pc = "idle" <=> me[w].s = None
    /\ \A w \in Workers : me[w].pc \in Handling => me[w].s \in busy
    /\ \A w \in Workers : me[w].pc \in Leaving => conn[me[w].s] = "left" /\ me[w].s \notin busy
    /\ \A w, v \in Workers : me[w].s = me[v].s => w = v \/ me[w].s = None
    /\ \A s \in busy : conn[s] \in {"open", "closing"}

\* The two maps: a session that is connected is in exactly one of them.
InOneMap ==
    /\ nonUser \cap users = {}
    /\ \A s \in Sessions : conn[s] \in {"open", "closing"} <=> s \in nonUser \cup users
    /\ users \subseteq alive
    /\ \A w \in Workers :
        /\ At(w, "login") => me[w].s \in nonUser
        /\ me[w].pc \in Handling \ {"login"} => me[w].s \in users
        /\ me[w].pc \in Leaving => me[w].s \in alive

\* What a handler read of its user when it began is still so.
LocalsTrue ==
    \A w \in Workers :
        /\ At(w, "first") => me[w].s \notin sector
        /\ me[w].pc \in {"lock1", "lock2", "move"} =>
               me[w].s \in sector /\ me[w].from = pos[me[w].s] /\ me[w].to # me[w].from
        /\ At(w, "leave") => me[w].from = pos[me[w].s]

\* The session has been put into the list of its new sector, and s_Pos is not set yet.
Moving(s) == \E w \in Workers : me[w].s = s /\ me[w].pc \in {"unlock", "done"}
\* The session is a user, or about to leave its list.
Settled(s) == s \in users \/ \E w \in Workers : me[w].s = s /\ At(w, "leave")

\* Where a session is listed.
ListedAt(s) ==
    \A p \in Sectors :
        /\ ~Moving(s) => (s \in list[p] <=> s \in sector /\ Settled(s) /\ p = pos[s])
        /\ \A w \in Workers :
               me[w].s = s /\ me[w].pc \in {"unlock", "done"} => (s \in list[p] <=> p = me[w].to)
Listed == \A s \in Sessions : ListedAt(s)

\* The users in the sectors worker w has still to send to.
StillAround(w, u) ==
    \E j \in 1..9 : /\ j >= me[w].k
                    /\ SectorRangeCheck(Around(me[w].from, j))
                    /\ u \in list[Around(me[w].from, j)]

\* A worker that sends has sent once to all who were around and are not still
\* to be sent to, and to nobody else.
SentTo(w, u) ==
    /\ At(w, "around") => got[w][u] = 0
    /\ At(w, "send") =>
           /\ StillAround(w, u) => u \in there[w]
           /\ got[w][u] = IF u \in there[w] /\ ~StillAround(w, u) THEN 1 ELSE 0
SentSoFar == \A w \in Workers, u \in Sessions : SentTo(w, u)

IInv ==
    /\ TypeOK /\ LocksHeld /\ LocksKept /\ OneWorker /\ InOneMap /\ LocalsTrue
    /\ Listed /\ SentSoFar

-----------------------------------------------------------------------------
(* Geometry *)

\* What is on the map is a sector.
LEMMA InRange ==
  ASSUME NEW p \in Int \X Int
  PROVE  SectorRangeCheck(p) <=> p \in Sectors
BY Sizes DEF SectorRangeCheck, Sectors

\* The place k of the nine around a sector is a pair of integers.
LEMMA AroundType ==
  ASSUME NEW p \in Sectors, NEW k \in 1..9
  PROVE  /\ Offset[k][1] \in {-1, 0, 1} /\ Offset[k][2] \in {-1, 0, 1}
         /\ Around(p, k) \in Int \X Int
         /\ Around(p, k)[1] = p[1] + Offset[k][1]
         /\ Around(p, k)[2] = p[2] + Offset[k][2]
<1>1. Offset[k][1] \in {-1, 0, 1} /\ Offset[k][2] \in {-1, 0, 1}
  BY DEF Offset
<1>2. p[1] \in Int /\ p[2] \in Int
  BY Sizes DEF Sectors
<1> QED
  BY <1>1, <1>2 DEF Around

\* SectorFind goes through the sectors in the order of the locks.
LEMMA AroundInOrder ==
  ASSUME NEW p \in Sectors, NEW j \in 1..9, NEW k \in 1..9, j < k
  PROVE  Before(Around(p, j), Around(p, k))
<1>1. \/ Offset[j][2] < Offset[k][2]
      \/ Offset[j][2] = Offset[k][2] /\ Offset[j][1] < Offset[k][1]
  BY DEF Offset
<1>2. p[1] \in Int /\ p[2] \in Int
  BY Sizes DEF Sectors
<1> QED
  BY <1>1, <1>2, AroundType DEF Before

\* A sector is not before itself, so the nine are different.
LEMMA AroundDifferent ==
  ASSUME NEW p \in Sectors, NEW j \in 1..9, NEW k \in 1..9, j # k
  PROVE  Around(p, j) # Around(p, k)
<1>1. Before(Around(p, j), Around(p, k)) \/ Before(Around(p, k), Around(p, j))
  BY AroundInOrder
<1>2. \A q \in Int \X Int : ~Before(q, q)
  BY DEF Before
<1> QED
  BY <1>1, <1>2, AroundType

\* Of two different sectors FirstOf is one, SecondOf the other and later.
LEMMA FirstBeforeSecond ==
  ASSUME NEW e \in Sectors, NEW i \in Sectors
  PROVE  /\ FirstOf(e, i) \in {e, i} /\ SecondOf(e, i) \in {e, i}
         /\ {FirstOf(e, i), SecondOf(e, i)} = {e, i}
         /\ e # i => Before(FirstOf(e, i), SecondOf(e, i))
<1>1. e[1] \in Int /\ e[2] \in Int /\ i[1] \in Int /\ i[2] \in Int
  BY Sizes DEF Sectors
<1>2. e = <<e[1], e[2]>> /\ i = <<i[1], i[2]>>
  BY DEF Sectors
<1>3. e # i => Before(e, i) \/ Before(i, e)
  BY <1>1, <1>2 DEF Before
<1> QED
  BY <1>3 DEF FirstOf, SecondOf

-----------------------------------------------------------------------------
(* Type correctness *)

\* What a step does to the local variables of its worker, and not to others'.
LEMMA BeginEffect ==
  ASSUME me \in [Workers -> Locals], NEW w \in Workers, NEW place \in PCs,
         NEW s \in Sessions \cup {None}, NEW from \in Sectors, NEW to \in Sectors,
         Begin(w, place, s, from, to)
  PROVE  /\ me' \in [Workers -> Locals]
         /\ \A v \in Workers : v # w => me'[v] = me[v]
         /\ me'[w].pc = place /\ me'[w].s = s /\ me'[w].from = from /\ me'[w].to = to
         /\ me'[w].k = 1
<1>1. Local(place, s, from, to) \in Locals
  BY DEF Local, Locals
<1> QED
  BY <1>1 DEF Begin, Local

\* Returning from a handler empties the local variables.
LEMMA ReturnEffect ==
  ASSUME me \in [Workers -> Locals], NEW w \in Workers, Return(w)
  PROVE  /\ me' \in [Workers -> Locals]
         /\ \A v \in Workers : v # w => me'[v] = me[v]
         /\ me'[w].pc = "idle" /\ me'[w].s = None
<1>1. <<0, 0>> \in Sectors
  BY Sizes DEF Sectors
<1>2. Idle \in Locals
  BY <1>1 DEF Idle, Local, Locals, PCs
<1> QED
  BY <1>2 DEF Return, Idle, Local

\* Going on in a handler changes the place only.
LEMMA GotoEffect ==
  ASSUME me \in [Workers -> Locals], NEW w \in Workers, NEW place \in PCs, Goto(w, place)
  PROVE  /\ me' \in [Workers -> Locals]
         /\ \A v \in Workers : v # w => me'[v] = me[v]
         /\ me'[w].pc = place /\ me'[w].s = me[w].s
         /\ me'[w].from = me[w].from /\ me'[w].to = me[w].to /\ me'[w].k = me[w].k
<1>1. \A r \in Locals : [r EXCEPT !.pc = place] \in Locals
  BY DEF Locals
<1>2. me[w] \in Locals
  OBVIOUS
<1>3. me' = [me EXCEPT ![w] = [me[w] EXCEPT !.pc = place]]
  BY DEF Goto
<1> QED
  BY <1>1, <1>2, <1>3 DEF Locals

\* Counting a sector changes k only.
LEMMA CountEffect ==
  ASSUME me \in [Workers -> Locals], NEW w \in Workers, NEW n \in 1..10,
         me' = [me EXCEPT ![w].k = n]
  PROVE  /\ me' \in [Workers -> Locals]
         /\ \A v \in Workers : v # w => me'[v] = me[v]
         /\ me'[w].pc = me[w].pc /\ me'[w].s = me[w].s
         /\ me'[w].from = me[w].from /\ me'[w].to = me[w].to /\ me'[w].k = n
<1>1. \A r \in Locals : [r EXCEPT !.k = n] \in Locals
  BY DEF Locals
<1>2. me[w] \in Locals
  OBVIOUS
<1>3. me' = [me EXCEPT ![w] = [me[w] EXCEPT !.k = n]]
  OBVIOUS
<1> QED
  BY <1>1, <1>2, <1>3 DEF Locals

\* When the sectors around are locked the sending begins, at the first of them.
LEMMA AllLockedEffect ==
  ASSUME me \in [Workers -> Locals], NEW w \in Workers, me[w].s \in Sessions \cup {None},
         me[w].from \in Sectors, me[w].to \in Sectors, AllLocked(w)
  PROVE  /\ me' \in [Workers -> Locals]
         /\ \A v \in Workers : v # w => me'[v] = me[v]
         /\ me'[w].pc = "send" /\ me'[w].s = me[w].s
         /\ me'[w].from = me[w].from /\ me'[w].to = me[w].to /\ me'[w].k = 1
<1>1. Begin(w, "send", me[w].s, me[w].from, me[w].to)
  BY DEF AllLocked
<1>2. "send" \in PCs
  BY DEF PCs
<1> QED
  BY <1>1, <1>2, BeginEffect

\* After a sector there is a next place, up to the one behind the last.
LEMMA NextPlace == \A n \in 1..10 : n <= 9 => n + 1 \in 1..10
OBVIOUS

\* The invariant holds when the server starts.
LEMMA InitIInv == Init => IInv
<1> SUFFICES ASSUME Init PROVE IInv
  OBVIOUS
<1>1. <<0, 0>> \in Sectors
  BY Sizes DEF Sectors
<1>2. TypeOK
  BY <1>1 DEF Init, TypeOK, Idle, Local, Locals, PCs
<1>3. LocksHeld /\ LocksKept
  BY NoneApart DEF Init, LocksHeld, LocksKept, At, Idle, Local
<1>4. OneWorker /\ InOneMap /\ LocalsTrue
  BY NoneApart DEF Init, OneWorker, InOneMap, LocalsTrue, At, Idle, Local, Handling, Leaving
<1>5. Listed /\ SentSoFar
  BY DEF Init, Listed, ListedAt, SentSoFar, SentTo, Moving, Settled, At, Idle, Local
<1> QED
  BY <1>2, <1>3, <1>4, <1>5 DEF IInv

\* A place a client asks for is a pair of integers.
LEMMA PlacesAreInt == \A to \in Places : to \in Int \X Int
BY Sizes DEF Places

\* Every handler leaves the variables their types.
LEMMA TypeStep ==
  ASSUME IInv, [Next]_vars
  PROVE  TypeOK'
<1> USE DEF IInv
<1> USE DEF TypeOK
<1>a. /\ <<0, 0>> \in Sectors
      /\ \A w \in Workers : me[w] \in Locals
      /\ \A w \in Workers : /\ me[w].from \in Sectors /\ me[w].to \in Sectors
                            /\ me[w].s \in Sessions \cup {None} /\ me[w].k \in 1..10
  BY Sizes DEF Sectors, Locals
<1>b. PCs = {"idle", "login", "first", "lock1", "lock2", "move", "unlock", "around", "send",
             "leave", "remove", "done"}
  BY DEF PCs
<1>c. \A w \in Workers : me[w].pc # "idle" => me[w].s \in Sessions
  BY <1>a DEF OneWorker
<1> USE DEF maps, places, locks, told
<1>1. ASSUME NEW w \in Workers, NEW s \in Sessions, TooEarly(w, s) PROVE TypeOK'
  BY <1>1 DEF TooEarly, Disconnect
<1>2. ASSUME NEW w \in Workers, NEW s \in Sessions, Login(w, s) PROVE TypeOK'
  <2>1. me' \in [Workers -> Locals]
    BY <1>2, <1>a, <1>b, BeginEffect DEF Login
  <2> QED
    BY <1>2, <2>1 DEF Login, Disconnect
<1>3. ASSUME NEW w \in Workers, NEW s \in Sessions, ChatMessage(w, s) PROVE TypeOK'
  <2>1. me' \in [Workers -> Locals]
    BY <1>3, <1>a, <1>b, BeginEffect DEF ChatMessage
  <2> QED
    BY <1>3, <2>1 DEF ChatMessage
<1>4. ASSUME NEW w \in Workers, NEW s \in Sessions, NEW to \in Places, SectorMove(w, s, to)
      PROVE TypeOK'
  <2>1. to \in Int \X Int
    BY Sizes DEF Places
  <2>2. SectorRangeCheck(to) => to \in Sectors
    BY <2>1, InRange
  <2>3. me' \in [Workers -> Locals]
    BY <1>4, <1>a, <1>b, <2>2, BeginEffect DEF SectorMove
  <2> QED
    BY <1>4, <2>3 DEF SectorMove, Disconnect
<1>5. ASSUME NEW w \in Workers, NEW s \in Sessions, OnClientLeave(w, s) PROVE TypeOK'
  <2>1. me' \in [Workers -> Locals]
    BY <1>5, <1>a, <1>b, BeginEffect DEF OnClientLeave
  <2> QED
    BY <1>5, <2>1 DEF OnClientLeave
<1>6. ASSUME NEW s \in Sessions, OnClientJoin(s) PROVE TypeOK'
  BY <1>6 DEF OnClientJoin
<1>7. ASSUME NEW s \in Sessions, Hangup(s) PROVE TypeOK'
  BY <1>7 DEF Hangup, Disconnect
<1>8. ASSUME NEW w \in Workers, BecomeUser(w) PROVE TypeOK'
  <2>1. me' \in [Workers -> Locals]
    BY <1>8, <1>a, <1>b, ReturnEffect DEF BecomeUser
  <2>2. busy' \subseteq Sessions
    BY <1>8 DEF BecomeUser, Return
  <2> QED
    BY <1>8, <1>a, <1>c, <2>1, <2>2, NoneApart DEF BecomeUser, At
<1>9. ASSUME NEW w \in Workers, FirstMove(w) PROVE TypeOK'
  <2>1. me' \in [Workers -> Locals]
    BY <1>9, <1>a, <1>b, GotoEffect DEF FirstMove
  <2> QED
    BY <1>9, <1>a, <1>c, <2>1 DEF FirstMove, At, Acquire
<1>10. ASSUME NEW w \in Workers, Lock1(w) PROVE TypeOK'
  <2>1. me' \in [Workers -> Locals]
    BY <1>10, <1>a, <1>b, GotoEffect DEF Lock1
  <2> QED
    BY <1>10, <1>a, <1>c, <2>1, FirstBeforeSecond DEF Lock1, At, Acquire
<1>11. ASSUME NEW w \in Workers, Lock2(w) PROVE TypeOK'
  <2>1. me' \in [Workers -> Locals]
    BY <1>11, <1>a, <1>b, GotoEffect DEF Lock2
  <2> QED
    BY <1>11, <1>a, <1>c, <2>1, FirstBeforeSecond DEF Lock2, At, Acquire
<1>12. ASSUME NEW w \in Workers, Move(w) PROVE TypeOK'
  <2>1. me' \in [Workers -> Locals]
    BY <1>12, <1>a, <1>b, GotoEffect DEF Move
  <2> QED
    BY <1>12, <1>a, <1>c, <2>1 DEF Move, At
<1>13. ASSUME NEW w \in Workers, Unlock(w) PROVE TypeOK'
  <2>1. me' \in [Workers -> Locals]
    BY <1>13, <1>a, <1>b, GotoEffect DEF Unlock
  <2> QED
    BY <1>13, <1>a, <1>c, <2>1 DEF Unlock, At, ReleaseAll
<1>14. ASSUME NEW w \in Workers, Moved(w) PROVE TypeOK'
  <2>1. me' \in [Workers -> Locals]
    BY <1>14, <1>a, <1>b, ReturnEffect DEF Moved
  <2>2. busy' \subseteq Sessions
    BY <1>14 DEF Moved, Return
  <2> QED
    BY <1>14, <1>a, <1>c, <2>1, <2>2 DEF Moved, At
<1>15. ASSUME NEW w \in Workers, LockNext(w) PROVE TypeOK'
  <2>1. me' \in [Workers -> Locals]
    <3>1. me[w].k <= 9
      BY <1>15 DEF LockNext
    <3>2. me[w].k + 1 \in 1..10
      BY <1>a, <3>1, NextPlace
    <3> QED
      BY <1>15, <3>2, CountEffect DEF LockNext
  <2> QED
    BY <1>15, <1>a, <1>c, <2>1 DEF LockNext, At, AcquireShared
<1>16. ASSUME NEW w \in Workers, AllLocked(w) PROVE TypeOK'
  <2>1. me' \in [Workers -> Locals]
    BY <1>16, <1>a, AllLockedEffect
  <2> QED
    BY <1>16, <1>a, <1>c, <2>1 DEF AllLocked, At
<1>17. ASSUME NEW w \in Workers, SendOne(w) PROVE TypeOK'
  <2>1. me' \in [Workers -> Locals]
    <3>1. me[w].k <= 9
      BY <1>17 DEF SendOne
    <3>2. me[w].k + 1 \in 1..10
      BY <1>a, <3>1, NextPlace
    <3> QED
      BY <1>17, <3>2, CountEffect DEF SendOne
  <2>3. got' \in [Workers -> [Sessions -> Nat]]
    <3> DEFINE p == Around(me[w].from, me[w].k)
    <3>1. CASE SectorRangeCheck(p)
      <4> DEFINE g == [u \in Sessions |-> IF u \in list[p] THEN got[w][u] + 1 ELSE got[w][u]]
      <4>1. g \in [Sessions -> Nat]
        OBVIOUS
      <4>2. got' = [got EXCEPT ![w] = g]
        BY <1>17, <3>1 DEF SendOne
      <4> QED
        BY <4>1, <4>2
    <3>2. CASE ~SectorRangeCheck(p)
      BY <1>17, <3>2 DEF SendOne
    <3> QED
      BY <3>1, <3>2
  <2>4. shared' \in [Sectors -> SUBSET Workers]
    <3> DEFINE p == Around(me[w].from, me[w].k)
    <3>1. CASE SectorRangeCheck(p)
      <4>1. shared' = [q \in Sectors |-> IF q \in Kept(w, p) THEN shared[q] ELSE shared[q] \ {w}]
        BY <1>17, <3>1 DEF SendOne
      <4> HIDE DEF p
      <4> QED
        BY <4>1
    <3>2. CASE ~SectorRangeCheck(p)
      BY <1>17, <3>2 DEF SendOne
    <3> QED
      BY <3>1, <3>2
  <2> QED
    BY <1>17, <1>a, <1>c, <2>1, <2>3, <2>4 DEF SendOne, At
<1>18. ASSUME NEW w \in Workers, Sent(w) PROVE TypeOK'
  <2>1. me' \in [Workers -> Locals]
    BY <1>18, <1>a, <1>b, ReturnEffect DEF Sent
  <2>2. busy' \subseteq Sessions
    BY <1>18 DEF Sent, Return
  <2> QED
    BY <1>18, <1>a, <1>c, <2>1, <2>2 DEF Sent, At
<1>19. ASSUME NEW w \in Workers, Remove(w) PROVE TypeOK'
  <2>1. me' \in [Workers -> Locals]
    BY <1>19, <1>a, <1>b, GotoEffect DEF Remove
  <2>3. list' \in [Sectors -> SUBSET Sessions]
    BY <1>19, <1>a DEF Remove
  <2>4. excl' \in [Sectors -> Workers \cup {None}] /\ shared' \in [Sectors -> SUBSET Workers]
    BY <1>19, <1>a DEF Remove, Acquire
  <2> QED
    BY <1>19, <1>a, <1>c, <2>1, <2>3, <2>4 DEF Remove, At
<1>20. ASSUME NEW w \in Workers, FreeUser(w) PROVE TypeOK'
  <2>1. me' \in [Workers -> Locals]
    BY <1>20, <1>a, <1>b, ReturnEffect DEF FreeUser
  <2>2. busy' \subseteq Sessions
    BY <1>20 DEF FreeUser, Return
  <2> QED
    BY <1>20, <1>a, <1>c, <2>1, <2>2 DEF FreeUser, At, ReleaseAll
<1>21. CASE UNCHANGED vars
  BY <1>21 DEF vars
<1> QED
  BY <1>1, <1>2, <1>3, <1>4, <1>5, <1>6, <1>7, <1>8, <1>9, <1>10, <1>11, <1>12, <1>13, <1>14, <1>15, <1>16, <1>17, <1>18, <1>19, <1>20, <1>21
     DEF Next, Step, Message

-----------------------------------------------------------------------------
(* Sessions and their workers *)

\* Every step leaves a session to one worker, in one map, and leaves alone
\* what another handler read.
LEMMA SessionStep ==
  ASSUME IInv, [Next]_vars
  PROVE  OneWorker' /\ InOneMap' /\ LocalsTrue'
<1> USE DEF IInv
<1>a. /\ me \in [Workers -> Locals] /\ <<0, 0>> \in Sectors
      /\ \A w \in Workers : /\ me[w].from \in Sectors /\ me[w].to \in Sectors
                            /\ me[w].s \in Sessions \cup {None} /\ me[w].k \in 1..10
  BY Sizes DEF Sectors, Locals, TypeOK
<1>b. PCs = {"idle", "login", "first", "lock1", "lock2", "move", "unlock", "around", "send",
             "leave", "remove", "done"}
  BY DEF PCs
<1>c. \A w \in Workers : me[w].pc # "idle" => me[w].s \in Sessions
  BY <1>a DEF OneWorker
<1>d. \A w \in Workers : me[w].pc \in PCs
  BY <1>a DEF Locals
<1>e. Handling = PCs \ {"idle", "leave", "remove"} /\ Leaving = {"leave", "remove"}
  BY <1>b DEF Handling, Leaving
<1>f. /\ conn \in [Sessions -> {"new", "open", "closing", "left"}] /\ pos \in [Sessions -> Sectors]
      /\ busy \subseteq Sessions /\ nonUser \subseteq Sessions /\ users \subseteq Sessions
      /\ alive \subseteq Sessions /\ sector \subseteq Sessions
  BY DEF TypeOK
<1> USE DEF maps, places, locks, told
<1>1. ASSUME NEW w \in Workers, NEW s \in Sessions, TooEarly(w, s) PROVE OneWorker' /\ InOneMap' /\ LocalsTrue'
  <2>1. OneWorker'
    BY <1>1, <1>a, <1>b, <1>c, <1>d, <1>e, <1>f, NoneApart DEF TooEarly, OneWorker, At, Receive, Disconnect, Return
  <2>2. InOneMap'
    BY <1>1, <1>a, <1>b, <1>c, <1>d, <1>e, <1>f, NoneApart DEF TooEarly, OneWorker, InOneMap, At, Receive, Disconnect, Return
  <2>3. LocalsTrue'
    BY <1>1, <1>a, <1>b, <1>c, <1>d, <1>e, <1>f, NoneApart DEF TooEarly, OneWorker, InOneMap, LocalsTrue, At, Receive, Disconnect, Return
  <2> QED
    BY <2>1, <2>2, <2>3
<1>2. ASSUME NEW w \in Workers, NEW s \in Sessions, Login(w, s) PROVE OneWorker' /\ InOneMap' /\ LocalsTrue'
  <2>e. /\ \A v \in Workers : v # w => me'[v] = me[v]
        /\ ~Full => me'[w].pc = "login" /\ me'[w].s = s /\ me'[w].from = <<0, 0>> /\ me'[w].to = <<0, 0>>
    BY <1>2, <1>a, <1>b, <1>c, <1>f, BeginEffect DEF Login, Receive, At
  <2>0. \A v \in Workers : me[v].s # s
    BY <1>2, <1>a, <1>d, <1>e, NoneApart DEF Login, OneWorker, Receive
  <2>1. OneWorker'
    BY <1>2, <1>a, <1>b, <1>c, <1>d, <1>e, <1>f, NoneApart, <2>e, <2>0 DEF Login, OneWorker, At, Receive, Disconnect, Return
  <2>2. InOneMap'
    BY <1>2, <1>a, <1>b, <1>c, <1>d, <1>e, <1>f, NoneApart, <2>e, <2>0 DEF Login, OneWorker, InOneMap, At, Receive, Disconnect, Return
  <2>3. LocalsTrue'
    BY <1>2, <1>a, <1>b, <1>c, <1>d, <1>e, <1>f, NoneApart, <2>e, <2>0 DEF Login, OneWorker, InOneMap, LocalsTrue, At, Receive, Disconnect, Return
  <2> QED
    BY <2>1, <2>2, <2>3
<1>3. ASSUME NEW w \in Workers, NEW s \in Sessions, ChatMessage(w, s) PROVE OneWorker' /\ InOneMap' /\ LocalsTrue'
  <2>e. /\ \A v \in Workers : v # w => me'[v] = me[v]
        /\ me'[w].pc = "around" /\ me'[w].s = s /\ me'[w].from = pos[s] /\ me'[w].to = <<0, 0>>
    BY <1>3, <1>a, <1>b, <1>c, <1>f, BeginEffect DEF ChatMessage, Receive, At
  <2>0. \A v \in Workers : me[v].s # s
    BY <1>3, <1>a, <1>d, <1>e, NoneApart DEF ChatMessage, OneWorker, Receive
  <2>1. OneWorker'
    BY <1>3, <1>a, <1>b, <1>c, <1>d, <1>e, <1>f, NoneApart, <2>e, <2>0 DEF ChatMessage, OneWorker, At, Receive, Disconnect, Return
  <2>2. InOneMap'
    BY <1>3, <1>a, <1>b, <1>c, <1>d, <1>e, <1>f, NoneApart, <2>e, <2>0 DEF ChatMessage, OneWorker, InOneMap, At, Receive, Disconnect, Return
  <2>3. LocalsTrue'
    BY <1>3, <1>a, <1>b, <1>c, <1>d, <1>e, <1>f, NoneApart, <2>e, <2>0 DEF ChatMessage, OneWorker, InOneMap, LocalsTrue, At, Receive, Disconnect, Return
  <2> QED
    BY <2>1, <2>2, <2>3
<1>4. ASSUME NEW w \in Workers, NEW s \in Sessions, NEW to \in Places, SectorMove(w, s, to) PROVE OneWorker' /\ InOneMap' /\ LocalsTrue'
  <2>e. /\ \A v \in Workers : v # w => me'[v] = me[v]
        /\ SectorRangeCheck(to) => me'[w].pc = (IF s \in sector THEN "lock1" ELSE "first") /\ me'[w].s = s /\ me'[w].from = pos[s] /\ me'[w].to = to
    BY <1>4, <1>a, <1>b, <1>c, <1>f, BeginEffect, InRange, PlacesAreInt DEF SectorMove, Receive, At
  <2>0. \A v \in Workers : me[v].s # s
    BY <1>4, <1>a, <1>d, <1>e, NoneApart DEF SectorMove, OneWorker, Receive
  <2>1. OneWorker'
    BY <1>4, <1>a, <1>b, <1>c, <1>d, <1>e, <1>f, NoneApart, <2>e, <2>0 DEF SectorMove, OneWorker, At, Receive, Disconnect, Return
  <2>2. InOneMap'
    BY <1>4, <1>a, <1>b, <1>c, <1>d, <1>e, <1>f, NoneApart, <2>e, <2>0 DEF SectorMove, OneWorker, InOneMap, At, Receive, Disconnect, Return
  <2>3. LocalsTrue'
    BY <1>4, <1>a, <1>b, <1>c, <1>d, <1>e, <1>f, NoneApart, <2>e, <2>0 DEF SectorMove, OneWorker, InOneMap, LocalsTrue, At, Receive, Disconnect, Return
  <2> QED
    BY <2>1, <2>2, <2>3
<1>5. ASSUME NEW w \in Workers, NEW s \in Sessions, OnClientLeave(w, s) PROVE OneWorker' /\ InOneMap' /\ LocalsTrue'
  <2>e. /\ \A v \in Workers : v # w => me'[v] = me[v]
        /\ s \notin nonUser => me'[w].pc = "leave" /\ me'[w].s = s /\ me'[w].from = pos[s] /\ me'[w].to = <<0, 0>>
    BY <1>5, <1>a, <1>b, <1>c, <1>f, BeginEffect DEF OnClientLeave, Receive, At
  <2>0. \A v \in Workers : me[v].s # s
    BY <1>5, <1>a, <1>d, <1>e, NoneApart DEF OnClientLeave, OneWorker, Receive
  <2>1. OneWorker'
    BY <1>5, <1>a, <1>b, <1>c, <1>d, <1>e, <1>f, NoneApart, <2>e, <2>0 DEF OnClientLeave, OneWorker, At, Receive, Disconnect, Return
  <2>2. InOneMap'
    BY <1>5, <1>a, <1>b, <1>c, <1>d, <1>e, <1>f, NoneApart, <2>e, <2>0 DEF OnClientLeave, OneWorker, InOneMap, At, Receive, Disconnect, Return
  <2>3. LocalsTrue'
    BY <1>5, <1>a, <1>b, <1>c, <1>d, <1>e, <1>f, NoneApart, <2>e, <2>0 DEF OnClientLeave, OneWorker, InOneMap, LocalsTrue, At, Receive, Disconnect, Return
  <2> QED
    BY <2>1, <2>2, <2>3
<1>6. ASSUME NEW s \in Sessions, OnClientJoin(s) PROVE OneWorker' /\ InOneMap' /\ LocalsTrue'
  <2>1. OneWorker'
    BY <1>6, <1>a, <1>b, <1>c, <1>d, <1>e, <1>f, NoneApart DEF OnClientJoin, OneWorker, At, Receive, Disconnect, Return
  <2>2. InOneMap'
    BY <1>6, <1>a, <1>b, <1>c, <1>d, <1>e, <1>f, NoneApart DEF OnClientJoin, OneWorker, InOneMap, At, Receive, Disconnect, Return
  <2>3. LocalsTrue'
    BY <1>6, <1>a, <1>b, <1>c, <1>d, <1>e, <1>f, NoneApart DEF OnClientJoin, OneWorker, InOneMap, LocalsTrue, At, Receive, Disconnect, Return
  <2> QED
    BY <2>1, <2>2, <2>3
<1>7. ASSUME NEW s \in Sessions, Hangup(s) PROVE OneWorker' /\ InOneMap' /\ LocalsTrue'
  <2>1. OneWorker'
    BY <1>7, <1>a, <1>b, <1>c, <1>d, <1>e, <1>f, NoneApart DEF Hangup, OneWorker, At, Receive, Disconnect, Return
  <2>2. InOneMap'
    BY <1>7, <1>a, <1>b, <1>c, <1>d, <1>e, <1>f, NoneApart DEF Hangup, OneWorker, InOneMap, At, Receive, Disconnect, Return
  <2>3. LocalsTrue'
    BY <1>7, <1>a, <1>b, <1>c, <1>d, <1>e, <1>f, NoneApart DEF Hangup, OneWorker, InOneMap, LocalsTrue, At, Receive, Disconnect, Return
  <2> QED
    BY <2>1, <2>2, <2>3
<1>8. ASSUME NEW w \in Workers, BecomeUser(w) PROVE OneWorker' /\ InOneMap' /\ LocalsTrue'
  <2>e. /\ \A v \in Workers : v # w => me'[v] = me[v]
        /\ me'[w].pc = "idle" /\ me'[w].s = None
    BY <1>8, <1>a, ReturnEffect DEF BecomeUser
  <2>1. OneWorker'
    BY <1>8, <1>a, <1>b, <1>c, <1>d, <1>e, <1>f, NoneApart, <2>e DEF BecomeUser, OneWorker, At, Receive, Disconnect, Return
  <2>2. InOneMap'
    BY <1>8, <1>a, <1>b, <1>c, <1>d, <1>e, <1>f, NoneApart, <2>e DEF BecomeUser, OneWorker, InOneMap, At, Receive, Disconnect, Return
  <2>3. LocalsTrue'
    BY <1>8, <1>a, <1>b, <1>c, <1>d, <1>e, <1>f, NoneApart, <2>e DEF BecomeUser, OneWorker, InOneMap, LocalsTrue, At, Receive, Disconnect, Return
  <2> QED
    BY <2>1, <2>2, <2>3
<1>9. ASSUME NEW w \in Workers, FirstMove(w) PROVE OneWorker' /\ InOneMap' /\ LocalsTrue'
  <2>e. /\ \A v \in Workers : v # w => me'[v] = me[v]
        /\ me'[w].pc = "unlock" /\ me'[w].s = me[w].s
        /\ me'[w].from = me[w].from /\ me'[w].to = me[w].to
    BY <1>9, <1>a, <1>b, GotoEffect DEF FirstMove
  <2>1. OneWorker'
    BY <1>9, <1>a, <1>b, <1>c, <1>d, <1>e, <1>f, NoneApart, <2>e DEF FirstMove, OneWorker, At, Receive, Disconnect, Return
  <2>2. InOneMap'
    BY <1>9, <1>a, <1>b, <1>c, <1>d, <1>e, <1>f, NoneApart, <2>e DEF FirstMove, OneWorker, InOneMap, At, Receive, Disconnect, Return
  <2>3. LocalsTrue'
    BY <1>9, <1>a, <1>b, <1>c, <1>d, <1>e, <1>f, NoneApart, <2>e DEF FirstMove, OneWorker, InOneMap, LocalsTrue, At, Receive, Disconnect, Return
  <2> QED
    BY <2>1, <2>2, <2>3
<1>10. ASSUME NEW w \in Workers, Lock1(w) PROVE OneWorker' /\ InOneMap' /\ LocalsTrue'
  <2>e. /\ \A v \in Workers : v # w => me'[v] = me[v]
        /\ me'[w].pc = "lock2" /\ me'[w].s = me[w].s
        /\ me'[w].from = me[w].from /\ me'[w].to = me[w].to
    BY <1>10, <1>a, <1>b, GotoEffect DEF Lock1
  <2>1. OneWorker'
    BY <1>10, <1>a, <1>b, <1>c, <1>d, <1>e, <1>f, NoneApart, <2>e DEF Lock1, OneWorker, At, Receive, Disconnect, Return
  <2>2. InOneMap'
    BY <1>10, <1>a, <1>b, <1>c, <1>d, <1>e, <1>f, NoneApart, <2>e DEF Lock1, OneWorker, InOneMap, At, Receive, Disconnect, Return
  <2>3. LocalsTrue'
    BY <1>10, <1>a, <1>b, <1>c, <1>d, <1>e, <1>f, NoneApart, <2>e DEF Lock1, OneWorker, InOneMap, LocalsTrue, At, Receive, Disconnect, Return
  <2> QED
    BY <2>1, <2>2, <2>3
<1>11. ASSUME NEW w \in Workers, Lock2(w) PROVE OneWorker' /\ InOneMap' /\ LocalsTrue'
  <2>e. /\ \A v \in Workers : v # w => me'[v] = me[v]
        /\ me'[w].pc = "move" /\ me'[w].s = me[w].s
        /\ me'[w].from = me[w].from /\ me'[w].to = me[w].to
    BY <1>11, <1>a, <1>b, GotoEffect DEF Lock2
  <2>1. OneWorker'
    BY <1>11, <1>a, <1>b, <1>c, <1>d, <1>e, <1>f, NoneApart, <2>e DEF Lock2, OneWorker, At, Receive, Disconnect, Return
  <2>2. InOneMap'
    BY <1>11, <1>a, <1>b, <1>c, <1>d, <1>e, <1>f, NoneApart, <2>e DEF Lock2, OneWorker, InOneMap, At, Receive, Disconnect, Return
  <2>3. LocalsTrue'
    BY <1>11, <1>a, <1>b, <1>c, <1>d, <1>e, <1>f, NoneApart, <2>e DEF Lock2, OneWorker, InOneMap, LocalsTrue, At, Receive, Disconnect, Return
  <2> QED
    BY <2>1, <2>2, <2>3
<1>12. ASSUME NEW w \in Workers, Move(w) PROVE OneWorker' /\ InOneMap' /\ LocalsTrue'
  <2>e. /\ \A v \in Workers : v # w => me'[v] = me[v]
        /\ me'[w].pc = "unlock" /\ me'[w].s = me[w].s
        /\ me'[w].from = me[w].from /\ me'[w].to = me[w].to
    BY <1>12, <1>a, <1>b, GotoEffect DEF Move
  <2>1. OneWorker'
    BY <1>12, <1>a, <1>b, <1>c, <1>d, <1>e, <1>f, NoneApart, <2>e DEF Move, OneWorker, At, Receive, Disconnect, Return
  <2>2. InOneMap'
    BY <1>12, <1>a, <1>b, <1>c, <1>d, <1>e, <1>f, NoneApart, <2>e DEF Move, OneWorker, InOneMap, At, Receive, Disconnect, Return
  <2>3. LocalsTrue'
    BY <1>12, <1>a, <1>b, <1>c, <1>d, <1>e, <1>f, NoneApart, <2>e DEF Move, OneWorker, InOneMap, LocalsTrue, At, Receive, Disconnect, Return
  <2> QED
    BY <2>1, <2>2, <2>3
<1>13. ASSUME NEW w \in Workers, Unlock(w) PROVE OneWorker' /\ InOneMap' /\ LocalsTrue'
  <2>e. /\ \A v \in Workers : v # w => me'[v] = me[v]
        /\ me'[w].pc = "done" /\ me'[w].s = me[w].s
        /\ me'[w].from = me[w].from /\ me'[w].to = me[w].to
    BY <1>13, <1>a, <1>b, GotoEffect DEF Unlock
  <2>1. OneWorker'
    BY <1>13, <1>a, <1>b, <1>c, <1>d, <1>e, <1>f, NoneApart, <2>e DEF Unlock, OneWorker, At, Receive, Disconnect, Return
  <2>2. InOneMap'
    BY <1>13, <1>a, <1>b, <1>c, <1>d, <1>e, <1>f, NoneApart, <2>e DEF Unlock, OneWorker, InOneMap, At, Receive, Disconnect, Return
  <2>3. LocalsTrue'
    BY <1>13, <1>a, <1>b, <1>c, <1>d, <1>e, <1>f, NoneApart, <2>e DEF Unlock, OneWorker, InOneMap, LocalsTrue, At, Receive, Disconnect, Return
  <2> QED
    BY <2>1, <2>2, <2>3
<1>14. ASSUME NEW w \in Workers, Moved(w) PROVE OneWorker' /\ InOneMap' /\ LocalsTrue'
  <2>e. /\ \A v \in Workers : v # w => me'[v] = me[v]
        /\ me'[w].pc = "idle" /\ me'[w].s = None
    BY <1>14, <1>a, ReturnEffect DEF Moved
  <2>1. OneWorker'
    BY <1>14, <1>a, <1>b, <1>c, <1>d, <1>e, <1>f, NoneApart, <2>e DEF Moved, OneWorker, At, Receive, Disconnect, Return
  <2>2. InOneMap'
    BY <1>14, <1>a, <1>b, <1>c, <1>d, <1>e, <1>f, NoneApart, <2>e DEF Moved, OneWorker, InOneMap, At, Receive, Disconnect, Return
  <2>3. LocalsTrue'
    BY <1>14, <1>a, <1>b, <1>c, <1>d, <1>e, <1>f, NoneApart, <2>e DEF Moved, OneWorker, InOneMap, LocalsTrue, At, Receive, Disconnect, Return
  <2> QED
    BY <2>1, <2>2, <2>3
<1>15. ASSUME NEW w \in Workers, LockNext(w) PROVE OneWorker' /\ InOneMap' /\ LocalsTrue'
  <2>e. /\ \A v \in Workers : v # w => me'[v] = me[v]
        /\ me'[w].pc = me[w].pc /\ me'[w].s = me[w].s
        /\ me'[w].from = me[w].from /\ me'[w].to = me[w].to
    <3>1. me[w].k <= 9
      BY <1>15 DEF LockNext
    <3>2. me[w].k + 1 \in 1..10
      BY <1>a, <3>1, NextPlace
    <3> QED
      BY <1>15, <1>a, <3>2, CountEffect DEF LockNext
  <2>1. OneWorker'
    BY <1>15, <1>a, <1>b, <1>c, <1>d, <1>e, <1>f, NoneApart, <2>e DEF LockNext, OneWorker, At, Receive, Disconnect, Return
  <2>2. InOneMap'
    BY <1>15, <1>a, <1>b, <1>c, <1>d, <1>e, <1>f, NoneApart, <2>e DEF LockNext, OneWorker, InOneMap, At, Receive, Disconnect, Return
  <2>3. LocalsTrue'
    BY <1>15, <1>a, <1>b, <1>c, <1>d, <1>e, <1>f, NoneApart, <2>e DEF LockNext, OneWorker, InOneMap, LocalsTrue, At, Receive, Disconnect, Return
  <2> QED
    BY <2>1, <2>2, <2>3
<1>16. ASSUME NEW w \in Workers, AllLocked(w) PROVE OneWorker' /\ InOneMap' /\ LocalsTrue'
  <2>e. /\ \A v \in Workers : v # w => me'[v] = me[v]
        /\ me'[w].pc = "send" /\ me'[w].s = me[w].s /\ me'[w].from = me[w].from /\ me'[w].to = me[w].to
    BY <1>16, <1>a, AllLockedEffect
  <2>1. OneWorker'
    BY <1>16, <1>a, <1>b, <1>c, <1>d, <1>e, <1>f, NoneApart, <2>e DEF AllLocked, OneWorker, At, Receive, Disconnect, Return
  <2>2. InOneMap'
    BY <1>16, <1>a, <1>b, <1>c, <1>d, <1>e, <1>f, NoneApart, <2>e DEF AllLocked, OneWorker, InOneMap, At, Receive, Disconnect, Return
  <2>3. LocalsTrue'
    BY <1>16, <1>a, <1>b, <1>c, <1>d, <1>e, <1>f, NoneApart, <2>e DEF AllLocked, OneWorker, InOneMap, LocalsTrue, At, Receive, Disconnect, Return
  <2> QED
    BY <2>1, <2>2, <2>3
<1>17. ASSUME NEW w \in Workers, SendOne(w) PROVE OneWorker' /\ InOneMap' /\ LocalsTrue'
  <2>e. /\ \A v \in Workers : v # w => me'[v] = me[v]
        /\ me'[w].pc = me[w].pc /\ me'[w].s = me[w].s
        /\ me'[w].from = me[w].from /\ me'[w].to = me[w].to
    <3>1. me[w].k <= 9
      BY <1>17 DEF SendOne
    <3>2. me[w].k + 1 \in 1..10
      BY <1>a, <3>1, NextPlace
    <3> QED
      BY <1>17, <1>a, <3>2, CountEffect DEF SendOne
  <2>1. OneWorker'
    BY <1>17, <1>a, <1>b, <1>c, <1>d, <1>e, <1>f, NoneApart, <2>e DEF SendOne, OneWorker, At, Receive, Disconnect, Return
  <2>2. InOneMap'
    BY <1>17, <1>a, <1>b, <1>c, <1>d, <1>e, <1>f, NoneApart, <2>e DEF SendOne, OneWorker, InOneMap, At, Receive, Disconnect, Return
  <2>3. LocalsTrue'
    BY <1>17, <1>a, <1>b, <1>c, <1>d, <1>e, <1>f, NoneApart, <2>e DEF SendOne, OneWorker, InOneMap, LocalsTrue, At, Receive, Disconnect, Return
  <2> QED
    BY <2>1, <2>2, <2>3
<1>18. ASSUME NEW w \in Workers, Sent(w) PROVE OneWorker' /\ InOneMap' /\ LocalsTrue'
  <2>e. /\ \A v \in Workers : v # w => me'[v] = me[v]
        /\ me'[w].pc = "idle" /\ me'[w].s = None
    BY <1>18, <1>a, ReturnEffect DEF Sent
  <2>1. OneWorker'
    BY <1>18, <1>a, <1>b, <1>c, <1>d, <1>e, <1>f, NoneApart, <2>e DEF Sent, OneWorker, At, Receive, Disconnect, Return
  <2>2. InOneMap'
    BY <1>18, <1>a, <1>b, <1>c, <1>d, <1>e, <1>f, NoneApart, <2>e DEF Sent, OneWorker, InOneMap, At, Receive, Disconnect, Return
  <2>3. LocalsTrue'
    BY <1>18, <1>a, <1>b, <1>c, <1>d, <1>e, <1>f, NoneApart, <2>e DEF Sent, OneWorker, InOneMap, LocalsTrue, At, Receive, Disconnect, Return
  <2> QED
    BY <2>1, <2>2, <2>3
<1>19. ASSUME NEW w \in Workers, Remove(w) PROVE OneWorker' /\ InOneMap' /\ LocalsTrue'
  <2>e. /\ \A v \in Workers : v # w => me'[v] = me[v]
        /\ me'[w].pc = "remove" /\ me'[w].s = me[w].s
        /\ me'[w].from = me[w].from /\ me'[w].to = me[w].to
    BY <1>19, <1>a, <1>b, GotoEffect DEF Remove
  <2>1. OneWorker'
    BY <1>19, <1>a, <1>b, <1>c, <1>d, <1>e, <1>f, NoneApart, <2>e DEF Remove, OneWorker, At, Receive, Disconnect, Return
  <2>2. InOneMap'
    BY <1>19, <1>a, <1>b, <1>c, <1>d, <1>e, <1>f, NoneApart, <2>e DEF Remove, OneWorker, InOneMap, At, Receive, Disconnect, Return
  <2>3. LocalsTrue'
    BY <1>19, <1>a, <1>b, <1>c, <1>d, <1>e, <1>f, NoneApart, <2>e DEF Remove, OneWorker, InOneMap, LocalsTrue, At, Receive, Disconnect, Return
  <2> QED
    BY <2>1, <2>2, <2>3
<1>20. ASSUME NEW w \in Workers, FreeUser(w) PROVE OneWorker' /\ InOneMap' /\ LocalsTrue'
  <2>e. /\ \A v \in Workers : v # w => me'[v] = me[v]
        /\ me'[w].pc = "idle" /\ me'[w].s = None
    BY <1>20, <1>a, ReturnEffect DEF FreeUser
  <2>1. OneWorker'
    BY <1>20, <1>a, <1>b, <1>c, <1>d, <1>e, <1>f, NoneApart, <2>e DEF FreeUser, OneWorker, At, Receive, Disconnect, Return
  <2>2. InOneMap'
    BY <1>20, <1>a, <1>b, <1>c, <1>d, <1>e, <1>f, NoneApart, <2>e DEF FreeUser, OneWorker, InOneMap, At, Receive, Disconnect, Return
  <2>3. LocalsTrue'
    BY <1>20, <1>a, <1>b, <1>c, <1>d, <1>e, <1>f, NoneApart, <2>e DEF FreeUser, OneWorker, InOneMap, LocalsTrue, At, Receive, Disconnect, Return
  <2> QED
    BY <2>1, <2>2, <2>3
<1>21. CASE UNCHANGED vars
  BY <1>21 DEF vars, OneWorker, InOneMap, LocalsTrue, At
<1> QED
  BY <1>1, <1>2, <1>3, <1>4, <1>5, <1>6, <1>7, <1>8, <1>9, <1>10, <1>11, <1>12, <1>13, <1>14, <1>15, <1>16, <1>17, <1>18, <1>19, <1>20, <1>21
     DEF Next, Step, Message

-----------------------------------------------------------------------------
(* Locks *)

\* Every step that takes or releases locks agrees with its place in the handler.
LEMMA LockStep ==
  ASSUME IInv, [Next]_vars
  PROVE  LocksHeld' /\ LocksKept'
<1> USE DEF IInv
<1>a. /\ me \in [Workers -> Locals] /\ <<0, 0>> \in Sectors
      /\ \A w \in Workers : /\ me[w].from \in Sectors /\ me[w].to \in Sectors
                            /\ me[w].s \in Sessions \cup {None} /\ me[w].k \in 1..10
  BY Sizes DEF Sectors, Locals, TypeOK
<1>b. PCs = {"idle", "login", "first", "lock1", "lock2", "move", "unlock", "around", "send",
             "leave", "remove", "done"}
  BY DEF PCs
<1>c. \A w \in Workers : me[w].pc # "idle" => me[w].s \in Sessions
  BY <1>a DEF OneWorker
<1>d. excl \in [Sectors -> Workers \cup {None}] /\ shared \in [Sectors -> SUBSET Workers]
  BY DEF TypeOK
<1>f. pos \in [Sessions -> Sectors]
  BY DEF TypeOK
<1>g. \A w \in Workers, j \in 1..9 : SectorRangeCheck(Around(me[w].from, j))
                                     <=> Around(me[w].from, j) \in Sectors
  BY <1>a, AroundType, InRange
<1>h. \A w \in Workers : /\ FirstOf(me[w].from, me[w].to) \in Sectors
                         /\ SecondOf(me[w].from, me[w].to) \in Sectors
                         /\ {FirstOf(me[w].from, me[w].to), SecondOf(me[w].from, me[w].to)}
                            = {me[w].from, me[w].to}
  <2> TAKE w \in Workers
  <2>1. me[w].from \in Sectors /\ me[w].to \in Sectors
    BY <1>a
  <2> QED
    BY <2>1, FirstBeforeSecond
<1> USE DEF maps, places, locks, told
<1>1. ASSUME NEW w \in Workers, NEW s \in Sessions, TooEarly(w, s) PROVE LocksHeld' /\ LocksKept'
  <2>l. UNCHANGED <<excl, shared>>
    BY <1>1 DEF TooEarly
  <2>e. UNCHANGED me
    BY <1>1 DEF TooEarly
  <2> QED
    BY <1>a, <1>d, <1>g, <2>l, <2>e DEF LocksHeld, LocksKept, At
<1>2. ASSUME NEW w \in Workers, NEW s \in Sessions, Login(w, s) PROVE LocksHeld' /\ LocksKept'
  <2>e. /\ \A v \in Workers : v # w => me'[v] = me[v]
        /\ \/ me' = me
           \/ /\ me'[w].pc = "login" /\ me'[w].from = <<0, 0>>
              /\ me'[w].to = <<0, 0>> /\ me'[w].k = 1
    BY <1>2, <1>a, <1>b, <1>c, <1>f, BeginEffect DEF Login, Receive, At
  <2>l. UNCHANGED <<excl, shared>>
    BY <1>2 DEF Login
  <2>p. me[w].pc = "idle"
    BY <1>2 DEF Login, At, Receive
  <2>1. LocksHeld'
    BY <1>a, <1>d, <1>g, NoneApart, <2>e, <2>l, <2>p DEF LocksHeld, LocksKept, At
  <2>2. LocksKept'
    BY <1>a, <1>d, <1>g, NoneApart, <2>e, <2>l, <2>p DEF LocksHeld, LocksKept, At
  <2> QED
    BY <2>1, <2>2
<1>3. ASSUME NEW w \in Workers, NEW s \in Sessions, ChatMessage(w, s) PROVE LocksHeld' /\ LocksKept'
  <2>e. /\ \A v \in Workers : v # w => me'[v] = me[v]
        /\ me'[w].pc = "around" /\ me'[w].from = pos[s]
        /\ me'[w].to = <<0, 0>> /\ me'[w].k = 1
    BY <1>3, <1>a, <1>b, <1>c, <1>f, BeginEffect DEF ChatMessage, Receive, At
  <2>l. UNCHANGED <<excl, shared>>
    BY <1>3 DEF ChatMessage
  <2>p. me[w].pc = "idle"
    BY <1>3 DEF ChatMessage, At, Receive
  <2>1. LocksHeld'
    BY <1>a, <1>d, <1>g, NoneApart, <2>e, <2>l, <2>p DEF LocksHeld, LocksKept, At
  <2>2. LocksKept'
    BY <1>a, <1>d, <1>g, NoneApart, <2>e, <2>l, <2>p DEF LocksHeld, LocksKept, At
  <2> QED
    BY <2>1, <2>2
<1>4. ASSUME NEW w \in Workers, NEW s \in Sessions, NEW to \in Places, SectorMove(w, s, to) PROVE LocksHeld' /\ LocksKept'
  <2>e. /\ \A v \in Workers : v # w => me'[v] = me[v]
        /\ \/ me' = me
           \/ /\ me'[w].pc = (IF s \in sector THEN "lock1" ELSE "first") /\ me'[w].from = pos[s]
              /\ me'[w].to = to /\ me'[w].k = 1
    BY <1>4, <1>a, <1>b, <1>c, <1>f, BeginEffect, InRange, PlacesAreInt DEF SectorMove, Receive, At
  <2>l. UNCHANGED <<excl, shared>>
    BY <1>4 DEF SectorMove
  <2>p. me[w].pc = "idle"
    BY <1>4 DEF SectorMove, At, Receive
  <2>1. LocksHeld'
    BY <1>a, <1>d, <1>g, NoneApart, <2>e, <2>l, <2>p DEF LocksHeld, LocksKept, At
  <2>2. LocksKept'
    BY <1>a, <1>d, <1>g, NoneApart, <2>e, <2>l, <2>p DEF LocksHeld, LocksKept, At
  <2> QED
    BY <2>1, <2>2
<1>5. ASSUME NEW w \in Workers, NEW s \in Sessions, OnClientLeave(w, s) PROVE LocksHeld' /\ LocksKept'
  <2>e. /\ \A v \in Workers : v # w => me'[v] = me[v]
        /\ \/ me' = me
           \/ /\ me'[w].pc = "leave" /\ me'[w].from = pos[s]
              /\ me'[w].to = <<0, 0>> /\ me'[w].k = 1
    BY <1>5, <1>a, <1>b, <1>c, <1>f, BeginEffect DEF OnClientLeave, Receive, At
  <2>l. UNCHANGED <<excl, shared>>
    BY <1>5 DEF OnClientLeave
  <2>p. me[w].pc = "idle"
    BY <1>5 DEF OnClientLeave, At, Receive
  <2>1. LocksHeld'
    BY <1>a, <1>d, <1>g, NoneApart, <2>e, <2>l, <2>p DEF LocksHeld, LocksKept, At
  <2>2. LocksKept'
    BY <1>a, <1>d, <1>g, NoneApart, <2>e, <2>l, <2>p DEF LocksHeld, LocksKept, At
  <2> QED
    BY <2>1, <2>2
<1>6. ASSUME NEW s \in Sessions, OnClientJoin(s) PROVE LocksHeld' /\ LocksKept'
  <2>l. UNCHANGED <<excl, shared>>
    BY <1>6 DEF OnClientJoin
  <2>e. UNCHANGED me
    BY <1>6 DEF OnClientJoin
  <2> QED
    BY <1>a, <1>d, <1>g, <2>l, <2>e DEF LocksHeld, LocksKept, At
<1>7. ASSUME NEW s \in Sessions, Hangup(s) PROVE LocksHeld' /\ LocksKept'
  <2>l. UNCHANGED <<excl, shared>>
    BY <1>7 DEF Hangup
  <2>e. UNCHANGED me
    BY <1>7 DEF Hangup
  <2> QED
    BY <1>a, <1>d, <1>g, <2>l, <2>e DEF LocksHeld, LocksKept, At
<1>8. ASSUME NEW w \in Workers, BecomeUser(w) PROVE LocksHeld' /\ LocksKept'
  <2>e. /\ \A v \in Workers : v # w => me'[v] = me[v]
        /\ me'[w].pc = "idle"
    BY <1>8, <1>a, ReturnEffect DEF BecomeUser
  <2>l. UNCHANGED <<excl, shared>>
    BY <1>8 DEF BecomeUser
  <2>p. me[w].pc = "login"
    BY <1>8 DEF BecomeUser, At, Receive
  <2>1. LocksHeld'
    BY <1>a, <1>d, <1>g, NoneApart, <2>e, <2>l, <2>p DEF LocksHeld, LocksKept, At
  <2>2. LocksKept'
    BY <1>a, <1>d, <1>g, NoneApart, <2>e, <2>l, <2>p DEF LocksHeld, LocksKept, At
  <2> QED
    BY <2>1, <2>2
<1>9. ASSUME NEW w \in Workers, FirstMove(w) PROVE LocksHeld' /\ LocksKept'
  <2>e. /\ \A v \in Workers : v # w => me'[v] = me[v]
        /\ me'[w].pc = "unlock" /\ me'[w].k = me[w].k
        /\ me'[w].from = me[w].from /\ me'[w].to = me[w].to
    BY <1>9, <1>a, <1>b, GotoEffect DEF FirstMove
  <2>l. /\ excl[me[w].to] = None /\ shared[me[w].to] = {}
        /\ excl' = [excl EXCEPT ![me[w].to] = w] /\ shared' = shared
    BY <1>9 DEF FirstMove, Acquire
  <2>p. me[w].pc = "first"
    BY <1>9 DEF FirstMove, At, Receive
  <2>1. LocksHeld'
    BY <1>a, <1>d, <1>g, NoneApart, <2>e, <2>l, <2>p DEF LocksHeld, LocksKept, At
  <2>2. LocksKept'
    BY <1>a, <1>d, <1>g, NoneApart, <2>e, <2>l, <2>p DEF LocksHeld, LocksKept, At
  <2> QED
    BY <2>1, <2>2
<1>10. ASSUME NEW w \in Workers, Lock1(w) PROVE LocksHeld' /\ LocksKept'
  <2>e. /\ \A v \in Workers : v # w => me'[v] = me[v]
        /\ me'[w].pc = "lock2" /\ me'[w].k = me[w].k
        /\ me'[w].from = me[w].from /\ me'[w].to = me[w].to
    BY <1>10, <1>a, <1>b, GotoEffect DEF Lock1
  <2>l. /\ excl[FirstOf(me[w].from, me[w].to)] = None /\ shared[FirstOf(me[w].from, me[w].to)] = {}
        /\ excl' = [excl EXCEPT ![FirstOf(me[w].from, me[w].to)] = w] /\ shared' = shared
    BY <1>10 DEF Lock1, Acquire
  <2>p. me[w].pc = "lock1"
    BY <1>10 DEF Lock1, At, Receive
  <2>1. LocksHeld'
    BY <1>a, <1>d, <1>g, NoneApart, <2>e, <2>l, <2>p, <1>h DEF LocksHeld, LocksKept, At
  <2>2. LocksKept'
    BY <1>a, <1>d, <1>g, NoneApart, <2>e, <2>l, <2>p, <1>h DEF LocksHeld, LocksKept, At
  <2> QED
    BY <2>1, <2>2
<1>11. ASSUME NEW w \in Workers, Lock2(w) PROVE LocksHeld' /\ LocksKept'
  <2>e. /\ \A v \in Workers : v # w => me'[v] = me[v]
        /\ me'[w].pc = "move" /\ me'[w].k = me[w].k
        /\ me'[w].from = me[w].from /\ me'[w].to = me[w].to
    BY <1>11, <1>a, <1>b, GotoEffect DEF Lock2
  <2>l. /\ excl[SecondOf(me[w].from, me[w].to)] = None /\ shared[SecondOf(me[w].from, me[w].to)] = {}
        /\ excl' = [excl EXCEPT ![SecondOf(me[w].from, me[w].to)] = w] /\ shared' = shared
    BY <1>11 DEF Lock2, Acquire
  <2>p. me[w].pc = "lock2"
    BY <1>11 DEF Lock2, At, Receive
  <2> DEFINE P == FirstOf(me[w].from, me[w].to)
             Q == SecondOf(me[w].from, me[w].to)
  <2>3. P \in Sectors /\ Q \in Sectors /\ {P, Q} = {me[w].from, me[w].to}
    BY <1>h
  <2>4. \A p \in Sectors : excl'[p] = IF p = Q THEN w ELSE excl[p]
    BY <2>l, <1>d
  <2>5. \A p \in Sectors : excl[p] = w => p = P
    BY <2>p DEF LocksHeld, At
  <2>6. excl[P] = w
    BY <2>p DEF LocksKept, At
  <2>7. excl'[P] = w /\ excl'[Q] = w
    BY <2>3, <2>4, <2>6
  <2>1. LocksHeld'
    <3> HIDE DEF P, Q
    <3>1. \A p \in Sectors : excl'[p] = w => p \in {me[w].from, me[w].to}
      BY <2>3, <2>4, <2>5
    <3>2. \A v \in Workers, p \in Sectors : v # w /\ excl'[p] = v => excl[p] = v
      BY <2>4
    <3>3. shared' = shared
      BY <2>l
    <3> QED
      BY <2>e, <2>p, <3>1, <3>2, <3>3 DEF LocksHeld, At
  <2>2. LocksKept'
    <3>1. excl'[me[w].from] = w /\ excl'[me[w].to] = w
      BY <2>3, <2>7
    <3>2. \A v \in Workers, p \in Sectors : v # w /\ excl[p] = v => excl'[p] = v
      BY <2>l, <2>4, NoneApart
    <3>3. shared' = shared /\ \A p \in Sectors : excl'[p] # None => shared[p] = {}
      BY <2>l, <2>4 DEF LocksKept
    <3> HIDE DEF P, Q
    <3> QED
      BY <1>a, <1>h, <2>e, <2>p, <3>1, <3>2, <3>3 DEF LocksKept, At
  <2> QED
    BY <2>1, <2>2
<1>12. ASSUME NEW w \in Workers, Move(w) PROVE LocksHeld' /\ LocksKept'
  <2>e. /\ \A v \in Workers : v # w => me'[v] = me[v]
        /\ me'[w].pc = "unlock" /\ me'[w].k = me[w].k
        /\ me'[w].from = me[w].from /\ me'[w].to = me[w].to
    BY <1>12, <1>a, <1>b, GotoEffect DEF Move
  <2>l. UNCHANGED <<excl, shared>>
    BY <1>12 DEF Move
  <2>p. me[w].pc = "move"
    BY <1>12 DEF Move, At, Receive
  <2>1. LocksHeld'
    BY <1>a, <1>d, <1>g, NoneApart, <2>e, <2>l, <2>p DEF LocksHeld, LocksKept, At
  <2>2. LocksKept'
    BY <1>a, <1>d, <1>g, NoneApart, <2>e, <2>l, <2>p DEF LocksHeld, LocksKept, At
  <2> QED
    BY <2>1, <2>2
<1>13. ASSUME NEW w \in Workers, Unlock(w) PROVE LocksHeld' /\ LocksKept'
  <2>e. /\ \A v \in Workers : v # w => me'[v] = me[v]
        /\ me'[w].pc = "done" /\ me'[w].k = me[w].k
        /\ me'[w].from = me[w].from /\ me'[w].to = me[w].to
    BY <1>13, <1>a, <1>b, GotoEffect DEF Unlock
  <2>l. /\ excl' = [p \in Sectors |-> IF excl[p] = w THEN None ELSE excl[p]]
        /\ shared' = shared
    BY <1>13 DEF Unlock, ReleaseAll
  <2>p. me[w].pc = "unlock"
    BY <1>13 DEF Unlock, At, Receive
  <2>1. LocksHeld'
    BY <1>a, <1>d, <1>g, NoneApart, <2>e, <2>l, <2>p DEF LocksHeld, LocksKept, At
  <2>2. LocksKept'
    BY <1>a, <1>d, <1>g, NoneApart, <2>e, <2>l, <2>p, <1>h DEF LocksHeld, LocksKept, At
  <2> QED
    BY <2>1, <2>2
<1>14. ASSUME NEW w \in Workers, Moved(w) PROVE LocksHeld' /\ LocksKept'
  <2>e. /\ \A v \in Workers : v # w => me'[v] = me[v]
        /\ me'[w].pc = "idle"
    BY <1>14, <1>a, ReturnEffect DEF Moved
  <2>l. UNCHANGED <<excl, shared>>
    BY <1>14 DEF Moved
  <2>p. me[w].pc = "done"
    BY <1>14 DEF Moved, At, Receive
  <2>1. LocksHeld'
    BY <1>a, <1>d, <1>g, NoneApart, <2>e, <2>l, <2>p DEF LocksHeld, LocksKept, At
  <2>2. LocksKept'
    BY <1>a, <1>d, <1>g, NoneApart, <2>e, <2>l, <2>p DEF LocksHeld, LocksKept, At
  <2> QED
    BY <2>1, <2>2
<1>15. ASSUME NEW w \in Workers, LockNext(w) PROVE LocksHeld' /\ LocksKept'
  <2>e. /\ \A v \in Workers : v # w => me'[v] = me[v]
        /\ me'[w].pc = me[w].pc /\ me'[w].k = me[w].k + 1
        /\ me'[w].from = me[w].from /\ me'[w].to = me[w].to
    <3>1. me[w].k <= 9
      BY <1>15 DEF LockNext
    <3>2. me[w].k + 1 \in 1..10
      BY <1>a, <3>1, NextPlace
    <3> QED
      BY <1>15, <1>a, <3>2, CountEffect DEF LockNext
  <2>l. /\ excl' = excl
        /\ IF SectorRangeCheck(Around(me[w].from, me[w].k))
           THEN /\ excl[Around(me[w].from, me[w].k)] = None
                /\ shared' = [shared EXCEPT ![Around(me[w].from, me[w].k)] = @ \cup {w}]
           ELSE shared' = shared
    BY <1>15 DEF LockNext, AcquireShared
  <2>p. me[w].pc = "around" /\ me[w].k <= 9
    BY <1>15 DEF LockNext, At, Receive
  <2>1. LocksHeld'
    BY <1>a, <1>d, <1>g, NoneApart, <2>e, <2>l, <2>p DEF LocksHeld, LocksKept, At
  <2>2. LocksKept'
    <3>1. \A q \in Sectors : excl'[q] # None => shared'[q] = {}
      BY <1>d, <2>l DEF LocksKept
    <3>2. \A v \in Workers, q \in Sectors : v \in shared[q] => v \in shared'[q]
      BY <1>d, <2>l
    <3>3. ASSUME NEW v \in Workers, v # w, NEW j \in 1..9, SectorRangeCheck(Around(me[v].from, j))
          PROVE  /\ At(v, "around") /\ j < me[v].k => v \in shared'[Around(me[v].from, j)]
                 /\ At(v, "send") /\ j >= me[v].k => v \in shared'[Around(me[v].from, j)]
      BY <1>g, <3>2, <3>3 DEF LocksKept
    <3>4. ASSUME NEW j \in 1..9, SectorRangeCheck(Around(me[w].from, j)), j < me[w].k + 1
          PROVE  w \in shared'[Around(me[w].from, j)]
      <4>1. j < me[w].k \/ j = me[w].k
        BY <1>a, <3>4
      <4>2. CASE j < me[w].k
        BY <1>g, <2>p, <3>2, <3>4, <4>2 DEF LocksKept, At
      <4>3. CASE j = me[w].k
        BY <1>d, <1>g, <2>l, <3>4, <4>3
      <4> QED
        BY <4>1, <4>2, <4>3
    <3> QED
      BY <2>e, <2>l, <2>p, <3>1, <3>3, <3>4 DEF LocksKept, At
  <2> QED
    BY <2>1, <2>2
<1>16. ASSUME NEW w \in Workers, AllLocked(w) PROVE LocksHeld' /\ LocksKept'
  <2>e. /\ \A v \in Workers : v # w => me'[v] = me[v]
        /\ me'[w].pc = "send" /\ me'[w].from = me[w].from
        /\ me'[w].to = me[w].to /\ me'[w].k = 1
    BY <1>16, <1>a, AllLockedEffect
  <2>l. UNCHANGED <<excl, shared>>
    BY <1>16 DEF AllLocked
  <2>p. me[w].pc = "around" /\ me[w].k = 10
    BY <1>16 DEF AllLocked, At, Receive
  <2>1. LocksHeld'
    BY <1>a, <1>d, <1>g, NoneApart, <2>e, <2>l, <2>p DEF LocksHeld, LocksKept, At
  <2>2. LocksKept'
    BY <1>a, <1>d, <1>g, NoneApart, <2>e, <2>l, <2>p DEF LocksHeld, LocksKept, At
  <2> QED
    BY <2>1, <2>2
<1>17. ASSUME NEW w \in Workers, SendOne(w) PROVE LocksHeld' /\ LocksKept'
  <2>e. /\ \A v \in Workers : v # w => me'[v] = me[v]
        /\ me'[w].pc = me[w].pc /\ me'[w].k = me[w].k + 1
        /\ me'[w].from = me[w].from /\ me'[w].to = me[w].to
    <3>1. me[w].k <= 9
      BY <1>17 DEF SendOne
    <3>2. me[w].k + 1 \in 1..10
      BY <1>a, <3>1, NextPlace
    <3> QED
      BY <1>17, <1>a, <3>2, CountEffect DEF SendOne
  <2>l. /\ excl' = excl
        /\ IF SectorRangeCheck(Around(me[w].from, me[w].k))
           THEN \A q \in Sectors : shared'[q] = IF q = Around(me[w].from, me[w].k)
                                                THEN shared[q] \ {w} ELSE shared[q]
           ELSE shared' = shared
    BY <1>17, <1>d DEF SendOne, Kept
  <2>p. me[w].pc = "send" /\ me[w].k <= 9
    BY <1>17 DEF SendOne, At, Receive
  <2> DEFINE P == Around(me[w].from, me[w].k)
  <2>3. me[w].k \in 1..9
    BY <1>a, <2>p
  <2>4. \A q \in Sectors : shared'[q] = IF q = P THEN shared[q] \ {w} ELSE shared[q]
    BY <2>l, <2>3, <1>g
  <2>5. \A j \in 1..9 : j >= me[w].k + 1 => Around(me[w].from, j) # P
    BY <2>3, <1>a, AroundDifferent
  <2> HIDE DEF P
  <2>1. LocksHeld'
    <3>1. \A q \in Sectors : w \in shared'[q] =>
             \E j \in 1..9 : j >= me[w].k + 1 /\ q = Around(me[w].from, j)
      <4> SUFFICES ASSUME NEW q \in Sectors, w \in shared'[q]
                   PROVE  \E j \in 1..9 : j >= me[w].k + 1 /\ q = Around(me[w].from, j)
        OBVIOUS
      <4>1. w \in shared[q] /\ q # P
        BY <2>4
      <4>2. PICK j \in 1..9 : j >= me[w].k /\ q = Around(me[w].from, j)
        BY <4>1, <2>p DEF LocksHeld, At
      <4>3. j # me[w].k
        BY <4>1, <4>2 DEF P
      <4> QED
        BY <4>2, <4>3, <2>3
    <3>2. \A v \in Workers, q \in Sectors : v # w /\ v \in shared'[q] => v \in shared[q]
      BY <2>4
    <3>3. excl' = excl /\ \A q \in Sectors : excl[q] # w
      BY <2>l, <2>p DEF LocksHeld, At
    <3> QED
      BY <2>e, <2>p, <3>1, <3>2, <3>3 DEF LocksHeld, At
  <2>2. LocksKept'
    <3>1. \A j \in 1..9 : SectorRangeCheck(Around(me[w].from, j)) /\ j >= me[w].k + 1 =>
             w \in shared'[Around(me[w].from, j)]
      <4> SUFFICES ASSUME NEW j \in 1..9, SectorRangeCheck(Around(me[w].from, j)), j >= me[w].k + 1
                   PROVE  w \in shared'[Around(me[w].from, j)]
        OBVIOUS
      <4>1. w \in shared[Around(me[w].from, j)]
        BY <2>p, <2>3 DEF LocksKept, At
      <4> QED
        BY <4>1, <2>4, <2>5, <1>g
    <3>2. \A v \in Workers, q \in Sectors : v # w /\ v \in shared[q] => v \in shared'[q]
      BY <2>4
    <3>3. excl' = excl /\ \A q \in Sectors : excl[q] # None => shared'[q] = {}
      BY <2>l, <2>4 DEF LocksKept
    <3> QED
      BY <1>a, <1>g, <2>e, <2>p, <3>1, <3>2, <3>3 DEF LocksKept, At
  <2> QED
    BY <2>1, <2>2
<1>18. ASSUME NEW w \in Workers, Sent(w) PROVE LocksHeld' /\ LocksKept'
  <2>e. /\ \A v \in Workers : v # w => me'[v] = me[v]
        /\ me'[w].pc = "idle"
    BY <1>18, <1>a, ReturnEffect DEF Sent
  <2>l. UNCHANGED <<excl, shared>>
    BY <1>18 DEF Sent
  <2>p. me[w].pc = "send" /\ me[w].k = 10
    BY <1>18 DEF Sent, At, Receive
  <2>1. LocksHeld'
    BY <1>a, <1>d, <1>g, NoneApart, <2>e, <2>l, <2>p DEF LocksHeld, LocksKept, At
  <2>2. LocksKept'
    BY <1>a, <1>d, <1>g, NoneApart, <2>e, <2>l, <2>p DEF LocksHeld, LocksKept, At
  <2> QED
    BY <2>1, <2>2
<1>19. ASSUME NEW w \in Workers, Remove(w) PROVE LocksHeld' /\ LocksKept'
  <2>e. /\ \A v \in Workers : v # w => me'[v] = me[v]
        /\ me'[w].pc = "remove" /\ me'[w].k = me[w].k
        /\ me'[w].from = me[w].from /\ me'[w].to = me[w].to
    BY <1>19, <1>a, <1>b, GotoEffect DEF Remove
  <2>l. /\ shared' = shared
        /\ \/ excl' = excl
           \/ /\ excl[me[w].from] = None /\ shared[me[w].from] = {}
              /\ excl' = [excl EXCEPT ![me[w].from] = w]
    BY <1>19 DEF Remove, Acquire
  <2>p. me[w].pc = "leave"
    BY <1>19 DEF Remove, At, Receive
  <2>1. LocksHeld'
    BY <1>a, <1>d, <1>g, NoneApart, <2>e, <2>l, <2>p DEF LocksHeld, LocksKept, At
  <2>2. LocksKept'
    BY <1>a, <1>d, <1>g, NoneApart, <2>e, <2>l, <2>p, <1>h DEF LocksHeld, LocksKept, At
  <2> QED
    BY <2>1, <2>2
<1>20. ASSUME NEW w \in Workers, FreeUser(w) PROVE LocksHeld' /\ LocksKept'
  <2>e. /\ \A v \in Workers : v # w => me'[v] = me[v]
        /\ me'[w].pc = "idle"
    BY <1>20, <1>a, ReturnEffect DEF FreeUser
  <2>l. /\ excl' = [p \in Sectors |-> IF excl[p] = w THEN None ELSE excl[p]]
        /\ shared' = shared
    BY <1>20 DEF FreeUser, ReleaseAll
  <2>p. me[w].pc = "remove"
    BY <1>20 DEF FreeUser, At, Receive
  <2>1. LocksHeld'
    BY <1>a, <1>d, <1>g, NoneApart, <2>e, <2>l, <2>p DEF LocksHeld, LocksKept, At
  <2>2. LocksKept'
    BY <1>a, <1>d, <1>g, NoneApart, <2>e, <2>l, <2>p, <1>h DEF LocksHeld, LocksKept, At
  <2> QED
    BY <2>1, <2>2
<1>21. CASE UNCHANGED vars
  BY <1>21 DEF vars, LocksHeld, LocksKept, At
<1> QED
  BY <1>1, <1>2, <1>3, <1>4, <1>5, <1>6, <1>7, <1>8, <1>9, <1>10, <1>11, <1>12, <1>13, <1>14, <1>15, <1>16, <1>17, <1>18, <1>19, <1>20, <1>21
     DEF Next, Step, Message

-----------------------------------------------------------------------------
(* Lists *)

\* A step of worker w leaves a session that is not in its hands listed where it was.
LEMMA ListedOther ==
  ASSUME NEW w \in Workers, NEW t \in Sessions, ListedAt(t),
         \A v \in Workers : v # w => me'[v] = me[v],
         me[w].s # t, me'[w].s # t,
         \A p \in Sectors : t \in list'[p] <=> t \in list[p],
         t \in sector' <=> t \in sector, t \in users' <=> t \in users, pos'[t] = pos[t]
  PROVE  ListedAt(t)'
<1>1. \A v \in Workers : me[v].s = t \/ me'[v].s = t => me'[v] = me[v]
  OBVIOUS
<1>2. Moving(t)' <=> Moving(t)
  BY <1>1 DEF Moving
<1>3. Settled(t)' <=> Settled(t)
  BY <1>1 DEF Settled, At
<1> QED
  BY <1>1, <1>2, <1>3 DEF ListedAt

\* Every step leaves a user listed where its worker thinks it is.
LEMMA ListedStep ==
  ASSUME IInv, [Next]_vars
  PROVE  Listed'
<1> USE DEF IInv
<1>a. /\ me \in [Workers -> Locals] /\ <<0, 0>> \in Sectors
      /\ \A w \in Workers : /\ me[w].from \in Sectors /\ me[w].to \in Sectors
                            /\ me[w].s \in Sessions \cup {None} /\ me[w].k \in 1..10
  BY Sizes DEF Sectors, Locals, TypeOK
<1>b. PCs = {"idle", "login", "first", "lock1", "lock2", "move", "unlock", "around", "send",
             "leave", "remove", "done"}
  BY DEF PCs
<1>c. \A w \in Workers : me[w].pc # "idle" => me[w].s \in Sessions
  BY <1>a DEF OneWorker
<1>d. \A w \in Workers : me[w].pc \in PCs
  BY <1>a DEF Locals
<1>e. Handling = PCs \ {"idle", "leave", "remove"} /\ Leaving = {"leave", "remove"}
  BY <1>b DEF Handling, Leaving
<1>f. /\ pos \in [Sessions -> Sectors] /\ list \in [Sectors -> SUBSET Sessions]
      /\ sector \subseteq Sessions /\ users \subseteq Sessions
  BY DEF TypeOK
<1>g. \A w, v \in Workers : w # v /\ me[w].pc # "idle" => me[v].s # me[w].s
  BY DEF OneWorker
<1>i. \A w \in Workers : me[w].pc = "idle" => me[w].s = None
  BY DEF OneWorker
<1>h. \A s \in Sessions : ListedAt(s)
  BY DEF Listed
<1> USE DEF maps, places, locks, told
<1>1. ASSUME NEW w \in Workers, NEW s \in Sessions, TooEarly(w, s) PROVE Listed'
  <2>l. UNCHANGED <<me, list, sector, users, pos>>
    BY <1>1 DEF TooEarly
  <2> QED
    BY <2>l DEF Listed, ListedAt, Moving, Settled, At
<1>2. ASSUME NEW w \in Workers, NEW s \in Sessions, Login(w, s) PROVE Listed'
  <2>e. /\ \A v \in Workers : v # w => me'[v] = me[v]
        /\ \/ me' = me
           \/ /\ me'[w].pc = "login" /\ me'[w].s = s
              /\ me'[w].from = <<0, 0>> /\ me'[w].to = <<0, 0>> /\ me'[w].k = 1
    BY <1>2, <1>a, <1>b, <1>c, <1>f, BeginEffect DEF Login, Receive, At
  <2>p. me[w].pc = "idle"
    BY <1>2, <1>c DEF Login, At, Receive
  <2>u. \A v \in Workers : me[v].s # s
    BY <1>2, <1>a, <1>d, <1>e, NoneApart DEF Login, OneWorker, Receive
  <2>l. UNCHANGED <<list, sector, users, pos>>
    BY <1>2 DEF Login
  <2>s. /\ Settled(s) <=> s \in users
        /\ Moving(s) <=> FALSE
    BY <2>u DEF Settled, Moving, At
  <2>t. /\ Settled(s)' <=> s \in users' \/ (me'[w].s = s /\ me'[w].pc = "leave")
        /\ Moving(s)' <=> me'[w].s = s /\ me'[w].pc \in {"unlock", "done"}
        /\ \A v \in Workers : v # w => me'[v].s # s
    <3>1. \A v \in Workers : v # w => me'[v].s # s
      BY <2>e, <2>u
    <3> QED
      BY <3>1 DEF Settled, Moving, At
  <2>o. ASSUME NEW t \in Sessions, t # s PROVE ListedAt(t)'
    <3>1. me[w].s # t /\ me'[w].s # t
      BY <2>o, <2>e, <2>p, <1>i, NoneApart
    <3>2. /\ \A p \in Sectors : t \in list'[p] <=> t \in list[p]
          /\ t \in sector' <=> t \in sector
          /\ t \in users' <=> t \in users
          /\ pos'[t] = pos[t]
      BY <2>o, <2>e, <2>l, <1>a, <1>f
    <3> QED
      BY <3>1, <3>2, <2>e, <1>h, ListedOther
  <2>x. ListedAt(s)'
    BY <1>a, <1>f, <1>h, <1>i, NoneApart, <2>e, <2>p, <2>l, <2>s, <2>t DEF ListedAt
  <2> QED
    BY <2>o, <2>x DEF Listed
<1>3. ASSUME NEW w \in Workers, NEW s \in Sessions, ChatMessage(w, s) PROVE Listed'
  <2>e. /\ \A v \in Workers : v # w => me'[v] = me[v]
        /\ me'[w].pc = "around" /\ me'[w].s = s
        /\ me'[w].from = pos[s] /\ me'[w].to = <<0, 0>> /\ me'[w].k = 1
    BY <1>3, <1>a, <1>b, <1>c, <1>f, BeginEffect DEF ChatMessage, Receive, At
  <2>p. me[w].pc = "idle"
    BY <1>3, <1>c DEF ChatMessage, At, Receive
  <2>u. \A v \in Workers : me[v].s # s
    BY <1>3, <1>a, <1>d, <1>e, NoneApart DEF ChatMessage, OneWorker, Receive
  <2>l. UNCHANGED <<list, sector, users, pos>>
    BY <1>3 DEF ChatMessage
  <2>s. /\ Settled(s) <=> s \in users
        /\ Moving(s) <=> FALSE
    BY <2>u DEF Settled, Moving, At
  <2>t. /\ Settled(s)' <=> s \in users' \/ (me'[w].s = s /\ me'[w].pc = "leave")
        /\ Moving(s)' <=> me'[w].s = s /\ me'[w].pc \in {"unlock", "done"}
        /\ \A v \in Workers : v # w => me'[v].s # s
    <3>1. \A v \in Workers : v # w => me'[v].s # s
      BY <2>e, <2>u
    <3> QED
      BY <3>1 DEF Settled, Moving, At
  <2>o. ASSUME NEW t \in Sessions, t # s PROVE ListedAt(t)'
    <3>1. me[w].s # t /\ me'[w].s # t
      BY <2>o, <2>e, <2>p, <1>i, NoneApart
    <3>2. /\ \A p \in Sectors : t \in list'[p] <=> t \in list[p]
          /\ t \in sector' <=> t \in sector
          /\ t \in users' <=> t \in users
          /\ pos'[t] = pos[t]
      BY <2>o, <2>e, <2>l, <1>a, <1>f
    <3> QED
      BY <3>1, <3>2, <2>e, <1>h, ListedOther
  <2>x. ListedAt(s)'
    BY <1>a, <1>f, <1>h, <1>i, NoneApart, <2>e, <2>p, <2>l, <2>s, <2>t DEF ListedAt
  <2> QED
    BY <2>o, <2>x DEF Listed
<1>4. ASSUME NEW w \in Workers, NEW s \in Sessions, NEW to \in Places, SectorMove(w, s, to) PROVE Listed'
  <2>e. /\ \A v \in Workers : v # w => me'[v] = me[v]
        /\ \/ me' = me
           \/ /\ me'[w].pc = (IF s \in sector THEN "lock1" ELSE "first") /\ me'[w].s = s
              /\ me'[w].from = pos[s] /\ me'[w].to = to /\ me'[w].k = 1
    BY <1>4, <1>a, <1>b, <1>c, <1>f, BeginEffect, InRange, PlacesAreInt DEF SectorMove, Receive, At
  <2>p. me[w].pc = "idle"
    BY <1>4, <1>c DEF SectorMove, At, Receive
  <2>u. \A v \in Workers : me[v].s # s
    BY <1>4, <1>a, <1>d, <1>e, NoneApart DEF SectorMove, OneWorker, Receive
  <2>l. UNCHANGED <<list, sector, users, pos>>
    BY <1>4 DEF SectorMove
  <2>s. /\ Settled(s) <=> s \in users
        /\ Moving(s) <=> FALSE
    BY <2>u DEF Settled, Moving, At
  <2>t. /\ Settled(s)' <=> s \in users' \/ (me'[w].s = s /\ me'[w].pc = "leave")
        /\ Moving(s)' <=> me'[w].s = s /\ me'[w].pc \in {"unlock", "done"}
        /\ \A v \in Workers : v # w => me'[v].s # s
    <3>1. \A v \in Workers : v # w => me'[v].s # s
      BY <2>e, <2>u
    <3> QED
      BY <3>1 DEF Settled, Moving, At
  <2>o. ASSUME NEW t \in Sessions, t # s PROVE ListedAt(t)'
    <3>1. me[w].s # t /\ me'[w].s # t
      BY <2>o, <2>e, <2>p, <1>i, NoneApart
    <3>2. /\ \A p \in Sectors : t \in list'[p] <=> t \in list[p]
          /\ t \in sector' <=> t \in sector
          /\ t \in users' <=> t \in users
          /\ pos'[t] = pos[t]
      BY <2>o, <2>e, <2>l, <1>a, <1>f
    <3> QED
      BY <3>1, <3>2, <2>e, <1>h, ListedOther
  <2>x. ListedAt(s)'
    BY <1>a, <1>f, <1>h, <1>i, NoneApart, <2>e, <2>p, <2>l, <2>s, <2>t DEF ListedAt
  <2> QED
    BY <2>o, <2>x DEF Listed
<1>5. ASSUME NEW w \in Workers, NEW s \in Sessions, OnClientLeave(w, s) PROVE Listed'
  <2>e. /\ \A v \in Workers : v # w => me'[v] = me[v]
        /\ \/ me' = me /\ users' = users
           \/ /\ me'[w].pc = "leave" /\ me'[w].s = s
              /\ users' = users \ {s} /\ s \in users
    <3>1. s \in nonUser \cup users
      BY <1>5 DEF OnClientLeave, InOneMap
    <3> QED
      BY <1>5, <3>1, <1>a, <1>b, <1>f, BeginEffect DEF OnClientLeave
  <2>p. me[w].pc = "idle" /\ conn[s] = "closing"
    BY <1>5, <1>c DEF OnClientLeave, At, Receive
  <2>u. \A v \in Workers : me[v].s # s
    BY <1>5, <1>a, <1>d, <1>e, NoneApart DEF OnClientLeave, OneWorker, Receive
  <2>l. UNCHANGED <<list, sector, pos>>
    BY <1>5 DEF OnClientLeave
  <2>s. /\ Settled(s) <=> s \in users
        /\ Moving(s) <=> FALSE
    BY <2>u DEF Settled, Moving, At
  <2>t. /\ Settled(s)' <=> s \in users' \/ (me'[w].s = s /\ me'[w].pc = "leave")
        /\ Moving(s)' <=> me'[w].s = s /\ me'[w].pc \in {"unlock", "done"}
        /\ \A v \in Workers : v # w => me'[v].s # s
    <3>1. \A v \in Workers : v # w => me'[v].s # s
      BY <2>e, <2>u
    <3> QED
      BY <3>1 DEF Settled, Moving, At
  <2>o. ASSUME NEW t \in Sessions, t # s PROVE ListedAt(t)'
    <3>1. me[w].s # t /\ me'[w].s # t
      BY <2>o, <2>e, <2>p, <1>i, NoneApart
    <3>2. /\ \A p \in Sectors : t \in list'[p] <=> t \in list[p]
          /\ t \in sector' <=> t \in sector
          /\ t \in users' <=> t \in users
          /\ pos'[t] = pos[t]
      BY <2>o, <2>e, <2>l, <1>a, <1>f
    <3> QED
      BY <3>1, <3>2, <2>e, <1>h, ListedOther
  <2>x. ListedAt(s)'
    BY <1>a, <1>f, <1>h, <1>i, NoneApart, <2>e, <2>p, <2>l, <2>s, <2>t DEF ListedAt
  <2> QED
    BY <2>o, <2>x DEF Listed
<1>6. ASSUME NEW s \in Sessions, OnClientJoin(s) PROVE Listed'
  <2>l. UNCHANGED <<me, list, sector, users, pos>>
    BY <1>6 DEF OnClientJoin
  <2> QED
    BY <2>l DEF Listed, ListedAt, Moving, Settled, At
<1>7. ASSUME NEW s \in Sessions, Hangup(s) PROVE Listed'
  <2>l. UNCHANGED <<me, list, sector, users, pos>>
    BY <1>7 DEF Hangup
  <2> QED
    BY <2>l DEF Listed, ListedAt, Moving, Settled, At
<1>8. ASSUME NEW w \in Workers, BecomeUser(w) PROVE Listed'
  <2>e. /\ \A v \in Workers : v # w => me'[v] = me[v]
        /\ me'[w].pc = "idle" /\ me'[w].s = None
    BY <1>8, <1>a, ReturnEffect DEF BecomeUser
  <2>p. me[w].pc = "login" /\ me[w].s \in Sessions
    BY <1>8, <1>c DEF BecomeUser, At, Receive
  <2>u. \A v \in Workers : v # w => me[v].s # me[w].s
    BY <2>p, <1>g
  <2>l. /\ UNCHANGED <<list, pos>> /\ me[w].s \notin users
        /\ users' = users \cup {me[w].s} /\ sector' = sector \ {me[w].s}
    BY <1>8, <2>p DEF BecomeUser, InOneMap, At
  <2>y. PICK x \in Sessions : x = me[w].s
    BY <2>p
  <2>s. /\ Settled(x) <=> x \in users \/ me[w].pc = "leave"
        /\ Moving(x) <=> me[w].pc \in {"unlock", "done"}
    BY <2>u, <2>y DEF Settled, Moving, At
  <2>t. /\ Settled(x)' <=> x \in users' \/ (me'[w].s = x /\ me'[w].pc = "leave")
        /\ Moving(x)' <=> me'[w].s = x /\ me'[w].pc \in {"unlock", "done"}
        /\ \A v \in Workers : v # w => me'[v].s # x
    <3>1. \A v \in Workers : v # w => me'[v].s # x
      BY <2>e, <2>u, <2>y
    <3> QED
      BY <3>1 DEF Settled, Moving, At
  <2>o. ASSUME NEW t \in Sessions, t # x PROVE ListedAt(t)'
    <3>1. me[w].s # t /\ me'[w].s # t
      BY <2>o, <2>e, <2>p, <1>i, NoneApart, <2>y
    <3>2. /\ \A p \in Sectors : t \in list'[p] <=> t \in list[p]
          /\ t \in sector' <=> t \in sector
          /\ t \in users' <=> t \in users
          /\ pos'[t] = pos[t]
      BY <2>o, <2>e, <2>l, <1>a, <1>f, <2>y
    <3> QED
      BY <3>1, <3>2, <2>e, <1>h, ListedOther
  <2>x. ListedAt(x)'
    BY <1>a, <1>f, <1>h, <1>i, NoneApart, <2>e, <2>p, <2>l, <2>s, <2>t, <2>y DEF ListedAt
  <2> QED
    BY <2>o, <2>x DEF Listed
<1>9. ASSUME NEW w \in Workers, FirstMove(w) PROVE Listed'
  <2>e. /\ \A v \in Workers : v # w => me'[v] = me[v]
        /\ me'[w].pc = "unlock" /\ me'[w].s = me[w].s /\ me'[w].k = me[w].k
        /\ me'[w].from = me[w].from /\ me'[w].to = me[w].to
    BY <1>9, <1>a, <1>b, GotoEffect DEF FirstMove
  <2>p. me[w].pc = "first" /\ me[w].s \in Sessions
    BY <1>9, <1>c DEF FirstMove, At, Receive
  <2>u. \A v \in Workers : v # w => me[v].s # me[w].s
    BY <2>p, <1>g
  <2>1. UNCHANGED <<sector, users, pos>> /\ me[w].s \notin sector
    BY <1>9, <2>p DEF FirstMove, LocalsTrue, At
  <2>2. list' = [list EXCEPT ![me[w].to] = @ \cup {me[w].s}]
    BY <1>9 DEF FirstMove
  <2>l. /\ UNCHANGED <<sector, users, pos>> /\ me[w].s \notin sector
        /\ \A t \in Sessions, p \in Sectors :
               t \in list'[p] <=> t \in list[p] \/ (t = me[w].s /\ p = me[w].to)
    BY <2>1, <2>2, <1>a, <1>f
  <2>y. PICK x \in Sessions : x = me[w].s
    BY <2>p
  <2>s. /\ Settled(x) <=> x \in users \/ me[w].pc = "leave"
        /\ Moving(x) <=> me[w].pc \in {"unlock", "done"}
    BY <2>u, <2>y DEF Settled, Moving, At
  <2>t. /\ Settled(x)' <=> x \in users' \/ (me'[w].s = x /\ me'[w].pc = "leave")
        /\ Moving(x)' <=> me'[w].s = x /\ me'[w].pc \in {"unlock", "done"}
        /\ \A v \in Workers : v # w => me'[v].s # x
    <3>1. \A v \in Workers : v # w => me'[v].s # x
      BY <2>e, <2>u, <2>y
    <3> QED
      BY <3>1 DEF Settled, Moving, At
  <2>o. ASSUME NEW t \in Sessions, t # x PROVE ListedAt(t)'
    <3>1. me[w].s # t /\ me'[w].s # t
      BY <2>o, <2>e, <2>p, <1>i, NoneApart, <2>y
    <3>2. /\ \A p \in Sectors : t \in list'[p] <=> t \in list[p]
          /\ t \in sector' <=> t \in sector
          /\ t \in users' <=> t \in users
          /\ pos'[t] = pos[t]
      BY <2>o, <2>e, <2>l, <1>a, <1>f, <2>y
    <3> QED
      BY <3>1, <3>2, <2>e, <1>h, ListedOther
  <2>x. ListedAt(x)'
    BY <1>a, <1>f, <1>h, <1>i, NoneApart, <2>e, <2>p, <2>l, <2>s, <2>t, <2>y DEF ListedAt
  <2> QED
    BY <2>o, <2>x DEF Listed
<1>10. ASSUME NEW w \in Workers, Lock1(w) PROVE Listed'
  <2>e. /\ \A v \in Workers : v # w => me'[v] = me[v]
        /\ me'[w].pc = "lock2" /\ me'[w].s = me[w].s /\ me'[w].k = me[w].k
        /\ me'[w].from = me[w].from /\ me'[w].to = me[w].to
    BY <1>10, <1>a, <1>b, GotoEffect DEF Lock1
  <2>p. me[w].pc = "lock1" /\ me[w].s \in Sessions
    BY <1>10, <1>c DEF Lock1, At, Receive
  <2>u. \A v \in Workers : v # w => me[v].s # me[w].s
    BY <2>p, <1>g
  <2>l. UNCHANGED <<list, sector, users, pos>>
    BY <1>10 DEF Lock1
  <2>y. PICK x \in Sessions : x = me[w].s
    BY <2>p
  <2>s. /\ Settled(x) <=> x \in users \/ me[w].pc = "leave"
        /\ Moving(x) <=> me[w].pc \in {"unlock", "done"}
    BY <2>u, <2>y DEF Settled, Moving, At
  <2>t. /\ Settled(x)' <=> x \in users' \/ (me'[w].s = x /\ me'[w].pc = "leave")
        /\ Moving(x)' <=> me'[w].s = x /\ me'[w].pc \in {"unlock", "done"}
        /\ \A v \in Workers : v # w => me'[v].s # x
    <3>1. \A v \in Workers : v # w => me'[v].s # x
      BY <2>e, <2>u, <2>y
    <3> QED
      BY <3>1 DEF Settled, Moving, At
  <2>o. ASSUME NEW t \in Sessions, t # x PROVE ListedAt(t)'
    <3>1. me[w].s # t /\ me'[w].s # t
      BY <2>o, <2>e, <2>p, <1>i, NoneApart, <2>y
    <3>2. /\ \A p \in Sectors : t \in list'[p] <=> t \in list[p]
          /\ t \in sector' <=> t \in sector
          /\ t \in users' <=> t \in users
          /\ pos'[t] = pos[t]
      BY <2>o, <2>e, <2>l, <1>a, <1>f, <2>y
    <3> QED
      BY <3>1, <3>2, <2>e, <1>h, ListedOther
  <2>x. ListedAt(x)'
    BY <1>a, <1>f, <1>h, <1>i, NoneApart, <2>e, <2>p, <2>l, <2>s, <2>t, <2>y DEF ListedAt
  <2> QED
    BY <2>o, <2>x DEF Listed
<1>11. ASSUME NEW w \in Workers, Lock2(w) PROVE Listed'
  <2>e. /\ \A v \in Workers : v # w => me'[v] = me[v]
        /\ me'[w].pc = "move" /\ me'[w].s = me[w].s /\ me'[w].k = me[w].k
        /\ me'[w].from = me[w].from /\ me'[w].to = me[w].to
    BY <1>11, <1>a, <1>b, GotoEffect DEF Lock2
  <2>p. me[w].pc = "lock2" /\ me[w].s \in Sessions
    BY <1>11, <1>c DEF Lock2, At, Receive
  <2>u. \A v \in Workers : v # w => me[v].s # me[w].s
    BY <2>p, <1>g
  <2>l. UNCHANGED <<list, sector, users, pos>>
    BY <1>11 DEF Lock2
  <2>y. PICK x \in Sessions : x = me[w].s
    BY <2>p
  <2>s. /\ Settled(x) <=> x \in users \/ me[w].pc = "leave"
        /\ Moving(x) <=> me[w].pc \in {"unlock", "done"}
    BY <2>u, <2>y DEF Settled, Moving, At
  <2>t. /\ Settled(x)' <=> x \in users' \/ (me'[w].s = x /\ me'[w].pc = "leave")
        /\ Moving(x)' <=> me'[w].s = x /\ me'[w].pc \in {"unlock", "done"}
        /\ \A v \in Workers : v # w => me'[v].s # x
    <3>1. \A v \in Workers : v # w => me'[v].s # x
      BY <2>e, <2>u, <2>y
    <3> QED
      BY <3>1 DEF Settled, Moving, At
  <2>o. ASSUME NEW t \in Sessions, t # x PROVE ListedAt(t)'
    <3>1. me[w].s # t /\ me'[w].s # t
      BY <2>o, <2>e, <2>p, <1>i, NoneApart, <2>y
    <3>2. /\ \A p \in Sectors : t \in list'[p] <=> t \in list[p]
          /\ t \in sector' <=> t \in sector
          /\ t \in users' <=> t \in users
          /\ pos'[t] = pos[t]
      BY <2>o, <2>e, <2>l, <1>a, <1>f, <2>y
    <3> QED
      BY <3>1, <3>2, <2>e, <1>h, ListedOther
  <2>x. ListedAt(x)'
    BY <1>a, <1>f, <1>h, <1>i, NoneApart, <2>e, <2>p, <2>l, <2>s, <2>t, <2>y DEF ListedAt
  <2> QED
    BY <2>o, <2>x DEF Listed
<1>12. ASSUME NEW w \in Workers, Move(w) PROVE Listed'
  <2>e. /\ \A v \in Workers : v # w => me'[v] = me[v]
        /\ me'[w].pc = "unlock" /\ me'[w].s = me[w].s /\ me'[w].k = me[w].k
        /\ me'[w].from = me[w].from /\ me'[w].to = me[w].to
    BY <1>12, <1>a, <1>b, GotoEffect DEF Move
  <2>p. me[w].pc = "move" /\ me[w].s \in Sessions
    BY <1>12, <1>c DEF Move, At, Receive
  <2>u. \A v \in Workers : v # w => me[v].s # me[w].s
    BY <2>p, <1>g
  <2>1. /\ me[w].s \in sector /\ me[w].s \in users
        /\ me[w].from = pos[me[w].s] /\ me[w].to # me[w].from
    BY <2>p, <1>b, <1>d, <1>e DEF LocalsTrue, InOneMap
  <2>2. ~Moving(me[w].s) /\ Settled(me[w].s)
    BY <2>1, <2>p, <2>u DEF Moving, Settled
  <2>3. \A p \in Sectors : me[w].s \in list[p] <=> p = me[w].from
    BY <2>1, <2>2, <2>p, <1>h DEF ListedAt
  <2>4. /\ UNCHANGED <<sector, users, pos>>
        /\ list' = [list EXCEPT ![me[w].from] = @ \ {me[w].s}, ![me[w].to] = @ \cup {me[w].s}]
    BY <1>12, <2>3, <1>a DEF Move
  <2>5. \A t \in Sessions, p \in Sectors :
            t \in list'[p] <=> IF t = me[w].s THEN p = me[w].to ELSE t \in list[p]
    BY <2>1, <2>3, <2>4, <2>p, <1>a, <1>f
  <2>l. /\ UNCHANGED <<sector, users, pos>>
        /\ \A t \in Sessions, p \in Sectors :
               t \in list'[p] <=> IF t = me[w].s THEN p = me[w].to ELSE t \in list[p]
    BY <2>4, <2>5
  <2>y. PICK x \in Sessions : x = me[w].s
    BY <2>p
  <2>s. /\ Settled(x) <=> x \in users \/ me[w].pc = "leave"
        /\ Moving(x) <=> me[w].pc \in {"unlock", "done"}
    BY <2>u, <2>y DEF Settled, Moving, At
  <2>t. /\ Settled(x)' <=> x \in users' \/ (me'[w].s = x /\ me'[w].pc = "leave")
        /\ Moving(x)' <=> me'[w].s = x /\ me'[w].pc \in {"unlock", "done"}
        /\ \A v \in Workers : v # w => me'[v].s # x
    <3>1. \A v \in Workers : v # w => me'[v].s # x
      BY <2>e, <2>u, <2>y
    <3> QED
      BY <3>1 DEF Settled, Moving, At
  <2>o. ASSUME NEW t \in Sessions, t # x PROVE ListedAt(t)'
    <3>1. me[w].s # t /\ me'[w].s # t
      BY <2>o, <2>e, <2>p, <1>i, NoneApart, <2>y
    <3>2. /\ \A p \in Sectors : t \in list'[p] <=> t \in list[p]
          /\ t \in sector' <=> t \in sector
          /\ t \in users' <=> t \in users
          /\ pos'[t] = pos[t]
      BY <2>o, <2>e, <2>l, <1>a, <1>f, <2>y
    <3> QED
      BY <3>1, <3>2, <2>e, <1>h, ListedOther
  <2>x. ListedAt(x)'
    BY <1>a, <1>f, <1>h, <1>i, NoneApart, <2>e, <2>p, <2>l, <2>s, <2>t, <2>y DEF ListedAt
  <2> QED
    BY <2>o, <2>x DEF Listed
<1>13. ASSUME NEW w \in Workers, Unlock(w) PROVE Listed'
  <2>e. /\ \A v \in Workers : v # w => me'[v] = me[v]
        /\ me'[w].pc = "done" /\ me'[w].s = me[w].s /\ me'[w].k = me[w].k
        /\ me'[w].from = me[w].from /\ me'[w].to = me[w].to
    BY <1>13, <1>a, <1>b, GotoEffect DEF Unlock
  <2>p. me[w].pc = "unlock" /\ me[w].s \in Sessions
    BY <1>13, <1>c DEF Unlock, At, Receive
  <2>u. \A v \in Workers : v # w => me[v].s # me[w].s
    BY <2>p, <1>g
  <2>l. UNCHANGED <<list, sector, users, pos>>
    BY <1>13 DEF Unlock
  <2>y. PICK x \in Sessions : x = me[w].s
    BY <2>p
  <2>s. /\ Settled(x) <=> x \in users \/ me[w].pc = "leave"
        /\ Moving(x) <=> me[w].pc \in {"unlock", "done"}
    BY <2>u, <2>y DEF Settled, Moving, At
  <2>t. /\ Settled(x)' <=> x \in users' \/ (me'[w].s = x /\ me'[w].pc = "leave")
        /\ Moving(x)' <=> me'[w].s = x /\ me'[w].pc \in {"unlock", "done"}
        /\ \A v \in Workers : v # w => me'[v].s # x
    <3>1. \A v \in Workers : v # w => me'[v].s # x
      BY <2>e, <2>u, <2>y
    <3> QED
      BY <3>1 DEF Settled, Moving, At
  <2>o. ASSUME NEW t \in Sessions, t # x PROVE ListedAt(t)'
    <3>1. me[w].s # t /\ me'[w].s # t
      BY <2>o, <2>e, <2>p, <1>i, NoneApart, <2>y
    <3>2. /\ \A p \in Sectors : t \in list'[p] <=> t \in list[p]
          /\ t \in sector' <=> t \in sector
          /\ t \in users' <=> t \in users
          /\ pos'[t] = pos[t]
      BY <2>o, <2>e, <2>l, <1>a, <1>f, <2>y
    <3> QED
      BY <3>1, <3>2, <2>e, <1>h, ListedOther
  <2>x. ListedAt(x)'
    BY <1>a, <1>f, <1>h, <1>i, NoneApart, <2>e, <2>p, <2>l, <2>s, <2>t, <2>y DEF ListedAt
  <2> QED
    BY <2>o, <2>x DEF Listed
<1>14. ASSUME NEW w \in Workers, Moved(w) PROVE Listed'
  <2>e. /\ \A v \in Workers : v # w => me'[v] = me[v]
        /\ me'[w].pc = "idle" /\ me'[w].s = None
    BY <1>14, <1>a, ReturnEffect DEF Moved
  <2>p. me[w].pc = "done" /\ me[w].s \in Sessions
    BY <1>14, <1>c DEF Moved, At, Receive
  <2>u. \A v \in Workers : v # w => me[v].s # me[w].s
    BY <2>p, <1>g
  <2>l. /\ UNCHANGED <<list, users>> /\ me[w].s \in users
        /\ sector' = sector \cup {me[w].s} /\ pos' = [pos EXCEPT ![me[w].s] = me[w].to]
    BY <1>14, <2>p, <1>b, <1>d, <1>e DEF Moved, InOneMap, At
  <2>y. PICK x \in Sessions : x = me[w].s
    BY <2>p
  <2>s. /\ Settled(x) <=> x \in users \/ me[w].pc = "leave"
        /\ Moving(x) <=> me[w].pc \in {"unlock", "done"}
    BY <2>u, <2>y DEF Settled, Moving, At
  <2>t. /\ Settled(x)' <=> x \in users' \/ (me'[w].s = x /\ me'[w].pc = "leave")
        /\ Moving(x)' <=> me'[w].s = x /\ me'[w].pc \in {"unlock", "done"}
        /\ \A v \in Workers : v # w => me'[v].s # x
    <3>1. \A v \in Workers : v # w => me'[v].s # x
      BY <2>e, <2>u, <2>y
    <3> QED
      BY <3>1 DEF Settled, Moving, At
  <2>o. ASSUME NEW t \in Sessions, t # x PROVE ListedAt(t)'
    <3>1. me[w].s # t /\ me'[w].s # t
      BY <2>o, <2>e, <2>p, <1>i, NoneApart, <2>y
    <3>2. /\ \A p \in Sectors : t \in list'[p] <=> t \in list[p]
          /\ t \in sector' <=> t \in sector
          /\ t \in users' <=> t \in users
          /\ pos'[t] = pos[t]
      BY <2>o, <2>e, <2>l, <1>a, <1>f, <2>y
    <3> QED
      BY <3>1, <3>2, <2>e, <1>h, ListedOther
  <2>x. ListedAt(x)'
    BY <1>a, <1>f, <1>h, <1>i, NoneApart, <2>e, <2>p, <2>l, <2>s, <2>t, <2>y DEF ListedAt
  <2> QED
    BY <2>o, <2>x DEF Listed
<1>15. ASSUME NEW w \in Workers, LockNext(w) PROVE Listed'
  <2>e. /\ \A v \in Workers : v # w => me'[v] = me[v]
        /\ me'[w].pc = me[w].pc /\ me'[w].s = me[w].s /\ me'[w].k = me[w].k + 1
        /\ me'[w].from = me[w].from /\ me'[w].to = me[w].to
    <3>1. me[w].k <= 9
      BY <1>15 DEF LockNext
    <3>2. me[w].k + 1 \in 1..10
      BY <1>a, <3>1, NextPlace
    <3> QED
      BY <1>15, <1>a, <3>2, CountEffect DEF LockNext
  <2>p. me[w].pc = "around" /\ me[w].s \in Sessions
    BY <1>15, <1>c DEF LockNext, At, Receive
  <2>u. \A v \in Workers : v # w => me[v].s # me[w].s
    BY <2>p, <1>g
  <2>l. UNCHANGED <<list, sector, users, pos>>
    BY <1>15 DEF LockNext
  <2>y. PICK x \in Sessions : x = me[w].s
    BY <2>p
  <2>s. /\ Settled(x) <=> x \in users \/ me[w].pc = "leave"
        /\ Moving(x) <=> me[w].pc \in {"unlock", "done"}
    BY <2>u, <2>y DEF Settled, Moving, At
  <2>t. /\ Settled(x)' <=> x \in users' \/ (me'[w].s = x /\ me'[w].pc = "leave")
        /\ Moving(x)' <=> me'[w].s = x /\ me'[w].pc \in {"unlock", "done"}
        /\ \A v \in Workers : v # w => me'[v].s # x
    <3>1. \A v \in Workers : v # w => me'[v].s # x
      BY <2>e, <2>u, <2>y
    <3> QED
      BY <3>1 DEF Settled, Moving, At
  <2>o. ASSUME NEW t \in Sessions, t # x PROVE ListedAt(t)'
    <3>1. me[w].s # t /\ me'[w].s # t
      BY <2>o, <2>e, <2>p, <1>i, NoneApart, <2>y
    <3>2. /\ \A p \in Sectors : t \in list'[p] <=> t \in list[p]
          /\ t \in sector' <=> t \in sector
          /\ t \in users' <=> t \in users
          /\ pos'[t] = pos[t]
      BY <2>o, <2>e, <2>l, <1>a, <1>f, <2>y
    <3> QED
      BY <3>1, <3>2, <2>e, <1>h, ListedOther
  <2>x. ListedAt(x)'
    BY <1>a, <1>f, <1>h, <1>i, NoneApart, <2>e, <2>p, <2>l, <2>s, <2>t, <2>y DEF ListedAt
  <2> QED
    BY <2>o, <2>x DEF Listed
<1>16. ASSUME NEW w \in Workers, AllLocked(w) PROVE Listed'
  <2>e. /\ \A v \in Workers : v # w => me'[v] = me[v]
        /\ me'[w].pc = "send" /\ me'[w].s = me[w].s
        /\ me'[w].from = me[w].from /\ me'[w].to = me[w].to /\ me'[w].k = 1
    BY <1>16, <1>a, AllLockedEffect
  <2>p. me[w].pc = "around" /\ me[w].s \in Sessions
    BY <1>16, <1>c DEF AllLocked, At, Receive
  <2>u. \A v \in Workers : v # w => me[v].s # me[w].s
    BY <2>p, <1>g
  <2>l. UNCHANGED <<list, sector, users, pos>>
    BY <1>16 DEF AllLocked
  <2>y. PICK x \in Sessions : x = me[w].s
    BY <2>p
  <2>s. /\ Settled(x) <=> x \in users \/ me[w].pc = "leave"
        /\ Moving(x) <=> me[w].pc \in {"unlock", "done"}
    BY <2>u, <2>y DEF Settled, Moving, At
  <2>t. /\ Settled(x)' <=> x \in users' \/ (me'[w].s = x /\ me'[w].pc = "leave")
        /\ Moving(x)' <=> me'[w].s = x /\ me'[w].pc \in {"unlock", "done"}
        /\ \A v \in Workers : v # w => me'[v].s # x
    <3>1. \A v \in Workers : v # w => me'[v].s # x
      BY <2>e, <2>u, <2>y
    <3> QED
      BY <3>1 DEF Settled, Moving, At
  <2>o. ASSUME NEW t \in Sessions, t # x PROVE ListedAt(t)'
    <3>1. me[w].s # t /\ me'[w].s # t
      BY <2>o, <2>e, <2>p, <1>i, NoneApart, <2>y
    <3>2. /\ \A p \in Sectors : t \in list'[p] <=> t \in list[p]
          /\ t \in sector' <=> t \in sector
          /\ t \in users' <=> t \in users
          /\ pos'[t] = pos[t]
      BY <2>o, <2>e, <2>l, <1>a, <1>f, <2>y
    <3> QED
      BY <3>1, <3>2, <2>e, <1>h, ListedOther
  <2>x. ListedAt(x)'
    BY <1>a, <1>f, <1>h, <1>i, NoneApart, <2>e, <2>p, <2>l, <2>s, <2>t, <2>y DEF ListedAt
  <2> QED
    BY <2>o, <2>x DEF Listed
<1>17. ASSUME NEW w \in Workers, SendOne(w) PROVE Listed'
  <2>e. /\ \A v \in Workers : v # w => me'[v] = me[v]
        /\ me'[w].pc = me[w].pc /\ me'[w].s = me[w].s /\ me'[w].k = me[w].k + 1
        /\ me'[w].from = me[w].from /\ me'[w].to = me[w].to
    <3>1. me[w].k <= 9
      BY <1>17 DEF SendOne
    <3>2. me[w].k + 1 \in 1..10
      BY <1>a, <3>1, NextPlace
    <3> QED
      BY <1>17, <1>a, <3>2, CountEffect DEF SendOne
  <2>p. me[w].pc = "send" /\ me[w].s \in Sessions
    BY <1>17, <1>c DEF SendOne, At, Receive
  <2>u. \A v \in Workers : v # w => me[v].s # me[w].s
    BY <2>p, <1>g
  <2>l. UNCHANGED <<list, sector, users, pos>>
    BY <1>17 DEF SendOne
  <2>y. PICK x \in Sessions : x = me[w].s
    BY <2>p
  <2>s. /\ Settled(x) <=> x \in users \/ me[w].pc = "leave"
        /\ Moving(x) <=> me[w].pc \in {"unlock", "done"}
    BY <2>u, <2>y DEF Settled, Moving, At
  <2>t. /\ Settled(x)' <=> x \in users' \/ (me'[w].s = x /\ me'[w].pc = "leave")
        /\ Moving(x)' <=> me'[w].s = x /\ me'[w].pc \in {"unlock", "done"}
        /\ \A v \in Workers : v # w => me'[v].s # x
    <3>1. \A v \in Workers : v # w => me'[v].s # x
      BY <2>e, <2>u, <2>y
    <3> QED
      BY <3>1 DEF Settled, Moving, At
  <2>o. ASSUME NEW t \in Sessions, t # x PROVE ListedAt(t)'
    <3>1. me[w].s # t /\ me'[w].s # t
      BY <2>o, <2>e, <2>p, <1>i, NoneApart, <2>y
    <3>2. /\ \A p \in Sectors : t \in list'[p] <=> t \in list[p]
          /\ t \in sector' <=> t \in sector
          /\ t \in users' <=> t \in users
          /\ pos'[t] = pos[t]
      BY <2>o, <2>e, <2>l, <1>a, <1>f, <2>y
    <3> QED
      BY <3>1, <3>2, <2>e, <1>h, ListedOther
  <2>x. ListedAt(x)'
    BY <1>a, <1>f, <1>h, <1>i, NoneApart, <2>e, <2>p, <2>l, <2>s, <2>t, <2>y DEF ListedAt
  <2> QED
    BY <2>o, <2>x DEF Listed
<1>18. ASSUME NEW w \in Workers, Sent(w) PROVE Listed'
  <2>e. /\ \A v \in Workers : v # w => me'[v] = me[v]
        /\ me'[w].pc = "idle" /\ me'[w].s = None
    BY <1>18, <1>a, ReturnEffect DEF Sent
  <2>p. me[w].pc = "send" /\ me[w].s \in Sessions
    BY <1>18, <1>c DEF Sent, At, Receive
  <2>u. \A v \in Workers : v # w => me[v].s # me[w].s
    BY <2>p, <1>g
  <2>l. UNCHANGED <<list, sector, users, pos>>
    BY <1>18 DEF Sent
  <2>y. PICK x \in Sessions : x = me[w].s
    BY <2>p
  <2>s. /\ Settled(x) <=> x \in users \/ me[w].pc = "leave"
        /\ Moving(x) <=> me[w].pc \in {"unlock", "done"}
    BY <2>u, <2>y DEF Settled, Moving, At
  <2>t. /\ Settled(x)' <=> x \in users' \/ (me'[w].s = x /\ me'[w].pc = "leave")
        /\ Moving(x)' <=> me'[w].s = x /\ me'[w].pc \in {"unlock", "done"}
        /\ \A v \in Workers : v # w => me'[v].s # x
    <3>1. \A v \in Workers : v # w => me'[v].s # x
      BY <2>e, <2>u, <2>y
    <3> QED
      BY <3>1 DEF Settled, Moving, At
  <2>o. ASSUME NEW t \in Sessions, t # x PROVE ListedAt(t)'
    <3>1. me[w].s # t /\ me'[w].s # t
      BY <2>o, <2>e, <2>p, <1>i, NoneApart, <2>y
    <3>2. /\ \A p \in Sectors : t \in list'[p] <=> t \in list[p]
          /\ t \in sector' <=> t \in sector
          /\ t \in users' <=> t \in users
          /\ pos'[t] = pos[t]
      BY <2>o, <2>e, <2>l, <1>a, <1>f, <2>y
    <3> QED
      BY <3>1, <3>2, <2>e, <1>h, ListedOther
  <2>x. ListedAt(x)'
    BY <1>a, <1>f, <1>h, <1>i, NoneApart, <2>e, <2>p, <2>l, <2>s, <2>t, <2>y DEF ListedAt
  <2> QED
    BY <2>o, <2>x DEF Listed
<1>19. ASSUME NEW w \in Workers, Remove(w) PROVE Listed'
  <2>e. /\ \A v \in Workers : v # w => me'[v] = me[v]
        /\ me'[w].pc = "remove" /\ me'[w].s = me[w].s /\ me'[w].k = me[w].k
        /\ me'[w].from = me[w].from /\ me'[w].to = me[w].to
    BY <1>19, <1>a, <1>b, GotoEffect DEF Remove
  <2>p. me[w].pc = "leave" /\ me[w].s \in Sessions
    BY <1>19, <1>c DEF Remove, At, Receive
  <2>u. \A v \in Workers : v # w => me[v].s # me[w].s
    BY <2>p, <1>g
  <2>1. ~Moving(me[w].s) /\ me[w].from = pos[me[w].s]
    BY <2>p, <2>u DEF Moving, LocalsTrue, At
  <2>2. \A p \in Sectors : me[w].s \in list[p] => p = me[w].from /\ me[w].s \in sector
    BY <2>1, <2>p, <1>h DEF ListedAt
  <2>3. me[w].s \notin users
    BY <2>p, <1>a, <1>b, <1>e DEF OneWorker, InOneMap
  <2>4. UNCHANGED <<sector, users, pos>>
    BY <1>19 DEF Remove
  <2>5. \A p \in Sectors : list'[p] = list[p] \ {me[w].s}
    <3>1. CASE me[w].s \in sector
      <4>1. list' = [list EXCEPT ![me[w].from] = @ \ {me[w].s}]
        BY <1>19, <3>1 DEF Remove, HasSector
      <4> QED
        BY <4>1, <2>2, <1>a, <1>f
    <3>2. CASE me[w].s \notin sector
      <4>1. list' = list
        BY <1>19, <3>2 DEF Remove, HasSector
      <4> QED
        BY <4>1, <3>2, <2>2, <1>f
    <3> QED
      BY <3>1, <3>2
  <2>l. /\ UNCHANGED <<sector, users, pos>> /\ me[w].s \notin users
        /\ \A p \in Sectors : list'[p] = list[p] \ {me[w].s}
    BY <2>3, <2>4, <2>5
  <2>y. PICK x \in Sessions : x = me[w].s
    BY <2>p
  <2>s. /\ Settled(x) <=> x \in users \/ me[w].pc = "leave"
        /\ Moving(x) <=> me[w].pc \in {"unlock", "done"}
    BY <2>u, <2>y DEF Settled, Moving, At
  <2>t. /\ Settled(x)' <=> x \in users' \/ (me'[w].s = x /\ me'[w].pc = "leave")
        /\ Moving(x)' <=> me'[w].s = x /\ me'[w].pc \in {"unlock", "done"}
        /\ \A v \in Workers : v # w => me'[v].s # x
    <3>1. \A v \in Workers : v # w => me'[v].s # x
      BY <2>e, <2>u, <2>y
    <3> QED
      BY <3>1 DEF Settled, Moving, At
  <2>o. ASSUME NEW t \in Sessions, t # x PROVE ListedAt(t)'
    <3>1. me[w].s # t /\ me'[w].s # t
      BY <2>o, <2>e, <2>p, <1>i, NoneApart, <2>y
    <3>2. /\ \A p \in Sectors : t \in list'[p] <=> t \in list[p]
          /\ t \in sector' <=> t \in sector
          /\ t \in users' <=> t \in users
          /\ pos'[t] = pos[t]
      BY <2>o, <2>e, <2>l, <1>a, <1>f, <2>y
    <3> QED
      BY <3>1, <3>2, <2>e, <1>h, ListedOther
  <2>x. ListedAt(x)'
    BY <1>a, <1>f, <1>h, <1>i, NoneApart, <2>e, <2>p, <2>l, <2>s, <2>t, <2>y DEF ListedAt
  <2> QED
    BY <2>o, <2>x DEF Listed
<1>20. ASSUME NEW w \in Workers, FreeUser(w) PROVE Listed'
  <2>e. /\ \A v \in Workers : v # w => me'[v] = me[v]
        /\ me'[w].pc = "idle" /\ me'[w].s = None
    BY <1>20, <1>a, ReturnEffect DEF FreeUser
  <2>p. me[w].pc = "remove" /\ me[w].s \in Sessions
    BY <1>20, <1>c DEF FreeUser, At, Receive
  <2>u. \A v \in Workers : v # w => me[v].s # me[w].s
    BY <2>p, <1>g
  <2>1. me[w].s \notin users
    BY <2>p, <1>a, <1>b, <1>e DEF OneWorker, InOneMap
  <2>l. UNCHANGED <<list, sector, users, pos>> /\ me[w].s \notin users
    BY <1>20, <2>1 DEF FreeUser
  <2>y. PICK x \in Sessions : x = me[w].s
    BY <2>p
  <2>s. /\ Settled(x) <=> x \in users \/ me[w].pc = "leave"
        /\ Moving(x) <=> me[w].pc \in {"unlock", "done"}
    BY <2>u, <2>y DEF Settled, Moving, At
  <2>t. /\ Settled(x)' <=> x \in users' \/ (me'[w].s = x /\ me'[w].pc = "leave")
        /\ Moving(x)' <=> me'[w].s = x /\ me'[w].pc \in {"unlock", "done"}
        /\ \A v \in Workers : v # w => me'[v].s # x
    <3>1. \A v \in Workers : v # w => me'[v].s # x
      BY <2>e, <2>u, <2>y
    <3> QED
      BY <3>1 DEF Settled, Moving, At
  <2>o. ASSUME NEW t \in Sessions, t # x PROVE ListedAt(t)'
    <3>1. me[w].s # t /\ me'[w].s # t
      BY <2>o, <2>e, <2>p, <1>i, NoneApart, <2>y
    <3>2. /\ \A p \in Sectors : t \in list'[p] <=> t \in list[p]
          /\ t \in sector' <=> t \in sector
          /\ t \in users' <=> t \in users
          /\ pos'[t] = pos[t]
      BY <2>o, <2>e, <2>l, <1>a, <1>f, <2>y
    <3> QED
      BY <3>1, <3>2, <2>e, <1>h, ListedOther
  <2>x. ListedAt(x)'
    BY <1>a, <1>f, <1>h, <1>i, NoneApart, <2>e, <2>p, <2>l, <2>s, <2>t, <2>y DEF ListedAt
  <2> QED
    BY <2>o, <2>x DEF Listed
<1>21. CASE UNCHANGED vars
  BY <1>21 DEF vars, Listed, ListedAt, Moving, Settled, At
<1> QED
  BY <1>1, <1>2, <1>3, <1>4, <1>5, <1>6, <1>7, <1>8, <1>9, <1>10, <1>11, <1>12, <1>13, <1>14, <1>15, <1>16, <1>17, <1>18, <1>19, <1>20, <1>21
     DEF Next, Step, Message

-----------------------------------------------------------------------------
(* Messages to the sectors around *)

\* A user is in the list of one sector.
LEMMA OneList ==
  ASSUME Listed, NEW u \in Sessions, NEW p \in Sectors, NEW q \in Sectors,
         u \in list[p], u \in list[q]
  PROVE  p = q
<1>1. ListedAt(u)
  BY DEF Listed
<1>2. CASE Moving(u)
  <2>1. PICK w \in Workers : me[w].s = u /\ me[w].pc \in {"unlock", "done"}
    BY <1>2 DEF Moving
  <2> QED
    BY <1>1, <2>1 DEF ListedAt
<1>3. CASE ~Moving(u)
  BY <1>1, <1>3 DEF ListedAt
<1> QED
  BY <1>2, <1>3

\* A step of another worker changes nothing for a worker that sends, if it
\* leaves the lists of the sectors that one has still to send to.
LEMMA SentOther ==
  ASSUME NEW v \in Workers, NEW u \in Sessions, SentTo(v, u),
         me'[v] = me[v], got'[v] = got[v], there'[v] = there[v],
         At(v, "send") => \A j \in 1..9 : j >= me[v].k /\ SectorRangeCheck(Around(me[v].from, j))
                              => list'[Around(me[v].from, j)] = list[Around(me[v].from, j)]
  PROVE  SentTo(v, u)'
<1>1. At(v, "send") => (StillAround(v, u)' <=> StillAround(v, u))
  BY DEF StillAround, SectorRangeCheck, Around, Offset
<1> QED
  BY <1>1 DEF SentTo, At

\* No step of another worker changes a list that is still to be sent to.
LEMMA SentStep ==
  ASSUME IInv, [Next]_vars
  PROVE  SentSoFar'
<1> USE DEF IInv
<1>a. /\ me \in [Workers -> Locals] /\ <<0, 0>> \in Sectors
      /\ \A w \in Workers : /\ me[w].from \in Sectors /\ me[w].to \in Sectors
                            /\ me[w].s \in Sessions \cup {None} /\ me[w].k \in 1..10
  BY Sizes DEF Sectors, Locals, TypeOK
<1>b. PCs = {"idle", "login", "first", "lock1", "lock2", "move", "unlock", "around", "send",
             "leave", "remove", "done"}
  BY DEF PCs
<1>c. \A w \in Workers : me[w].pc # "idle" => me[w].s \in Sessions
  BY <1>a DEF OneWorker
<1>f. /\ pos \in [Sessions -> Sectors] /\ list \in [Sectors -> SUBSET Sessions]
      /\ got \in [Workers -> [Sessions -> Nat]] /\ there \in [Workers -> SUBSET Sessions]
  BY DEF TypeOK
<1>g. \A w \in Workers, j \in 1..9 :
          SectorRangeCheck(Around(me[w].from, j)) <=> Around(me[w].from, j) \in Sectors
  BY <1>a, AroundType, InRange
<1>h. \A w \in Workers, u \in Sessions : SentTo(w, u)
  BY DEF SentSoFar
<1>k. \A v \in Workers, j \in 1..9 :
          At(v, "send") /\ j >= me[v].k /\ SectorRangeCheck(Around(me[v].from, j)) =>
              /\ Around(me[v].from, j) \in Sectors
              /\ v \in shared[Around(me[v].from, j)] /\ excl[Around(me[v].from, j)] = None
  BY <1>g DEF LocksKept
<1> USE DEF maps, places, locks, told
<1>1. ASSUME NEW w \in Workers, NEW s \in Sessions, TooEarly(w, s) PROVE SentSoFar'
  <2>l. UNCHANGED <<me, list, got, there>>
    BY <1>1 DEF TooEarly
  <2> QED
    BY <2>l, <1>h, SentOther DEF SentSoFar
<1>2. ASSUME NEW w \in Workers, NEW s \in Sessions, Login(w, s) PROVE SentSoFar'
  <2>e. /\ \A v \in Workers : v # w => me'[v] = me[v]
        /\ \/ me' = me
           \/ /\ me'[w].pc = "login" /\ me'[w].s = s
              /\ me'[w].from = <<0, 0>> /\ me'[w].to = <<0, 0>> /\ me'[w].k = 1
    BY <1>2, <1>a, <1>b, <1>c, <1>f, BeginEffect DEF Login, Receive, At
  <2>p. me[w].pc = "idle"
    BY <1>2, <1>c DEF Login, At, Receive
  <2>l. UNCHANGED <<list, got, there>>
    BY <1>2 DEF Login
  <2>o. ASSUME NEW v \in Workers, v # w, NEW u \in Sessions PROVE SentTo(v, u)'
    BY <2>o, <2>e, <2>l, <1>h, SentOther
  <2>x. ASSUME NEW u \in Sessions PROVE SentTo(w, u)'
    <3>1. CASE me' = me
      BY <3>1, <2>l, <1>h, SentOther
    <3>2. CASE me' # me
      BY <3>2, <2>e DEF SentTo, At
    <3> QED
      BY <3>1, <3>2
  <2> QED
    BY <2>o, <2>x DEF SentSoFar
<1>3. ASSUME NEW w \in Workers, NEW s \in Sessions, ChatMessage(w, s) PROVE SentSoFar'
  <2>e. /\ \A v \in Workers : v # w => me'[v] = me[v]
        /\ me'[w].pc = "around" /\ me'[w].s = s
        /\ me'[w].from = pos[s] /\ me'[w].to = <<0, 0>> /\ me'[w].k = 1
    BY <1>3, <1>a, <1>b, <1>c, <1>f, BeginEffect DEF ChatMessage, Receive, At
  <2>p. me[w].pc = "idle"
    BY <1>3, <1>c DEF ChatMessage, At, Receive
  <2>l. /\ UNCHANGED <<list, there>>
        /\ got' = [got EXCEPT ![w] = [u \in Sessions |-> 0]]
    BY <1>3 DEF ChatMessage
  <2>o. ASSUME NEW v \in Workers, v # w, NEW u \in Sessions PROVE SentTo(v, u)'
    BY <2>o, <2>e, <2>l, <1>h, SentOther
  <2>x. ASSUME NEW u \in Sessions PROVE SentTo(w, u)'
    BY <2>e, <2>l, <1>f DEF SentTo, At
  <2> QED
    BY <2>o, <2>x DEF SentSoFar
<1>4. ASSUME NEW w \in Workers, NEW s \in Sessions, NEW to \in Places, SectorMove(w, s, to) PROVE SentSoFar'
  <2>e. /\ \A v \in Workers : v # w => me'[v] = me[v]
        /\ \/ me' = me
           \/ /\ me'[w].pc = (IF s \in sector THEN "lock1" ELSE "first") /\ me'[w].s = s
              /\ me'[w].from = pos[s] /\ me'[w].to = to /\ me'[w].k = 1
    BY <1>4, <1>a, <1>b, <1>c, <1>f, BeginEffect, InRange, PlacesAreInt DEF SectorMove, Receive, At
  <2>p. me[w].pc = "idle"
    BY <1>4, <1>c DEF SectorMove, At, Receive
  <2>l. UNCHANGED <<list, got, there>>
    BY <1>4 DEF SectorMove
  <2>o. ASSUME NEW v \in Workers, v # w, NEW u \in Sessions PROVE SentTo(v, u)'
    BY <2>o, <2>e, <2>l, <1>h, SentOther
  <2>x. ASSUME NEW u \in Sessions PROVE SentTo(w, u)'
    <3>1. CASE me' = me
      BY <3>1, <2>l, <1>h, SentOther
    <3>2. CASE me' # me
      BY <3>2, <2>e DEF SentTo, At
    <3> QED
      BY <3>1, <3>2
  <2> QED
    BY <2>o, <2>x DEF SentSoFar
<1>5. ASSUME NEW w \in Workers, NEW s \in Sessions, OnClientLeave(w, s) PROVE SentSoFar'
  <2>e. /\ \A v \in Workers : v # w => me'[v] = me[v]
        /\ \/ me' = me
           \/ /\ me'[w].pc = "leave" /\ me'[w].s = s
              /\ me'[w].from = pos[s] /\ me'[w].to = <<0, 0>> /\ me'[w].k = 1
    BY <1>5, <1>a, <1>b, <1>c, <1>f, BeginEffect DEF OnClientLeave, Receive, At
  <2>p. me[w].pc = "idle" /\ conn[s] = "closing"
    BY <1>5, <1>c DEF OnClientLeave, At, Receive
  <2>l. UNCHANGED <<list, got, there>>
    BY <1>5 DEF OnClientLeave
  <2>o. ASSUME NEW v \in Workers, v # w, NEW u \in Sessions PROVE SentTo(v, u)'
    BY <2>o, <2>e, <2>l, <1>h, SentOther
  <2>x. ASSUME NEW u \in Sessions PROVE SentTo(w, u)'
    <3>1. CASE me' = me
      BY <3>1, <2>l, <1>h, SentOther
    <3>2. CASE me' # me
      BY <3>2, <2>e DEF SentTo, At
    <3> QED
      BY <3>1, <3>2
  <2> QED
    BY <2>o, <2>x DEF SentSoFar
<1>6. ASSUME NEW s \in Sessions, OnClientJoin(s) PROVE SentSoFar'
  <2>l. UNCHANGED <<me, list, got, there>>
    BY <1>6 DEF OnClientJoin
  <2> QED
    BY <2>l, <1>h, SentOther DEF SentSoFar
<1>7. ASSUME NEW s \in Sessions, Hangup(s) PROVE SentSoFar'
  <2>l. UNCHANGED <<me, list, got, there>>
    BY <1>7 DEF Hangup
  <2> QED
    BY <2>l, <1>h, SentOther DEF SentSoFar
<1>8. ASSUME NEW w \in Workers, BecomeUser(w) PROVE SentSoFar'
  <2>e. /\ \A v \in Workers : v # w => me'[v] = me[v]
        /\ me'[w].pc = "idle" /\ me'[w].s = None
    BY <1>8, <1>a, ReturnEffect DEF BecomeUser
  <2>p. me[w].pc = "login" /\ me[w].s \in Sessions
    BY <1>8, <1>c DEF BecomeUser, At, Receive
  <2>l. UNCHANGED <<list, got, there>>
    BY <1>8 DEF BecomeUser
  <2>o. ASSUME NEW v \in Workers, v # w, NEW u \in Sessions PROVE SentTo(v, u)'
    BY <2>o, <2>e, <2>l, <1>h, SentOther
  <2>x. ASSUME NEW u \in Sessions PROVE SentTo(w, u)'
    BY <2>e DEF SentTo, At
  <2> QED
    BY <2>o, <2>x DEF SentSoFar
<1>9. ASSUME NEW w \in Workers, FirstMove(w) PROVE SentSoFar'
  <2>e. /\ \A v \in Workers : v # w => me'[v] = me[v]
        /\ me'[w].pc = "unlock" /\ me'[w].s = me[w].s /\ me'[w].k = me[w].k
        /\ me'[w].from = me[w].from /\ me'[w].to = me[w].to
    BY <1>9, <1>a, <1>b, GotoEffect DEF FirstMove
  <2>p. me[w].pc = "first" /\ me[w].s \in Sessions
    BY <1>9, <1>c DEF FirstMove, At, Receive
  <2>1. /\ UNCHANGED <<got, there>> /\ shared[me[w].to] = {}
        /\ list' = [list EXCEPT ![me[w].to] = @ \cup {me[w].s}]
    BY <1>9 DEF FirstMove, Acquire
  <2>l. /\ UNCHANGED <<got, there>>
        /\ \A v \in Workers, j \in 1..9 :
               At(v, "send") /\ j >= me[v].k /\ SectorRangeCheck(Around(me[v].from, j))
                   => list'[Around(me[v].from, j)] = list[Around(me[v].from, j)]
    BY <2>1, <1>f, <1>k
  <2>o. ASSUME NEW v \in Workers, v # w, NEW u \in Sessions PROVE SentTo(v, u)'
    BY <2>o, <2>e, <2>l, <1>h, SentOther
  <2>x. ASSUME NEW u \in Sessions PROVE SentTo(w, u)'
    BY <2>e DEF SentTo, At
  <2> QED
    BY <2>o, <2>x DEF SentSoFar
<1>10. ASSUME NEW w \in Workers, Lock1(w) PROVE SentSoFar'
  <2>e. /\ \A v \in Workers : v # w => me'[v] = me[v]
        /\ me'[w].pc = "lock2" /\ me'[w].s = me[w].s /\ me'[w].k = me[w].k
        /\ me'[w].from = me[w].from /\ me'[w].to = me[w].to
    BY <1>10, <1>a, <1>b, GotoEffect DEF Lock1
  <2>p. me[w].pc = "lock1" /\ me[w].s \in Sessions
    BY <1>10, <1>c DEF Lock1, At, Receive
  <2>l. UNCHANGED <<list, got, there>>
    BY <1>10 DEF Lock1
  <2>o. ASSUME NEW v \in Workers, v # w, NEW u \in Sessions PROVE SentTo(v, u)'
    BY <2>o, <2>e, <2>l, <1>h, SentOther
  <2>x. ASSUME NEW u \in Sessions PROVE SentTo(w, u)'
    BY <2>e DEF SentTo, At
  <2> QED
    BY <2>o, <2>x DEF SentSoFar
<1>11. ASSUME NEW w \in Workers, Lock2(w) PROVE SentSoFar'
  <2>e. /\ \A v \in Workers : v # w => me'[v] = me[v]
        /\ me'[w].pc = "move" /\ me'[w].s = me[w].s /\ me'[w].k = me[w].k
        /\ me'[w].from = me[w].from /\ me'[w].to = me[w].to
    BY <1>11, <1>a, <1>b, GotoEffect DEF Lock2
  <2>p. me[w].pc = "lock2" /\ me[w].s \in Sessions
    BY <1>11, <1>c DEF Lock2, At, Receive
  <2>l. UNCHANGED <<list, got, there>>
    BY <1>11 DEF Lock2
  <2>o. ASSUME NEW v \in Workers, v # w, NEW u \in Sessions PROVE SentTo(v, u)'
    BY <2>o, <2>e, <2>l, <1>h, SentOther
  <2>x. ASSUME NEW u \in Sessions PROVE SentTo(w, u)'
    BY <2>e DEF SentTo, At
  <2> QED
    BY <2>o, <2>x DEF SentSoFar
<1>12. ASSUME NEW w \in Workers, Move(w) PROVE SentSoFar'
  <2>e. /\ \A v \in Workers : v # w => me'[v] = me[v]
        /\ me'[w].pc = "unlock" /\ me'[w].s = me[w].s /\ me'[w].k = me[w].k
        /\ me'[w].from = me[w].from /\ me'[w].to = me[w].to
    BY <1>12, <1>a, <1>b, GotoEffect DEF Move
  <2>p. me[w].pc = "move" /\ me[w].s \in Sessions
    BY <1>12, <1>c DEF Move, At, Receive
  <2>1. /\ UNCHANGED <<got, there>>
        /\ \A p \in Sectors : p # me[w].from /\ p # me[w].to => list'[p] = list[p]
    BY <1>12, <1>f DEF Move
  <2>2. excl[me[w].from] = w /\ excl[me[w].to] = w
    BY <2>p DEF LocksKept, At
  <2>l. /\ UNCHANGED <<got, there>>
        /\ \A v \in Workers, j \in 1..9 :
               At(v, "send") /\ j >= me[v].k /\ SectorRangeCheck(Around(me[v].from, j))
                   => list'[Around(me[v].from, j)] = list[Around(me[v].from, j)]
    BY <2>1, <2>2, <1>k, NoneApart
  <2>o. ASSUME NEW v \in Workers, v # w, NEW u \in Sessions PROVE SentTo(v, u)'
    BY <2>o, <2>e, <2>l, <1>h, SentOther
  <2>x. ASSUME NEW u \in Sessions PROVE SentTo(w, u)'
    BY <2>e DEF SentTo, At
  <2> QED
    BY <2>o, <2>x DEF SentSoFar
<1>13. ASSUME NEW w \in Workers, Unlock(w) PROVE SentSoFar'
  <2>e. /\ \A v \in Workers : v # w => me'[v] = me[v]
        /\ me'[w].pc = "done" /\ me'[w].s = me[w].s /\ me'[w].k = me[w].k
        /\ me'[w].from = me[w].from /\ me'[w].to = me[w].to
    BY <1>13, <1>a, <1>b, GotoEffect DEF Unlock
  <2>p. me[w].pc = "unlock" /\ me[w].s \in Sessions
    BY <1>13, <1>c DEF Unlock, At, Receive
  <2>l. UNCHANGED <<list, got, there>>
    BY <1>13 DEF Unlock
  <2>o. ASSUME NEW v \in Workers, v # w, NEW u \in Sessions PROVE SentTo(v, u)'
    BY <2>o, <2>e, <2>l, <1>h, SentOther
  <2>x. ASSUME NEW u \in Sessions PROVE SentTo(w, u)'
    BY <2>e DEF SentTo, At
  <2> QED
    BY <2>o, <2>x DEF SentSoFar
<1>14. ASSUME NEW w \in Workers, Moved(w) PROVE SentSoFar'
  <2>e. /\ \A v \in Workers : v # w => me'[v] = me[v]
        /\ me'[w].pc = "idle" /\ me'[w].s = None
    BY <1>14, <1>a, ReturnEffect DEF Moved
  <2>p. me[w].pc = "done" /\ me[w].s \in Sessions
    BY <1>14, <1>c DEF Moved, At, Receive
  <2>l. UNCHANGED <<list, got, there>>
    BY <1>14 DEF Moved
  <2>o. ASSUME NEW v \in Workers, v # w, NEW u \in Sessions PROVE SentTo(v, u)'
    BY <2>o, <2>e, <2>l, <1>h, SentOther
  <2>x. ASSUME NEW u \in Sessions PROVE SentTo(w, u)'
    BY <2>e DEF SentTo, At
  <2> QED
    BY <2>o, <2>x DEF SentSoFar
<1>15. ASSUME NEW w \in Workers, LockNext(w) PROVE SentSoFar'
  <2>e. /\ \A v \in Workers : v # w => me'[v] = me[v]
        /\ me'[w].pc = me[w].pc /\ me'[w].s = me[w].s /\ me'[w].k = me[w].k + 1
        /\ me'[w].from = me[w].from /\ me'[w].to = me[w].to
    <3>1. me[w].k <= 9
      BY <1>15 DEF LockNext
    <3>2. me[w].k + 1 \in 1..10
      BY <1>a, <3>1, NextPlace
    <3> QED
      BY <1>15, <1>a, <3>2, CountEffect DEF LockNext
  <2>p. me[w].pc = "around" /\ me[w].s \in Sessions
    BY <1>15, <1>c DEF LockNext, At, Receive
  <2>l. UNCHANGED <<list, got, there>>
    BY <1>15 DEF LockNext
  <2>o. ASSUME NEW v \in Workers, v # w, NEW u \in Sessions PROVE SentTo(v, u)'
    BY <2>o, <2>e, <2>l, <1>h, SentOther
  <2>x. ASSUME NEW u \in Sessions PROVE SentTo(w, u)'
    <3>1. SentTo(w, u)
      BY <1>h
    <3> QED
      BY <3>1, <2>e, <2>p, <2>l DEF SentTo, At
  <2> QED
    BY <2>o, <2>x DEF SentSoFar
<1>16. ASSUME NEW w \in Workers, AllLocked(w) PROVE SentSoFar'
  <2>e. /\ \A v \in Workers : v # w => me'[v] = me[v]
        /\ me'[w].pc = "send" /\ me'[w].s = me[w].s
        /\ me'[w].from = me[w].from /\ me'[w].to = me[w].to /\ me'[w].k = 1
    BY <1>16, <1>a, AllLockedEffect
  <2>p. me[w].pc = "around" /\ me[w].s \in Sessions
    BY <1>16, <1>c DEF AllLocked, At, Receive
  <2>l. /\ UNCHANGED <<list, got>>
        /\ \A v \in Workers : v # w => there'[v] = there[v]
        /\ there'[w] = {u \in Sessions : \E k \in 1..9 : SectorRangeCheck(Around(me[w].from, k))
                                                         /\ u \in list[Around(me[w].from, k)]}
    BY <1>16, <1>f DEF AllLocked
  <2>o. ASSUME NEW v \in Workers, v # w, NEW u \in Sessions PROVE SentTo(v, u)'
    BY <2>o, <2>e, <2>l, <1>h, SentOther
  <2>x. ASSUME NEW u \in Sessions PROVE SentTo(w, u)'
    <3>1. got'[w][u] = 0
      BY <2>l, <2>p, <1>h DEF SentTo, At
    <3>2. StillAround(w, u)' <=> u \in there'[w]
      <4>1. \A j \in 1..9 : j >= 1
        OBVIOUS
      <4> QED
        BY <4>1, <2>e, <2>l DEF StillAround
    <3> QED
      BY <3>1, <3>2, <2>e DEF SentTo, At
  <2> QED
    BY <2>o, <2>x DEF SentSoFar
<1>17. ASSUME NEW w \in Workers, SendOne(w) PROVE SentSoFar'
  <2>e. /\ \A v \in Workers : v # w => me'[v] = me[v]
        /\ me'[w].pc = me[w].pc /\ me'[w].s = me[w].s /\ me'[w].k = me[w].k + 1
        /\ me'[w].from = me[w].from /\ me'[w].to = me[w].to
    <3>1. me[w].k <= 9
      BY <1>17 DEF SendOne
    <3>2. me[w].k + 1 \in 1..10
      BY <1>a, <3>1, NextPlace
    <3> QED
      BY <1>17, <1>a, <3>2, CountEffect DEF SendOne
  <2>p. me[w].pc = "send" /\ me[w].s \in Sessions
    BY <1>17, <1>c DEF SendOne, At, Receive
  <2>q. me[w].k \in 1..9
    <3>1. me[w].k <= 9
      BY <1>17 DEF SendOne
    <3> QED
      BY <3>1, <1>a
  <2>l. /\ UNCHANGED <<list, there>>
        /\ \A v \in Workers : v # w => got'[v] = got[v]
        /\ \A u \in Sessions : got'[w][u] =
               IF SectorRangeCheck(Around(me[w].from, me[w].k))
                  /\ u \in list[Around(me[w].from, me[w].k)]
               THEN got[w][u] + 1 ELSE got[w][u]
    BY <1>17, <1>f DEF SendOne
  <2>o. ASSUME NEW v \in Workers, v # w, NEW u \in Sessions PROVE SentTo(v, u)'
    BY <2>o, <2>e, <2>l, <1>h, SentOther
  <2>x. ASSUME NEW u \in Sessions PROVE SentTo(w, u)'
    <3> DEFINE K == me[w].k
               A(j) == Around(me[w].from, j)
               InList(j) == SectorRangeCheck(A(j)) /\ u \in list[A(j)]
    <3>1. StillAround(w, u) <=> InList(K) \/ \E j \in 1..9 : j >= K + 1 /\ InList(j)
      <4>1. \A j \in 1..9 : j >= K <=> j = K \/ j >= K + 1
        BY <2>q
      <4> QED
        BY <4>1, <2>q DEF StillAround
    <3>2. StillAround(w, u)' <=> \E j \in 1..9 : j >= K + 1 /\ InList(j)
      BY <2>e, <2>l DEF StillAround, SectorRangeCheck, Around, Offset
    <3>3. InList(K) => ~StillAround(w, u)'
      <4> SUFFICES ASSUME InList(K), NEW j \in 1..9, j >= K + 1, InList(j) PROVE FALSE
        BY <3>2
      <4>1. A(K) \in Sectors /\ A(j) \in Sectors
        BY <1>g, <2>q
      <4>2. A(K) = A(j)
        BY <4>1, OneList
      <4>3. K # j
        BY <2>q
      <4> QED
        BY <4>2, <4>3, <2>q, <1>a, AroundDifferent
    <3>4. /\ StillAround(w, u) => u \in there[w]
          /\ got[w][u] = IF u \in there[w] /\ ~StillAround(w, u) THEN 1 ELSE 0
      BY <2>p, <1>h DEF SentTo, At
    <3>5. got'[w][u] = IF InList(K) THEN got[w][u] + 1 ELSE got[w][u]
      BY <2>l
    <3>6. me'[w].pc = "send" /\ there'[w] = there[w]
      BY <2>e, <2>p, <2>l
    <3> HIDE DEF InList
    <3> QED
      BY <3>1, <3>2, <3>3, <3>4, <3>5, <3>6 DEF SentTo, At
  <2> QED
    BY <2>o, <2>x DEF SentSoFar
<1>18. ASSUME NEW w \in Workers, Sent(w) PROVE SentSoFar'
  <2>e. /\ \A v \in Workers : v # w => me'[v] = me[v]
        /\ me'[w].pc = "idle" /\ me'[w].s = None
    BY <1>18, <1>a, ReturnEffect DEF Sent
  <2>p. me[w].pc = "send" /\ me[w].s \in Sessions
    BY <1>18, <1>c DEF Sent, At, Receive
  <2>l. UNCHANGED <<list, got, there>>
    BY <1>18 DEF Sent
  <2>o. ASSUME NEW v \in Workers, v # w, NEW u \in Sessions PROVE SentTo(v, u)'
    BY <2>o, <2>e, <2>l, <1>h, SentOther
  <2>x. ASSUME NEW u \in Sessions PROVE SentTo(w, u)'
    BY <2>e DEF SentTo, At
  <2> QED
    BY <2>o, <2>x DEF SentSoFar
<1>19. ASSUME NEW w \in Workers, Remove(w) PROVE SentSoFar'
  <2>e. /\ \A v \in Workers : v # w => me'[v] = me[v]
        /\ me'[w].pc = "remove" /\ me'[w].s = me[w].s /\ me'[w].k = me[w].k
        /\ me'[w].from = me[w].from /\ me'[w].to = me[w].to
    BY <1>19, <1>a, <1>b, GotoEffect DEF Remove
  <2>p. me[w].pc = "leave" /\ me[w].s \in Sessions
    BY <1>19, <1>c DEF Remove, At, Receive
  <2>1. /\ UNCHANGED <<got, there>>
        /\ \/ list' = list
           \/ /\ shared[me[w].from] = {}
              /\ list' = [list EXCEPT ![me[w].from] = @ \ {me[w].s}]
    BY <1>19 DEF Remove, Acquire
  <2>l. /\ UNCHANGED <<got, there>>
        /\ \A v \in Workers, j \in 1..9 :
               At(v, "send") /\ j >= me[v].k /\ SectorRangeCheck(Around(me[v].from, j))
                   => list'[Around(me[v].from, j)] = list[Around(me[v].from, j)]
    BY <2>1, <1>f, <1>k
  <2>o. ASSUME NEW v \in Workers, v # w, NEW u \in Sessions PROVE SentTo(v, u)'
    BY <2>o, <2>e, <2>l, <1>h, SentOther
  <2>x. ASSUME NEW u \in Sessions PROVE SentTo(w, u)'
    BY <2>e DEF SentTo, At
  <2> QED
    BY <2>o, <2>x DEF SentSoFar
<1>20. ASSUME NEW w \in Workers, FreeUser(w) PROVE SentSoFar'
  <2>e. /\ \A v \in Workers : v # w => me'[v] = me[v]
        /\ me'[w].pc = "idle" /\ me'[w].s = None
    BY <1>20, <1>a, ReturnEffect DEF FreeUser
  <2>p. me[w].pc = "remove" /\ me[w].s \in Sessions
    BY <1>20, <1>c DEF FreeUser, At, Receive
  <2>l. UNCHANGED <<list, got, there>>
    BY <1>20 DEF FreeUser
  <2>o. ASSUME NEW v \in Workers, v # w, NEW u \in Sessions PROVE SentTo(v, u)'
    BY <2>o, <2>e, <2>l, <1>h, SentOther
  <2>x. ASSUME NEW u \in Sessions PROVE SentTo(w, u)'
    BY <2>e DEF SentTo, At
  <2> QED
    BY <2>o, <2>x DEF SentSoFar
<1>21. CASE UNCHANGED vars
  BY <1>21, <1>h, SentOther DEF vars, SentSoFar
<1> QED
  BY <1>1, <1>2, <1>3, <1>4, <1>5, <1>6, <1>7, <1>8, <1>9, <1>10, <1>11, <1>12, <1>13, <1>14, <1>15, <1>16, <1>17, <1>18, <1>19, <1>20, <1>21
     DEF Next, Step, Message

-----------------------------------------------------------------------------
(* The theorems *)

\* The invariant holds in every reachable state.
THEOREM Invariant == Spec => []IInv
<1>1. IInv /\ [Next]_vars => IInv'
  BY TypeStep, SessionStep, LockStep, ListedStep, SentStep DEF IInv
<1> QED
  BY InitIInv, <1>1, PTL DEF Spec

\* Every variable keeps its type; so s_Pos, which SectorFind and the moves
\* index m_SectorInfo with, is always a sector of the map.
THEOREM TypeCorrect == Spec => []TypeOK
<1>1. IInv => TypeOK
  BY DEF IInv
<1> QED
  BY Invariant, <1>1, PTL

\* What a worker holds and what it waits for, by its place in the handler.
LEMMA OrderFollows == IInv => LocksInOrder
<1> SUFFICES ASSUME IInv, NEW w \in Workers, NEW p \in Wanted(w), NEW q \in Sectors, Holds(w, q)
             PROVE  Before(q, p)
  BY DEF LocksInOrder
<1>1. /\ me[w].from \in Sectors /\ me[w].to \in Sectors /\ me[w].k \in 1..10
  BY DEF IInv, TypeOK, Locals
<1>2. \/ excl[q] = w /\ \/ At(w, "lock2") /\ q = FirstOf(me[w].from, me[w].to)
                        \/ At(w, "move") \/ At(w, "unlock") \/ At(w, "remove")
      \/ At(w, "around") /\ \E j \in 1..9 : j < me[w].k /\ q = Around(me[w].from, j)
      \/ At(w, "send")
  BY DEF Holds, IInv, LocksHeld
<1>3. CASE At(w, "lock2")
  <2>1. p = SecondOf(me[w].from, me[w].to)
    BY <1>3 DEF Wanted, At
  <2>2. q = FirstOf(me[w].from, me[w].to)
    BY <1>2, <1>3 DEF At
  <2>3. me[w].from # me[w].to
    <3>1. LocksKept /\ LocksHeld /\ LocalsTrue
      BY DEF IInv
    <3> QED
      BY <1>3, <3>1 DEF LocalsTrue, At
  <2> QED
    BY <1>1, <2>1, <2>2, <2>3, FirstBeforeSecond
<1>4. CASE At(w, "around")
  <2>1. p = Around(me[w].from, me[w].k) /\ me[w].k \in 1..9
    BY <1>1, <1>4 DEF Wanted, At
  <2>2. PICK j \in 1..9 : j < me[w].k /\ q = Around(me[w].from, j)
    BY <1>2, <1>4 DEF At
  <2> QED
    BY <1>1, <2>1, <2>2, AroundInOrder
<1>5. CASE me[w].pc \in {"move", "unlock", "remove", "send"}
  BY <1>5 DEF Wanted, At
<1> QED
  BY <1>2, <1>3, <1>4, <1>5 DEF At

\* No worker waits for the lock of a sector while it holds that of a later
\* one: the reason why AcquireSectorExclusiveLock and SectorFind cannot
\* deadlock, on a map of any size and with any number of workers.
THEOREM LockOrder == Spec => []LocksInOrder
BY Invariant, OrderFollows, PTL

\* After the ninth sector nobody is still to be sent to.
LEMMA SentFollows == IInv => BroadcastOnce
<1> SUFFICES ASSUME IInv, NEW w \in Workers, At(w, "send"), me[w].k = 10, NEW u \in Sessions
             PROVE  got[w][u] = IF u \in there[w] THEN 1 ELSE 0
  BY DEF BroadcastOnce
<1>1. SentTo(w, u)
  BY DEF IInv, SentSoFar
<1>2. ~StillAround(w, u)
  BY DEF StillAround
<1> QED
  BY <1>1, <1>2 DEF SentTo

\* SendPakcet_SectorAround sends a message once to everybody who was around
\* when it had its locks, and to nobody else, though it gives the locks back
\* one by one.
THEOREM SentOnce == Spec => []BroadcastOnce
BY Invariant, SentFollows, PTL

\* Whoever is listed is a user, or its worker has not freed it yet.
LEMMA ListsFollow == IInv => ListsHoldUsers
<1> SUFFICES ASSUME IInv PROVE ListsHoldUsers
  OBVIOUS
<1>1. /\ \A s \in Sessions : ListedAt(s)
      /\ users \subseteq alive /\ sector \subseteq Sessions /\ pos \in [Sessions -> Sectors]
      /\ list \in [Sectors -> SUBSET Sessions]
  BY DEF IInv, TypeOK, InOneMap, Listed
<1>2. ASSUME NEW s \in Sessions, Moving(s) PROVE s \in users
  <2>1. PICK w \in Workers : me[w].s = s /\ me[w].pc \in {"unlock", "done"}
    BY <1>2 DEF Moving
  <2> QED
    BY <2>1 DEF IInv, InOneMap, Handling
<1>3. ASSUME NEW s \in Sessions, Settled(s) PROVE s \in alive
  BY <1>1, <1>3 DEF Settled, At, IInv, InOneMap, Leaving
<1>4. ASSUME NEW p \in Sectors, NEW s \in list[p] PROVE s \in alive
  <2>1. s \in Sessions
    BY <1>1
  <2> QED
    BY <1>1, <1>2, <1>3, <2>1 DEF ListedAt
<1>5. \A p, q \in Sectors : p # q => list[p] \cap list[q] = {}
  BY <1>1, OneList DEF IInv
<1>6. ASSUME NEW s \in sector, s \in users, s \notin busy PROVE s \in list[pos[s]]
  <2>1. s \in Sessions
    BY <1>1
  <2>2. ~Moving(s)
    BY <1>6, <2>1 DEF Moving, IInv, OneWorker, Handling
  <2>3. Settled(s)
    BY <1>6 DEF Settled
  <2> QED
    BY <1>1, <2>1, <2>2, <2>3 DEF ListedAt
<1> QED
  BY <1>4, <1>5, <1>6 DEF ListsHoldUsers

\* The lists of the sectors hold users whose CUser has not been given back,
\* each in one list, and a user nobody is moving in that of s_Pos.
THEOREM ListsTrue == Spec => []ListsHoldUsers
BY Invariant, ListsFollow, PTL

=============================================================================
