----------------------------- MODULE ChatSectors -----------------------------
(***************************************************************************)
(* The chat server whose workers handle their messages themselves: the two *)
(* maps, the lists of the sectors and one SRWLOCK for each sector.         *)
(*                                                                         *)
(* Abstractions.  A CUser is named by its session.  The critical sections  *)
(* of m_NonUserMapLock and m_UserMapLock are one step each, as nothing is  *)
(* waited for inside them.  The receives of a session come one at a time   *)
(* and OnClientLeave after the last one (NetServer).  SendPacket touches   *)
(* no state of this server.                                                *)
(***************************************************************************)
EXTENDS Integers, FiniteSets

CONSTANTS
    Sessions,
    Workers,
    XMax, YMax, \* SECTOR_X_MAX, SECTOR_Y_MAX
    UserMax,    \* m_UserMaxCnt
    None

ASSUME Sizes == XMax \in Nat \ {0} /\ YMax \in Nat \ {0} /\ UserMax \in Nat
ASSUME NoneApart == None \notin Workers /\ None \notin Sessions

Sectors == (0..XMax - 1) \X (0..YMax - 1)
Places == (0..XMax) \X (0..YMax) \* what a client may ask for

VARIABLES
    conn,     \* each session: "new", "open", "closing" (disconnected), "left"
    busy,     \* sessions a worker handles a message of
    nonUser,  \* m_NonUserMap
    users,    \* m_UserMap
    alive,    \* sessions whose CUser is taken from m_pUserPool
    sector,   \* sessions with s_Sector = 1
    pos,      \* s_Pos
    list,     \* s_list of each sector
    excl,     \* s_lock of each sector: its exclusive owner
    shared,   \* and its shared owners
    me,       \* each worker: where it is and its local variables
    got,      \* history: copies the message of a worker went out to each user in
    there     \* history: who was around when it had all its locks

maps == <<nonUser, users, alive>>
places == <<sector, pos, list>>
locks == <<excl, shared>>
told == <<got, there>>
vars == <<conn, busy, maps, places, locks, me, told>>

PCs == {"idle", "login", "first", "lock1", "lock2", "move", "unlock", "around", "send",
        "leave", "remove", "done"}
Locals == [pc : PCs, s : Sessions \cup {None}, from : Sectors, to : Sectors, k : 1..10]
Local(place, s, from, to) == [pc |-> place, s |-> s, from |-> from, to |-> to, k |-> 1]
Idle == Local("idle", None, <<0, 0>>, <<0, 0>>)

TypeOK ==
    /\ conn \in [Sessions -> {"new", "open", "closing", "left"}]
    /\ busy \subseteq Sessions
    /\ nonUser \subseteq Sessions /\ users \subseteq Sessions /\ alive \subseteq Sessions
    /\ sector \subseteq Sessions /\ pos \in [Sessions -> Sectors]
    /\ list \in [Sectors -> SUBSET Sessions]
    /\ excl \in [Sectors -> Workers \cup {None}] /\ shared \in [Sectors -> SUBSET Workers]
    /\ me \in [Workers -> Locals]
    /\ got \in [Workers -> [Sessions -> Nat]] /\ there \in [Workers -> SUBSET Sessions]

Init ==
    /\ conn = [s \in Sessions |-> "new"] /\ busy = {}
    /\ nonUser = {} /\ users = {} /\ alive = {}
    /\ sector = {} /\ pos = [s \in Sessions |-> <<0, 0>>]
    /\ list = [p \in Sectors |-> {}]
    /\ excl = [p \in Sectors |-> None] /\ shared = [p \in Sectors |-> {}]
    /\ me = [w \in Workers |-> Idle]
    /\ got = [w \in Workers |-> [s \in Sessions |-> 0]]
    /\ there = [w \in Workers |-> {}]

At(w, place) == me[w].pc = place
Goto(w, place) == me' = [me EXCEPT ![w].pc = place]
Disconnect(s) == conn' = [conn EXCEPT ![s] = "closing"]

\* The worker takes a message of session s, calls its handler, and it returns.
Receive(w, s) == At(w, "idle") /\ conn[s] = "open" /\ s \notin busy
Begin(w, place, s, from, to) == me' = [me EXCEPT ![w] = Local(place, s, from, to)]
Return(w) == me' = [me EXCEPT ![w] = Idle] /\ busy' = busy \ {me[w].s}

-----------------------------------------------------------------------------
(* Slips one could make in this code.  No action uses them: each is put in  *)
(* the place of the definition it is named after, to see which property     *)
(* notices.                                                                 *)

\* SectorFind starts with the sector of the user.
Offset_SelfFirst == << <<0, 0>>, <<-1, -1>>, <<0, -1>>, <<1, -1>>, <<-1, 0>>,
                       <<1, 0>>, <<-1, 1>>, <<0, 1>>, <<1, 1>> >>

\* The locks of a move in the order the sectors are left and entered.
FirstOf_From(e, i) == e

\* OnClientLeave frees the CUser and forgets the sector.
HasSector_Never(s) == FALSE

\* The locks of all sectors are given back with the first.
Kept_None(w, p) == {}

\* SectorRangeCheck with > for >=.
SectorRangeCheck_OffByOne(p) == p[1] \in 0..XMax /\ p[2] \in 0..YMax

-----------------------------------------------------------------------------
(* The sectors and their locks *)

\* A coordinate below 0 is a large WORD.
SectorRangeCheck(p) == p[1] \in 0..XMax - 1 /\ p[2] \in 0..YMax - 1

Acquire(w, p) ==
    /\ excl[p] = None /\ shared[p] = {}
    /\ excl' = [excl EXCEPT ![p] = w] /\ UNCHANGED shared

AcquireShared(w, p) ==
    /\ excl[p] = None
    /\ shared' = [shared EXCEPT ![p] = @ \cup {w}] /\ UNCHANGED excl

ReleaseAll(w) ==
    /\ excl' = [p \in Sectors |-> IF excl[p] = w THEN None ELSE excl[p]]
    /\ UNCHANGED shared

\* AcquireSectorExclusiveLock: the upper sector first, then the left one.
Before(p, q) == p[2] < q[2] \/ (p[2] = q[2] /\ p[1] < q[1])
FirstOf(e, i) == IF Before(e, i) THEN e ELSE i
SecondOf(e, i) == IF FirstOf(e, i) = e THEN i ELSE e

\* SectorFind: the sectors around, row by row, and the range check of each.
Offset == << <<-1, -1>>, <<0, -1>>, <<1, -1>>, <<-1, 0>>, <<0, 0>>,
            <<1, 0>>, <<-1, 1>>, <<0, 1>>, <<1, 1>> >>
Around(p, k) == <<p[1] + Offset[k][1], p[2] + Offset[k][2]>>

-----------------------------------------------------------------------------
(* Connections *)

OnClientJoin(s) ==
    /\ conn[s] = "new"
    /\ conn' = [conn EXCEPT ![s] = "open"]
    /\ nonUser' = nonUser \cup {s}
    /\ UNCHANGED <<busy, users, alive, places, locks, me, told>>

\* The peer closes, or a message has a bad type or length.
Hangup(s) ==
    /\ conn[s] = "open"
    /\ Disconnect(s)
    /\ UNCHANGED <<busy, maps, places, locks, me, told>>

\* A message that is not expected yet: a move before the login, a chat message
\* or a heartbeat before the first move.
TooEarly(w, s) ==
    /\ Receive(w, s)
    /\ s \notin users \/ s \notin sector
    /\ Disconnect(s)
    /\ UNCHANGED <<busy, maps, places, locks, me, told>>

-----------------------------------------------------------------------------
(* LoginProc; a client asks for it once *)

\* m_UserMap.size() >= m_UserMaxCnt, without the lock of the map.
Full == Cardinality(users) >= UserMax

Login(w, s) ==
    /\ Receive(w, s) /\ s \in nonUser
    /\ IF Full THEN Disconnect(s) /\ UNCHANGED <<me, busy>>
       ELSE /\ Begin(w, "login", s, <<0, 0>>, <<0, 0>>)
            /\ busy' = busy \cup {s}
            /\ UNCHANGED conn
    /\ UNCHANGED <<maps, places, locks, told>>

\* Under both locks the session changes maps; User_Init clears s_Sector.
BecomeUser(w) ==
    LET s == me[w].s
    IN  /\ At(w, "login")
        /\ nonUser' = nonUser \ {s} /\ users' = users \cup {s} /\ alive' = alive \cup {s}
        /\ sector' = sector \ {s}
        /\ Return(w)
        /\ UNCHANGED <<conn, pos, list, locks, told>>

-----------------------------------------------------------------------------
(* SectorMoveProc *)

\* The first move puts the user into its sector, a move to the same sector
\* changes nothing, any other takes the locks of both.
SectorMove(w, s, to) ==
    /\ Receive(w, s) /\ s \in users
    /\ s \in sector => to # pos[s]
    /\ IF SectorRangeCheck(to)
       THEN /\ Begin(w, IF s \in sector THEN "lock1" ELSE "first", s, pos[s], to)
            /\ busy' = busy \cup {s}
            /\ UNCHANGED conn
       ELSE Disconnect(s) /\ UNCHANGED <<me, busy>>
    /\ UNCHANGED <<maps, places, locks, told>>

FirstMove(w) ==
    /\ At(w, "first")
    /\ Acquire(w, me[w].to)
    /\ list' = [list EXCEPT ![me[w].to] = @ \cup {me[w].s}]
    /\ Goto(w, "unlock")
    /\ UNCHANGED <<conn, busy, maps, sector, pos, told>>

Lock1(w) ==
    /\ At(w, "lock1")
    /\ Acquire(w, FirstOf(me[w].from, me[w].to))
    /\ Goto(w, "lock2")
    /\ UNCHANGED <<conn, busy, maps, places, told>>

Lock2(w) ==
    /\ At(w, "lock2")
    /\ Acquire(w, SecondOf(me[w].from, me[w].to))
    /\ Goto(w, "move")
    /\ UNCHANGED <<conn, busy, maps, places, told>>

\* erase and push_back; s_Pos is set after the locks are released.
Move(w) ==
    LET s == me[w].s
    IN  /\ At(w, "move")
        /\ list' = IF s \in list[me[w].from]
                   THEN [list EXCEPT ![me[w].from] = @ \ {s}, ![me[w].to] = @ \cup {s}]
                   ELSE list
        /\ Goto(w, "unlock")
        /\ UNCHANGED <<conn, busy, maps, sector, pos, locks, told>>

Unlock(w) ==
    /\ At(w, "unlock")
    /\ ReleaseAll(w)
    /\ Goto(w, "done")
    /\ UNCHANGED <<conn, busy, maps, places, told>>

Moved(w) ==
    /\ At(w, "done")
    /\ sector' = sector \cup {me[w].s}
    /\ pos' = [pos EXCEPT ![me[w].s] = me[w].to]
    /\ Return(w)
    /\ UNCHANGED <<conn, maps, list, locks, told>>

-----------------------------------------------------------------------------
(* ChatMessageProc and SendPakcet_SectorAround *)

ChatMessage(w, s) ==
    /\ Receive(w, s) /\ s \in users /\ s \in sector
    /\ Begin(w, "around", s, pos[s], <<0, 0>>)
    /\ busy' = busy \cup {s}
    /\ got' = [got EXCEPT ![w] = [u \in Sessions |-> 0]]
    /\ UNCHANGED <<conn, maps, places, locks, there>>

\* The next sector around is locked, or left out where the map ends.
LockNext(w) ==
    LET k == me[w].k
        p == Around(me[w].from, k)
    IN  /\ At(w, "around") /\ k <= 9
        /\ IF SectorRangeCheck(p) THEN AcquireShared(w, p) ELSE UNCHANGED locks
        /\ me' = [me EXCEPT ![w].k = k + 1]
        /\ UNCHANGED <<conn, busy, maps, places, told>>

AllLocked(w) ==
    /\ At(w, "around") /\ me[w].k = 10
    /\ there' = [there EXCEPT ![w] =
           {u \in Sessions : \E k \in 1..9 : SectorRangeCheck(Around(me[w].from, k))
                                             /\ u \in list[Around(me[w].from, k)]}]
    /\ Begin(w, "send", me[w].s, me[w].from, me[w].to)
    /\ UNCHANGED <<conn, busy, maps, places, locks, got>>

\* The locks a worker keeps when it has sent to sector p.
Kept(w, p) == {q \in Sectors : w \in shared[q]} \ {p}

\* SendPacket_SectorOne, and the lock of that sector is released at once.
SendOne(w) ==
    LET k == me[w].k
        p == Around(me[w].from, k)
    IN  /\ At(w, "send") /\ k <= 9
        /\ IF SectorRangeCheck(p)
           THEN /\ got' = [got EXCEPT ![w] = [u \in Sessions |->
                                                 IF u \in list[p] THEN @[u] + 1 ELSE @[u]]]
                /\ shared' = [q \in Sectors |-> IF q \in Kept(w, p) THEN shared[q]
                                                ELSE shared[q] \ {w}]
           ELSE UNCHANGED <<got, shared>>
        /\ me' = [me EXCEPT ![w].k = k + 1]
        /\ UNCHANGED <<conn, busy, maps, places, excl, there>>

Sent(w) ==
    /\ At(w, "send") /\ me[w].k = 10
    /\ Return(w)
    /\ UNCHANGED <<conn, maps, places, locks, told>>

-----------------------------------------------------------------------------
(* OnClientLeave *)

\* The session is looked for in m_NonUserMap, then in m_UserMap.
OnClientLeave(w, s) ==
    /\ At(w, "idle") /\ conn[s] = "closing" /\ s \notin busy
    /\ conn' = [conn EXCEPT ![s] = "left"]
    /\ IF s \in nonUser
       THEN nonUser' = nonUser \ {s} /\ UNCHANGED <<users, me>>
       ELSE /\ users' = users \ {s} /\ UNCHANGED nonUser
            /\ Begin(w, "leave", s, pos[s], <<0, 0>>)
    /\ UNCHANGED <<busy, alive, places, locks, told>>

\* pUser->s_Sector == 1
HasSector(s) == s \in sector

\* The user leaves the list of its sector, under its lock.
Remove(w) ==
    /\ At(w, "leave")
    /\ IF HasSector(me[w].s)
       THEN /\ Acquire(w, me[w].from)
            /\ list' = [list EXCEPT ![me[w].from] = @ \ {me[w].s}]
       ELSE UNCHANGED <<list, locks>>
    /\ Goto(w, "remove")
    /\ UNCHANGED <<conn, busy, maps, sector, pos, told>>

\* The lock is released and the CUser goes back to the pool.
FreeUser(w) ==
    /\ At(w, "remove")
    /\ ReleaseAll(w)
    /\ alive' = alive \ {me[w].s}
    /\ Return(w)
    /\ UNCHANGED <<conn, nonUser, users, places, told>>

-----------------------------------------------------------------------------
Step(w) ==
    \/ BecomeUser(w) \/ FirstMove(w) \/ Lock1(w) \/ Lock2(w) \/ Move(w) \/ Unlock(w) \/ Moved(w)
    \/ LockNext(w) \/ AllLocked(w) \/ SendOne(w) \/ Sent(w)
    \/ Remove(w) \/ FreeUser(w)

Message(w, s) ==
    \/ TooEarly(w, s) \/ Login(w, s) \/ ChatMessage(w, s)
    \/ \E to \in Places : SectorMove(w, s, to)

Next ==
    \/ \E w \in Workers : Step(w) \/ \E s \in Sessions : Message(w, s) \/ OnClientLeave(w, s)
    \/ \E s \in Sessions : OnClientJoin(s) \/ Hangup(s)

Spec == Init /\ [][Next]_vars

-----------------------------------------------------------------------------
(* Properties *)

\* The sector a worker waits for, as a set of one or none.
Wanted(w) ==
    CASE At(w, "first") -> {me[w].to}
      [] At(w, "lock1") -> {FirstOf(me[w].from, me[w].to)}
      [] At(w, "lock2") -> {SecondOf(me[w].from, me[w].to)}
      [] At(w, "around") /\ me[w].k <= 9 -> {p \in {Around(me[w].from, me[w].k)} : SectorRangeCheck(p)}
      [] At(w, "leave") /\ HasSector(me[w].s) -> {me[w].from}
      [] OTHER -> {}

Holds(w, p) == excl[p] = w \/ w \in shared[p]

\* No deadlock: whoever waits for the lock of a sector holds locks of earlier
\* sectors only, row by row, whether it moves a user or sends around.  So of
\* workers that wait the one for the last sector waits for nobody that waits.
LocksInOrder ==
    \A w \in Workers : \A p \in Wanted(w), q \in Sectors : Holds(w, q) => Before(q, p)

\* A chat message reaches everybody who is around, and nobody twice, while
\* users move between the sectors that are still locked and those that are
\* not any more.  Its sender is one of them: SendPacket_SectorOne says that it
\* leaves pUser out and does not.
BroadcastOnce ==
    \A w \in Workers : At(w, "send") /\ me[w].k = 10 =>
        \A u \in Sessions : got[w][u] = IF u \in there[w] THEN 1 ELSE 0

\* The lists hold users of the pool only, which SendPacket_SectorOne follows
\* without another lock; a user is in the list of one sector at most, and in
\* that of s_Pos unless a worker is moving it.
ListsHoldUsers ==
    /\ \A p \in Sectors : list[p] \subseteq alive
    /\ \A p, q \in Sectors : p # q => list[p] \cap list[q] = {}
    /\ \A s \in sector : s \in users /\ s \notin busy => s \in list[pos[s]]

=============================================================================
