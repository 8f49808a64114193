---------------------------- MODULE GroupsProofs ----------------------------
(***************************************************************************)
(* Proofs about Groups for every session table, every number of workers,   *)
(* connections, messages and users, when no Closer comes upon a session    *)
(* inside its first Init (ScanInit is FALSE).                              *)
(***************************************************************************)
EXTENDS Groups, FiniteSetTheorems, SequenceTheorems, WellFoundedInduction, TLAPS

-----------------------------------------------------------------------------
(* The inductive invariant *)

\* No Closer enters a session whose first Init is under way.
NoScan == ScanInit = FALSE

\* AcceptThread is inside Init for slot s, and has not yet counted its reference.
InitPlaces == {"named", "counted"}
Naming(s) == me[Acceptor].slot = s /\ me[Acceptor].pc = "named"
Opening(s) == me[Acceptor].slot = s /\ me[Acceptor].pc \in InitPlaces

\* m_RefCnt and m_RelFlag of each slot, for one inside Init what Init makes of them.
Refs == [s \in Slots |-> sess[s].ref + (IF Naming(s) THEN 1 ELSE 0)]
Rels == [s \in Slots |-> IF Opening(s) THEN 0 ELSE sess[s].rel]

\* Thread t holds slot s, is in its receive, has to do with its move or its release.
Holds(t, s) == me[t].slot = s /\ me[t].job # "release"
Receiving(t, s) ==
    /\ me[t].slot = s /\ me[t].job \in {"accept", "recv"}
    /\ me[t].pc \in {"named", "counted", "next", "lock", "recv", "unlock", "post", "wsa"}
Setting(t, s) == me[t].slot = s /\ me[t].job = "move" /\ me[t].pc \in {"lock", "set"}
Welcoming(t, s) == me[t].slot = s /\ me[t].pc = "user"
Releases(t, s) == me[t].slot = s /\ me[t].job = "release"
Joining(t, s) == me[t].slot = s /\ me[t].job = "accept" /\ me[t].pc \in {"named", "counted", "lock"}

Held(s) == {t \in Threads : Holds(t, s)}
MovesOf(s) == {p \in port : p.kind = "move" /\ p.slot = s}
RecvOf(s) == IF recv[s] = "none" THEN 0 ELSE 1
ToRelease(s) == [kind |-> "release", slot |-> s] \in port
Live(s) == sess[s].conn # 0 /\ Rels[s] = 0

\* Where each kind of work may be, and that it has its slot.
Role(t) ==
    /\ me[t].pc = "idle" <=> me[t].job = "none"
    /\ me[t].job \in {"none", "frame"} <=> me[t].slot = None
    /\ me[t].job = "accept" => t = Acceptor /\ me[t].pc \in {"named", "counted", "lock", "unlock", "post", "wsa", "give"}
    /\ me[t].job = "recv" => t \in Workers /\ me[t].pc \in {"next", "lock", "recv", "unlock", "post", "wsa", "give"}
    /\ me[t].job = "move" => /\ t \in Workers /\ me[t].pc \in {"lock", "set", "user", "unlock", "give"}
                             /\ me[t].conn \in Conns /\ me[t].user \in Users /\ me[t].group = Echo
    /\ me[t].job = "release" => t \in Workers /\ me[t].pc \in {"lock", "unlock", "push"}
    /\ me[t].job = "frame" => t \in Workers /\ me[t].pc \in {"lock", "unlock"}
    /\ me[t].job = "close" => t = Closer /\ me[t].pc \in {"flag", "cancel", "give"}
Roles == \A t \in Threads : Role(t)

\* m_RefCnt is the number of those that hold the session.
RefCounted ==
    /\ IsFiniteSet(port)
    /\ \A s \in Slots : Refs[s] = Cardinality(Held(s)) + RecvOf(s) + Cardinality(MovesOf(s))

\* Nobody else has to do with a slot inside Init.
InitAlone ==
    me[Acceptor].pc \in InitPlaces =>
        \A u \in Threads : me[u].slot = me[Acceptor].slot => u = Acceptor

\* A slot is free, live, or being released by one packet or one thread.
Stage(s) ==
    /\ sess[s].conn = 0 => s \in free
    /\ Live(s) => Refs[s] > 0 /\ s \notin free /\ sess[s].conn \notin left
    /\ ~Live(s) => Refs[s] = 0
    /\ ToRelease(s) => ~Live(s) /\ s \notin free /\ sess[s].conn \notin left
    /\ \A t \in Threads : Releases(t, s) =>
           /\ ~Live(s) /\ s \notin free /\ ~ToRelease(s)
           /\ me[t].pc = "lock" => sess[s].conn \notin left
           /\ \A u \in Threads : Releases(u, s) => t = u
Stages == \A s \in Slots : Stage(s)

\* A connection has one slot at most.
ConnsApart ==
    /\ \A s \in Slots : sess[s].conn <= accepted
    /\ \A s, r \in Slots : sess[s].conn = sess[r].conn => s = r \/ sess[s].conn = 0
    /\ left \subseteq 1..accepted /\ welcomed \subseteq 1..accepted

\* The receive of a session is with the kernel, or with one thread.
OneReceive ==
    \A s \in Slots, t \in Threads : Receiving(t, s) =>
        recv[s] = "none" /\ \A u \in Threads : Receiving(u, s) => t = u

LocksKept ==
    /\ lock[Echo].excl # None => lock[Echo].shared = {}
    /\ \A t \in Threads :
           /\ me[t].pc = "recv" /\ me[t].group = Echo => t \in lock[Echo].shared
           /\ me[t].pc \in {"set", "user"} => lock[Echo].excl = t

\* A session is in the map of its group, or on its way there.
InGroup(s) ==
    IF sess[s].group = Auth
    THEN sess[s].conn \in nonUser \/ MovesOf(s) # {} \/ \E t \in Threads : Setting(t, s)
    ELSE echoUser[sess[s].conn] # None \/ \E t \in Threads : Welcoming(t, s)
Grouped ==
    /\ \A s \in Slots : \/ sess[s].conn \in left \cup {0} \/ InGroup(s)
                        \/ \E t \in Threads : Joining(t, s)
    /\ \A s \in Slots, t \in Threads : Joining(t, s) =>
           /\ sess[s].group = Auth /\ MovesOf(s) = {}
           /\ \A u \in Threads : Holds(u, s) => me[u].job \in {"accept", "close"}

\* A move is of the session that is in the slot.
MovesTrue ==
    /\ \A p \in port : p.kind = "move" => sess[p.slot].conn = p.conn
    /\ \A t \in Threads : me[t].job = "move" => Conn(t) = me[t].conn

\* The group that a receive has read, and the messages of a welcomed client.
Routed ==
    /\ \A t \in Threads : me[t].job = "recv" /\ me[t].pc \in {"lock", "recv"} =>
           /\ ring[me[t].slot] # <<>>
           /\ me[t].group = Echo => sess[me[t].slot].group = Echo
           /\ Head(ring[me[t].slot]).late => me[t].group = Echo
    /\ \A s \in Slots : \A i \in 1..Len(ring[s]) : ring[s][i].late => sess[s].group = Echo
    /\ \A s \in Slots : sess[s].conn \in welcomed => sess[s].group = Echo
    /\ \A t \in Threads : me[t].pc = "user" => sess[me[t].slot].group = Echo

\* There are no more logins than messages.
LoginsCome ==
    /\ \A c \in Conns : logins[c] <= sent
    /\ \A s \in Slots : sess[s].conn # 0 => logins[sess[s].conn] + Len(ring[s]) <= sent

\* A CUser is in one place.
UserOnce ==
    /\ \A p \in port : p.kind = "move" =>
           /\ p.user \in inUse /\ \A q \in port : q.kind = "move" /\ q.user = p.user => q = p
           /\ \A c \in Conns : echoUser[c] # p.user
    /\ \A t \in Threads : Moving(t) =>
           /\ me[t].user \in inUse /\ \A u \in Threads : Moving(u) /\ me[u].user = me[t].user => u = t
           /\ \A c \in Conns : echoUser[c] # me[t].user
           /\ \A p \in port : p.kind = "move" => p.user # me[t].user
    /\ \A c \in Conns : echoUser[c] # None =>
           echoUser[c] \in inUse /\ \A d \in Conns : echoUser[d] = echoUser[c] => d = c

IInv ==
    /\ TypeOK /\ Roles /\ RefCounted /\ InitAlone /\ Stages /\ ConnsApart /\ OneReceive /\ LocksKept
    /\ Grouped /\ MovesTrue /\ Routed /\ LoginsCome /\ UserOnce

USE DEF table, io, maps, peers, history, bounds, vars, At, Conn

-----------------------------------------------------------------------------
(* Types *)

SessRec == [conn : 0..MaxConn, ref : Nat, rel : {0, 1}, dc : {0, 1}, group : Groups]
WorkRec == [pc : PCs, slot : Slots \cup {None}, conn : 0..MaxConn, group : Groups,
         user : Users \cup {None},
         job : {"none", "accept", "recv", "move", "release", "frame", "close"}]
LockRec == [excl : Threads \cup {None}, shared : SUBSET Workers]

\* The types of the variables, and what is assumed of the constants.
LEMMA TypeFacts ==
  ASSUME IInv
  PROVE  /\ sess \in [Slots -> SessRec] /\ me \in [Threads -> WorkRec] /\ lock \in [Groups -> LockRec]
         /\ recv \in [Slots -> {"none", "posted", "data", "end"}] /\ ring \in [Slots -> Seq(Messages)]
         /\ free \subseteq Slots /\ port \subseteq Packets
         /\ nonUser \subseteq Conns /\ echoUser \in [Conns -> Users \cup {None}] /\ inUse \subseteq Users
         /\ accepted \in Nat /\ sent \in Nat /\ logins \in [Conns -> Nat]
         /\ welcomed \subseteq Conns /\ left \subseteq Conns
         /\ None \notin Slots /\ None \notin Users /\ None \notin Threads
         /\ Acceptor \in Threads /\ Closer \in Threads /\ Workers \subseteq Threads
         /\ Acceptor \notin Workers /\ Closer \notin Workers /\ Acceptor # Closer
         /\ 0 \notin Conns /\ Conns \subseteq Nat /\ Auth \in Groups /\ Echo \in Groups /\ Auth # Echo
         /\ MaxConn \in Nat /\ MaxMsg \in Nat
         /\ \A s \in Slots : Refs[s] \in Nat /\ Rels[s] \in {0, 1}
         /\ Roles /\ Stages /\ RefCounted /\ InitAlone /\ ConnsApart /\ OneReceive /\ LocksKept
         /\ Grouped /\ MovesTrue /\ Routed /\ LoginsCome /\ UserOnce
<1>1. /\ None \notin Slots /\ None \notin Users /\ None \notin Threads
      /\ Acceptor \in Threads /\ Closer \in Threads /\ Workers \subseteq Threads
      /\ Acceptor \notin Workers /\ Closer \notin Workers /\ Acceptor # Closer
  BY NoneApart, ThreadsApart DEF Threads
<1>2. /\ 0 \notin Conns /\ Conns \subseteq Nat /\ Auth \in Groups /\ Echo \in Groups /\ Auth # Echo
      /\ MaxConn \in Nat /\ MaxMsg \in Nat
  BY Bounds DEF Conns, Groups, Auth, Echo
<1>3. /\ accepted \in Nat /\ sent \in Nat /\ logins \in [Conns -> Nat]
  BY <1>2 DEF IInv, TypeOK
<1>4. sess \in [Slots -> SessRec]
  BY DEF IInv, TypeOK, SessRec
<1>5. \A s \in Slots : Refs[s] \in Nat /\ Rels[s] \in {0, 1}
  BY <1>4 DEF Refs, Rels, SessRec
<1> QED
  BY <1>1, <1>2, <1>3, <1>4, <1>5 DEF IInv, TypeOK, WorkRec, LockRec

\* The kinds of packets.
LEMMA PacketFields ==
  ASSUME NEW p \in Packets
  PROVE  /\ p.kind \in {"release", "frame", "move"}
         /\ p.kind = "release" => p.slot \in Slots /\ p = [kind |-> "release", slot |-> p.slot]
         /\ p.kind = "frame" => p.group \in Groups
         /\ p.kind = "move" => /\ p.slot \in Slots /\ p.conn \in Conns /\ p.user \in Users
                               /\ p = [kind |-> "move", slot |-> p.slot, conn |-> p.conn, user |-> p.user]
<1>1. CASE p \in [kind : {"release"}, slot : Slots]
  BY <1>1
<1>2. CASE p \in [kind : {"frame"}, group : Groups]
  BY <1>2
<1>3. CASE p \in [kind : {"move"}, slot : Slots, conn : Conns, user : Users]
  BY <1>3
<1> QED
  BY <1>1, <1>2, <1>3 DEF Packets

-----------------------------------------------------------------------------
(* What a step does to a thread, a slot and a lock *)

SameWork(t) ==
    /\ me'[t].slot = me[t].slot /\ me'[t].conn = me[t].conn /\ me'[t].group = me[t].group
    /\ me'[t].user = me[t].user /\ me'[t].job = me[t].job
\* A thread does nothing, goes on with its work, ends it or begins another.
Others(t) == me' \in [Threads -> WorkRec] /\ \A u \in Threads : u # t => me'[u] = me[u]
Moves(t, place) == Others(t) /\ me'[t].pc = place /\ SameWork(t)
Rests(t) == Others(t) /\ me'[t] = Idle
Begins(t, w) == Others(t) /\ me[t].pc = "idle" /\ me'[t] = w

\* The fields of a thread without work.
LEMMA IdleWork ==
  /\ Idle \in WorkRec /\ Idle.pc = "idle" /\ Idle.slot = None /\ Idle.job = "none" /\ Idle.conn = 0
  /\ Idle.user = None
  BY Bounds DEF Idle, WorkRec, PCs, Groups

\* Goto changes the place of one thread.
LEMMA GotoMoves ==
  ASSUME me \in [Threads -> WorkRec], NEW t \in Threads, NEW place \in PCs, Goto(t, place)
  PROVE  Moves(t, place)
<1>1. me' = [me EXCEPT ![t] = [me[t] EXCEPT !.pc = place]] /\ me[t] \in WorkRec
  BY DEF Goto
<1>2. [me[t] EXCEPT !.pc = place] \in WorkRec
  BY <1>1 DEF WorkRec
<1>3. me' \in [Threads -> WorkRec] /\ me'[t] = [me[t] EXCEPT !.pc = place]
  BY <1>1, <1>2
<1>4. \A u \in Threads : u # t => me'[u] = me[u]
  BY <1>1
<1>5. me'[t].pc = place /\ SameWork(t)
  BY <1>1, <1>3 DEF WorkRec, SameWork
<1> QED
  BY <1>3, <1>4, <1>5 DEF Moves, Others

\* An idle thread begins its work.
LEMMA BeginMoves ==
  ASSUME me \in [Threads -> WorkRec], NEW t \in Threads, NEW w \in WorkRec, me[t].pc = "idle",
         me' = [me EXCEPT ![t] = w]
  PROVE  Begins(t, w)
  BY DEF Begins, Others

\* A thread ends its work.
LEMMA RestMoves ==
  ASSUME me \in [Threads -> WorkRec], NEW t \in Threads, me' = [me EXCEPT ![t] = Idle]
  PROVE  Rests(t)
  BY IdleWork DEF Rests, Others

\* Nothing of a slot but m_DCFlag changes; only its reference count.
SameButRef(r) ==
    sess'[r].conn = sess[r].conn /\ Rels'[r] = Rels[r] /\ sess'[r].group = sess[r].group
SameSlot(r) == SameButRef(r) /\ Refs'[r] = Refs[r]
SameSlots == sess' \in [Slots -> SessRec] /\ \A r \in Slots : SameSlot(r)
OtherSlots(s) == sess' \in [Slots -> SessRec] /\ \A r \in Slots : r # s => SameSlot(r)

\* AcceptThread does not go into Init, on in it or out of it.
SameInit == \A r \in Slots : (Naming(r)' <=> Naming(r)) /\ (Opening(r)' <=> Opening(r))

LEMMA InitKept ==
  ASSUME NEW t \in Threads, Others(t), me[t].pc \notin InitPlaces, me'[t].pc \notin InitPlaces
  PROVE  SameInit
<1>1. Acceptor \in Threads
  BY DEF Threads
<1>2. CASE t = Acceptor
  BY <1>2 DEF SameInit, Naming, Opening, InitPlaces
<1>3. CASE t # Acceptor
  BY <1>1, <1>3 DEF SameInit, Naming, Opening, Others
<1> QED
  BY <1>2, <1>3

\* Nor does it when no thread does anything.
LEMMA IdleKept ==
  ASSUME me' = me
  PROVE  SameInit
  BY DEF SameInit, Naming, Opening

\* The counts and flags of a slot, before and after a step.
LEMMA SeenFields ==
  ASSUME NEW r \in Slots
  PROVE  /\ Refs[r] = sess[r].ref + (IF Naming(r) THEN 1 ELSE 0)
         /\ Refs'[r] = sess'[r].ref + (IF Naming(r)' THEN 1 ELSE 0)
         /\ Rels[r] = IF Opening(r) THEN 0 ELSE sess[r].rel
         /\ Rels'[r] = IF Opening(r)' THEN 0 ELSE sess'[r].rel
  BY DEF Refs, Rels

\* A slot whose fields do not change looks the same.
LEMMA SeenSame ==
  ASSUME SameInit
  PROVE  \A r \in Slots : /\ sess'[r].ref = sess[r].ref => Refs'[r] = Refs[r]
                          /\ sess'[r].rel = sess[r].rel => Rels'[r] = Rels[r]
  BY SeenFields DEF SameInit

\* m_DCFlag is no part of what the proofs are about.
LEMMA FlagFields ==
  ASSUME sess \in [Slots -> SessRec], NEW s \in Slots, NEW d \in {0, 1},
         sess' = [sess EXCEPT ![s].dc = d], SameInit
  PROVE  SameSlots
<1>1. sess' = [sess EXCEPT ![s] = [sess[s] EXCEPT !.dc = d]] /\ sess[s] \in SessRec
  OBVIOUS
<1>2. [sess[s] EXCEPT !.dc = d] \in SessRec
  BY <1>1 DEF SessRec
<1>3. sess' \in [Slots -> SessRec] /\ sess'[s] = [sess[s] EXCEPT !.dc = d]
  BY <1>1, <1>2
<1>4. \A r \in Slots : r # s => sess'[r] = sess[r]
  BY <1>1
<1>5. sess'[s].conn = sess[s].conn /\ sess'[s].group = sess[s].group
      /\ sess'[s].ref = sess[s].ref /\ sess'[s].rel = sess[s].rel
  BY <1>1, <1>3 DEF SessRec
<1> QED
  BY <1>3, <1>4, <1>5, SeenSame DEF SameSlots, SameSlot, SameButRef

\* One more reference to a slot.
LEMMA AddRefFields ==
  ASSUME sess \in [Slots -> SessRec], NEW s \in Slots, sess' = [sess EXCEPT ![s].ref = @ + 1], SameInit
  PROVE  OtherSlots(s) /\ SameButRef(s) /\ Refs'[s] = Refs[s] + 1
<1>1. sess' = [sess EXCEPT ![s] = [sess[s] EXCEPT !.ref = sess[s].ref + 1]] /\ sess[s] \in SessRec
  OBVIOUS
<1>2. [sess[s] EXCEPT !.ref = sess[s].ref + 1] \in SessRec
  BY <1>1 DEF SessRec
<1>3. sess' \in [Slots -> SessRec] /\ sess'[s] = [sess[s] EXCEPT !.ref = sess[s].ref + 1]
  BY <1>1, <1>2
<1>4. \A r \in Slots : r # s => sess'[r] = sess[r]
  BY <1>1
<1>5. /\ sess'[s].conn = sess[s].conn /\ sess'[s].group = sess[s].group
      /\ sess'[s].ref = sess[s].ref + 1 /\ sess'[s].rel = sess[s].rel /\ sess[s].ref \in Nat
  BY <1>1, <1>3 DEF SessRec
<1>6. Refs'[s] = Refs[s] + 1
  BY <1>5, SeenFields DEF SameInit
<1> QED
  BY <1>3, <1>4, <1>5, <1>6, SeenSame DEF OtherSlots, SameSlot, SameButRef

\* m_GroupID of one slot becomes CEcho.
LEMMA GroupFields ==
  ASSUME sess \in [Slots -> SessRec], NEW s \in Slots, sess' = [sess EXCEPT ![s].group = Echo], SameInit
  PROVE  /\ OtherSlots(s) /\ sess'[s].group = Echo
         /\ sess'[s].conn = sess[s].conn /\ Refs'[s] = Refs[s] /\ Rels'[s] = Rels[s]
<1>1. sess' = [sess EXCEPT ![s] = [sess[s] EXCEPT !.group = Echo]] /\ sess[s] \in SessRec
  OBVIOUS
<1>2. [sess[s] EXCEPT !.group = Echo] \in SessRec
  BY <1>1 DEF SessRec, Groups
<1>3. sess' \in [Slots -> SessRec] /\ sess'[s] = [sess[s] EXCEPT !.group = Echo]
  BY <1>1, <1>2
<1>4. \A r \in Slots : r # s => sess'[r] = sess[r]
  BY <1>1
<1>5. /\ sess'[s].group = Echo /\ sess'[s].conn = sess[s].conn
      /\ sess'[s].ref = sess[s].ref /\ sess'[s].rel = sess[s].rel
  BY <1>1, <1>3 DEF SessRec
<1> QED
  BY <1>3, <1>4, <1>5, SeenSame DEF OtherSlots, SameSlot, SameButRef

\* One reference less; the last one posts the release.
LEMMA GiveBackFields ==
  ASSUME sess \in [Slots -> SessRec], NEW s \in Slots, GiveBack(s), Refs[s] > 0, Rels[s] = 0,
         ~Opening(s), SameInit
  PROVE  /\ OtherSlots(s) /\ Refs'[s] = Refs[s] - 1
         /\ sess'[s].conn = sess[s].conn /\ sess'[s].group = sess[s].group
         /\ IF Refs[s] = 1
            THEN Rels'[s] = 1 /\ port' = port \cup {[kind |-> "release", slot |-> s]}
            ELSE Rels'[s] = 0 /\ port' = port
<1> DEFINE rel == IF sess[s].ref = 1 THEN 1 ELSE 0
           new == [sess[s] EXCEPT !.ref = sess[s].ref - 1, !.rel = rel]
<1>0. /\ Refs[s] = sess[s].ref /\ Rels[s] = sess[s].rel
      /\ Refs'[s] = sess'[s].ref + 0 /\ Rels'[s] = sess'[s].rel
  <2>1. ~Opening(s) /\ ~Naming(s)
    BY DEF Opening, Naming, InitPlaces
  <2>2. ~Opening(s)' /\ ~Naming(s)'
    BY <2>1 DEF SameInit
  <2>3. sess[s] \in SessRec
    OBVIOUS
  <2>4. sess[s].ref \in Nat
    BY <2>3 DEF SessRec
  <2> QED
    BY <2>1, <2>2, <2>4, SeenFields
<1>1. sess' = [sess EXCEPT ![s] = new] /\ sess[s] \in SessRec /\ sess[s].rel = 0 /\ sess[s].ref > 0
  BY <1>0 DEF GiveBack
<1>2. rel \in {0, 1} /\ sess[s].ref - 1 \in Nat
  BY <1>1 DEF SessRec
<1>3. /\ new \in SessRec /\ new.ref = sess[s].ref - 1 /\ new.rel = rel
      /\ new.conn = sess[s].conn /\ new.group = sess[s].group
  <2> HIDE DEF rel
  <2> QED
    BY <1>1, <1>2 DEF SessRec
<1> HIDE DEF new
<1>4. sess' \in [Slots -> SessRec] /\ sess'[s] = new /\ \A r \in Slots : r # s => sess'[r] = sess[r]
  BY <1>1, <1>3
<1>5. OtherSlots(s)
  BY <1>4, SeenSame DEF OtherSlots, SameSlot, SameButRef
<1>6. /\ Refs'[s] = Refs[s] - 1 /\ sess'[s].conn = sess[s].conn /\ sess'[s].group = sess[s].group
      /\ Rels'[s] = rel
  <2>1. sess'[s].ref = sess[s].ref - 1 /\ sess[s].ref - 1 \in Nat
    BY <1>2, <1>3, <1>4
  <2> QED
    BY <1>0, <1>3, <1>4, <2>1
<1>7. port' = IF sess[s].ref = 1 THEN port \cup {[kind |-> "release", slot |-> s]} ELSE port
  BY <1>1 DEF GiveBack
<1> QED
  BY <1>0, <1>5, <1>6, <1>7

\* The lock of a group is taken exclusively.
LEMMA ExclusiveFields ==
  ASSUME lock \in [Groups -> LockRec], NEW t \in Threads, NEW g \in Groups, Exclusive(t, g)
  PROVE  /\ lock' \in [Groups -> LockRec] /\ lock[g].excl = None /\ lock[g].shared = {}
         /\ lock'[g].excl = t /\ lock'[g].shared = {}
         /\ \A h \in Groups : h # g => lock'[h] = lock[h]
<1>1. lock' = [lock EXCEPT ![g] = [lock[g] EXCEPT !.excl = t]] /\ lock[g] \in LockRec
  BY DEF Exclusive
<1>2. [lock[g] EXCEPT !.excl = t] \in LockRec
  BY <1>1 DEF LockRec
<1>3. lock' \in [Groups -> LockRec] /\ lock'[g] = [lock[g] EXCEPT !.excl = t]
  BY <1>1, <1>2
<1>4. lock[g].excl = None /\ lock[g].shared = {}
  BY DEF Exclusive, ExclusiveFree
<1>5. lock'[g].excl = t /\ lock'[g].shared = {}
  BY <1>1, <1>3, <1>4 DEF LockRec
<1> QED
  BY <1>1, <1>3, <1>4, <1>5

\* A thread lets go of its locks and of no other.
LEMMA UnlockedFields ==
  ASSUME lock \in [Groups -> LockRec], NEW t \in Threads, Unlocked(t)
  PROVE  /\ lock' \in [Groups -> LockRec]
         /\ \A g \in Groups : /\ lock'[g].excl = IF lock[g].excl = t THEN None ELSE lock[g].excl
                              /\ lock'[g].shared = lock[g].shared \ {t}
<1>1. ASSUME NEW g \in Groups
      PROVE  [excl |-> IF lock[g].excl = t THEN None ELSE lock[g].excl,
              shared |-> lock[g].shared \ {t}] \in LockRec
  BY DEF LockRec
<1> QED
  BY <1>1 DEF Unlocked

\* There is a smallest CUser in every set of them.
LEMMA SmallestUser ==
  ASSUME NEW S \in SUBSET Users, S # {}
  PROVE  \E v \in S : \A w \in S : v <= w
<1> DEFINE R == StrictSubsetOrdering(Users)
           F == FiniteSubsetsOf(Users)
           Below(v) == {w \in S : w < v}
           T == {Below(v) : v \in S}
<1>1. IsFiniteSet(Users) /\ Users \subseteq Nat
  <2>1. Users = 1..MaxUser /\ MaxUser \in Nat
    BY Bounds DEF Users
  <2>2. IsFiniteSet(1..MaxUser)
    BY <2>1, FS_Interval
  <2> QED
    BY <2>1, <2>2
<1>2. IsWellFoundedOn(R, F)
  BY <1>1, FS_StrictSubsetOrderingWellFounded
<1>3. T \subseteq F /\ T # {}
  <2>1. ASSUME NEW v \in S PROVE Below(v) \in F
    <3>1. Below(v) \in SUBSET Users
      OBVIOUS
    <3> QED
      BY <1>1, <3>1, FS_Subset DEF FiniteSubsetsOf
  <2> QED
    BY <2>1
<1>4. ASSUME NEW v \in S, NEW w \in S, w < v PROVE <<Below(w), Below(v)>> \in R
  <2>1. v \in Nat /\ w \in Nat /\ S \subseteq Nat
    BY <1>1
  <2>2. Below(w) \subseteq Below(v)
    <3>1. \A x \in S : x < w => x < v
      BY <1>4, <2>1
    <3> QED
      BY <3>1
  <2>3. w \in Below(v) /\ w \notin Below(w)
    BY <1>4, <2>1
  <2>4. Below(w) \in SUBSET Users /\ Below(v) \in SUBSET Users
    OBVIOUS
  <2> HIDE DEF Below
  <2> QED
    BY <2>2, <2>3, <2>4 DEF StrictSubsetOrdering
<1> HIDE DEF R, F
<1>5. PICK x \in T : \A y \in T : <<y, x>> \notin R
  BY <1>2, <1>3, WFMin
<1>6. PICK v \in S : x = Below(v)
  BY <1>5
<1>7. \A w \in S : ~(w < v)
  BY <1>4, <1>5, <1>6
<1> QED
  BY <1>1, <1>7

-----------------------------------------------------------------------------
(* Those that hold a session *)

\* Cardinalities of the holders of a slot are numbers.
LEMMA HoldersFinite ==
  ASSUME IsFiniteSet(port), NEW s
  PROVE  /\ IsFiniteSet(Held(s)) /\ Cardinality(Held(s)) \in Nat
         /\ IsFiniteSet(MovesOf(s)) /\ Cardinality(MovesOf(s)) \in Nat
<1>1. IsFiniteSet(Threads)
  <2>1. IsFiniteSet({Acceptor}) /\ IsFiniteSet({Closer})
    BY FS_Singleton
  <2>2. IsFiniteSet({Acceptor} \cup {Closer})
    BY <2>1, FS_Union
  <2>3. Threads = Workers \cup ({Acceptor} \cup {Closer})
    BY DEF Threads
  <2> QED
    BY <2>2, <2>3, ThreadsFinite, FS_Union
<1>2. Held(s) \subseteq Threads /\ MovesOf(s) \subseteq port
  BY DEF Held, MovesOf
<1> QED
  BY <1>1, <1>2, FS_Subset, FS_CardinalityType

\* One who holds a session keeps it from being released.
LEMMA SlotKept ==
  ASSUME IInv, NEW s \in Slots, Refs[s] > 0
  PROVE  /\ Live(s) /\ s \notin free /\ sess[s].conn \in Conns /\ sess[s].conn \notin left /\ Rels[s] = 0
         /\ Refs[s] \in Nat
         /\ ~ToRelease(s) /\ \A u \in Threads : ~Releases(u, s)
<1>1. Stage(s) /\ sess[s] \in SessRec
  BY TypeFacts DEF Stages
<1>2. Refs[s] \in Nat /\ sess[s].conn \in 0..MaxConn
  BY <1>1, TypeFacts DEF SessRec
<1>3. Live(s)
  BY <1>1, <1>2 DEF Stage
<1>4. sess[s].conn \in Conns
  BY <1>2, <1>3, Bounds DEF Live, Conns
<1> QED
  BY <1>1, <1>2, <1>3, <1>4 DEF Stage, Live

\* A thread that holds a slot keeps its session.
LEMMA ThreadKeeps ==
  ASSUME IInv, NEW s \in Slots, NEW t \in Threads, Holds(t, s)
  PROVE  Refs[s] > 0 /\ Live(s)
<1>1. IsFiniteSet(port) /\ Refs[s] = Cardinality(Held(s)) + RecvOf(s) + Cardinality(MovesOf(s))
  BY TypeFacts DEF RefCounted
<1>2. t \in Held(s)
  BY DEF Held
<1>3. Cardinality(Held(s)) # 0
  BY <1>1, <1>2, HoldersFinite, FS_EmptySet
<1>4. Refs[s] > 0
  BY <1>1, <1>3, HoldersFinite DEF RecvOf
<1> QED
  BY <1>4, SlotKept

\* So does a receive, pending or completed.
LEMMA RecvKeeps ==
  ASSUME IInv, NEW s \in Slots, recv[s] # "none"
  PROVE  Refs[s] > 0 /\ Live(s)
<1>1. IsFiniteSet(port) /\ Refs[s] = Cardinality(Held(s)) + RecvOf(s) + Cardinality(MovesOf(s))
  BY TypeFacts DEF RefCounted
<1>2. Refs[s] > 0
  BY <1>1, HoldersFinite DEF RecvOf
<1> QED
  BY <1>2, SlotKept

\* So does a move on its way.
LEMMA MoveKeeps ==
  ASSUME IInv, NEW p \in port, p.kind = "move"
  PROVE  /\ p.slot \in Slots /\ Refs[p.slot] > 0 /\ Live(p.slot) /\ sess[p.slot].conn = p.conn
<1>1. p.slot \in Slots
  BY TypeFacts, PacketFields
<1>2. IsFiniteSet(port) /\ Refs[p.slot] = Cardinality(Held(p.slot)) + RecvOf(p.slot) + Cardinality(MovesOf(p.slot))
  BY <1>1, TypeFacts DEF RefCounted
<1>3. p \in MovesOf(p.slot)
  BY DEF MovesOf
<1>4. Cardinality(MovesOf(p.slot)) # 0
  BY <1>2, <1>3, HoldersFinite, FS_EmptySet
<1>5. Refs[p.slot] > 0
  BY <1>2, <1>4, HoldersFinite DEF RecvOf
<1> QED
  BY <1>1, <1>5, SlotKept, TypeFacts DEF MovesTrue

\* Which work leads to which place.
LEMMA PlaceJob ==
  ASSUME IInv, NEW t \in Threads
  PROVE  /\ me[t] \in WorkRec
         /\ me[t].pc \in InitPlaces => me[t].job = "accept"
         /\ me[t].pc \in {"post", "wsa"} => me[t].job \in {"accept", "recv"}
         /\ me[t].pc = "give" => me[t].job \in {"accept", "recv", "move", "close"}
         /\ me[t].pc \in {"next", "recv"} => me[t].job = "recv"
         /\ me[t].pc \in {"set", "user"} => me[t].job = "move"
         /\ me[t].pc = "push" => me[t].job = "release"
         /\ me[t].pc \in {"flag", "cancel"} => me[t].job = "close"
         /\ me[t].pc = "idle" => me[t].job = "none" /\ me[t].slot = None
         /\ me[t].pc = "unlock" => me[t].job \in {"accept", "recv", "move", "release", "frame"}
         /\ me[t].pc # "idle" => me[t].job # "none"
         /\ me[t].job = "recv" => t \in Workers
         /\ me[t].job = "move" => t \in Workers /\ me[t].conn \in Conns /\ me[t].user \in Users /\ me[t].group = Echo
         /\ me[t].job = "accept" => t = Acceptor
         /\ me[t].job = "frame" => me[t].slot = None
<1>1. Role(t) /\ me[t] \in WorkRec
  BY TypeFacts DEF Roles
<1>2. me[t].job \in {"none", "accept", "recv", "move", "release", "frame", "close"}
  BY <1>1 DEF WorkRec
<1> QED
  BY <1>1, <1>2 DEF Role, InitPlaces

\* A slot inside Init is AcceptThread's alone.
LEMMA NotOpening ==
  ASSUME IInv, NEW t \in Threads, NEW s \in Slots, me[t].slot = s, me[t].pc \notin InitPlaces
  PROVE  ~Opening(s)
  BY TypeFacts DEF Opening, InitAlone

\* The slot of a thread that has work with one.
LEMMA OwnSlot ==
  ASSUME IInv, NEW t \in Threads, me[t].job \in {"accept", "recv", "move", "close"}
  PROVE  /\ me[t].slot \in Slots /\ Holds(t, me[t].slot) /\ Refs[me[t].slot] > 0 /\ Live(me[t].slot)
         /\ Conn(t) \in Conns /\ Conn(t) \notin left /\ Rels[me[t].slot] = 0 /\ me[t].slot \notin free
         /\ Refs[me[t].slot] \in Nat /\ sess[me[t].slot].group \in Groups
         /\ ~ToRelease(me[t].slot) /\ \A u \in Threads : ~Releases(u, me[t].slot)
         /\ me[t].pc \notin InitPlaces => ~Opening(me[t].slot)
<1>1. me[t].slot \in Slots
  BY TypeFacts DEF Roles, Role, WorkRec
<1>2. Holds(t, me[t].slot)
  BY DEF Holds
<1>3. sess[me[t].slot].group \in Groups
  BY <1>1, TypeFacts DEF SessRec
<1> QED
  BY <1>1, <1>2, <1>3, ThreadKeeps, SlotKept, NotOpening

\* The slot of a thread in ReleaseProc.
LEMMA ReleasedSlot ==
  ASSUME IInv, NEW t \in Threads, me[t].job = "release"
  PROVE  /\ me[t].slot \in Slots /\ Releases(t, me[t].slot) /\ ~Live(me[t].slot) /\ me[t].slot \notin free
         /\ Conn(t) \in Conns /\ Refs[me[t].slot] = 0 /\ Rels[me[t].slot] = 1
         /\ sess[me[t].slot].group \in Groups
         /\ ~ToRelease(me[t].slot)
         /\ me[t].pc = "lock" => Conn(t) \notin left
<1>1. me[t].slot \in Slots
  BY TypeFacts DEF Roles, Role, WorkRec
<1>2. Releases(t, me[t].slot)
  BY DEF Releases
<1>3. Stage(me[t].slot) /\ sess[me[t].slot] \in SessRec
  BY <1>1, TypeFacts DEF Stages
<1>4. sess[me[t].slot].conn \in 0..MaxConn /\ Rels[me[t].slot] \in {0, 1} /\ sess[me[t].slot].group \in Groups
  BY <1>1, <1>3, TypeFacts DEF SessRec
<1>5. ~Live(me[t].slot) /\ me[t].slot \notin free /\ ~ToRelease(me[t].slot) /\ sess[me[t].slot].conn # 0
      /\ Refs[me[t].slot] = 0
      /\ (me[t].pc = "lock" => Conn(t) \notin left)
  BY <1>2, <1>3 DEF Stage
<1>6. Conn(t) \in Conns
  BY <1>4, <1>5, Bounds DEF Conns
<1> QED
  BY <1>1, <1>2, <1>4, <1>5, <1>6 DEF Live

-----------------------------------------------------------------------------
(* What each step does *)

\* A thread that was idle begins work with slot s.
Begun(t, place, s, j) ==
    /\ Others(t) /\ me[t].pc = "idle" /\ me[t].job = "none" /\ me[t].slot = None
    /\ me'[t].pc = place /\ me'[t].slot = s /\ me'[t].job = j
SameTable == sess' = sess /\ SameSlots
OtherRings(s) == ring' \in [Slots -> Seq(Messages)] /\ \A r \in Slots : r # s => ring'[r] = ring[r]
OtherRecvs(s) ==
    recv' \in [Slots -> {"none", "posted", "data", "end"}] /\ \A r \in Slots : r # s => recv'[r] = recv[r]
Takes(t, g) ==
    /\ lock' \in [Groups -> LockRec] /\ lock[g].excl = None /\ lock[g].shared = {}
    /\ lock'[g].excl = t /\ lock'[g].shared = {}
    /\ \A h \in Groups : h # g => lock'[h] = lock[h]

\* The table does not change.
LEMMA SameSessions ==
  ASSUME IInv, sess' = sess, SameInit
  PROVE  SameTable
<1>1. sess \in [Slots -> SessRec]
  BY TypeFacts
<1> QED
  BY <1>1, SeenSame DEF SameTable, SameSlots, SameSlot, SameButRef

LEMMA TableKept ==
  ASSUME SameTable
  PROVE  \A r \in Slots : /\ Refs'[r] = Refs[r] /\ Rels'[r] = Rels[r]
                          /\ sess'[r].conn = sess[r].conn /\ sess'[r].group = sess[r].group
  BY DEF SameTable, SameSlots, SameSlot, SameButRef

\* A step of the outside changes neither a thread nor the table.
LEMMA NothingMoves ==
  ASSUME IInv, me' = me, sess' = sess
  PROVE  SameTable
  BY IdleKept, SameSessions

\* An idle thread begins work with a slot.
LEMMA BegunIdle ==
  ASSUME IInv, NEW t \in Threads, me[t].pc = "idle", NEW w \in WorkRec, me' = [me EXCEPT ![t] = w]
  PROVE  Begun(t, w.pc, w.slot, w.job) /\ me'[t] = w
  BY TypeFacts, PlaceJob, BeginMoves DEF Begun, Begins, Others

\* A free slot becomes a new session, which Init will give its reference.
LEMMA AcceptMoves ==
  ASSUME IInv, NEW t \in Threads, Accept(t)
  PROVE  \E s \in free :
           /\ s \in Slots /\ t = Acceptor /\ Begun(t, "named", s, "accept")
           /\ accepted' = accepted + 1 /\ accepted + 1 \in Conns
           /\ free' = free \ {s}
           /\ OtherSlots(s) /\ sess'[s].conn = accepted + 1 /\ Refs'[s] = 1 /\ Rels'[s] = 0
           /\ sess'[s].group = Auth
           /\ OtherRings(s) /\ ring'[s] = <<>>
           /\ UNCHANGED <<recv, port, lock, maps, peers, history, closes, frames>>
<1>1. PICK s \in free :
           /\ free' = free \ {s}
           /\ sess' = [sess EXCEPT ![s] = [sess[s] EXCEPT !.conn = accepted + 1, !.group = Auth]]
           /\ ring' = [ring EXCEPT ![s] = <<>>]
           /\ me' = [me EXCEPT ![t] = [Idle EXCEPT !.pc = "named", !.slot = s, !.job = "accept"]]
  BY DEF Accept
<1>2. /\ t = Acceptor /\ me[t].pc = "idle" /\ accepted < MaxConn /\ accepted' = accepted + 1
      /\ UNCHANGED <<recv, port, lock, maps, peers, history, closes, frames>>
  BY DEF Accept
<1>3. s \in Slots
  BY <1>1, TypeFacts
<1>4. accepted + 1 \in Conns
  BY <1>2, TypeFacts DEF Conns
<1> DEFINE new == [sess[s] EXCEPT !.conn = accepted + 1, !.group = Auth]
           w == [Idle EXCEPT !.pc = "named", !.slot = s, !.job = "accept"]
<1>5. /\ new \in SessRec /\ new.conn = accepted + 1 /\ new.group = Auth
      /\ new.ref = sess[s].ref /\ new.rel = sess[s].rel
  <2>1. PICK x \in SessRec : x = sess[s]
    BY <1>3, TypeFacts
  <2>a. accepted + 1 \in 0..MaxConn /\ Auth \in Groups
    BY <1>4, TypeFacts DEF Conns
  <2>2. [x EXCEPT !.conn = accepted + 1, !.group = Auth] \in SessRec
    BY <2>1, <2>a DEF SessRec
  <2> QED
    BY <2>1, <2>2 DEF SessRec
<1>6. w \in WorkRec /\ w.pc = "named" /\ w.slot = s /\ w.job = "accept"
  BY <1>3, IdleWork DEF WorkRec, PCs
<1> HIDE DEF new, w
<1>w. me' = [me EXCEPT ![t] = w]
  BY <1>1 DEF w
<1>7. Begun(t, "named", s, "accept")
  BY <1>2, <1>6, <1>w, BegunIdle
<1>8. sess' = [sess EXCEPT ![s] = new]
  BY <1>1 DEF new
<1>9. sess' \in [Slots -> SessRec] /\ sess'[s] = new /\ \A r \in Slots : r # s => sess'[r] = sess[r]
  BY <1>3, <1>5, <1>8, TypeFacts
<1>10. \A r \in Slots : /\ ~Naming(r) /\ ~Opening(r)
                        /\ (Naming(r)' <=> r = s) /\ (Opening(r)' <=> r = s)
  BY <1>2, <1>3, <1>7 DEF Begun, Naming, Opening, InitPlaces
<1>11. OtherSlots(s)
  BY <1>9, <1>10, SeenFields DEF OtherSlots, SameSlot, SameButRef
<1>12. Refs'[s] = 1 /\ Rels'[s] = 0
  <2>1. Refs[s] = sess[s].ref + 0 /\ Refs'[s] = sess'[s].ref + 1 /\ Rels'[s] = 0
    BY <1>3, <1>10, SeenFields
  <2>2. sess[s].ref \in Nat
    BY <1>3, TypeFacts DEF SessRec
  <2>3. Refs[s] = 0
    BY <1>1, <1>3, TypeFacts, SlotKept
  <2> QED
    BY <1>5, <1>9, <2>1, <2>2, <2>3
<1>13. OtherRings(s) /\ ring'[s] = <<>>
  BY <1>1, <1>3, TypeFacts DEF OtherRings
<1> QED
  BY <1>1, <1>2, <1>3, <1>4, <1>5, <1>7, <1>9, <1>11, <1>12, <1>13

\* Init takes its reference, which was counted before.
LEMMA InitCountMoves ==
  ASSUME IInv, NEW t \in Threads, InitCount(t)
  PROVE  /\ me[t].pc = "named" /\ me[t].job = "accept" /\ Moves(t, "counted") /\ SameSlots
         /\ UNCHANGED <<free, io, port, lock, maps, peers, history, bounds>>
<1> DEFINE s == me[t].slot
           new == [sess[s] EXCEPT !.ref = sess[s].ref + 1, !.dc = 0]
<1>1. /\ me[t].pc = "named" /\ sess' = [sess EXCEPT ![s] = new] /\ Goto(t, "counted")
      /\ UNCHANGED <<free, io, port, lock, maps, peers, history, bounds>>
  BY DEF InitCount
<1>2. me[t].job = "accept" /\ t = Acceptor
  BY <1>1, PlaceJob DEF InitPlaces
<1>3. s \in Slots
  BY <1>2, OwnSlot
<1>4. Moves(t, "counted")
  BY <1>1, GotoMoves, TypeFacts DEF PCs
<1>5. /\ new \in SessRec /\ new.ref = sess[s].ref + 1 /\ new.rel = sess[s].rel
      /\ new.conn = sess[s].conn /\ new.group = sess[s].group /\ sess[s].ref \in Nat
  <2>1. PICK x \in SessRec : x = sess[s]
    BY <1>3, TypeFacts
  <2>a. x.ref + 1 \in Nat
    BY <2>1 DEF SessRec
  <2>2. [x EXCEPT !.ref = x.ref + 1, !.dc = 0] \in SessRec
    BY <2>1, <2>a DEF SessRec
  <2> QED
    BY <2>1, <2>2 DEF SessRec
<1> HIDE DEF new
<1>6. sess' \in [Slots -> SessRec] /\ sess'[s] = new /\ \A r \in Slots : r # s => sess'[r] = sess[r]
  BY <1>1, <1>3, <1>5, TypeFacts
<1>7. \A r \in Slots : /\ (Naming(r) <=> r = s) /\ ~Naming(r)'
                       /\ (Opening(r) <=> r = s) /\ (Opening(r)' <=> r = s)
  BY <1>1, <1>2, <1>4 DEF Moves, SameWork, Naming, Opening, InitPlaces
<1>8. Refs'[s] = Refs[s] /\ Rels'[s] = Rels[s]
  <2>1. Refs[s] = sess[s].ref + 1 /\ Refs'[s] = sess'[s].ref + 0 /\ Rels[s] = 0 /\ Rels'[s] = 0
    BY <1>3, <1>7, SeenFields
  <2> QED
    BY <1>5, <1>6, <2>1
<1>9. \A r \in Slots : r # s => Refs'[r] = Refs[r] /\ Rels'[r] = Rels[r]
  BY <1>6, <1>7, SeenFields
<1> QED
  BY <1>1, <1>2, <1>4, <1>5, <1>6, <1>8, <1>9 DEF SameSlots, SameSlot, SameButRef

\* Init clears m_RelFlag, which was counted as clear before.
LEMMA InitOpenMoves ==
  ASSUME IInv, NEW t \in Threads, InitOpen(t)
  PROVE  /\ me[t].pc = "counted" /\ me[t].job = "accept" /\ Moves(t, "lock") /\ SameSlots
         /\ UNCHANGED <<free, io, port, lock, maps, peers, history, bounds>>
<1> DEFINE s == me[t].slot
           new == [sess[s] EXCEPT !.rel = 0]
<1>1. /\ me[t].pc = "counted" /\ sess' = [sess EXCEPT ![s] = new] /\ Goto(t, "lock")
      /\ UNCHANGED <<free, io, port, lock, maps, peers, history, bounds>>
  BY DEF InitOpen
<1>2. me[t].job = "accept" /\ t = Acceptor
  BY <1>1, PlaceJob DEF InitPlaces
<1>3. s \in Slots
  BY <1>2, OwnSlot
<1>4. Moves(t, "lock")
  BY <1>1, GotoMoves, TypeFacts DEF PCs
<1>5. /\ new \in SessRec /\ new.ref = sess[s].ref /\ new.rel = 0
      /\ new.conn = sess[s].conn /\ new.group = sess[s].group
  <2>1. PICK x \in SessRec : x = sess[s]
    BY <1>3, TypeFacts
  <2>2. [x EXCEPT !.rel = 0] \in SessRec
    BY DEF SessRec
  <2> QED
    BY <2>1, <2>2 DEF SessRec
<1> HIDE DEF new
<1>6. sess' \in [Slots -> SessRec] /\ sess'[s] = new /\ \A r \in Slots : r # s => sess'[r] = sess[r]
  BY <1>1, <1>3, <1>5, TypeFacts
<1>7. \A r \in Slots : /\ ~Naming(r) /\ ~Naming(r)' /\ (Opening(r) <=> r = s) /\ ~Opening(r)'
  BY <1>1, <1>2, <1>4 DEF Moves, SameWork, Naming, Opening, InitPlaces
<1>8. Refs'[s] = Refs[s] /\ Rels'[s] = Rels[s]
  <2>1. Refs[s] = sess[s].ref + 0 /\ Refs'[s] = sess'[s].ref + 0 /\ Rels[s] = 0 /\ Rels'[s] = sess'[s].rel
    BY <1>3, <1>7, SeenFields
  <2> QED
    BY <1>5, <1>6, <2>1
<1>9. \A r \in Slots : r # s => Refs'[r] = Refs[r] /\ Rels'[r] = Rels[r]
  BY <1>6, <1>7, SeenFields
<1> QED
  BY <1>1, <1>2, <1>4, <1>5, <1>6, <1>8, <1>9 DEF SameSlots, SameSlot, SameButRef

\* The connection enters the map of its group under the lock.
LEMMA OnClientJoinMoves ==
  ASSUME IInv, NEW t \in Threads, OnClientJoin(t)
  PROVE  /\ me[t].job = "accept" /\ me[t].pc = "lock" /\ Moves(t, "unlock") /\ SameTable
         /\ \E g \in Groups : g = sess[me[t].slot].group /\ Takes(t, g)
         /\ nonUser' = nonUser \cup {Conn(t)}
         /\ UNCHANGED <<table, io, port, echoUser, inUse, peers, history, bounds>>
<1>1. /\ me[t].pc = "lock" /\ me[t].job = "accept" /\ Exclusive(t, sess[me[t].slot].group)
      /\ nonUser' = nonUser \cup {Conn(t)} /\ Goto(t, "unlock")
      /\ UNCHANGED <<table, io, port, echoUser, inUse, peers, history, bounds>>
  BY DEF OnClientJoin
<1>2. sess[me[t].slot].group \in Groups
  BY <1>1, OwnSlot
<1>3. Takes(t, sess[me[t].slot].group)
  BY <1>1, <1>2, ExclusiveFields, TypeFacts DEF Takes
<1>4. Moves(t, "unlock")
  BY <1>1, GotoMoves, TypeFacts DEF PCs
<1>i. SameInit
  BY <1>1, <1>4, IdleWork, InitKept DEF Moves, Begun, Rests, InitPlaces
<1> QED
  BY <1>i, <1>1, <1>2, <1>3, <1>4, SameSessions

\* The receive is not wanted any more, or to be posted.
LEMMA PostMoves ==
  ASSUME IInv, NEW t \in Threads, Post(t)
  PROVE  /\ me[t].pc = "post" /\ me[t].job \in {"accept", "recv"} /\ SameTable
         /\ \E place \in {"give", "wsa"} : Moves(t, place)
         /\ UNCHANGED <<table, io, port, lock, maps, peers, history, bounds>>
<1> DEFINE place == IF sess[me[t].slot].dc = 1 THEN "give" ELSE "wsa"
<1>1. /\ me[t].pc = "post" /\ Goto(t, place)
      /\ UNCHANGED <<table, io, port, lock, maps, peers, history, bounds>>
  BY DEF Post
<1>2. me[t].job \in {"accept", "recv"}
  BY <1>1, PlaceJob
<1>3. place \in {"give", "wsa"} /\ place \in PCs
  BY DEF PCs
<1> HIDE DEF place
<1>4. Moves(t, place)
  BY <1>1, <1>3, GotoMoves, TypeFacts
<1>i. SameInit
  BY <1>1, <1>3, <1>4, InitKept DEF Moves, InitPlaces
<1> QED
  BY <1>i, <1>1, <1>2, <1>3, <1>4, SameSessions

\* The receive is posted or refused.
LEMMA PostRecvMoves ==
  ASSUME IInv, NEW t \in Threads, PostRecv(t)
  PROVE  /\ me[t].pc = "wsa" /\ me[t].job \in {"accept", "recv"} /\ Moves(t, "give")
         /\ me[t].slot \in Slots
         /\ \/ /\ OtherSlots(me[t].slot) /\ SameButRef(me[t].slot)
               /\ Refs'[me[t].slot] = Refs[me[t].slot] + 1
               /\ OtherRecvs(me[t].slot) /\ recv'[me[t].slot] = "posted"
            \/ SameSlots /\ recv' = recv
         /\ UNCHANGED <<free, ring, port, lock, maps, peers, history, bounds>>
<1> DEFINE s == me[t].slot
<1>1. /\ me[t].pc = "wsa" /\ Goto(t, "give") /\ RecvPost(s)
      /\ UNCHANGED <<free, ring, port, lock, maps, peers, history, bounds>>
  BY DEF PostRecv
<1>2. me[t].job \in {"accept", "recv"}
  BY <1>1, PlaceJob
<1>3. s \in Slots
  BY <1>2, OwnSlot
<1>4. Moves(t, "give")
  BY <1>1, GotoMoves, TypeFacts DEF PCs
<1>i. SameInit
  BY <1>1, <1>4, InitKept DEF Moves, InitPlaces
<1>6. CASE sess' = [sess EXCEPT ![s].dc = 1] /\ UNCHANGED recv
  BY <1>i, <1>1, <1>2, <1>3, <1>4, <1>6, FlagFields, TypeFacts
<1>7. CASE sess' = [sess EXCEPT ![s].ref = @ + 1] /\ recv' = [recv EXCEPT ![s] = "posted"]
  <2>1. OtherSlots(s) /\ SameButRef(s) /\ Refs'[s] = Refs[s] + 1
    BY <1>i, <1>3, <1>7, AddRefFields, TypeFacts
  <2>2. OtherRecvs(s) /\ recv'[s] = "posted"
    BY <1>3, <1>7, TypeFacts DEF OtherRecvs
  <2> QED
    BY <1>1, <1>2, <1>3, <1>4, <2>1, <2>2
<1> QED
  BY <1>1, <1>6, <1>7 DEF RecvPost

\* The reference of the thread is given back.
LEMMA GiveMoves ==
  ASSUME IInv, NEW t \in Threads, Give(t)
  PROVE  /\ me[t].pc = "give" /\ me[t].job \in {"accept", "recv", "move", "close"} /\ Rests(t)
         /\ me[t].slot \in Slots /\ OtherSlots(me[t].slot)
         /\ Refs'[me[t].slot] = Refs[me[t].slot] - 1
         /\ sess'[me[t].slot].conn = sess[me[t].slot].conn
         /\ sess'[me[t].slot].group = sess[me[t].slot].group
         /\ IF Refs[me[t].slot] = 1
            THEN Rels'[me[t].slot] = 1 /\ port' = port \cup {[kind |-> "release", slot |-> me[t].slot]}
            ELSE Rels'[me[t].slot] = 0 /\ port' = port
         /\ UNCHANGED <<free, io, lock, maps, peers, history, bounds>>
<1>1. /\ me[t].pc = "give" /\ GiveBack(me[t].slot) /\ me' = [me EXCEPT ![t] = Idle]
      /\ UNCHANGED <<free, io, lock, maps, peers, history, bounds>>
  BY DEF Give
<1>2. me[t].job \in {"accept", "recv", "move", "close"}
  BY <1>1, PlaceJob
<1>3. me[t].slot \in Slots /\ Refs[me[t].slot] > 0 /\ Rels[me[t].slot] = 0 /\ ~Opening(me[t].slot)
  BY <1>1, <1>2, OwnSlot DEF InitPlaces
<1>4. Rests(t)
  BY <1>1, RestMoves, TypeFacts
<1>i. SameInit
  BY <1>1, <1>4, IdleWork, InitKept DEF Moves, Begun, Rests, InitPlaces
<1>5. sess \in [Slots -> SessRec]
  BY TypeFacts
<1> QED
  BY <1>i, <1>1, <1>2, <1>3, <1>4, <1>5, GiveBackFields

\* A worker takes a completed receive, with its reference.
LEMMA TakeRecvMoves ==
  ASSUME IInv, NEW t \in Threads, NEW s \in Slots, TakeRecv(t, s)
  PROVE  /\ t \in Workers /\ recv[s] \in {"data", "end"} /\ Begun(t, "next", s, "recv") /\ SameSlots
         /\ OtherRecvs(s) /\ recv'[s] = "none"
         /\ UNCHANGED <<free, ring, port, lock, maps, peers, history, bounds>>
<1> DEFINE w == [Idle EXCEPT !.pc = "next", !.slot = s, !.job = "recv"]
           d == IF recv[s] = "end" THEN 1 ELSE sess[s].dc
<1>1. /\ t \in Workers /\ me[t].pc = "idle" /\ recv[s] \in {"data", "end"} /\ me' = [me EXCEPT ![t] = w]
      /\ sess' = [sess EXCEPT ![s].dc = d] /\ recv' = [recv EXCEPT ![s] = "none"]
      /\ UNCHANGED <<free, ring, port, lock, maps, peers, history, bounds>>
  BY DEF TakeRecv
<1>2. w \in WorkRec /\ w.pc = "next" /\ w.slot = s /\ w.job = "recv"
  BY IdleWork DEF WorkRec, PCs
<1>3. d \in {0, 1}
  BY TypeFacts DEF SessRec
<1> HIDE DEF w, d
<1>4. Begun(t, "next", s, "recv")
  BY <1>1, <1>2, BegunIdle
<1>i. SameInit
  BY <1>1, <1>4, IdleWork, InitKept DEF Moves, Begun, Rests, InitPlaces
<1>5. SameSlots
  BY <1>i, <1>1, <1>3, FlagFields, TypeFacts
<1>6. OtherRecvs(s) /\ recv'[s] = "none"
  BY <1>1, TypeFacts DEF OtherRecvs
<1> QED
  BY <1>1, <1>4, <1>5, <1>6

\* It goes for the lock of the group m_GroupID names, if there is a message left.
LEMMA NextMessageMoves ==
  ASSUME IInv, NEW t \in Threads, NextMessage(t)
  PROVE  /\ me[t].pc = "next" /\ me[t].job = "recv" /\ me[t].slot \in Slots
         /\ Others(t) /\ me'[t].slot = me[t].slot /\ me'[t].job = "recv" /\ SameSlots
         /\ me'[t].pc \in {"give", "post", "lock"}
         /\ me'[t].pc = "lock" => me'[t].group = sess[me[t].slot].group /\ ring[me[t].slot] # <<>>
         /\ UNCHANGED <<free, io, port, lock, maps, peers, history, bounds>>
<1> DEFINE s == me[t].slot
           bad == ring[s] # <<>> /\ Head(ring[s]).type = "bad"
           place == CASE sess[s].dc = 1 -> NextStop
                      [] sess[s].dc = 0 /\ ring[s] = <<>> -> "post"
                      [] sess[s].dc = 0 /\ bad -> "give"
                      [] OTHER -> "lock"
           g == IF place = "lock" THEN sess[s].group ELSE me[t].group
           d == IF bad THEN 1 ELSE sess[s].dc
           w == [me[t] EXCEPT !.pc = place, !.group = g]
<1>0. /\ me[t].pc = "next" /\ UNCHANGED <<free, io, port, lock, maps, peers, history, bounds>>
      /\ me' = [me EXCEPT ![t].pc = place, ![t].group = g] /\ sess' = [sess EXCEPT ![s].dc = d]
  BY DEF NextMessage
<1>1. /\ me[t].pc = "next" /\ me' = [me EXCEPT ![t] = w] /\ sess' = [sess EXCEPT ![s].dc = d]
      /\ UNCHANGED <<free, io, port, lock, maps, peers, history, bounds>>
  <2> HIDE DEF place, g, d
  <2> QED
    BY <1>0, TypeFacts
<1>2. me[t].job = "recv" /\ me[t] \in WorkRec
  BY <1>1, PlaceJob
<1>3. s \in Slots /\ sess[s].group \in Groups /\ sess[s].dc \in {0, 1}
  BY <1>2, OwnSlot, TypeFacts DEF SessRec
<1>4. place \in {"give", "post", "lock"} /\ (place = "lock" => ring[s] # <<>>)
  BY <1>3 DEF NextStop
<1>5. d \in {0, 1}
  BY <1>3
<1> HIDE DEF place, d, bad
<1>6. g \in Groups /\ (place = "lock" => g = sess[s].group)
  BY <1>2, <1>3 DEF WorkRec
<1> HIDE DEF g
<1>7. w \in WorkRec /\ w.pc = place /\ w.slot = s /\ w.job = "recv" /\ w.group = g
  BY <1>2, <1>4, <1>6 DEF WorkRec, PCs
<1> HIDE DEF w
<1>8. Others(t) /\ me'[t] = w
  BY <1>1, <1>7, TypeFacts DEF Others
<1>i. SameInit
  BY <1>1, <1>4, <1>7, <1>8, IdleWork, InitKept DEF Moves, Begun, Rests, InitPlaces
<1>9. SameSlots
  BY <1>i, <1>1, <1>3, <1>5, FlagFields, TypeFacts
<1> QED
  BY <1>1, <1>2, <1>3, <1>4, <1>6, <1>7, <1>8, <1>9

\* The lock of CAuth is taken exclusively, that of CEcho shared.
LEMMA RecvLockMoves ==
  ASSUME IInv, NEW t \in Threads, RecvLock(t)
  PROVE  /\ me[t].pc = "lock" /\ me[t].job = "recv" /\ me[t].slot \in Slots /\ Moves(t, "recv") /\ SameTable
         /\ t \in Workers /\ me[t].group \in Groups
         /\ \/ me[t].group = Auth /\ Takes(t, Auth)
            \/ /\ me[t].group = Echo /\ lock' \in [Groups -> LockRec] /\ lock[Echo].excl = None
               /\ lock'[Echo].excl = None /\ lock'[Echo].shared = lock[Echo].shared \cup {t}
               /\ lock'[Auth] = lock[Auth]
         /\ UNCHANGED <<table, io, port, maps, peers, history, bounds>>
<1> DEFINE g == me[t].group
<1>1. /\ me[t].pc = "lock" /\ me[t].job = "recv" /\ Goto(t, "recv")
      /\ IF Shared(g) THEN SharedFree(g) /\ lock' = [lock EXCEPT ![g].shared = @ \cup {t}] ELSE Exclusive(t, g)
      /\ UNCHANGED <<table, io, port, maps, peers, history, bounds>>
  BY DEF RecvLock
<1>2. t \in Workers /\ g \in Groups /\ g \in {Auth, Echo} /\ me[t].slot \in Slots
  BY <1>1, PlaceJob, OwnSlot DEF WorkRec, Groups
<1>3. Moves(t, "recv")
  BY <1>1, GotoMoves, TypeFacts DEF PCs
<1>i. SameInit
  BY <1>1, <1>3, IdleWork, InitKept DEF Moves, Begun, Rests, InitPlaces
<1>4. CASE g = Auth
  <2>1. Exclusive(t, Auth)
    BY <1>1, <1>4, TypeFacts DEF Shared
  <2>2. Takes(t, Auth)
    BY <2>1, ExclusiveFields, TypeFacts DEF Takes
  <2> QED
    BY <1>i, <1>1, <1>2, <1>3, <1>4, <2>2, SameSessions
<1>5. CASE g = Echo
  <2>1. lock[Echo].excl = None /\ lock' = [lock EXCEPT ![Echo].shared = @ \cup {t}]
    BY <1>1, <1>5 DEF Shared, SharedFree
  <2>2. lock \in [Groups -> LockRec] /\ Echo \in Groups /\ Auth \in Groups /\ Auth # Echo
    BY TypeFacts
  <2>3. [lock[Echo] EXCEPT !.shared = lock[Echo].shared \cup {t}] \in LockRec
    BY <1>2, <2>2 DEF LockRec
  <2>4. lock' \in [Groups -> LockRec] /\ lock'[Echo] = [lock[Echo] EXCEPT !.shared = lock[Echo].shared \cup {t}]
        /\ lock'[Auth] = lock[Auth]
    BY <2>1, <2>2, <2>3
  <2>5. lock'[Echo].excl = None /\ lock'[Echo].shared = lock[Echo].shared \cup {t}
    BY <2>1, <2>2, <2>4 DEF LockRec
  <2> QED
    BY <1>i, <1>1, <1>2, <1>3, <1>5, <2>1, <2>4, <2>5, SameSessions
<1> QED
  BY <1>2, <1>4, <1>5

\* A login takes a new CUser and posts a packet with a reference of its own;
\* any other message changes m_DCFlag at most.
LEMMA OnRecvMoves ==
  ASSUME IInv, NEW t \in Threads, OnRecv(t)
  PROVE  /\ me[t].pc = "recv" /\ me[t].job = "recv" /\ me[t].slot \in Slots /\ Moves(t, "unlock")
         /\ OtherRings(me[t].slot) /\ ring[me[t].slot] # <<>> /\ ring'[me[t].slot] = Tail(ring[me[t].slot])
         /\ \/ \E u \in Users \ inUse :
                  /\ OtherSlots(me[t].slot) /\ SameButRef(me[t].slot)
                  /\ Refs'[me[t].slot] = Refs[me[t].slot] + 1
                  /\ port' = port \cup {[kind |-> "move", slot |-> me[t].slot, conn |-> Conn(t), user |-> u]}
                  /\ inUse' = inUse \cup {u} /\ nonUser' = nonUser \ {Conn(t)}
                  /\ logins' = [logins EXCEPT ![Conn(t)] = @ + 1]
            \/ SameSlots /\ UNCHANGED <<port, nonUser, inUse, logins>>
         /\ UNCHANGED <<free, recv, lock, echoUser, peers, left, bounds>>
<1> DEFINE s == me[t].slot
           m == Head(ring[s])
<1>1. /\ me[t].pc = "recv" /\ ring' = [ring EXCEPT ![s] = Tail(@)] /\ Goto(t, "unlock")
      /\ UNCHANGED <<free, recv, lock, echoUser, peers, left, bounds>>
      /\ CASE me[t].group = Auth /\ m.type = "login" -> Login(t)
           [] me[t].group = Echo /\ m.type = "echo"  -> UNCHANGED <<sess, port, nonUser, inUse, logins>>
           [] OTHER -> WrongType(t)
  BY DEF OnRecv
<1>2. me[t].job = "recv"
  BY <1>1, PlaceJob
<1>3. s \in Slots /\ sess[s].rel = 0 /\ Conn(t) \in Conns
  <2>1. s \in Slots /\ Rels[s] = 0 /\ Conn(t) \in Conns /\ ~Opening(s)
    BY <1>1, <1>2, OwnSlot DEF InitPlaces
  <2> QED
    BY <2>1, SeenFields
<1>4. Moves(t, "unlock")
  BY <1>1, GotoMoves, TypeFacts DEF PCs
<1>i. SameInit
  BY <1>1, <1>4, IdleWork, InitKept DEF Moves, Begun, Rests, InitPlaces
<1>5. ring[s] # <<>> /\ ring[s] \in Seq(Messages)
  BY <1>1, <1>2, <1>3, TypeFacts DEF Routed
<1>6. OtherRings(s) /\ ring'[s] = Tail(ring[s])
  BY <1>1, <1>3, <1>5, TypeFacts DEF OtherRings
<1>7. Login(t) \/ UNCHANGED <<sess, port, nonUser, inUse, logins>> \/ WrongType(t)
  <2> HIDE DEF m
  <2> QED
    BY <1>1
<1>8. CASE UNCHANGED <<sess, port, nonUser, inUse, logins>>
  <2>1. SameSlots
    BY <1>i, <1>8, SameSessions DEF SameTable
  <2> QED
    BY <1>1, <1>2, <1>3, <1>4, <1>5, <1>6, <1>8, <2>1
<1>9. CASE WrongType(t)
  <2>1. sess' = [sess EXCEPT ![s].dc = 1] /\ UNCHANGED <<port, nonUser, inUse, logins>>
    BY <1>9 DEF WrongType
  <2>2. SameSlots
    BY <1>i, <1>3, <2>1, FlagFields, TypeFacts
  <2> QED
    BY <1>1, <1>2, <1>3, <1>4, <1>5, <1>6, <2>1, <2>2
<1>10. CASE Login(t)
  <2> DEFINE u == CHOOSE v \in Users \ inUse : \A w \in Users \ inUse : v <= w
  <2>1. /\ inUse # Users /\ nonUser' = nonUser \ {Conn(t)} /\ logins' = [logins EXCEPT ![Conn(t)] = @ + 1]
        /\ GroupMove(t, u) /\ inUse' = inUse \cup {u}
    BY <1>3, <1>10 DEF Login
  <2>2. \E v \in Users \ inUse : \A w \in Users \ inUse : v <= w
    BY <2>1, SmallestUser, TypeFacts
  <2>3. u \in Users \ inUse
    BY <2>2
  <2> HIDE DEF u
  <2>4. /\ port' = port \cup {[kind |-> "move", slot |-> s, conn |-> Conn(t), user |-> u]}
        /\ sess' = [sess EXCEPT ![s].ref = @ + 1]
    BY <2>1 DEF GroupMove
  <2>5. OtherSlots(s) /\ SameButRef(s) /\ Refs'[s] = Refs[s] + 1
    BY <1>i, <1>3, <2>4, AddRefFields, TypeFacts
  <2> QED
    BY <1>1, <1>2, <1>3, <1>4, <1>5, <1>6, <2>1, <2>3, <2>4, <2>5
<1> QED
  BY <1>7, <1>8, <1>9, <1>10

\* The lock is free again and the work goes on; that of a frame ends.
LEMMA UnlockMoves ==
  ASSUME IInv, NEW t \in Threads, Unlock(t)
  PROVE  /\ me[t].pc = "unlock" /\ SameTable
         /\ lock' \in [Groups -> LockRec]
         /\ \A g \in Groups : /\ lock'[g].excl = IF lock[g].excl = t THEN None ELSE lock[g].excl
                              /\ lock'[g].shared = lock[g].shared \ {t}
         /\ \/ me[t].job = "frame" /\ me[t].slot = None /\ Rests(t)
            \/ me[t].job = "accept" /\ Moves(t, "post")
            \/ me[t].job = "recv" /\ Moves(t, "next")
            \/ me[t].job = "move" /\ Moves(t, "give")
            \/ me[t].job = "release" /\ Moves(t, "push")
         /\ UNCHANGED <<table, io, port, maps, peers, history, bounds>>
<1>1. /\ me[t].pc = "unlock" /\ Unlocked(t)
      /\ IF me[t].job = "frame" THEN me' = [me EXCEPT ![t] = Idle]
         ELSE Goto(t, CASE me[t].job = "accept" -> "post"
                        [] me[t].job = "recv" -> "next"
                        [] me[t].job = "move" -> "give"
                        [] me[t].job = "release" -> "push")
      /\ UNCHANGED <<table, io, port, maps, peers, history, bounds>>
  BY DEF Unlock
<1>2. me[t].job \in {"accept", "recv", "move", "release", "frame"}
  BY <1>1, PlaceJob
<1>3. /\ lock' \in [Groups -> LockRec]
      /\ \A g \in Groups : /\ lock'[g].excl = IF lock[g].excl = t THEN None ELSE lock[g].excl
                           /\ lock'[g].shared = lock[g].shared \ {t}
  BY <1>1, UnlockedFields, TypeFacts
<1>4. \/ me[t].job = "frame" /\ me[t].slot = None /\ Rests(t)
      \/ me[t].job = "accept" /\ Moves(t, "post")
      \/ me[t].job = "recv" /\ Moves(t, "next")
      \/ me[t].job = "move" /\ Moves(t, "give")
      \/ me[t].job = "release" /\ Moves(t, "push")
  <2>1. CASE me[t].job = "frame"
    BY <1>1, <2>1, RestMoves, PlaceJob, TypeFacts
  <2>2. CASE me[t].job = "accept"
    <3>1. Goto(t, "post")
      BY <1>1, <2>2
    <3> QED
      BY <2>2, <3>1, GotoMoves, TypeFacts DEF PCs
  <2>3. CASE me[t].job = "recv"
    <3>1. Goto(t, "next")
      BY <1>1, <2>3
    <3> QED
      BY <2>3, <3>1, GotoMoves, TypeFacts DEF PCs
  <2>4. CASE me[t].job = "move"
    <3>1. Goto(t, "give")
      BY <1>1, <2>4
    <3> QED
      BY <2>4, <3>1, GotoMoves, TypeFacts DEF PCs
  <2>5. CASE me[t].job = "release"
    <3>1. Goto(t, "push")
      BY <1>1, <2>5
    <3> QED
      BY <2>5, <3>1, GotoMoves, TypeFacts DEF PCs
  <2> QED
    BY <1>2, <2>1, <2>2, <2>3, <2>4, <2>5
<1>i. SameInit
  BY <1>1, <1>4, IdleWork, InitKept DEF Moves, Begun, Rests, InitPlaces, Others
<1> QED
  BY <1>i, <1>1, <1>3, <1>4, SameSessions

\* A worker takes a move, with its reference.
LEMMA TakeMoveMoves ==
  ASSUME IInv, NEW t \in Threads, NEW p \in port, TakeMove(t, p)
  PROVE  /\ t \in Workers /\ p.kind = "move" /\ p \in Packets /\ port' = port \ {p} /\ SameTable
         /\ p.slot \in Slots /\ Begun(t, "lock", p.slot, "move")
         /\ me'[t].conn = p.conn /\ me'[t].user = p.user /\ me'[t].group = Echo
         /\ UNCHANGED <<table, io, lock, maps, peers, history, bounds>>
<1> DEFINE w == [Idle EXCEPT !.pc = "lock", !.slot = p.slot, !.conn = p.conn,
                             !.user = p.user, !.group = Echo, !.job = "move"]
<1>1. /\ t \in Workers /\ me[t].pc = "idle" /\ p.kind = "move" /\ port' = port \ {p}
      /\ me' = [me EXCEPT ![t] = w]
      /\ UNCHANGED <<table, io, lock, maps, peers, history, bounds>>
  BY DEF TakeMove
<1>2. p \in Packets /\ p.slot \in Slots /\ p.conn \in Conns /\ p.user \in Users
  BY <1>1, TypeFacts, PacketFields
<1>3. /\ w \in WorkRec /\ w.pc = "lock" /\ w.slot = p.slot /\ w.job = "move"
      /\ w.conn = p.conn /\ w.user = p.user /\ w.group = Echo
  <2>1. p.conn \in 0..MaxConn /\ Echo \in Groups
    BY <1>2, Bounds DEF Conns, Groups
  <2> QED
    BY <1>2, <2>1, IdleWork DEF WorkRec, PCs
<1> HIDE DEF w
<1>4. Begun(t, "lock", p.slot, "move") /\ me'[t] = w
  BY <1>1, <1>3, BegunIdle
<1>i. SameInit
  BY <1>1, <1>4, IdleWork, InitKept DEF Moves, Begun, Rests, InitPlaces
<1> QED
  BY <1>i, <1>1, <1>2, <1>3, <1>4, SameSessions

\* A move takes the lock of CEcho exclusively.
LEMMA MoveLockMoves ==
  ASSUME IInv, NEW t \in Threads, MoveLock(t)
  PROVE  /\ me[t].pc = "lock" /\ me[t].job = "move" /\ Moves(t, "set") /\ SameTable /\ Takes(t, Echo)
         /\ UNCHANGED <<table, io, port, maps, peers, history, bounds>>
<1>1. /\ me[t].pc = "lock" /\ me[t].job = "move" /\ Exclusive(t, Echo) /\ Goto(t, "set")
      /\ UNCHANGED <<table, io, port, maps, peers, history, bounds>>
  BY DEF MoveLock, MoveOrder
<1>2. Takes(t, Echo)
  BY <1>1, ExclusiveFields, TypeFacts DEF Takes
<1>3. Moves(t, "set")
  BY <1>1, GotoMoves, TypeFacts DEF PCs
<1>i. SameInit
  BY <1>1, <1>3, IdleWork, InitKept DEF Moves, Begun, Rests, InitPlaces
<1> QED
  BY <1>i, <1>1, <1>2, <1>3, SameSessions

\* A move changes m_GroupID of its slot.
LEMMA SetGroupMoves ==
  ASSUME IInv, NEW t \in Threads, SetGroup(t)
  PROVE  /\ me[t].pc = "set" /\ me[t].job = "move" /\ me[t].slot \in Slots /\ Moves(t, "user")
         /\ OtherSlots(me[t].slot) /\ sess'[me[t].slot].group = Echo
         /\ sess'[me[t].slot].conn = sess[me[t].slot].conn /\ Refs'[me[t].slot] = Refs[me[t].slot]
         /\ Rels'[me[t].slot] = Rels[me[t].slot]
         /\ UNCHANGED <<free, io, port, lock, maps, peers, history, bounds>>
<1>1. /\ me[t].pc = "set" /\ sess' = [sess EXCEPT ![me[t].slot].group = Echo] /\ Goto(t, "user")
      /\ UNCHANGED <<free, io, port, lock, maps, peers, history, bounds>>
  BY DEF SetGroup, MoveOrder
<1>2. me[t].job = "move"
  BY <1>1, PlaceJob
<1>3. me[t].slot \in Slots
  BY <1>2, OwnSlot
<1>4. Moves(t, "user")
  BY <1>1, GotoMoves, TypeFacts DEF PCs
<1>i. SameInit
  BY <1>1, <1>4, IdleWork, InitKept DEF Moves, Begun, Rests, InitPlaces
<1>5. sess \in [Slots -> SessRec]
  BY TypeFacts
<1> QED
  BY <1>i, <1>1, <1>2, <1>3, <1>4, <1>5, GroupFields

\* A move puts the CUser in the map of CEcho, if there is none, and welcomes the client.
LEMMA OnIUserMoveMoves ==
  ASSUME IInv, NEW t \in Threads, OnIUserMove(t)
  PROVE  /\ me[t].pc = "user" /\ me[t].job = "move" /\ me[t].slot \in Slots /\ Moves(t, "unlock") /\ SameTable
         /\ me[t].conn \in Conns /\ me[t].user \in Users /\ Conn(t) = me[t].conn
         /\ echoUser' \in [Conns -> Users \cup {None}]
         /\ echoUser'[me[t].conn] = IF echoUser[me[t].conn] = None THEN me[t].user ELSE echoUser[me[t].conn]
         /\ \A c \in Conns : c # me[t].conn => echoUser'[c] = echoUser[c]
         /\ welcomed' = welcomed \cup {me[t].conn}
         /\ UNCHANGED <<table, io, port, lock, nonUser, inUse, sent, gone, history, bounds>>
<1> DEFINE c == me[t].conn
<1>1. /\ me[t].pc = "user" /\ Goto(t, "unlock") /\ welcomed' = welcomed \cup {c}
      /\ echoUser' = [echoUser EXCEPT ![c] = IF @ = None THEN me[t].user ELSE @]
      /\ UNCHANGED <<table, io, port, lock, nonUser, inUse, sent, gone, history, bounds>>
  BY DEF OnIUserMove, MoveOrder
<1>2. me[t].job = "move" /\ c \in Conns /\ me[t].user \in Users
  BY <1>1, PlaceJob
<1>3. me[t].slot \in Slots /\ Conn(t) = c
  BY <1>2, OwnSlot, TypeFacts DEF MovesTrue
<1>4. Moves(t, "unlock")
  BY <1>1, GotoMoves, TypeFacts DEF PCs
<1>i. SameInit
  BY <1>1, <1>4, IdleWork, InitKept DEF Moves, Begun, Rests, InitPlaces
<1>5. echoUser \in [Conns -> Users \cup {None}]
  BY TypeFacts
<1>6. /\ echoUser' \in [Conns -> Users \cup {None}]
      /\ echoUser'[c] = IF echoUser[c] = None THEN me[t].user ELSE echoUser[c]
      /\ \A d \in Conns : d # c => echoUser'[d] = echoUser[d]
  BY <1>1, <1>2, <1>5
<1> QED
  BY <1>i, <1>1, <1>2, <1>3, <1>4, <1>6, SameSessions

\* A worker takes a release.
LEMMA TakeReleaseMoves ==
  ASSUME IInv, NEW t \in Threads, NEW p \in port, TakeRelease(t, p)
  PROVE  /\ t \in Workers /\ p.kind = "release" /\ p = [kind |-> "release", slot |-> p.slot] /\ port' = port \ {p}
         /\ SameTable /\ p.slot \in Slots /\ Begun(t, "lock", p.slot, "release")
         /\ UNCHANGED <<table, io, lock, maps, peers, history, bounds>>
<1> DEFINE w == [Idle EXCEPT !.pc = "lock", !.slot = p.slot, !.job = "release"]
<1>1. /\ t \in Workers /\ me[t].pc = "idle" /\ p.kind = "release" /\ port' = port \ {p}
      /\ me' = [me EXCEPT ![t] = w]
      /\ UNCHANGED <<table, io, lock, maps, peers, history, bounds>>
  BY DEF TakeRelease
<1>2. p.slot \in Slots /\ p = [kind |-> "release", slot |-> p.slot]
  BY <1>1, TypeFacts, PacketFields
<1>3. w \in WorkRec /\ w.pc = "lock" /\ w.slot = p.slot /\ w.job = "release"
  BY <1>2, IdleWork DEF WorkRec, PCs
<1> HIDE DEF w
<1>4. Begun(t, "lock", p.slot, "release")
  BY <1>1, <1>3, BegunIdle
<1>i. SameInit
  BY <1>1, <1>4, IdleWork, InitKept DEF Moves, Begun, Rests, InitPlaces
<1> QED
  BY <1>i, <1>1, <1>2, <1>4, SameSessions

\* The connection leaves the map of the group that m_GroupID names.
LEMMA OnClientLeaveMoves ==
  ASSUME IInv, NEW t \in Threads, OnClientLeave(t)
  PROVE  /\ me[t].pc = "lock" /\ me[t].job = "release" /\ me[t].slot \in Slots /\ Moves(t, "unlock") /\ SameTable
         /\ \E g \in Groups : g = sess[me[t].slot].group /\ Takes(t, g)
         /\ Conn(t) \in Conns /\ left' = left \cup {Conn(t)}
         /\ IF sess[me[t].slot].group = Auth
            THEN nonUser' = nonUser \ {Conn(t)} /\ UNCHANGED <<echoUser, inUse>>
            ELSE /\ inUse' = inUse \ {echoUser[Conn(t)]} /\ UNCHANGED nonUser
                 /\ echoUser' \in [Conns -> Users \cup {None}] /\ echoUser'[Conn(t)] = None
                 /\ \A c \in Conns : c # Conn(t) => echoUser'[c] = echoUser[c]
         /\ UNCHANGED <<table, io, port, peers, logins, bounds>>
<1> DEFINE g == sess[me[t].slot].group
<1>1. /\ me[t].pc = "lock" /\ me[t].job = "release" /\ Exclusive(t, g) /\ left' = left \cup {Conn(t)}
      /\ Goto(t, "unlock") /\ UNCHANGED <<table, io, port, peers, logins, bounds>>
      /\ IF g = Auth THEN AuthLeave(Conn(t)) ELSE EchoLeave(Conn(t))
  BY DEF OnClientLeave
<1>2. me[t].slot \in Slots /\ Conn(t) \in Conns /\ g \in Groups
  BY <1>1, ReleasedSlot
<1>3. Takes(t, g)
  BY <1>1, <1>2, ExclusiveFields, TypeFacts DEF Takes
<1>4. Moves(t, "unlock")
  BY <1>1, GotoMoves, TypeFacts DEF PCs
<1>i. SameInit
  BY <1>1, <1>4, IdleWork, InitKept DEF Moves, Begun, Rests, InitPlaces
<1>5. echoUser \in [Conns -> Users \cup {None}]
  BY TypeFacts
<1>6. IF g = Auth
      THEN nonUser' = nonUser \ {Conn(t)} /\ UNCHANGED <<echoUser, inUse>>
      ELSE /\ inUse' = inUse \ {echoUser[Conn(t)]} /\ UNCHANGED nonUser
           /\ echoUser' \in [Conns -> Users \cup {None}] /\ echoUser'[Conn(t)] = None
           /\ \A c \in Conns : c # Conn(t) => echoUser'[c] = echoUser[c]
  BY <1>1, <1>2, <1>5 DEF AuthLeave, EchoLeave
<1> QED
  BY <1>i, <1>1, <1>2, <1>3, <1>4, <1>6, SameSessions

\* The index goes back to the stack.
LEMMA PushMoves ==
  ASSUME IInv, NEW t \in Threads, Push(t)
  PROVE  /\ me[t].pc = "push" /\ me[t].job = "release" /\ me[t].slot \in Slots /\ Rests(t) /\ SameTable
         /\ free' = free \cup {me[t].slot}
         /\ UNCHANGED <<sess, io, port, lock, maps, peers, history, bounds>>
<1>1. /\ me[t].pc = "push" /\ free' = free \cup {me[t].slot} /\ me' = [me EXCEPT ![t] = Idle]
      /\ UNCHANGED <<sess, io, port, lock, maps, peers, history, bounds>>
  BY DEF Push
<1>2. me[t].job = "release"
  BY <1>1, PlaceJob
<1>3. Rests(t)
  BY <1>1, RestMoves, TypeFacts
<1>i. SameInit
  BY <1>1, <1>3, IdleWork, InitKept DEF Rests, InitPlaces
<1> QED
  BY <1>i, <1>1, <1>2, <1>3, ReleasedSlot, SameSessions

\* A worker takes a frame.
LEMMA TakeFrameMoves ==
  ASSUME IInv, NEW t \in Threads, NEW p \in port, TakeFrame(t, p)
  PROVE  /\ t \in Workers /\ p.kind = "frame" /\ port' = port \ {p} /\ SameTable
         /\ Begun(t, "lock", None, "frame")
         /\ UNCHANGED <<table, io, lock, maps, peers, history, bounds>>
<1> DEFINE w == [Idle EXCEPT !.pc = "lock", !.group = p.group, !.job = "frame"]
<1>1. /\ t \in Workers /\ me[t].pc = "idle" /\ p.kind = "frame" /\ port' = port \ {p}
      /\ me' = [me EXCEPT ![t] = w]
      /\ UNCHANGED <<table, io, lock, maps, peers, history, bounds>>
  BY DEF TakeFrame
<1>2. p.group \in Groups
  BY <1>1, TypeFacts, PacketFields
<1>3. w \in WorkRec /\ w.pc = "lock" /\ w.slot = None /\ w.job = "frame"
  BY <1>2, IdleWork DEF WorkRec, PCs
<1> HIDE DEF w
<1>4. Begun(t, "lock", None, "frame")
  BY <1>1, <1>3, BegunIdle
<1>i. SameInit
  BY <1>1, <1>4, IdleWork, InitKept DEF Moves, Begun, Rests, InitPlaces
<1> QED
  BY <1>i, <1>1, <1>4, SameSessions

\* A frame takes the lock of its group.
LEMMA FrameLockMoves ==
  ASSUME IInv, NEW t \in Threads, FrameLock(t)
  PROVE  /\ me[t].pc = "lock" /\ me[t].job = "frame" /\ me[t].slot = None /\ Moves(t, "unlock") /\ SameTable
         /\ \E g \in Groups : Takes(t, g)
         /\ UNCHANGED <<table, io, port, maps, peers, history, bounds>>
<1>1. /\ me[t].pc = "lock" /\ me[t].job = "frame" /\ Exclusive(t, me[t].group) /\ Goto(t, "unlock")
      /\ UNCHANGED <<table, io, port, maps, peers, history, bounds>>
  BY DEF FrameLock
<1>2. me[t].group \in Groups /\ me[t].slot = None
  BY <1>1, PlaceJob DEF WorkRec
<1>3. Takes(t, me[t].group)
  BY <1>1, <1>2, ExclusiveFields, TypeFacts DEF Takes
<1>4. Moves(t, "unlock")
  BY <1>1, GotoMoves, TypeFacts DEF PCs
<1>i. SameInit
  BY <1>1, <1>4, IdleWork, InitKept DEF Moves, Begun, Rests, InitPlaces
<1> QED
  BY <1>i, <1>1, <1>2, <1>3, <1>4, SameSessions

\* A Disconnect from outside takes a reference.
LEMMA EnterMoves ==
  ASSUME IInv, NoScan, NEW t \in Threads, NEW s \in Slots, Enter(t, s)
  PROVE  /\ t = Closer /\ Live(s) /\ ~Opening(s) /\ Begun(t, "flag", s, "close")
         /\ OtherSlots(s) /\ SameButRef(s) /\ Refs'[s] = Refs[s] + 1
         /\ closes < MaxClose /\ closes' = closes + 1
         /\ UNCHANGED <<free, io, port, lock, maps, peers, history, accepted, frames>>
<1> DEFINE w == [Idle EXCEPT !.pc = "flag", !.slot = s, !.job = "close"]
<1>1. /\ t = Closer /\ me[t].pc = "idle" /\ sess[s].conn # 0 /\ sess[s].rel = 0 /\ ~FirstInit(s)
      /\ sess' = [sess EXCEPT ![s].ref = @ + 1] /\ me' = [me EXCEPT ![t] = w]
      /\ closes < MaxClose /\ closes' = closes + 1
      /\ UNCHANGED <<free, io, port, lock, maps, peers, history, accepted, frames>>
  BY DEF Enter, NoScan
<1>2. w \in WorkRec /\ w.pc = "flag" /\ w.slot = s /\ w.job = "close"
  BY IdleWork DEF WorkRec, PCs
<1> HIDE DEF w
<1>3. Begun(t, "flag", s, "close")
  BY <1>1, <1>2, BegunIdle
<1>i. SameInit
  BY <1>1, <1>3, IdleWork, InitKept DEF Moves, Begun, Rests, InitPlaces
<1>4. OtherSlots(s) /\ SameButRef(s) /\ Refs'[s] = Refs[s] + 1
  BY <1>i, <1>1, AddRefFields, TypeFacts
<1>5. ~Opening(s) /\ Rels[s] = 0
  <2>1. ~Opening(s)
    BY <1>1 DEF FirstInit, Opening, InitPlaces
  <2> QED
    BY <1>1, <2>1, SeenFields
<1> QED
  BY <1>5, <1>1, <1>3, <1>4 DEF Live

\* It sets m_DCFlag.
LEMMA SetDCMoves ==
  ASSUME IInv, NEW t \in Threads, SetDC(t)
  PROVE  /\ me[t].pc = "flag" /\ me[t].job = "close" /\ Moves(t, "cancel") /\ SameSlots
         /\ UNCHANGED <<free, io, port, lock, maps, peers, history, bounds>>
<1>1. /\ me[t].pc = "flag" /\ sess' = [sess EXCEPT ![me[t].slot].dc = 1] /\ Goto(t, "cancel")
      /\ UNCHANGED <<free, io, port, lock, maps, peers, history, bounds>>
  BY DEF SetDC
<1>2. me[t].job = "close"
  BY <1>1, PlaceJob
<1>3. me[t].slot \in Slots
  BY <1>2, OwnSlot
<1>4. Moves(t, "cancel")
  BY <1>1, GotoMoves, TypeFacts DEF PCs
<1>i. SameInit
  BY <1>1, <1>4, IdleWork, InitKept DEF Moves, Begun, Rests, InitPlaces
<1>5. SameSlots
  BY <1>i, <1>1, <1>3, FlagFields, TypeFacts
<1> QED
  BY <1>1, <1>2, <1>4, <1>5

\* It cancels the receive, which completes.
LEMMA CancelMoves ==
  ASSUME IInv, NEW t \in Threads, Cancel(t)
  PROVE  /\ me[t].pc = "cancel" /\ me[t].job = "close" /\ me[t].slot \in Slots /\ Moves(t, "give") /\ SameTable
         /\ OtherRecvs(me[t].slot)
         /\ recv'[me[t].slot] = IF recv[me[t].slot] = "posted" THEN "end" ELSE recv[me[t].slot]
         /\ UNCHANGED <<table, ring, port, lock, maps, peers, history, bounds>>
<1>1. /\ me[t].pc = "cancel" /\ CancelRecv(me[t].slot) /\ Goto(t, "give")
      /\ UNCHANGED <<table, ring, port, lock, maps, peers, history, bounds>>
  BY DEF Cancel
<1>2. me[t].job = "close"
  BY <1>1, PlaceJob
<1>3. me[t].slot \in Slots
  BY <1>2, OwnSlot
<1>4. Moves(t, "give")
  BY <1>1, GotoMoves, TypeFacts DEF PCs
<1>i. SameInit
  BY <1>1, <1>4, IdleWork, InitKept DEF Moves, Begun, Rests, InitPlaces
<1>5. /\ OtherRecvs(me[t].slot)
      /\ recv'[me[t].slot] = IF recv[me[t].slot] = "posted" THEN "end" ELSE recv[me[t].slot]
  BY <1>1, <1>3, TypeFacts DEF CancelRecv, OtherRecvs
<1> QED
  BY <1>i, <1>1, <1>2, <1>3, <1>4, <1>5, SameSessions

\* A pending receive completes with messages; they know whether the client was welcomed.
LEMMA PeerSendsMoves ==
  ASSUME IInv, NEW s \in Slots, NEW k \in 1..MaxMsg, PeerSends(s, k)
  PROVE  /\ recv[s] = "posted" /\ OtherRecvs(s) /\ recv'[s] = "data" /\ SameTable
         /\ OtherRings(s) /\ Len(ring'[s]) = k /\ k \in Nat /\ sent + k <= MaxMsg /\ sent' = sent + k
         /\ \A i \in 1..k : ring'[s][i].late <=> sess[s].conn \in welcomed
         /\ UNCHANGED <<table, port, lock, maps, me, gone, welcomed, history, bounds>>
<1>1. /\ recv[s] = "posted" /\ sent + k <= MaxMsg /\ recv' = [recv EXCEPT ![s] = "data"] /\ sent' = sent + k
      /\ UNCHANGED <<table, port, lock, maps, me, gone, welcomed, history, bounds>>
  BY DEF PeerSends
<1>2. PICK batch \in [1..k -> {m \in Messages : m.late = (sess[s].conn \in welcomed)}] :
          ring' = [ring EXCEPT ![s] = batch]
  BY DEF PeerSends
<1>3. k \in Nat
  BY TypeFacts
<1>4. batch \in Seq(Messages) /\ Len(batch) = k
  BY <1>2, <1>3
<1>5. OtherRings(s) /\ ring'[s] = batch
  BY <1>2, <1>4, TypeFacts DEF OtherRings
<1>6. \A i \in 1..k : batch[i].late <=> sess[s].conn \in welcomed
  BY <1>2
<1>7. OtherRecvs(s) /\ recv'[s] = "data"
  BY <1>1, TypeFacts DEF OtherRecvs
<1> QED
  BY <1>1, <1>3, <1>4, <1>5, <1>6, <1>7, IdleKept, SameSessions

\* A pending receive ends.
LEMMA RecvEndsMoves ==
  ASSUME IInv, NEW s \in Slots, RecvEnds(s)
  PROVE  /\ recv[s] = "posted" /\ OtherRecvs(s) /\ recv'[s] = "end" /\ SameTable
         /\ UNCHANGED <<table, ring, port, lock, maps, me, peers, history, bounds>>
<1>1. /\ recv[s] = "posted" /\ recv' = [recv EXCEPT ![s] = "end"]
      /\ UNCHANGED <<table, ring, port, lock, maps, me, peers, history, bounds>>
  BY DEF RecvEnds
<1>2. OtherRecvs(s) /\ recv'[s] = "end"
  BY <1>1, TypeFacts DEF OtherRecvs
<1>3. SameTable
  BY <1>1, IdleKept, SameSessions
<1> QED
  BY <1>1, <1>2, <1>3

-----------------------------------------------------------------------------
(* The invariant is kept: its parts one by one *)

\* A step is one of these.
LEMMA StepCases ==
  ASSUME [Next]_vars
  PROVE  \/ \E t \in Threads : Accept(t)
         \/ \E t \in Threads : OnClientJoin(t)
         \/ \E t \in Threads : InitCount(t)
         \/ \E t \in Threads : InitOpen(t)
         \/ \E t \in Threads : Post(t)
         \/ \E t \in Threads : PostRecv(t)
         \/ \E t \in Threads : Give(t)
         \/ \E t \in Threads : \E s \in Slots : TakeRecv(t, s)
         \/ \E t \in Threads : NextMessage(t)
         \/ \E t \in Threads : RecvLock(t)
         \/ \E t \in Threads : OnRecv(t)
         \/ \E t \in Threads : Unlock(t)
         \/ \E t \in Threads : \E p \in port : TakeMove(t, p)
         \/ \E t \in Threads : \E p \in port : TakeRelease(t, p)
         \/ \E t \in Threads : \E p \in port : TakeFrame(t, p)
         \/ \E t \in Threads : MoveLock(t)
         \/ \E t \in Threads : SetGroup(t)
         \/ \E t \in Threads : OnIUserMove(t)
         \/ \E t \in Threads : OnClientLeave(t)
         \/ \E t \in Threads : Push(t)
         \/ \E t \in Threads : FrameLock(t)
         \/ \E t \in Threads : SetDC(t)
         \/ \E t \in Threads : Cancel(t)
         \/ \E t \in Threads : \E s \in Slots : Enter(t, s)
         \/ \E g \in Groups : PostFrame(g)
         \/ \E s \in Slots : PeerCloses(s)
         \/ \E s \in Slots : RecvEnds(s)
         \/ \E s \in Slots : \E k \in 1..MaxMsg : PeerSends(s, k)
         \/ UNCHANGED vars
<1>1. CASE Next
  BY <1>1 DEF Next, Work
<1> QED
  BY <1>1

\* The type invariant, with the sets of records named.
Typed ==
    /\ sess \in [Slots -> SessRec] /\ free \subseteq Slots
    /\ recv \in [Slots -> {"none", "posted", "data", "end"}] /\ ring \in [Slots -> Seq(Messages)]
    /\ port \subseteq Packets /\ lock \in [Groups -> LockRec] /\ me \in [Threads -> WorkRec]
    /\ nonUser \subseteq Conns /\ echoUser \in [Conns -> Users \cup {None}] /\ inUse \subseteq Users
    /\ accepted \in 0..MaxConn /\ closes \in 0..MaxClose /\ frames \in 0..MaxFrame
    /\ sent \in 0..MaxMsg /\ logins \in [Conns -> 0..MaxMsg]
    /\ gone \subseteq Conns /\ welcomed \subseteq Conns /\ left \subseteq Conns

\* It is the type invariant.
LEMMA TypedIsTypeOK ==
  Typed <=> TypeOK
  BY DEF Typed, TypeOK, SessRec, LockRec, WorkRec


\* Every step keeps the types.
LEMMA TypedStep ==
  ASSUME IInv, NoScan, [Next]_vars
  PROVE  Typed'
<1>0. Typed
  BY TypedIsTypeOK DEF IInv
<1>b. MaxConn \in Nat /\ MaxMsg \in Nat /\ MaxClose \in Nat /\ MaxFrame \in Nat
  BY Bounds
<1>1. ASSUME NEW t \in Threads, Accept(t) PROVE Typed'
  <2>1. accepted' \in 0..MaxConn
    BY <1>1, <1>b, AcceptMoves DEF Conns
  <2> QED
    BY <1>1, <1>0, <2>1, AcceptMoves DEF Typed, Begun, Others, OtherSlots, OtherRings
<1>1a. ASSUME NEW t \in Threads, InitCount(t) PROVE Typed'
  BY <1>1a, InitCountMoves, <1>0
     DEF Typed, Begun, Moves, Rests, Others, SameTable, SameSlots, OtherSlots, OtherRings, OtherRecvs, Takes
<1>1b. ASSUME NEW t \in Threads, InitOpen(t) PROVE Typed'
  BY <1>1b, InitOpenMoves, <1>0
     DEF Typed, Begun, Moves, Rests, Others, SameTable, SameSlots, OtherSlots, OtherRings, OtherRecvs, Takes
<1>2. ASSUME NEW t \in Threads, OnClientJoin(t) PROVE Typed'
  <2>1. Conn(t) \in Conns
    BY <1>2, OnClientJoinMoves, OwnSlot
  <2> QED
    BY <1>2, <1>0, <2>1, OnClientJoinMoves DEF Typed, Moves, Others, SameTable, SameSlots, Takes
<1>3a. ASSUME NEW t \in Threads, Post(t) PROVE Typed'
  BY <1>3a, PostMoves, <1>0
     DEF Typed, Begun, Moves, Rests, Others, SameTable, SameSlots, OtherSlots, OtherRings, OtherRecvs, Takes
<1>3. ASSUME NEW t \in Threads, PostRecv(t) PROVE Typed'
  BY <1>3, PostRecvMoves, <1>0
     DEF Typed, Begun, Moves, Rests, Others, SameTable, SameSlots, OtherSlots, OtherRings, OtherRecvs, Takes
<1>4. ASSUME NEW t \in Threads, Give(t) PROVE Typed'
  <2>1. [kind |-> "release", slot |-> me[t].slot] \in Packets
    BY <1>4, GiveMoves DEF Packets
  <2> QED
    BY <1>4, <1>0, <2>1, GiveMoves DEF Typed, Rests, Others, OtherSlots
<1>5. ASSUME NEW t \in Threads, NEW s \in Slots, TakeRecv(t, s) PROVE Typed'
  BY <1>5, TakeRecvMoves, <1>0
     DEF Typed, Begun, Moves, Rests, Others, SameTable, SameSlots, OtherSlots, OtherRings, OtherRecvs, Takes
<1>6. ASSUME NEW t \in Threads, NextMessage(t) PROVE Typed'
  BY <1>6, NextMessageMoves, <1>0
     DEF Typed, Begun, Moves, Rests, Others, SameTable, SameSlots, OtherSlots, OtherRings, OtherRecvs, Takes
<1>7. ASSUME NEW t \in Threads, RecvLock(t) PROVE Typed'
  BY <1>7, RecvLockMoves, <1>0
     DEF Typed, Begun, Moves, Rests, Others, SameTable, SameSlots, OtherSlots, OtherRings, OtherRecvs, Takes
<1>8. ASSUME NEW t \in Threads, OnRecv(t) PROVE Typed'
  <2> DEFINE s == me[t].slot
  <2>1. Conn(t) \in Conns
    BY <1>8, OnRecvMoves, OwnSlot
  <2>2. sess' \in [Slots -> SessRec] /\ ring' \in [Slots -> Seq(Messages)] /\ me' \in [Threads -> WorkRec]
        /\ UNCHANGED <<free, recv, lock, echoUser, peers, left, bounds>>
    BY <1>8, OnRecvMoves DEF Moves, Others, SameSlots, OtherSlots, OtherRings
  <2>3. CASE UNCHANGED <<port, nonUser, inUse, logins>>
    BY <1>0, <2>2, <2>3 DEF Typed
  <2>4. ASSUME NEW u \in Users \ inUse,
               port' = port \cup {[kind |-> "move", slot |-> s, conn |-> Conn(t), user |-> u]},
               inUse' = inUse \cup {u}, nonUser' = nonUser \ {Conn(t)},
               logins' = [logins EXCEPT ![Conn(t)] = @ + 1]
        PROVE  Typed'
    <3>1. s \in Slots
      BY <1>8, OnRecvMoves
    <3>2. [kind |-> "move", slot |-> s, conn |-> Conn(t), user |-> u] \in Packets
      BY <2>1, <3>1 DEF Packets
    <3>3. logins[Conn(t)] + 1 \in 0..MaxMsg
      <4>1. ring[s] \in Seq(Messages) /\ ring[s] # <<>> /\ sess[s].conn # 0
        BY <1>8, <2>1, <3>1, OnRecvMoves, TypeFacts
      <4>2. logins[Conn(t)] + Len(ring[s]) <= sent
        BY <3>1, <4>1, TypeFacts DEF LoginsCome
      <4>3. Len(ring[s]) \in Nat /\ Len(ring[s]) > 0
        BY <4>1
      <4>4. logins[Conn(t)] \in Nat /\ sent \in Nat /\ sent <= MaxMsg /\ MaxMsg \in Nat
        BY <1>b, <1>0, <2>1 DEF Typed
      <4> QED
        BY <4>2, <4>3, <4>4
    <3>4. logins' \in [Conns -> 0..MaxMsg]
      <4>1. logins \in [Conns -> 0..MaxMsg]
        BY <1>0 DEF Typed
      <4> QED
        BY <2>1, <2>4, <3>3, <4>1
    <3> QED
      BY <1>0, <2>1, <2>2, <2>4, <3>2, <3>4 DEF Typed
  <2>5. CASE ~UNCHANGED <<port, nonUser, inUse, logins>>
    <3>1. PICK u \in Users \ inUse :
              /\ port' = port \cup {[kind |-> "move", slot |-> s, conn |-> Conn(t), user |-> u]}
              /\ inUse' = inUse \cup {u} /\ nonUser' = nonUser \ {Conn(t)}
              /\ logins' = [logins EXCEPT ![Conn(t)] = @ + 1]
      BY <1>8, <2>5, OnRecvMoves
    <3> QED
      BY <2>4, <3>1
  <2> QED
    BY <2>3, <2>5
<1>9. ASSUME NEW t \in Threads, Unlock(t) PROVE Typed'
  BY <1>9, UnlockMoves, <1>0
     DEF Typed, Begun, Moves, Rests, Others, SameTable, SameSlots, OtherSlots, OtherRings, OtherRecvs, Takes
<1>10. ASSUME NEW t \in Threads, NEW p \in port, TakeMove(t, p) PROVE Typed'
  BY <1>10, TakeMoveMoves, <1>0
     DEF Typed, Begun, Moves, Rests, Others, SameTable, SameSlots, OtherSlots, OtherRings, OtherRecvs, Takes
<1>11. ASSUME NEW t \in Threads, NEW p \in port, TakeRelease(t, p) PROVE Typed'
  BY <1>11, TakeReleaseMoves, <1>0
     DEF Typed, Begun, Moves, Rests, Others, SameTable, SameSlots, OtherSlots, OtherRings, OtherRecvs, Takes
<1>12. ASSUME NEW t \in Threads, NEW p \in port, TakeFrame(t, p) PROVE Typed'
  BY <1>12, TakeFrameMoves, <1>0
     DEF Typed, Begun, Moves, Rests, Others, SameTable, SameSlots, OtherSlots, OtherRings, OtherRecvs, Takes
<1>13. ASSUME NEW t \in Threads, MoveLock(t) PROVE Typed'
  BY <1>13, MoveLockMoves, <1>0
     DEF Typed, Begun, Moves, Rests, Others, SameTable, SameSlots, OtherSlots, OtherRings, OtherRecvs, Takes
<1>14. ASSUME NEW t \in Threads, SetGroup(t) PROVE Typed'
  BY <1>14, SetGroupMoves, <1>0
     DEF Typed, Begun, Moves, Rests, Others, SameTable, SameSlots, OtherSlots, OtherRings, OtherRecvs, Takes
<1>15. ASSUME NEW t \in Threads, OnIUserMove(t) PROVE Typed'
  BY <1>15, OnIUserMoveMoves, <1>0
     DEF Typed, Begun, Moves, Rests, Others, SameTable, SameSlots, OtherSlots, OtherRings, OtherRecvs, Takes
<1>16. ASSUME NEW t \in Threads, OnClientLeave(t) PROVE Typed'
  <2>1. Conn(t) \in Conns /\ SameTable /\ Moves(t, "unlock") /\ lock' \in [Groups -> LockRec]
        /\ left' = left \cup {Conn(t)} /\ UNCHANGED <<table, io, port, peers, logins, bounds>>
    BY <1>16, OnClientLeaveMoves DEF Takes
  <2>2. nonUser' \subseteq Conns /\ inUse' \subseteq Users /\ echoUser' \in [Conns -> Users \cup {None}]
    BY <1>16, <1>0, OnClientLeaveMoves DEF Typed
  <2> QED
    BY <1>0, <2>1, <2>2 DEF Typed, Moves, Others, SameTable, SameSlots
<1>17. ASSUME NEW t \in Threads, Push(t) PROVE Typed'
  BY <1>17, PushMoves, <1>0
     DEF Typed, Begun, Moves, Rests, Others, SameTable, SameSlots, OtherSlots, OtherRings, OtherRecvs, Takes
<1>18. ASSUME NEW t \in Threads, FrameLock(t) PROVE Typed'
  BY <1>18, FrameLockMoves, <1>0
     DEF Typed, Begun, Moves, Rests, Others, SameTable, SameSlots, OtherSlots, OtherRings, OtherRecvs, Takes
<1>19. ASSUME NEW t \in Threads, SetDC(t) PROVE Typed'
  BY <1>19, SetDCMoves, <1>0
     DEF Typed, Begun, Moves, Rests, Others, SameTable, SameSlots, OtherSlots, OtherRings, OtherRecvs, Takes
<1>20. ASSUME NEW t \in Threads, Cancel(t) PROVE Typed'
  BY <1>20, CancelMoves, <1>0
     DEF Typed, Begun, Moves, Rests, Others, SameTable, SameSlots, OtherSlots, OtherRings, OtherRecvs, Takes
<1>21. ASSUME NEW t \in Threads, NEW s \in Slots, Enter(t, s) PROVE Typed'
  <2>1. closes' \in 0..MaxClose
    BY <1>21, <1>0, <1>b, EnterMoves DEF Typed
  <2> QED
    BY <1>21, <1>0, <2>1, EnterMoves DEF Typed, Begun, Others, OtherSlots
<1>22. ASSUME NEW g \in Groups, PostFrame(g) PROVE Typed'
  <2>1. [kind |-> "frame", group |-> g] \in Packets
    BY DEF Packets
  <2>2. frames' \in 0..MaxFrame
    BY <1>22, <1>0, <1>b DEF PostFrame, Typed
  <2> QED
    BY <1>22, <1>0, <2>1, <2>2 DEF Typed, PostFrame
<1>23. ASSUME NEW s \in Slots, PeerCloses(s) PROVE Typed'
  <2>1. sess[s].conn \in Conns
    BY <1>23, <1>0, <1>b DEF Typed, PeerCloses, SessRec, Conns
  <2> QED
    BY <1>23, <1>0, <2>1 DEF Typed, PeerCloses
<1>24. ASSUME NEW s \in Slots, RecvEnds(s) PROVE Typed'
  BY <1>24, RecvEndsMoves, <1>0
     DEF Typed, Begun, Moves, Rests, Others, SameTable, SameSlots, OtherSlots, OtherRings, OtherRecvs, Takes
<1>25. ASSUME NEW s \in Slots, NEW k \in 1..MaxMsg, PeerSends(s, k) PROVE Typed'
  <2>1. sent' \in 0..MaxMsg
    BY <1>25, <1>0, <1>b, PeerSendsMoves DEF Typed
  <2> QED
    BY <1>25, <1>0, <2>1, PeerSendsMoves DEF Typed, OtherRings, OtherRecvs
<1>26. ASSUME UNCHANGED vars PROVE Typed'
  BY <1>26, <1>0 DEF Typed
<1> QED
  BY <1>1, <1>1a, <1>1b, <1>2, <1>3a, <1>3, <1>4, <1>5, <1>6, <1>7, <1>8, <1>9, <1>10, <1>11, <1>12, <1>13, <1>14,
     <1>15, <1>16, <1>17, <1>18, <1>19, <1>20, <1>21, <1>22, <1>23, <1>24, <1>25, <1>26,
     StepCases

\* Only the thread that takes a step changes its work.
LEMMA OneRole ==
  ASSUME Roles, NEW t \in Threads, Others(t), Role(t)'
  PROVE  Roles'
<1> SUFFICES ASSUME NEW u \in Threads PROVE Role(u)'
  BY DEF Roles
<1>1. CASE u # t
  <2>1. me'[u] = me[u] /\ Role(u)
    BY <1>1 DEF Others, Roles
  <2> QED
    BY <2>1 DEF Role
<1> QED
  BY <1>1

\* A thread goes through the places of its work, and keeps its slot.
LEMMA RolesStep ==
  ASSUME IInv, NoScan, [Next]_vars
  PROVE  Roles'
<1>0. Roles /\ \A t \in Threads : Role(t)
  BY TypeFacts DEF Roles
<1>b. /\ None \notin Slots /\ Acceptor \in Threads /\ Closer \in Threads /\ free \subseteq Slots
      /\ Workers \subseteq Threads
  BY TypeFacts
<1>1. ASSUME NEW t \in Threads, Accept(t) PROVE Roles'
  <2>1. Others(t) /\ Role(t)
    BY <1>1, <1>0, AcceptMoves DEF Begun
  <2>2. Role(t)'
    BY <1>1, <1>b, <2>1, AcceptMoves
       DEF Begun, Role
  <2> QED
    BY <1>0, <2>1, <2>2, OneRole
<1>1a. ASSUME NEW t \in Threads, InitCount(t) PROVE Roles'
  <2>1. Others(t) /\ Role(t)
    BY <1>1a, <1>0, InitCountMoves DEF Moves
  <2>2. Role(t)'
    BY <1>1a, <1>b, <2>1, InitCountMoves
       DEF Moves, SameWork, Role
  <2> QED
    BY <1>0, <2>1, <2>2, OneRole
<1>1b. ASSUME NEW t \in Threads, InitOpen(t) PROVE Roles'
  <2>1. Others(t) /\ Role(t)
    BY <1>1b, <1>0, InitOpenMoves DEF Moves
  <2>2. Role(t)'
    BY <1>1b, <1>b, <2>1, InitOpenMoves
       DEF Moves, SameWork, Role
  <2> QED
    BY <1>0, <2>1, <2>2, OneRole
<1>2. ASSUME NEW t \in Threads, OnClientJoin(t) PROVE Roles'
  <2>1. Others(t) /\ Role(t)
    BY <1>2, <1>0, OnClientJoinMoves DEF Moves
  <2>2. Role(t)'
    BY <1>2, <1>b, <2>1, OnClientJoinMoves
       DEF Moves, SameWork, Role
  <2> QED
    BY <1>0, <2>1, <2>2, OneRole
<1>3a. ASSUME NEW t \in Threads, Post(t) PROVE Roles'
  <2>1. Others(t) /\ Role(t)
    BY <1>3a, <1>0, PostMoves DEF Moves
  <2>2. Role(t)'
    BY <1>3a, <1>b, <2>1, PostMoves
       DEF Moves, SameWork, Role
  <2> QED
    BY <1>0, <2>1, <2>2, OneRole
<1>3. ASSUME NEW t \in Threads, PostRecv(t) PROVE Roles'
  <2>1. Others(t) /\ Role(t)
    BY <1>3, <1>0, PostRecvMoves DEF Moves
  <2>2. Role(t)'
    BY <1>3, <1>b, <2>1, PostRecvMoves
       DEF Moves, SameWork, Role
  <2> QED
    BY <1>0, <2>1, <2>2, OneRole
<1>4. ASSUME NEW t \in Threads, Give(t) PROVE Roles'
  <2>1. Others(t) /\ Role(t)
    BY <1>4, <1>0, GiveMoves DEF Rests
  <2>2. Role(t)'
    BY <1>4, <1>b, <2>1, GiveMoves, IdleWork
       DEF Rests, Role
  <2> QED
    BY <1>0, <2>1, <2>2, OneRole
<1>5. ASSUME NEW t \in Threads, NEW s \in Slots, TakeRecv(t, s) PROVE Roles'
  <2>1. Others(t) /\ Role(t)
    BY <1>5, <1>0, TakeRecvMoves DEF Begun
  <2>2. Role(t)'
    BY <1>5, <1>b, <2>1, TakeRecvMoves
       DEF Begun, Role
  <2> QED
    BY <1>0, <2>1, <2>2, OneRole
<1>6. ASSUME NEW t \in Threads, NextMessage(t) PROVE Roles'
  <2>1. Others(t) /\ Role(t)
    BY <1>6, <1>0, NextMessageMoves
  <2>2. Role(t)'
    BY <1>6, <1>b, <2>1, NextMessageMoves
       DEF Role
  <2> QED
    BY <1>0, <2>1, <2>2, OneRole
<1>7. ASSUME NEW t \in Threads, RecvLock(t) PROVE Roles'
  <2>1. Others(t) /\ Role(t)
    BY <1>7, <1>0, RecvLockMoves DEF Moves
  <2>2. Role(t)'
    BY <1>7, <1>b, <2>1, RecvLockMoves
       DEF Moves, SameWork, Role
  <2> QED
    BY <1>0, <2>1, <2>2, OneRole
<1>8. ASSUME NEW t \in Threads, OnRecv(t) PROVE Roles'
  <2>1. Others(t) /\ Role(t)
    BY <1>8, <1>0, OnRecvMoves DEF Moves
  <2>2. Role(t)'
    BY <1>8, <1>b, <2>1, OnRecvMoves
       DEF Moves, SameWork, Role
  <2> QED
    BY <1>0, <2>1, <2>2, OneRole
<1>9. ASSUME NEW t \in Threads, Unlock(t) PROVE Roles'
  <2>1. Others(t) /\ Role(t)
    BY <1>9, <1>0, UnlockMoves DEF Moves, Rests
  <2>2. Role(t)'
    BY <1>9, <1>b, <2>1, UnlockMoves, IdleWork
       DEF Moves, Rests, SameWork, Role
  <2> QED
    BY <1>0, <2>1, <2>2, OneRole
<1>10. ASSUME NEW t \in Threads, NEW p \in port, TakeMove(t, p) PROVE Roles'
  <2>1. Others(t) /\ Role(t)
    BY <1>10, <1>0, TakeMoveMoves DEF Begun
  <2>2. Role(t)'
    BY <1>10, <1>b, <2>1, TakeMoveMoves, PacketFields
       DEF Begun, Role
  <2> QED
    BY <1>0, <2>1, <2>2, OneRole
<1>11. ASSUME NEW t \in Threads, NEW p \in port, TakeRelease(t, p) PROVE Roles'
  <2>1. Others(t) /\ Role(t)
    BY <1>11, <1>0, TakeReleaseMoves DEF Begun
  <2>2. Role(t)'
    BY <1>11, <1>b, <2>1, TakeReleaseMoves
       DEF Begun, Role
  <2> QED
    BY <1>0, <2>1, <2>2, OneRole
<1>12. ASSUME NEW t \in Threads, NEW p \in port, TakeFrame(t, p) PROVE Roles'
  <2>1. Others(t) /\ Role(t)
    BY <1>12, <1>0, TakeFrameMoves DEF Begun
  <2>2. Role(t)'
    BY <1>12, <1>b, <2>1, TakeFrameMoves
       DEF Begun, Role
  <2> QED
    BY <1>0, <2>1, <2>2, OneRole
<1>13. ASSUME NEW t \in Threads, MoveLock(t) PROVE Roles'
  <2>1. Others(t) /\ Role(t)
    BY <1>13, <1>0, MoveLockMoves DEF Moves
  <2>2. Role(t)'
    BY <1>13, <1>b, <2>1, MoveLockMoves
       DEF Moves, SameWork, Role
  <2> QED
    BY <1>0, <2>1, <2>2, OneRole
<1>14. ASSUME NEW t \in Threads, SetGroup(t) PROVE Roles'
  <2>1. Others(t) /\ Role(t)
    BY <1>14, <1>0, SetGroupMoves DEF Moves
  <2>2. Role(t)'
    BY <1>14, <1>b, <2>1, SetGroupMoves
       DEF Moves, SameWork, Role
  <2> QED
    BY <1>0, <2>1, <2>2, OneRole
<1>15. ASSUME NEW t \in Threads, OnIUserMove(t) PROVE Roles'
  <2>1. Others(t) /\ Role(t)
    BY <1>15, <1>0, OnIUserMoveMoves DEF Moves
  <2>2. Role(t)'
    BY <1>15, <1>b, <2>1, OnIUserMoveMoves
       DEF Moves, SameWork, Role
  <2> QED
    BY <1>0, <2>1, <2>2, OneRole
<1>16. ASSUME NEW t \in Threads, OnClientLeave(t) PROVE Roles'
  <2>1. Others(t) /\ Role(t)
    BY <1>16, <1>0, OnClientLeaveMoves DEF Moves
  <2>2. Role(t)'
    BY <1>16, <1>b, <2>1, OnClientLeaveMoves
       DEF Moves, SameWork, Role
  <2> QED
    BY <1>0, <2>1, <2>2, OneRole
<1>17. ASSUME NEW t \in Threads, Push(t) PROVE Roles'
  <2>1. Others(t) /\ Role(t)
    BY <1>17, <1>0, PushMoves DEF Rests
  <2>2. Role(t)'
    BY <1>17, <1>b, <2>1, PushMoves, IdleWork
       DEF Rests, Role
  <2> QED
    BY <1>0, <2>1, <2>2, OneRole
<1>18. ASSUME NEW t \in Threads, FrameLock(t) PROVE Roles'
  <2>1. Others(t) /\ Role(t)
    BY <1>18, <1>0, FrameLockMoves DEF Moves
  <2>2. Role(t)'
    BY <1>18, <1>b, <2>1, FrameLockMoves
       DEF Moves, SameWork, Role
  <2> QED
    BY <1>0, <2>1, <2>2, OneRole
<1>19. ASSUME NEW t \in Threads, SetDC(t) PROVE Roles'
  <2>1. Others(t) /\ Role(t)
    BY <1>19, <1>0, SetDCMoves DEF Moves
  <2>2. Role(t)'
    BY <1>19, <1>b, <2>1, SetDCMoves
       DEF Moves, SameWork, Role
  <2> QED
    BY <1>0, <2>1, <2>2, OneRole
<1>20. ASSUME NEW t \in Threads, Cancel(t) PROVE Roles'
  <2>1. Others(t) /\ Role(t)
    BY <1>20, <1>0, CancelMoves DEF Moves
  <2>2. Role(t)'
    BY <1>20, <1>b, <2>1, CancelMoves
       DEF Moves, SameWork, Role
  <2> QED
    BY <1>0, <2>1, <2>2, OneRole
<1>21. ASSUME NEW t \in Threads, NEW s \in Slots, Enter(t, s) PROVE Roles'
  <2>1. Others(t) /\ Role(t)
    BY <1>21, <1>0, EnterMoves DEF Begun
  <2>2. Role(t)'
    BY <1>21, <1>b, <2>1, EnterMoves
       DEF Begun, Role
  <2> QED
    BY <1>0, <2>1, <2>2, OneRole
<1>22. ASSUME NEW g \in Groups, PostFrame(g) PROVE Roles'
  BY <1>22, TypeFacts DEF Roles, Role, PostFrame
<1>23. ASSUME NEW s \in Slots, PeerCloses(s) PROVE Roles'
  BY <1>23, TypeFacts DEF Roles, Role, PeerCloses
<1>24. ASSUME NEW s \in Slots, RecvEnds(s) PROVE Roles'
  BY <1>24, RecvEndsMoves, TypeFacts DEF Roles, Role
<1>25. ASSUME NEW s \in Slots, NEW k \in 1..MaxMsg, PeerSends(s, k) PROVE Roles'
  BY <1>25, PeerSendsMoves, TypeFacts DEF Roles, Role
<1>26. ASSUME UNCHANGED vars PROVE Roles'
  BY <1>26, TypeFacts DEF Roles, Role
<1> QED
  BY <1>1, <1>1a, <1>1b, <1>2, <1>3a, <1>3, <1>4, <1>5, <1>6, <1>7, <1>8, <1>9, <1>10, <1>11, <1>12, <1>13, <1>14,
     <1>15, <1>16, <1>17, <1>18, <1>19, <1>20, <1>21, <1>22, <1>23, <1>24, <1>25, <1>26,
     StepCases

-----------------------------------------------------------------------------
(* The reference counts *)

Balanced(s) == Refs[s] = Cardinality(Held(s)) + RecvOf(s) + Cardinality(MovesOf(s))

\* One thread begins or ends to hold a slot, or neither.
LEMMA HeldChange ==
  ASSUME IsFiniteSet(port), NEW t \in Threads, Others(t), NEW s
  PROVE  /\ Holds(t, s)' /\ ~Holds(t, s) => Cardinality(Held(s)') = Cardinality(Held(s)) + 1
         /\ ~Holds(t, s)' /\ Holds(t, s) => Cardinality(Held(s)') = Cardinality(Held(s)) - 1
         /\ (Holds(t, s)' <=> Holds(t, s)) => Cardinality(Held(s)') = Cardinality(Held(s))
<1>1. \A u : u \in Held(s) <=> u \in Threads /\ Holds(u, s)
  BY DEF Held, Holds
<1>2. \A u : u \in Held(s)' <=> u \in Threads /\ Holds(u, s)'
  BY DEF Held, Holds
<1>3. \A u \in Threads : u # t => (Holds(u, s)' <=> Holds(u, s))
  BY DEF Holds, Others
<1>4. IsFiniteSet(Held(s)) /\ Cardinality(Held(s)) \in Nat
  BY HoldersFinite
<1>5. CASE Holds(t, s)' /\ ~Holds(t, s)
  <2>1. Held(s)' = Held(s) \cup {t} /\ t \notin Held(s)
    BY <1>1, <1>2, <1>3, <1>5
  <2> QED
    BY <1>4, <1>5, <2>1, FS_AddElement
<1>6. CASE ~Holds(t, s)' /\ Holds(t, s)
  <2>1. Held(s)' = Held(s) \ {t} /\ t \in Held(s)
    BY <1>1, <1>2, <1>3, <1>6
  <2> QED
    BY <1>4, <1>6, <2>1, FS_RemoveElement
<1>7. CASE Holds(t, s)' <=> Holds(t, s)
  <2>1. Held(s)' = Held(s)
    BY <1>1, <1>2, <1>3, <1>7
  <2> QED
    BY <1>7, <2>1
<1> QED
  BY <1>5, <1>6, <1>7

\* A packet that is no move leaves the moves of a slot as they are.
LEMMA MovesSame ==
  ASSUME \A q : q.kind = "move" => (q \in port' <=> q \in port), NEW s
  PROVE  MovesOf(s)' = MovesOf(s)
<1>1. \A q : q \in MovesOf(s) <=> q \in port /\ q.kind = "move" /\ q.slot = s
  BY DEF MovesOf
<1>2. \A q : q \in MovesOf(s)' <=> q \in port' /\ q.kind = "move" /\ q.slot = s
  BY DEF MovesOf
<1> QED
  BY <1>1, <1>2

\* A new move is one of its slot.
LEMMA MovesMore ==
  ASSUME IsFiniteSet(port), NEW p, p \notin port, p.kind = "move", port' = port \cup {p}, NEW s
  PROVE  Cardinality(MovesOf(s)') = Cardinality(MovesOf(s)) + (IF s = p.slot THEN 1 ELSE 0)
<1>1. CASE s = p.slot
  <2>1. MovesOf(s)' = MovesOf(s) \cup {p} /\ p \notin MovesOf(s)
    BY <1>1 DEF MovesOf
  <2> QED
    BY <1>1, <2>1, HoldersFinite, FS_AddElement
<1>2. CASE s # p.slot
  <2>1. MovesOf(s)' = MovesOf(s)
    BY <1>2 DEF MovesOf
  <2> QED
    BY <1>2, <2>1, HoldersFinite
<1> QED
  BY <1>1, <1>2

\* A move that is taken is one less of its slot.
LEMMA MovesLess ==
  ASSUME IsFiniteSet(port), NEW p \in port, p.kind = "move", port' = port \ {p}, NEW s
  PROVE  Cardinality(MovesOf(s)') = Cardinality(MovesOf(s)) - (IF s = p.slot THEN 1 ELSE 0)
<1>1. CASE s = p.slot
  <2>1. MovesOf(s)' = MovesOf(s) \ {p} /\ p \in MovesOf(s)
    BY <1>1 DEF MovesOf
  <2> QED
    BY <1>1, <2>1, HoldersFinite, FS_RemoveElement
<1>2. CASE s # p.slot
  <2>1. MovesOf(s)' = MovesOf(s)
    BY <1>2 DEF MovesOf
  <2> QED
    BY <1>2, <2>1, HoldersFinite
<1> QED
  BY <1>1, <1>2

\* Nobody takes or gives back a reference.
LEMMA QuietStep ==
  ASSUME IInv, NEW t \in Threads, Others(t), me'[t].slot = me[t].slot, me'[t].job = me[t].job,
         \A r \in Slots : Refs'[r] = Refs[r],
         \A r \in Slots : RecvOf(r)' = RecvOf(r), port' = port
  PROVE  RefCounted'
<1>1. IsFiniteSet(port) /\ \A r \in Slots : Balanced(r)
  BY TypeFacts DEF RefCounted, Balanced
<1>2. ASSUME NEW r \in Slots PROVE Balanced(r)'
  <2>1. Holds(t, r)' <=> Holds(t, r)
    BY DEF Holds
  <2>2. Cardinality(Held(r)') = Cardinality(Held(r))
    BY <1>1, <2>1, HeldChange
  <2>3. MovesOf(r)' = MovesOf(r)
    BY DEF MovesOf
  <2> QED
    BY <1>1, <2>2, <2>3 DEF Balanced
<1> QED
  BY <1>1, <1>2 DEF RefCounted, Balanced


\* Every reference that is taken is given back, on every path.
LEMMA RefStep ==
  ASSUME IInv, NoScan, [Next]_vars
  PROVE  RefCounted'
<1>0. /\ IsFiniteSet(port) /\ \A r \in Slots : Balanced(r)
      /\ None \notin Slots /\ \A r \in Slots : Refs[r] \in Nat
      /\ OneReceive /\ UserOnce
  BY TypeFacts DEF RefCounted, Balanced, SessRec
<1>1. ASSUME NEW t \in Threads, Accept(t) PROVE RefCounted'
  <2>a. PICK s \in free :
           /\ s \in Slots /\ Begun(t, "named", s, "accept")
           /\ OtherSlots(s) /\ Refs'[s] = 1 /\ recv' = recv /\ port' = port
    BY <1>1, AcceptMoves
  <2>b. IsFiniteSet(port')
    BY <1>0, <2>a
  <2>c. ASSUME NEW r \in Slots PROVE Balanced(r)'
    <3>1. Others(t) /\ ~Holds(t, r) /\ (Holds(t, r)' <=> r = s)
      BY <2>a, <1>0 DEF Begun, Holds
    <3>2. MovesOf(r)' = MovesOf(r) /\ RecvOf(r)' = RecvOf(r)
      BY <2>a DEF MovesOf, RecvOf
    <3>3. Cardinality(Held(r)') = Cardinality(Held(r)) + (IF r = s THEN 1 ELSE 0)
      BY <1>0, <3>1, HeldChange, HoldersFinite
    <3>4. r = s => Refs[r] = 0
      BY <1>0, <2>a, SlotKept
    <3>5. r # s => Refs'[r] = Refs[r]
      BY <2>a DEF OtherSlots, SameSlot
    <3>6. RecvOf(r) \in Nat /\ Cardinality(Held(r)) \in Nat /\ Cardinality(MovesOf(r)) \in Nat
      BY <1>0, HoldersFinite DEF RecvOf
    <3>7. r = s => Cardinality(Held(r)) = 0 /\ Cardinality(MovesOf(r)) = 0 /\ RecvOf(r) = 0
      BY <1>0, <3>4, <3>6 DEF Balanced
    <3>8. r = s => Balanced(r)'
      <4>1. r = s => Refs'[r] = 1 /\ RecvOf(r)' = 0 /\ Cardinality(MovesOf(r)') = 0
        BY <2>a, <3>2, <3>7
      <4>2. r = s => Cardinality(Held(r)') = 1
        BY <3>3, <3>7
      <4> QED
        BY <4>1, <4>2 DEF Balanced
    <3> QED
      BY <1>0, <3>2, <3>3, <3>5, <3>6, <3>8 DEF Balanced
  <2> QED
    BY <2>b, <2>c DEF RefCounted, Balanced
<1>1a. ASSUME NEW t \in Threads, InitCount(t) PROVE RefCounted'
  <2>1. /\ Others(t) /\ me'[t].slot = me[t].slot /\ me'[t].job = me[t].job /\ recv' = recv /\ port' = port
        /\ \A r \in Slots : Refs'[r] = Refs[r]
    BY <1>1a, InitCountMoves DEF Moves, SameWork, SameTable, SameSlots, OtherSlots, SameSlot
  <2>2. \A r \in Slots : RecvOf(r)' = RecvOf(r)
    BY <2>1 DEF RecvOf
  <2> QED
    BY <2>1, <2>2, QuietStep
<1>1b. ASSUME NEW t \in Threads, InitOpen(t) PROVE RefCounted'
  <2>1. /\ Others(t) /\ me'[t].slot = me[t].slot /\ me'[t].job = me[t].job /\ recv' = recv /\ port' = port
        /\ \A r \in Slots : Refs'[r] = Refs[r]
    BY <1>1b, InitOpenMoves DEF Moves, SameWork, SameTable, SameSlots, OtherSlots, SameSlot
  <2>2. \A r \in Slots : RecvOf(r)' = RecvOf(r)
    BY <2>1 DEF RecvOf
  <2> QED
    BY <2>1, <2>2, QuietStep
<1>2. ASSUME NEW t \in Threads, OnClientJoin(t) PROVE RefCounted'
  <2>1. /\ Others(t) /\ me'[t].slot = me[t].slot /\ me'[t].job = me[t].job /\ recv' = recv /\ port' = port
        /\ \A r \in Slots : Refs'[r] = Refs[r]
    BY <1>2, OnClientJoinMoves DEF Moves, SameWork, SameTable, SameSlots, OtherSlots, SameSlot
  <2>2. \A r \in Slots : RecvOf(r)' = RecvOf(r)
    BY <2>1 DEF RecvOf
  <2> QED
    BY <2>1, <2>2, QuietStep
<1>3a. ASSUME NEW t \in Threads, Post(t) PROVE RefCounted'
  <2>1. /\ Others(t) /\ me'[t].slot = me[t].slot /\ me'[t].job = me[t].job /\ recv' = recv /\ port' = port
        /\ \A r \in Slots : Refs'[r] = Refs[r]
    BY <1>3a, PostMoves DEF Moves, SameWork, SameTable, SameSlots, OtherSlots, SameSlot
  <2>2. \A r \in Slots : RecvOf(r)' = RecvOf(r)
    BY <2>1 DEF RecvOf
  <2> QED
    BY <2>1, <2>2, QuietStep
<1>3. ASSUME NEW t \in Threads, PostRecv(t) PROVE RefCounted'
  <2>a. /\ me[t].pc = "wsa" /\ me[t].job \in {"accept", "recv"} /\ Moves(t, "give") /\ me[t].slot \in Slots
        /\ port' = port
    BY <1>3, PostRecvMoves
  <2>1. Others(t) /\ me'[t].slot = me[t].slot /\ me'[t].job = me[t].job
    BY <2>a DEF Moves, SameWork
  <2>2. CASE SameSlots /\ recv' = recv
    <3>1. \A r \in Slots : Refs'[r] = Refs[r] /\ RecvOf(r)' = RecvOf(r)
      BY <2>2 DEF SameSlots, SameSlot, RecvOf
    <3> QED
      BY <2>a, <2>1, <3>1, QuietStep
  <2>3. CASE /\ OtherSlots(me[t].slot) /\ Refs'[me[t].slot] = Refs[me[t].slot] + 1
             /\ OtherRecvs(me[t].slot) /\ recv'[me[t].slot] = "posted"
    <3>1. recv[me[t].slot] = "none"
      BY <1>0, <2>a DEF OneReceive, Receiving
    <3>2. ASSUME NEW r \in Slots PROVE Balanced(r)'
      <4>1. Holds(t, r)' <=> Holds(t, r)
        BY <2>1 DEF Holds
      <4>2. Cardinality(Held(r)') = Cardinality(Held(r)) /\ MovesOf(r)' = MovesOf(r)
        BY <1>0, <2>a, <2>1, <4>1, HeldChange DEF MovesOf
      <4>3. RecvOf(r)' = RecvOf(r) + (IF r = me[t].slot THEN 1 ELSE 0)
        BY <2>3, <3>1 DEF RecvOf, OtherRecvs
      <4>4. Refs'[r] = Refs[r] + (IF r = me[t].slot THEN 1 ELSE 0)
        BY <1>0, <2>3 DEF OtherSlots, SameSlot
      <4>5. RecvOf(r) \in Nat /\ Cardinality(Held(r)) \in Nat /\ Cardinality(MovesOf(r)) \in Nat
        BY <1>0, HoldersFinite DEF RecvOf
      <4> QED
        BY <1>0, <4>2, <4>3, <4>4, <4>5 DEF Balanced
    <3> QED
      BY <1>0, <2>a, <3>2 DEF RefCounted, Balanced
  <2> QED
    BY <1>3, <2>2, <2>3, PostRecvMoves
<1>4. ASSUME NEW t \in Threads, Give(t) PROVE RefCounted'
  <2>a. /\ me[t].job # "release" /\ Rests(t) /\ me[t].slot \in Slots /\ OtherSlots(me[t].slot)
        /\ Refs'[me[t].slot] = Refs[me[t].slot] - 1 /\ recv' = recv
        /\ port' = port \/ port' = port \cup {[kind |-> "release", slot |-> me[t].slot]}
        /\ \A q : q.kind = "move" => (q \in port' <=> q \in port)
    BY <1>4, GiveMoves
  <2>b. IsFiniteSet(port')
    <3>1. CASE port' = port
      BY <1>0, <3>1
    <3>2. CASE port' = port \cup {[kind |-> "release", slot |-> me[t].slot]}
      BY <1>0, <3>2, FS_AddElement
    <3> QED
      BY <2>a, <3>1, <3>2
  <2>c. ASSUME NEW r \in Slots PROVE Balanced(r)'
    <3>1. Others(t) /\ ~Holds(t, r)' /\ (Holds(t, r) <=> r = me[t].slot)
      BY <1>0, <2>a, IdleWork DEF Rests, Holds
    <3>2. MovesOf(r)' = MovesOf(r)
      BY <2>a, MovesSame
    <3>3. Cardinality(Held(r)') = Cardinality(Held(r)) - (IF r = me[t].slot THEN 1 ELSE 0)
      BY <1>0, <3>1, HeldChange, HoldersFinite
    <3>4. Refs'[r] = Refs[r] - (IF r = me[t].slot THEN 1 ELSE 0)
      BY <1>0, <2>a DEF OtherSlots, SameSlot
    <3>5. RecvOf(r)' = RecvOf(r) /\ RecvOf(r) \in Nat /\ Cardinality(Held(r)) \in Nat
          /\ Cardinality(MovesOf(r)) \in Nat
      BY <1>0, <2>a, HoldersFinite DEF RecvOf
    <3> QED
      BY <1>0, <3>2, <3>3, <3>4, <3>5 DEF Balanced
  <2> QED
    BY <2>b, <2>c DEF RefCounted, Balanced
<1>5. ASSUME NEW t \in Threads, NEW s \in Slots, TakeRecv(t, s) PROVE RefCounted'
  <2>a. /\ recv[s] # "none" /\ Begun(t, "next", s, "recv") /\ SameSlots /\ OtherRecvs(s) /\ recv'[s] = "none"
        /\ port' = port
    BY <1>5, TakeRecvMoves
  <2>b. IsFiniteSet(port')
    BY <1>0, <2>a
  <2>c. ASSUME NEW r \in Slots PROVE Balanced(r)'
    <3>1. Others(t) /\ ~Holds(t, r) /\ (Holds(t, r)' <=> r = s)
      BY <2>a, <1>0 DEF Begun, Holds
    <3>2. MovesOf(r)' = MovesOf(r) /\ Refs'[r] = Refs[r]
      BY <2>a DEF MovesOf, SameSlots, SameSlot
    <3>3. Cardinality(Held(r)') = Cardinality(Held(r)) + (IF r = s THEN 1 ELSE 0)
      BY <1>0, <3>1, HeldChange, HoldersFinite
    <3>4. RecvOf(r)' = RecvOf(r) - (IF r = s THEN 1 ELSE 0)
      BY <2>a DEF RecvOf, OtherRecvs
    <3>5. RecvOf(r) \in Nat /\ Cardinality(Held(r)) \in Nat /\ Cardinality(MovesOf(r)) \in Nat
      BY <1>0, HoldersFinite DEF RecvOf
    <3> QED
      BY <1>0, <3>2, <3>3, <3>4, <3>5 DEF Balanced
  <2> QED
    BY <2>b, <2>c DEF RefCounted, Balanced
<1>6. ASSUME NEW t \in Threads, NextMessage(t) PROVE RefCounted'
  <2>1. /\ Others(t) /\ me'[t].slot = me[t].slot /\ me'[t].job = me[t].job /\ recv' = recv /\ port' = port
        /\ \A r \in Slots : Refs'[r] = Refs[r]
    BY <1>6, NextMessageMoves DEF Moves, SameWork, SameTable, SameSlots, OtherSlots, SameSlot
  <2>2. \A r \in Slots : RecvOf(r)' = RecvOf(r)
    BY <2>1 DEF RecvOf
  <2> QED
    BY <2>1, <2>2, QuietStep
<1>7. ASSUME NEW t \in Threads, RecvLock(t) PROVE RefCounted'
  <2>1. /\ Others(t) /\ me'[t].slot = me[t].slot /\ me'[t].job = me[t].job /\ recv' = recv /\ port' = port
        /\ \A r \in Slots : Refs'[r] = Refs[r]
    BY <1>7, RecvLockMoves DEF Moves, SameWork, SameTable, SameSlots, OtherSlots, SameSlot
  <2>2. \A r \in Slots : RecvOf(r)' = RecvOf(r)
    BY <2>1 DEF RecvOf
  <2> QED
    BY <2>1, <2>2, QuietStep
<1>8. ASSUME NEW t \in Threads, OnRecv(t) PROVE RefCounted'
  <2>a. /\ me[t].job = "recv" /\ Moves(t, "unlock") /\ me[t].slot \in Slots /\ recv' = recv
    BY <1>8, OnRecvMoves
  <2>1. Others(t) /\ me'[t].slot = me[t].slot /\ me'[t].job = me[t].job
    BY <2>a DEF Moves, SameWork
  <2>2. CASE SameSlots /\ port' = port
    <3>1. \A r \in Slots : Refs'[r] = Refs[r] /\ RecvOf(r)' = RecvOf(r)
      BY <2>a, <2>2 DEF SameSlots, SameSlot, RecvOf
    <3> QED
      BY <2>a, <2>1, <2>2, <3>1, QuietStep
  <2>3. ASSUME NEW u \in Users \ inUse, OtherSlots(me[t].slot),
               Refs'[me[t].slot] = Refs[me[t].slot] + 1,
               port' = port \cup {[kind |-> "move", slot |-> me[t].slot, conn |-> Conn(t), user |-> u]}
        PROVE  RefCounted'
    <3> DEFINE p == [kind |-> "move", slot |-> me[t].slot, conn |-> Conn(t), user |-> u]
    <3>1. p.kind = "move" /\ p.user = u /\ p.slot = me[t].slot /\ port' = port \cup {p}
      BY <2>3
    <3> HIDE DEF p
    <3>2. p \notin port
      BY <1>0, <3>1 DEF UserOnce
    <3>3. IsFiniteSet(port')
      BY <1>0, <3>1, FS_AddElement
    <3>4. ASSUME NEW r \in Slots PROVE Balanced(r)'
      <4>1. Holds(t, r)' <=> Holds(t, r)
        BY <2>1 DEF Holds
      <4>2. Cardinality(Held(r)') = Cardinality(Held(r)) /\ RecvOf(r)' = RecvOf(r)
        BY <1>0, <2>a, <2>1, <4>1, HeldChange DEF RecvOf
      <4>3. Cardinality(MovesOf(r)') = Cardinality(MovesOf(r)) + (IF r = me[t].slot THEN 1 ELSE 0)
        BY <1>0, <3>1, <3>2, MovesMore
      <4>4. Refs'[r] = Refs[r] + (IF r = me[t].slot THEN 1 ELSE 0)
        BY <1>0, <2>3 DEF OtherSlots, SameSlot
      <4>5. RecvOf(r) \in Nat /\ Cardinality(Held(r)) \in Nat /\ Cardinality(MovesOf(r)) \in Nat
        BY <1>0, HoldersFinite DEF RecvOf
      <4> QED
        BY <1>0, <4>2, <4>3, <4>4, <4>5 DEF Balanced
    <3> QED
      BY <3>3, <3>4 DEF RefCounted, Balanced
  <2> QED
    BY <1>8, <2>2, <2>3, OnRecvMoves
<1>9. ASSUME NEW t \in Threads, Unlock(t) PROVE RefCounted'
  <2>a. SameTable /\ recv' = recv /\ port' = port
    BY <1>9, UnlockMoves
  <2>1. \A r \in Slots : Refs'[r] = Refs[r] /\ RecvOf(r)' = RecvOf(r)
    BY <2>a, TableKept DEF RecvOf
  <2>2. CASE \E place : Moves(t, place)
    BY <2>a, <2>1, <2>2, QuietStep DEF Moves, SameWork
  <2>3. CASE me[t].slot = None /\ Rests(t)
    <3>1. ASSUME NEW r \in Slots PROVE Balanced(r)'
      <4>1. Others(t) /\ (Holds(t, r)' <=> Holds(t, r))
        BY <1>0, <2>3, IdleWork DEF Rests, Holds
      <4>2. Cardinality(Held(r)') = Cardinality(Held(r)) /\ MovesOf(r)' = MovesOf(r)
        BY <1>0, <2>a, <4>1, HeldChange DEF MovesOf
      <4> QED
        BY <1>0, <2>1, <4>2 DEF Balanced
    <3> QED
      BY <1>0, <2>a, <3>1 DEF RefCounted, Balanced
  <2> QED
    BY <1>9, <2>2, <2>3, UnlockMoves
<1>10. ASSUME NEW t \in Threads, NEW p \in port, TakeMove(t, p) PROVE RefCounted'
  <2>a. /\ p.kind = "move" /\ port' = port \ {p} /\ SameTable /\ p.slot \in Slots /\ recv' = recv
        /\ Begun(t, "lock", p.slot, "move")
    BY <1>10, TakeMoveMoves
  <2>b. IsFiniteSet(port')
    BY <1>0, <2>a, FS_RemoveElement
  <2>c. ASSUME NEW r \in Slots PROVE Balanced(r)'
    <3>1. Others(t) /\ ~Holds(t, r) /\ (Holds(t, r)' <=> r = p.slot)
      BY <2>a, <1>0 DEF Begun, Holds
    <3>2. RecvOf(r)' = RecvOf(r) /\ Refs'[r] = Refs[r]
      BY <2>a, TableKept DEF RecvOf
    <3>3. Cardinality(Held(r)') = Cardinality(Held(r)) + (IF r = p.slot THEN 1 ELSE 0)
      BY <1>0, <3>1, HeldChange, HoldersFinite
    <3>4. Cardinality(MovesOf(r)') = Cardinality(MovesOf(r)) - (IF r = p.slot THEN 1 ELSE 0)
      BY <1>0, <2>a, MovesLess
    <3>5. RecvOf(r) \in Nat /\ Cardinality(Held(r)) \in Nat /\ Cardinality(MovesOf(r)) \in Nat
      BY <1>0, HoldersFinite DEF RecvOf
    <3> QED
      BY <1>0, <3>2, <3>3, <3>4, <3>5 DEF Balanced
  <2> QED
    BY <2>b, <2>c DEF RefCounted, Balanced
<1>11. ASSUME NEW t \in Threads, NEW p \in port, TakeRelease(t, p) PROVE RefCounted'
  <2>a. /\ p.kind = "release" /\ port' = port \ {p} /\ SameTable /\ recv' = recv
        /\ Begun(t, "lock", p.slot, "release") /\ \A q : q.kind = "move" => (q \in port' <=> q \in port)
    BY <1>11, TakeReleaseMoves
  <2>b. IsFiniteSet(port')
    BY <1>0, <2>a, FS_RemoveElement
  <2>c. ASSUME NEW r \in Slots PROVE Balanced(r)'
    <3>1. Others(t) /\ ~Holds(t, r) /\ ~Holds(t, r)'
      BY <2>a, <1>0 DEF Begun, Holds
    <3>2. MovesOf(r)' = MovesOf(r)
      BY <2>a, MovesSame
    <3>3. Cardinality(Held(r)') = Cardinality(Held(r)) /\ RecvOf(r)' = RecvOf(r) /\ Refs'[r] = Refs[r]
      BY <1>0, <2>a, <3>1, HeldChange, TableKept DEF RecvOf
    <3> QED
      BY <1>0, <3>2, <3>3 DEF Balanced
  <2> QED
    BY <2>b, <2>c DEF RefCounted, Balanced
<1>12. ASSUME NEW t \in Threads, NEW p \in port, TakeFrame(t, p) PROVE RefCounted'
  <2>a. /\ p.kind = "frame" /\ port' = port \ {p} /\ SameTable /\ recv' = recv
        /\ Begun(t, "lock", None, "frame") /\ \A q : q.kind = "move" => (q \in port' <=> q \in port)
    BY <1>12, TakeFrameMoves
  <2>b. IsFiniteSet(port')
    BY <1>0, <2>a, FS_RemoveElement
  <2>c. ASSUME NEW r \in Slots PROVE Balanced(r)'
    <3>1. Others(t) /\ ~Holds(t, r) /\ ~Holds(t, r)'
      BY <2>a, <1>0 DEF Begun, Holds
    <3>2. MovesOf(r)' = MovesOf(r)
      BY <2>a, MovesSame
    <3>3. Cardinality(Held(r)') = Cardinality(Held(r)) /\ RecvOf(r)' = RecvOf(r) /\ Refs'[r] = Refs[r]
      BY <1>0, <2>a, <3>1, HeldChange, TableKept DEF RecvOf
    <3> QED
      BY <1>0, <3>2, <3>3 DEF Balanced
  <2> QED
    BY <2>b, <2>c DEF RefCounted, Balanced
<1>13. ASSUME NEW t \in Threads, MoveLock(t) PROVE RefCounted'
  <2>1. /\ Others(t) /\ me'[t].slot = me[t].slot /\ me'[t].job = me[t].job /\ recv' = recv /\ port' = port
        /\ \A r \in Slots : Refs'[r] = Refs[r]
    BY <1>13, MoveLockMoves DEF Moves, SameWork, SameTable, SameSlots, OtherSlots, SameSlot
  <2>2. \A r \in Slots : RecvOf(r)' = RecvOf(r)
    BY <2>1 DEF RecvOf
  <2> QED
    BY <2>1, <2>2, QuietStep
<1>14. ASSUME NEW t \in Threads, SetGroup(t) PROVE RefCounted'
  <2>1. /\ Others(t) /\ me'[t].slot = me[t].slot /\ me'[t].job = me[t].job /\ recv' = recv /\ port' = port
        /\ \A r \in Slots : Refs'[r] = Refs[r]
    BY <1>14, SetGroupMoves DEF Moves, SameWork, SameTable, SameSlots, OtherSlots, SameSlot
  <2>2. \A r \in Slots : RecvOf(r)' = RecvOf(r)
    BY <2>1 DEF RecvOf
  <2> QED
    BY <2>1, <2>2, QuietStep
<1>15. ASSUME NEW t \in Threads, OnIUserMove(t) PROVE RefCounted'
  <2>1. /\ Others(t) /\ me'[t].slot = me[t].slot /\ me'[t].job = me[t].job /\ recv' = recv /\ port' = port
        /\ \A r \in Slots : Refs'[r] = Refs[r]
    BY <1>15, OnIUserMoveMoves DEF Moves, SameWork, SameTable, SameSlots, OtherSlots, SameSlot
  <2>2. \A r \in Slots : RecvOf(r)' = RecvOf(r)
    BY <2>1 DEF RecvOf
  <2> QED
    BY <2>1, <2>2, QuietStep
<1>16. ASSUME NEW t \in Threads, OnClientLeave(t) PROVE RefCounted'
  <2>1. /\ Others(t) /\ me'[t].slot = me[t].slot /\ me'[t].job = me[t].job /\ recv' = recv /\ port' = port
        /\ \A r \in Slots : Refs'[r] = Refs[r]
    BY <1>16, OnClientLeaveMoves DEF Moves, SameWork, SameTable, SameSlots, OtherSlots, SameSlot
  <2>2. \A r \in Slots : RecvOf(r)' = RecvOf(r)
    BY <2>1 DEF RecvOf
  <2> QED
    BY <2>1, <2>2, QuietStep
<1>17. ASSUME NEW t \in Threads, Push(t) PROVE RefCounted'
  <2>a. me[t].job = "release" /\ Rests(t) /\ SameTable /\ recv' = recv /\ port' = port
    BY <1>17, PushMoves
  <2>b. IsFiniteSet(port')
    BY <1>0, <2>a
  <2>c. ASSUME NEW r \in Slots PROVE Balanced(r)'
    <3>1. Others(t) /\ ~Holds(t, r) /\ ~Holds(t, r)'
      BY <2>a, <1>0, IdleWork DEF Rests, Holds
    <3>2. MovesOf(r)' = MovesOf(r) /\ RecvOf(r)' = RecvOf(r) /\ Refs'[r] = Refs[r]
      BY <2>a, TableKept DEF MovesOf, RecvOf
    <3>3. Cardinality(Held(r)') = Cardinality(Held(r))
      BY <1>0, <3>1, HeldChange
    <3> QED
      BY <1>0, <3>2, <3>3 DEF Balanced
  <2> QED
    BY <2>b, <2>c DEF RefCounted, Balanced
<1>18. ASSUME NEW t \in Threads, FrameLock(t) PROVE RefCounted'
  <2>1. /\ Others(t) /\ me'[t].slot = me[t].slot /\ me'[t].job = me[t].job /\ recv' = recv /\ port' = port
        /\ \A r \in Slots : Refs'[r] = Refs[r]
    BY <1>18, FrameLockMoves DEF Moves, SameWork, SameTable, SameSlots, OtherSlots, SameSlot
  <2>2. \A r \in Slots : RecvOf(r)' = RecvOf(r)
    BY <2>1 DEF RecvOf
  <2> QED
    BY <2>1, <2>2, QuietStep
<1>19. ASSUME NEW t \in Threads, SetDC(t) PROVE RefCounted'
  <2>1. /\ Others(t) /\ me'[t].slot = me[t].slot /\ me'[t].job = me[t].job /\ recv' = recv /\ port' = port
        /\ \A r \in Slots : Refs'[r] = Refs[r]
    BY <1>19, SetDCMoves DEF Moves, SameWork, SameTable, SameSlots, OtherSlots, SameSlot
  <2>2. \A r \in Slots : RecvOf(r)' = RecvOf(r)
    BY <2>1 DEF RecvOf
  <2> QED
    BY <2>1, <2>2, QuietStep
<1>20. ASSUME NEW t \in Threads, Cancel(t) PROVE RefCounted'
  <2>1. /\ Others(t) /\ me'[t].slot = me[t].slot /\ me'[t].job = me[t].job /\ port' = port
        /\ \A r \in Slots : Refs'[r] = Refs[r]
    BY <1>20, CancelMoves, TableKept DEF Moves, SameWork
  <2>2. \A r \in Slots : RecvOf(r)' = RecvOf(r)
    BY <1>20, CancelMoves DEF RecvOf, OtherRecvs
  <2> QED
    BY <2>1, <2>2, QuietStep
<1>21. ASSUME NEW t \in Threads, NEW s \in Slots, Enter(t, s) PROVE RefCounted'
  <2>a. /\ Begun(t, "flag", s, "close") /\ OtherSlots(s) /\ Refs'[s] = Refs[s] + 1
        /\ recv' = recv /\ port' = port
    BY <1>21, EnterMoves
  <2>b. IsFiniteSet(port')
    BY <1>0, <2>a
  <2>c. ASSUME NEW r \in Slots PROVE Balanced(r)'
    <3>1. Others(t) /\ ~Holds(t, r) /\ (Holds(t, r)' <=> r = s)
      BY <2>a, <1>0 DEF Begun, Holds
    <3>2. MovesOf(r)' = MovesOf(r) /\ RecvOf(r)' = RecvOf(r)
      BY <2>a DEF MovesOf, RecvOf
    <3>3. Cardinality(Held(r)') = Cardinality(Held(r)) + (IF r = s THEN 1 ELSE 0)
      BY <1>0, <3>1, HeldChange, HoldersFinite
    <3>4. Refs'[r] = Refs[r] + (IF r = s THEN 1 ELSE 0)
      BY <1>0, <2>a DEF OtherSlots, SameSlot
    <3>5. RecvOf(r) \in Nat /\ Cardinality(Held(r)) \in Nat /\ Cardinality(MovesOf(r)) \in Nat
      BY <1>0, HoldersFinite DEF RecvOf
    <3> QED
      BY <1>0, <3>2, <3>3, <3>4, <3>5 DEF Balanced
  <2> QED
    BY <2>b, <2>c DEF RefCounted, Balanced
<1>22. ASSUME NEW g \in Groups, PostFrame(g) PROVE RefCounted'
  <2>1. port' = port \cup {[kind |-> "frame", group |-> g]} /\ sess' = sess /\ recv' = recv /\ me' = me
        /\ \A q : q.kind = "move" => (q \in port' <=> q \in port)
    BY <1>22 DEF PostFrame
  <2>2. IsFiniteSet(port')
    BY <1>0, <2>1, FS_AddElement
  <2>3. ASSUME NEW r \in Slots PROVE Balanced(r)'
    <3>1. Held(r)' = Held(r) /\ RecvOf(r)' = RecvOf(r) /\ Refs'[r] = Refs[r]
      BY <1>0, <2>1, NothingMoves, TableKept DEF Held, Holds, RecvOf
    <3>2. MovesOf(r)' = MovesOf(r)
      BY <2>1, MovesSame
    <3> QED
      BY <1>0, <3>1, <3>2 DEF Balanced
  <2> QED
    BY <2>2, <2>3 DEF RefCounted, Balanced
<1>23. ASSUME NEW s \in Slots, PeerCloses(s) PROVE RefCounted'
  <2>1. sess' = sess /\ me' = me /\ port' = port /\ \A r \in Slots : RecvOf(r)' = RecvOf(r)
    BY <1>23 DEF PeerCloses, RecvOf
  <2>2. \A r \in Slots : Held(r)' = Held(r) /\ MovesOf(r)' = MovesOf(r)
    BY <2>1 DEF Held, Holds, MovesOf
  <2>3. \A r \in Slots : Refs'[r] = Refs[r]
    BY <1>0, <2>1, NothingMoves, TableKept
  <2> QED
    BY <1>0, <2>1, <2>2, <2>3 DEF RefCounted, Balanced
<1>24. ASSUME NEW s \in Slots, RecvEnds(s) PROVE RefCounted'
  <2>1. sess' = sess /\ me' = me /\ port' = port /\ \A r \in Slots : RecvOf(r)' = RecvOf(r)
    BY <1>24, RecvEndsMoves DEF RecvOf, OtherRecvs
  <2>2. \A r \in Slots : Held(r)' = Held(r) /\ MovesOf(r)' = MovesOf(r)
    BY <2>1 DEF Held, Holds, MovesOf
  <2>3. \A r \in Slots : Refs'[r] = Refs[r]
    BY <1>0, <2>1, NothingMoves, TableKept
  <2> QED
    BY <1>0, <2>1, <2>2, <2>3 DEF RefCounted, Balanced
<1>25. ASSUME NEW s \in Slots, NEW k \in 1..MaxMsg, PeerSends(s, k) PROVE RefCounted'
  <2>1. sess' = sess /\ me' = me /\ port' = port /\ \A r \in Slots : RecvOf(r)' = RecvOf(r)
    BY <1>25, PeerSendsMoves DEF RecvOf, OtherRecvs
  <2>2. \A r \in Slots : Held(r)' = Held(r) /\ MovesOf(r)' = MovesOf(r)
    BY <2>1 DEF Held, Holds, MovesOf
  <2>3. \A r \in Slots : Refs'[r] = Refs[r]
    BY <1>0, <2>1, NothingMoves, TableKept
  <2> QED
    BY <1>0, <2>1, <2>2, <2>3 DEF RefCounted, Balanced
<1>26. ASSUME UNCHANGED vars PROVE RefCounted'
  <2>1. sess' = sess /\ me' = me /\ port' = port /\ \A r \in Slots : RecvOf(r)' = RecvOf(r)
    BY <1>26 DEF RecvOf
  <2>2. \A r \in Slots : Held(r)' = Held(r) /\ MovesOf(r)' = MovesOf(r)
    BY <2>1 DEF Held, Holds, MovesOf
  <2>3. \A r \in Slots : Refs'[r] = Refs[r]
    BY <1>0, <2>1, NothingMoves, TableKept
  <2> QED
    BY <1>0, <2>1, <2>2, <2>3 DEF RefCounted, Balanced
<1> QED
  BY <1>1, <1>1a, <1>1b, <1>2, <1>3a, <1>3, <1>4, <1>5, <1>6, <1>7, <1>8, <1>9, <1>10, <1>11, <1>12, <1>13, <1>14,
     <1>15, <1>16, <1>17, <1>18, <1>19, <1>20, <1>21, <1>22, <1>23, <1>24, <1>25, <1>26,
     StepCases

-----------------------------------------------------------------------------
(* The stages of a slot *)

\* A slot nothing happens to but that a reference is added or given back.
LEMMA StageKept ==
  ASSUME NEW r \in Slots, Stage(r), sess'[r].conn = sess[r].conn, Rels'[r] = Rels[r],
         Refs'[r] = Refs[r] \/ (Live(r) /\ Refs'[r] > 0),
         r \in free' <=> r \in free, sess[r].conn \in left' => sess[r].conn \in left,
         ToRelease(r)' => ToRelease(r),
         \A u \in Threads : Releases(u, r)' => Releases(u, r) /\ (me'[u].pc = "lock" => me[u].pc = "lock")
  PROVE  Stage(r)'
<1>1. Live(r)' <=> Live(r)
  BY DEF Live
<1> QED
  BY <1>1 DEF Stage

\* A step that releases nothing and takes no reference of a free slot.
LEMMA StagesKept ==
  ASSUME IInv, NEW t \in Threads, Others(t),
         me'[t].job = "release" => me[t].job = "release" /\ me'[t].slot = me[t].slot /\ me'[t].pc # "lock",
         \A r \in Slots : sess'[r].conn = sess[r].conn /\ Rels'[r] = Rels[r],
         \A r \in Slots : Refs'[r] = Refs[r] \/ (Live(r) /\ Refs'[r] > 0),
         free' = free, left' = left, \A r \in Slots : ToRelease(r)' => ToRelease(r)
  PROVE  Stages'
<1> SUFFICES ASSUME NEW r \in Slots PROVE Stage(r)'
  BY DEF Stages
<1>1. ASSUME NEW u \in Threads, Releases(u, r)'
      PROVE  Releases(u, r) /\ (me'[u].pc = "lock" => me[u].pc = "lock")
  <2>1. CASE u = t
    BY <1>1, <2>1 DEF Releases
  <2>2. CASE u # t
    BY <1>1, <2>2 DEF Releases, Others
  <2> QED
    BY <2>1, <2>2
<1>2. Stage(r)
  BY TypeFacts DEF Stages
<1> QED
  BY <1>1, <1>2, StageKept


\* A slot is free, then live, then released once, and its index goes back last.
LEMMA StagesStep ==
  ASSUME IInv, NoScan, [Next]_vars
  PROVE  Stages'
<1>0. (\A r \in Slots : Stage(r) /\ Refs[r] \in Nat) /\ ConnsApart /\ accepted \in Nat
  BY TypeFacts DEF Stages, SessRec
<1>1. ASSUME NEW t \in Threads, Accept(t) PROVE Stages'
  <2>a. PICK s \in free :
           /\ s \in Slots /\ Begun(t, "named", s, "accept") /\ accepted + 1 \in Conns
           /\ OtherSlots(s) /\ sess'[s].conn = accepted + 1 /\ Refs'[s] = 1 /\ Rels'[s] = 0
           /\ free' = free \ {s} /\ port' = port /\ left' = left
    BY <1>1, AcceptMoves
  <2>b. Others(t) /\ me'[t].job = "accept"
    BY <2>a DEF Begun
  <2> SUFFICES ASSUME NEW r \in Slots PROVE Stage(r)'
    BY DEF Stages
  <2>1. CASE r # s
    <3>1. /\ sess'[r].conn = sess[r].conn /\ Rels'[r] = Rels[r] /\ Refs'[r] = Refs[r]
          /\ r \in free' <=> r \in free
      BY <2>a, <2>1 DEF OtherSlots, SameSlot, SameButRef
    <3>2. (ToRelease(r)' => ToRelease(r)) /\ \A u \in Threads : Releases(u, r)' => me'[u] = me[u] /\ Releases(u, r)
      BY <2>a, <2>b DEF ToRelease, Releases, Others
    <3> QED
      BY <1>0, <2>a, <3>1, <3>2, StageKept
  <2>2. CASE r = s
    <3>1. ~ToRelease(r) /\ \A u \in Threads : ~Releases(u, r)
      BY <1>0, <2>a, <2>2 DEF Stage
    <3>2. ~ToRelease(r)' /\ \A u \in Threads : ~Releases(u, r)'
      BY <2>a, <2>b, <3>1 DEF ToRelease, Releases, Others
    <3>3. accepted + 1 # 0 /\ accepted + 1 \notin left
      BY <1>0, <2>a DEF ConnsApart
    <3>4. Live(r)' /\ Refs'[r] > 0 /\ r \notin free' /\ sess'[r].conn \notin left' /\ sess'[r].conn # 0
      BY <2>a, <2>2, <3>3 DEF Live
    <3> QED
      BY <3>2, <3>4 DEF Stage
  <2> QED
    BY <2>1, <2>2
<1>1a. ASSUME NEW t \in Threads, InitCount(t) PROVE Stages'
  <2>1. /\ Others(t) /\ free' = free /\ left' = left
        /\ me'[t].job = "release" => me[t].job = "release" /\ me'[t].slot = me[t].slot /\ me'[t].pc # "lock"
    BY <1>1a, InitCountMoves, IdleWork DEF Moves, SameWork
  <2>2. \A r \in Slots : /\ sess'[r].conn = sess[r].conn /\ Rels'[r] = Rels[r]
                          /\ Refs'[r] = Refs[r]
    BY <1>1a, InitCountMoves DEF SameTable, SameSlots, SameSlot, SameButRef
  <2>3. \A r \in Slots : ToRelease(r)' => ToRelease(r)
    BY <1>1a, InitCountMoves DEF ToRelease
  <2> QED
    BY <2>1, <2>2, <2>3, StagesKept
<1>1b. ASSUME NEW t \in Threads, InitOpen(t) PROVE Stages'
  <2>1. /\ Others(t) /\ free' = free /\ left' = left
        /\ me'[t].job = "release" => me[t].job = "release" /\ me'[t].slot = me[t].slot /\ me'[t].pc # "lock"
    BY <1>1b, InitOpenMoves, IdleWork DEF Moves, SameWork
  <2>2. \A r \in Slots : /\ sess'[r].conn = sess[r].conn /\ Rels'[r] = Rels[r]
                          /\ Refs'[r] = Refs[r]
    BY <1>1b, InitOpenMoves DEF SameTable, SameSlots, SameSlot, SameButRef
  <2>3. \A r \in Slots : ToRelease(r)' => ToRelease(r)
    BY <1>1b, InitOpenMoves DEF ToRelease
  <2> QED
    BY <2>1, <2>2, <2>3, StagesKept
<1>2. ASSUME NEW t \in Threads, OnClientJoin(t) PROVE Stages'
  <2>1. /\ Others(t) /\ free' = free /\ left' = left
        /\ me'[t].job = "release" => me[t].job = "release" /\ me'[t].slot = me[t].slot /\ me'[t].pc # "lock"
    BY <1>2, OnClientJoinMoves, IdleWork DEF Moves, SameWork
  <2>2. \A r \in Slots : /\ sess'[r].conn = sess[r].conn /\ Rels'[r] = Rels[r]
                          /\ Refs'[r] = Refs[r]
    BY <1>2, OnClientJoinMoves DEF SameTable, SameSlots, SameSlot, SameButRef
  <2>3. \A r \in Slots : ToRelease(r)' => ToRelease(r)
    BY <1>2, OnClientJoinMoves DEF ToRelease
  <2> QED
    BY <2>1, <2>2, <2>3, StagesKept
<1>3a. ASSUME NEW t \in Threads, Post(t) PROVE Stages'
  <2>1. /\ Others(t) /\ free' = free /\ left' = left
        /\ me'[t].job = "release" => me[t].job = "release" /\ me'[t].slot = me[t].slot /\ me'[t].pc # "lock"
    BY <1>3a, PostMoves, IdleWork DEF Moves, SameWork
  <2>2. \A r \in Slots : /\ sess'[r].conn = sess[r].conn /\ Rels'[r] = Rels[r]
                          /\ Refs'[r] = Refs[r]
    BY <1>3a, PostMoves DEF SameTable, SameSlots, SameSlot, SameButRef
  <2>3. \A r \in Slots : ToRelease(r)' => ToRelease(r)
    BY <1>3a, PostMoves DEF ToRelease
  <2> QED
    BY <2>1, <2>2, <2>3, StagesKept
<1>3. ASSUME NEW t \in Threads, PostRecv(t) PROVE Stages'
  <2>1. /\ Others(t) /\ free' = free /\ left' = left
        /\ me'[t].job = "release" => me[t].job = "release" /\ me'[t].slot = me[t].slot /\ me'[t].pc # "lock"
    BY <1>3, PostRecvMoves, IdleWork DEF Moves, SameWork
  <2>2. \A r \in Slots : /\ sess'[r].conn = sess[r].conn /\ Rels'[r] = Rels[r]
                          /\ (Refs'[r] = Refs[r] \/ (Live(r) /\ Refs'[r] > 0))
    <3>1. CASE SameSlots
      BY <3>1 DEF SameSlots, SameSlot, SameButRef
    <3>2. CASE \E r \in Slots : /\ Live(r) /\ Refs[r] \in Nat /\ OtherSlots(r) /\ SameButRef(r)
                               /\ Refs'[r] = Refs[r] + 1
      BY <3>2 DEF OtherSlots, SameSlot, SameButRef
    <3> QED
      BY <1>3, <1>0, <3>1, <3>2, PostRecvMoves, OwnSlot
  <2>3. \A r \in Slots : ToRelease(r)' => ToRelease(r)
    BY <1>3, PostRecvMoves DEF ToRelease
  <2> QED
    BY <2>1, <2>2, <2>3, StagesKept
<1>4. ASSUME NEW t \in Threads, Give(t) PROVE Stages'
  <2>a. /\ me[t].job \in {"accept", "recv", "move", "close"} /\ Rests(t) /\ free' = free /\ left' = left
        /\ me[t].slot \in Slots /\ OtherSlots(me[t].slot)
        /\ Refs'[me[t].slot] = Refs[me[t].slot] - 1 /\ sess'[me[t].slot].conn = sess[me[t].slot].conn
        /\ IF Refs[me[t].slot] = 1
           THEN Rels'[me[t].slot] = 1 /\ port' = port \cup {[kind |-> "release", slot |-> me[t].slot]}
           ELSE Rels'[me[t].slot] = 0 /\ port' = port
    BY <1>4, GiveMoves
  <2>b. Others(t) /\ me'[t].job = "none"
    BY <2>a, IdleWork DEF Rests
  <2>c. ASSUME NEW r \in Slots, NEW u \in Threads, Releases(u, r)' PROVE me'[u] = me[u] /\ Releases(u, r)
    BY <2>b, <2>c DEF Releases, Others
  <2> SUFFICES ASSUME NEW r \in Slots PROVE Stage(r)'
    BY DEF Stages
  <2>1. CASE r # me[t].slot
    <3>1. /\ sess'[r].conn = sess[r].conn /\ Rels'[r] = Rels[r] /\ Refs'[r] = Refs[r]
      BY <2>a, <2>1 DEF OtherSlots, SameSlot, SameButRef
    <3>2. ToRelease(r)' => ToRelease(r)
      BY <2>a, <2>1 DEF ToRelease
    <3> QED
      BY <1>0, <2>a, <2>c, <3>1, <3>2, StageKept
  <2>2. CASE r = me[t].slot
    <3>1. /\ Live(r) /\ Refs[r] \in Nat /\ Refs[r] > 0 /\ r \notin free /\ sess[r].conn \notin left
          /\ sess[r].conn # 0 /\ Rels[r] = 0 /\ \A u \in Threads : ~Releases(u, r)
      BY <2>a, <2>2, OwnSlot DEF Live
    <3>2. CASE Refs[r] = 1
      <4>1. Refs'[r] = 0 /\ Rels'[r] = 1 /\ sess'[r].conn = sess[r].conn
        BY <2>a, <2>2, <3>2
      <4>2. ~Live(r)' /\ \A u \in Threads : ~Releases(u, r)'
        BY <2>c, <3>1, <4>1 DEF Live
      <4> QED
        BY <2>a, <3>1, <4>1, <4>2 DEF Stage
    <3>3. CASE Refs[r] # 1
      <4>1. Refs'[r] > 0 /\ Rels'[r] = Rels[r] /\ sess'[r].conn = sess[r].conn /\ port' = port
        BY <2>a, <2>2, <3>1, <3>3
      <4>2. ToRelease(r)' => ToRelease(r)
        BY <4>1 DEF ToRelease
      <4> QED
        BY <1>0, <2>a, <2>c, <3>1, <4>1, <4>2, StageKept
    <3> QED
      BY <3>2, <3>3
  <2> QED
    BY <2>1, <2>2
<1>5. ASSUME NEW t \in Threads, NEW s \in Slots, TakeRecv(t, s) PROVE Stages'
  <2>1. /\ Others(t) /\ free' = free /\ left' = left
        /\ me'[t].job = "release" => me[t].job = "release" /\ me'[t].slot = me[t].slot /\ me'[t].pc # "lock"
    BY <1>5, TakeRecvMoves, IdleWork DEF Begun
  <2>2. \A r \in Slots : /\ sess'[r].conn = sess[r].conn /\ Rels'[r] = Rels[r]
                          /\ Refs'[r] = Refs[r]
    BY <1>5, TakeRecvMoves DEF SameTable, SameSlots, SameSlot, SameButRef
  <2>3. \A r \in Slots : ToRelease(r)' => ToRelease(r)
    BY <1>5, TakeRecvMoves DEF ToRelease
  <2> QED
    BY <2>1, <2>2, <2>3, StagesKept
<1>6. ASSUME NEW t \in Threads, NextMessage(t) PROVE Stages'
  <2>1. /\ Others(t) /\ free' = free /\ left' = left
        /\ me'[t].job = "release" => me[t].job = "release" /\ me'[t].slot = me[t].slot /\ me'[t].pc # "lock"
    BY <1>6, NextMessageMoves, IdleWork
  <2>2. \A r \in Slots : /\ sess'[r].conn = sess[r].conn /\ Rels'[r] = Rels[r]
                          /\ Refs'[r] = Refs[r]
    BY <1>6, NextMessageMoves DEF SameTable, SameSlots, SameSlot, SameButRef
  <2>3. \A r \in Slots : ToRelease(r)' => ToRelease(r)
    BY <1>6, NextMessageMoves DEF ToRelease
  <2> QED
    BY <2>1, <2>2, <2>3, StagesKept
<1>7. ASSUME NEW t \in Threads, RecvLock(t) PROVE Stages'
  <2>1. /\ Others(t) /\ free' = free /\ left' = left
        /\ me'[t].job = "release" => me[t].job = "release" /\ me'[t].slot = me[t].slot /\ me'[t].pc # "lock"
    BY <1>7, RecvLockMoves, IdleWork DEF Moves, SameWork
  <2>2. \A r \in Slots : /\ sess'[r].conn = sess[r].conn /\ Rels'[r] = Rels[r]
                          /\ Refs'[r] = Refs[r]
    BY <1>7, RecvLockMoves DEF SameTable, SameSlots, SameSlot, SameButRef
  <2>3. \A r \in Slots : ToRelease(r)' => ToRelease(r)
    BY <1>7, RecvLockMoves DEF ToRelease
  <2> QED
    BY <2>1, <2>2, <2>3, StagesKept
<1>8. ASSUME NEW t \in Threads, OnRecv(t) PROVE Stages'
  <2>1. /\ Others(t) /\ free' = free /\ left' = left
        /\ me'[t].job = "release" => me[t].job = "release" /\ me'[t].slot = me[t].slot /\ me'[t].pc # "lock"
    BY <1>8, OnRecvMoves, IdleWork DEF Moves, SameWork
  <2>2. \A r \in Slots : /\ sess'[r].conn = sess[r].conn /\ Rels'[r] = Rels[r]
                          /\ (Refs'[r] = Refs[r] \/ (Live(r) /\ Refs'[r] > 0))
    <3>1. CASE SameSlots
      BY <3>1 DEF SameSlots, SameSlot, SameButRef
    <3>2. CASE \E r \in Slots : /\ Live(r) /\ Refs[r] \in Nat /\ OtherSlots(r) /\ SameButRef(r)
                               /\ Refs'[r] = Refs[r] + 1
      BY <3>2 DEF OtherSlots, SameSlot, SameButRef
    <3> QED
      BY <1>8, <1>0, <3>1, <3>2, OnRecvMoves, OwnSlot
  <2>3. \A r \in Slots : ToRelease(r)' => ToRelease(r)
    BY <1>8, OnRecvMoves DEF ToRelease
  <2> QED
    BY <2>1, <2>2, <2>3, StagesKept
<1>9. ASSUME NEW t \in Threads, Unlock(t) PROVE Stages'
  <2>1. /\ Others(t) /\ free' = free /\ left' = left
        /\ me'[t].job = "release" => me[t].job = "release" /\ me'[t].slot = me[t].slot /\ me'[t].pc # "lock"
    BY <1>9, UnlockMoves, IdleWork DEF Moves, Rests, SameWork
  <2>2. \A r \in Slots : /\ sess'[r].conn = sess[r].conn /\ Rels'[r] = Rels[r]
                          /\ Refs'[r] = Refs[r]
    BY <1>9, UnlockMoves DEF SameTable, SameSlots, SameSlot, SameButRef
  <2>3. \A r \in Slots : ToRelease(r)' => ToRelease(r)
    BY <1>9, UnlockMoves DEF ToRelease
  <2> QED
    BY <2>1, <2>2, <2>3, StagesKept
<1>10. ASSUME NEW t \in Threads, NEW p \in port, TakeMove(t, p) PROVE Stages'
  <2>1. /\ Others(t) /\ free' = free /\ left' = left
        /\ me'[t].job = "release" => me[t].job = "release" /\ me'[t].slot = me[t].slot /\ me'[t].pc # "lock"
    BY <1>10, TakeMoveMoves, IdleWork DEF Begun
  <2>2. \A r \in Slots : /\ sess'[r].conn = sess[r].conn /\ Rels'[r] = Rels[r]
                          /\ Refs'[r] = Refs[r]
    BY <1>10, TakeMoveMoves DEF SameTable, SameSlots, SameSlot, SameButRef
  <2>3. \A r \in Slots : ToRelease(r)' => ToRelease(r)
    BY <1>10, TakeMoveMoves DEF ToRelease
  <2> QED
    BY <2>1, <2>2, <2>3, StagesKept
<1>11. ASSUME NEW t \in Threads, NEW p \in port, TakeRelease(t, p) PROVE Stages'
  <2>a. /\ p = [kind |-> "release", slot |-> p.slot] /\ port' = port \ {p} /\ sess' = sess /\ free' = free
        /\ left' = left /\ p.slot \in Slots /\ Begun(t, "lock", p.slot, "release")
    BY <1>11, TakeReleaseMoves
  <2>b. Others(t) /\ me'[t].job = "release" /\ me'[t].slot = p.slot
    BY <2>a DEF Begun
  <2>c. ASSUME NEW r \in Slots, NEW u \in Threads, Releases(u, r)', u # t \/ r # p.slot
        PROVE  me'[u] = me[u] /\ Releases(u, r)
    BY <2>b, <2>c DEF Releases, Others
  <2>s. \A q \in Slots : Refs'[q] = Refs[q] /\ Rels'[q] = Rels[q] /\ sess'[q].conn = sess[q].conn
    BY <1>11, TakeReleaseMoves, TableKept
  <2> SUFFICES ASSUME NEW r \in Slots PROVE Stage(r)'
    BY DEF Stages
  <2>1. CASE r # p.slot
    <3>1. ToRelease(r)' => ToRelease(r)
      BY <2>a DEF ToRelease
    <3> QED
      BY <1>0, <2>a, <2>s, <2>1, <2>c, <3>1, StageKept
  <2>2. CASE r = p.slot
    <3>1. ToRelease(r)
      BY <2>a, <2>2 DEF ToRelease
    <3>2. ~Live(r) /\ r \notin free /\ sess[r].conn \notin left /\ \A u \in Threads : ~Releases(u, r)
      BY <1>0, <3>1 DEF Stage
    <3>3. ~ToRelease(r)'
      BY <2>a, <2>2 DEF ToRelease
    <3>4. \A u \in Threads : Releases(u, r)' => u = t
      BY <2>c, <3>2
    <3>5. (~Live(r))' /\ Stage(r)
      BY <1>0, <2>s, <3>2 DEF Live
    <3> QED
      BY <2>a, <2>s, <3>2, <3>3, <3>4, <3>5 DEF Stage
  <2> QED
    BY <2>1, <2>2
<1>12. ASSUME NEW t \in Threads, NEW p \in port, TakeFrame(t, p) PROVE Stages'
  <2>1. /\ Others(t) /\ free' = free /\ left' = left
        /\ me'[t].job = "release" => me[t].job = "release" /\ me'[t].slot = me[t].slot /\ me'[t].pc # "lock"
    BY <1>12, TakeFrameMoves, IdleWork DEF Begun
  <2>2. \A r \in Slots : /\ sess'[r].conn = sess[r].conn /\ Rels'[r] = Rels[r]
                          /\ Refs'[r] = Refs[r]
    BY <1>12, TakeFrameMoves DEF SameTable, SameSlots, SameSlot, SameButRef
  <2>3. \A r \in Slots : ToRelease(r)' => ToRelease(r)
    BY <1>12, TakeFrameMoves DEF ToRelease
  <2> QED
    BY <2>1, <2>2, <2>3, StagesKept
<1>13. ASSUME NEW t \in Threads, MoveLock(t) PROVE Stages'
  <2>1. /\ Others(t) /\ free' = free /\ left' = left
        /\ me'[t].job = "release" => me[t].job = "release" /\ me'[t].slot = me[t].slot /\ me'[t].pc # "lock"
    BY <1>13, MoveLockMoves, IdleWork DEF Moves, SameWork
  <2>2. \A r \in Slots : /\ sess'[r].conn = sess[r].conn /\ Rels'[r] = Rels[r]
                          /\ Refs'[r] = Refs[r]
    BY <1>13, MoveLockMoves DEF SameTable, SameSlots, SameSlot, SameButRef
  <2>3. \A r \in Slots : ToRelease(r)' => ToRelease(r)
    BY <1>13, MoveLockMoves DEF ToRelease
  <2> QED
    BY <2>1, <2>2, <2>3, StagesKept
<1>14. ASSUME NEW t \in Threads, SetGroup(t) PROVE Stages'
  <2>1. /\ Others(t) /\ free' = free /\ left' = left
        /\ me'[t].job = "release" => me[t].job = "release" /\ me'[t].slot = me[t].slot /\ me'[t].pc # "lock"
    BY <1>14, SetGroupMoves, IdleWork DEF Moves, SameWork
  <2>2. \A r \in Slots : /\ sess'[r].conn = sess[r].conn /\ Rels'[r] = Rels[r]
                          /\ Refs'[r] = Refs[r]
    BY <1>14, SetGroupMoves DEF OtherSlots, SameSlot, SameButRef
  <2>3. \A r \in Slots : ToRelease(r)' => ToRelease(r)
    BY <1>14, SetGroupMoves DEF ToRelease
  <2> QED
    BY <2>1, <2>2, <2>3, StagesKept
<1>15. ASSUME NEW t \in Threads, OnIUserMove(t) PROVE Stages'
  <2>1. /\ Others(t) /\ free' = free /\ left' = left
        /\ me'[t].job = "release" => me[t].job = "release" /\ me'[t].slot = me[t].slot /\ me'[t].pc # "lock"
    BY <1>15, OnIUserMoveMoves, IdleWork DEF Moves, SameWork
  <2>2. \A r \in Slots : /\ sess'[r].conn = sess[r].conn /\ Rels'[r] = Rels[r]
                          /\ Refs'[r] = Refs[r]
    BY <1>15, OnIUserMoveMoves DEF SameTable, SameSlots, SameSlot, SameButRef
  <2>3. \A r \in Slots : ToRelease(r)' => ToRelease(r)
    BY <1>15, OnIUserMoveMoves DEF ToRelease
  <2> QED
    BY <2>1, <2>2, <2>3, StagesKept
<1>16. ASSUME NEW t \in Threads, OnClientLeave(t) PROVE Stages'
  <2>a. /\ me[t].job = "release" /\ me[t].slot \in Slots /\ Moves(t, "unlock") /\ sess' = sess /\ free' = free
        /\ port' = port /\ left' = left \cup {Conn(t)} /\ Conn(t) \in Conns
    BY <1>16, OnClientLeaveMoves
  <2>b. Others(t) /\ me'[t].job = "release" /\ me'[t].slot = me[t].slot /\ me'[t].pc = "unlock"
    BY <2>a DEF Moves, SameWork
  <2>s. \A q \in Slots : Refs'[q] = Refs[q] /\ Rels'[q] = Rels[q] /\ sess'[q].conn = sess[q].conn
    BY <1>16, OnClientLeaveMoves, TableKept
  <2> SUFFICES ASSUME NEW r \in Slots PROVE Stage(r)'
    BY DEF Stages
  <2>c. ASSUME NEW u \in Threads, Releases(u, r)'
        PROVE  Releases(u, r) /\ (me'[u].pc = "lock" => me[u].pc = "lock" /\ u # t)
    <3>1. CASE u = t
      BY <2>b, <2>c, <2>a, <3>1 DEF Releases
    <3>2. CASE u # t
      BY <2>b, <2>c, <3>2 DEF Releases, Others
    <3> QED
      BY <3>1, <3>2
  <2>d. ToRelease(r)' <=> ToRelease(r)
    BY <2>a DEF ToRelease
  <2>1. CASE r # me[t].slot
    <3>1. sess[r].conn # Conn(t)
      BY <1>0, <2>a, <2>1, TypeFacts DEF ConnsApart
    <3> QED
      BY <1>0, <2>a, <2>s, <2>c, <2>d, <3>1, StageKept
  <2>2. CASE r = me[t].slot
    <3>1. Releases(t, r)
      BY <2>a, <2>2 DEF Releases
    <3>2. Stage(r) /\ ~Live(r) /\ r \notin free /\ ~ToRelease(r)
      BY <1>0, <3>1 DEF Stage
    <3>3. \A u \in Threads : Releases(u, r)' => u = t
      BY <2>c, <3>1, <3>2 DEF Stage
    <3>4. ~Live(r)'
      BY <2>s, <3>2 DEF Live
    <3> QED
      BY <2>a, <2>s, <2>b, <2>d, <3>2, <3>3, <3>4 DEF Stage
  <2> QED
    BY <2>1, <2>2
<1>17. ASSUME NEW t \in Threads, Push(t) PROVE Stages'
  <2>a. /\ me[t].job = "release" /\ Rests(t) /\ me[t].slot \in Slots /\ sess' = sess
        /\ free' = free \cup {me[t].slot} /\ left' = left /\ port' = port
    BY <1>17, PushMoves
  <2>b. Others(t) /\ me'[t].job = "none"
    BY <2>a, IdleWork DEF Rests
  <2>c. ASSUME NEW r \in Slots, NEW u \in Threads, Releases(u, r)' PROVE me'[u] = me[u] /\ Releases(u, r) /\ u # t
    BY <2>b, <2>c DEF Releases, Others
  <2>s. \A q \in Slots : Refs'[q] = Refs[q] /\ Rels'[q] = Rels[q] /\ sess'[q].conn = sess[q].conn
    BY <1>17, PushMoves, TableKept
  <2> SUFFICES ASSUME NEW r \in Slots PROVE Stage(r)'
    BY DEF Stages
  <2>1. CASE r # me[t].slot
    <3>2. ToRelease(r)' => ToRelease(r)
      BY <2>a DEF ToRelease
    <3> QED
      BY <1>0, <2>a, <2>s, <2>1, <2>c, <3>2, StageKept
  <2>2. CASE r = me[t].slot
    <3>1. Releases(t, r) /\ Stage(r)
      BY <1>0, <2>a, <2>2 DEF Releases
    <3>2. ~Live(r) /\ ~ToRelease(r) /\ Refs[r] = 0
      BY <3>1 DEF Stage
    <3>3. \A u \in Threads : ~Releases(u, r)'
      BY <2>c, <3>1 DEF Stage
    <3>4. ~Live(r)' /\ ~ToRelease(r)' /\ r \in free'
      BY <2>a, <2>s, <2>2, <3>2 DEF Live, ToRelease
    <3> QED
      BY <2>a, <2>s, <3>2, <3>3, <3>4 DEF Stage
  <2> QED
    BY <2>1, <2>2
<1>18. ASSUME NEW t \in Threads, FrameLock(t) PROVE Stages'
  <2>1. /\ Others(t) /\ free' = free /\ left' = left
        /\ me'[t].job = "release" => me[t].job = "release" /\ me'[t].slot = me[t].slot /\ me'[t].pc # "lock"
    BY <1>18, FrameLockMoves, IdleWork DEF Moves, SameWork
  <2>2. \A r \in Slots : /\ sess'[r].conn = sess[r].conn /\ Rels'[r] = Rels[r]
                          /\ Refs'[r] = Refs[r]
    BY <1>18, FrameLockMoves DEF SameTable, SameSlots, SameSlot, SameButRef
  <2>3. \A r \in Slots : ToRelease(r)' => ToRelease(r)
    BY <1>18, FrameLockMoves DEF ToRelease
  <2> QED
    BY <2>1, <2>2, <2>3, StagesKept
<1>19. ASSUME NEW t \in Threads, SetDC(t) PROVE Stages'
  <2>1. /\ Others(t) /\ free' = free /\ left' = left
        /\ me'[t].job = "release" => me[t].job = "release" /\ me'[t].slot = me[t].slot /\ me'[t].pc # "lock"
    BY <1>19, SetDCMoves, IdleWork DEF Moves, SameWork
  <2>2. \A r \in Slots : /\ sess'[r].conn = sess[r].conn /\ Rels'[r] = Rels[r]
                          /\ Refs'[r] = Refs[r]
    BY <1>19, SetDCMoves DEF SameTable, SameSlots, SameSlot, SameButRef
  <2>3. \A r \in Slots : ToRelease(r)' => ToRelease(r)
    BY <1>19, SetDCMoves DEF ToRelease
  <2> QED
    BY <2>1, <2>2, <2>3, StagesKept
<1>20. ASSUME NEW t \in Threads, Cancel(t) PROVE Stages'
  <2>1. /\ Others(t) /\ free' = free /\ left' = left
        /\ me'[t].job = "release" => me[t].job = "release" /\ me'[t].slot = me[t].slot /\ me'[t].pc # "lock"
    BY <1>20, CancelMoves, IdleWork DEF Moves, SameWork
  <2>2. \A r \in Slots : /\ sess'[r].conn = sess[r].conn /\ Rels'[r] = Rels[r]
                          /\ Refs'[r] = Refs[r]
    BY <1>20, CancelMoves DEF SameTable, SameSlots, SameSlot, SameButRef
  <2>3. \A r \in Slots : ToRelease(r)' => ToRelease(r)
    BY <1>20, CancelMoves DEF ToRelease
  <2> QED
    BY <2>1, <2>2, <2>3, StagesKept
<1>21. ASSUME NEW t \in Threads, NEW s \in Slots, Enter(t, s) PROVE Stages'
  <2>1. /\ Others(t) /\ free' = free /\ left' = left
        /\ me'[t].job = "release" => me[t].job = "release" /\ me'[t].slot = me[t].slot /\ me'[t].pc # "lock"
    BY <1>21, EnterMoves, IdleWork DEF Begun
  <2>2. \A r \in Slots : /\ sess'[r].conn = sess[r].conn /\ Rels'[r] = Rels[r]
                          /\ (Refs'[r] = Refs[r] \/ (Live(r) /\ Refs'[r] > 0))
    <3>1. CASE SameSlots
      BY <3>1 DEF SameSlots, SameSlot, SameButRef
    <3>2. CASE \E r \in Slots : /\ Live(r) /\ Refs[r] \in Nat /\ OtherSlots(r) /\ SameButRef(r)
                               /\ Refs'[r] = Refs[r] + 1
      BY <3>2 DEF OtherSlots, SameSlot, SameButRef
    <3> QED
      BY <1>21, <1>0, <3>1, <3>2, EnterMoves, OwnSlot
  <2>3. \A r \in Slots : ToRelease(r)' => ToRelease(r)
    BY <1>21, EnterMoves DEF ToRelease
  <2> QED
    BY <2>1, <2>2, <2>3, StagesKept
<1>22. ASSUME NEW g \in Groups, PostFrame(g) PROVE Stages'
  <2>1. sess' = sess /\ me' = me /\ free' = free /\ left' = left /\ \A r \in Slots : ToRelease(r)' => ToRelease(r)
    BY <1>22 DEF PostFrame, ToRelease
  <2>s. \A q \in Slots : Refs'[q] = Refs[q] /\ Rels'[q] = Rels[q] /\ sess'[q].conn = sess[q].conn
    BY <1>0, <2>1, NothingMoves, TableKept
  <2>2. ASSUME NEW r \in Slots PROVE Stage(r)'
    <3>1. \A u \in Threads : Releases(u, r)' => Releases(u, r)
      BY <2>1 DEF Releases
    <3> QED
      BY <1>0, <2>1, <2>s, <3>1, StageKept
  <2> QED
    BY <2>2 DEF Stages
<1>23. ASSUME NEW s \in Slots, PeerCloses(s) PROVE Stages'
  <2>1. sess' = sess /\ me' = me /\ free' = free /\ left' = left /\ \A r \in Slots : ToRelease(r)' => ToRelease(r)
    BY <1>23 DEF PeerCloses, ToRelease
  <2>s. \A q \in Slots : Refs'[q] = Refs[q] /\ Rels'[q] = Rels[q] /\ sess'[q].conn = sess[q].conn
    BY <1>0, <2>1, NothingMoves, TableKept
  <2>2. ASSUME NEW r \in Slots PROVE Stage(r)'
    <3>1. \A u \in Threads : Releases(u, r)' => Releases(u, r)
      BY <2>1 DEF Releases
    <3> QED
      BY <1>0, <2>1, <2>s, <3>1, StageKept
  <2> QED
    BY <2>2 DEF Stages
<1>24. ASSUME NEW s \in Slots, RecvEnds(s) PROVE Stages'
  <2>1. sess' = sess /\ me' = me /\ free' = free /\ left' = left /\ \A r \in Slots : ToRelease(r)' => ToRelease(r)
    BY <1>24, RecvEndsMoves DEF ToRelease
  <2>s. \A q \in Slots : Refs'[q] = Refs[q] /\ Rels'[q] = Rels[q] /\ sess'[q].conn = sess[q].conn
    BY <1>0, <2>1, NothingMoves, TableKept
  <2>2. ASSUME NEW r \in Slots PROVE Stage(r)'
    <3>1. \A u \in Threads : Releases(u, r)' => Releases(u, r)
      BY <2>1 DEF Releases
    <3> QED
      BY <1>0, <2>1, <2>s, <3>1, StageKept
  <2> QED
    BY <2>2 DEF Stages
<1>25. ASSUME NEW s \in Slots, NEW k \in 1..MaxMsg, PeerSends(s, k) PROVE Stages'
  <2>1. sess' = sess /\ me' = me /\ free' = free /\ left' = left /\ \A r \in Slots : ToRelease(r)' => ToRelease(r)
    BY <1>25, PeerSendsMoves DEF ToRelease
  <2>s. \A q \in Slots : Refs'[q] = Refs[q] /\ Rels'[q] = Rels[q] /\ sess'[q].conn = sess[q].conn
    BY <1>0, <2>1, NothingMoves, TableKept
  <2>2. ASSUME NEW r \in Slots PROVE Stage(r)'
    <3>1. \A u \in Threads : Releases(u, r)' => Releases(u, r)
      BY <2>1 DEF Releases
    <3> QED
      BY <1>0, <2>1, <2>s, <3>1, StageKept
  <2> QED
    BY <2>2 DEF Stages
<1>26. ASSUME UNCHANGED vars PROVE Stages'
  <2>1. sess' = sess /\ me' = me /\ free' = free /\ left' = left /\ \A r \in Slots : ToRelease(r)' => ToRelease(r)
    BY <1>26 DEF ToRelease
  <2>s. \A q \in Slots : Refs'[q] = Refs[q] /\ Rels'[q] = Rels[q] /\ sess'[q].conn = sess[q].conn
    BY <1>0, <2>1, NothingMoves, TableKept
  <2>2. ASSUME NEW r \in Slots PROVE Stage(r)'
    <3>1. \A u \in Threads : Releases(u, r)' => Releases(u, r)
      BY <2>1 DEF Releases
    <3> QED
      BY <1>0, <2>1, <2>s, <3>1, StageKept
  <2> QED
    BY <2>2 DEF Stages
<1> QED
  BY <1>1, <1>1a, <1>1b, <1>2, <1>3a, <1>3, <1>4, <1>5, <1>6, <1>7, <1>8, <1>9, <1>10, <1>11, <1>12, <1>13, <1>14,
     <1>15, <1>16, <1>17, <1>18, <1>19, <1>20, <1>21, <1>22, <1>23, <1>24, <1>25, <1>26,
     StepCases

-----------------------------------------------------------------------------
(* Connections, receives and locks *)

\* No connection begins.
LEMMA ConnsKept ==
  ASSUME IInv, \A r \in Slots : sess'[r].conn = sess[r].conn, accepted' = accepted,
         left' \subseteq 1..accepted, welcomed' \subseteq 1..accepted
  PROVE  ConnsApart'
  BY TypeFacts DEF ConnsApart


\* A connection has one slot at most.
LEMMA ConnsStep ==
  ASSUME IInv, NoScan, [Next]_vars
  PROVE  ConnsApart'
<1>0. /\ ConnsApart /\ accepted \in Nat /\ (\A r \in Slots : sess[r].conn \in Nat)
      /\ left \subseteq 1..accepted /\ welcomed \subseteq 1..accepted
  BY TypeFacts DEF SessRec, ConnsApart
<1>1. ASSUME NEW t \in Threads, Accept(t) PROVE ConnsApart'
  <2>1. PICK s \in Slots :
           /\ OtherSlots(s) /\ sess'[s].conn = accepted + 1 /\ accepted' = accepted + 1
           /\ left' = left /\ welcomed' = welcomed
    BY <1>1, AcceptMoves
  <2>2. \A r \in Slots : r # s => sess'[r].conn = sess[r].conn
    BY <2>1 DEF OtherSlots, SameSlot, SameButRef
  <2>3. \A r \in Slots : sess[r].conn \in Nat /\ sess[r].conn <= accepted
    BY <1>0 DEF ConnsApart
  <2>4. \A r \in Slots : sess'[r].conn <= accepted'
    BY <1>0, <2>1, <2>2, <2>3
  <2>5. \A r, q \in Slots : sess'[r].conn = sess'[q].conn => r = q \/ sess'[r].conn = 0
    <3>1. \A r \in Slots : r # s => sess'[r].conn # sess'[s].conn
      BY <1>0, <2>1, <2>2, <2>3
    <3> QED
      BY <1>0, <2>2, <3>1 DEF ConnsApart
  <2>6. left' \subseteq 1..accepted' /\ welcomed' \subseteq 1..accepted'
    BY <1>0, <2>1
  <2> QED
    BY <2>4, <2>5, <2>6 DEF ConnsApart
<1>1a. ASSUME NEW t \in Threads, InitCount(t) PROVE ConnsApart'
  <2>1. (\A r \in Slots : sess'[r].conn = sess[r].conn) /\ accepted' = accepted /\ left' = left /\ welcomed' = welcomed
    BY <1>1a, InitCountMoves DEF SameTable, SameSlots, SameSlot, SameButRef, OtherSlots
  <2> QED
    BY <1>0, <2>1, ConnsKept
<1>1b. ASSUME NEW t \in Threads, InitOpen(t) PROVE ConnsApart'
  <2>1. (\A r \in Slots : sess'[r].conn = sess[r].conn) /\ accepted' = accepted /\ left' = left /\ welcomed' = welcomed
    BY <1>1b, InitOpenMoves DEF SameTable, SameSlots, SameSlot, SameButRef, OtherSlots
  <2> QED
    BY <1>0, <2>1, ConnsKept
<1>2. ASSUME NEW t \in Threads, OnClientJoin(t) PROVE ConnsApart'
  <2>1. (\A r \in Slots : sess'[r].conn = sess[r].conn) /\ accepted' = accepted /\ left' = left /\ welcomed' = welcomed
    BY <1>2, OnClientJoinMoves DEF SameTable, SameSlots, SameSlot, SameButRef, OtherSlots
  <2> QED
    BY <1>0, <2>1, ConnsKept
<1>3a. ASSUME NEW t \in Threads, Post(t) PROVE ConnsApart'
  <2>1. (\A r \in Slots : sess'[r].conn = sess[r].conn) /\ accepted' = accepted /\ left' = left /\ welcomed' = welcomed
    BY <1>3a, PostMoves DEF SameTable, SameSlots, SameSlot, SameButRef, OtherSlots
  <2> QED
    BY <1>0, <2>1, ConnsKept
<1>3. ASSUME NEW t \in Threads, PostRecv(t) PROVE ConnsApart'
  <2>1. (\A r \in Slots : sess'[r].conn = sess[r].conn) /\ accepted' = accepted /\ left' = left /\ welcomed' = welcomed
    BY <1>3, PostRecvMoves DEF SameTable, SameSlots, SameSlot, SameButRef, OtherSlots
  <2> QED
    BY <1>0, <2>1, ConnsKept
<1>4. ASSUME NEW t \in Threads, Give(t) PROVE ConnsApart'
  <2>1. (\A r \in Slots : sess'[r].conn = sess[r].conn) /\ accepted' = accepted /\ left' = left /\ welcomed' = welcomed
    BY <1>4, GiveMoves DEF SameTable, SameSlots, SameSlot, SameButRef, OtherSlots
  <2> QED
    BY <1>0, <2>1, ConnsKept
<1>5. ASSUME NEW t \in Threads, NEW s \in Slots, TakeRecv(t, s) PROVE ConnsApart'
  <2>1. (\A r \in Slots : sess'[r].conn = sess[r].conn) /\ accepted' = accepted /\ left' = left /\ welcomed' = welcomed
    BY <1>5, TakeRecvMoves DEF SameTable, SameSlots, SameSlot, SameButRef, OtherSlots
  <2> QED
    BY <1>0, <2>1, ConnsKept
<1>6. ASSUME NEW t \in Threads, NextMessage(t) PROVE ConnsApart'
  <2>1. (\A r \in Slots : sess'[r].conn = sess[r].conn) /\ accepted' = accepted /\ left' = left /\ welcomed' = welcomed
    BY <1>6, NextMessageMoves DEF SameTable, SameSlots, SameSlot, SameButRef, OtherSlots
  <2> QED
    BY <1>0, <2>1, ConnsKept
<1>7. ASSUME NEW t \in Threads, RecvLock(t) PROVE ConnsApart'
  <2>1. (\A r \in Slots : sess'[r].conn = sess[r].conn) /\ accepted' = accepted /\ left' = left /\ welcomed' = welcomed
    BY <1>7, RecvLockMoves DEF SameTable, SameSlots, SameSlot, SameButRef, OtherSlots
  <2> QED
    BY <1>0, <2>1, ConnsKept
<1>8. ASSUME NEW t \in Threads, OnRecv(t) PROVE ConnsApart'
  <2>1. (\A r \in Slots : sess'[r].conn = sess[r].conn) /\ accepted' = accepted /\ left' = left /\ welcomed' = welcomed
    BY <1>8, OnRecvMoves DEF SameTable, SameSlots, SameSlot, SameButRef, OtherSlots
  <2> QED
    BY <1>0, <2>1, ConnsKept
<1>9. ASSUME NEW t \in Threads, Unlock(t) PROVE ConnsApart'
  <2>1. (\A r \in Slots : sess'[r].conn = sess[r].conn) /\ accepted' = accepted /\ left' = left /\ welcomed' = welcomed
    BY <1>9, UnlockMoves DEF SameTable, SameSlots, SameSlot, SameButRef, OtherSlots
  <2> QED
    BY <1>0, <2>1, ConnsKept
<1>10. ASSUME NEW t \in Threads, NEW p \in port, TakeMove(t, p) PROVE ConnsApart'
  <2>1. (\A r \in Slots : sess'[r].conn = sess[r].conn) /\ accepted' = accepted /\ left' = left /\ welcomed' = welcomed
    BY <1>10, TakeMoveMoves DEF SameTable, SameSlots, SameSlot, SameButRef, OtherSlots
  <2> QED
    BY <1>0, <2>1, ConnsKept
<1>11. ASSUME NEW t \in Threads, NEW p \in port, TakeRelease(t, p) PROVE ConnsApart'
  <2>1. (\A r \in Slots : sess'[r].conn = sess[r].conn) /\ accepted' = accepted /\ left' = left /\ welcomed' = welcomed
    BY <1>11, TakeReleaseMoves DEF SameTable, SameSlots, SameSlot, SameButRef, OtherSlots
  <2> QED
    BY <1>0, <2>1, ConnsKept
<1>12. ASSUME NEW t \in Threads, NEW p \in port, TakeFrame(t, p) PROVE ConnsApart'
  <2>1. (\A r \in Slots : sess'[r].conn = sess[r].conn) /\ accepted' = accepted /\ left' = left /\ welcomed' = welcomed
    BY <1>12, TakeFrameMoves DEF SameTable, SameSlots, SameSlot, SameButRef, OtherSlots
  <2> QED
    BY <1>0, <2>1, ConnsKept
<1>13. ASSUME NEW t \in Threads, MoveLock(t) PROVE ConnsApart'
  <2>1. (\A r \in Slots : sess'[r].conn = sess[r].conn) /\ accepted' = accepted /\ left' = left /\ welcomed' = welcomed
    BY <1>13, MoveLockMoves DEF SameTable, SameSlots, SameSlot, SameButRef, OtherSlots
  <2> QED
    BY <1>0, <2>1, ConnsKept
<1>14. ASSUME NEW t \in Threads, SetGroup(t) PROVE ConnsApart'
  <2>1. (\A r \in Slots : sess'[r].conn = sess[r].conn) /\ accepted' = accepted /\ left' = left /\ welcomed' = welcomed
    BY <1>14, SetGroupMoves DEF SameTable, SameSlots, SameSlot, SameButRef, OtherSlots
  <2> QED
    BY <1>0, <2>1, ConnsKept
<1>15. ASSUME NEW t \in Threads, OnIUserMove(t) PROVE ConnsApart'
  <2>1. /\ (\A r \in Slots : sess'[r].conn = sess[r].conn) /\ accepted' = accepted
        /\ me[t].slot \in Slots /\ Conn(t) \in Conns
        /\ left' \subseteq left \cup {Conn(t)} /\ welcomed' \subseteq welcomed \cup {Conn(t)}
    BY <1>15, OnIUserMoveMoves DEF SameTable
  <2>2. Conn(t) \in 1..accepted
    BY <1>0, <2>1 DEF ConnsApart, Conns
  <2> QED
    BY <1>0, <2>1, <2>2, ConnsKept
<1>16. ASSUME NEW t \in Threads, OnClientLeave(t) PROVE ConnsApart'
  <2>1. /\ (\A r \in Slots : sess'[r].conn = sess[r].conn) /\ accepted' = accepted
        /\ me[t].slot \in Slots /\ Conn(t) \in Conns
        /\ left' \subseteq left \cup {Conn(t)} /\ welcomed' \subseteq welcomed \cup {Conn(t)}
    BY <1>16, OnClientLeaveMoves DEF SameTable
  <2>2. Conn(t) \in 1..accepted
    BY <1>0, <2>1 DEF ConnsApart, Conns
  <2> QED
    BY <1>0, <2>1, <2>2, ConnsKept
<1>17. ASSUME NEW t \in Threads, Push(t) PROVE ConnsApart'
  <2>1. (\A r \in Slots : sess'[r].conn = sess[r].conn) /\ accepted' = accepted /\ left' = left /\ welcomed' = welcomed
    BY <1>17, PushMoves DEF SameTable, SameSlots, SameSlot, SameButRef, OtherSlots
  <2> QED
    BY <1>0, <2>1, ConnsKept
<1>18. ASSUME NEW t \in Threads, FrameLock(t) PROVE ConnsApart'
  <2>1. (\A r \in Slots : sess'[r].conn = sess[r].conn) /\ accepted' = accepted /\ left' = left /\ welcomed' = welcomed
    BY <1>18, FrameLockMoves DEF SameTable, SameSlots, SameSlot, SameButRef, OtherSlots
  <2> QED
    BY <1>0, <2>1, ConnsKept
<1>19. ASSUME NEW t \in Threads, SetDC(t) PROVE ConnsApart'
  <2>1. (\A r \in Slots : sess'[r].conn = sess[r].conn) /\ accepted' = accepted /\ left' = left /\ welcomed' = welcomed
    BY <1>19, SetDCMoves DEF SameTable, SameSlots, SameSlot, SameButRef, OtherSlots
  <2> QED
    BY <1>0, <2>1, ConnsKept
<1>20. ASSUME NEW t \in Threads, Cancel(t) PROVE ConnsApart'
  <2>1. (\A r \in Slots : sess'[r].conn = sess[r].conn) /\ accepted' = accepted /\ left' = left /\ welcomed' = welcomed
    BY <1>20, CancelMoves DEF SameTable, SameSlots, SameSlot, SameButRef, OtherSlots
  <2> QED
    BY <1>0, <2>1, ConnsKept
<1>21. ASSUME NEW t \in Threads, NEW s \in Slots, Enter(t, s) PROVE ConnsApart'
  <2>1. (\A r \in Slots : sess'[r].conn = sess[r].conn) /\ accepted' = accepted /\ left' = left /\ welcomed' = welcomed
    BY <1>21, EnterMoves DEF SameTable, SameSlots, SameSlot, SameButRef, OtherSlots
  <2> QED
    BY <1>0, <2>1, ConnsKept
<1>22. ASSUME NEW g \in Groups, PostFrame(g) PROVE ConnsApart'
  <2>1. sess' = sess /\ accepted' = accepted /\ left' = left /\ welcomed' = welcomed
    BY <1>22 DEF PostFrame
  <2> QED
    BY <1>0, <2>1, ConnsKept
<1>23. ASSUME NEW s \in Slots, PeerCloses(s) PROVE ConnsApart'
  <2>1. sess' = sess /\ accepted' = accepted /\ left' = left /\ welcomed' = welcomed
    BY <1>23 DEF PeerCloses
  <2> QED
    BY <1>0, <2>1, ConnsKept
<1>24. ASSUME NEW s \in Slots, RecvEnds(s) PROVE ConnsApart'
  <2>1. sess' = sess /\ accepted' = accepted /\ left' = left /\ welcomed' = welcomed
    BY <1>24, RecvEndsMoves
  <2> QED
    BY <1>0, <2>1, ConnsKept
<1>25. ASSUME NEW s \in Slots, NEW k \in 1..MaxMsg, PeerSends(s, k) PROVE ConnsApart'
  <2>1. sess' = sess /\ accepted' = accepted /\ left' = left /\ welcomed' = welcomed
    BY <1>25, PeerSendsMoves
  <2> QED
    BY <1>0, <2>1, ConnsKept
<1>26. ASSUME UNCHANGED vars PROVE ConnsApart'
  <2>1. sess' = sess /\ accepted' = accepted /\ left' = left /\ welcomed' = welcomed
    BY <1>26
  <2> QED
    BY <1>0, <2>1, ConnsKept
<1> QED
  BY <1>1, <1>1a, <1>1b, <1>2, <1>3a, <1>3, <1>4, <1>5, <1>6, <1>7, <1>8, <1>9, <1>10, <1>11, <1>12, <1>13, <1>14,
     <1>15, <1>16, <1>17, <1>18, <1>19, <1>20, <1>21, <1>22, <1>23, <1>24, <1>25, <1>26,
     StepCases

\* No thread enters a receive, and no receive is posted.
LEMMA ReceiveKept ==
  ASSUME IInv, NEW t \in Threads, Others(t), \A r \in Slots : Receiving(t, r)' => Receiving(t, r),
         \A r \in Slots : recv[r] = "none" => recv'[r] = "none"
  PROVE  OneReceive'
<1> SUFFICES ASSUME NEW r \in Slots, NEW u \in Threads, Receiving(u, r)'
             PROVE  recv'[r] = "none" /\ \A v \in Threads : Receiving(v, r)' => u = v
  BY DEF OneReceive
<1>1. \A v \in Threads : Receiving(v, r)' => Receiving(v, r)
  BY DEF Receiving, Others
<1>2. OneReceive
  BY TypeFacts
<1> QED
  BY <1>1, <1>2 DEF OneReceive


\* One thread at most is in the receive of a session, and none while one is pending.
LEMMA ReceiveStep ==
  ASSUME IInv, NoScan, [Next]_vars
  PROVE  OneReceive'
<1>0. OneReceive /\ None \notin Slots
  BY TypeFacts
<1>1. ASSUME NEW t \in Threads, Accept(t) PROVE OneReceive'
  <2>a. PICK s \in free : s \in Slots /\ Begun(t, "named", s, "accept") /\ recv' = recv
    BY <1>1, AcceptMoves
  <2>b. Others(t) /\ me'[t].slot = s
    BY <2>a DEF Begun
  <2> SUFFICES ASSUME NEW r \in Slots, NEW u \in Threads, Receiving(u, r)'
               PROVE  recv'[r] = "none" /\ \A v \in Threads : Receiving(v, r)' => u = v
    BY DEF OneReceive
  <2>1. \A v \in Threads : v # t => (Receiving(v, r)' <=> Receiving(v, r))
    BY <2>b DEF Receiving, Others
  <2>2. Receiving(t, r)' => r = s
    BY <2>b DEF Receiving
  <2>3. \A v \in Threads : ~Receiving(v, s)
    BY <2>a, ThreadKeeps, SlotKept DEF Receiving, Holds
  <2>4. r # s => (recv[r] = "none" => recv'[r] = "none")
    BY <2>a DEF OtherRecvs
  <2>5. recv'[s] = "none"
    BY <1>0, <2>a, RecvKeeps, SlotKept
  <2> QED
    BY <1>0, <2>1, <2>2, <2>3, <2>4, <2>5 DEF OneReceive
<1>1a. ASSUME NEW t \in Threads, InitCount(t) PROVE OneReceive'
  <2>1. Others(t) /\ \A r \in Slots : recv[r] = "none" => recv'[r] = "none"
    BY <1>1a, InitCountMoves DEF Moves, SameWork, OtherRecvs
  <2>2. \A r \in Slots : Receiving(t, r)' => Receiving(t, r)
    BY <1>1a, <1>0, InitCountMoves, IdleWork DEF Moves, SameWork, Receiving
  <2> QED
    BY <2>1, <2>2, ReceiveKept
<1>1b. ASSUME NEW t \in Threads, InitOpen(t) PROVE OneReceive'
  <2>1. Others(t) /\ \A r \in Slots : recv[r] = "none" => recv'[r] = "none"
    BY <1>1b, InitOpenMoves DEF Moves, SameWork, OtherRecvs
  <2>2. \A r \in Slots : Receiving(t, r)' => Receiving(t, r)
    BY <1>1b, <1>0, InitOpenMoves, IdleWork DEF Moves, SameWork, Receiving
  <2> QED
    BY <2>1, <2>2, ReceiveKept
<1>2. ASSUME NEW t \in Threads, OnClientJoin(t) PROVE OneReceive'
  <2>1. Others(t) /\ \A r \in Slots : recv[r] = "none" => recv'[r] = "none"
    BY <1>2, OnClientJoinMoves DEF Moves, SameWork, OtherRecvs
  <2>2. \A r \in Slots : Receiving(t, r)' => Receiving(t, r)
    BY <1>2, <1>0, OnClientJoinMoves, IdleWork DEF Moves, SameWork, Receiving
  <2> QED
    BY <2>1, <2>2, ReceiveKept
<1>3a. ASSUME NEW t \in Threads, Post(t) PROVE OneReceive'
  <2>1. Others(t) /\ \A r \in Slots : recv[r] = "none" => recv'[r] = "none"
    BY <1>3a, PostMoves DEF Moves, SameWork, OtherRecvs
  <2>2. \A r \in Slots : Receiving(t, r)' => Receiving(t, r)
    BY <1>3a, <1>0, PostMoves, IdleWork DEF Moves, SameWork, Receiving
  <2> QED
    BY <2>1, <2>2, ReceiveKept
<1>3. ASSUME NEW t \in Threads, PostRecv(t) PROVE OneReceive'
  <2>a. /\ me[t].pc = "wsa" /\ me[t].job \in {"accept", "recv"} /\ Moves(t, "give") /\ me[t].slot \in Slots
        /\ \A r \in Slots : r # me[t].slot => recv'[r] = recv[r]
    BY <1>3, PostRecvMoves DEF OtherRecvs
  <2>b. Others(t) /\ me'[t].pc = "give"
    BY <2>a DEF Moves
  <2>1. Receiving(t, me[t].slot)
    BY <2>a DEF Receiving
  <2> SUFFICES ASSUME NEW r \in Slots, NEW u \in Threads, Receiving(u, r)'
               PROVE  recv'[r] = "none" /\ \A v \in Threads : Receiving(v, r)' => u = v
    BY DEF OneReceive
  <2>2. \A v \in Threads : Receiving(v, r)' => v # t /\ Receiving(v, r)
    BY <2>b DEF Receiving, Others
  <2>3. r # me[t].slot
    BY <1>0, <2>a, <2>1, <2>2 DEF OneReceive
  <2> QED
    BY <1>0, <2>a, <2>2, <2>3 DEF OneReceive
<1>4. ASSUME NEW t \in Threads, Give(t) PROVE OneReceive'
  <2>1. Others(t) /\ \A r \in Slots : recv[r] = "none" => recv'[r] = "none"
    BY <1>4, GiveMoves DEF Rests, OtherRecvs
  <2>2. \A r \in Slots : Receiving(t, r)' => Receiving(t, r)
    BY <1>4, <1>0, GiveMoves, IdleWork DEF Rests, Receiving
  <2> QED
    BY <2>1, <2>2, ReceiveKept
<1>5. ASSUME NEW t \in Threads, NEW s \in Slots, TakeRecv(t, s) PROVE OneReceive'
  <2>a. Begun(t, "next", s, "recv") /\ recv[s] # "none" /\ recv'[s] = "none" /\ OtherRecvs(s)
    BY <1>5, TakeRecvMoves
  <2>b. Others(t) /\ me'[t].slot = s
    BY <2>a DEF Begun
  <2> SUFFICES ASSUME NEW r \in Slots, NEW u \in Threads, Receiving(u, r)'
               PROVE  recv'[r] = "none" /\ \A v \in Threads : Receiving(v, r)' => u = v
    BY DEF OneReceive
  <2>1. \A v \in Threads : v # t => (Receiving(v, r)' <=> Receiving(v, r))
    BY <2>b DEF Receiving, Others
  <2>2. Receiving(t, r)' => r = s
    BY <2>b DEF Receiving
  <2>3. \A v \in Threads : ~Receiving(v, s)
    BY <1>0, <2>a DEF OneReceive
  <2>4. r # s => (recv[r] = "none" => recv'[r] = "none")
    BY <2>a DEF OtherRecvs
  <2>5. recv'[s] = "none"
    BY <2>a
  <2> QED
    BY <1>0, <2>1, <2>2, <2>3, <2>4, <2>5 DEF OneReceive
<1>6. ASSUME NEW t \in Threads, NextMessage(t) PROVE OneReceive'
  <2>1. Others(t) /\ \A r \in Slots : recv[r] = "none" => recv'[r] = "none"
    BY <1>6, NextMessageMoves DEF OtherRecvs
  <2>2. \A r \in Slots : Receiving(t, r)' => Receiving(t, r)
    BY <1>6, <1>0, NextMessageMoves, IdleWork DEF Receiving
  <2> QED
    BY <2>1, <2>2, ReceiveKept
<1>7. ASSUME NEW t \in Threads, RecvLock(t) PROVE OneReceive'
  <2>1. Others(t) /\ \A r \in Slots : recv[r] = "none" => recv'[r] = "none"
    BY <1>7, RecvLockMoves DEF Moves, SameWork, OtherRecvs
  <2>2. \A r \in Slots : Receiving(t, r)' => Receiving(t, r)
    BY <1>7, <1>0, RecvLockMoves, IdleWork DEF Moves, SameWork, Receiving
  <2> QED
    BY <2>1, <2>2, ReceiveKept
<1>8. ASSUME NEW t \in Threads, OnRecv(t) PROVE OneReceive'
  <2>1. Others(t) /\ \A r \in Slots : recv[r] = "none" => recv'[r] = "none"
    BY <1>8, OnRecvMoves DEF Moves, SameWork, OtherRecvs
  <2>2. \A r \in Slots : Receiving(t, r)' => Receiving(t, r)
    BY <1>8, <1>0, OnRecvMoves, IdleWork DEF Moves, SameWork, Receiving
  <2> QED
    BY <2>1, <2>2, ReceiveKept
<1>9. ASSUME NEW t \in Threads, Unlock(t) PROVE OneReceive'
  <2>1. Others(t) /\ \A r \in Slots : recv[r] = "none" => recv'[r] = "none"
    BY <1>9, UnlockMoves DEF Moves, Rests, SameWork, OtherRecvs
  <2>2. \A r \in Slots : Receiving(t, r)' => Receiving(t, r)
    BY <1>9, <1>0, UnlockMoves, IdleWork DEF Moves, Rests, SameWork, Receiving
  <2> QED
    BY <2>1, <2>2, ReceiveKept
<1>10. ASSUME NEW t \in Threads, NEW p \in port, TakeMove(t, p) PROVE OneReceive'
  <2>1. Others(t) /\ \A r \in Slots : recv[r] = "none" => recv'[r] = "none"
    BY <1>10, TakeMoveMoves DEF Begun, OtherRecvs
  <2>2. \A r \in Slots : Receiving(t, r)' => Receiving(t, r)
    BY <1>10, <1>0, TakeMoveMoves, IdleWork DEF Begun, Receiving
  <2> QED
    BY <2>1, <2>2, ReceiveKept
<1>11. ASSUME NEW t \in Threads, NEW p \in port, TakeRelease(t, p) PROVE OneReceive'
  <2>1. Others(t) /\ \A r \in Slots : recv[r] = "none" => recv'[r] = "none"
    BY <1>11, TakeReleaseMoves DEF Begun, OtherRecvs
  <2>2. \A r \in Slots : Receiving(t, r)' => Receiving(t, r)
    BY <1>11, <1>0, TakeReleaseMoves, IdleWork DEF Begun, Receiving
  <2> QED
    BY <2>1, <2>2, ReceiveKept
<1>12. ASSUME NEW t \in Threads, NEW p \in port, TakeFrame(t, p) PROVE OneReceive'
  <2>1. Others(t) /\ \A r \in Slots : recv[r] = "none" => recv'[r] = "none"
    BY <1>12, TakeFrameMoves DEF Begun, OtherRecvs
  <2>2. \A r \in Slots : Receiving(t, r)' => Receiving(t, r)
    BY <1>12, <1>0, TakeFrameMoves, IdleWork DEF Begun, Receiving
  <2> QED
    BY <2>1, <2>2, ReceiveKept
<1>13. ASSUME NEW t \in Threads, MoveLock(t) PROVE OneReceive'
  <2>1. Others(t) /\ \A r \in Slots : recv[r] = "none" => recv'[r] = "none"
    BY <1>13, MoveLockMoves DEF Moves, SameWork, OtherRecvs
  <2>2. \A r \in Slots : Receiving(t, r)' => Receiving(t, r)
    BY <1>13, <1>0, MoveLockMoves, IdleWork DEF Moves, SameWork, Receiving
  <2> QED
    BY <2>1, <2>2, ReceiveKept
<1>14. ASSUME NEW t \in Threads, SetGroup(t) PROVE OneReceive'
  <2>1. Others(t) /\ \A r \in Slots : recv[r] = "none" => recv'[r] = "none"
    BY <1>14, SetGroupMoves DEF Moves, SameWork, OtherRecvs
  <2>2. \A r \in Slots : Receiving(t, r)' => Receiving(t, r)
    BY <1>14, <1>0, SetGroupMoves, IdleWork DEF Moves, SameWork, Receiving
  <2> QED
    BY <2>1, <2>2, ReceiveKept
<1>15. ASSUME NEW t \in Threads, OnIUserMove(t) PROVE OneReceive'
  <2>1. Others(t) /\ \A r \in Slots : recv[r] = "none" => recv'[r] = "none"
    BY <1>15, OnIUserMoveMoves DEF Moves, SameWork, OtherRecvs
  <2>2. \A r \in Slots : Receiving(t, r)' => Receiving(t, r)
    BY <1>15, <1>0, OnIUserMoveMoves, IdleWork DEF Moves, SameWork, Receiving
  <2> QED
    BY <2>1, <2>2, ReceiveKept
<1>16. ASSUME NEW t \in Threads, OnClientLeave(t) PROVE OneReceive'
  <2>1. Others(t) /\ \A r \in Slots : recv[r] = "none" => recv'[r] = "none"
    BY <1>16, OnClientLeaveMoves DEF Moves, SameWork, OtherRecvs
  <2>2. \A r \in Slots : Receiving(t, r)' => Receiving(t, r)
    BY <1>16, <1>0, OnClientLeaveMoves, IdleWork DEF Moves, SameWork, Receiving
  <2> QED
    BY <2>1, <2>2, ReceiveKept
<1>17. ASSUME NEW t \in Threads, Push(t) PROVE OneReceive'
  <2>1. Others(t) /\ \A r \in Slots : recv[r] = "none" => recv'[r] = "none"
    BY <1>17, PushMoves DEF Rests, OtherRecvs
  <2>2. \A r \in Slots : Receiving(t, r)' => Receiving(t, r)
    BY <1>17, <1>0, PushMoves, IdleWork DEF Rests, Receiving
  <2> QED
    BY <2>1, <2>2, ReceiveKept
<1>18. ASSUME NEW t \in Threads, FrameLock(t) PROVE OneReceive'
  <2>1. Others(t) /\ \A r \in Slots : recv[r] = "none" => recv'[r] = "none"
    BY <1>18, FrameLockMoves DEF Moves, SameWork, OtherRecvs
  <2>2. \A r \in Slots : Receiving(t, r)' => Receiving(t, r)
    BY <1>18, <1>0, FrameLockMoves, IdleWork DEF Moves, SameWork, Receiving
  <2> QED
    BY <2>1, <2>2, ReceiveKept
<1>19. ASSUME NEW t \in Threads, SetDC(t) PROVE OneReceive'
  <2>1. Others(t) /\ \A r \in Slots : recv[r] = "none" => recv'[r] = "none"
    BY <1>19, SetDCMoves DEF Moves, SameWork, OtherRecvs
  <2>2. \A r \in Slots : Receiving(t, r)' => Receiving(t, r)
    BY <1>19, <1>0, SetDCMoves, IdleWork DEF Moves, SameWork, Receiving
  <2> QED
    BY <2>1, <2>2, ReceiveKept
<1>20. ASSUME NEW t \in Threads, Cancel(t) PROVE OneReceive'
  <2>1. Others(t) /\ \A r \in Slots : recv[r] = "none" => recv'[r] = "none"
    BY <1>20, CancelMoves DEF Moves, SameWork, OtherRecvs
  <2>2. \A r \in Slots : Receiving(t, r)' => Receiving(t, r)
    BY <1>20, <1>0, CancelMoves, IdleWork DEF Moves, SameWork, Receiving
  <2> QED
    BY <2>1, <2>2, ReceiveKept
<1>21. ASSUME NEW t \in Threads, NEW s \in Slots, Enter(t, s) PROVE OneReceive'
  <2>1. Others(t) /\ \A r \in Slots : recv[r] = "none" => recv'[r] = "none"
    BY <1>21, EnterMoves DEF Begun, OtherRecvs
  <2>2. \A r \in Slots : Receiving(t, r)' => Receiving(t, r)
    BY <1>21, <1>0, EnterMoves, IdleWork DEF Begun, Receiving
  <2> QED
    BY <2>1, <2>2, ReceiveKept
<1>22. ASSUME NEW g \in Groups, PostFrame(g) PROVE OneReceive'
  <2>1. me' = me /\ \A r \in Slots : recv[r] = "none" => recv'[r] = "none"
    BY <1>22 DEF PostFrame
  <2>2. \A r \in Slots, u \in Threads : Receiving(u, r)' => Receiving(u, r)
    BY <2>1 DEF Receiving
  <2> QED
    BY <1>0, <2>1, <2>2 DEF OneReceive
<1>23. ASSUME NEW s \in Slots, PeerCloses(s) PROVE OneReceive'
  <2>1. me' = me /\ \A r \in Slots : recv[r] = "none" => recv'[r] = "none"
    BY <1>23 DEF PeerCloses
  <2>2. \A r \in Slots, u \in Threads : Receiving(u, r)' => Receiving(u, r)
    BY <2>1 DEF Receiving
  <2> QED
    BY <1>0, <2>1, <2>2 DEF OneReceive
<1>24. ASSUME NEW s \in Slots, RecvEnds(s) PROVE OneReceive'
  <2>1. me' = me /\ \A r \in Slots : recv[r] = "none" => recv'[r] = "none"
    BY <1>24, RecvEndsMoves DEF OtherRecvs
  <2>2. \A r \in Slots, u \in Threads : Receiving(u, r)' => Receiving(u, r)
    BY <2>1 DEF Receiving
  <2> QED
    BY <1>0, <2>1, <2>2 DEF OneReceive
<1>25. ASSUME NEW s \in Slots, NEW k \in 1..MaxMsg, PeerSends(s, k) PROVE OneReceive'
  <2>1. me' = me /\ \A r \in Slots : recv[r] = "none" => recv'[r] = "none"
    BY <1>25, PeerSendsMoves DEF OtherRecvs
  <2>2. \A r \in Slots, u \in Threads : Receiving(u, r)' => Receiving(u, r)
    BY <2>1 DEF Receiving
  <2> QED
    BY <1>0, <2>1, <2>2 DEF OneReceive
<1>26. ASSUME UNCHANGED vars PROVE OneReceive'
  <2>1. me' = me /\ \A r \in Slots : recv[r] = "none" => recv'[r] = "none"
    BY <1>26
  <2>2. \A r \in Slots, u \in Threads : Receiving(u, r)' => Receiving(u, r)
    BY <2>1 DEF Receiving
  <2> QED
    BY <1>0, <2>1, <2>2 DEF OneReceive
<1> QED
  BY <1>1, <1>1a, <1>1b, <1>2, <1>3a, <1>3, <1>4, <1>5, <1>6, <1>7, <1>8, <1>9, <1>10, <1>11, <1>12, <1>13, <1>14,
     <1>15, <1>16, <1>17, <1>18, <1>19, <1>20, <1>21, <1>22, <1>23, <1>24, <1>25, <1>26,
     StepCases

\* The locks stay as they are; no thread gets to where it needs one.
LEMMA LocksSame ==
  ASSUME IInv, NEW t \in Threads, Others(t), lock' = lock,
         me'[t].pc = "recv" /\ me'[t].group = Echo => me[t].pc = "recv" /\ me[t].group = Echo,
         me'[t].pc \in {"set", "user"} => me[t].pc \in {"set", "user"}
  PROVE  LocksKept'
<1>1. LocksKept
  BY TypeFacts
<1>2. \A u \in Threads : u # t => me'[u] = me[u]
  BY DEF Others
<1> QED
  BY <1>1, <1>2 DEF LocksKept

\* A thread takes a lock that was free.
LEMMA LockTaken ==
  ASSUME IInv, NEW t \in Threads, Others(t), NEW g \in Groups, Takes(t, g),
         me'[t].pc = "recv" => me'[t].group = Auth,
         me'[t].pc \in {"set", "user"} => g = Echo
  PROVE  LocksKept'
<1>1. LocksKept /\ None \notin Threads /\ Echo \in Groups /\ Auth # Echo
  BY TypeFacts
<1>2. \A u \in Threads : u # t => me'[u] = me[u]
  BY DEF Others
<1>3. CASE g = Echo
  <2>1. lock[Echo].excl = None /\ lock[Echo].shared = {} /\ lock'[Echo].excl = t /\ lock'[Echo].shared = {}
    BY <1>3 DEF Takes
  <2>2. \A u \in Threads : u # t => ~(me[u].pc = "recv" /\ me[u].group = Echo) /\ me[u].pc \notin {"set", "user"}
    BY <1>1, <2>1 DEF LocksKept
  <2> QED
    BY <1>1, <1>2, <2>1, <2>2 DEF LocksKept
<1>4. CASE g # Echo
  <2>1. lock'[Echo] = lock[Echo]
    BY <1>1, <1>4 DEF Takes
  <2> QED
    BY <1>1, <1>2, <1>4, <2>1 DEF LocksKept
<1> QED
  BY <1>3, <1>4


\* OnRecv of CEcho has the lock of CEcho shared, a move has it alone.
LEMMA LocksStep ==
  ASSUME IInv, NoScan, [Next]_vars
  PROVE  LocksKept'
<1>0. LocksKept /\ None \notin Threads /\ Echo \in Groups /\ Auth \in Groups /\ Auth # Echo
  BY TypeFacts
<1>1. ASSUME NEW t \in Threads, Accept(t) PROVE LocksKept'
  <2>1. /\ Others(t) /\ lock' = lock /\ me'[t].pc # "recv"
        /\ me'[t].pc \in {"set", "user"} => me[t].pc \in {"set", "user"}
    BY <1>1, AcceptMoves, IdleWork DEF Begun
  <2> QED
    BY <2>1, LocksSame
<1>1a. ASSUME NEW t \in Threads, InitCount(t) PROVE LocksKept'
  <2>1. /\ Others(t) /\ lock' = lock /\ me'[t].pc # "recv"
        /\ me'[t].pc \in {"set", "user"} => me[t].pc \in {"set", "user"}
    BY <1>1a, InitCountMoves, IdleWork DEF Moves, SameWork
  <2> QED
    BY <2>1, LocksSame
<1>1b. ASSUME NEW t \in Threads, InitOpen(t) PROVE LocksKept'
  <2>1. /\ Others(t) /\ lock' = lock /\ me'[t].pc # "recv"
        /\ me'[t].pc \in {"set", "user"} => me[t].pc \in {"set", "user"}
    BY <1>1b, InitOpenMoves, IdleWork DEF Moves, SameWork
  <2> QED
    BY <2>1, LocksSame
<1>2. ASSUME NEW t \in Threads, OnClientJoin(t) PROVE LocksKept'
  <2>1. Others(t) /\ me'[t].pc \notin {"recv", "set", "user"}
    BY <1>2, OnClientJoinMoves DEF Moves
  <2>2. PICK g \in Groups : Takes(t, g)
    BY <1>2, OnClientJoinMoves
  <2> QED
    BY <2>1, <2>2, LockTaken
<1>3a. ASSUME NEW t \in Threads, Post(t) PROVE LocksKept'
  <2>1. /\ Others(t) /\ lock' = lock /\ me'[t].pc # "recv"
        /\ me'[t].pc \in {"set", "user"} => me[t].pc \in {"set", "user"}
    BY <1>3a, PostMoves, IdleWork DEF Moves, SameWork
  <2> QED
    BY <2>1, LocksSame
<1>3. ASSUME NEW t \in Threads, PostRecv(t) PROVE LocksKept'
  <2>1. /\ Others(t) /\ lock' = lock /\ me'[t].pc # "recv"
        /\ me'[t].pc \in {"set", "user"} => me[t].pc \in {"set", "user"}
    BY <1>3, PostRecvMoves, IdleWork DEF Moves, SameWork
  <2> QED
    BY <2>1, LocksSame
<1>4. ASSUME NEW t \in Threads, Give(t) PROVE LocksKept'
  <2>1. /\ Others(t) /\ lock' = lock /\ me'[t].pc # "recv"
        /\ me'[t].pc \in {"set", "user"} => me[t].pc \in {"set", "user"}
    BY <1>4, GiveMoves, IdleWork DEF Rests
  <2> QED
    BY <2>1, LocksSame
<1>5. ASSUME NEW t \in Threads, NEW s \in Slots, TakeRecv(t, s) PROVE LocksKept'
  <2>1. /\ Others(t) /\ lock' = lock /\ me'[t].pc # "recv"
        /\ me'[t].pc \in {"set", "user"} => me[t].pc \in {"set", "user"}
    BY <1>5, TakeRecvMoves, IdleWork DEF Begun
  <2> QED
    BY <2>1, LocksSame
<1>6. ASSUME NEW t \in Threads, NextMessage(t) PROVE LocksKept'
  <2>1. /\ Others(t) /\ lock' = lock /\ me'[t].pc # "recv"
        /\ me'[t].pc \in {"set", "user"} => me[t].pc \in {"set", "user"}
    BY <1>6, NextMessageMoves, IdleWork
  <2> QED
    BY <2>1, LocksSame
<1>7. ASSUME NEW t \in Threads, RecvLock(t) PROVE LocksKept'
  <2>1. Others(t) /\ me'[t].pc = "recv" /\ me'[t].group = me[t].group
    BY <1>7, RecvLockMoves DEF Moves, SameWork
  <2>2. CASE me[t].group = Auth /\ Takes(t, Auth)
    BY <1>0, <2>1, <2>2, LockTaken
  <2>3. CASE /\ me[t].group = Echo /\ lock[Echo].excl = None /\ lock'[Echo].excl = None
             /\ lock'[Echo].shared = lock[Echo].shared \cup {t}
    <3>1. \A u \in Threads : u # t => me'[u] = me[u]
      BY <2>1 DEF Others
    <3>2. \A u \in Threads : me[u].pc \notin {"set", "user"}
      BY <1>0, <2>3 DEF LocksKept
    <3> QED
      BY <1>0, <2>1, <2>3, <3>1, <3>2 DEF LocksKept
  <2> QED
    BY <1>7, <2>2, <2>3, RecvLockMoves
<1>8. ASSUME NEW t \in Threads, OnRecv(t) PROVE LocksKept'
  <2>1. /\ Others(t) /\ lock' = lock /\ me'[t].pc # "recv"
        /\ me'[t].pc \in {"set", "user"} => me[t].pc \in {"set", "user"}
    BY <1>8, OnRecvMoves, IdleWork DEF Moves, SameWork
  <2> QED
    BY <2>1, LocksSame
<1>9. ASSUME NEW t \in Threads, Unlock(t) PROVE LocksKept'
  <2>1. Others(t) /\ me'[t].pc \notin {"recv", "set", "user"}
    BY <1>9, UnlockMoves, IdleWork DEF Moves, Rests
  <2>2. /\ lock'[Echo].excl = IF lock[Echo].excl = t THEN None ELSE lock[Echo].excl
        /\ lock'[Echo].shared = lock[Echo].shared \ {t}
    BY <1>9, <1>0, UnlockMoves
  <2>3. \A u \in Threads : u # t => me'[u] = me[u]
    BY <2>1 DEF Others
  <2> QED
    BY <1>0, <2>1, <2>2, <2>3 DEF LocksKept
<1>10. ASSUME NEW t \in Threads, NEW p \in port, TakeMove(t, p) PROVE LocksKept'
  <2>1. /\ Others(t) /\ lock' = lock /\ me'[t].pc # "recv"
        /\ me'[t].pc \in {"set", "user"} => me[t].pc \in {"set", "user"}
    BY <1>10, TakeMoveMoves, IdleWork DEF Begun
  <2> QED
    BY <2>1, LocksSame
<1>11. ASSUME NEW t \in Threads, NEW p \in port, TakeRelease(t, p) PROVE LocksKept'
  <2>1. /\ Others(t) /\ lock' = lock /\ me'[t].pc # "recv"
        /\ me'[t].pc \in {"set", "user"} => me[t].pc \in {"set", "user"}
    BY <1>11, TakeReleaseMoves, IdleWork DEF Begun
  <2> QED
    BY <2>1, LocksSame
<1>12. ASSUME NEW t \in Threads, NEW p \in port, TakeFrame(t, p) PROVE LocksKept'
  <2>1. /\ Others(t) /\ lock' = lock /\ me'[t].pc # "recv"
        /\ me'[t].pc \in {"set", "user"} => me[t].pc \in {"set", "user"}
    BY <1>12, TakeFrameMoves, IdleWork DEF Begun
  <2> QED
    BY <2>1, LocksSame
<1>13. ASSUME NEW t \in Threads, MoveLock(t) PROVE LocksKept'
  <2>1. Others(t) /\ me'[t].pc = "set" /\ Takes(t, Echo)
    BY <1>13, MoveLockMoves DEF Moves
  <2> QED
    BY <1>0, <2>1, LockTaken
<1>14. ASSUME NEW t \in Threads, SetGroup(t) PROVE LocksKept'
  <2>1. /\ Others(t) /\ lock' = lock /\ me'[t].pc # "recv"
        /\ me'[t].pc \in {"set", "user"} => me[t].pc \in {"set", "user"}
    BY <1>14, SetGroupMoves, IdleWork DEF Moves, SameWork
  <2> QED
    BY <2>1, LocksSame
<1>15. ASSUME NEW t \in Threads, OnIUserMove(t) PROVE LocksKept'
  <2>1. /\ Others(t) /\ lock' = lock /\ me'[t].pc # "recv"
        /\ me'[t].pc \in {"set", "user"} => me[t].pc \in {"set", "user"}
    BY <1>15, OnIUserMoveMoves, IdleWork DEF Moves, SameWork
  <2> QED
    BY <2>1, LocksSame
<1>16. ASSUME NEW t \in Threads, OnClientLeave(t) PROVE LocksKept'
  <2>1. Others(t) /\ me'[t].pc \notin {"recv", "set", "user"}
    BY <1>16, OnClientLeaveMoves DEF Moves
  <2>2. PICK g \in Groups : Takes(t, g)
    BY <1>16, OnClientLeaveMoves
  <2> QED
    BY <2>1, <2>2, LockTaken
<1>17. ASSUME NEW t \in Threads, Push(t) PROVE LocksKept'
  <2>1. /\ Others(t) /\ lock' = lock /\ me'[t].pc # "recv"
        /\ me'[t].pc \in {"set", "user"} => me[t].pc \in {"set", "user"}
    BY <1>17, PushMoves, IdleWork DEF Rests
  <2> QED
    BY <2>1, LocksSame
<1>18. ASSUME NEW t \in Threads, FrameLock(t) PROVE LocksKept'
  <2>1. Others(t) /\ me'[t].pc \notin {"recv", "set", "user"}
    BY <1>18, FrameLockMoves DEF Moves
  <2>2. PICK g \in Groups : Takes(t, g)
    BY <1>18, FrameLockMoves
  <2> QED
    BY <2>1, <2>2, LockTaken
<1>19. ASSUME NEW t \in Threads, SetDC(t) PROVE LocksKept'
  <2>1. /\ Others(t) /\ lock' = lock /\ me'[t].pc # "recv"
        /\ me'[t].pc \in {"set", "user"} => me[t].pc \in {"set", "user"}
    BY <1>19, SetDCMoves, IdleWork DEF Moves, SameWork
  <2> QED
    BY <2>1, LocksSame
<1>20. ASSUME NEW t \in Threads, Cancel(t) PROVE LocksKept'
  <2>1. /\ Others(t) /\ lock' = lock /\ me'[t].pc # "recv"
        /\ me'[t].pc \in {"set", "user"} => me[t].pc \in {"set", "user"}
    BY <1>20, CancelMoves, IdleWork DEF Moves, SameWork
  <2> QED
    BY <2>1, LocksSame
<1>21. ASSUME NEW t \in Threads, NEW s \in Slots, Enter(t, s) PROVE LocksKept'
  <2>1. /\ Others(t) /\ lock' = lock /\ me'[t].pc # "recv"
        /\ me'[t].pc \in {"set", "user"} => me[t].pc \in {"set", "user"}
    BY <1>21, EnterMoves, IdleWork DEF Begun
  <2> QED
    BY <2>1, LocksSame
<1>22. ASSUME NEW g \in Groups, PostFrame(g) PROVE LocksKept'
  <2>1. me' = me /\ lock' = lock
    BY <1>22 DEF PostFrame
  <2> QED
    BY <1>0, <2>1 DEF LocksKept
<1>23. ASSUME NEW s \in Slots, PeerCloses(s) PROVE LocksKept'
  <2>1. me' = me /\ lock' = lock
    BY <1>23 DEF PeerCloses
  <2> QED
    BY <1>0, <2>1 DEF LocksKept
<1>24. ASSUME NEW s \in Slots, RecvEnds(s) PROVE LocksKept'
  <2>1. me' = me /\ lock' = lock
    BY <1>24, RecvEndsMoves
  <2> QED
    BY <1>0, <2>1 DEF LocksKept
<1>25. ASSUME NEW s \in Slots, NEW k \in 1..MaxMsg, PeerSends(s, k) PROVE LocksKept'
  <2>1. me' = me /\ lock' = lock
    BY <1>25, PeerSendsMoves
  <2> QED
    BY <1>0, <2>1 DEF LocksKept
<1>26. ASSUME UNCHANGED vars PROVE LocksKept'
  <2>1. me' = me /\ lock' = lock
    BY <1>26
  <2> QED
    BY <1>0, <2>1 DEF LocksKept
<1> QED
  BY <1>1, <1>1a, <1>1b, <1>2, <1>3a, <1>3, <1>4, <1>5, <1>6, <1>7, <1>8, <1>9, <1>10, <1>11, <1>12, <1>13, <1>14,
     <1>15, <1>16, <1>17, <1>18, <1>19, <1>20, <1>21, <1>22, <1>23, <1>24, <1>25, <1>26,
     StepCases

-----------------------------------------------------------------------------
(* Moves, messages and users *)

\* The moves there are go on or end, and their sessions stay.
LEMMA MovesKept ==
  ASSUME IInv, NEW t \in Threads, Others(t),
         \A r \in Slots : Refs[r] > 0 => sess'[r].conn = sess[r].conn,
         \A q \in port' : q.kind = "move" => q \in port,
         me'[t].job = "move" => me[t].job = "move" /\ me'[t].slot = me[t].slot /\ me'[t].conn = me[t].conn
  PROVE  MovesTrue'
<1>1. ASSUME NEW q \in port', q.kind = "move" PROVE sess'[q.slot].conn = q.conn
  BY <1>1, MoveKeeps
<1>2. ASSUME NEW u \in Threads, me'[u].job = "move" PROVE sess'[me'[u].slot].conn = me'[u].conn
  <2>1. me[u].job = "move" /\ me'[u].slot = me[u].slot /\ me'[u].conn = me[u].conn
    BY <1>2 DEF Others
  <2>2. Conn(u) = me[u].conn
    BY <2>1, TypeFacts DEF MovesTrue
  <2> QED
    BY <2>1, <2>2, OwnSlot
<1> QED
  BY <1>1, <1>2 DEF MovesTrue


\* A move stays a move of the session that is in its slot.
LEMMA MovesTrueStep ==
  ASSUME IInv, NoScan, [Next]_vars
  PROVE  MovesTrue'
<1>0. MovesTrue
  BY TypeFacts
<1>1. ASSUME NEW t \in Threads, Accept(t) PROVE MovesTrue'
  <2>1. PICK s \in free :
           s \in Slots /\ Begun(t, "named", s, "accept") /\ OtherSlots(s) /\ port' = port
    BY <1>1, AcceptMoves
  <2>2. \A r \in Slots : Refs[r] > 0 => sess'[r].conn = sess[r].conn
    BY <2>1, SlotKept DEF OtherSlots, SameSlot, SameButRef
  <2> QED
    BY <2>1, <2>2, MovesKept DEF Begun
<1>1a. ASSUME NEW t \in Threads, InitCount(t) PROVE MovesTrue'
  <2>1. Others(t) /\ \A r \in Slots : sess'[r].conn = sess[r].conn
    BY <1>1a, InitCountMoves DEF Moves, SameWork, SameTable, SameSlots, SameSlot, SameButRef, OtherSlots
  <2>2. me'[t].job = "move" => me[t].job = "move" /\ me'[t].slot = me[t].slot /\ me'[t].conn = me[t].conn
    BY <1>1a, InitCountMoves, IdleWork DEF Moves, SameWork
  <2>3. \A q \in port' : q.kind = "move" => q \in port
    BY <1>1a, InitCountMoves
  <2> QED
    BY <2>1, <2>2, <2>3, MovesKept
<1>1b. ASSUME NEW t \in Threads, InitOpen(t) PROVE MovesTrue'
  <2>1. Others(t) /\ \A r \in Slots : sess'[r].conn = sess[r].conn
    BY <1>1b, InitOpenMoves DEF Moves, SameWork, SameTable, SameSlots, SameSlot, SameButRef, OtherSlots
  <2>2. me'[t].job = "move" => me[t].job = "move" /\ me'[t].slot = me[t].slot /\ me'[t].conn = me[t].conn
    BY <1>1b, InitOpenMoves, IdleWork DEF Moves, SameWork
  <2>3. \A q \in port' : q.kind = "move" => q \in port
    BY <1>1b, InitOpenMoves
  <2> QED
    BY <2>1, <2>2, <2>3, MovesKept
<1>2. ASSUME NEW t \in Threads, OnClientJoin(t) PROVE MovesTrue'
  <2>1. Others(t) /\ \A r \in Slots : sess'[r].conn = sess[r].conn
    BY <1>2, OnClientJoinMoves DEF Moves, SameWork, SameTable, SameSlots, SameSlot, SameButRef, OtherSlots
  <2>2. me'[t].job = "move" => me[t].job = "move" /\ me'[t].slot = me[t].slot /\ me'[t].conn = me[t].conn
    BY <1>2, OnClientJoinMoves, IdleWork DEF Moves, SameWork
  <2>3. \A q \in port' : q.kind = "move" => q \in port
    BY <1>2, OnClientJoinMoves
  <2> QED
    BY <2>1, <2>2, <2>3, MovesKept
<1>3a. ASSUME NEW t \in Threads, Post(t) PROVE MovesTrue'
  <2>1. Others(t) /\ \A r \in Slots : sess'[r].conn = sess[r].conn
    BY <1>3a, PostMoves DEF Moves, SameWork, SameTable, SameSlots, SameSlot, SameButRef, OtherSlots
  <2>2. me'[t].job = "move" => me[t].job = "move" /\ me'[t].slot = me[t].slot /\ me'[t].conn = me[t].conn
    BY <1>3a, PostMoves, IdleWork DEF Moves, SameWork
  <2>3. \A q \in port' : q.kind = "move" => q \in port
    BY <1>3a, PostMoves
  <2> QED
    BY <2>1, <2>2, <2>3, MovesKept
<1>3. ASSUME NEW t \in Threads, PostRecv(t) PROVE MovesTrue'
  <2>1. Others(t) /\ \A r \in Slots : sess'[r].conn = sess[r].conn
    BY <1>3, PostRecvMoves DEF Moves, SameWork, SameTable, SameSlots, SameSlot, SameButRef, OtherSlots
  <2>2. me'[t].job = "move" => me[t].job = "move" /\ me'[t].slot = me[t].slot /\ me'[t].conn = me[t].conn
    BY <1>3, PostRecvMoves, IdleWork DEF Moves, SameWork
  <2>3. \A q \in port' : q.kind = "move" => q \in port
    BY <1>3, PostRecvMoves
  <2> QED
    BY <2>1, <2>2, <2>3, MovesKept
<1>4. ASSUME NEW t \in Threads, Give(t) PROVE MovesTrue'
  <2>1. Others(t) /\ \A r \in Slots : sess'[r].conn = sess[r].conn
    BY <1>4, GiveMoves DEF Rests, SameTable, SameSlots, SameSlot, SameButRef, OtherSlots
  <2>2. me'[t].job = "move" => me[t].job = "move" /\ me'[t].slot = me[t].slot /\ me'[t].conn = me[t].conn
    BY <1>4, GiveMoves, IdleWork DEF Rests
  <2>3. \A q \in port' : q.kind = "move" => q \in port
    BY <1>4, GiveMoves
  <2> QED
    BY <2>1, <2>2, <2>3, MovesKept
<1>5. ASSUME NEW t \in Threads, NEW s \in Slots, TakeRecv(t, s) PROVE MovesTrue'
  <2>1. Others(t) /\ \A r \in Slots : sess'[r].conn = sess[r].conn
    BY <1>5, TakeRecvMoves DEF Begun, SameTable, SameSlots, SameSlot, SameButRef, OtherSlots
  <2>2. me'[t].job = "move" => me[t].job = "move" /\ me'[t].slot = me[t].slot /\ me'[t].conn = me[t].conn
    BY <1>5, TakeRecvMoves, IdleWork DEF Begun
  <2>3. \A q \in port' : q.kind = "move" => q \in port
    BY <1>5, TakeRecvMoves
  <2> QED
    BY <2>1, <2>2, <2>3, MovesKept
<1>6. ASSUME NEW t \in Threads, NextMessage(t) PROVE MovesTrue'
  <2>1. Others(t) /\ \A r \in Slots : sess'[r].conn = sess[r].conn
    BY <1>6, NextMessageMoves DEF SameTable, SameSlots, SameSlot, SameButRef, OtherSlots
  <2>2. me'[t].job = "move" => me[t].job = "move" /\ me'[t].slot = me[t].slot /\ me'[t].conn = me[t].conn
    BY <1>6, NextMessageMoves, IdleWork
  <2>3. \A q \in port' : q.kind = "move" => q \in port
    BY <1>6, NextMessageMoves
  <2> QED
    BY <2>1, <2>2, <2>3, MovesKept
<1>7. ASSUME NEW t \in Threads, RecvLock(t) PROVE MovesTrue'
  <2>1. Others(t) /\ \A r \in Slots : sess'[r].conn = sess[r].conn
    BY <1>7, RecvLockMoves DEF Moves, SameWork, SameTable, SameSlots, SameSlot, SameButRef, OtherSlots
  <2>2. me'[t].job = "move" => me[t].job = "move" /\ me'[t].slot = me[t].slot /\ me'[t].conn = me[t].conn
    BY <1>7, RecvLockMoves, IdleWork DEF Moves, SameWork
  <2>3. \A q \in port' : q.kind = "move" => q \in port
    BY <1>7, RecvLockMoves
  <2> QED
    BY <2>1, <2>2, <2>3, MovesKept
<1>8. ASSUME NEW t \in Threads, OnRecv(t) PROVE MovesTrue'
  <2>1. /\ me[t].job = "recv" /\ Moves(t, "unlock") /\ \A r \in Slots : sess'[r].conn = sess[r].conn
        /\ \A q \in port' : q.kind = "move" => q \in port \/ (q.slot = me[t].slot /\ q.conn = Conn(t))
    BY <1>8, OnRecvMoves DEF SameSlots, SameSlot, SameButRef, OtherSlots
  <2>2. Others(t) /\ me'[t].job = "recv"
    BY <2>1 DEF Moves, SameWork
  <2>3. ASSUME NEW q \in port', q.kind = "move" PROVE sess'[q.slot].conn = q.conn
    <3>1. CASE q \in port
      BY <2>1, <2>3, <3>1, MoveKeeps
    <3>2. CASE q.slot = me[t].slot /\ q.conn = Conn(t)
      BY <2>1, <3>2, OwnSlot
    <3> QED
      BY <2>1, <2>3, <3>1, <3>2
  <2>4. ASSUME NEW u \in Threads, me'[u].job = "move" PROVE sess'[me'[u].slot].conn = me'[u].conn
    <3>1. me[u].job = "move" /\ me'[u] = me[u]
      BY <2>2, <2>4 DEF Others
    <3> QED
      BY <1>0, <2>1, <3>1, OwnSlot DEF MovesTrue
  <2> QED
    BY <2>3, <2>4 DEF MovesTrue
<1>9. ASSUME NEW t \in Threads, Unlock(t) PROVE MovesTrue'
  <2>1. Others(t) /\ \A r \in Slots : sess'[r].conn = sess[r].conn
    BY <1>9, UnlockMoves DEF Moves, Rests, SameWork, SameTable, SameSlots, SameSlot, SameButRef, OtherSlots
  <2>2. me'[t].job = "move" => me[t].job = "move" /\ me'[t].slot = me[t].slot /\ me'[t].conn = me[t].conn
    BY <1>9, UnlockMoves, IdleWork DEF Moves, Rests, SameWork
  <2>3. \A q \in port' : q.kind = "move" => q \in port
    BY <1>9, UnlockMoves
  <2> QED
    BY <2>1, <2>2, <2>3, MovesKept
<1>10. ASSUME NEW t \in Threads, NEW p \in port, TakeMove(t, p) PROVE MovesTrue'
  <2>1. /\ p.kind = "move" /\ p.slot \in Slots /\ Begun(t, "lock", p.slot, "move") /\ me'[t].conn = p.conn
        /\ port' = port \ {p} /\ sess' = sess
    BY <1>10, TakeMoveMoves
  <2>2. Others(t) /\ me'[t].slot = p.slot
    BY <2>1 DEF Begun
  <2>3. sess[p.slot].conn = p.conn
    BY <1>0, <2>1 DEF MovesTrue
  <2>4. \A u \in Threads : u # t => me'[u] = me[u]
    BY <2>2 DEF Others
  <2> QED
    BY <1>0, <2>1, <2>2, <2>3, <2>4 DEF MovesTrue
<1>11. ASSUME NEW t \in Threads, NEW p \in port, TakeRelease(t, p) PROVE MovesTrue'
  <2>1. Others(t) /\ \A r \in Slots : sess'[r].conn = sess[r].conn
    BY <1>11, TakeReleaseMoves DEF Begun, SameTable, SameSlots, SameSlot, SameButRef, OtherSlots
  <2>2. me'[t].job = "move" => me[t].job = "move" /\ me'[t].slot = me[t].slot /\ me'[t].conn = me[t].conn
    BY <1>11, TakeReleaseMoves, IdleWork DEF Begun
  <2>3. \A q \in port' : q.kind = "move" => q \in port
    BY <1>11, TakeReleaseMoves
  <2> QED
    BY <2>1, <2>2, <2>3, MovesKept
<1>12. ASSUME NEW t \in Threads, NEW p \in port, TakeFrame(t, p) PROVE MovesTrue'
  <2>1. Others(t) /\ \A r \in Slots : sess'[r].conn = sess[r].conn
    BY <1>12, TakeFrameMoves DEF Begun, SameTable, SameSlots, SameSlot, SameButRef, OtherSlots
  <2>2. me'[t].job = "move" => me[t].job = "move" /\ me'[t].slot = me[t].slot /\ me'[t].conn = me[t].conn
    BY <1>12, TakeFrameMoves, IdleWork DEF Begun
  <2>3. \A q \in port' : q.kind = "move" => q \in port
    BY <1>12, TakeFrameMoves
  <2> QED
    BY <2>1, <2>2, <2>3, MovesKept
<1>13. ASSUME NEW t \in Threads, MoveLock(t) PROVE MovesTrue'
  <2>1. Others(t) /\ \A r \in Slots : sess'[r].conn = sess[r].conn
    BY <1>13, MoveLockMoves DEF Moves, SameWork, SameTable, SameSlots, SameSlot, SameButRef, OtherSlots
  <2>2. me'[t].job = "move" => me[t].job = "move" /\ me'[t].slot = me[t].slot /\ me'[t].conn = me[t].conn
    BY <1>13, MoveLockMoves, IdleWork DEF Moves, SameWork
  <2>3. \A q \in port' : q.kind = "move" => q \in port
    BY <1>13, MoveLockMoves
  <2> QED
    BY <2>1, <2>2, <2>3, MovesKept
<1>14. ASSUME NEW t \in Threads, SetGroup(t) PROVE MovesTrue'
  <2>1. Others(t) /\ \A r \in Slots : sess'[r].conn = sess[r].conn
    BY <1>14, SetGroupMoves DEF Moves, SameWork, SameTable, SameSlots, SameSlot, SameButRef, OtherSlots
  <2>2. me'[t].job = "move" => me[t].job = "move" /\ me'[t].slot = me[t].slot /\ me'[t].conn = me[t].conn
    BY <1>14, SetGroupMoves, IdleWork DEF Moves, SameWork
  <2>3. \A q \in port' : q.kind = "move" => q \in port
    BY <1>14, SetGroupMoves
  <2> QED
    BY <2>1, <2>2, <2>3, MovesKept
<1>15. ASSUME NEW t \in Threads, OnIUserMove(t) PROVE MovesTrue'
  <2>1. Others(t) /\ \A r \in Slots : sess'[r].conn = sess[r].conn
    BY <1>15, OnIUserMoveMoves DEF Moves, SameWork, SameTable, SameSlots, SameSlot, SameButRef, OtherSlots
  <2>2. me'[t].job = "move" => me[t].job = "move" /\ me'[t].slot = me[t].slot /\ me'[t].conn = me[t].conn
    BY <1>15, OnIUserMoveMoves, IdleWork DEF Moves, SameWork
  <2>3. \A q \in port' : q.kind = "move" => q \in port
    BY <1>15, OnIUserMoveMoves
  <2> QED
    BY <2>1, <2>2, <2>3, MovesKept
<1>16. ASSUME NEW t \in Threads, OnClientLeave(t) PROVE MovesTrue'
  <2>1. Others(t) /\ \A r \in Slots : sess'[r].conn = sess[r].conn
    BY <1>16, OnClientLeaveMoves DEF Moves, SameWork, SameTable, SameSlots, SameSlot, SameButRef, OtherSlots
  <2>2. me'[t].job = "move" => me[t].job = "move" /\ me'[t].slot = me[t].slot /\ me'[t].conn = me[t].conn
    BY <1>16, OnClientLeaveMoves, IdleWork DEF Moves, SameWork
  <2>3. \A q \in port' : q.kind = "move" => q \in port
    BY <1>16, OnClientLeaveMoves
  <2> QED
    BY <2>1, <2>2, <2>3, MovesKept
<1>17. ASSUME NEW t \in Threads, Push(t) PROVE MovesTrue'
  <2>1. Others(t) /\ \A r \in Slots : sess'[r].conn = sess[r].conn
    BY <1>17, PushMoves DEF Rests, SameTable, SameSlots, SameSlot, SameButRef, OtherSlots
  <2>2. me'[t].job = "move" => me[t].job = "move" /\ me'[t].slot = me[t].slot /\ me'[t].conn = me[t].conn
    BY <1>17, PushMoves, IdleWork DEF Rests
  <2>3. \A q \in port' : q.kind = "move" => q \in port
    BY <1>17, PushMoves
  <2> QED
    BY <2>1, <2>2, <2>3, MovesKept
<1>18. ASSUME NEW t \in Threads, FrameLock(t) PROVE MovesTrue'
  <2>1. Others(t) /\ \A r \in Slots : sess'[r].conn = sess[r].conn
    BY <1>18, FrameLockMoves DEF Moves, SameWork, SameTable, SameSlots, SameSlot, SameButRef, OtherSlots
  <2>2. me'[t].job = "move" => me[t].job = "move" /\ me'[t].slot = me[t].slot /\ me'[t].conn = me[t].conn
    BY <1>18, FrameLockMoves, IdleWork DEF Moves, SameWork
  <2>3. \A q \in port' : q.kind = "move" => q \in port
    BY <1>18, FrameLockMoves
  <2> QED
    BY <2>1, <2>2, <2>3, MovesKept
<1>19. ASSUME NEW t \in Threads, SetDC(t) PROVE MovesTrue'
  <2>1. Others(t) /\ \A r \in Slots : sess'[r].conn = sess[r].conn
    BY <1>19, SetDCMoves DEF Moves, SameWork, SameTable, SameSlots, SameSlot, SameButRef, OtherSlots
  <2>2. me'[t].job = "move" => me[t].job = "move" /\ me'[t].slot = me[t].slot /\ me'[t].conn = me[t].conn
    BY <1>19, SetDCMoves, IdleWork DEF Moves, SameWork
  <2>3. \A q \in port' : q.kind = "move" => q \in port
    BY <1>19, SetDCMoves
  <2> QED
    BY <2>1, <2>2, <2>3, MovesKept
<1>20. ASSUME NEW t \in Threads, Cancel(t) PROVE MovesTrue'
  <2>1. Others(t) /\ \A r \in Slots : sess'[r].conn = sess[r].conn
    BY <1>20, CancelMoves DEF Moves, SameWork, SameTable, SameSlots, SameSlot, SameButRef, OtherSlots
  <2>2. me'[t].job = "move" => me[t].job = "move" /\ me'[t].slot = me[t].slot /\ me'[t].conn = me[t].conn
    BY <1>20, CancelMoves, IdleWork DEF Moves, SameWork
  <2>3. \A q \in port' : q.kind = "move" => q \in port
    BY <1>20, CancelMoves
  <2> QED
    BY <2>1, <2>2, <2>3, MovesKept
<1>21. ASSUME NEW t \in Threads, NEW s \in Slots, Enter(t, s) PROVE MovesTrue'
  <2>1. Others(t) /\ \A r \in Slots : sess'[r].conn = sess[r].conn
    BY <1>21, EnterMoves DEF Begun, SameTable, SameSlots, SameSlot, SameButRef, OtherSlots
  <2>2. me'[t].job = "move" => me[t].job = "move" /\ me'[t].slot = me[t].slot /\ me'[t].conn = me[t].conn
    BY <1>21, EnterMoves, IdleWork DEF Begun
  <2>3. \A q \in port' : q.kind = "move" => q \in port
    BY <1>21, EnterMoves
  <2> QED
    BY <2>1, <2>2, <2>3, MovesKept
<1>22. ASSUME NEW g \in Groups, PostFrame(g) PROVE MovesTrue'
  <2>1. sess' = sess /\ me' = me /\ \A q \in port' : q.kind = "move" => q \in port
    BY <1>22 DEF PostFrame
  <2> QED
    BY <1>0, <2>1 DEF MovesTrue
<1>23. ASSUME NEW s \in Slots, PeerCloses(s) PROVE MovesTrue'
  <2>1. sess' = sess /\ me' = me /\ \A q \in port' : q.kind = "move" => q \in port
    BY <1>23 DEF PeerCloses
  <2> QED
    BY <1>0, <2>1 DEF MovesTrue
<1>24. ASSUME NEW s \in Slots, RecvEnds(s) PROVE MovesTrue'
  <2>1. sess' = sess /\ me' = me /\ \A q \in port' : q.kind = "move" => q \in port
    BY <1>24, RecvEndsMoves
  <2> QED
    BY <1>0, <2>1 DEF MovesTrue
<1>25. ASSUME NEW s \in Slots, NEW k \in 1..MaxMsg, PeerSends(s, k) PROVE MovesTrue'
  <2>1. sess' = sess /\ me' = me /\ \A q \in port' : q.kind = "move" => q \in port
    BY <1>25, PeerSendsMoves
  <2> QED
    BY <1>0, <2>1 DEF MovesTrue
<1>26. ASSUME UNCHANGED vars PROVE MovesTrue'
  <2>1. sess' = sess /\ me' = me /\ \A q \in port' : q.kind = "move" => q \in port
    BY <1>26
  <2> QED
    BY <1>0, <2>1 DEF MovesTrue
<1> QED
  BY <1>1, <1>1a, <1>1b, <1>2, <1>3a, <1>3, <1>4, <1>5, <1>6, <1>7, <1>8, <1>9, <1>10, <1>11, <1>12, <1>13, <1>14,
     <1>15, <1>16, <1>17, <1>18, <1>19, <1>20, <1>21, <1>22, <1>23, <1>24, <1>25, <1>26,
     StepCases

\* No message comes or goes.
LEMMA LoginsKept ==
  ASSUME IInv, sent' = sent, logins' = logins, ring' = ring, \A r \in Slots : sess'[r].conn = sess[r].conn
  PROVE  LoginsCome'
  BY TypeFacts DEF LoginsCome


\* A login is handled once for every message that was sent.
LEMMA LoginsStep ==
  ASSUME IInv, NoScan, [Next]_vars
  PROVE  LoginsCome'
<1>0. /\ LoginsCome /\ ConnsApart /\ sent \in Nat /\ logins \in [Conns -> Nat]
      /\ ring \in [Slots -> Seq(Messages)] /\ 0 \notin Conns
      /\ \A r \in Slots : sess[r].conn # 0 => sess[r].conn \in Conns
  BY TypeFacts DEF SessRec, Conns
<1>1. ASSUME NEW t \in Threads, Accept(t) PROVE LoginsCome'
  <2>1. PICK s \in Slots :
           /\ OtherSlots(s) /\ sess'[s].conn = accepted + 1 /\ accepted + 1 \in Conns
           /\ OtherRings(s) /\ ring'[s] = <<>> /\ sent' = sent /\ logins' = logins
    BY <1>1, AcceptMoves
  <2>2. ASSUME NEW r \in Slots, sess'[r].conn # 0 PROVE logins'[sess'[r].conn] + Len(ring'[r]) <= sent'
    <3>1. CASE r = s
      <4>1. Len(ring'[r]) = 0 /\ logins'[sess'[r].conn] = logins[accepted + 1] /\ logins[accepted + 1] \in Nat
        BY <1>0, <2>1, <3>1
      <4>2. logins[accepted + 1] <= sent
        BY <1>0, <2>1 DEF LoginsCome
      <4> QED
        BY <2>1, <4>1, <4>2
    <3>2. CASE r # s
      BY <1>0, <2>1, <2>2, <3>2 DEF LoginsCome, OtherSlots, SameSlot, SameButRef, OtherRings
    <3> QED
      BY <3>1, <3>2
  <2> QED
    BY <1>0, <2>1, <2>2 DEF LoginsCome
<1>1a. ASSUME NEW t \in Threads, InitCount(t) PROVE LoginsCome'
  <2>1. sent' = sent /\ logins' = logins /\ ring' = ring /\ \A r \in Slots : sess'[r].conn = sess[r].conn
    BY <1>1a, InitCountMoves DEF SameTable, SameSlots, SameSlot, SameButRef, OtherSlots
  <2> QED
    BY <2>1, LoginsKept
<1>1b. ASSUME NEW t \in Threads, InitOpen(t) PROVE LoginsCome'
  <2>1. sent' = sent /\ logins' = logins /\ ring' = ring /\ \A r \in Slots : sess'[r].conn = sess[r].conn
    BY <1>1b, InitOpenMoves DEF SameTable, SameSlots, SameSlot, SameButRef, OtherSlots
  <2> QED
    BY <2>1, LoginsKept
<1>2. ASSUME NEW t \in Threads, OnClientJoin(t) PROVE LoginsCome'
  <2>1. sent' = sent /\ logins' = logins /\ ring' = ring /\ \A r \in Slots : sess'[r].conn = sess[r].conn
    BY <1>2, OnClientJoinMoves DEF SameTable, SameSlots, SameSlot, SameButRef, OtherSlots
  <2> QED
    BY <2>1, LoginsKept
<1>3a. ASSUME NEW t \in Threads, Post(t) PROVE LoginsCome'
  <2>1. sent' = sent /\ logins' = logins /\ ring' = ring /\ \A r \in Slots : sess'[r].conn = sess[r].conn
    BY <1>3a, PostMoves DEF SameTable, SameSlots, SameSlot, SameButRef, OtherSlots
  <2> QED
    BY <2>1, LoginsKept
<1>3. ASSUME NEW t \in Threads, PostRecv(t) PROVE LoginsCome'
  <2>1. sent' = sent /\ logins' = logins /\ ring' = ring /\ \A r \in Slots : sess'[r].conn = sess[r].conn
    BY <1>3, PostRecvMoves DEF SameTable, SameSlots, SameSlot, SameButRef, OtherSlots
  <2> QED
    BY <2>1, LoginsKept
<1>4. ASSUME NEW t \in Threads, Give(t) PROVE LoginsCome'
  <2>1. sent' = sent /\ logins' = logins /\ ring' = ring /\ \A r \in Slots : sess'[r].conn = sess[r].conn
    BY <1>4, GiveMoves DEF SameTable, SameSlots, SameSlot, SameButRef, OtherSlots
  <2> QED
    BY <2>1, LoginsKept
<1>5. ASSUME NEW t \in Threads, NEW s \in Slots, TakeRecv(t, s) PROVE LoginsCome'
  <2>1. sent' = sent /\ logins' = logins /\ ring' = ring /\ \A r \in Slots : sess'[r].conn = sess[r].conn
    BY <1>5, TakeRecvMoves DEF SameTable, SameSlots, SameSlot, SameButRef, OtherSlots
  <2> QED
    BY <2>1, LoginsKept
<1>6. ASSUME NEW t \in Threads, NextMessage(t) PROVE LoginsCome'
  <2>1. sent' = sent /\ logins' = logins /\ ring' = ring /\ \A r \in Slots : sess'[r].conn = sess[r].conn
    BY <1>6, NextMessageMoves DEF SameTable, SameSlots, SameSlot, SameButRef, OtherSlots
  <2> QED
    BY <2>1, LoginsKept
<1>7. ASSUME NEW t \in Threads, RecvLock(t) PROVE LoginsCome'
  <2>1. sent' = sent /\ logins' = logins /\ ring' = ring /\ \A r \in Slots : sess'[r].conn = sess[r].conn
    BY <1>7, RecvLockMoves DEF SameTable, SameSlots, SameSlot, SameButRef, OtherSlots
  <2> QED
    BY <2>1, LoginsKept
<1>8. ASSUME NEW t \in Threads, OnRecv(t) PROVE LoginsCome'
  <2> DEFINE s == me[t].slot
             c == sess[s].conn
  <2>1. /\ me[t].job = "recv" /\ s \in Slots /\ OtherRings(s) /\ ring[s] # <<>> /\ ring'[s] = Tail(ring[s])
        /\ sent' = sent /\ \A r \in Slots : sess'[r].conn = sess[r].conn
    BY <1>8, OnRecvMoves DEF SameSlots, SameSlot, SameButRef, OtherSlots
  <2>2. c \in Conns
    BY <2>1, OwnSlot
  <2>3. ring[s] \in Seq(Messages) /\ Len(ring[s]) \in Nat /\ Len(ring'[s]) = Len(ring[s]) - 1
    BY <1>0, <2>1
  <2>4. logins[c] + Len(ring[s]) <= sent /\ logins[c] \in Nat
    BY <1>0, <2>1, <2>2 DEF LoginsCome
  <2>5. \A r \in Slots : r # s => sess[r].conn # c
    BY <1>0, <2>1, <2>2 DEF ConnsApart
  <2>6. logins' = logins \/ logins' = [logins EXCEPT ![c] = @ + 1]
    BY <1>8, OnRecvMoves
  <2>7. \A d \in Conns : d # c => logins'[d] = logins[d]
    BY <1>0, <2>6
  <2>8. logins'[c] \in Nat /\ logins'[c] <= logins[c] + 1
    <3>1. logins'[c] = logins[c] \/ logins'[c] = logins[c] + 1
      BY <1>0, <2>2, <2>6
    <3> QED
      BY <2>4, <3>1
  <2>9. logins'[c] <= sent' /\ logins'[c] + Len(ring'[s]) <= sent'
    <3>1. Len(ring[s]) >= 1
      BY <2>1, <2>3
    <3> HIDE DEF c, s
    <3> QED
      BY <1>0, <2>1, <2>3, <2>4, <2>8, <3>1
  <2>10. \A d \in Conns : logins'[d] <= sent'
    BY <1>0, <2>1, <2>7, <2>9 DEF LoginsCome
  <2>11. ASSUME NEW r \in Slots, sess'[r].conn # 0 PROVE logins'[sess'[r].conn] + Len(ring'[r]) <= sent'
    <3>1. CASE r = s
      BY <2>1, <2>9, <3>1
    <3>2. CASE r # s
      <4>1. sess'[r].conn = sess[r].conn /\ sess[r].conn # c /\ ring'[r] = ring[r] /\ sess[r].conn \in Conns
        BY <1>0, <2>1, <2>5, <2>11, <3>2 DEF OtherRings
      <4> QED
        BY <1>0, <2>1, <2>7, <2>11, <4>1 DEF LoginsCome
    <3> QED
      BY <3>1, <3>2
  <2> QED
    BY <2>10, <2>11 DEF LoginsCome
<1>9. ASSUME NEW t \in Threads, Unlock(t) PROVE LoginsCome'
  <2>1. sent' = sent /\ logins' = logins /\ ring' = ring /\ \A r \in Slots : sess'[r].conn = sess[r].conn
    BY <1>9, UnlockMoves DEF SameTable, SameSlots, SameSlot, SameButRef, OtherSlots
  <2> QED
    BY <2>1, LoginsKept
<1>10. ASSUME NEW t \in Threads, NEW p \in port, TakeMove(t, p) PROVE LoginsCome'
  <2>1. sent' = sent /\ logins' = logins /\ ring' = ring /\ \A r \in Slots : sess'[r].conn = sess[r].conn
    BY <1>10, TakeMoveMoves DEF SameTable, SameSlots, SameSlot, SameButRef, OtherSlots
  <2> QED
    BY <2>1, LoginsKept
<1>11. ASSUME NEW t \in Threads, NEW p \in port, TakeRelease(t, p) PROVE LoginsCome'
  <2>1. sent' = sent /\ logins' = logins /\ ring' = ring /\ \A r \in Slots : sess'[r].conn = sess[r].conn
    BY <1>11, TakeReleaseMoves DEF SameTable, SameSlots, SameSlot, SameButRef, OtherSlots
  <2> QED
    BY <2>1, LoginsKept
<1>12. ASSUME NEW t \in Threads, NEW p \in port, TakeFrame(t, p) PROVE LoginsCome'
  <2>1. sent' = sent /\ logins' = logins /\ ring' = ring /\ \A r \in Slots : sess'[r].conn = sess[r].conn
    BY <1>12, TakeFrameMoves DEF SameTable, SameSlots, SameSlot, SameButRef, OtherSlots
  <2> QED
    BY <2>1, LoginsKept
<1>13. ASSUME NEW t \in Threads, MoveLock(t) PROVE LoginsCome'
  <2>1. sent' = sent /\ logins' = logins /\ ring' = ring /\ \A r \in Slots : sess'[r].conn = sess[r].conn
    BY <1>13, MoveLockMoves DEF SameTable, SameSlots, SameSlot, SameButRef, OtherSlots
  <2> QED
    BY <2>1, LoginsKept
<1>14. ASSUME NEW t \in Threads, SetGroup(t) PROVE LoginsCome'
  <2>1. sent' = sent /\ logins' = logins /\ ring' = ring /\ \A r \in Slots : sess'[r].conn = sess[r].conn
    BY <1>14, SetGroupMoves DEF SameTable, SameSlots, SameSlot, SameButRef, OtherSlots
  <2> QED
    BY <2>1, LoginsKept
<1>15. ASSUME NEW t \in Threads, OnIUserMove(t) PROVE LoginsCome'
  <2>1. sent' = sent /\ logins' = logins /\ ring' = ring /\ \A r \in Slots : sess'[r].conn = sess[r].conn
    BY <1>15, OnIUserMoveMoves DEF SameTable, SameSlots, SameSlot, SameButRef, OtherSlots
  <2> QED
    BY <2>1, LoginsKept
<1>16. ASSUME NEW t \in Threads, OnClientLeave(t) PROVE LoginsCome'
  <2>1. sent' = sent /\ logins' = logins /\ ring' = ring /\ \A r \in Slots : sess'[r].conn = sess[r].conn
    BY <1>16, OnClientLeaveMoves DEF SameTable, SameSlots, SameSlot, SameButRef, OtherSlots
  <2> QED
    BY <2>1, LoginsKept
<1>17. ASSUME NEW t \in Threads, Push(t) PROVE LoginsCome'
  <2>1. sent' = sent /\ logins' = logins /\ ring' = ring /\ \A r \in Slots : sess'[r].conn = sess[r].conn
    BY <1>17, PushMoves DEF SameTable, SameSlots, SameSlot, SameButRef, OtherSlots
  <2> QED
    BY <2>1, LoginsKept
<1>18. ASSUME NEW t \in Threads, FrameLock(t) PROVE LoginsCome'
  <2>1. sent' = sent /\ logins' = logins /\ ring' = ring /\ \A r \in Slots : sess'[r].conn = sess[r].conn
    BY <1>18, FrameLockMoves DEF SameTable, SameSlots, SameSlot, SameButRef, OtherSlots
  <2> QED
    BY <2>1, LoginsKept
<1>19. ASSUME NEW t \in Threads, SetDC(t) PROVE LoginsCome'
  <2>1. sent' = sent /\ logins' = logins /\ ring' = ring /\ \A r \in Slots : sess'[r].conn = sess[r].conn
    BY <1>19, SetDCMoves DEF SameTable, SameSlots, SameSlot, SameButRef, OtherSlots
  <2> QED
    BY <2>1, LoginsKept
<1>20. ASSUME NEW t \in Threads, Cancel(t) PROVE LoginsCome'
  <2>1. sent' = sent /\ logins' = logins /\ ring' = ring /\ \A r \in Slots : sess'[r].conn = sess[r].conn
    BY <1>20, CancelMoves DEF SameTable, SameSlots, SameSlot, SameButRef, OtherSlots
  <2> QED
    BY <2>1, LoginsKept
<1>21. ASSUME NEW t \in Threads, NEW s \in Slots, Enter(t, s) PROVE LoginsCome'
  <2>1. sent' = sent /\ logins' = logins /\ ring' = ring /\ \A r \in Slots : sess'[r].conn = sess[r].conn
    BY <1>21, EnterMoves DEF SameTable, SameSlots, SameSlot, SameButRef, OtherSlots
  <2> QED
    BY <2>1, LoginsKept
<1>22. ASSUME NEW g \in Groups, PostFrame(g) PROVE LoginsCome'
  <2>1. sess' = sess /\ sent' = sent /\ logins' = logins /\ ring' = ring
    BY <1>22 DEF PostFrame
  <2> QED
    BY <2>1, LoginsKept
<1>23. ASSUME NEW s \in Slots, PeerCloses(s) PROVE LoginsCome'
  <2>1. sess' = sess /\ sent' = sent /\ logins' = logins /\ ring' = ring
    BY <1>23 DEF PeerCloses
  <2> QED
    BY <2>1, LoginsKept
<1>24. ASSUME NEW s \in Slots, RecvEnds(s) PROVE LoginsCome'
  <2>1. sess' = sess /\ sent' = sent /\ logins' = logins /\ ring' = ring
    BY <1>24, RecvEndsMoves
  <2> QED
    BY <2>1, LoginsKept
<1>25. ASSUME NEW s \in Slots, NEW k \in 1..MaxMsg, PeerSends(s, k) PROVE LoginsCome'
  <2>1. /\ recv[s] = "posted" /\ sess' = sess /\ OtherRings(s) /\ Len(ring'[s]) = k /\ k \in Nat
        /\ sent' = sent + k /\ logins' = logins
    BY <1>25, PeerSendsMoves
  <2>2. \A d \in Conns : logins[d] \in Nat /\ logins[d] <= sent
    BY <1>0 DEF LoginsCome
  <2>3. \A d \in Conns : logins'[d] <= sent'
    BY <1>0, <2>1, <2>2
  <2>4. ASSUME NEW r \in Slots, sess[r].conn # 0 PROVE logins[sess[r].conn] + Len(ring'[r]) <= sent'
    <3>1. sess[r].conn \in Conns /\ Len(ring[r]) \in Nat
      BY <1>0, <2>4
    <3>2. CASE r = s
      BY <1>0, <2>1, <2>2, <3>1, <3>2
    <3>3. CASE r # s
      <4>1. logins[sess[r].conn] + Len(ring[r]) <= sent /\ ring'[r] = ring[r] /\ logins[sess[r].conn] \in Nat
        BY <1>0, <2>1, <2>4, <3>1, <3>3 DEF LoginsCome, OtherRings
      <4> QED
        BY <1>0, <2>1, <3>1, <4>1
    <3> QED
      BY <3>2, <3>3
  <2> QED
    BY <2>1, <2>3, <2>4 DEF LoginsCome
<1>26. ASSUME UNCHANGED vars PROVE LoginsCome'
  <2>1. sess' = sess /\ sent' = sent /\ logins' = logins /\ ring' = ring
    BY <1>26
  <2> QED
    BY <2>1, LoginsKept
<1> QED
  BY <1>1, <1>1a, <1>1b, <1>2, <1>3a, <1>3, <1>4, <1>5, <1>6, <1>7, <1>8, <1>9, <1>10, <1>11, <1>12, <1>13, <1>14,
     <1>15, <1>16, <1>17, <1>18, <1>19, <1>20, <1>21, <1>22, <1>23, <1>24, <1>25, <1>26,
     StepCases

\* The CUser objects stay in their places.
LEMMA UsersKept ==
  ASSUME IInv, NEW t \in Threads, Others(t), inUse' = inUse, echoUser' = echoUser,
         \A q \in port' : q.kind = "move" => q \in port,
         Moving(t)' => Moving(t) /\ me'[t].user = me[t].user
  PROVE  UserOnce'
<1>1. UserOnce
  BY TypeFacts
<1>2. \A u \in Threads : Moving(u)' => Moving(u) /\ me'[u].user = me[u].user
  BY DEF Moving, Others
<1>3. \A q \in port' : q.kind = "move" =>
           /\ q.user \in inUse' /\ \A p \in port' : p.kind = "move" /\ p.user = q.user => p = q
           /\ \A c \in Conns : echoUser'[c] # q.user
  BY <1>1 DEF UserOnce
<1>4. ASSUME NEW u \in Threads, Moving(u)'
      PROVE  /\ me'[u].user \in inUse'
             /\ \A v \in Threads : Moving(v)' /\ me'[v].user = me'[u].user => v = u
             /\ \A c \in Conns : echoUser'[c] # me'[u].user
             /\ \A q \in port' : q.kind = "move" => q.user # me'[u].user
  BY <1>1, <1>2, <1>4 DEF UserOnce
<1> QED
  BY <1>1, <1>3, <1>4 DEF UserOnce


\* A CUser is in a packet, with one thread or in the map of CEcho, and in one place only.
LEMMA UsersStep ==
  ASSUME IInv, NoScan, [Next]_vars
  PROVE  UserOnce'
<1>0. UserOnce /\ None \notin Users /\ port \subseteq Packets /\ inUse \subseteq Users
  BY TypeFacts
<1>1. ASSUME NEW t \in Threads, Accept(t) PROVE UserOnce'
  <2>1. Others(t) /\ inUse' = inUse /\ echoUser' = echoUser /\ \A q \in port' : q.kind = "move" => q \in port
    BY <1>1, AcceptMoves DEF Begun
  <2>2. Moving(t)' => Moving(t) /\ me'[t].user = me[t].user
    BY <1>1, AcceptMoves, IdleWork DEF Begun, Moving
  <2> QED
    BY <2>1, <2>2, UsersKept
<1>1a. ASSUME NEW t \in Threads, InitCount(t) PROVE UserOnce'
  <2>1. Others(t) /\ inUse' = inUse /\ echoUser' = echoUser /\ \A q \in port' : q.kind = "move" => q \in port
    BY <1>1a, InitCountMoves DEF Moves, SameWork
  <2>2. Moving(t)' => Moving(t) /\ me'[t].user = me[t].user
    BY <1>1a, InitCountMoves, IdleWork DEF Moves, SameWork, Moving
  <2> QED
    BY <2>1, <2>2, UsersKept
<1>1b. ASSUME NEW t \in Threads, InitOpen(t) PROVE UserOnce'
  <2>1. Others(t) /\ inUse' = inUse /\ echoUser' = echoUser /\ \A q \in port' : q.kind = "move" => q \in port
    BY <1>1b, InitOpenMoves DEF Moves, SameWork
  <2>2. Moving(t)' => Moving(t) /\ me'[t].user = me[t].user
    BY <1>1b, InitOpenMoves, IdleWork DEF Moves, SameWork, Moving
  <2> QED
    BY <2>1, <2>2, UsersKept
<1>2. ASSUME NEW t \in Threads, OnClientJoin(t) PROVE UserOnce'
  <2>1. Others(t) /\ inUse' = inUse /\ echoUser' = echoUser /\ \A q \in port' : q.kind = "move" => q \in port
    BY <1>2, OnClientJoinMoves DEF Moves, SameWork
  <2>2. Moving(t)' => Moving(t) /\ me'[t].user = me[t].user
    BY <1>2, OnClientJoinMoves, IdleWork DEF Moves, SameWork, Moving
  <2> QED
    BY <2>1, <2>2, UsersKept
<1>3a. ASSUME NEW t \in Threads, Post(t) PROVE UserOnce'
  <2>1. Others(t) /\ inUse' = inUse /\ echoUser' = echoUser /\ \A q \in port' : q.kind = "move" => q \in port
    BY <1>3a, PostMoves DEF Moves, SameWork
  <2>2. Moving(t)' => Moving(t) /\ me'[t].user = me[t].user
    BY <1>3a, PostMoves, IdleWork DEF Moves, SameWork, Moving
  <2> QED
    BY <2>1, <2>2, UsersKept
<1>3. ASSUME NEW t \in Threads, PostRecv(t) PROVE UserOnce'
  <2>1. Others(t) /\ inUse' = inUse /\ echoUser' = echoUser /\ \A q \in port' : q.kind = "move" => q \in port
    BY <1>3, PostRecvMoves DEF Moves, SameWork
  <2>2. Moving(t)' => Moving(t) /\ me'[t].user = me[t].user
    BY <1>3, PostRecvMoves, IdleWork DEF Moves, SameWork, Moving
  <2> QED
    BY <2>1, <2>2, UsersKept
<1>4. ASSUME NEW t \in Threads, Give(t) PROVE UserOnce'
  <2>1. Others(t) /\ inUse' = inUse /\ echoUser' = echoUser /\ \A q \in port' : q.kind = "move" => q \in port
    BY <1>4, GiveMoves DEF Rests
  <2>2. Moving(t)' => Moving(t) /\ me'[t].user = me[t].user
    BY <1>4, GiveMoves, IdleWork DEF Rests, Moving
  <2> QED
    BY <2>1, <2>2, UsersKept
<1>5. ASSUME NEW t \in Threads, NEW s \in Slots, TakeRecv(t, s) PROVE UserOnce'
  <2>1. Others(t) /\ inUse' = inUse /\ echoUser' = echoUser /\ \A q \in port' : q.kind = "move" => q \in port
    BY <1>5, TakeRecvMoves DEF Begun
  <2>2. Moving(t)' => Moving(t) /\ me'[t].user = me[t].user
    BY <1>5, TakeRecvMoves, IdleWork DEF Begun, Moving
  <2> QED
    BY <2>1, <2>2, UsersKept
<1>6. ASSUME NEW t \in Threads, NextMessage(t) PROVE UserOnce'
  <2>1. Others(t) /\ inUse' = inUse /\ echoUser' = echoUser /\ \A q \in port' : q.kind = "move" => q \in port
    BY <1>6, NextMessageMoves
  <2>2. Moving(t)' => Moving(t) /\ me'[t].user = me[t].user
    BY <1>6, NextMessageMoves, IdleWork DEF Moving
  <2> QED
    BY <2>1, <2>2, UsersKept
<1>7. ASSUME NEW t \in Threads, RecvLock(t) PROVE UserOnce'
  <2>1. Others(t) /\ inUse' = inUse /\ echoUser' = echoUser /\ \A q \in port' : q.kind = "move" => q \in port
    BY <1>7, RecvLockMoves DEF Moves, SameWork
  <2>2. Moving(t)' => Moving(t) /\ me'[t].user = me[t].user
    BY <1>7, RecvLockMoves, IdleWork DEF Moves, SameWork, Moving
  <2> QED
    BY <2>1, <2>2, UsersKept
<1>8. ASSUME NEW t \in Threads, OnRecv(t) PROVE UserOnce'
  <2>1. Moves(t, "unlock") /\ me[t].pc = "recv" /\ echoUser' = echoUser
    BY <1>8, OnRecvMoves
  <2>2. Others(t) /\ ~Moving(t)' /\ ~Moving(t)
    BY <2>1 DEF Moves, SameWork, Moving
  <2>3. CASE UNCHANGED <<port, inUse>>
    BY <2>1, <2>2, <2>3, UsersKept
  <2>4. ASSUME NEW u \in Users \ inUse, inUse' = inUse \cup {u},
               port' = port \cup {[kind |-> "move", slot |-> me[t].slot, conn |-> Conn(t), user |-> u]}
        PROVE  UserOnce'
    <3>1. \A v \in Threads : (Moving(v)' <=> Moving(v)) /\ (Moving(v) => me'[v].user = me[v].user)
      BY <2>2 DEF Moving, Others
    <3>2. \A c \in Conns : echoUser[c] # u
      BY <1>0 DEF UserOnce
    <3>3. \A q \in port : q.kind = "move" => q.user # u
      BY <1>0 DEF UserOnce
    <3>4. \A v \in Threads : Moving(v) => me[v].user # u
      BY <1>0 DEF UserOnce
    <3>5. \A q \in port' : q.kind = "move" =>
              q \in port \/ (q.user = u /\ q \notin port /\ \A r \in port' : r \in port \/ r = q)
      BY <2>4, <3>3
    <3>x. \A q \in port' : q.kind = "move" =>
               /\ q.user \in inUse' /\ \A r \in port' : r.kind = "move" /\ r.user = q.user => r = q
               /\ \A c \in Conns : echoUser'[c] # q.user
      BY <1>0, <2>1, <2>4, <3>2, <3>3, <3>5 DEF UserOnce
    <3>y. \A w \in Threads : Moving(w)' =>
               /\ me'[w].user \in inUse'
               /\ \A v \in Threads : Moving(v)' /\ me'[v].user = me'[w].user => v = w
               /\ \A c \in Conns : echoUser'[c] # me'[w].user
               /\ \A q \in port' : q.kind = "move" => q.user # me'[w].user
      BY <1>0, <2>1, <2>4, <3>1, <3>4, <3>5 DEF UserOnce
    <3>z. \A c \in Conns : echoUser'[c] # None =>
             echoUser'[c] \in inUse' /\ \A d \in Conns : echoUser'[d] = echoUser'[c] => d = c
      BY <1>0, <2>1, <2>4 DEF UserOnce
    <3> QED
      BY <3>x, <3>y, <3>z DEF UserOnce
  <2> QED
    BY <1>8, <2>3, <2>4, OnRecvMoves
<1>9. ASSUME NEW t \in Threads, Unlock(t) PROVE UserOnce'
  <2>1. Others(t) /\ inUse' = inUse /\ echoUser' = echoUser /\ \A q \in port' : q.kind = "move" => q \in port
    BY <1>9, UnlockMoves DEF Moves, Rests, SameWork
  <2>2. Moving(t)' => Moving(t) /\ me'[t].user = me[t].user
    BY <1>9, UnlockMoves, IdleWork DEF Moves, Rests, SameWork, Moving
  <2> QED
    BY <2>1, <2>2, UsersKept
<1>10. ASSUME NEW t \in Threads, NEW p \in port, TakeMove(t, p) PROVE UserOnce'
  <2>1. /\ p.kind = "move" /\ Begun(t, "lock", p.slot, "move") /\ me'[t].user = p.user
        /\ port' = port \ {p} /\ inUse' = inUse /\ echoUser' = echoUser
    BY <1>10, TakeMoveMoves
  <2>2. Others(t) /\ ~Moving(t)
    BY <2>1 DEF Begun, Moving
  <2>3. \A v \in Threads : v # t => (Moving(v)' <=> Moving(v)) /\ me'[v].user = me[v].user
    BY <2>2 DEF Moving, Others
  <2>x. \A q \in port' : q.kind = "move" =>
             /\ q.user \in inUse' /\ \A r \in port' : r.kind = "move" /\ r.user = q.user => r = q
             /\ \A c \in Conns : echoUser'[c] # q.user
    BY <1>0, <2>1 DEF UserOnce
  <2>y. \A w \in Threads : Moving(w)' =>
             /\ me'[w].user \in inUse'
             /\ \A v \in Threads : Moving(v)' /\ me'[v].user = me'[w].user => v = w
             /\ \A c \in Conns : echoUser'[c] # me'[w].user
             /\ \A q \in port' : q.kind = "move" => q.user # me'[w].user
    BY <1>0, <2>1, <2>3 DEF UserOnce
  <2>z. \A c \in Conns : echoUser'[c] # None =>
             echoUser'[c] \in inUse' /\ \A d \in Conns : echoUser'[d] = echoUser'[c] => d = c
    BY <1>0, <2>1 DEF UserOnce
  <2> QED
    BY <2>x, <2>y, <2>z DEF UserOnce
<1>11. ASSUME NEW t \in Threads, NEW p \in port, TakeRelease(t, p) PROVE UserOnce'
  <2>1. Others(t) /\ inUse' = inUse /\ echoUser' = echoUser /\ \A q \in port' : q.kind = "move" => q \in port
    BY <1>11, TakeReleaseMoves DEF Begun
  <2>2. Moving(t)' => Moving(t) /\ me'[t].user = me[t].user
    BY <1>11, TakeReleaseMoves, IdleWork DEF Begun, Moving
  <2> QED
    BY <2>1, <2>2, UsersKept
<1>12. ASSUME NEW t \in Threads, NEW p \in port, TakeFrame(t, p) PROVE UserOnce'
  <2>1. Others(t) /\ inUse' = inUse /\ echoUser' = echoUser /\ \A q \in port' : q.kind = "move" => q \in port
    BY <1>12, TakeFrameMoves DEF Begun
  <2>2. Moving(t)' => Moving(t) /\ me'[t].user = me[t].user
    BY <1>12, TakeFrameMoves, IdleWork DEF Begun, Moving
  <2> QED
    BY <2>1, <2>2, UsersKept
<1>13. ASSUME NEW t \in Threads, MoveLock(t) PROVE UserOnce'
  <2>1. Others(t) /\ inUse' = inUse /\ echoUser' = echoUser /\ \A q \in port' : q.kind = "move" => q \in port
    BY <1>13, MoveLockMoves DEF Moves, SameWork
  <2>2. Moving(t)' => Moving(t) /\ me'[t].user = me[t].user
    BY <1>13, MoveLockMoves, IdleWork DEF Moves, SameWork, Moving
  <2> QED
    BY <2>1, <2>2, UsersKept
<1>14. ASSUME NEW t \in Threads, SetGroup(t) PROVE UserOnce'
  <2>1. Others(t) /\ inUse' = inUse /\ echoUser' = echoUser /\ \A q \in port' : q.kind = "move" => q \in port
    BY <1>14, SetGroupMoves DEF Moves, SameWork
  <2>2. Moving(t)' => Moving(t) /\ me'[t].user = me[t].user
    BY <1>14, SetGroupMoves, IdleWork DEF Moves, SameWork, Moving
  <2> QED
    BY <2>1, <2>2, UsersKept
<1>15. ASSUME NEW t \in Threads, OnIUserMove(t) PROVE UserOnce'
  <2> DEFINE c == me[t].conn
             x == me[t].user
  <2>1. /\ me[t].pc = "user" /\ me[t].job = "move" /\ Moves(t, "unlock") /\ c \in Conns /\ x \in Users
        /\ echoUser'[c] = (IF echoUser[c] = None THEN x ELSE echoUser[c])
        /\ \A d \in Conns : d # c => echoUser'[d] = echoUser[d]
        /\ port' = port /\ inUse' = inUse
    BY <1>15, OnIUserMoveMoves
  <2>2. Others(t) /\ ~Moving(t)' /\ Moving(t)
    BY <2>1 DEF Moves, SameWork, Moving
  <2>3. \A v \in Threads : Moving(v)' => v # t /\ Moving(v) /\ me'[v].user = me[v].user
    BY <2>2 DEF Moving, Others
  <2>4. /\ x \in inUse /\ (\A v \in Threads : Moving(v) /\ me[v].user = x => v = t)
        /\ (\A d \in Conns : echoUser[d] # x) /\ \A q \in port : q.kind = "move" => q.user # x
    BY <1>0, <2>2 DEF UserOnce
  <2> HIDE DEF c, x
  <2>5. \A d \in Conns : echoUser'[d] = echoUser[d] \/ (d = c /\ echoUser'[d] = x)
    BY <2>1
  <2>x. \A q \in port' : q.kind = "move" =>
             /\ q.user \in inUse' /\ \A r \in port' : r.kind = "move" /\ r.user = q.user => r = q
             /\ \A e \in Conns : echoUser'[e] # q.user
    BY <1>0, <2>1, <2>4, <2>5 DEF UserOnce
  <2>y. \A w \in Threads : Moving(w)' =>
             /\ me'[w].user \in inUse'
             /\ \A v \in Threads : Moving(v)' /\ me'[v].user = me'[w].user => v = w
             /\ \A e \in Conns : echoUser'[e] # me'[w].user
             /\ \A q \in port' : q.kind = "move" => q.user # me'[w].user
    BY <1>0, <2>1, <2>3, <2>4, <2>5 DEF UserOnce, x
  <2>z. \A e \in Conns : echoUser'[e] # None =>
             echoUser'[e] \in inUse' /\ \A d \in Conns : echoUser'[d] = echoUser'[e] => d = e
    BY <1>0, <2>1, <2>4, <2>5 DEF UserOnce
  <2> QED
    BY <2>x, <2>y, <2>z DEF UserOnce
<1>16. ASSUME NEW t \in Threads, OnClientLeave(t) PROVE UserOnce'
  <2>1. /\ me[t].job = "release" /\ Moves(t, "unlock") /\ port' = port
    BY <1>16, OnClientLeaveMoves
  <2>2. Others(t) /\ ~Moving(t)' /\ ~Moving(t)
    BY <2>1 DEF Moves, SameWork, Moving
  <2>3. CASE UNCHANGED <<echoUser, inUse>>
    BY <2>1, <2>2, <2>3, UsersKept
  <2>4. CASE \E b \in Conns : /\ inUse' = inUse \ {echoUser[b]} /\ echoUser'[b] = None
                              /\ \A d \in Conns : d # b => echoUser'[d] = echoUser[d]
    <3>1. PICK b \in Conns : /\ inUse' = inUse \ {echoUser[b]} /\ echoUser'[b] = None
                             /\ \A d \in Conns : d # b => echoUser'[d] = echoUser[d]
      BY <2>4
    <3>2. \A v \in Threads : Moving(v)' => Moving(v) /\ me'[v].user = me[v].user
      BY <2>2 DEF Moving, Others
    <3>3. /\ \A q \in port : q.kind = "move" => q.user \in Users
          /\ \A v \in Threads : Moving(v) => me[v].user \in Users
      BY <1>0, PlaceJob, PacketFields DEF Moving
    <3>x. \A q \in port' : q.kind = "move" =>
               /\ q.user \in inUse' /\ \A r \in port' : r.kind = "move" /\ r.user = q.user => r = q
               /\ \A c \in Conns : echoUser'[c] # q.user
      BY <1>0, <2>1, <3>1, <3>3 DEF UserOnce
    <3>y. \A w \in Threads : Moving(w)' =>
               /\ me'[w].user \in inUse'
               /\ \A v \in Threads : Moving(v)' /\ me'[v].user = me'[w].user => v = w
               /\ \A c \in Conns : echoUser'[c] # me'[w].user
               /\ \A q \in port' : q.kind = "move" => q.user # me'[w].user
      BY <1>0, <2>1, <3>1, <3>2, <3>3 DEF UserOnce
    <3>z. \A c \in Conns : echoUser'[c] # None =>
             echoUser'[c] \in inUse' /\ \A d \in Conns : echoUser'[d] = echoUser'[c] => d = c
      BY <1>0, <3>1 DEF UserOnce
    <3> QED
      BY <3>x, <3>y, <3>z DEF UserOnce
  <2> QED
    BY <1>16, <2>3, <2>4, OnClientLeaveMoves
<1>17. ASSUME NEW t \in Threads, Push(t) PROVE UserOnce'
  <2>1. Others(t) /\ inUse' = inUse /\ echoUser' = echoUser /\ \A q \in port' : q.kind = "move" => q \in port
    BY <1>17, PushMoves DEF Rests
  <2>2. Moving(t)' => Moving(t) /\ me'[t].user = me[t].user
    BY <1>17, PushMoves, IdleWork DEF Rests, Moving
  <2> QED
    BY <2>1, <2>2, UsersKept
<1>18. ASSUME NEW t \in Threads, FrameLock(t) PROVE UserOnce'
  <2>1. Others(t) /\ inUse' = inUse /\ echoUser' = echoUser /\ \A q \in port' : q.kind = "move" => q \in port
    BY <1>18, FrameLockMoves DEF Moves, SameWork
  <2>2. Moving(t)' => Moving(t) /\ me'[t].user = me[t].user
    BY <1>18, FrameLockMoves, IdleWork DEF Moves, SameWork, Moving
  <2> QED
    BY <2>1, <2>2, UsersKept
<1>19. ASSUME NEW t \in Threads, SetDC(t) PROVE UserOnce'
  <2>1. Others(t) /\ inUse' = inUse /\ echoUser' = echoUser /\ \A q \in port' : q.kind = "move" => q \in port
    BY <1>19, SetDCMoves DEF Moves, SameWork
  <2>2. Moving(t)' => Moving(t) /\ me'[t].user = me[t].user
    BY <1>19, SetDCMoves, IdleWork DEF Moves, SameWork, Moving
  <2> QED
    BY <2>1, <2>2, UsersKept
<1>20. ASSUME NEW t \in Threads, Cancel(t) PROVE UserOnce'
  <2>1. Others(t) /\ inUse' = inUse /\ echoUser' = echoUser /\ \A q \in port' : q.kind = "move" => q \in port
    BY <1>20, CancelMoves DEF Moves, SameWork
  <2>2. Moving(t)' => Moving(t) /\ me'[t].user = me[t].user
    BY <1>20, CancelMoves, IdleWork DEF Moves, SameWork, Moving
  <2> QED
    BY <2>1, <2>2, UsersKept
<1>21. ASSUME NEW t \in Threads, NEW s \in Slots, Enter(t, s) PROVE UserOnce'
  <2>1. Others(t) /\ inUse' = inUse /\ echoUser' = echoUser /\ \A q \in port' : q.kind = "move" => q \in port
    BY <1>21, EnterMoves DEF Begun
  <2>2. Moving(t)' => Moving(t) /\ me'[t].user = me[t].user
    BY <1>21, EnterMoves, IdleWork DEF Begun, Moving
  <2> QED
    BY <2>1, <2>2, UsersKept
<1>22. ASSUME NEW g \in Groups, PostFrame(g) PROVE UserOnce'
  <2>1. /\ me' = me /\ inUse' = inUse /\ echoUser' = echoUser
        /\ \A q \in port' : q.kind = "move" => q \in port
    BY <1>22 DEF PostFrame
  <2>2. \A u \in Threads : (Moving(u)' <=> Moving(u)) /\ me'[u].user = me[u].user
    BY <2>1 DEF Moving
  <2> QED
    BY <1>0, <2>1, <2>2 DEF UserOnce
<1>23. ASSUME NEW s \in Slots, PeerCloses(s) PROVE UserOnce'
  <2>1. /\ me' = me /\ inUse' = inUse /\ echoUser' = echoUser
        /\ \A q \in port' : q.kind = "move" => q \in port
    BY <1>23 DEF PeerCloses
  <2>2. \A u \in Threads : (Moving(u)' <=> Moving(u)) /\ me'[u].user = me[u].user
    BY <2>1 DEF Moving
  <2> QED
    BY <1>0, <2>1, <2>2 DEF UserOnce
<1>24. ASSUME NEW s \in Slots, RecvEnds(s) PROVE UserOnce'
  <2>1. /\ me' = me /\ inUse' = inUse /\ echoUser' = echoUser
        /\ \A q \in port' : q.kind = "move" => q \in port
    BY <1>24, RecvEndsMoves
  <2>2. \A u \in Threads : (Moving(u)' <=> Moving(u)) /\ me'[u].user = me[u].user
    BY <2>1 DEF Moving
  <2> QED
    BY <1>0, <2>1, <2>2 DEF UserOnce
<1>25. ASSUME NEW s \in Slots, NEW k \in 1..MaxMsg, PeerSends(s, k) PROVE UserOnce'
  <2>1. /\ me' = me /\ inUse' = inUse /\ echoUser' = echoUser
        /\ \A q \in port' : q.kind = "move" => q \in port
    BY <1>25, PeerSendsMoves
  <2>2. \A u \in Threads : (Moving(u)' <=> Moving(u)) /\ me'[u].user = me[u].user
    BY <2>1 DEF Moving
  <2> QED
    BY <1>0, <2>1, <2>2 DEF UserOnce
<1>26. ASSUME UNCHANGED vars PROVE UserOnce'
  <2>1. /\ me' = me /\ inUse' = inUse /\ echoUser' = echoUser
        /\ \A q \in port' : q.kind = "move" => q \in port
    BY <1>26
  <2>2. \A u \in Threads : (Moving(u)' <=> Moving(u)) /\ me'[u].user = me[u].user
    BY <2>1 DEF Moving
  <2> QED
    BY <1>0, <2>1, <2>2 DEF UserOnce
<1> QED
  BY <1>1, <1>1a, <1>1b, <1>2, <1>3a, <1>3, <1>4, <1>5, <1>6, <1>7, <1>8, <1>9, <1>10, <1>11, <1>12, <1>13, <1>14,
     <1>15, <1>16, <1>17, <1>18, <1>19, <1>20, <1>21, <1>22, <1>23, <1>24, <1>25, <1>26,
     StepCases

-----------------------------------------------------------------------------
(* The groups *)

Placed(s) == \/ sess[s].conn \in left \cup {0} \/ InGroup(s)
             \/ \E t \in Threads : Joining(t, s)
Lone(s) == \A t \in Threads : Joining(t, s) =>
               /\ sess[s].group = Auth /\ MovesOf(s) = {}
               /\ \A u \in Threads : Holds(u, s) => me[u].job \in {"accept", "close"}

\* Grouped, slot by slot.
LEMMA GroupedParts ==
  Grouped <=> \A s \in Slots : Placed(s) /\ Lone(s)
  BY DEF Grouped, Placed, Lone

\* A session stays in its group.
LEMMA PlacedKept ==
  ASSUME NEW r \in Slots, Placed(r), sess[r].conn # 0 => sess[r].conn \in Conns,
         sess'[r].conn = sess[r].conn, sess'[r].group = sess[r].group,
         left \subseteq left', sess[r].conn \in nonUser => sess[r].conn \in nonUser',
         sess[r].conn \in Conns /\ echoUser[sess[r].conn] # None => echoUser'[sess[r].conn] # None,
         MovesOf(r) # {} => MovesOf(r)' # {},
         \A u \in Threads : (Setting(u, r) => Setting(u, r)') /\ (Welcoming(u, r) => Welcoming(u, r)')
                            /\ (Joining(u, r) => Joining(u, r)')
  PROVE  Placed(r)'
<1>1. CASE sess[r].conn \in left \cup {0}
  BY <1>1 DEF Placed
<1>2. CASE \E t \in Threads : Joining(t, r)
  BY <1>2 DEF Placed
<1>3. CASE InGroup(r) /\ sess[r].conn # 0
  <2>1. InGroup(r)'
    BY <1>3 DEF InGroup
  <2> QED
    BY <2>1 DEF Placed
<1> QED
  BY <1>1, <1>2, <1>3 DEF Placed

\* Nobody joins, and those who hold the session of one who does are no new ones.
LEMMA LoneKept ==
  ASSUME NEW r \in Slots, Lone(r), sess'[r].group = sess[r].group, MovesOf(r) = {} => MovesOf(r)' = {},
         \A u \in Threads : Joining(u, r)' => Joining(u, r),
         \A u \in Threads : Holds(u, r)' => \/ Holds(u, r) /\ me'[u].job = me[u].job
                                            \/ me'[u].job = "close"
  PROVE  Lone(r)'
<1> SUFFICES ASSUME NEW t \in Threads, Joining(t, r)'
             PROVE  /\ sess'[r].group = Auth /\ MovesOf(r)' = {}
                    /\ \A u \in Threads : Holds(u, r)' => me'[u].job \in {"accept", "close"}
  BY DEF Lone
<1>1. Joining(t, r)
  OBVIOUS
<1> QED
  BY <1>1 DEF Lone

\* A step that changes no map, no group and no move.
LEMMA GroupedKept ==
  ASSUME IInv, NEW t \in Threads, Others(t),
         \A r \in Slots : sess'[r].conn = sess[r].conn /\ sess'[r].group = sess[r].group,
         left' = left, nonUser' = nonUser, echoUser' = echoUser,
         \A q : q.kind = "move" => (q \in port' <=> q \in port),
         \A r \in Slots : /\ Setting(t, r) => Setting(t, r)'
                          /\ Welcoming(t, r) => Welcoming(t, r)'
                          /\ Joining(t, r) <=> Joining(t, r)'
                          /\ Holds(t, r)' => \/ Holds(t, r) /\ me'[t].job = me[t].job
                                             \/ me'[t].job = "close"
  PROVE  Grouped'
<1> SUFFICES ASSUME NEW r \in Slots PROVE Placed(r)' /\ Lone(r)'
  BY DEF Grouped, Placed, Lone
<1>1. Placed(r) /\ Lone(r) /\ (sess[r].conn # 0 => sess[r].conn \in Conns)
  BY TypeFacts, GroupedParts DEF SessRec, Conns
<1>2. MovesOf(r)' = MovesOf(r)
  BY MovesSame
<1>3. \A u \in Threads : u # t => /\ Setting(u, r)' <=> Setting(u, r)
                                  /\ Welcoming(u, r)' <=> Welcoming(u, r)
                                  /\ Joining(u, r)' <=> Joining(u, r)
                                  /\ Holds(u, r)' <=> Holds(u, r)
                                  /\ me'[u].job = me[u].job
  BY DEF Setting, Welcoming, Joining, Holds, Others
<1>4. Placed(r)'
  BY <1>1, <1>2, <1>3, PlacedKept
<1>5. Lone(r)'
  BY <1>1, <1>2, <1>3, LoneKept
<1> QED
  BY <1>4, <1>5


\* A session is in the map of its group until it leaves, but on the way from one to the other.
LEMMA GroupedStep ==
  ASSUME IInv, NoScan, [Next]_vars
  PROVE  Grouped'
<1>0. \A r \in Slots : Placed(r) /\ Lone(r) /\ (sess[r].conn # 0 => sess[r].conn \in Conns)
  BY TypeFacts, GroupedParts DEF SessRec, Conns
<1>b. /\ None \notin Slots /\ None \notin Users /\ 0 \notin Conns /\ Auth # Echo
      /\ OneReceive /\ ConnsApart /\ Routed
  BY TypeFacts
<1>1. ASSUME NEW t \in Threads, Accept(t) PROVE Grouped'
  <2>a. PICK s \in free :
           /\ s \in Slots /\ Begun(t, "named", s, "accept") /\ OtherSlots(s) /\ sess'[s].group = Auth
           /\ UNCHANGED <<port, maps, history>>
    BY <1>1, AcceptMoves
  <2>b. Others(t) /\ me'[t].slot = s /\ me'[t].pc = "named" /\ me'[t].job = "accept" /\ me[t].slot = None
    BY <2>a DEF Begun
  <2>o. \A u \in Threads, r \in Slots : u # t => /\ Setting(u, r)' <=> Setting(u, r)
                                                 /\ Welcoming(u, r)' <=> Welcoming(u, r)
                                                 /\ Joining(u, r)' <=> Joining(u, r)
                                                 /\ Holds(u, r)' <=> Holds(u, r)
                                                 /\ me'[u].job = me[u].job
    BY <2>b DEF Setting, Welcoming, Joining, Holds, Others
  <2> SUFFICES ASSUME NEW r \in Slots PROVE Placed(r)' /\ Lone(r)'
    BY DEF Grouped, Placed, Lone
  <2>1. MovesOf(r)' = MovesOf(r)
    BY <2>a DEF MovesOf
  <2>2. CASE r = s
    <3>1. Joining(t, r)'
      BY <2>b, <2>2 DEF Joining
    <3>2. MovesOf(r) = {}
      BY <2>a, <2>2, MoveKeeps, SlotKept DEF MovesOf
    <3>3. \A u \in Threads : Holds(u, r)' => u = t
      BY <2>a, <2>o, <2>2, ThreadKeeps, SlotKept
    <3> QED
      BY <2>a, <2>b, <2>1, <2>2, <3>1, <3>2, <3>3 DEF Placed, Lone
  <2>3. CASE r # s
    <3>1. sess'[r].conn = sess[r].conn /\ sess'[r].group = sess[r].group
      BY <2>a, <2>3 DEF OtherSlots, SameSlot, SameButRef
    <3>2. ~Setting(t, r) /\ ~Welcoming(t, r) /\ ~Joining(t, r) /\ ~Joining(t, r)' /\ ~Holds(t, r)'
      BY <1>b, <2>b, <2>3 DEF Setting, Welcoming, Joining, Holds
    <3>3. Placed(r)'
      BY <1>0, <2>a, <2>o, <2>1, <3>1, <3>2, PlacedKept
    <3>4. Lone(r)'
      BY <1>0, <2>o, <2>1, <3>1, <3>2, LoneKept
    <3> QED
      BY <3>3, <3>4
  <2> QED
    BY <2>2, <2>3
<1>1a. ASSUME NEW t \in Threads, InitCount(t) PROVE Grouped'
  <2>1. /\ Others(t) /\ left' = left /\ nonUser' = nonUser /\ echoUser' = echoUser
        /\ \A q : q.kind = "move" => (q \in port' <=> q \in port)
    BY <1>1a, InitCountMoves DEF Moves, SameWork
  <2>2. \A r \in Slots : sess'[r].conn = sess[r].conn /\ sess'[r].group = sess[r].group
    BY <1>1a, InitCountMoves DEF SameTable, SameSlots, SameSlot, SameButRef, OtherSlots
  <2>3. \A r \in Slots : /\ Setting(t, r) => Setting(t, r)'
                         /\ Welcoming(t, r) => Welcoming(t, r)'
                         /\ Joining(t, r) <=> Joining(t, r)'
                         /\ Holds(t, r)' => \/ Holds(t, r) /\ me'[t].job = me[t].job
                                            \/ me'[t].job = "close"
    BY <1>1a, <1>b, InitCountMoves, PlaceJob, IdleWork
       DEF Moves, SameWork, Setting, Welcoming, Joining, Holds
  <2> QED
    BY <2>1, <2>2, <2>3, GroupedKept
<1>1b. ASSUME NEW t \in Threads, InitOpen(t) PROVE Grouped'
  <2>1. /\ Others(t) /\ left' = left /\ nonUser' = nonUser /\ echoUser' = echoUser
        /\ \A q : q.kind = "move" => (q \in port' <=> q \in port)
    BY <1>1b, InitOpenMoves DEF Moves, SameWork
  <2>2. \A r \in Slots : sess'[r].conn = sess[r].conn /\ sess'[r].group = sess[r].group
    BY <1>1b, InitOpenMoves DEF SameTable, SameSlots, SameSlot, SameButRef, OtherSlots
  <2>3. \A r \in Slots : /\ Setting(t, r) => Setting(t, r)'
                         /\ Welcoming(t, r) => Welcoming(t, r)'
                         /\ Joining(t, r) <=> Joining(t, r)'
                         /\ Holds(t, r)' => \/ Holds(t, r) /\ me'[t].job = me[t].job
                                            \/ me'[t].job = "close"
    BY <1>1b, <1>b, InitOpenMoves, PlaceJob, IdleWork
       DEF Moves, SameWork, Setting, Welcoming, Joining, Holds
  <2> QED
    BY <2>1, <2>2, <2>3, GroupedKept
<1>2. ASSUME NEW t \in Threads, OnClientJoin(t) PROVE Grouped'
  <2> DEFINE s == me[t].slot
  <2>a. /\ me[t].job = "accept" /\ me[t].pc = "lock" /\ Moves(t, "unlock") /\ sess' = sess
        /\ nonUser' = nonUser \cup {sess[s].conn} /\ UNCHANGED <<port, echoUser, history>>
    BY <1>2, OnClientJoinMoves
  <2>b. Others(t) /\ me'[t].slot = s /\ me'[t].pc = "unlock" /\ me'[t].job = "accept" /\ s \in Slots
    BY <2>a, OwnSlot DEF Moves, SameWork
  <2>o. \A u \in Threads, r \in Slots : u # t => /\ Setting(u, r)' <=> Setting(u, r)
                                                 /\ Welcoming(u, r)' <=> Welcoming(u, r)
                                                 /\ Joining(u, r)' <=> Joining(u, r)
                                                 /\ Holds(u, r)' <=> Holds(u, r)
                                                 /\ me'[u].job = me[u].job
    BY <2>b DEF Setting, Welcoming, Joining, Holds, Others
  <2> SUFFICES ASSUME NEW r \in Slots PROVE Placed(r)' /\ Lone(r)'
    BY DEF Grouped, Placed, Lone
  <2>1. MovesOf(r)' = MovesOf(r)
    BY <2>a DEF MovesOf
  <2>2. ~Setting(t, r) /\ ~Welcoming(t, r) /\ ~Joining(t, r)' /\ (Holds(t, r)' <=> Holds(t, r)) /\ (Joining(t, r) => r = s)
    BY <2>a, <2>b DEF Setting, Welcoming, Joining, Holds
  <2>3. Lone(r)'
    BY <1>0, <2>a, <2>b, <2>o, <2>1, <2>2, LoneKept
  <2>4. CASE r = s
    <3>1. Joining(t, r)
      BY <2>a, <2>4 DEF Joining
    <3>2. sess[r].group = Auth
      BY <1>0, <3>1 DEF Lone
    <3>3. InGroup(r)'
      BY <2>a, <2>4, <3>2 DEF InGroup
    <3> QED
      BY <2>3, <3>3 DEF Placed
  <2>5. CASE r # s
    <3>1. Placed(r)'
      BY <1>0, <2>a, <2>o, <2>1, <2>2, <2>5, PlacedKept
    <3> QED
      BY <2>3, <3>1
  <2> QED
    BY <2>4, <2>5
<1>3a. ASSUME NEW t \in Threads, Post(t) PROVE Grouped'
  <2>1. /\ Others(t) /\ left' = left /\ nonUser' = nonUser /\ echoUser' = echoUser
        /\ \A q : q.kind = "move" => (q \in port' <=> q \in port)
    BY <1>3a, PostMoves DEF Moves, SameWork
  <2>2. \A r \in Slots : sess'[r].conn = sess[r].conn /\ sess'[r].group = sess[r].group
    BY <1>3a, PostMoves DEF SameTable, SameSlots, SameSlot, SameButRef, OtherSlots
  <2>3. \A r \in Slots : /\ Setting(t, r) => Setting(t, r)'
                         /\ Welcoming(t, r) => Welcoming(t, r)'
                         /\ Joining(t, r) <=> Joining(t, r)'
                         /\ Holds(t, r)' => \/ Holds(t, r) /\ me'[t].job = me[t].job
                                            \/ me'[t].job = "close"
    BY <1>3a, <1>b, PostMoves, PlaceJob, IdleWork
       DEF Moves, SameWork, Setting, Welcoming, Joining, Holds
  <2> QED
    BY <2>1, <2>2, <2>3, GroupedKept
<1>3. ASSUME NEW t \in Threads, PostRecv(t) PROVE Grouped'
  <2>1. /\ Others(t) /\ left' = left /\ nonUser' = nonUser /\ echoUser' = echoUser
        /\ \A q : q.kind = "move" => (q \in port' <=> q \in port)
    BY <1>3, PostRecvMoves DEF Moves, SameWork
  <2>2. \A r \in Slots : sess'[r].conn = sess[r].conn /\ sess'[r].group = sess[r].group
    BY <1>3, PostRecvMoves DEF SameTable, SameSlots, SameSlot, SameButRef, OtherSlots
  <2>3. \A r \in Slots : /\ Setting(t, r) => Setting(t, r)'
                         /\ Welcoming(t, r) => Welcoming(t, r)'
                         /\ Joining(t, r) <=> Joining(t, r)'
                         /\ Holds(t, r)' => \/ Holds(t, r) /\ me'[t].job = me[t].job
                                            \/ me'[t].job = "close"
    BY <1>3, <1>b, PostRecvMoves, PlaceJob, IdleWork
       DEF Moves, SameWork, Setting, Welcoming, Joining, Holds
  <2> QED
    BY <2>1, <2>2, <2>3, GroupedKept
<1>4. ASSUME NEW t \in Threads, Give(t) PROVE Grouped'
  <2>1. /\ Others(t) /\ left' = left /\ nonUser' = nonUser /\ echoUser' = echoUser
        /\ \A q : q.kind = "move" => (q \in port' <=> q \in port)
    BY <1>4, GiveMoves DEF Rests
  <2>2. \A r \in Slots : sess'[r].conn = sess[r].conn /\ sess'[r].group = sess[r].group
    BY <1>4, GiveMoves DEF SameTable, SameSlots, SameSlot, SameButRef, OtherSlots
  <2>3. \A r \in Slots : /\ Setting(t, r) => Setting(t, r)'
                         /\ Welcoming(t, r) => Welcoming(t, r)'
                         /\ Joining(t, r) <=> Joining(t, r)'
                         /\ Holds(t, r)' => \/ Holds(t, r) /\ me'[t].job = me[t].job
                                            \/ me'[t].job = "close"
    BY <1>4, <1>b, GiveMoves, PlaceJob, IdleWork
       DEF Rests, Setting, Welcoming, Joining, Holds
  <2> QED
    BY <2>1, <2>2, <2>3, GroupedKept
<1>5. ASSUME NEW t \in Threads, NEW s \in Slots, TakeRecv(t, s) PROVE Grouped'
  <2>a. /\ recv[s] # "none" /\ Begun(t, "next", s, "recv") /\ SameSlots /\ UNCHANGED <<port, maps, history>>
    BY <1>5, TakeRecvMoves
  <2>b. Others(t) /\ me'[t].slot = s /\ me'[t].pc = "next" /\ me'[t].job = "recv" /\ me[t].slot = None
    BY <2>a DEF Begun
  <2>o. \A u \in Threads, r \in Slots : u # t => /\ Setting(u, r)' <=> Setting(u, r)
                                                 /\ Welcoming(u, r)' <=> Welcoming(u, r)
                                                 /\ Joining(u, r)' <=> Joining(u, r)
                                                 /\ Holds(u, r)' <=> Holds(u, r)
                                                 /\ me'[u].job = me[u].job
    BY <2>b DEF Setting, Welcoming, Joining, Holds, Others
  <2> SUFFICES ASSUME NEW r \in Slots PROVE Placed(r)' /\ Lone(r)'
    BY DEF Grouped, Placed, Lone
  <2>1. MovesOf(r)' = MovesOf(r) /\ sess'[r].conn = sess[r].conn /\ sess'[r].group = sess[r].group
    BY <2>a DEF MovesOf, SameSlots, SameSlot, SameButRef
  <2>2. ~Setting(t, r) /\ ~Welcoming(t, r) /\ ~Joining(t, r) /\ ~Joining(t, r)' /\ (Holds(t, r)' => r = s)
    BY <1>b, <2>b DEF Setting, Welcoming, Joining, Holds
  <2>3. Placed(r)'
    BY <1>0, <2>a, <2>o, <2>1, <2>2, PlacedKept
  <2>4. \A u \in Threads : ~Joining(u, s)
    BY <1>b, <2>a DEF OneReceive, Joining, Receiving
  <2>5. Lone(r)'
    <3>1. CASE r = s
      BY <2>2, <2>4, <2>o, <3>1 DEF Lone
    <3>2. CASE r # s
      BY <1>0, <2>o, <2>1, <2>2, <3>2, LoneKept
    <3> QED
      BY <3>1, <3>2
  <2> QED
    BY <2>3, <2>5
<1>6. ASSUME NEW t \in Threads, NextMessage(t) PROVE Grouped'
  <2>1. /\ Others(t) /\ left' = left /\ nonUser' = nonUser /\ echoUser' = echoUser
        /\ \A q : q.kind = "move" => (q \in port' <=> q \in port)
    BY <1>6, NextMessageMoves
  <2>2. \A r \in Slots : sess'[r].conn = sess[r].conn /\ sess'[r].group = sess[r].group
    BY <1>6, NextMessageMoves DEF SameTable, SameSlots, SameSlot, SameButRef, OtherSlots
  <2>3. \A r \in Slots : /\ Setting(t, r) => Setting(t, r)'
                         /\ Welcoming(t, r) => Welcoming(t, r)'
                         /\ Joining(t, r) <=> Joining(t, r)'
                         /\ Holds(t, r)' => \/ Holds(t, r) /\ me'[t].job = me[t].job
                                            \/ me'[t].job = "close"
    BY <1>6, <1>b, NextMessageMoves, PlaceJob, IdleWork
       DEF Setting, Welcoming, Joining, Holds
  <2> QED
    BY <2>1, <2>2, <2>3, GroupedKept
<1>7. ASSUME NEW t \in Threads, RecvLock(t) PROVE Grouped'
  <2>1. /\ Others(t) /\ left' = left /\ nonUser' = nonUser /\ echoUser' = echoUser
        /\ \A q : q.kind = "move" => (q \in port' <=> q \in port)
    BY <1>7, RecvLockMoves DEF Moves, SameWork
  <2>2. \A r \in Slots : sess'[r].conn = sess[r].conn /\ sess'[r].group = sess[r].group
    BY <1>7, RecvLockMoves DEF SameTable, SameSlots, SameSlot, SameButRef, OtherSlots
  <2>3. \A r \in Slots : /\ Setting(t, r) => Setting(t, r)'
                         /\ Welcoming(t, r) => Welcoming(t, r)'
                         /\ Joining(t, r) <=> Joining(t, r)'
                         /\ Holds(t, r)' => \/ Holds(t, r) /\ me'[t].job = me[t].job
                                            \/ me'[t].job = "close"
    BY <1>7, <1>b, RecvLockMoves, PlaceJob, IdleWork
       DEF Moves, SameWork, Setting, Welcoming, Joining, Holds
  <2> QED
    BY <2>1, <2>2, <2>3, GroupedKept
<1>8. ASSUME NEW t \in Threads, OnRecv(t) PROVE Grouped'
  <2> DEFINE s == me[t].slot
  <2>a. /\ me[t].job = "recv" /\ me[t].pc = "recv" /\ Moves(t, "unlock") /\ s \in Slots
        /\ UNCHANGED <<echoUser, left>>
        /\ \A r \in Slots : sess'[r].conn = sess[r].conn /\ sess'[r].group = sess[r].group
    BY <1>8, OnRecvMoves DEF SameSlots, SameSlot, SameButRef, OtherSlots
  <2>b. Others(t) /\ me'[t].slot = s /\ me'[t].pc = "unlock" /\ me'[t].job = "recv"
    BY <2>a DEF Moves, SameWork
  <2>o. \A u \in Threads, r \in Slots : u # t => /\ Setting(u, r)' <=> Setting(u, r)
                                                 /\ Welcoming(u, r)' <=> Welcoming(u, r)
                                                 /\ Joining(u, r)' <=> Joining(u, r)
                                                 /\ Holds(u, r)' <=> Holds(u, r)
                                                 /\ me'[u].job = me[u].job
    BY <2>b DEF Setting, Welcoming, Joining, Holds, Others
  <2>1. \A r \in Slots : /\ ~Setting(t, r) /\ ~Welcoming(t, r) /\ ~Joining(t, r) /\ ~Joining(t, r)'
                         /\ Holds(t, r)' <=> Holds(t, r)
    BY <2>a, <2>b DEF Setting, Welcoming, Joining, Holds
  <2>2. CASE UNCHANGED <<port, nonUser>>
    BY <2>1, <2>2, <2>a, <2>b, GroupedKept
  <2>3. ASSUME NEW u \in Users, nonUser' = nonUser \ {Conn(t)},
               port' = port \cup {[kind |-> "move", slot |-> s, conn |-> Conn(t), user |-> u]}
        PROVE  Grouped'
    <3> SUFFICES ASSUME NEW r \in Slots PROVE Placed(r)' /\ Lone(r)'
      BY DEF Grouped, Placed, Lone
    <3> DEFINE p == [kind |-> "move", slot |-> s, conn |-> Conn(t), user |-> u]
    <3>1. p.kind = "move" /\ p.slot = s /\ port' = port \cup {p}
      BY <2>3
    <3> HIDE DEF p
    <3>2. CASE r = s
      <4>1. \A v \in Threads : ~Joining(v, r)'
        <5>1. Holds(t, r)
          BY <2>a, <3>2 DEF Holds
        <5>2. \A v \in Threads : ~Joining(v, r)
          BY <1>0, <2>a, <5>1 DEF Lone
        <5> QED
          BY <2>o, <2>1, <5>2
      <4>2. p \in MovesOf(r)'
        BY <3>1, <3>2 DEF MovesOf
      <4>3. Placed(r)'
        <5>1. CASE sess[r].group = Auth
          BY <2>a, <4>2, <5>1 DEF Placed, InGroup
        <5>2. CASE sess[r].group # Auth
          <6>1. sess[r].conn \in left \cup {0} \/ InGroup(r)
            BY <1>0, <2>1, <2>o, <4>1 DEF Placed
          <6>2. InGroup(r) => InGroup(r)'
            <7>1. \A v \in Threads : Welcoming(v, r) => Welcoming(v, r)'
              BY <2>o, <2>1
            <7> QED
              BY <2>a, <5>2, <7>1 DEF InGroup
          <6> QED
            BY <2>a, <6>1, <6>2 DEF Placed
        <5> QED
          BY <5>1, <5>2
      <4> QED
        BY <4>1, <4>3 DEF Lone
    <3>3. CASE r # s
      <4>1. MovesOf(r)' = MovesOf(r)
        BY <3>1, <3>3 DEF MovesOf
      <4>2. sess[r].conn # Conn(t)
        BY <1>b, <2>a, <3>3, OwnSlot DEF ConnsApart
      <4>3. Placed(r)'
        BY <1>0, <2>3, <2>a, <2>o, <2>1, <4>1, <4>2, PlacedKept
      <4>4. Lone(r)'
        BY <1>0, <2>a, <2>b, <2>o, <2>1, <4>1, LoneKept
      <4> QED
        BY <4>3, <4>4
    <3> QED
      BY <3>2, <3>3
  <2> QED
    BY <1>8, <2>2, <2>3, OnRecvMoves
<1>9. ASSUME NEW t \in Threads, Unlock(t) PROVE Grouped'
  <2>1. /\ Others(t) /\ left' = left /\ nonUser' = nonUser /\ echoUser' = echoUser
        /\ \A q : q.kind = "move" => (q \in port' <=> q \in port)
    BY <1>9, UnlockMoves DEF Moves, Rests, SameWork
  <2>2. \A r \in Slots : sess'[r].conn = sess[r].conn /\ sess'[r].group = sess[r].group
    BY <1>9, UnlockMoves DEF SameTable, SameSlots, SameSlot, SameButRef, OtherSlots
  <2>3. \A r \in Slots : /\ Setting(t, r) => Setting(t, r)'
                         /\ Welcoming(t, r) => Welcoming(t, r)'
                         /\ Joining(t, r) <=> Joining(t, r)'
                         /\ Holds(t, r)' => \/ Holds(t, r) /\ me'[t].job = me[t].job
                                            \/ me'[t].job = "close"
    BY <1>9, <1>b, UnlockMoves, PlaceJob, IdleWork
       DEF Moves, Rests, SameWork, Setting, Welcoming, Joining, Holds
  <2> QED
    BY <2>1, <2>2, <2>3, GroupedKept
<1>10. ASSUME NEW t \in Threads, NEW p \in port, TakeMove(t, p) PROVE Grouped'
  <2>a. /\ p.kind = "move" /\ p.slot \in Slots /\ Begun(t, "lock", p.slot, "move") /\ sess' = sess
        /\ port' = port \ {p} /\ UNCHANGED <<maps, history>>
    BY <1>10, TakeMoveMoves
  <2>b. Others(t) /\ me'[t].slot = p.slot /\ me'[t].pc = "lock" /\ me'[t].job = "move" /\ me[t].slot = None
    BY <2>a DEF Begun
  <2>o. \A u \in Threads, r \in Slots : u # t => /\ Setting(u, r)' <=> Setting(u, r)
                                                 /\ Welcoming(u, r)' <=> Welcoming(u, r)
                                                 /\ Joining(u, r)' <=> Joining(u, r)
                                                 /\ Holds(u, r)' <=> Holds(u, r)
                                                 /\ me'[u].job = me[u].job
    BY <2>b DEF Setting, Welcoming, Joining, Holds, Others
  <2> SUFFICES ASSUME NEW r \in Slots PROVE Placed(r)' /\ Lone(r)'
    BY DEF Grouped, Placed, Lone
  <2>1. ~Setting(t, r) /\ ~Welcoming(t, r) /\ ~Joining(t, r) /\ ~Joining(t, r)' /\ (Holds(t, r)' => r = p.slot)
    BY <1>b, <2>b DEF Setting, Welcoming, Joining, Holds
  <2>2. CASE r = p.slot
    <3>1. \A v \in Threads : ~Joining(v, r)
      <4>1. p \in MovesOf(r)
        BY <2>a, <2>2 DEF MovesOf
      <4> QED
        BY <1>0, <4>1 DEF Lone
    <3>2. \A v \in Threads : ~Joining(v, r)'
      BY <2>o, <2>1, <3>1
    <3>3. Setting(t, r)'
      BY <2>b, <2>2 DEF Setting
    <3>4. sess[r].conn \in left \cup {0} \/ InGroup(r)
      BY <1>0, <3>1 DEF Placed
    <3>5. InGroup(r) => InGroup(r)'
      <4>1. \A v \in Threads : Welcoming(v, r) => Welcoming(v, r)'
        BY <2>o, <2>1
      <4> QED
        BY <2>a, <3>3, <4>1 DEF InGroup
    <3>6. Placed(r)'
      BY <2>a, <3>4, <3>5 DEF Placed
    <3> QED
      BY <3>2, <3>6 DEF Lone
  <2>3. CASE r # p.slot
    <3>1. MovesOf(r)' = MovesOf(r)
      BY <2>a, <2>3 DEF MovesOf
    <3>2. Placed(r)'
      BY <1>0, <2>a, <2>o, <2>1, <3>1, PlacedKept
    <3>3. Lone(r)'
      BY <1>0, <2>a, <2>o, <2>1, <2>3, <3>1, LoneKept
    <3> QED
      BY <3>2, <3>3
  <2> QED
    BY <2>2, <2>3
<1>11. ASSUME NEW t \in Threads, NEW p \in port, TakeRelease(t, p) PROVE Grouped'
  <2>1. /\ Others(t) /\ left' = left /\ nonUser' = nonUser /\ echoUser' = echoUser
        /\ \A q : q.kind = "move" => (q \in port' <=> q \in port)
    BY <1>11, TakeReleaseMoves DEF Begun
  <2>2. \A r \in Slots : sess'[r].conn = sess[r].conn /\ sess'[r].group = sess[r].group
    BY <1>11, TakeReleaseMoves DEF SameTable, SameSlots, SameSlot, SameButRef, OtherSlots
  <2>3. \A r \in Slots : /\ Setting(t, r) => Setting(t, r)'
                         /\ Welcoming(t, r) => Welcoming(t, r)'
                         /\ Joining(t, r) <=> Joining(t, r)'
                         /\ Holds(t, r)' => \/ Holds(t, r) /\ me'[t].job = me[t].job
                                            \/ me'[t].job = "close"
    BY <1>11, <1>b, TakeReleaseMoves, PlaceJob, IdleWork
       DEF Begun, Setting, Welcoming, Joining, Holds
  <2> QED
    BY <2>1, <2>2, <2>3, GroupedKept
<1>12. ASSUME NEW t \in Threads, NEW p \in port, TakeFrame(t, p) PROVE Grouped'
  <2>1. /\ Others(t) /\ left' = left /\ nonUser' = nonUser /\ echoUser' = echoUser
        /\ \A q : q.kind = "move" => (q \in port' <=> q \in port)
    BY <1>12, TakeFrameMoves DEF Begun
  <2>2. \A r \in Slots : sess'[r].conn = sess[r].conn /\ sess'[r].group = sess[r].group
    BY <1>12, TakeFrameMoves DEF SameTable, SameSlots, SameSlot, SameButRef, OtherSlots
  <2>3. \A r \in Slots : /\ Setting(t, r) => Setting(t, r)'
                         /\ Welcoming(t, r) => Welcoming(t, r)'
                         /\ Joining(t, r) <=> Joining(t, r)'
                         /\ Holds(t, r)' => \/ Holds(t, r) /\ me'[t].job = me[t].job
                                            \/ me'[t].job = "close"
    BY <1>12, <1>b, TakeFrameMoves, PlaceJob, IdleWork
       DEF Begun, Setting, Welcoming, Joining, Holds
  <2> QED
    BY <2>1, <2>2, <2>3, GroupedKept
<1>13. ASSUME NEW t \in Threads, MoveLock(t) PROVE Grouped'
  <2>1. /\ Others(t) /\ left' = left /\ nonUser' = nonUser /\ echoUser' = echoUser
        /\ \A q : q.kind = "move" => (q \in port' <=> q \in port)
    BY <1>13, MoveLockMoves DEF Moves, SameWork
  <2>2. \A r \in Slots : sess'[r].conn = sess[r].conn /\ sess'[r].group = sess[r].group
    BY <1>13, MoveLockMoves DEF SameTable, SameSlots, SameSlot, SameButRef, OtherSlots
  <2>3. \A r \in Slots : /\ Setting(t, r) => Setting(t, r)'
                         /\ Welcoming(t, r) => Welcoming(t, r)'
                         /\ Joining(t, r) <=> Joining(t, r)'
                         /\ Holds(t, r)' => \/ Holds(t, r) /\ me'[t].job = me[t].job
                                            \/ me'[t].job = "close"
    BY <1>13, <1>b, MoveLockMoves, PlaceJob, IdleWork
       DEF Moves, SameWork, Setting, Welcoming, Joining, Holds
  <2> QED
    BY <2>1, <2>2, <2>3, GroupedKept
<1>14. ASSUME NEW t \in Threads, SetGroup(t) PROVE Grouped'
  <2> DEFINE s == me[t].slot
  <2>a. /\ me[t].job = "move" /\ me[t].pc = "set" /\ Moves(t, "user") /\ s \in Slots /\ OtherSlots(s)
        /\ sess'[s].group = Echo /\ sess'[s].conn = sess[s].conn /\ UNCHANGED <<port, maps, history>>
    BY <1>14, SetGroupMoves
  <2>b. Others(t) /\ me'[t].slot = s /\ me'[t].pc = "user" /\ me'[t].job = "move"
    BY <2>a DEF Moves, SameWork
  <2>o. \A u \in Threads, r \in Slots : u # t => /\ Setting(u, r)' <=> Setting(u, r)
                                                 /\ Welcoming(u, r)' <=> Welcoming(u, r)
                                                 /\ Joining(u, r)' <=> Joining(u, r)
                                                 /\ Holds(u, r)' <=> Holds(u, r)
                                                 /\ me'[u].job = me[u].job
    BY <2>b DEF Setting, Welcoming, Joining, Holds, Others
  <2> SUFFICES ASSUME NEW r \in Slots PROVE Placed(r)' /\ Lone(r)'
    BY DEF Grouped, Placed, Lone
  <2>1. ~Joining(t, r) /\ ~Joining(t, r)' /\ (Holds(t, r)' <=> Holds(t, r)) /\ MovesOf(r)' = MovesOf(r)
    BY <2>a, <2>b DEF Joining, Holds, MovesOf
  <2>2. CASE r = s
    <3>1. Holds(t, r)
      BY <2>a, <2>2 DEF Holds
    <3>2. \A v \in Threads : ~Joining(v, r)'
      BY <1>0, <2>a, <2>o, <2>1, <3>1 DEF Lone
    <3>3. Welcoming(t, r)'
      BY <2>b, <2>2 DEF Welcoming
    <3>4. InGroup(r)'
      BY <1>b, <2>a, <2>2, <3>3 DEF InGroup
    <3> QED
      BY <3>2, <3>4 DEF Placed, Lone
  <2>3. CASE r # s
    <3>1. /\ sess'[r].conn = sess[r].conn /\ sess'[r].group = sess[r].group
          /\ ~Setting(t, r) /\ ~Welcoming(t, r)
      BY <2>a, <2>3 DEF OtherSlots, SameSlot, SameButRef, Setting, Welcoming
    <3>2. Placed(r)'
      BY <1>0, <2>a, <2>o, <2>1, <3>1, PlacedKept
    <3>3. Lone(r)'
      BY <1>0, <2>a, <2>b, <2>o, <2>1, <3>1, LoneKept
    <3> QED
      BY <3>2, <3>3
  <2> QED
    BY <2>2, <2>3
<1>15. ASSUME NEW t \in Threads, OnIUserMove(t) PROVE Grouped'
  <2> DEFINE s == me[t].slot
             c == me[t].conn
  <2>a. /\ me[t].job = "move" /\ me[t].pc = "user" /\ Moves(t, "unlock") /\ s \in Slots /\ sess' = sess
        /\ c \in Conns /\ me[t].user \in Users /\ sess[s].conn = c
        /\ echoUser'[c] = (IF echoUser[c] = None THEN me[t].user ELSE echoUser[c])
        /\ \A d \in Conns : d # c => echoUser'[d] = echoUser[d]
        /\ UNCHANGED <<port, nonUser, history>>
    BY <1>15, OnIUserMoveMoves
  <2>b. Others(t) /\ me'[t].slot = s /\ me'[t].pc = "unlock" /\ me'[t].job = "move"
    BY <2>a DEF Moves, SameWork
  <2>o. \A u \in Threads, r \in Slots : u # t => /\ Setting(u, r)' <=> Setting(u, r)
                                                 /\ Welcoming(u, r)' <=> Welcoming(u, r)
                                                 /\ Joining(u, r)' <=> Joining(u, r)
                                                 /\ Holds(u, r)' <=> Holds(u, r)
                                                 /\ me'[u].job = me[u].job
    BY <2>b DEF Setting, Welcoming, Joining, Holds, Others
  <2> SUFFICES ASSUME NEW r \in Slots PROVE Placed(r)' /\ Lone(r)'
    BY DEF Grouped, Placed, Lone
  <2>1. /\ ~Joining(t, r) /\ ~Joining(t, r)' /\ (Holds(t, r)' <=> Holds(t, r)) /\ MovesOf(r)' = MovesOf(r)
        /\ ~Setting(t, r)
    BY <2>a, <2>b DEF Joining, Holds, MovesOf, Setting
  <2>2. echoUser'[c] # None /\ \A d \in Conns : echoUser[d] # None => echoUser'[d] # None
    BY <1>b, <2>a
  <2>3. Lone(r)'
    BY <1>0, <2>a, <2>b, <2>o, <2>1, LoneKept
  <2>4. CASE r = s
    <3>1. sess[r].group = Echo
      BY <1>b, <2>a, <2>4 DEF Routed
    <3>2. InGroup(r)'
      BY <1>b, <2>a, <2>2, <2>4, <3>1 DEF InGroup
    <3> QED
      BY <2>3, <3>2 DEF Placed
  <2>5. CASE r # s
    <3>1. ~Welcoming(t, r)
      BY <2>5 DEF Welcoming
    <3>2. Placed(r)'
      BY <1>0, <2>a, <2>o, <2>1, <2>2, <3>1, PlacedKept
    <3> QED
      BY <2>3, <3>2
  <2> QED
    BY <2>4, <2>5
<1>16. ASSUME NEW t \in Threads, OnClientLeave(t) PROVE Grouped'
  <2> DEFINE s == me[t].slot
  <2>a. /\ me[t].job = "release" /\ me[t].pc = "lock" /\ Moves(t, "unlock") /\ s \in Slots /\ sess' = sess
        /\ Conn(t) \in Conns /\ left' = left \cup {Conn(t)} /\ port' = port
        /\ \A d : d # Conn(t) => (d \in nonUser => d \in nonUser')
        /\ \A d \in Conns : d # Conn(t) => echoUser'[d] = echoUser[d]
    BY <1>16, OnClientLeaveMoves
  <2>b. Others(t) /\ me'[t].slot = s /\ me'[t].pc = "unlock" /\ me'[t].job = "release"
    BY <2>a DEF Moves, SameWork
  <2>o. \A u \in Threads, r \in Slots : u # t => /\ Setting(u, r)' <=> Setting(u, r)
                                                 /\ Welcoming(u, r)' <=> Welcoming(u, r)
                                                 /\ Joining(u, r)' <=> Joining(u, r)
                                                 /\ Holds(u, r)' <=> Holds(u, r)
                                                 /\ me'[u].job = me[u].job
    BY <2>b DEF Setting, Welcoming, Joining, Holds, Others
  <2> SUFFICES ASSUME NEW r \in Slots PROVE Placed(r)' /\ Lone(r)'
    BY DEF Grouped, Placed, Lone
  <2>1. /\ ~Joining(t, r) /\ ~Joining(t, r)' /\ ~Holds(t, r)' /\ MovesOf(r)' = MovesOf(r)
        /\ ~Setting(t, r) /\ ~Welcoming(t, r)
    BY <2>a, <2>b DEF Joining, Holds, MovesOf, Setting, Welcoming
  <2>2. Lone(r)'
    BY <1>0, <2>a, <2>o, <2>1, LoneKept
  <2>3. CASE r = s
    BY <2>a, <2>2, <2>3 DEF Placed
  <2>4. CASE r # s
    <3>1. sess[r].conn # Conn(t)
      BY <1>b, <2>a, <2>4 DEF ConnsApart
    <3>2. Placed(r)'
      BY <1>0, <2>a, <2>o, <2>1, <3>1, PlacedKept
    <3> QED
      BY <2>2, <3>2
  <2> QED
    BY <2>3, <2>4
<1>17. ASSUME NEW t \in Threads, Push(t) PROVE Grouped'
  <2>1. /\ Others(t) /\ left' = left /\ nonUser' = nonUser /\ echoUser' = echoUser
        /\ \A q : q.kind = "move" => (q \in port' <=> q \in port)
    BY <1>17, PushMoves DEF Rests
  <2>2. \A r \in Slots : sess'[r].conn = sess[r].conn /\ sess'[r].group = sess[r].group
    BY <1>17, PushMoves DEF SameTable, SameSlots, SameSlot, SameButRef, OtherSlots
  <2>3. \A r \in Slots : /\ Setting(t, r) => Setting(t, r)'
                         /\ Welcoming(t, r) => Welcoming(t, r)'
                         /\ Joining(t, r) <=> Joining(t, r)'
                         /\ Holds(t, r)' => \/ Holds(t, r) /\ me'[t].job = me[t].job
                                            \/ me'[t].job = "close"
    BY <1>17, <1>b, PushMoves, PlaceJob, IdleWork
       DEF Rests, Setting, Welcoming, Joining, Holds
  <2> QED
    BY <2>1, <2>2, <2>3, GroupedKept
<1>18. ASSUME NEW t \in Threads, FrameLock(t) PROVE Grouped'
  <2>1. /\ Others(t) /\ left' = left /\ nonUser' = nonUser /\ echoUser' = echoUser
        /\ \A q : q.kind = "move" => (q \in port' <=> q \in port)
    BY <1>18, FrameLockMoves DEF Moves, SameWork
  <2>2. \A r \in Slots : sess'[r].conn = sess[r].conn /\ sess'[r].group = sess[r].group
    BY <1>18, FrameLockMoves DEF SameTable, SameSlots, SameSlot, SameButRef, OtherSlots
  <2>3. \A r \in Slots : /\ Setting(t, r) => Setting(t, r)'
                         /\ Welcoming(t, r) => Welcoming(t, r)'
                         /\ Joining(t, r) <=> Joining(t, r)'
                         /\ Holds(t, r)' => \/ Holds(t, r) /\ me'[t].job = me[t].job
                                            \/ me'[t].job = "close"
    BY <1>18, <1>b, FrameLockMoves, PlaceJob, IdleWork
       DEF Moves, SameWork, Setting, Welcoming, Joining, Holds
  <2> QED
    BY <2>1, <2>2, <2>3, GroupedKept
<1>19. ASSUME NEW t \in Threads, SetDC(t) PROVE Grouped'
  <2>1. /\ Others(t) /\ left' = left /\ nonUser' = nonUser /\ echoUser' = echoUser
        /\ \A q : q.kind = "move" => (q \in port' <=> q \in port)
    BY <1>19, SetDCMoves DEF Moves, SameWork
  <2>2. \A r \in Slots : sess'[r].conn = sess[r].conn /\ sess'[r].group = sess[r].group
    BY <1>19, SetDCMoves DEF SameTable, SameSlots, SameSlot, SameButRef, OtherSlots
  <2>3. \A r \in Slots : /\ Setting(t, r) => Setting(t, r)'
                         /\ Welcoming(t, r) => Welcoming(t, r)'
                         /\ Joining(t, r) <=> Joining(t, r)'
                         /\ Holds(t, r)' => \/ Holds(t, r) /\ me'[t].job = me[t].job
                                            \/ me'[t].job = "close"
    BY <1>19, <1>b, SetDCMoves, PlaceJob, IdleWork
       DEF Moves, SameWork, Setting, Welcoming, Joining, Holds
  <2> QED
    BY <2>1, <2>2, <2>3, GroupedKept
<1>20. ASSUME NEW t \in Threads, Cancel(t) PROVE Grouped'
  <2>1. /\ Others(t) /\ left' = left /\ nonUser' = nonUser /\ echoUser' = echoUser
        /\ \A q : q.kind = "move" => (q \in port' <=> q \in port)
    BY <1>20, CancelMoves DEF Moves, SameWork
  <2>2. \A r \in Slots : sess'[r].conn = sess[r].conn /\ sess'[r].group = sess[r].group
    BY <1>20, CancelMoves DEF SameTable, SameSlots, SameSlot, SameButRef, OtherSlots
  <2>3. \A r \in Slots : /\ Setting(t, r) => Setting(t, r)'
                         /\ Welcoming(t, r) => Welcoming(t, r)'
                         /\ Joining(t, r) <=> Joining(t, r)'
                         /\ Holds(t, r)' => \/ Holds(t, r) /\ me'[t].job = me[t].job
                                            \/ me'[t].job = "close"
    BY <1>20, <1>b, CancelMoves, PlaceJob, IdleWork
       DEF Moves, SameWork, Setting, Welcoming, Joining, Holds
  <2> QED
    BY <2>1, <2>2, <2>3, GroupedKept
<1>21. ASSUME NEW t \in Threads, NEW s \in Slots, Enter(t, s) PROVE Grouped'
  <2>1. /\ Others(t) /\ left' = left /\ nonUser' = nonUser /\ echoUser' = echoUser
        /\ \A q : q.kind = "move" => (q \in port' <=> q \in port)
    BY <1>21, EnterMoves DEF Begun
  <2>2. \A r \in Slots : sess'[r].conn = sess[r].conn /\ sess'[r].group = sess[r].group
    BY <1>21, EnterMoves DEF SameTable, SameSlots, SameSlot, SameButRef, OtherSlots
  <2>3. \A r \in Slots : /\ Setting(t, r) => Setting(t, r)'
                         /\ Welcoming(t, r) => Welcoming(t, r)'
                         /\ Joining(t, r) <=> Joining(t, r)'
                         /\ Holds(t, r)' => \/ Holds(t, r) /\ me'[t].job = me[t].job
                                            \/ me'[t].job = "close"
    BY <1>21, <1>b, EnterMoves, PlaceJob, IdleWork
       DEF Begun, Setting, Welcoming, Joining, Holds
  <2> QED
    BY <2>1, <2>2, <2>3, GroupedKept
<1>22. ASSUME NEW g \in Groups, PostFrame(g) PROVE Grouped'
  <2>1. /\ me' = me /\ sess' = sess /\ left' = left /\ nonUser' = nonUser /\ echoUser' = echoUser
        /\ \A q : q.kind = "move" => (q \in port' <=> q \in port)
    BY <1>22 DEF PostFrame
  <2>2. ASSUME NEW r \in Slots PROVE Placed(r)' /\ Lone(r)'
    <3>1. MovesOf(r)' = MovesOf(r)
      BY <2>1, MovesSame
    <3>2. \A u \in Threads : /\ Setting(u, r)' <=> Setting(u, r)
                             /\ Welcoming(u, r)' <=> Welcoming(u, r)
                             /\ Joining(u, r)' <=> Joining(u, r)
                             /\ Holds(u, r)' <=> Holds(u, r)
      BY <2>1 DEF Setting, Welcoming, Joining, Holds
    <3> QED
      BY <1>0, <2>1, <3>1, <3>2, PlacedKept, LoneKept
  <2> QED
    BY <2>2 DEF Grouped, Placed, Lone
<1>23. ASSUME NEW s \in Slots, PeerCloses(s) PROVE Grouped'
  <2>1. /\ me' = me /\ sess' = sess /\ left' = left /\ nonUser' = nonUser /\ echoUser' = echoUser
        /\ \A q : q.kind = "move" => (q \in port' <=> q \in port)
    BY <1>23 DEF PeerCloses
  <2>2. ASSUME NEW r \in Slots PROVE Placed(r)' /\ Lone(r)'
    <3>1. MovesOf(r)' = MovesOf(r)
      BY <2>1, MovesSame
    <3>2. \A u \in Threads : /\ Setting(u, r)' <=> Setting(u, r)
                             /\ Welcoming(u, r)' <=> Welcoming(u, r)
                             /\ Joining(u, r)' <=> Joining(u, r)
                             /\ Holds(u, r)' <=> Holds(u, r)
      BY <2>1 DEF Setting, Welcoming, Joining, Holds
    <3> QED
      BY <1>0, <2>1, <3>1, <3>2, PlacedKept, LoneKept
  <2> QED
    BY <2>2 DEF Grouped, Placed, Lone
<1>24. ASSUME NEW s \in Slots, RecvEnds(s) PROVE Grouped'
  <2>1. /\ me' = me /\ sess' = sess /\ left' = left /\ nonUser' = nonUser /\ echoUser' = echoUser
        /\ \A q : q.kind = "move" => (q \in port' <=> q \in port)
    BY <1>24, RecvEndsMoves
  <2>2. ASSUME NEW r \in Slots PROVE Placed(r)' /\ Lone(r)'
    <3>1. MovesOf(r)' = MovesOf(r)
      BY <2>1, MovesSame
    <3>2. \A u \in Threads : /\ Setting(u, r)' <=> Setting(u, r)
                             /\ Welcoming(u, r)' <=> Welcoming(u, r)
                             /\ Joining(u, r)' <=> Joining(u, r)
                             /\ Holds(u, r)' <=> Holds(u, r)
      BY <2>1 DEF Setting, Welcoming, Joining, Holds
    <3> QED
      BY <1>0, <2>1, <3>1, <3>2, PlacedKept, LoneKept
  <2> QED
    BY <2>2 DEF Grouped, Placed, Lone
<1>25. ASSUME NEW s \in Slots, NEW k \in 1..MaxMsg, PeerSends(s, k) PROVE Grouped'
  <2>1. /\ me' = me /\ sess' = sess /\ left' = left /\ nonUser' = nonUser /\ echoUser' = echoUser
        /\ \A q : q.kind = "move" => (q \in port' <=> q \in port)
    BY <1>25, PeerSendsMoves
  <2>2. ASSUME NEW r \in Slots PROVE Placed(r)' /\ Lone(r)'
    <3>1. MovesOf(r)' = MovesOf(r)
      BY <2>1, MovesSame
    <3>2. \A u \in Threads : /\ Setting(u, r)' <=> Setting(u, r)
                             /\ Welcoming(u, r)' <=> Welcoming(u, r)
                             /\ Joining(u, r)' <=> Joining(u, r)
                             /\ Holds(u, r)' <=> Holds(u, r)
      BY <2>1 DEF Setting, Welcoming, Joining, Holds
    <3> QED
      BY <1>0, <2>1, <3>1, <3>2, PlacedKept, LoneKept
  <2> QED
    BY <2>2 DEF Grouped, Placed, Lone
<1>26. ASSUME UNCHANGED vars PROVE Grouped'
  <2>1. /\ me' = me /\ sess' = sess /\ left' = left /\ nonUser' = nonUser /\ echoUser' = echoUser
        /\ \A q : q.kind = "move" => (q \in port' <=> q \in port)
    BY <1>26
  <2>2. ASSUME NEW r \in Slots PROVE Placed(r)' /\ Lone(r)'
    <3>1. MovesOf(r)' = MovesOf(r)
      BY <2>1, MovesSame
    <3>2. \A u \in Threads : /\ Setting(u, r)' <=> Setting(u, r)
                             /\ Welcoming(u, r)' <=> Welcoming(u, r)
                             /\ Joining(u, r)' <=> Joining(u, r)
                             /\ Holds(u, r)' <=> Holds(u, r)
      BY <2>1 DEF Setting, Welcoming, Joining, Holds
    <3> QED
      BY <1>0, <2>1, <3>1, <3>2, PlacedKept, LoneKept
  <2> QED
    BY <2>2 DEF Grouped, Placed, Lone
<1> QED
  BY <1>1, <1>1a, <1>1b, <1>2, <1>3a, <1>3, <1>4, <1>5, <1>6, <1>7, <1>8, <1>9, <1>10, <1>11, <1>12, <1>13, <1>14,
     <1>15, <1>16, <1>17, <1>18, <1>19, <1>20, <1>21, <1>22, <1>23, <1>24, <1>25, <1>26,
     StepCases

-----------------------------------------------------------------------------
(* The messages find their group *)

\* What a thread in a receive, or in a move, needs of its slot.
RoutedAt(t) ==
    /\ me[t].job = "recv" /\ me[t].pc \in {"lock", "recv"} =>
           /\ ring[me[t].slot] # <<>>
           /\ me[t].group = Echo => sess[me[t].slot].group = Echo
           /\ Head(ring[me[t].slot]).late => me[t].group = Echo
    /\ me[t].pc = "user" => sess[me[t].slot].group = Echo
RoutedIn(s) ==
    /\ \A i \in 1..Len(ring[s]) : ring[s][i].late => sess[s].group = Echo
    /\ sess[s].conn \in welcomed => sess[s].group = Echo

\* Routed, thread by thread and slot by slot.
LEMMA RoutedParts ==
  Routed <=> (\A t \in Threads : RoutedAt(t)) /\ (\A s \in Slots : RoutedIn(s))
  BY DEF Routed, RoutedAt, RoutedIn

\* The step of a thread that begins neither; m_GroupID changes to CEcho only.
LEMMA OthersRouted ==
  ASSUME IInv, NEW t \in Threads, Others(t), NEW u \in Threads, u # t,
         sess[me[u].slot].group = Echo => sess'[me[u].slot].group = Echo,
         me[u].slot \in Slots /\ Receiving(u, me[u].slot) => ring'[me[u].slot] = ring[me[u].slot]
  PROVE  RoutedAt(u)'
<1>1. me'[u] = me[u] /\ RoutedAt(u)
  BY TypeFacts, RoutedParts DEF Others
<1>2. me[u].job = "recv" /\ me[u].pc \in {"lock", "recv"} => me[u].slot \in Slots /\ Receiving(u, me[u].slot)
  BY OwnSlot DEF Receiving
<1> QED
  BY <1>1, <1>2 DEF RoutedAt

\* A step that changes no message and no group.
LEMMA RoutedKept ==
  ASSUME IInv, NEW t \in Threads, Others(t), ring' = ring, welcomed' = welcomed,
         \A r \in Slots : sess'[r].conn = sess[r].conn /\ sess'[r].group = sess[r].group,
         RoutedAt(t)'
  PROVE  Routed'
<1>1. ASSUME NEW u \in Threads, u # t PROVE RoutedAt(u)'
  <2>1. CASE me[u].slot \in Slots
    BY <1>1, <2>1, OthersRouted
  <2>2. CASE me[u].slot \notin Slots
    <3>1. me[u].job \notin {"accept", "recv", "move", "close"}
      BY <2>2, OwnSlot
    <3>2. me'[u] = me[u] /\ me[u].pc # "user"
      BY <1>1, <3>1, PlaceJob DEF Others
    <3> QED
      BY <3>1, <3>2 DEF RoutedAt
  <2> QED
    BY <2>1, <2>2
<1>2. ASSUME NEW r \in Slots PROVE RoutedIn(r)'
  <2>1. RoutedIn(r)
    BY TypeFacts, RoutedParts
  <2> QED
    BY <2>1 DEF RoutedIn
<1> QED
  BY <1>1, <1>2 DEF Routed, RoutedAt, RoutedIn


\* A message that came after the welcome goes to CEcho.
LEMMA RoutedStep ==
  ASSUME IInv, NoScan, [Next]_vars
  PROVE  Routed'
<1>0. /\ Routed /\ (\A t \in Threads : RoutedAt(t)) /\ (\A s \in Slots : RoutedIn(s))
      /\ OneReceive /\ ConnsApart /\ Auth # Echo /\ 0 \notin Conns /\ accepted \in Nat
      /\ ring \in [Slots -> Seq(Messages)]
  BY TypeFacts, RoutedParts
<1>1. ASSUME NEW t \in Threads, Accept(t) PROVE Routed'
  <2>1. PICK s \in free :
           /\ s \in Slots /\ Begun(t, "named", s, "accept") /\ OtherSlots(s) /\ sess'[s].group = Auth
           /\ sess'[s].conn = accepted + 1 /\ OtherRings(s) /\ ring'[s] = <<>> /\ welcomed' = welcomed
    BY <1>1, AcceptMoves
  <2>2. Others(t) /\ me'[t].job = "accept" /\ me'[t].pc = "named"
    BY <2>1 DEF Begun
  <2>3. \A r \in Slots : r # s => sess'[r].conn = sess[r].conn /\ sess'[r].group = sess[r].group /\ ring'[r] = ring[r]
    BY <2>1 DEF OtherSlots, SameSlot, SameButRef, OtherRings
  <2>x. ASSUME NEW u \in Threads PROVE RoutedAt(u)'
    <3>1. CASE u = t
      BY <2>2, <3>1 DEF RoutedAt
    <3>2. CASE u # t /\ me[u].job \in {"recv", "move"}
      <4>1. me[u].slot \in Slots /\ me[u].slot # s
        BY <2>1, <3>2, OwnSlot
      <4> QED
        BY <2>2, <2>3, <3>2, <4>1, OthersRouted
    <3>3. CASE u # t /\ me[u].job \notin {"recv", "move"}
      <4>1. me'[u] = me[u] /\ me[u].pc # "user"
        BY <2>2, <3>3, PlaceJob DEF Others
      <4> QED
        BY <3>3, <4>1 DEF RoutedAt
    <3> QED
      BY <3>1, <3>2, <3>3
  <2>y. ASSUME NEW r \in Slots PROVE RoutedIn(r)'
    <3>1. CASE r = s
      <4>1. accepted + 1 \notin welcomed
        BY <1>0 DEF ConnsApart
      <4>2. 1..Len(ring'[r]) = {}
        BY <2>1, <3>1
      <4> QED
        BY <2>1, <3>1, <4>1, <4>2 DEF RoutedIn
    <3>2. CASE r # s
      BY <1>0, <2>1, <2>3, <3>2 DEF RoutedIn
    <3> QED
      BY <3>1, <3>2
  <2> QED
    BY <2>x, <2>y DEF Routed, RoutedAt, RoutedIn
<1>1a. ASSUME NEW t \in Threads, InitCount(t) PROVE Routed'
  <2>1. Others(t) /\ ring' = ring /\ welcomed' = welcomed
    BY <1>1a, InitCountMoves DEF Moves, SameWork
  <2>2. \A r \in Slots : sess'[r].conn = sess[r].conn /\ sess'[r].group = sess[r].group
    BY <1>1a, InitCountMoves DEF SameTable, SameSlots, SameSlot, SameButRef, OtherSlots
  <2>3. me'[t].pc # "user" /\ ~(me'[t].job = "recv" /\ me'[t].pc \in {"lock", "recv"})
    BY <1>1a, InitCountMoves, IdleWork DEF Moves, SameWork
  <2>4. RoutedAt(t)'
    BY <2>3 DEF RoutedAt
  <2> QED
    BY <2>1, <2>2, <2>4, RoutedKept
<1>1b. ASSUME NEW t \in Threads, InitOpen(t) PROVE Routed'
  <2>1. Others(t) /\ ring' = ring /\ welcomed' = welcomed
    BY <1>1b, InitOpenMoves DEF Moves, SameWork
  <2>2. \A r \in Slots : sess'[r].conn = sess[r].conn /\ sess'[r].group = sess[r].group
    BY <1>1b, InitOpenMoves DEF SameTable, SameSlots, SameSlot, SameButRef, OtherSlots
  <2>3. me'[t].pc # "user" /\ ~(me'[t].job = "recv" /\ me'[t].pc \in {"lock", "recv"})
    BY <1>1b, InitOpenMoves, IdleWork DEF Moves, SameWork
  <2>4. RoutedAt(t)'
    BY <2>3 DEF RoutedAt
  <2> QED
    BY <2>1, <2>2, <2>4, RoutedKept
<1>2. ASSUME NEW t \in Threads, OnClientJoin(t) PROVE Routed'
  <2>1. Others(t) /\ ring' = ring /\ welcomed' = welcomed
    BY <1>2, OnClientJoinMoves DEF Moves, SameWork
  <2>2. \A r \in Slots : sess'[r].conn = sess[r].conn /\ sess'[r].group = sess[r].group
    BY <1>2, OnClientJoinMoves DEF SameTable, SameSlots, SameSlot, SameButRef, OtherSlots
  <2>3. me'[t].pc # "user" /\ ~(me'[t].job = "recv" /\ me'[t].pc \in {"lock", "recv"})
    BY <1>2, OnClientJoinMoves, IdleWork DEF Moves, SameWork
  <2>4. RoutedAt(t)'
    BY <2>3 DEF RoutedAt
  <2> QED
    BY <2>1, <2>2, <2>4, RoutedKept
<1>3a. ASSUME NEW t \in Threads, Post(t) PROVE Routed'
  <2>1. Others(t) /\ ring' = ring /\ welcomed' = welcomed
    BY <1>3a, PostMoves DEF Moves, SameWork
  <2>2. \A r \in Slots : sess'[r].conn = sess[r].conn /\ sess'[r].group = sess[r].group
    BY <1>3a, PostMoves DEF SameTable, SameSlots, SameSlot, SameButRef, OtherSlots
  <2>3. me'[t].pc # "user" /\ ~(me'[t].job = "recv" /\ me'[t].pc \in {"lock", "recv"})
    BY <1>3a, PostMoves, IdleWork DEF Moves, SameWork
  <2>4. RoutedAt(t)'
    BY <2>3 DEF RoutedAt
  <2> QED
    BY <2>1, <2>2, <2>4, RoutedKept
<1>3. ASSUME NEW t \in Threads, PostRecv(t) PROVE Routed'
  <2>1. Others(t) /\ ring' = ring /\ welcomed' = welcomed
    BY <1>3, PostRecvMoves DEF Moves, SameWork
  <2>2. \A r \in Slots : sess'[r].conn = sess[r].conn /\ sess'[r].group = sess[r].group
    BY <1>3, PostRecvMoves DEF SameTable, SameSlots, SameSlot, SameButRef, OtherSlots
  <2>3. me'[t].pc # "user" /\ ~(me'[t].job = "recv" /\ me'[t].pc \in {"lock", "recv"})
    BY <1>3, PostRecvMoves, IdleWork DEF Moves, SameWork
  <2>4. RoutedAt(t)'
    BY <2>3 DEF RoutedAt
  <2> QED
    BY <2>1, <2>2, <2>4, RoutedKept
<1>4. ASSUME NEW t \in Threads, Give(t) PROVE Routed'
  <2>1. Others(t) /\ ring' = ring /\ welcomed' = welcomed
    BY <1>4, GiveMoves DEF Rests
  <2>2. \A r \in Slots : sess'[r].conn = sess[r].conn /\ sess'[r].group = sess[r].group
    BY <1>4, GiveMoves DEF SameTable, SameSlots, SameSlot, SameButRef, OtherSlots
  <2>3. me'[t].pc # "user" /\ ~(me'[t].job = "recv" /\ me'[t].pc \in {"lock", "recv"})
    BY <1>4, GiveMoves, IdleWork DEF Rests
  <2>4. RoutedAt(t)'
    BY <2>3 DEF RoutedAt
  <2> QED
    BY <2>1, <2>2, <2>4, RoutedKept
<1>5. ASSUME NEW t \in Threads, NEW s \in Slots, TakeRecv(t, s) PROVE Routed'
  <2>1. Others(t) /\ ring' = ring /\ welcomed' = welcomed
    BY <1>5, TakeRecvMoves DEF Begun
  <2>2. \A r \in Slots : sess'[r].conn = sess[r].conn /\ sess'[r].group = sess[r].group
    BY <1>5, TakeRecvMoves DEF SameTable, SameSlots, SameSlot, SameButRef, OtherSlots
  <2>3. me'[t].pc # "user" /\ ~(me'[t].job = "recv" /\ me'[t].pc \in {"lock", "recv"})
    BY <1>5, TakeRecvMoves, IdleWork DEF Begun
  <2>4. RoutedAt(t)'
    BY <2>3 DEF RoutedAt
  <2> QED
    BY <2>1, <2>2, <2>4, RoutedKept
<1>6. ASSUME NEW t \in Threads, NextMessage(t) PROVE Routed'
  <2> DEFINE s == me[t].slot
  <2>1. /\ s \in Slots /\ Others(t) /\ ring' = ring /\ welcomed' = welcomed
        /\ me'[t].slot = s /\ me'[t].pc \in {"give", "post", "lock"}
        /\ me'[t].pc = "lock" => me'[t].group = sess[s].group /\ ring[s] # <<>>
    BY <1>6, NextMessageMoves
  <2>2. \A r \in Slots : sess'[r].conn = sess[r].conn /\ sess'[r].group = sess[r].group
    BY <1>6, NextMessageMoves DEF SameSlots, SameSlot, SameButRef
  <2>3. RoutedAt(t)'
    <3>1. ring[s] # <<>> /\ Head(ring[s]).late => sess[s].group = Echo
      <4>1. ring[s] \in Seq(Messages)
        BY <1>0, <2>1
      <4>2. ring[s] # <<>> => 1 \in 1..Len(ring[s]) /\ Head(ring[s]) = ring[s][1]
        BY <4>1
      <4> QED
        BY <1>0, <2>1, <4>2 DEF RoutedIn
    <3> QED
      BY <2>1, <2>2, <3>1 DEF RoutedAt
  <2> QED
    BY <2>1, <2>2, <2>3, RoutedKept
<1>7. ASSUME NEW t \in Threads, RecvLock(t) PROVE Routed'
  <2>1. /\ me[t].pc = "lock" /\ me[t].job = "recv" /\ me[t].slot \in Slots /\ Moves(t, "recv") /\ sess' = sess
        /\ ring' = ring /\ welcomed' = welcomed
    BY <1>7, RecvLockMoves
  <2>2. Others(t) /\ me'[t].slot = me[t].slot /\ me'[t].group = me[t].group /\ me'[t].pc = "recv"
    BY <2>1 DEF Moves, SameWork
  <2>3. RoutedAt(t)'
    BY <1>0, <2>1, <2>2 DEF RoutedAt
  <2> QED
    BY <2>1, <2>2, <2>3, RoutedKept
<1>8. ASSUME NEW t \in Threads, OnRecv(t) PROVE Routed'
  <2> DEFINE s == me[t].slot
  <2>1. /\ me[t].job = "recv" /\ me[t].pc = "recv" /\ Moves(t, "unlock") /\ s \in Slots /\ OtherRings(s)
        /\ ring[s] # <<>> /\ ring'[s] = Tail(ring[s]) /\ welcomed' = welcomed
    BY <1>8, OnRecvMoves
  <2>2. Others(t) /\ me'[t].pc = "unlock"
    BY <2>1 DEF Moves
  <2>3. \A r \in Slots : sess'[r].conn = sess[r].conn /\ sess'[r].group = sess[r].group
    BY <1>8, OnRecvMoves DEF SameSlots, SameSlot, SameButRef, OtherSlots
  <2>4. Receiving(t, s)
    BY <2>1 DEF Receiving
  <2>x. ASSUME NEW u \in Threads PROVE RoutedAt(u)'
    <3>1. CASE u = t
      BY <2>2, <3>1 DEF RoutedAt
    <3>2. CASE u # t /\ me[u].slot \in Slots
      <4>1. Receiving(u, me[u].slot) => me[u].slot # s
        BY <1>0, <2>1, <2>4, <3>2 DEF OneReceive
      <4>2. Receiving(u, me[u].slot) => ring'[me[u].slot] = ring[me[u].slot]
        BY <2>1, <3>2, <4>1 DEF OtherRings
      <4> QED
        BY <2>2, <2>3, <3>2, <4>2, OthersRouted
    <3>3. CASE u # t /\ me[u].slot \notin Slots
      <4>1. me[u].job \notin {"recv", "move"}
        BY <3>3, OwnSlot
      <4>2. me'[u] = me[u] /\ me[u].pc # "user"
        BY <2>2, <3>3, <4>1, PlaceJob DEF Others
      <4> QED
        BY <4>1, <4>2 DEF RoutedAt
    <3> QED
      BY <3>1, <3>2, <3>3
  <2>y. ASSUME NEW r \in Slots PROVE RoutedIn(r)'
    <3>1. CASE r = s
      <4>1. ring[s] \in Seq(Messages)
        BY <1>0, <2>1
      <4>2. \A i \in 1..Len(Tail(ring[s])) : i + 1 \in 1..Len(ring[s]) /\ Tail(ring[s])[i] = ring[s][i + 1]
        BY <2>1, <4>1
      <4>3. \A i \in 1..Len(ring'[s]) : ring'[s][i].late => sess[s].group = Echo
        <5>1. \A i \in 1..Len(ring[s]) : ring[s][i].late => sess[s].group = Echo
          BY <1>0, <2>1 DEF RoutedIn
        <5> QED
          BY <2>1, <4>2, <5>1
      <4>4. (sess[s].conn \in welcomed => sess[s].group = Echo) /\ sess'[s].conn = sess[s].conn
            /\ sess'[s].group = sess[s].group
        BY <1>0, <2>1, <2>3 DEF RoutedIn
      <4> QED
        BY <2>1, <3>1, <4>3, <4>4 DEF RoutedIn
    <3>2. CASE r # s
      BY <1>0, <2>1, <2>3, <3>2 DEF RoutedIn, OtherRings
    <3> QED
      BY <3>1, <3>2
  <2> QED
    BY <2>x, <2>y DEF Routed, RoutedAt, RoutedIn
<1>9. ASSUME NEW t \in Threads, Unlock(t) PROVE Routed'
  <2>1. Others(t) /\ ring' = ring /\ welcomed' = welcomed
    BY <1>9, UnlockMoves DEF Moves, Rests, SameWork
  <2>2. \A r \in Slots : sess'[r].conn = sess[r].conn /\ sess'[r].group = sess[r].group
    BY <1>9, UnlockMoves DEF SameTable, SameSlots, SameSlot, SameButRef, OtherSlots
  <2>3. me'[t].pc # "user" /\ ~(me'[t].job = "recv" /\ me'[t].pc \in {"lock", "recv"})
    BY <1>9, UnlockMoves, IdleWork DEF Moves, Rests, SameWork
  <2>4. RoutedAt(t)'
    BY <2>3 DEF RoutedAt
  <2> QED
    BY <2>1, <2>2, <2>4, RoutedKept
<1>10. ASSUME NEW t \in Threads, NEW p \in port, TakeMove(t, p) PROVE Routed'
  <2>1. /\ Begun(t, "lock", p.slot, "move") /\ sess' = sess /\ ring' = ring /\ welcomed' = welcomed
    BY <1>10, TakeMoveMoves
  <2>2. Others(t) /\ me'[t].pc = "lock" /\ me'[t].job = "move"
    BY <2>1 DEF Begun
  <2>3. RoutedAt(t)'
    BY <2>2 DEF RoutedAt
  <2> QED
    BY <2>1, <2>2, <2>3, RoutedKept
<1>11. ASSUME NEW t \in Threads, NEW p \in port, TakeRelease(t, p) PROVE Routed'
  <2>1. Others(t) /\ ring' = ring /\ welcomed' = welcomed
    BY <1>11, TakeReleaseMoves DEF Begun
  <2>2. \A r \in Slots : sess'[r].conn = sess[r].conn /\ sess'[r].group = sess[r].group
    BY <1>11, TakeReleaseMoves DEF SameTable, SameSlots, SameSlot, SameButRef, OtherSlots
  <2>3. me'[t].pc # "user" /\ ~(me'[t].job = "recv" /\ me'[t].pc \in {"lock", "recv"})
    BY <1>11, TakeReleaseMoves, IdleWork DEF Begun
  <2>4. RoutedAt(t)'
    BY <2>3 DEF RoutedAt
  <2> QED
    BY <2>1, <2>2, <2>4, RoutedKept
<1>12. ASSUME NEW t \in Threads, NEW p \in port, TakeFrame(t, p) PROVE Routed'
  <2>1. Others(t) /\ ring' = ring /\ welcomed' = welcomed
    BY <1>12, TakeFrameMoves DEF Begun
  <2>2. \A r \in Slots : sess'[r].conn = sess[r].conn /\ sess'[r].group = sess[r].group
    BY <1>12, TakeFrameMoves DEF SameTable, SameSlots, SameSlot, SameButRef, OtherSlots
  <2>3. me'[t].pc # "user" /\ ~(me'[t].job = "recv" /\ me'[t].pc \in {"lock", "recv"})
    BY <1>12, TakeFrameMoves, IdleWork DEF Begun
  <2>4. RoutedAt(t)'
    BY <2>3 DEF RoutedAt
  <2> QED
    BY <2>1, <2>2, <2>4, RoutedKept
<1>13. ASSUME NEW t \in Threads, MoveLock(t) PROVE Routed'
  <2>1. Others(t) /\ ring' = ring /\ welcomed' = welcomed
    BY <1>13, MoveLockMoves DEF Moves, SameWork
  <2>2. \A r \in Slots : sess'[r].conn = sess[r].conn /\ sess'[r].group = sess[r].group
    BY <1>13, MoveLockMoves DEF SameTable, SameSlots, SameSlot, SameButRef, OtherSlots
  <2>3. me'[t].pc # "user" /\ ~(me'[t].job = "recv" /\ me'[t].pc \in {"lock", "recv"})
    BY <1>13, MoveLockMoves, IdleWork DEF Moves, SameWork
  <2>4. RoutedAt(t)'
    BY <2>3 DEF RoutedAt
  <2> QED
    BY <2>1, <2>2, <2>4, RoutedKept
<1>14. ASSUME NEW t \in Threads, SetGroup(t) PROVE Routed'
  <2> DEFINE s == me[t].slot
  <2>1. /\ Moves(t, "user") /\ s \in Slots /\ OtherSlots(s) /\ sess'[s].group = Echo
        /\ sess'[s].conn = sess[s].conn /\ ring' = ring /\ welcomed' = welcomed /\ me[t].job = "move"
    BY <1>14, SetGroupMoves
  <2>2. Others(t) /\ me'[t].pc = "user" /\ me'[t].slot = s /\ me'[t].job = "move"
    BY <2>1 DEF Moves, SameWork
  <2>3. \A r \in Slots : sess'[r].conn = sess[r].conn /\ (sess[r].group = Echo => sess'[r].group = Echo)
    BY <2>1 DEF OtherSlots, SameSlot, SameButRef
  <2>x. ASSUME NEW u \in Threads PROVE RoutedAt(u)'
    <3>1. CASE u = t
      BY <2>1, <2>2, <3>1 DEF RoutedAt
    <3>2. CASE u # t /\ me[u].slot \in Slots
      BY <2>1, <2>2, <2>3, <3>2, OthersRouted
    <3>3. CASE u # t /\ me[u].slot \notin Slots
      <4>1. me[u].job \notin {"recv", "move"}
        BY <3>3, OwnSlot
      <4>2. me'[u] = me[u] /\ me[u].pc # "user"
        BY <2>2, <3>3, <4>1, PlaceJob DEF Others
      <4> QED
        BY <4>1, <4>2 DEF RoutedAt
    <3> QED
      BY <3>1, <3>2, <3>3
  <2>y. ASSUME NEW r \in Slots PROVE RoutedIn(r)'
    BY <1>0, <2>1, <2>3 DEF RoutedIn
  <2> QED
    BY <2>x, <2>y DEF Routed, RoutedAt, RoutedIn
<1>15. ASSUME NEW t \in Threads, OnIUserMove(t) PROVE Routed'
  <2> DEFINE s == me[t].slot
  <2>1. /\ me[t].pc = "user" /\ Moves(t, "unlock") /\ s \in Slots /\ sess' = sess /\ ring' = ring
        /\ Conn(t) = me[t].conn /\ me[t].conn \in Conns /\ welcomed' = welcomed \cup {me[t].conn}
    BY <1>15, OnIUserMoveMoves
  <2>2. Others(t) /\ me'[t].pc = "unlock"
    BY <2>1 DEF Moves
  <2>x. ASSUME NEW u \in Threads PROVE RoutedAt(u)'
    <3>1. CASE u = t
      BY <2>2, <3>1 DEF RoutedAt
    <3>2. CASE u # t
      BY <2>1, <2>2, <3>2, OthersRouted
    <3> QED
      BY <3>1, <3>2
  <2>y. ASSUME NEW r \in Slots PROVE RoutedIn(r)'
    <3>1. sess[s].group = Echo
      BY <1>0, <2>1 DEF RoutedAt
    <3>2. sess[r].conn = me[t].conn => r = s
      BY <1>0, <2>1 DEF ConnsApart
    <3> QED
      BY <1>0, <2>1, <3>1, <3>2 DEF RoutedIn
  <2> QED
    BY <2>x, <2>y DEF Routed, RoutedAt, RoutedIn
<1>16. ASSUME NEW t \in Threads, OnClientLeave(t) PROVE Routed'
  <2>1. Others(t) /\ ring' = ring /\ welcomed' = welcomed
    BY <1>16, OnClientLeaveMoves DEF Moves, SameWork
  <2>2. \A r \in Slots : sess'[r].conn = sess[r].conn /\ sess'[r].group = sess[r].group
    BY <1>16, OnClientLeaveMoves DEF SameTable, SameSlots, SameSlot, SameButRef, OtherSlots
  <2>3. me'[t].pc # "user" /\ ~(me'[t].job = "recv" /\ me'[t].pc \in {"lock", "recv"})
    BY <1>16, OnClientLeaveMoves, IdleWork DEF Moves, SameWork
  <2>4. RoutedAt(t)'
    BY <2>3 DEF RoutedAt
  <2> QED
    BY <2>1, <2>2, <2>4, RoutedKept
<1>17. ASSUME NEW t \in Threads, Push(t) PROVE Routed'
  <2>1. Others(t) /\ ring' = ring /\ welcomed' = welcomed
    BY <1>17, PushMoves DEF Rests
  <2>2. \A r \in Slots : sess'[r].conn = sess[r].conn /\ sess'[r].group = sess[r].group
    BY <1>17, PushMoves DEF SameTable, SameSlots, SameSlot, SameButRef, OtherSlots
  <2>3. me'[t].pc # "user" /\ ~(me'[t].job = "recv" /\ me'[t].pc \in {"lock", "recv"})
    BY <1>17, PushMoves, IdleWork DEF Rests
  <2>4. RoutedAt(t)'
    BY <2>3 DEF RoutedAt
  <2> QED
    BY <2>1, <2>2, <2>4, RoutedKept
<1>18. ASSUME NEW t \in Threads, FrameLock(t) PROVE Routed'
  <2>1. Others(t) /\ ring' = ring /\ welcomed' = welcomed
    BY <1>18, FrameLockMoves DEF Moves, SameWork
  <2>2. \A r \in Slots : sess'[r].conn = sess[r].conn /\ sess'[r].group = sess[r].group
    BY <1>18, FrameLockMoves DEF SameTable, SameSlots, SameSlot, SameButRef, OtherSlots
  <2>3. me'[t].pc # "user" /\ ~(me'[t].job = "recv" /\ me'[t].pc \in {"lock", "recv"})
    BY <1>18, FrameLockMoves, IdleWork DEF Moves, SameWork
  <2>4. RoutedAt(t)'
    BY <2>3 DEF RoutedAt
  <2> QED
    BY <2>1, <2>2, <2>4, RoutedKept
<1>19. ASSUME NEW t \in Threads, SetDC(t) PROVE Routed'
  <2>1. Others(t) /\ ring' = ring /\ welcomed' = welcomed
    BY <1>19, SetDCMoves DEF Moves, SameWork
  <2>2. \A r \in Slots : sess'[r].conn = sess[r].conn /\ sess'[r].group = sess[r].group
    BY <1>19, SetDCMoves DEF SameTable, SameSlots, SameSlot, SameButRef, OtherSlots
  <2>3. me'[t].pc # "user" /\ ~(me'[t].job = "recv" /\ me'[t].pc \in {"lock", "recv"})
    BY <1>19, SetDCMoves, IdleWork DEF Moves, SameWork
  <2>4. RoutedAt(t)'
    BY <2>3 DEF RoutedAt
  <2> QED
    BY <2>1, <2>2, <2>4, RoutedKept
<1>20. ASSUME NEW t \in Threads, Cancel(t) PROVE Routed'
  <2>1. Others(t) /\ ring' = ring /\ welcomed' = welcomed
    BY <1>20, CancelMoves DEF Moves, SameWork
  <2>2. \A r \in Slots : sess'[r].conn = sess[r].conn /\ sess'[r].group = sess[r].group
    BY <1>20, CancelMoves DEF SameTable, SameSlots, SameSlot, SameButRef, OtherSlots
  <2>3. me'[t].pc # "user" /\ ~(me'[t].job = "recv" /\ me'[t].pc \in {"lock", "recv"})
    BY <1>20, CancelMoves, IdleWork DEF Moves, SameWork
  <2>4. RoutedAt(t)'
    BY <2>3 DEF RoutedAt
  <2> QED
    BY <2>1, <2>2, <2>4, RoutedKept
<1>21. ASSUME NEW t \in Threads, NEW s \in Slots, Enter(t, s) PROVE Routed'
  <2>1. Others(t) /\ ring' = ring /\ welcomed' = welcomed
    BY <1>21, EnterMoves DEF Begun
  <2>2. \A r \in Slots : sess'[r].conn = sess[r].conn /\ sess'[r].group = sess[r].group
    BY <1>21, EnterMoves DEF SameTable, SameSlots, SameSlot, SameButRef, OtherSlots
  <2>3. me'[t].pc # "user" /\ ~(me'[t].job = "recv" /\ me'[t].pc \in {"lock", "recv"})
    BY <1>21, EnterMoves, IdleWork DEF Begun
  <2>4. RoutedAt(t)'
    BY <2>3 DEF RoutedAt
  <2> QED
    BY <2>1, <2>2, <2>4, RoutedKept
<1>22. ASSUME NEW g \in Groups, PostFrame(g) PROVE Routed'
  <2>1. me' = me /\ sess' = sess /\ ring' = ring /\ welcomed' = welcomed
    BY <1>22 DEF PostFrame
  <2> QED
    BY <1>0, <2>1 DEF Routed
<1>23. ASSUME NEW s \in Slots, PeerCloses(s) PROVE Routed'
  <2>1. me' = me /\ sess' = sess /\ ring' = ring /\ welcomed' = welcomed
    BY <1>23 DEF PeerCloses
  <2> QED
    BY <1>0, <2>1 DEF Routed
<1>24. ASSUME NEW s \in Slots, RecvEnds(s) PROVE Routed'
  <2>1. me' = me /\ sess' = sess /\ ring' = ring /\ welcomed' = welcomed
    BY <1>24, RecvEndsMoves
  <2> QED
    BY <1>0, <2>1 DEF Routed
<1>25. ASSUME NEW s \in Slots, NEW k \in 1..MaxMsg, PeerSends(s, k) PROVE Routed'
  <2>1. /\ recv[s] = "posted" /\ OtherRings(s) /\ Len(ring'[s]) = k /\ k \in Nat /\ sess' = sess
        /\ \A i \in 1..k : ring'[s][i].late <=> sess[s].conn \in welcomed
        /\ me' = me /\ welcomed' = welcomed
    BY <1>25, PeerSendsMoves
  <2>x. ASSUME NEW u \in Threads PROVE RoutedAt(u)'
    <3>1. me[u].job = "recv" /\ me[u].pc \in {"lock", "recv"} => me[u].slot \in Slots /\ me[u].slot # s
      <4>1. me[u].job = "recv" /\ me[u].pc \in {"lock", "recv"} => me[u].slot \in Slots /\ Receiving(u, me[u].slot)
        BY OwnSlot DEF Receiving
      <4> QED
        BY <1>0, <2>1, <4>1 DEF OneReceive
    <3>2. me[u].job = "recv" /\ me[u].pc \in {"lock", "recv"} => ring'[me[u].slot] = ring[me[u].slot]
      BY <2>1, <3>1 DEF OtherRings
    <3>3. RoutedAt(u)
      BY <1>0
    <3> QED
      BY <2>1, <3>2, <3>3 DEF RoutedAt
  <2>y. ASSUME NEW r \in Slots PROVE RoutedIn(r)'
    <3>1. CASE r = s
      <4>1. \A i \in 1..Len(ring'[s]) : ring'[s][i].late => sess[s].group = Echo
        BY <1>0, <2>1 DEF RoutedIn
      <4> QED
        BY <1>0, <2>1, <3>1, <4>1 DEF RoutedIn
    <3>2. CASE r # s
      BY <1>0, <2>1, <3>2 DEF RoutedIn, OtherRings
    <3> QED
      BY <3>1, <3>2
  <2> QED
    BY <2>x, <2>y DEF Routed, RoutedAt, RoutedIn
<1>26. ASSUME UNCHANGED vars PROVE Routed'
  <2>1. me' = me /\ sess' = sess /\ ring' = ring /\ welcomed' = welcomed
    BY <1>26
  <2> QED
    BY <1>0, <2>1 DEF Routed
<1> QED
  BY <1>1, <1>1a, <1>1b, <1>2, <1>3a, <1>3, <1>4, <1>5, <1>6, <1>7, <1>8, <1>9, <1>10, <1>11, <1>12, <1>13, <1>14,
     <1>15, <1>16, <1>17, <1>18, <1>19, <1>20, <1>21, <1>22, <1>23, <1>24, <1>25, <1>26,
     StepCases


\* What is so of a slot inside Init.
LEMMA OpeningFacts ==
  ASSUME IInv, NEW s, Opening(s)
  PROVE  s \in Slots /\ s # None /\ Live(s) /\ ~ToRelease(s) /\ recv[s] = "none" /\ MovesOf(s) = {}
<1>1. Acceptor \in Threads /\ me[Acceptor].slot = s /\ me[Acceptor].pc \in InitPlaces
  BY TypeFacts DEF Opening
<1>2. me[Acceptor].job = "accept"
  BY <1>1, PlaceJob
<1>3. s \in Slots /\ Live(s) /\ ~ToRelease(s)
  BY <1>1, <1>2, OwnSlot
<1>4. Receiving(Acceptor, s) /\ Joining(Acceptor, s)
  BY <1>1, <1>2 DEF Receiving, Joining, InitPlaces
<1>5. recv[s] = "none" /\ MovesOf(s) = {}
  BY <1>1, <1>3, <1>4, TypeFacts DEF OneReceive, Grouped
<1> QED
  BY <1>3, <1>5, TypeFacts

\* A thread that does not go into Init keeps its slot, drops it, or begins with
\* one that is not inside Init.
LEMMA AloneKept ==
  ASSUME IInv, NEW t \in Threads, Others(t), me'[t].slot \in {me[t].slot, None} \/ ~Opening(me'[t].slot),
         me'[t].pc \in InitPlaces => me[t].pc \in InitPlaces /\ me'[t].slot = me[t].slot
  PROVE  InitAlone'
<1> SUFFICES ASSUME me'[Acceptor].pc \in InitPlaces, NEW u \in Threads, me'[u].slot = me'[Acceptor].slot
             PROVE  u = Acceptor
  BY DEF InitAlone
<1>1. /\ Acceptor \in Threads /\ me[Acceptor].pc \in InitPlaces /\ me'[Acceptor].slot = me[Acceptor].slot
  BY TypeFacts DEF Others
<1>2. Opening(me[Acceptor].slot)
  BY <1>1 DEF Opening
<1>3. me[Acceptor].slot # None
  BY <1>2, OpeningFacts
<1>4. me[u].slot = me[Acceptor].slot
  <2>1. CASE u # t
    BY <1>1, <2>1 DEF Others
  <2>2. CASE u = t
    BY <1>1, <1>2, <1>3, <2>2
  <2> QED
    BY <2>1, <2>2
<1> QED
  BY <1>1, <1>4, TypeFacts DEF InitAlone

\* Nobody comes to a slot while Init is at work on it.
LEMMA AloneStep ==
  ASSUME IInv, NoScan, [Next]_vars
  PROVE  InitAlone'
<1>1. ASSUME NEW t \in Threads, Accept(t) PROVE InitAlone'
  <2>1. PICK s \in free : s \in Slots /\ t = Acceptor /\ Begun(t, "named", s, "accept")
    BY <1>1, AcceptMoves
  <2>2. ASSUME NEW u \in Threads, me[u].slot = s PROVE FALSE
    <3>1. s # None
      BY <2>1, TypeFacts
    <3>2. me[u].job \in {"accept", "recv", "move", "close", "release"}
      BY <2>2, <3>1, TypeFacts, PlaceJob DEF WorkRec, Roles, Role
    <3> QED
      BY <2>1, <2>2, <3>2, OwnSlot, ReleasedSlot
  <2> QED
    BY <2>1, <2>2 DEF InitAlone, Begun, Others
<1>2. ASSUME NEW t \in Threads, InitCount(t) PROVE InitAlone'
  <2>1. /\ Others(t) /\ me'[t].slot \in {me[t].slot, None}
        /\ me'[t].pc \in InitPlaces => me[t].pc \in InitPlaces /\ me'[t].slot = me[t].slot
    BY <1>2, InitCountMoves, IdleWork DEF Moves, Rests, Others, SameWork, InitPlaces
  <2> QED
    BY <2>1, AloneKept
<1>3. ASSUME NEW t \in Threads, InitOpen(t) PROVE InitAlone'
  <2>1. /\ Others(t) /\ me'[t].slot \in {me[t].slot, None}
        /\ me'[t].pc \in InitPlaces => me[t].pc \in InitPlaces /\ me'[t].slot = me[t].slot
    BY <1>3, InitOpenMoves, IdleWork DEF Moves, Rests, Others, SameWork, InitPlaces
  <2> QED
    BY <2>1, AloneKept
<1>4. ASSUME NEW t \in Threads, OnClientJoin(t) PROVE InitAlone'
  <2>1. /\ Others(t) /\ me'[t].slot \in {me[t].slot, None}
        /\ me'[t].pc \in InitPlaces => me[t].pc \in InitPlaces /\ me'[t].slot = me[t].slot
    BY <1>4, OnClientJoinMoves, IdleWork DEF Moves, Rests, Others, SameWork, InitPlaces
  <2> QED
    BY <2>1, AloneKept
<1>5. ASSUME NEW t \in Threads, Post(t) PROVE InitAlone'
  <2>1. /\ Others(t) /\ me'[t].slot \in {me[t].slot, None}
        /\ me'[t].pc \in InitPlaces => me[t].pc \in InitPlaces /\ me'[t].slot = me[t].slot
    BY <1>5, PostMoves, IdleWork DEF Moves, Rests, Others, SameWork, InitPlaces
  <2> QED
    BY <2>1, AloneKept
<1>6. ASSUME NEW t \in Threads, PostRecv(t) PROVE InitAlone'
  <2>1. /\ Others(t) /\ me'[t].slot \in {me[t].slot, None}
        /\ me'[t].pc \in InitPlaces => me[t].pc \in InitPlaces /\ me'[t].slot = me[t].slot
    BY <1>6, PostRecvMoves, IdleWork DEF Moves, Rests, Others, SameWork, InitPlaces
  <2> QED
    BY <2>1, AloneKept
<1>7. ASSUME NEW t \in Threads, Give(t) PROVE InitAlone'
  <2>1. /\ Others(t) /\ me'[t].slot \in {me[t].slot, None}
        /\ me'[t].pc \in InitPlaces => me[t].pc \in InitPlaces /\ me'[t].slot = me[t].slot
    BY <1>7, GiveMoves, IdleWork DEF Moves, Rests, Others, SameWork, InitPlaces
  <2> QED
    BY <2>1, AloneKept
<1>8. ASSUME NEW t \in Threads, NEW s \in Slots, TakeRecv(t, s) PROVE InitAlone'
  <2>1. ~Opening(s)
    BY <1>8, TakeRecvMoves, OpeningFacts
  <2>2. Others(t) /\ me'[t].slot = s /\ me'[t].pc \notin InitPlaces
    BY <1>8, TakeRecvMoves DEF Begun, InitPlaces
  <2> QED
    BY <2>1, <2>2, AloneKept
<1>9. ASSUME NEW t \in Threads, NextMessage(t) PROVE InitAlone'
  <2>1. /\ Others(t) /\ me'[t].slot \in {me[t].slot, None}
        /\ me'[t].pc \in InitPlaces => me[t].pc \in InitPlaces /\ me'[t].slot = me[t].slot
    BY <1>9, NextMessageMoves, IdleWork DEF Moves, Rests, Others, SameWork, InitPlaces
  <2> QED
    BY <2>1, AloneKept
<1>10. ASSUME NEW t \in Threads, RecvLock(t) PROVE InitAlone'
  <2>1. /\ Others(t) /\ me'[t].slot \in {me[t].slot, None}
        /\ me'[t].pc \in InitPlaces => me[t].pc \in InitPlaces /\ me'[t].slot = me[t].slot
    BY <1>10, RecvLockMoves, IdleWork DEF Moves, Rests, Others, SameWork, InitPlaces
  <2> QED
    BY <2>1, AloneKept
<1>11. ASSUME NEW t \in Threads, OnRecv(t) PROVE InitAlone'
  <2>1. /\ Others(t) /\ me'[t].slot \in {me[t].slot, None}
        /\ me'[t].pc \in InitPlaces => me[t].pc \in InitPlaces /\ me'[t].slot = me[t].slot
    BY <1>11, OnRecvMoves, IdleWork DEF Moves, Rests, Others, SameWork, InitPlaces
  <2> QED
    BY <2>1, AloneKept
<1>12. ASSUME NEW t \in Threads, Unlock(t) PROVE InitAlone'
  <2>1. /\ Others(t) /\ me'[t].slot \in {me[t].slot, None}
        /\ me'[t].pc \in InitPlaces => me[t].pc \in InitPlaces /\ me'[t].slot = me[t].slot
    BY <1>12, UnlockMoves, IdleWork DEF Moves, Rests, Others, SameWork, InitPlaces
  <2> QED
    BY <2>1, AloneKept
<1>13. ASSUME NEW t \in Threads, NEW p \in port, TakeMove(t, p) PROVE InitAlone'
  <2>1. ~Opening(p.slot)
    BY <1>13, TakeMoveMoves, OpeningFacts DEF MovesOf
  <2>2. Others(t) /\ me'[t].slot = p.slot /\ me'[t].pc \notin InitPlaces
    BY <1>13, TakeMoveMoves DEF Begun, InitPlaces
  <2> QED
    BY <2>1, <2>2, AloneKept
<1>14. ASSUME NEW t \in Threads, NEW p \in port, TakeRelease(t, p) PROVE InitAlone'
  <2>1. ~Opening(p.slot)
    BY <1>14, TakeReleaseMoves, OpeningFacts DEF ToRelease
  <2>2. Others(t) /\ me'[t].slot = p.slot /\ me'[t].pc \notin InitPlaces
    BY <1>14, TakeReleaseMoves DEF Begun, InitPlaces
  <2> QED
    BY <2>1, <2>2, AloneKept
<1>15. ASSUME NEW t \in Threads, NEW p \in port, TakeFrame(t, p) PROVE InitAlone'
  <2>1. ~Opening(None)
    BY <1>15, TakeFrameMoves, OpeningFacts
  <2>2. Others(t) /\ me'[t].slot = None /\ me'[t].pc \notin InitPlaces
    BY <1>15, TakeFrameMoves DEF Begun, InitPlaces
  <2> QED
    BY <2>1, <2>2, AloneKept
<1>16. ASSUME NEW t \in Threads, MoveLock(t) PROVE InitAlone'
  <2>1. /\ Others(t) /\ me'[t].slot \in {me[t].slot, None}
        /\ me'[t].pc \in InitPlaces => me[t].pc \in InitPlaces /\ me'[t].slot = me[t].slot
    BY <1>16, MoveLockMoves, IdleWork DEF Moves, Rests, Others, SameWork, InitPlaces
  <2> QED
    BY <2>1, AloneKept
<1>17. ASSUME NEW t \in Threads, SetGroup(t) PROVE InitAlone'
  <2>1. /\ Others(t) /\ me'[t].slot \in {me[t].slot, None}
        /\ me'[t].pc \in InitPlaces => me[t].pc \in InitPlaces /\ me'[t].slot = me[t].slot
    BY <1>17, SetGroupMoves, IdleWork DEF Moves, Rests, Others, SameWork, InitPlaces
  <2> QED
    BY <2>1, AloneKept
<1>18. ASSUME NEW t \in Threads, OnIUserMove(t) PROVE InitAlone'
  <2>1. /\ Others(t) /\ me'[t].slot \in {me[t].slot, None}
        /\ me'[t].pc \in InitPlaces => me[t].pc \in InitPlaces /\ me'[t].slot = me[t].slot
    BY <1>18, OnIUserMoveMoves, IdleWork DEF Moves, Rests, Others, SameWork, InitPlaces
  <2> QED
    BY <2>1, AloneKept
<1>19. ASSUME NEW t \in Threads, OnClientLeave(t) PROVE InitAlone'
  <2>1. /\ Others(t) /\ me'[t].slot \in {me[t].slot, None}
        /\ me'[t].pc \in InitPlaces => me[t].pc \in InitPlaces /\ me'[t].slot = me[t].slot
    BY <1>19, OnClientLeaveMoves, IdleWork DEF Moves, Rests, Others, SameWork, InitPlaces
  <2> QED
    BY <2>1, AloneKept
<1>20. ASSUME NEW t \in Threads, Push(t) PROVE InitAlone'
  <2>1. /\ Others(t) /\ me'[t].slot \in {me[t].slot, None}
        /\ me'[t].pc \in InitPlaces => me[t].pc \in InitPlaces /\ me'[t].slot = me[t].slot
    BY <1>20, PushMoves, IdleWork DEF Moves, Rests, Others, SameWork, InitPlaces
  <2> QED
    BY <2>1, AloneKept
<1>21. ASSUME NEW t \in Threads, FrameLock(t) PROVE InitAlone'
  <2>1. /\ Others(t) /\ me'[t].slot \in {me[t].slot, None}
        /\ me'[t].pc \in InitPlaces => me[t].pc \in InitPlaces /\ me'[t].slot = me[t].slot
    BY <1>21, FrameLockMoves, IdleWork DEF Moves, Rests, Others, SameWork, InitPlaces
  <2> QED
    BY <2>1, AloneKept
<1>22. ASSUME NEW t \in Threads, SetDC(t) PROVE InitAlone'
  <2>1. /\ Others(t) /\ me'[t].slot \in {me[t].slot, None}
        /\ me'[t].pc \in InitPlaces => me[t].pc \in InitPlaces /\ me'[t].slot = me[t].slot
    BY <1>22, SetDCMoves, IdleWork DEF Moves, Rests, Others, SameWork, InitPlaces
  <2> QED
    BY <2>1, AloneKept
<1>23. ASSUME NEW t \in Threads, Cancel(t) PROVE InitAlone'
  <2>1. /\ Others(t) /\ me'[t].slot \in {me[t].slot, None}
        /\ me'[t].pc \in InitPlaces => me[t].pc \in InitPlaces /\ me'[t].slot = me[t].slot
    BY <1>23, CancelMoves, IdleWork DEF Moves, Rests, Others, SameWork, InitPlaces
  <2> QED
    BY <2>1, AloneKept
<1>24. ASSUME NEW t \in Threads, NEW s \in Slots, Enter(t, s) PROVE InitAlone'
  <2>1. ~Opening(s)
    BY <1>24, EnterMoves
  <2>2. Others(t) /\ me'[t].slot = s /\ me'[t].pc \notin InitPlaces
    BY <1>24, EnterMoves DEF Begun, InitPlaces
  <2> QED
    BY <2>1, <2>2, AloneKept
<1>25. ASSUME me' = me PROVE InitAlone'
  BY <1>25, TypeFacts DEF InitAlone
<1>26. (\E g \in Groups : PostFrame(g)) \/ (\E s \in Slots : PeerCloses(s)) => me' = me
  BY DEF PostFrame, PeerCloses
<1>27. (\E s \in Slots : RecvEnds(s)) \/ (\E s \in Slots : \E i \in 1..MaxMsg : PeerSends(s, i)) => me' = me
  BY DEF RecvEnds, PeerSends
<1> QED
  BY <1>1, <1>2, <1>3, <1>4, <1>5, <1>6, <1>7, <1>8, <1>9, <1>10, <1>11, <1>12, <1>13,
     <1>14, <1>15, <1>16, <1>17, <1>18, <1>19, <1>20, <1>21, <1>22, <1>23, <1>24, <1>25, <1>26, <1>27,
     StepCases

-----------------------------------------------------------------------------
(* The theorems *)

\* The server starts with every slot free and all else empty.
LEMMA InitIInv ==
  ASSUME Init
  PROVE  IInv
<1>1. /\ None \notin Slots /\ None \notin Users /\ None \notin Threads /\ Auth \in Groups /\ Echo \in Groups
      /\ Auth # Echo /\ MaxConn \in Nat /\ MaxMsg \in Nat /\ MaxClose \in Nat /\ MaxFrame \in Nat
  BY NoneApart, Bounds DEF Groups, Auth, Echo
<1>2. TypeOK
  <2>1. [conn |-> 0, ref |-> 0, rel |-> 0, dc |-> 0, group |-> Auth] \in SessRec
    BY <1>1 DEF SessRec
  <2>2. [excl |-> None, shared |-> {}] \in LockRec
    BY DEF LockRec
  <2>3. Typed
    BY <1>1, <2>1, <2>2, IdleWork DEF Init, Typed
  <2> QED
    BY <2>3, TypedIsTypeOK
<1>3. \A t \in Threads : me[t].pc = "idle" /\ me[t].job = "none" /\ me[t].slot = None
  BY IdleWork DEF Init
<1>4. \A s \in Slots : /\ sess[s].conn = 0 /\ Refs[s] = 0 /\ Rels[s] = 0 /\ recv[s] = "none"
                       /\ ring[s] = <<>> /\ s \in free
  <2>1. Acceptor \in Threads
    BY DEF Threads
  <2>2. \A s \in Slots : ~Naming(s) /\ ~Opening(s)
    BY <1>3, <2>1 DEF Naming, Opening, InitPlaces
  <2> QED
    BY <2>2, SeenFields DEF Init
<1>5. port = {} /\ left = {} /\ welcomed = {} /\ accepted = 0 /\ sent = 0
  BY DEF Init
<1>6. Roles
  BY <1>1, <1>3 DEF Roles, Role
<1>7. RefCounted
  <2>1. IsFiniteSet(port)
    BY <1>5, FS_EmptySet
  <2>2. ASSUME NEW s \in Slots PROVE Refs[s] = Cardinality(Held(s)) + RecvOf(s) + Cardinality(MovesOf(s))
    <3>1. Held(s) = {} /\ MovesOf(s) = {}
      BY <1>1, <1>3, <1>5 DEF Held, Holds, MovesOf
    <3>2. Cardinality(Held(s)) = 0 /\ Cardinality(MovesOf(s)) = 0
      BY <3>1, FS_EmptySet
    <3> QED
      BY <1>4, <3>2 DEF RecvOf
  <2> QED
    BY <2>1, <2>2 DEF RefCounted
<1>8. Stages
  <2>1. ASSUME NEW s \in Slots PROVE Stage(s)
    <3>1. ~Live(s) /\ ~ToRelease(s) /\ \A t \in Threads : ~Releases(t, s)
      BY <1>3, <1>4, <1>5 DEF Live, ToRelease, Releases
    <3> QED
      BY <1>4, <3>1 DEF Stage
  <2> QED
    BY <2>1 DEF Stages
<1>9. ConnsApart
  BY <1>4, <1>5 DEF ConnsApart
<1>10. OneReceive
  BY <1>3 DEF OneReceive, Receiving
<1>11. LocksKept
  BY <1>1, <1>3 DEF LocksKept, Init
<1>12. Grouped
  BY <1>3, <1>4 DEF Grouped, Joining
<1>13. MovesTrue
  BY <1>3, <1>5 DEF MovesTrue
<1>14. Routed
  <2>1. \A s \in Slots : 1..Len(ring[s]) = {}
    BY <1>4
  <2> QED
    BY <1>3, <1>5, <2>1 DEF Routed
<1>15. LoginsCome
  BY <1>4, <1>5 DEF LoginsCome, Init
<1>16. UserOnce
  <2>1. \A c \in Conns : echoUser[c] = None
    BY DEF Init
  <2>2. \A t \in Threads : ~Moving(t)
    BY <1>3 DEF Moving
  <2> QED
    BY <1>5, <2>1, <2>2 DEF UserOnce
<1>17. InitAlone
  BY <1>3 DEF InitAlone, InitPlaces, Threads
<1> QED
  BY <1>17, <1>2, <1>6, <1>7, <1>8, <1>9, <1>10, <1>11, <1>12, <1>13, <1>14, <1>15, <1>16 DEF IInv

\* A step keeps all of it.
LEMMA NextIInv ==
  ASSUME IInv, NoScan, [Next]_vars
  PROVE  IInv'
<1>1. TypeOK'
  <2>1. Typed'
    BY TypedStep
  <2> QED
    BY <2>1 DEF Typed, TypeOK, SessRec, LockRec, WorkRec
<1> QED
  BY <1>1, RolesStep, RefStep, AloneStep, StagesStep, ConnsStep, ReceiveStep, LocksStep, GroupedStep, MovesTrueStep,
     RoutedStep, LoginsStep, UsersStep DEF IInv

\* The inductive invariant holds whatever the threads and the peers do.
THEOREM Invariance ==
  ASSUME NoScan
  PROVE  Spec => []IInv
<1>1. Init => IInv
  BY InitIInv
<1>2. IInv /\ [Next]_vars => IInv'
  BY NextIInv
<1> QED
  BY <1>1, <1>2, PTL DEF Spec

\* Every variable keeps its type: no reference count below 0, no more logins
\* than messages, and every thread at a place of the work it does.
THEOREM Types ==
  ASSUME NoScan
  PROVE  Spec => []TypeOK
<1>1. IInv => TypeOK
  BY DEF IInv
<1> QED
  BY <1>1, Invariance, PTL

\* OnClientLeave finds its connection in the map of the group m_GroupID names,
\* and CEcho::OnRecv finds its user: no __debugbreak.
THEOREM ContentsFind ==
  ASSUME NoScan
  PROVE  Spec => []FoundByContents
<1>1. ASSUME IInv PROVE FoundByContents
  <2> SUFFICES ASSUME NEW t \in Threads
               PROVE  /\ At(t, "lock") /\ me[t].job = "release"
                           => IF sess[me[t].slot].group = Auth THEN Conn(t) \in nonUser
                              ELSE echoUser[Conn(t)] # None
                      /\ At(t, "recv") /\ me[t].group = Echo /\ Head(ring[me[t].slot]).type = "echo"
                           => echoUser[Conn(t)] # None
    BY DEF FoundByContents
  <2> DEFINE s == me[t].slot
  <2>1. \A r \in Slots : Placed(r)
    BY <1>1, TypeFacts, GroupedParts
  <2>2. 0 \notin Conns /\ Auth # Echo /\ LocksKept /\ Routed /\ Grouped /\ None \notin Threads
    BY <1>1, TypeFacts
  <2>3. ASSUME me[t].pc = "lock", me[t].job = "release"
        PROVE  IF sess[s].group = Auth THEN Conn(t) \in nonUser ELSE echoUser[Conn(t)] # None
    <3>1. s \in Slots /\ ~Live(s) /\ Conn(t) \in Conns /\ Conn(t) \notin left
      BY <1>1, <2>3, ReleasedSlot
    <3>2. \A u \in Threads : ~Holds(u, s)
      BY <1>1, <3>1, ThreadKeeps
    <3>3. \A u \in Threads : ~Joining(u, s) /\ ~Setting(u, s) /\ ~Welcoming(u, s)
      BY <1>1, <3>2, PlaceJob DEF Joining, Setting, Welcoming, Holds
    <3>4. MovesOf(s) = {}
      BY <1>1, <3>1, MoveKeeps DEF MovesOf
    <3>5. InGroup(s)
      BY <2>1, <2>2, <3>1, <3>3 DEF Placed
    <3> QED
      BY <3>3, <3>4, <3>5 DEF InGroup
  <2>4. ASSUME me[t].pc = "recv", me[t].group = Echo PROVE echoUser[Conn(t)] # None
    <3>1. me[t].job = "recv"
      BY <1>1, <2>4, PlaceJob
    <3>2. s \in Slots /\ Conn(t) \in Conns /\ Conn(t) \notin left
      BY <1>1, <3>1, OwnSlot
    <3>3. sess[s].group = Echo
      BY <2>2, <2>4, <3>1 DEF Routed
    <3>4. \A u \in Threads : me[u].pc # "user"
      BY <2>2, <2>4 DEF LocksKept
    <3>5. \A u \in Threads : ~Joining(u, s) /\ ~Welcoming(u, s)
      BY <2>2, <3>2, <3>3, <3>4 DEF Grouped, Welcoming
    <3>6. InGroup(s)
      BY <2>1, <2>2, <3>2, <3>5 DEF Placed
    <3> QED
      BY <2>2, <3>3, <3>5, <3>6 DEF InGroup
  <2> QED
    BY <2>3, <2>4
<1> QED
  BY <1>1, Invariance, PTL

\* What a client sends after its login response is handled by CEcho.
THEOREM WelcomeHolds ==
  ASSUME NoScan
  PROVE  Spec => []WelcomedToEcho
<1>1. ASSUME IInv PROVE WelcomedToEcho
  BY <1>1, TypeFacts, PlaceJob DEF WelcomedToEcho, Routed
<1> QED
  BY <1>1, Invariance, PTL

\* GroupMoveProc finds the session that was to be moved in the slot.
THEOREM MoveSafe ==
  ASSUME NoScan
  PROVE  Spec => []MoveFindsSession
<1>1. ASSUME IInv PROVE MoveFindsSession
  <2>1. \A p \in port : p.kind = "move" => sess[p.slot].conn = p.conn /\ sess[p.slot].rel = 0
    <3>1. ASSUME NEW p \in port, p.kind = "move"
          PROVE  sess[p.slot].conn = p.conn /\ sess[p.slot].rel = 0
      <4>1. p.slot \in Slots /\ Rels[p.slot] = 0 /\ sess[p.slot].conn = p.conn
        BY <1>1, <3>1, MoveKeeps DEF Live
      <4>2. ~Opening(p.slot)
        BY <1>1, <3>1, OpeningFacts DEF MovesOf
      <4> QED
        BY <4>1, <4>2, SeenFields
    <3> QED
      BY <3>1
  <2>2. ASSUME NEW t \in Workers, Moving(t) PROVE Conn(t) = me[t].conn /\ sess[me[t].slot].rel = 0
    <3>1. t \in Threads /\ me[t].job = "move" /\ me[t].pc \notin InitPlaces
      BY <1>1, <2>2, TypeFacts DEF Moving, InitPlaces
    <3>2. me[t].slot \in Slots /\ Rels[me[t].slot] = 0 /\ ~Opening(me[t].slot)
      BY <1>1, <3>1, OwnSlot
    <3> QED
      BY <1>1, <3>1, <3>2, TypeFacts, SeenFields DEF MovesTrue
  <2> QED
    BY <2>1, <2>2 DEF MoveFindsSession
<1> QED
  BY <1>1, Invariance, PTL
=============================================================================
