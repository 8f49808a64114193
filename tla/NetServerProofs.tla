-------------------------- MODULE NetServerProofs ---------------------------
(***************************************************************************)
(* Proofs about NetServer for every size of the session table, every       *)
(* number of workers and every number of threads that call Disconnect,     *)
(* when the scan of Stop does not come upon a session inside its first     *)
(* Init (ScanInit is FALSE; with ScanInit the session is released under    *)
(* AcceptThread and all but the order of receives fails).                  *)
(***************************************************************************)
EXTENDS NetServer, FiniteSetTheorems, SequenceTheorems, TLAPS

-----------------------------------------------------------------------------
(* The inductive invariant *)

Threads == Workers \cup Callers

\* RecvIOProc between the packet and the end of its RecvPost.
Receiving == {"recv", "onrecv", "check", "post"}
\* Where a thread has a reference to the session it works on.
Holding == Receiving \cup {"flag", "cancel", "give"}
\* ReleaseProc before the index is back on the stack.
Releasing == {"leave", "push"}

\* Where each kind of thread may be, and that it has a slot where it needs one.
Roles ==
    /\ \A w \in Workers : pc[w] \in {"idle", "give", "count"} \cup Receiving \cup Releasing
    /\ \A c \in Closers : pc[c] \in {"idle", "flag", "cancel", "give"}
    /\ pc[Main] \in {"idle", "flag", "cancel", "give", "wait", "round", "join", "done"}
    /\ \A t \in Threads : pc[t] \in Holding \cup Releasing \cup {"round"} => at[t] \in Slots
    /\ pc[Main] # "idle" => ~listening
    /\ acc.pc \in {"took", "full", "pop", "init"} => allocID < MaxConn

\* AcceptThread has taken the index s and is not through with Init, or has a
\* reference.
Fresh(s) == acc.pc \in {"init", "named", "counted"} /\ acc.slot = s
Counted(s) == acc.pc = "counted" /\ acc.slot = s
AccHolds(s) == acc.pc \in {"counted", "iocp", "join", "post", "give"} /\ acc.slot = s
Held(s) == {t \in Threads : pc[t] \in Holding /\ at[t] = s}
AccOf(s) == IF AccHolds(s) THEN 1 ELSE 0
RecvOf(s) == IF recv[s] = "none" THEN 0 ELSE 1
RefOf(s) == Cardinality(Held(s)) + AccOf(s) + RecvOf(s)

\* m_RefCnt is the number of those that hold the session.  When AcceptThread
\* ends on an error its reference is never given back.
Balanced(s) ==
    \/ sess[s].ref = RefOf(s)
    \/ acc.pc = "dead" /\ acc.slot = s /\ sess[s].ref = RefOf(s) + 1
RefCounted == \A s \in Slots : Balanced(s)

\* A session that has an ID, is not released, and is not inside Init.
Live(s) ==
    /\ sess[s].conn # 0 /\ sess[s].rel = 0
    /\ ~(acc.pc \in {"named", "counted"} /\ acc.slot = s)

\* Nobody but AcceptThread inside Init holds a session that is not live; the ID
\* is there before the reference.
NoneHolds ==
    /\ \A s \in Slots : ~Live(s) => sess[s].ref = IF Counted(s) THEN 1 ELSE 0
    /\ acc.pc \in {"named", "counted"} => sess[acc.slot].conn # 0

NoScan == ScanInit = FALSE

\* The release of a session is in one place: a packet, or one worker.
OneRelease ==
    /\ \A s \in Slots : relMsgs[s] # 0 =>
           relMsgs[s] = 1 /\ sess[s].rel = 1 /\ \A w \in Workers : pc[w] \in Releasing => at[w] # s
    /\ \A w \in Workers : pc[w] \in Releasing => sess[at[w]].rel = 1
    /\ \A v, w \in Workers : pc[v] \in Releasing /\ pc[w] \in Releasing /\ at[v] = at[w] => v = w
    /\ \A w \in Workers : pc[w] = "push" => sess[at[w]].conn \notin open

Free(s) ==
    /\ ~Live(s) /\ sess[s].conn \notin open /\ relMsgs[s] = 0
    /\ \A w \in Workers : pc[w] \in Releasing => at[w] # s

In(q, s) == \E i \in 1..Len(q) : q[i] = s
Once(q) == \A i, j \in 1..Len(q) : q[i] = q[j] => i = j
InStack(s) == In(stack, s)
\* An index is on the stack once, and only when nothing is left of its session.
FreeSlots ==
    /\ Once(stack)
    /\ \A s \in Slots : InStack(s) \/ Fresh(s) => Free(s)
    /\ \A s \in Slots : Fresh(s) => ~InStack(s)

Out == {s \in Slots : ~InStack(s)}
Late == {w \in Workers : pc[w] = "count"}
InCount == Cardinality(Out) + Cardinality(Late) + (IF acc.pc \in {"full", "pop"} THEN 1 ELSE 0)

\* m_CurSessionCnt counts the indices that are not on the stack, the workers
\* that have pushed theirs and not counted it, and AcceptThread before its Pop.
\* The connection of an AcceptThread that ended on an error stays counted.
CountTrue ==
    /\ \/ curCnt = InCount
       \/ acc.pc = "dead" /\ curCnt = InCount + 1
    /\ acc.pc = "pop" => curCnt <= MaxSession

\* A connection has one slot at most, and one that is open has its slot.
ConnHasSlot ==
    /\ \A s \in Slots : sess[s].conn <= allocID
    /\ \A s, r \in Slots : sess[s].conn = sess[r].conn => s = r \/ sess[s].conn = 0
    /\ \A c \in open : \E s \in Slots : sess[s].conn = c

NoReceiver(s) == \A w \in Workers : pc[w] \in Receiving => at[w] # s
\* The receive of a session is in one place: with the kernel, or with one worker.
OneReceive ==
    /\ \A v, w \in Workers : pc[v] \in Receiving /\ pc[w] \in Receiving /\ at[v] = at[w] => v = w
    /\ \A s \in Slots : recv[s] # "none" => NoReceiver(s)
    /\ acc.pc \in {"iocp", "join", "post"} => recv[acc.slot] = "none" /\ NoReceiver(acc.slot)

\* There is a receive only between OnClientJoin and OnClientLeave.
ReceiveOpen ==
    /\ \A s \in Slots : recv[s] # "none" => sess[s].conn \in open
    /\ \A w \in Workers : pc[w] \in Receiving => sess[at[w]].conn \in open
    /\ acc.pc = "post" => sess[acc.slot].conn \in open

\* What is so once the completion port is closed, and stays so.
Stopped ==
    ~iocp =>
        /\ open = {} /\ ~listening
        /\ \A s \in Slots : recv[s] = "none" /\ relMsgs[s] = 0
        /\ \A t \in Workers \cup Closers : pc[t] = "idle"
        /\ pc[Main] \in {"join", "done"}
        /\ acc.pc \notin {"join", "post", "give"}

IInv ==
    /\ TypeOK /\ Roles /\ RefCounted /\ NoneHolds /\ OneRelease /\ FreeSlots
    /\ CountTrue /\ ConnHasSlot /\ OneReceive /\ ReceiveOpen /\ Stopped

USE DEF table, pool, threads, ports, vars, Goto, Start, AccTo

-----------------------------------------------------------------------------
(* Where the steps lead *)

\* ReleaseProc calls OnClientLeave, then puts the index back, then counts.
LEMMA LeaveMoves ==
  ASSUME NEW w \in Workers, Leave(w)
  PROVE  /\ pc[w] = "leave" /\ pc' = [pc EXCEPT ![w] = "push"] /\ at' = at
         /\ open' = open \ {sess[at[w]].conn}
         /\ UNCHANGED <<table, pool, acc, calls, ports>>
<1>1. (CHOOSE k \in 1..3 : ReleaseOrder[k] = "leave") = 1
  BY DEF ReleaseOrder
<1> QED
  BY <1>1 DEF Leave, After, ReleaseOrder

\* The second of the three.
LEMMA PushMoves ==
  ASSUME NEW w \in Workers, Push(w)
  PROVE  /\ pc[w] = "push" /\ pc' = [pc EXCEPT ![w] = "count"] /\ at' = at
         /\ stack' = <<at[w]>> \o stack
         /\ UNCHANGED <<table, curCnt, allocID, open, acc, calls, ports>>
<1>1. (CHOOSE k \in 1..3 : ReleaseOrder[k] = "push") = 2
  BY DEF ReleaseOrder
<1> QED
  BY <1>1 DEF Push, After, ReleaseOrder

\* The last.
LEMMA CountMoves ==
  ASSUME NEW w \in Workers, Count(w)
  PROVE  /\ pc[w] = "count" /\ pc' = [pc EXCEPT ![w] = "idle"] /\ at' = [at EXCEPT ![w] = None]
         /\ curCnt' = curCnt - 1
         /\ UNCHANGED <<table, stack, allocID, open, acc, calls, ports>>
<1>1. (CHOOSE k \in 1..3 : ReleaseOrder[k] = "count") = 3
  BY DEF ReleaseOrder
<1> QED
  BY <1>1 DEF Count, After, ReleaseOrder

\* The first is where a worker starts that takes the packet.
LEMMA ReleaseStarts == ReleaseOrder[1] = "leave"
  BY DEF ReleaseOrder

-----------------------------------------------------------------------------
(* Types *)

\* Where each thread may go, and that it has a slot there.
LEMMA RolesStep ==
  ASSUME NoScan, IInv, [Next]_vars
  PROVE  Roles'
<1> USE ThreadsApart DEF Threads, Callers
<1>a. /\ acc \in [pc : AccPCs, slot : Slots] /\ allocID \in Nat
      /\ pc \in [Threads -> PCs] /\ at \in [Threads -> Slots \cup {None}]
      /\ stack \in Seq(Slots) /\ MaxSession \in Nat \ {0} /\ Main \in Threads
      /\ Roles
  BY Bounds DEF IInv, TypeOK
<1> USE DEF Receiving, Holding, Releasing
<1>1. ASSUME Accept PROVE Roles'
  BY <1>1, <1>a DEF Accept, Roles
<1>2. ASSUME CountIn PROVE Roles'
  BY <1>2, <1>a DEF CountIn, Roles
<1>3. ASSUME Refuse PROVE Roles'
  BY <1>3, <1>a DEF Refuse, Roles
<1>4. ASSUME Pop PROVE Roles'
  BY <1>4, <1>a DEF Pop, Roles
<1>5. ASSUME InitName PROVE Roles'
  BY <1>5, <1>a DEF InitName, Roles
<1>5c. ASSUME InitCount PROVE Roles'
  BY <1>5c, <1>a DEF InitCount, Roles
<1>5o. ASSUME InitOpen PROVE Roles'
  BY <1>5o, <1>a DEF InitOpen, Roles
<1>6. ASSUME Register PROVE Roles'
  BY <1>6, <1>a DEF Register, Roles
<1>7. ASSUME Join PROVE Roles'
  BY <1>7, <1>a DEF Join, Roles
<1>8. ASSUME FirstRecv PROVE Roles'
  BY <1>8, <1>a DEF FirstRecv, RecvPost, Roles
<1>9. ASSUME AcceptGive PROVE Roles'
  BY <1>9, <1>a DEF AcceptGive, GiveBack, Roles
<1>10. ASSUME AcceptEnd PROVE Roles'
  BY <1>10, <1>a DEF AcceptEnd, Roles
<1>11. ASSUME NEW s \in Slots, PeerSends(s) PROVE Roles'
  BY <1>11, <1>a DEF PeerSends, Roles
<1>12. ASSUME NEW s \in Slots, PeerCloses(s) PROVE Roles'
  BY <1>12, <1>a DEF PeerCloses, Roles
<1>13. ASSUME NEW s \in Slots, RecvEnds(s) PROVE Roles'
  BY <1>13, <1>a DEF RecvEnds, Roles
<1>14. ASSUME NEW w \in Workers, NEW s \in Slots, RecvTake(w, s) PROVE Roles'
  BY <1>14, <1>a DEF RecvTake, Roles
<1>15. ASSUME NEW w \in Workers, NEW s \in Slots, ReleaseTake(w, s) PROVE Roles'
  BY <1>15, <1>a, ReleaseStarts DEF ReleaseTake, Roles
<1>16. ASSUME NEW w \in Workers, RecvStart(w) PROVE Roles'
  BY <1>16, <1>a DEF RecvStart, Roles
<1>17. ASSUME NEW w \in Workers, RecvHandled(w) PROVE Roles'
  BY <1>17, <1>a DEF RecvHandled, Roles
<1>18. ASSUME NEW w \in Workers, RecvCheck(w) PROVE Roles'
  BY <1>18, <1>a DEF RecvCheck, Roles
<1>19. ASSUME NEW w \in Workers, RecvNext(w) PROVE Roles'
  BY <1>19, <1>a DEF RecvNext, RecvPost, Roles
<1>20. ASSUME NEW w \in Workers, Leave(w) PROVE Roles'
  BY <1>20, <1>a, LeaveMoves DEF Roles
<1>21. ASSUME NEW w \in Workers, Push(w) PROVE Roles'
  <2>1. /\ pc' = [pc EXCEPT ![w] = "count"] /\ at' = at
        /\ UNCHANGED <<acc, allocID, listening>>
    BY <1>21, PushMoves
  <2>2. /\ \A v \in Workers : pc'[v] \in {"idle", "give", "count"} \cup Receiving \cup Releasing
        /\ \A c \in Callers : pc'[c] = pc[c]
    BY <1>a, <2>1 DEF Roles
  <2> QED
    BY <1>a, <2>1, <2>2 DEF Roles
<1>22. ASSUME NEW w \in Workers, Count(w) PROVE Roles'
  BY <1>22, <1>a, CountMoves DEF Roles
<1>23. ASSUME NEW t \in Threads, Give(t) PROVE Roles'
  BY <1>23, <1>a DEF Give, GiveBack, Roles, Home
<1>24. ASSUME NEW c \in Closers, CallDisconnect(c) PROVE Roles'
  BY <1>24, <1>a DEF CallDisconnect, Roles
<1>25. ASSUME NEW t \in Callers, FirstFlag(t) PROVE Roles'
  BY <1>25, <1>a DEF FirstFlag, Roles
<1>26. ASSUME NEW t \in Callers, Cancel(t) PROVE Roles'
  BY <1>26, <1>a DEF Cancel, Roles
<1>27. ASSUME StopBegin PROVE Roles'
  BY <1>27, <1>a DEF StopBegin, Roles
<1>28. ASSUME StopLook PROVE Roles'
  BY <1>28, <1>a DEF StopLook, Visit, Roles, Slots
<1>29. ASSUME StopNext PROVE Roles'
  BY <1>29, <1>a DEF StopNext, Visit, Roles, Slots
<1>30. ASSUME StopJoin PROVE Roles'
  BY <1>30, <1>a DEF StopJoin, Roles
<1>u. CASE UNCHANGED vars
  BY <1>u, <1>a DEF Roles
<1> QED
  BY <1>1, <1>2, <1>3, <1>4, <1>5, <1>5c, <1>5o, <1>6, <1>7, <1>8, <1>9, <1>10, <1>11, <1>12,
     <1>13, <1>14, <1>15, <1>16, <1>17, <1>18, <1>19, <1>20, <1>21, <1>22, <1>23, <1>24, <1>25, <1>26, <1>27,
     <1>28, <1>29, <1>30, <1>u
  DEF Next, AcceptStep, Serve, WorkerStep, CallerStep, StopStep, Threads, Callers

-----------------------------------------------------------------------------
(* What the steps do to the table *)

\* What is needed of the types.
TableType == sess \in [Slots -> Sess] /\ relMsgs \in [Slots -> Nat] /\ DOMAIN recv = Slots

\* The connection of a slot and whether it is released stay what they are.
SameConn(r) == sess'[r].conn = sess[r].conn /\ sess'[r].rel = sess[r].rel
\* All of a slot but m_DCFlag stays what it is.
Same(r) == SameConn(r) /\ sess'[r].ref = sess[r].ref

\* m_DCFlag is set or left as it is.
LEMMA FlagFields ==
  ASSUME TableType, NEW s \in Slots, NEW d \in {0, 1}, sess' = [sess EXCEPT ![s].dc = d]
  PROVE  sess' \in [Slots -> Sess] /\ \A r \in Slots : Same(r)
<1>1. sess' = [sess EXCEPT ![s] = [sess[s] EXCEPT !.dc = d]] /\ sess[s] \in Sess
  BY DEF TableType
<1>2. [sess[s] EXCEPT !.dc = d] \in Sess
  BY <1>1 DEF Sess
<1>3. sess' \in [Slots -> Sess]
  BY <1>1, <1>2 DEF TableType
<1> QED
  BY <1>1, <1>3 DEF TableType, Same, SameConn, Sess

\* A reference is taken.
LEMMA AddRefFields ==
  ASSUME TableType, NEW s \in Slots, sess' = [sess EXCEPT ![s].ref = @ + 1]
  PROVE  /\ sess' \in [Slots -> Sess]
         /\ \A r \in Slots : SameConn(r) /\ (r # s => Same(r))
         /\ sess'[s].ref = sess[s].ref + 1
<1>1. /\ sess' = [sess EXCEPT ![s] = [sess[s] EXCEPT !.ref = sess[s].ref + 1]]
      /\ sess[s] \in Sess
  BY DEF TableType
<1>2. [sess[s] EXCEPT !.ref = sess[s].ref + 1] \in Sess
  BY <1>1 DEF Sess
<1>3. sess' \in [Slots -> Sess]
  BY <1>1, <1>2 DEF TableType
<1> QED
  BY <1>1, <1>3 DEF TableType, Same, SameConn, Sess

\* A reference is given back, and the last one starts the release.
LEMMA GiveBackFields ==
  ASSUME TableType, NEW s \in Slots, GiveBack(s), sess[s].ref > 0
  PROVE  /\ sess' \in [Slots -> Sess] /\ relMsgs' \in [Slots -> Nat]
         /\ \A r \in Slots : r # s => Same(r) /\ relMsgs'[r] = relMsgs[r]
         /\ sess'[s].ref = sess[s].ref - 1 /\ sess'[s].conn = sess[s].conn
         /\ IF sess[s].ref = 1 /\ sess[s].rel = 0
            THEN sess'[s].rel = 1 /\ relMsgs'[s] = relMsgs[s] + 1
            ELSE sess'[s].rel = sess[s].rel /\ relMsgs'[s] = relMsgs[s]
<1> DEFINE rel == IF sess[s].ref = 1 /\ sess[s].rel = 0 THEN 1 ELSE sess[s].rel
<1>1. /\ sess' = [sess EXCEPT ![s] = [sess[s] EXCEPT !.ref = sess[s].ref - 1, !.rel = rel]]
      /\ sess[s] \in Sess
  BY DEF TableType, GiveBack
<1>2. rel \in {0, 1}
  BY <1>1 DEF Sess
<1>3. [sess[s] EXCEPT !.ref = sess[s].ref - 1, !.rel = rel] \in Sess
  <2>1. sess[s].ref - 1 \in Nat
    BY <1>1 DEF Sess
  <2> HIDE DEF rel
  <2> QED
    BY <1>1, <1>2, <2>1 DEF Sess
<1>4. sess' \in [Slots -> Sess]
  BY <1>1, <1>3 DEF TableType
<1>5. relMsgs' \in [Slots -> Nat]
  BY DEF TableType, GiveBack
<1>6. \A r \in Slots : r # s => Same(r) /\ relMsgs'[r] = relMsgs[r]
  BY <1>1 DEF TableType, GiveBack, Same, SameConn
<1>7. sess'[s].ref = sess[s].ref - 1 /\ sess'[s].conn = sess[s].conn /\ sess'[s].rel = rel
  BY <1>1 DEF TableType, Sess
<1> QED
  BY <1>4, <1>5, <1>6, <1>7 DEF TableType, GiveBack

\* RecvPost takes a reference for the receive, or none when there is no receive.
LEMMA RecvPostFields ==
  ASSUME TableType, NEW s \in Slots, RecvPost(s)
  PROVE  /\ sess' \in [Slots -> Sess]
         /\ \A r \in Slots : SameConn(r) /\ (r # s => Same(r) /\ recv'[r] = recv[r])
         /\ \/ sess'[s].ref = sess[s].ref + 1 /\ recv' = [recv EXCEPT ![s] = "posted"]
            \/ sess'[s].ref = sess[s].ref /\ recv' = recv
<1>1. CASE sess' = [sess EXCEPT ![s].ref = @ + 1] /\ recv' = [recv EXCEPT ![s] = "posted"]
  BY <1>1, AddRefFields DEF TableType
<1>2. CASE sess' = [sess EXCEPT ![s].dc = 1] /\ recv' = recv
  BY <1>2, FlagFields DEF Same
<1> QED
  BY <1>1, <1>2 DEF RecvPost

\* CSession::Init gives the slot that AcceptThread took its ID.
LEMMA NameFields ==
  ASSUME TypeOK, InitName, allocID < MaxConn
  PROVE  /\ sess' \in [Slots -> Sess]
         /\ \A r \in Slots : r # acc.slot => Same(r) /\ recv'[r] = recv[r]
         /\ sess'[acc.slot].conn = allocID + 1
         /\ sess'[acc.slot].ref = sess[acc.slot].ref /\ sess'[acc.slot].rel = sess[acc.slot].rel
         /\ recv' = [recv EXCEPT ![acc.slot] = "none"]
<1>1. acc.slot \in Slots /\ sess \in [Slots -> Sess] /\ allocID \in Nat /\ MaxConn \in Nat
      /\ DOMAIN recv = Slots
  BY Bounds DEF TypeOK, Sess
<1> DEFINE new == [sess[acc.slot] EXCEPT !.conn = allocID + 1]
<1>2. sess' = [sess EXCEPT ![acc.slot] = new] /\ recv' = [recv EXCEPT ![acc.slot] = "none"]
  BY <1>1 DEF InitName
<1>3. new \in Sess
  BY <1>1 DEF Sess
<1>4. sess'[acc.slot] = new /\ \A r \in Slots : r # acc.slot => sess'[r] = sess[r]
  BY <1>1, <1>2
<1>5. sess' \in [Slots -> Sess]
  BY <1>1, <1>2, <1>3
<1>6. new.conn = allocID + 1 /\ new.ref = sess[acc.slot].ref /\ new.rel = sess[acc.slot].rel
  BY <1>1 DEF Sess
<1> HIDE DEF new
<1> QED
  BY <1>1, <1>2, <1>4, <1>5, <1>6 DEF Same, SameConn

\* CSession::Init counts the reference of AcceptThread.
LEMMA CountFields ==
  ASSUME TypeOK, InitCount
  PROVE  /\ sess' \in [Slots -> Sess]
         /\ \A r \in Slots : SameConn(r) /\ (r # acc.slot => Same(r))
         /\ sess'[acc.slot].ref = sess[acc.slot].ref + 1
<1>1. acc.slot \in Slots /\ sess \in [Slots -> Sess]
  BY DEF TypeOK
<1> DEFINE new == [sess[acc.slot] EXCEPT !.ref = @ + 1, !.dc = 0]
<1>2. sess' = [sess EXCEPT ![acc.slot] = new]
  BY DEF InitCount
<1>3. new \in Sess
  <2>1. PICK x \in Sess : x = sess[acc.slot]
    BY <1>1
  <2>2. x.ref + 1 \in Nat
    BY <2>1 DEF Sess
  <2>3. [x EXCEPT !.ref = @ + 1, !.dc = 0] \in Sess
    BY <2>1, <2>2 DEF Sess
  <2> QED
    BY <2>1, <2>3
<1>4. sess'[acc.slot] = new /\ \A r \in Slots : r # acc.slot => sess'[r] = sess[r]
  BY <1>1, <1>2
<1>5. sess' \in [Slots -> Sess]
  BY <1>1, <1>2, <1>3
<1>6. /\ new.conn = sess[acc.slot].conn /\ new.rel = sess[acc.slot].rel
      /\ new.ref = sess[acc.slot].ref + 1
  BY <1>1 DEF Sess
<1> HIDE DEF new
<1> QED
  BY <1>1, <1>4, <1>5, <1>6 DEF Same, SameConn

\* CSession::Init takes m_RelFlag back.
LEMMA OpenFields ==
  ASSUME TypeOK, InitOpen
  PROVE  /\ sess' \in [Slots -> Sess]
         /\ \A r \in Slots : r # acc.slot => Same(r)
         /\ \A r \in Slots : sess'[r].conn = sess[r].conn /\ sess'[r].ref = sess[r].ref
         /\ sess'[acc.slot].rel = 0
<1>1. acc.slot \in Slots /\ sess \in [Slots -> Sess]
  BY DEF TypeOK, Sess
<1> DEFINE new == [sess[acc.slot] EXCEPT !.rel = 0]
<1>2. sess' = [sess EXCEPT ![acc.slot] = new]
  BY <1>1 DEF InitOpen
<1>3. new \in Sess
  BY <1>1 DEF Sess
<1>4. sess'[acc.slot] = new /\ \A r \in Slots : r # acc.slot => sess'[r] = sess[r]
  BY <1>1, <1>2
<1>5. sess' \in [Slots -> Sess]
  BY <1>1, <1>2, <1>3
<1>6. new.conn = sess[acc.slot].conn /\ new.rel = 0 /\ new.ref = sess[acc.slot].ref
  BY <1>1 DEF Sess
<1> HIDE DEF new
<1> QED
  BY <1>1, <1>4, <1>5, <1>6 DEF Same, SameConn

-----------------------------------------------------------------------------
(* Who has a reference *)

\* The threads that hold a session are finitely many.
LEMMA HeldFinite ==
  ASSUME NEW s
  PROVE  IsFiniteSet(Held(s)) /\ Cardinality(Held(s)) \in Nat
<1>1. IsFiniteSet(Threads)
  BY ThreadsFinite, FS_Union, FS_Singleton DEF Threads, Callers
<1>2. Held(s) \in SUBSET Threads
  BY DEF Held
<1> QED
  BY <1>1, <1>2, FS_Subset, FS_CardinalityType

\* A thread that has a reference works on a session with a count, which is
\* not released.
LEMMA HolderCounts ==
  ASSUME IInv, NEW t \in Threads, pc[t] \in Holding
  PROVE  /\ at[t] \in Slots /\ Cardinality(Held(at[t])) > 0
         /\ sess[at[t]].ref \in Nat /\ sess[at[t]].ref > 0 /\ Live(at[t])
<1>1. at[t] \in Slots
  BY DEF IInv, Roles
<1>2. t \in Held(at[t])
  BY DEF Held
<1>3. Cardinality(Held(at[t])) \in Nat /\ Cardinality(Held(at[t])) # 0
  BY <1>2, HeldFinite, FS_EmptySet
<1>4. sess[at[t]].ref \in Nat /\ sess[at[t]].ref > 0
  BY <1>1, <1>3 DEF IInv, RefCounted, Balanced, RefOf, AccOf, RecvOf
<1> QED
  BY <1>1, <1>3, <1>4 DEF IInv, NoneHolds, Counted, RefCounted, Balanced, RefOf, AccOf, RecvOf, AccHolds

\* The same for AcceptThread.
LEMMA AccCounts ==
  ASSUME IInv, AccHolds(acc.slot), acc.pc # "counted"
  PROVE  /\ acc.slot \in Slots
         /\ sess[acc.slot].ref \in Nat /\ sess[acc.slot].ref > 0 /\ Live(acc.slot)
<1>1. acc.slot \in Slots
  BY DEF IInv, TypeOK
<1>2. Cardinality(Held(acc.slot)) \in Nat
  BY HeldFinite
<1>3. sess[acc.slot].ref = RefOf(acc.slot)
  BY <1>1 DEF IInv, RefCounted, Balanced, AccHolds
<1>4. sess[acc.slot].ref \in Nat /\ sess[acc.slot].ref > 0
  BY <1>2, <1>3 DEF RefOf, AccOf, RecvOf
<1> QED
  BY <1>1, <1>4 DEF IInv, NoneHolds, Counted

\* And for a receive that is posted or waits for a worker.
LEMMA RecvCounts ==
  ASSUME IInv, NEW s \in Slots, recv[s] # "none"
  PROVE  sess[s].ref \in Nat /\ sess[s].ref > 0 /\ Live(s)
<1>1. Cardinality(Held(s)) \in Nat
  BY HeldFinite
<1>2. sess[s].ref \in Nat /\ sess[s].ref > 0
  BY <1>1 DEF IInv, RefCounted, Balanced, RefOf, AccOf, RecvOf
<1>3. ASSUME Counted(s) PROVE sess[s].ref # 1
  BY <1>1, <1>3 DEF IInv, RefCounted, Balanced, RefOf, AccOf, RecvOf, AccHolds, Counted
<1> QED
  BY <1>2, <1>3 DEF IInv, NoneHolds

\* The parts of m_CurSessionCnt are numbers.
LEMMA CountParts ==
  /\ IsFiniteSet(Out) /\ Cardinality(Out) \in Nat
  /\ IsFiniteSet(Late) /\ Cardinality(Late) \in Nat
  /\ IsFiniteSet(Slots) /\ Cardinality(Slots) = MaxSession
<1>1. IsFiniteSet(Slots) /\ Cardinality(Slots) = MaxSession
  BY Bounds, FS_Interval DEF Slots
<1>2. Out \in SUBSET Slots /\ Late \in SUBSET Workers
  BY DEF Out, Late
<1> QED
  BY <1>1, <1>2, ThreadsFinite, FS_Subset, FS_CardinalityType

\* Who lowers m_CurSessionCnt had been counted.
LEMMA CountPositive ==
  ASSUME IInv, acc.pc = "full" \/ \E w \in Workers : pc[w] = "count"
  PROVE  curCnt \in Nat /\ curCnt > 0
<1>1. CASE \E w \in Workers : pc[w] = "count"
  <2>1. Cardinality(Late) # 0
    BY <1>1, CountParts, FS_EmptySet DEF Late
  <2> QED
    BY <2>1, CountParts DEF IInv, TypeOK, CountTrue, InCount
<1>2. CASE acc.pc = "full"
  BY <1>2, CountParts DEF IInv, TypeOK, CountTrue, InCount
<1> QED
  BY <1>1, <1>2

-----------------------------------------------------------------------------
(* The steps that change the table, each with what it does to the fields *)

\* The facts about the types that the next lemmas need.
LEMMA TypeFacts ==
  ASSUME IInv
  PROVE  /\ TableType /\ acc \in [pc : AccPCs, slot : Slots] /\ acc.slot \in Slots
         /\ pc \in [Threads -> PCs] /\ at \in [Threads -> Slots \cup {None}]
         /\ \A t \in Threads : pc[t] \in Holding \cup Releasing \cup {"round"} => at[t] \in Slots
         /\ \A s \in Slots : /\ sess[s].conn \in 0..MaxConn /\ sess[s].ref \in Nat
                             /\ sess[s].rel \in {0, 1} /\ sess[s].dc \in {0, 1}
                             /\ relMsgs[s] \in Nat
<1>1. TypeOK /\ Roles
  BY DEF IInv
<1>2. sess \in [Slots -> Sess] /\ relMsgs \in [Slots -> Nat] /\ DOMAIN recv = Slots
  BY <1>1 DEF TypeOK, Sess
<1> QED
  BY <1>1, <1>2 DEF TypeOK, Roles, TableType, Threads, Sess

\* AcceptThread gives the session its ID.
LEMMA InitNameMoves ==
  ASSUME IInv, InitName
  PROVE  /\ sess' \in [Slots -> Sess] /\ allocID' = allocID + 1 /\ allocID < MaxConn
         /\ \A r \in Slots : r # acc.slot => Same(r) /\ recv'[r] = recv[r]
         /\ sess'[acc.slot].conn = allocID + 1
         /\ sess'[acc.slot].ref = sess[acc.slot].ref /\ sess'[acc.slot].rel = sess[acc.slot].rel
         /\ recv' = [recv EXCEPT ![acc.slot] = "none"]
         /\ acc.pc = "init" /\ acc' = [acc EXCEPT !.pc = "named"]
         /\ UNCHANGED <<relMsgs, stack, curCnt, open, pc, at, calls, ports>>
<1>1. TypeOK /\ acc.pc = "init" /\ allocID < MaxConn
  BY DEF IInv, Roles, InitName
<1> QED
  BY <1>1, NameFields DEF InitName

\* AcceptThread counts its reference.
LEMMA InitCountMoves ==
  ASSUME IInv, InitCount
  PROVE  /\ sess' \in [Slots -> Sess]
         /\ \A r \in Slots : SameConn(r) /\ (r # acc.slot => Same(r))
         /\ sess'[acc.slot].ref = sess[acc.slot].ref + 1
         /\ acc.pc = "named" /\ acc' = [acc EXCEPT !.pc = "counted"]
         /\ UNCHANGED <<recv, gone, relMsgs, pool, open, pc, at, calls, ports>>
<1>1. TypeOK
  BY DEF IInv
<1> QED
  BY <1>1, CountFields DEF InitCount

\* AcceptThread opens the session.
LEMMA InitOpenMoves ==
  ASSUME IInv, InitOpen
  PROVE  /\ sess' \in [Slots -> Sess]
         /\ \A r \in Slots : r # acc.slot => Same(r)
         /\ \A r \in Slots : sess'[r].conn = sess[r].conn /\ sess'[r].ref = sess[r].ref
         /\ sess'[acc.slot].rel = 0
         /\ acc.pc = "counted" /\ acc' = [acc EXCEPT !.pc = "iocp"]
         /\ UNCHANGED <<recv, gone, relMsgs, pool, open, pc, at, calls, ports>>
<1>1. TypeOK
  BY DEF IInv
<1> QED
  BY <1>1, OpenFields DEF InitOpen

\* AcceptThread posts the first receive.
LEMMA FirstRecvMoves ==
  ASSUME IInv, FirstRecv
  PROVE  /\ sess' \in [Slots -> Sess]
         /\ \A r \in Slots : SameConn(r) /\ (r # acc.slot => Same(r) /\ recv'[r] = recv[r])
         /\ \/ sess'[acc.slot].ref = sess[acc.slot].ref + 1 /\ recv' = [recv EXCEPT ![acc.slot] = "posted"]
            \/ sess'[acc.slot].ref = sess[acc.slot].ref /\ recv' = recv
         /\ acc.pc = "post" /\ acc' = [acc EXCEPT !.pc = "give"]
         /\ UNCHANGED <<gone, relMsgs, pool, open, pc, at, calls, ports>>
  BY TypeFacts, RecvPostFields DEF FirstRecv

\* AcceptThread gives its reference back.
LEMMA AcceptGiveMoves ==
  ASSUME IInv, AcceptGive
  PROVE  /\ sess' \in [Slots -> Sess] /\ relMsgs' \in [Slots -> Nat]
         /\ \A r \in Slots : r # acc.slot => Same(r) /\ relMsgs'[r] = relMsgs[r]
         /\ sess'[acc.slot].ref = sess[acc.slot].ref - 1
         /\ sess'[acc.slot].conn = sess[acc.slot].conn
         /\ sess[acc.slot].ref > 0 /\ Live(acc.slot)
         /\ IF sess[acc.slot].ref = 1
            THEN sess'[acc.slot].rel = 1 /\ relMsgs'[acc.slot] = relMsgs[acc.slot] + 1
            ELSE sess'[acc.slot].rel = 0 /\ relMsgs'[acc.slot] = relMsgs[acc.slot]
         /\ acc.pc = "give" /\ acc' = [acc EXCEPT !.pc = "accept"]
         /\ UNCHANGED <<recv, gone, pool, open, pc, at, calls, ports>>
<1>1. acc.pc = "give" /\ AccHolds(acc.slot) /\ GiveBack(acc.slot)
  BY DEF AcceptGive, AccHolds
<1>2. acc.slot \in Slots /\ sess[acc.slot].ref > 0 /\ Live(acc.slot) /\ TableType
  BY <1>1, AccCounts, TypeFacts
<1>3. sess[acc.slot].rel = 0
  BY <1>2 DEF Live
<1> QED
  BY <1>1, <1>2, <1>3, GiveBackFields DEF AcceptGive

\* A thread gives its reference back.
LEMMA GiveMoves ==
  ASSUME IInv, NEW t \in Threads, Give(t)
  PROVE  /\ sess' \in [Slots -> Sess] /\ relMsgs' \in [Slots -> Nat] /\ at[t] \in Slots
         /\ \A r \in Slots : r # at[t] => Same(r) /\ relMsgs'[r] = relMsgs[r]
         /\ sess'[at[t]].ref = sess[at[t]].ref - 1 /\ sess'[at[t]].conn = sess[at[t]].conn
         /\ sess[at[t]].ref > 0 /\ Live(at[t])
         /\ IF sess[at[t]].ref = 1
            THEN sess'[at[t]].rel = 1 /\ relMsgs'[at[t]] = relMsgs[at[t]] + 1
            ELSE sess'[at[t]].rel = 0 /\ relMsgs'[at[t]] = relMsgs[at[t]]
         /\ pc[t] = "give" /\ pc' = [pc EXCEPT ![t] = Home(t)]
         /\ at' = [at EXCEPT ![t] = IF t = Main THEN at[t] ELSE None]
         /\ UNCHANGED <<recv, gone, pool, open, acc, calls, ports>>
<1>1. pc[t] = "give" /\ pc[t] \in Holding /\ GiveBack(at[t])
  BY DEF Give, Holding
<1>2. at[t] \in Slots /\ sess[at[t]].ref > 0 /\ Live(at[t]) /\ TableType
  BY <1>1, HolderCounts, TypeFacts
<1>3. sess[at[t]].rel = 0
  BY <1>2 DEF Live
<1> QED
  BY <1>1, <1>2, <1>3, GiveBackFields DEF Give

\* A worker takes the receive of a session.
LEMMA RecvTakeMoves ==
  ASSUME IInv, NEW w \in Workers, NEW s \in Slots, RecvTake(w, s)
  PROVE  /\ sess' \in [Slots -> Sess] /\ \A r \in Slots : Same(r)
         /\ iocp /\ recv[s] # "none" /\ recv' = [recv EXCEPT ![s] = "none"]
         /\ pc[w] = "idle" /\ pc' = [pc EXCEPT ![w] = "recv"] /\ at' = [at EXCEPT ![w] = s]
         /\ UNCHANGED <<gone, relMsgs, pool, open, acc, calls, ports>>
<1>1. /\ sess' = [sess EXCEPT ![s].dc = IF recv[s] = "end" THEN 1 ELSE sess[s].dc]
      /\ TableType /\ sess[s].dc \in {0, 1}
  BY TypeFacts DEF RecvTake, TableType
<1>2. (IF recv[s] = "end" THEN 1 ELSE sess[s].dc) \in {0, 1}
  BY <1>1
<1> QED
  BY <1>1, <1>2, FlagFields DEF RecvTake

\* A worker takes a release.
LEMMA ReleaseTakeMoves ==
  ASSUME IInv, NEW w \in Workers, NEW s \in Slots, ReleaseTake(w, s)
  PROVE  /\ iocp /\ relMsgs[s] > 0 /\ relMsgs' = [relMsgs EXCEPT ![s] = relMsgs[s] - 1]
         /\ pc[w] = "idle" /\ pc' = [pc EXCEPT ![w] = "leave"] /\ at' = [at EXCEPT ![w] = s]
         /\ UNCHANGED <<sess, recv, gone, pool, open, acc, calls, ports>>
  BY TypeFacts, ReleaseStarts DEF ReleaseTake, TableType

\* OnRecv has returned.
LEMMA RecvHandledMoves ==
  ASSUME IInv, NEW w \in Workers, RecvHandled(w)
  PROVE  /\ sess' \in [Slots -> Sess] /\ \A r \in Slots : Same(r)
         /\ pc[w] = "onrecv" /\ pc' = [pc EXCEPT ![w] = "check"] /\ at' = at
         /\ UNCHANGED <<recv, gone, relMsgs, pool, open, acc, calls, ports>>
<1>1. pc[w] = "onrecv" /\ w \in Threads /\ pc[w] \in Holding
  BY DEF RecvHandled, Threads, Holding, Receiving
<1>2. TableType /\ at[w] \in Slots /\ sess[at[w]].dc \in {0, 1}
  BY <1>1, TypeFacts
<1>3. PICK bad \in {0, 1} : sess' = [sess EXCEPT ![at[w]].dc = IF bad = 1 THEN 1 ELSE sess[at[w]].dc]
  BY <1>2 DEF RecvHandled, TableType
<1>4. (IF bad = 1 THEN 1 ELSE sess[at[w]].dc) \in {0, 1}
  BY <1>2
<1> QED
  BY <1>2, <1>3, <1>4, FlagFields DEF RecvHandled

\* A worker posts the next receive.
LEMMA RecvNextMoves ==
  ASSUME IInv, NEW w \in Workers, RecvNext(w)
  PROVE  /\ sess' \in [Slots -> Sess] /\ at[w] \in Slots
         /\ \A r \in Slots : SameConn(r) /\ (r # at[w] => Same(r) /\ recv'[r] = recv[r])
         /\ \/ sess'[at[w]].ref = sess[at[w]].ref + 1 /\ recv' = [recv EXCEPT ![at[w]] = "posted"]
            \/ sess'[at[w]].ref = sess[at[w]].ref /\ recv' = recv
         /\ pc[w] = "post" /\ pc' = [pc EXCEPT ![w] = "give"] /\ at' = at
         /\ UNCHANGED <<gone, relMsgs, pool, open, acc, calls, ports>>
<1>1. pc[w] = "post" /\ w \in Threads /\ pc[w] \in Holding
  BY DEF RecvNext, Threads, Holding, Receiving
<1>2. TableType /\ at[w] \in Slots
  BY <1>1, TypeFacts
<1> QED
  BY <1>2, RecvPostFields DEF RecvNext

\* The contents call Disconnect for a connection they know.
LEMMA CallMoves ==
  ASSUME IInv, NEW c \in Closers, CallDisconnect(c)
  PROVE  \E s \in Slots :
         /\ sess' \in [Slots -> Sess]
         /\ \A r \in Slots : SameConn(r) /\ (r # s => Same(r))
         /\ sess'[s].ref = sess[s].ref + 1
         /\ sess[s].conn \in open /\ sess[s].rel = 0
         /\ pc[c] = "idle" /\ pc' = [pc EXCEPT ![c] = "flag"] /\ at' = [at EXCEPT ![c] = s]
         /\ UNCHANGED <<recv, gone, relMsgs, pool, open, acc, ports>>
<1>1. PICK s \in Slots : /\ sess[s].conn \in open /\ sess[s].rel = 0
                         /\ sess' = [sess EXCEPT ![s].ref = @ + 1]
                         /\ pc' = [pc EXCEPT ![c] = "flag"] /\ at' = [at EXCEPT ![c] = s]
  BY DEF CallDisconnect
<1>2. TableType
  BY TypeFacts
<1> QED
  BY <1>1, <1>2, AddRefFields DEF CallDisconnect

\* The first Disconnect goes on, the others give back what they took.
LEMMA FirstFlagMoves ==
  ASSUME IInv, NEW t \in Callers, FirstFlag(t)
  PROVE  /\ sess' \in [Slots -> Sess] /\ \A r \in Slots : Same(r)
         /\ pc[t] = "flag" /\ at' = at
         /\ \E place \in {"give", "cancel"} : pc' = [pc EXCEPT ![t] = place]
         /\ UNCHANGED <<recv, gone, relMsgs, pool, open, acc, calls, ports>>
<1>1. pc[t] = "flag" /\ t \in Threads /\ pc[t] \in Holding
  BY DEF FirstFlag, Threads, Holding
<1>2. TableType /\ at[t] \in Slots
  BY <1>1, TypeFacts
<1> QED
  BY <1>2, FlagFields DEF FirstFlag

\* What a step of Stop does that looks at slot s.
Visits(s) ==
    /\ sess' \in [Slots -> Sess]
    /\ \A r \in Slots : SameConn(r) /\ (r # s => Same(r))
    /\ at' = [at EXCEPT ![Main] = s]
    /\ \/ pc' = [pc EXCEPT ![Main] = "flag"] /\ Live(s) /\ sess'[s].ref = sess[s].ref + 1
       \/ pc' = [pc EXCEPT ![Main] = "round"] /\ Same(s)

\* Visit says that.
LEMMA VisitMoves ==
  ASSUME NoScan, IInv, NEW s \in Slots, Visit(s)
  PROVE  Visits(s)
<1>1. TableType /\ sess[s].conn \in 0..MaxConn /\ MaxConn \in Nat
  BY Bounds, TypeFacts
<1>2. CASE sess[s].conn > 0 /\ sess[s].rel = 0
  BY <1>1, <1>2, AddRefFields DEF Visit, Visits, Live, FirstInit, NoScan
<1>3. CASE ~(sess[s].conn > 0 /\ sess[s].rel = 0)
  BY <1>1, <1>3 DEF Visit, Visits, TableType, Same, SameConn
<1> QED
  BY <1>2, <1>3

\* The head of the loop of Stop.
LEMMA StopLookMoves ==
  ASSUME NoScan, IInv, StopLook
  PROVE  /\ pc[Main] = "wait" /\ iocp' = (curCnt # 0)
         /\ \/ /\ curCnt = 0 /\ sess' = sess
               /\ pc' = [pc EXCEPT ![Main] = "join"] /\ at' = [at EXCEPT ![Main] = None]
            \/ curCnt # 0 /\ \E s \in Slots : Visits(s)
         /\ UNCHANGED <<recv, gone, relMsgs, pool, open, acc, calls, listening>>
<1>1. 0 \in Slots
  BY Bounds DEF Slots
<1> QED
  BY <1>1, VisitMoves DEF StopLook

\* The next turn of the loop.
LEMMA StopNextMoves ==
  ASSUME NoScan, IInv, StopNext
  PROVE  /\ pc[Main] = "round"
         /\ \/ /\ sess' = sess
               /\ pc' = [pc EXCEPT ![Main] = "wait"] /\ at' = [at EXCEPT ![Main] = None]
            \/ \E s \in Slots : Visits(s)
         /\ UNCHANGED <<recv, gone, relMsgs, pool, open, acc, calls, ports>>
<1>1. pc[Main] = "round" /\ Main \in Threads
  BY DEF StopNext, Threads, Callers
<1>2. at[Main] \in Slots
  BY <1>1, TypeFacts
<1>3. at[Main] + 1 < MaxSession => at[Main] + 1 \in Slots
  BY <1>2, Bounds DEF Slots
<1> QED
  BY <1>3, VisitMoves DEF StopNext

-----------------------------------------------------------------------------
(* Types *)

\* The types, with every count at least zero.
LEMMA TypeStep ==
  ASSUME NoScan, IInv, [Next]_vars
  PROVE  TypeOK'
<1> USE ThreadsApart DEF Threads, Callers
<1>a. /\ sess \in [Slots -> Sess]
      /\ recv \in [Slots -> {"none", "posted", "data", "end"}] /\ gone \subseteq Slots
      /\ relMsgs \in [Slots -> Nat]
      /\ stack \in Seq(Slots) /\ curCnt \in Nat /\ allocID \in 0..MaxConn
      /\ open \subseteq 1..MaxConn
      /\ acc \in [pc : AccPCs, slot : Slots]
      /\ pc \in [Workers \cup Callers -> PCs]
      /\ at \in [Workers \cup Callers -> Slots \cup {None}]
      /\ calls \in 0..MaxCalls /\ listening \in BOOLEAN /\ iocp \in BOOLEAN
      /\ MaxSession \in Nat \ {0} /\ MaxConn \in Nat /\ MaxCalls \in Nat
      /\ Main \in Threads
      /\ \A t \in Threads : pc[t] \in Holding \cup Releasing \cup {"round"} => at[t] \in Slots
  BY Bounds DEF IInv, Roles, TypeOK, Sess
<1>1. ASSUME Accept PROVE TypeOK'
  BY <1>1, <1>a DEF Accept, TypeOK, AccPCs
<1>2. ASSUME CountIn PROVE TypeOK'
  <2>1. curCnt' \in Nat
    BY <1>2, <1>a DEF CountIn
  <2>2. acc' \in [pc : AccPCs, slot : Slots]
    BY <1>2, <1>a DEF CountIn, AccPCs
  <2> QED
    BY <1>2, <1>a, <2>1, <2>2 DEF CountIn, TypeOK
<1>3. ASSUME Refuse PROVE TypeOK'
  <2>1. curCnt' \in Nat
    BY <1>3, <1>a, CountPositive DEF Refuse
  <2>2. acc' \in [pc : AccPCs, slot : Slots]
    BY <1>3, <1>a DEF Refuse, AccPCs
  <2> QED
    BY <1>3, <1>a, <2>1, <2>2 DEF Refuse, TypeOK
<1>4. ASSUME Pop PROVE TypeOK'
  <2>1. stack' \in Seq(Slots)
    BY <1>4, <1>a, HeadTailProperties DEF Pop
  <2>2. acc'.slot \in Slots /\ acc' = [pc |-> "init", slot |-> acc'.slot]
    <3>1. 0 \in Slots
      BY <1>a DEF Slots
    <3>2. stack # <<>> => Head(stack) \in Slots
      BY <1>a, HeadTailProperties
    <3> QED
      BY <1>4, <3>1, <3>2 DEF Pop
  <2> QED
    BY <1>4, <1>a, <2>1, <2>2 DEF Pop, TypeOK, Sess, AccPCs
<1>5. ASSUME InitName PROVE TypeOK'
  <2>1. allocID' \in 0..MaxConn
    BY <1>5, <1>a, InitNameMoves
  <2>2. acc' \in [pc : AccPCs, slot : Slots]
    BY <1>5, <1>a, InitNameMoves DEF AccPCs
  <2>3. gone' \subseteq Slots
    BY <1>5, <1>a, InitNameMoves DEF InitName
  <2>4. recv' \in [Slots -> {"none", "posted", "data", "end"}]
    BY <1>5, <1>a, InitNameMoves
  <2> QED
    BY <1>5, <1>a, <2>1, <2>2, <2>3, <2>4, InitNameMoves DEF TypeOK
<1>5c. ASSUME InitCount PROVE TypeOK'
  <2>1. acc' \in [pc : AccPCs, slot : Slots]
    BY <1>5c, <1>a, InitCountMoves DEF AccPCs
  <2> QED
    BY <1>5c, <1>a, <2>1, InitCountMoves DEF TypeOK
<1>5o. ASSUME InitOpen PROVE TypeOK'
  <2>1. acc' \in [pc : AccPCs, slot : Slots]
    BY <1>5o, <1>a, InitOpenMoves DEF AccPCs
  <2> QED
    BY <1>5o, <1>a, <2>1, InitOpenMoves DEF TypeOK
<1>6. ASSUME Register PROVE TypeOK'
  BY <1>6, <1>a DEF Register, TypeOK, AccPCs
<1>7. ASSUME Join PROVE TypeOK'
  <2>1. /\ acc.pc = "join" /\ open' = open \cup {sess[acc.slot].conn}
        /\ acc' = [acc EXCEPT !.pc = "post"]
        /\ UNCHANGED <<table, pool, pc, at, calls, ports>>
    BY <1>7 DEF Join
  <2>2. Live(acc.slot) /\ acc.slot \in Slots
    BY <2>1, AccCounts DEF AccHolds
  <2>3. sess[acc.slot].conn \in 1..MaxConn
    BY <1>a, <2>2 DEF Sess, Live
  <2> QED
    BY <1>a, <2>1, <2>3 DEF TypeOK, AccPCs
<1>8. ASSUME FirstRecv PROVE TypeOK'
  BY <1>8, <1>a, FirstRecvMoves DEF TypeOK, AccPCs
<1>9. ASSUME AcceptGive PROVE TypeOK'
  BY <1>9, <1>a, AcceptGiveMoves DEF TypeOK, AccPCs
<1>10. ASSUME AcceptEnd PROVE TypeOK'
  BY <1>10, <1>a DEF AcceptEnd, TypeOK, AccPCs
<1>11. ASSUME NEW s \in Slots, PeerSends(s) PROVE TypeOK'
  BY <1>11, <1>a DEF PeerSends, TypeOK, PCs
<1>12. ASSUME NEW s \in Slots, PeerCloses(s) PROVE TypeOK'
  BY <1>12, <1>a DEF PeerCloses, TypeOK, PCs
<1>13. ASSUME NEW s \in Slots, RecvEnds(s) PROVE TypeOK'
  BY <1>13, <1>a DEF RecvEnds, TypeOK, PCs
<1>14. ASSUME NEW w \in Workers, NEW s \in Slots, RecvTake(w, s) PROVE TypeOK'
  <2>1. /\ pc[w] \in PCs /\ pc' = [pc EXCEPT ![w] = "recv"]
        /\ at' = [at EXCEPT ![w] = s]
    BY <1>14, <1>a, RecvTakeMoves DEF PCs
  <2>2. /\ pc' \in [Workers \cup Callers -> PCs]
        /\ at' \in [Workers \cup Callers -> Slots \cup {None}]
    BY <1>a, <2>1 DEF PCs
  <2>3. recv' \in [Slots -> {"none", "posted", "data", "end"}]
    BY <1>14, <1>a, RecvTakeMoves
  <2> QED
    BY <1>14, <1>a, <2>2, <2>3, RecvTakeMoves DEF TypeOK
<1>15. ASSUME NEW w \in Workers, NEW s \in Slots, ReleaseTake(w, s) PROVE TypeOK'
  <2>1. /\ pc[w] \in PCs /\ pc' = [pc EXCEPT ![w] = "leave"]
        /\ at' = [at EXCEPT ![w] = s]
    BY <1>15, <1>a, ReleaseTakeMoves DEF PCs
  <2>2. /\ pc' \in [Workers \cup Callers -> PCs]
        /\ at' \in [Workers \cup Callers -> Slots \cup {None}]
    BY <1>a, <2>1 DEF PCs
  <2>3. relMsgs[s] - 1 \in Nat /\ relMsgs' = [relMsgs EXCEPT ![s] = relMsgs[s] - 1]
    BY <1>15, <1>a, ReleaseTakeMoves
  <2> QED
    BY <1>15, <1>a, <2>2, <2>3, ReleaseTakeMoves DEF TypeOK
<1>16. ASSUME NEW w \in Workers, RecvStart(w) PROVE TypeOK'
  BY <1>16, <1>a DEF RecvStart, TypeOK, PCs
<1>17. ASSUME NEW w \in Workers, RecvHandled(w) PROVE TypeOK'
  BY <1>17, <1>a, RecvHandledMoves DEF TypeOK, PCs
<1>18. ASSUME NEW w \in Workers, RecvCheck(w) PROVE TypeOK'
  BY <1>18, <1>a DEF RecvCheck, TypeOK, PCs
<1>19. ASSUME NEW w \in Workers, RecvNext(w) PROVE TypeOK'
  BY <1>19, <1>a, RecvNextMoves DEF TypeOK, PCs
<1>20. ASSUME NEW w \in Workers, Leave(w) PROVE TypeOK'
  BY <1>20, <1>a, LeaveMoves DEF TypeOK, PCs
<1>21. ASSUME NEW w \in Workers, Push(w) PROVE TypeOK'
  <2>1. at[w] \in Slots /\ pc[w] = "push" /\ stack' = <<at[w]>> \o stack
    BY <1>21, <1>a, PushMoves DEF Releasing
  <2>2. stack' \in Seq(Slots)
    BY <1>a, <2>1, ConcatProperties
  <2> QED
    BY <1>21, <1>a, <2>2, PushMoves DEF TypeOK, PCs
<1>22. ASSUME NEW w \in Workers, Count(w) PROVE TypeOK'
  <2>1. /\ pc' \in [Workers \cup Callers -> PCs]
        /\ at' \in [Workers \cup Callers -> Slots \cup {None}]
    BY <1>22, <1>a, CountMoves DEF PCs
  <2>2. curCnt' \in Nat
    BY <1>22, <1>a, CountPositive, CountMoves
  <2> QED
    BY <1>22, <1>a, <2>1, <2>2, CountMoves DEF TypeOK
<1>23. ASSUME NEW t \in Threads, Give(t) PROVE TypeOK'
  <2>1. /\ pc[t] \in PCs /\ pc' = [pc EXCEPT ![t] = Home(t)]
        /\ at' = [at EXCEPT ![t] = IF t = Main THEN at[t] ELSE None]
    BY <1>23, <1>a, GiveMoves DEF PCs
  <2>2. /\ pc' \in [Workers \cup Callers -> PCs]
        /\ at' \in [Workers \cup Callers -> Slots \cup {None}]
    BY <1>a, <2>1 DEF PCs, Home
  <2> QED
    BY <1>23, <1>a, <2>2, GiveMoves DEF TypeOK
<1>24. ASSUME NEW c \in Closers, CallDisconnect(c) PROVE TypeOK'
  <2>1. PICK s \in Slots : pc' = [pc EXCEPT ![c] = "flag"] /\ at' = [at EXCEPT ![c] = s]
    BY <1>24, CallMoves
  <2>2. /\ pc' \in [Workers \cup Callers -> PCs]
        /\ at' \in [Workers \cup Callers -> Slots \cup {None}]
    BY <1>a, <2>1 DEF PCs
  <2>3. /\ sess' \in [Slots -> Sess]
        /\ UNCHANGED <<recv, gone, relMsgs, pool, open, acc, ports>>
    BY <1>24, CallMoves
  <2>4. calls' \in 0..MaxCalls
    BY <1>24, <1>a DEF CallDisconnect
  <2> QED
    BY <1>a, <2>2, <2>3, <2>4 DEF TypeOK
<1>25. ASSUME NEW t \in Callers, FirstFlag(t) PROVE TypeOK'
  BY <1>25, <1>a, FirstFlagMoves DEF TypeOK, PCs
<1>26. ASSUME NEW t \in Callers, Cancel(t) PROVE TypeOK'
  BY <1>26, <1>a DEF Cancel, TypeOK, PCs
<1>27. ASSUME StopBegin PROVE TypeOK'
  BY <1>27, <1>a DEF StopBegin, TypeOK, PCs
<1>28. ASSUME StopLook PROVE TypeOK'
  <2>1. /\ pc' \in [Workers \cup Callers -> PCs]
        /\ at' \in [Workers \cup Callers -> Slots \cup {None}]
    BY <1>28, <1>a, StopLookMoves DEF Visits, PCs
  <2> QED
    BY <1>28, <1>a, <2>1, StopLookMoves DEF Visits, TypeOK
<1>29. ASSUME StopNext PROVE TypeOK'
  <2>1. /\ pc' \in [Workers \cup Callers -> PCs]
        /\ at' \in [Workers \cup Callers -> Slots \cup {None}]
    BY <1>29, <1>a, StopNextMoves DEF Visits, PCs
  <2> QED
    BY <1>29, <1>a, <2>1, StopNextMoves DEF Visits, TypeOK
<1>30. ASSUME StopJoin PROVE TypeOK'
  BY <1>30, <1>a DEF StopJoin, TypeOK, PCs
<1>u. CASE UNCHANGED vars
  BY <1>u, <1>a DEF TypeOK
<1> QED
  BY <1>1, <1>2, <1>3, <1>4, <1>5, <1>5c, <1>5o, <1>6, <1>7, <1>8, <1>9, <1>10, <1>11, <1>12,
     <1>13, <1>14, <1>15, <1>16, <1>17, <1>18, <1>19, <1>20, <1>21, <1>22, <1>23, <1>24, <1>25, <1>26, <1>27,
     <1>28, <1>29, <1>30, <1>u
  DEF Next, AcceptStep, Serve, WorkerStep, CallerStep, StopStep, Threads, Callers

-----------------------------------------------------------------------------
(* The references *)

\* Thread t holds slot s.
Holds(t, s) == pc[t] \in Holding /\ at[t] = s

\* A step of one thread changes the holders of a session by that thread at most.
LEMMA HeldChange ==
  ASSUME NEW t \in Threads, \A u \in Threads : u # t => pc'[u] = pc[u] /\ at'[u] = at[u],
         NEW s
  PROVE  /\ Holds(t, s)' /\ ~Holds(t, s) => Cardinality(Held(s)') = Cardinality(Held(s)) + 1
         /\ ~Holds(t, s)' /\ Holds(t, s) => Cardinality(Held(s)') = Cardinality(Held(s)) - 1
         /\ (Holds(t, s)' <=> Holds(t, s)) => Cardinality(Held(s)') = Cardinality(Held(s))
<1>1. \A u : u \in Held(s) <=> u \in Threads /\ Holds(u, s)
  BY DEF Held, Holds
<1>2. \A u : u \in Held(s)' <=> u \in Threads /\ Holds(u, s)'
  BY DEF Held, Holds
<1>3. \A u \in Threads : u # t => (Holds(u, s)' <=> Holds(u, s))
  BY DEF Holds
<1>4. IsFiniteSet(Held(s)) /\ Cardinality(Held(s)) \in Nat
  BY HeldFinite
<1>5. CASE Holds(t, s)' /\ ~Holds(t, s)
  <2>1. Held(s)' = Held(s) \cup {t} /\ t \notin Held(s)
    BY <1>1, <1>2, <1>3, <1>5
  <2> QED
    BY <1>4, <1>5, <2>1, FS_AddElement
<1>6. CASE ~Holds(t, s)' /\ Holds(t, s)
  <2>1. Held(s)' = Held(s) \ {t} /\ t \in Held(s)
    BY <1>1, <1>2, <1>3, <1>6
  <2> QED
    BY <1>4, <1>6, <2>1, FS_RemoveElement
<1>7. CASE Holds(t, s)' <=> Holds(t, s)
  <2>1. Held(s)' = Held(s)
    BY <1>1, <1>2, <1>3, <1>7
  <2> QED
    BY <1>7, <2>1
<1> QED
  BY <1>5, <1>6, <1>7

\* Every reference that is taken is given back, on every path.
LEMMA RefStep ==
  ASSUME NoScan, IInv, [Next]_vars
  PROVE  RefCounted'
<1>a. /\ acc \in [pc : AccPCs, slot : Slots] /\ acc.slot \in Slots
      /\ pc \in [Threads -> PCs] /\ at \in [Threads -> Slots \cup {None}]
      /\ DOMAIN recv = Slots
      /\ \A s \in Slots : sess[s].ref \in Nat
      /\ \A t \in Threads : pc[t] \in Holding => at[t] \in Slots
      /\ Main \in Threads /\ Workers \subseteq Threads /\ Closers \subseteq Threads
      /\ Callers \subseteq Threads
  BY TypeFacts DEF Threads, Callers, TableType
<1>b. \A s \in Slots : Cardinality(Held(s)) \in Nat
  BY HeldFinite
<1>c. \A s \in Slots : Balanced(s)
  BY DEF IInv, RefCounted
<1>d. pc' = pc /\ at' = at => \A s \in Slots : Cardinality(Held(s)') = Cardinality(Held(s))
  BY DEF Held
<1>1. ASSUME Accept PROVE RefCounted'
  BY <1>1, <1>a, <1>b, <1>c, <1>d DEF Accept, RefCounted, Balanced, RefOf, AccOf, RecvOf, AccHolds
<1>2. ASSUME CountIn PROVE RefCounted'
  BY <1>2, <1>a, <1>b, <1>c, <1>d DEF CountIn, RefCounted, Balanced, RefOf, AccOf, RecvOf, AccHolds
<1>3. ASSUME Refuse PROVE RefCounted'
  BY <1>3, <1>a, <1>b, <1>c, <1>d DEF Refuse, RefCounted, Balanced, RefOf, AccOf, RecvOf, AccHolds
<1>4. ASSUME Pop PROVE RefCounted'
  BY <1>4, <1>a, <1>b, <1>c, <1>d DEF Pop, RefCounted, Balanced, RefOf, AccOf, RecvOf, AccHolds
<1>5. ASSUME InitName PROVE RefCounted'
  <2> SUFFICES ASSUME NEW s \in Slots PROVE Balanced(s)'
    BY DEF RefCounted
  <2>1. /\ acc.pc = "init" /\ acc'.pc = "named" /\ acc'.slot = acc.slot /\ pc' = pc /\ at' = at
        /\ sess'[s].ref = sess[s].ref /\ (s # acc.slot => recv'[s] = recv[s])
        /\ recv'[acc.slot] = "none"
    BY <1>5, <1>a, InitNameMoves DEF Same
  <2>2. recv[acc.slot] = "none"
    BY <1>a, <2>1, RecvCounts DEF IInv, FreeSlots, Fresh, Free
  <2> QED
    BY <1>a, <1>b, <1>c, <1>d, <2>1, <2>2 DEF Balanced, RefOf, AccOf, RecvOf, AccHolds
<1>5c. ASSUME InitCount PROVE RefCounted'
  <2> SUFFICES ASSUME NEW s \in Slots PROVE Balanced(s)'
    BY DEF RefCounted
  <2>1. /\ acc.pc = "named" /\ acc'.pc = "counted" /\ acc'.slot = acc.slot /\ pc' = pc /\ at' = at
        /\ s # acc.slot => sess'[s].ref = sess[s].ref
        /\ sess'[acc.slot].ref = sess[acc.slot].ref + 1 /\ recv' = recv
    BY <1>5c, <1>a, InitCountMoves DEF Same
  <2> QED
    BY <1>a, <1>b, <1>c, <1>d, <2>1 DEF Balanced, RefOf, AccOf, RecvOf, AccHolds
<1>5o. ASSUME InitOpen PROVE RefCounted'
  <2> SUFFICES ASSUME NEW s \in Slots PROVE Balanced(s)'
    BY DEF RefCounted
  <2>1. /\ acc.pc = "counted" /\ acc'.pc = "iocp" /\ acc'.slot = acc.slot /\ pc' = pc /\ at' = at
        /\ sess'[s].ref = sess[s].ref /\ recv' = recv
    BY <1>5o, <1>a, InitOpenMoves
  <2> QED
    BY <1>a, <1>b, <1>c, <1>d, <2>1 DEF Balanced, RefOf, AccOf, RecvOf, AccHolds
<1>6. ASSUME Register PROVE RefCounted'
  BY <1>6, <1>a, <1>b, <1>c, <1>d DEF Register, RefCounted, Balanced, RefOf, AccOf, RecvOf, AccHolds
<1>7. ASSUME Join PROVE RefCounted'
  BY <1>7, <1>a, <1>b, <1>c, <1>d DEF Join, RefCounted, Balanced, RefOf, AccOf, RecvOf, AccHolds
<1>8. ASSUME FirstRecv PROVE RefCounted'
  <2> SUFFICES ASSUME NEW s \in Slots PROVE Balanced(s)'
    BY DEF RefCounted
  <2>1. /\ acc.pc = "post" /\ acc'.pc = "give" /\ acc'.slot = acc.slot /\ pc' = pc /\ at' = at
        /\ s # acc.slot => sess'[s].ref = sess[s].ref /\ recv'[s] = recv[s]
        /\ \/ sess'[acc.slot].ref = sess[acc.slot].ref + 1 /\ recv'[acc.slot] = "posted"
           \/ sess'[acc.slot].ref = sess[acc.slot].ref /\ recv'[acc.slot] = recv[acc.slot]
    BY <1>8, <1>a, FirstRecvMoves DEF Same
  <2>2. recv[acc.slot] = "none"
    BY <2>1 DEF IInv, OneReceive
  <2> QED
    BY <1>a, <1>b, <1>c, <1>d, <2>1, <2>2 DEF Balanced, RefOf, AccOf, RecvOf, AccHolds
<1>9. ASSUME AcceptGive PROVE RefCounted'
  <2> SUFFICES ASSUME NEW s \in Slots PROVE Balanced(s)'
    BY DEF RefCounted
  <2>1. /\ acc.pc = "give" /\ acc'.pc = "accept" /\ acc'.slot = acc.slot /\ pc' = pc /\ at' = at
        /\ s # acc.slot => sess'[s].ref = sess[s].ref
        /\ sess'[acc.slot].ref = sess[acc.slot].ref - 1 /\ recv' = recv
    BY <1>9, <1>a, AcceptGiveMoves DEF Same
  <2> QED
    BY <1>a, <1>b, <1>c, <1>d, <2>1 DEF Balanced, RefOf, AccOf, RecvOf, AccHolds
<1>10. ASSUME AcceptEnd PROVE RefCounted'
  BY <1>10, <1>a, <1>b, <1>c, <1>d DEF AcceptEnd, RefCounted, Balanced, RefOf, AccOf, RecvOf, AccHolds
<1>11. ASSUME NEW s \in Slots, PeerSends(s) PROVE RefCounted'
  BY <1>11, <1>a, <1>b, <1>c, <1>d DEF PeerSends, RefCounted, Balanced, RefOf, AccOf, RecvOf, AccHolds
<1>12. ASSUME NEW s \in Slots, PeerCloses(s) PROVE RefCounted'
  BY <1>12, <1>a, <1>b, <1>c, <1>d DEF PeerCloses, RefCounted, Balanced, RefOf, AccOf, RecvOf, AccHolds
<1>13. ASSUME NEW s \in Slots, RecvEnds(s) PROVE RefCounted'
  BY <1>13, <1>a, <1>b, <1>c, <1>d DEF RecvEnds, RefCounted, Balanced, RefOf, AccOf, RecvOf, AccHolds
<1>14. ASSUME NEW w \in Workers, NEW s \in Slots, RecvTake(w, s) PROVE RefCounted'
  <2> SUFFICES ASSUME NEW r \in Slots PROVE Balanced(r)'
    BY DEF RefCounted
  <2>1. /\ pc[w] = "idle" /\ pc' = [pc EXCEPT ![w] = "recv"] /\ at' = [at EXCEPT ![w] = s]
        /\ acc' = acc /\ sess'[r].ref = sess[r].ref
        /\ recv[s] # "none" /\ recv'[s] = "none" /\ (r # s => recv'[r] = recv[r])
    BY <1>14, <1>a, RecvTakeMoves DEF Same
  <2>2. w \in Threads /\ \A u \in Threads : u # w => pc'[u] = pc[u] /\ at'[u] = at[u]
    BY <1>a, <2>1
  <2>3. (Holds(w, r)' <=> r = s) /\ ~Holds(w, r)
    BY <1>a, <2>1 DEF Holds, Holding, Receiving
  <2> QED
    BY <1>a, <1>b, <1>c, <2>1, <2>2, <2>3, HeldChange DEF Balanced, RefOf, AccOf, RecvOf, AccHolds
<1>15. ASSUME NEW w \in Workers, NEW s \in Slots, ReleaseTake(w, s) PROVE RefCounted'
  <2> SUFFICES ASSUME NEW r \in Slots PROVE Balanced(r)'
    BY DEF RefCounted
  <2>1. /\ pc[w] = "idle" /\ pc' = [pc EXCEPT ![w] = "leave"] /\ at' = [at EXCEPT ![w] = s]
        /\ acc' = acc /\ sess' = sess /\ recv' = recv
    BY <1>15, <1>a, ReleaseTakeMoves
  <2>2. w \in Threads /\ \A u \in Threads : u # w => pc'[u] = pc[u] /\ at'[u] = at[u]
    BY <1>a, <2>1
  <2>3. Holds(w, r)' <=> Holds(w, r)
    BY <1>a, <2>1 DEF Holds, Holding, Receiving
  <2> QED
    BY <1>a, <1>b, <1>c, <2>1, <2>2, <2>3, HeldChange DEF Balanced, RefOf, AccOf, RecvOf, AccHolds
<1>16. ASSUME NEW w \in Workers, RecvStart(w) PROVE RefCounted'
  <2> SUFFICES ASSUME NEW s \in Slots PROVE Balanced(s)'
    BY DEF RefCounted
  <2>1. /\ pc[w] = "recv" /\ \E place \in {"check", "onrecv"} : pc' = [pc EXCEPT ![w] = place]
        /\ at' = at /\ recv' = recv /\ acc' = acc /\ sess'[s].ref = sess[s].ref
    BY <1>16, <1>a DEF RecvStart, Same
  <2>2. w \in Threads /\ \A u \in Threads : u # w => pc'[u] = pc[u] /\ at'[u] = at[u]
    BY <1>a, <2>1
  <2>3. Holds(w, s)' <=> Holds(w, s)
    BY <1>a, <2>1 DEF Holds, Holding, Receiving
  <2> QED
    BY <1>a, <1>b, <1>c, <2>1, <2>2, <2>3, HeldChange DEF Balanced, RefOf, AccOf, RecvOf, AccHolds
<1>17. ASSUME NEW w \in Workers, RecvHandled(w) PROVE RefCounted'
  <2> SUFFICES ASSUME NEW s \in Slots PROVE Balanced(s)'
    BY DEF RefCounted
  <2>1. /\ pc[w] = "onrecv" /\ pc' = [pc EXCEPT ![w] = "check"] /\ at' = at
        /\ recv' = recv /\ acc' = acc /\ sess'[s].ref = sess[s].ref
    BY <1>17, <1>a, RecvHandledMoves DEF Same
  <2>2. w \in Threads /\ \A u \in Threads : u # w => pc'[u] = pc[u] /\ at'[u] = at[u]
    BY <1>a, <2>1
  <2>3. Holds(w, s)' <=> Holds(w, s)
    BY <1>a, <2>1 DEF Holds, Holding, Receiving
  <2> QED
    BY <1>a, <1>b, <1>c, <2>1, <2>2, <2>3, HeldChange DEF Balanced, RefOf, AccOf, RecvOf, AccHolds
<1>18. ASSUME NEW w \in Workers, RecvCheck(w) PROVE RefCounted'
  <2> SUFFICES ASSUME NEW s \in Slots PROVE Balanced(s)'
    BY DEF RefCounted
  <2>1. /\ pc[w] = "check" /\ \E place \in {"give", "post"} : pc' = [pc EXCEPT ![w] = place]
        /\ at' = at /\ recv' = recv /\ acc' = acc /\ sess'[s].ref = sess[s].ref
    BY <1>18, <1>a DEF RecvCheck, Same
  <2>2. w \in Threads /\ \A u \in Threads : u # w => pc'[u] = pc[u] /\ at'[u] = at[u]
    BY <1>a, <2>1
  <2>3. Holds(w, s)' <=> Holds(w, s)
    BY <1>a, <2>1 DEF Holds, Holding, Receiving
  <2> QED
    BY <1>a, <1>b, <1>c, <2>1, <2>2, <2>3, HeldChange DEF Balanced, RefOf, AccOf, RecvOf, AccHolds
<1>19. ASSUME NEW w \in Workers, RecvNext(w) PROVE RefCounted'
  <2> SUFFICES ASSUME NEW s \in Slots PROVE Balanced(s)'
    BY DEF RefCounted
  <2>1. /\ pc[w] = "post" /\ pc' = [pc EXCEPT ![w] = "give"] /\ at' = at
        /\ acc' = acc /\ at[w] \in Slots
        /\ s # at[w] => sess'[s].ref = sess[s].ref /\ recv'[s] = recv[s]
        /\ \/ sess'[at[w]].ref = sess[at[w]].ref + 1 /\ recv'[at[w]] = "posted"
           \/ sess'[at[w]].ref = sess[at[w]].ref /\ recv'[at[w]] = recv[at[w]]
    BY <1>19, <1>a, RecvNextMoves DEF Same
  <2>2. w \in Threads /\ \A u \in Threads : u # w => pc'[u] = pc[u] /\ at'[u] = at[u]
    BY <1>a, <2>1
  <2>3. Holds(w, s)' <=> Holds(w, s)
    BY <1>a, <2>1 DEF Holds, Holding, Receiving
  <2>4. recv[at[w]] = "none"
    BY <2>1 DEF IInv, OneReceive, NoReceiver, Receiving
  <2> QED
    BY <1>a, <1>b, <1>c, <2>1, <2>2, <2>3, <2>4, HeldChange DEF Balanced, RefOf, AccOf, RecvOf, AccHolds
<1>20. ASSUME NEW w \in Workers, Leave(w) PROVE RefCounted'
  <2> SUFFICES ASSUME NEW s \in Slots PROVE Balanced(s)'
    BY DEF RefCounted
  <2>1. /\ pc[w] = "leave" /\ pc' = [pc EXCEPT ![w] = "push"] /\ at' = at
        /\ recv' = recv /\ acc' = acc /\ sess'[s].ref = sess[s].ref
    BY <1>20, <1>a, LeaveMoves DEF Same
  <2>2. w \in Threads /\ \A u \in Threads : u # w => pc'[u] = pc[u] /\ at'[u] = at[u]
    BY <1>a, <2>1
  <2>3. Holds(w, s)' <=> Holds(w, s)
    BY <1>a, <2>1 DEF Holds, Holding, Receiving
  <2> QED
    BY <1>a, <1>b, <1>c, <2>1, <2>2, <2>3, HeldChange DEF Balanced, RefOf, AccOf, RecvOf, AccHolds
<1>21. ASSUME NEW w \in Workers, Push(w) PROVE RefCounted'
  <2> SUFFICES ASSUME NEW s \in Slots PROVE Balanced(s)'
    BY DEF RefCounted
  <2>1. /\ pc[w] = "push" /\ pc' = [pc EXCEPT ![w] = "count"] /\ at' = at
        /\ recv' = recv /\ acc' = acc /\ sess'[s].ref = sess[s].ref
    BY <1>21, <1>a, PushMoves DEF Same
  <2>2. w \in Threads /\ \A u \in Threads : u # w => pc'[u] = pc[u] /\ at'[u] = at[u]
    BY <1>a, <2>1
  <2>3. Holds(w, s)' <=> Holds(w, s)
    BY <1>a, <2>1 DEF Holds, Holding, Receiving
  <2> QED
    BY <1>a, <1>b, <1>c, <2>1, <2>2, <2>3, HeldChange DEF Balanced, RefOf, AccOf, RecvOf, AccHolds
<1>22. ASSUME NEW w \in Workers, Count(w) PROVE RefCounted'
  <2> SUFFICES ASSUME NEW s \in Slots PROVE Balanced(s)'
    BY DEF RefCounted
  <2>1. /\ pc[w] = "count" /\ pc' = [pc EXCEPT ![w] = "idle"] /\ at' = [at EXCEPT ![w] = None]
        /\ recv' = recv /\ acc' = acc /\ sess'[s].ref = sess[s].ref
    BY <1>22, <1>a, CountMoves DEF Same
  <2>2. w \in Threads /\ \A u \in Threads : u # w => pc'[u] = pc[u] /\ at'[u] = at[u]
    BY <1>a, <2>1
  <2>3. Holds(w, s)' <=> Holds(w, s)
    BY <1>a, <2>1 DEF Holds, Holding, Receiving
  <2> QED
    BY <1>a, <1>b, <1>c, <2>1, <2>2, <2>3, HeldChange DEF Balanced, RefOf, AccOf, RecvOf, AccHolds
<1>23. ASSUME NEW t \in Threads, Give(t) PROVE RefCounted'
  <2> SUFFICES ASSUME NEW s \in Slots PROVE Balanced(s)'
    BY DEF RefCounted
  <2>1. /\ pc[t] = "give" /\ pc' = [pc EXCEPT ![t] = Home(t)] /\ at' = [at EXCEPT ![t] = IF t = Main THEN at[t] ELSE None]
        /\ acc' = acc /\ recv' = recv /\ at[t] \in Slots
        /\ s # at[t] => sess'[s].ref = sess[s].ref
        /\ sess'[at[t]].ref = sess[at[t]].ref - 1 /\ sess[at[t]].ref > 0
    BY <1>23, <1>a, GiveMoves DEF Same
  <2>2. t \in Threads /\ \A u \in Threads : u # t => pc'[u] = pc[u] /\ at'[u] = at[u]
    BY <1>a, <2>1
  <2>3. (Holds(t, s) <=> s = at[t]) /\ ~Holds(t, s)'
    BY <1>a, <2>1 DEF Holds, Holding, Receiving, Home
  <2> QED
    BY <1>a, <1>b, <1>c, <2>1, <2>2, <2>3, HeldChange DEF Balanced, RefOf, AccOf, RecvOf, AccHolds
<1>24. ASSUME NEW c \in Closers, CallDisconnect(c) PROVE RefCounted'
  <2> SUFFICES ASSUME NEW s \in Slots PROVE Balanced(s)'
    BY DEF RefCounted
  <2>0. PICK r \in Slots : /\ \A x \in Slots : x # r => Same(x)
                           /\ sess'[r].ref = sess[r].ref + 1
                           /\ pc[c] = "idle" /\ pc' = [pc EXCEPT ![c] = "flag"]
                           /\ at' = [at EXCEPT ![c] = r] /\ acc' = acc /\ recv' = recv
    BY <1>24, CallMoves
  <2>1. /\ pc[c] = "idle" /\ pc' = [pc EXCEPT ![c] = "flag"] /\ at' = [at EXCEPT ![c] = r]
        /\ acc' = acc /\ recv' = recv
        /\ s # r => sess'[s].ref = sess[s].ref
        /\ sess'[r].ref = sess[r].ref + 1
    BY <1>24, <1>a, <2>0 DEF Same
  <2>2. c \in Threads /\ \A u \in Threads : u # c => pc'[u] = pc[u] /\ at'[u] = at[u]
    BY <1>a, <2>1
  <2>3. (Holds(c, s)' <=> s = r) /\ ~Holds(c, s)
    BY <1>a, <2>1 DEF Holds, Holding, Receiving
  <2> QED
    BY <1>a, <1>b, <1>c, <2>1, <2>2, <2>3, HeldChange DEF Balanced, RefOf, AccOf, RecvOf, AccHolds
<1>25. ASSUME NEW t \in Callers, FirstFlag(t) PROVE RefCounted'
  <2> SUFFICES ASSUME NEW s \in Slots PROVE Balanced(s)'
    BY DEF RefCounted
  <2>1. /\ pc[t] = "flag" /\ \E place \in {"give", "cancel"} : pc' = [pc EXCEPT ![t] = place]
        /\ at' = at /\ recv' = recv /\ acc' = acc /\ sess'[s].ref = sess[s].ref
    BY <1>25, <1>a, FirstFlagMoves DEF Same
  <2>2. t \in Threads /\ \A u \in Threads : u # t => pc'[u] = pc[u] /\ at'[u] = at[u]
    BY <1>a, <2>1
  <2>3. Holds(t, s)' <=> Holds(t, s)
    BY <1>a, <2>1 DEF Holds, Holding, Receiving
  <2> QED
    BY <1>a, <1>b, <1>c, <2>1, <2>2, <2>3, HeldChange DEF Balanced, RefOf, AccOf, RecvOf, AccHolds
<1>26. ASSUME NEW t \in Callers, Cancel(t) PROVE RefCounted'
  <2> SUFFICES ASSUME NEW s \in Slots PROVE Balanced(s)'
    BY DEF RefCounted
  <2>1. /\ pc[t] = "cancel" /\ pc' = [pc EXCEPT ![t] = "give"] /\ at' = at
        /\ (recv'[s] = "none" <=> recv[s] = "none") /\ acc' = acc /\ sess'[s].ref = sess[s].ref
    BY <1>26, <1>a DEF Cancel, Same
  <2>2. t \in Threads /\ \A u \in Threads : u # t => pc'[u] = pc[u] /\ at'[u] = at[u]
    BY <1>a, <2>1
  <2>3. Holds(t, s)' <=> Holds(t, s)
    BY <1>a, <2>1 DEF Holds, Holding, Receiving
  <2> QED
    BY <1>a, <1>b, <1>c, <2>1, <2>2, <2>3, HeldChange DEF Balanced, RefOf, AccOf, RecvOf, AccHolds
<1>27. ASSUME StopBegin PROVE RefCounted'
  <2> SUFFICES ASSUME NEW s \in Slots PROVE Balanced(s)'
    BY DEF RefCounted
  <2>1. /\ pc[Main] = "idle" /\ pc' = [pc EXCEPT ![Main] = "wait"] /\ at' = [at EXCEPT ![Main] = None]
        /\ recv' = recv /\ acc' = acc /\ sess'[s].ref = sess[s].ref
    BY <1>27, <1>a DEF StopBegin, Same
  <2>2. Main \in Threads /\ \A u \in Threads : u # Main => pc'[u] = pc[u] /\ at'[u] = at[u]
    BY <1>a, <2>1
  <2>3. Holds(Main, s)' <=> Holds(Main, s)
    BY <1>a, <2>1 DEF Holds, Holding, Receiving
  <2> QED
    BY <1>a, <1>b, <1>c, <2>1, <2>2, <2>3, HeldChange DEF Balanced, RefOf, AccOf, RecvOf, AccHolds
<1>28. ASSUME StopLook PROVE RefCounted'
  <2> SUFFICES ASSUME NEW s \in Slots PROVE Balanced(s)'
    BY DEF RefCounted
  <2>1. /\ pc[Main] = "wait" /\ acc' = acc /\ recv' = recv
        /\ \/ /\ sess' = sess
              /\ pc' = [pc EXCEPT ![Main] = "join"] /\ at' = [at EXCEPT ![Main] = None]
           \/ \E r \in Slots : Visits(r)
    BY <1>28, StopLookMoves
  <2>2. CASE pc' = [pc EXCEPT ![Main] = "join"] /\ at' = [at EXCEPT ![Main] = None] /\ sess' = sess
    <3>1. \A u \in Threads : u # Main => pc'[u] = pc[u] /\ at'[u] = at[u]
      BY <1>a, <2>2
    <3>2. Holds(Main, s)' <=> Holds(Main, s)
      BY <1>a, <2>1, <2>2 DEF Holds, Holding, Receiving
    <3> QED
      BY <1>a, <1>b, <1>c, <2>1, <2>2, <3>1, <3>2, HeldChange DEF Balanced, RefOf, AccOf, RecvOf, AccHolds
  <2>3. ASSUME NEW r \in Slots, Visits(r) PROVE Balanced(s)'
    <3>1. /\ at' = [at EXCEPT ![Main] = r] /\ (s # r => sess'[s].ref = sess[s].ref)
          /\ \/ pc' = [pc EXCEPT ![Main] = "flag"] /\ sess'[r].ref = sess[r].ref + 1
             \/ pc' = [pc EXCEPT ![Main] = "round"] /\ sess'[r].ref = sess[r].ref
      BY <2>3 DEF Visits, Same
    <3>2. \A u \in Threads : u # Main => pc'[u] = pc[u] /\ at'[u] = at[u]
      BY <1>a, <3>1
    <3>3. /\ ~Holds(Main, s)
          /\ Holds(Main, s)' <=> s = r /\ pc'[Main] = "flag"
      BY <1>a, <2>1, <3>1 DEF Holds, Holding, Receiving
    <3> QED
      BY <1>a, <1>b, <1>c, <2>1, <3>1, <3>2, <3>3, HeldChange DEF Balanced, RefOf, AccOf, RecvOf, AccHolds
  <2> QED
    BY <2>1, <2>2, <2>3
<1>29. ASSUME StopNext PROVE RefCounted'
  <2> SUFFICES ASSUME NEW s \in Slots PROVE Balanced(s)'
    BY DEF RefCounted
  <2>1. /\ pc[Main] = "round" /\ acc' = acc /\ recv' = recv
        /\ \/ /\ sess' = sess
              /\ pc' = [pc EXCEPT ![Main] = "wait"] /\ at' = [at EXCEPT ![Main] = None]
           \/ \E r \in Slots : Visits(r)
    BY <1>29, StopNextMoves
  <2>2. CASE pc' = [pc EXCEPT ![Main] = "wait"] /\ at' = [at EXCEPT ![Main] = None] /\ sess' = sess
    <3>1. \A u \in Threads : u # Main => pc'[u] = pc[u] /\ at'[u] = at[u]
      BY <1>a, <2>2
    <3>2. Holds(Main, s)' <=> Holds(Main, s)
      BY <1>a, <2>1, <2>2 DEF Holds, Holding, Receiving
    <3> QED
      BY <1>a, <1>b, <1>c, <2>1, <2>2, <3>1, <3>2, HeldChange DEF Balanced, RefOf, AccOf, RecvOf, AccHolds
  <2>3. ASSUME NEW r \in Slots, Visits(r) PROVE Balanced(s)'
    <3>1. /\ at' = [at EXCEPT ![Main] = r] /\ (s # r => sess'[s].ref = sess[s].ref)
          /\ \/ pc' = [pc EXCEPT ![Main] = "flag"] /\ sess'[r].ref = sess[r].ref + 1
             \/ pc' = [pc EXCEPT ![Main] = "round"] /\ sess'[r].ref = sess[r].ref
      BY <2>3 DEF Visits, Same
    <3>2. \A u \in Threads : u # Main => pc'[u] = pc[u] /\ at'[u] = at[u]
      BY <1>a, <3>1
    <3>3. /\ ~Holds(Main, s)
          /\ Holds(Main, s)' <=> s = r /\ pc'[Main] = "flag"
      BY <1>a, <2>1, <3>1 DEF Holds, Holding, Receiving
    <3> QED
      BY <1>a, <1>b, <1>c, <2>1, <3>1, <3>2, <3>3, HeldChange DEF Balanced, RefOf, AccOf, RecvOf, AccHolds
  <2> QED
    BY <2>1, <2>2, <2>3
<1>30. ASSUME StopJoin PROVE RefCounted'
  <2> SUFFICES ASSUME NEW s \in Slots PROVE Balanced(s)'
    BY DEF RefCounted
  <2>1. /\ pc[Main] = "join" /\ pc' = [pc EXCEPT ![Main] = "done"] /\ at' = at
        /\ recv' = recv /\ acc' = acc /\ sess'[s].ref = sess[s].ref
    BY <1>30, <1>a DEF StopJoin, Same
  <2>2. Main \in Threads /\ \A u \in Threads : u # Main => pc'[u] = pc[u] /\ at'[u] = at[u]
    BY <1>a, <2>1
  <2>3. Holds(Main, s)' <=> Holds(Main, s)
    BY <1>a, <2>1 DEF Holds, Holding, Receiving
  <2> QED
    BY <1>a, <1>b, <1>c, <2>1, <2>2, <2>3, HeldChange DEF Balanced, RefOf, AccOf, RecvOf, AccHolds
<1>u. CASE UNCHANGED vars
  BY <1>u, <1>a, <1>b, <1>c, <1>d DEF RefCounted, Balanced, RefOf, AccOf, RecvOf, AccHolds
<1> QED
  BY <1>1, <1>2, <1>3, <1>4, <1>5, <1>5c, <1>5o, <1>6, <1>7, <1>8, <1>9, <1>10, <1>11, <1>12,
     <1>13, <1>14, <1>15, <1>16, <1>17, <1>18, <1>19, <1>20, <1>21, <1>22, <1>23, <1>24, <1>25, <1>26, <1>27,
     <1>28, <1>29, <1>30, <1>u
  DEF Next, AcceptStep, Serve, WorkerStep, CallerStep, StopStep, Threads, Callers

-----------------------------------------------------------------------------
(* The release *)

\* Who takes a reference takes it to a session that is not released.
LEMMA NoneStep ==
  ASSUME NoScan, IInv, [Next]_vars
  PROVE  NoneHolds'
<1>a. /\ allocID \in Nat /\ acc \in [pc : AccPCs, slot : Slots] /\ acc.slot \in Slots
      /\ pc \in [Threads -> PCs] /\ at \in [Threads -> Slots \cup {None}]
      /\ DOMAIN recv = Slots /\ relMsgs \in [Slots -> Nat] /\ sess \in [Slots -> Sess]
      /\ \A s \in Slots : sess[s].ref \in Nat /\ sess[s].rel \in {0, 1}
      /\ \A t \in Threads : pc[t] \in Holding \cup Releasing \cup {"round"} => at[t] \in Slots
      /\ Main \in Threads /\ Workers \subseteq Threads /\ Closers \subseteq Threads
      /\ Callers \subseteq Threads /\ Main \notin Workers /\ Closers \cap Workers = {}
  BY TypeFacts, ThreadsApart, Bounds DEF IInv, TypeOK, Threads, Callers, TableType
<1>b. NoneHolds /\ open \subseteq 1..MaxConn
  BY DEF IInv, TypeOK
<1>1. ASSUME Accept PROVE NoneHolds'
  BY <1>1, <1>a, <1>b DEF Accept, NoneHolds, Live, Counted, Same, SameConn
<1>2. ASSUME CountIn PROVE NoneHolds'
  BY <1>2, <1>a, <1>b DEF CountIn, NoneHolds, Live, Counted, Same, SameConn
<1>3. ASSUME Refuse PROVE NoneHolds'
  BY <1>3, <1>a, <1>b DEF Refuse, NoneHolds, Live, Counted, Same, SameConn
<1>4. ASSUME Pop PROVE NoneHolds'
  BY <1>4, <1>a, <1>b DEF Pop, NoneHolds, Live, Counted, Same, SameConn
<1>5. ASSUME InitName PROVE NoneHolds'
  <2>1. Free(acc.slot)
    BY <1>5, <1>a, InitNameMoves DEF IInv, FreeSlots, Fresh
  <2> QED
    BY <1>5, <1>a, <1>b, <2>1, InitNameMoves DEF NoneHolds, Live, Counted, Same, SameConn, Free
<1>5c. ASSUME InitCount PROVE NoneHolds'
  <2>1. Free(acc.slot)
    BY <1>5c, <1>a, InitCountMoves DEF IInv, FreeSlots, Fresh
  <2> QED
    BY <1>5c, <1>a, <1>b, <2>1, InitCountMoves DEF NoneHolds, Live, Counted, Same, SameConn, Free
<1>5o. ASSUME InitOpen PROVE NoneHolds'
  <2>1. sess'[acc.slot].conn # 0
    BY <1>5o, <1>a, <1>b, InitOpenMoves DEF NoneHolds
  <2> QED
    BY <1>5o, <1>a, <1>b, <2>1, InitOpenMoves DEF NoneHolds, Live, Counted, Same, SameConn
<1>6. ASSUME Register PROVE NoneHolds'
  BY <1>6, <1>a, <1>b DEF Register, NoneHolds, Live, Counted, Same, SameConn
<1>7. ASSUME Join PROVE NoneHolds'
  BY <1>7, <1>a, <1>b DEF Join, NoneHolds, Live, Counted, Same, SameConn
<1>8. ASSUME FirstRecv PROVE NoneHolds'
  BY <1>8, <1>a, <1>b, AccCounts, FirstRecvMoves DEF NoneHolds, Live, Counted, Same, SameConn, AccHolds
<1>9. ASSUME AcceptGive PROVE NoneHolds'
  BY <1>9, <1>a, <1>b, AcceptGiveMoves DEF NoneHolds, Live, Counted, Same, SameConn
<1>10. ASSUME AcceptEnd PROVE NoneHolds'
  BY <1>10, <1>a, <1>b DEF AcceptEnd, NoneHolds, Live, Counted, Same, SameConn
<1>11. ASSUME NEW s \in Slots, PeerSends(s) PROVE NoneHolds'
  BY <1>11, <1>a, <1>b DEF PeerSends, NoneHolds, Live, Counted, Same, SameConn
<1>12. ASSUME NEW s \in Slots, PeerCloses(s) PROVE NoneHolds'
  BY <1>12, <1>a, <1>b DEF PeerCloses, NoneHolds, Live, Counted, Same, SameConn
<1>13. ASSUME NEW s \in Slots, RecvEnds(s) PROVE NoneHolds'
  BY <1>13, <1>a, <1>b DEF RecvEnds, NoneHolds, Live, Counted, Same, SameConn
<1>14. ASSUME NEW w \in Workers, NEW s \in Slots, RecvTake(w, s) PROVE NoneHolds'
  BY <1>14, <1>a, <1>b, RecvTakeMoves DEF NoneHolds, Live, Counted, Same, SameConn
<1>15. ASSUME NEW w \in Workers, NEW s \in Slots, ReleaseTake(w, s) PROVE NoneHolds'
  BY <1>15, <1>a, <1>b, ReleaseTakeMoves DEF NoneHolds, Live, Counted, Same, SameConn
<1>16. ASSUME NEW w \in Workers, RecvStart(w) PROVE NoneHolds'
  BY <1>16, <1>a, <1>b DEF RecvStart, NoneHolds, Live, Counted, Same, SameConn
<1>17. ASSUME NEW w \in Workers, RecvHandled(w) PROVE NoneHolds'
  BY <1>17, <1>a, <1>b, RecvHandledMoves DEF NoneHolds, Live, Counted, Same, SameConn
<1>18. ASSUME NEW w \in Workers, RecvCheck(w) PROVE NoneHolds'
  BY <1>18, <1>a, <1>b DEF RecvCheck, NoneHolds, Live, Counted, Same, SameConn
<1>19. ASSUME NEW w \in Workers, RecvNext(w) PROVE NoneHolds'
  BY <1>19, <1>a, <1>b, HolderCounts, RecvNextMoves
  DEF NoneHolds, Live, Counted, Same, SameConn, Holding, Receiving
<1>20. ASSUME NEW w \in Workers, Leave(w) PROVE NoneHolds'
  BY <1>20, <1>a, <1>b, LeaveMoves DEF NoneHolds, Live, Counted, Same, SameConn
<1>21. ASSUME NEW w \in Workers, Push(w) PROVE NoneHolds'
  BY <1>21, <1>a, <1>b, PushMoves DEF NoneHolds, Live, Counted, Same, SameConn
<1>22. ASSUME NEW w \in Workers, Count(w) PROVE NoneHolds'
  BY <1>22, <1>a, <1>b, CountMoves DEF NoneHolds, Live, Counted, Same, SameConn
<1>23. ASSUME NEW t \in Threads, Give(t) PROVE NoneHolds'
  <2>1. /\ at[t] \in Slots /\ Live(at[t]) /\ sess[at[t]].ref \in Nat
        /\ sess'[at[t]].ref = sess[at[t]].ref - 1 /\ sess'[at[t]].conn = sess[at[t]].conn
        /\ sess[at[t]].ref # 1 => sess'[at[t]].rel = 0
        /\ \A r \in Slots : r # at[t] => Same(r)
        /\ acc' = acc
    BY <1>23, <1>a, GiveMoves
  <2>2. ASSUME NEW s \in Slots, ~Live(s)' PROVE sess'[s].ref = IF Counted(s)' THEN 1 ELSE 0
    <3>1. CASE s = at[t]
      <4>1. sess[s].ref = 1 /\ ~Counted(s)'
        BY <2>1, <2>2, <3>1 DEF Live, Counted
      <4> QED
        BY <2>1, <3>1, <4>1
    <3>2. CASE s # at[t]
      BY <1>b, <2>1, <2>2, <3>2 DEF NoneHolds, Live, Counted, Same, SameConn
    <3> QED
      BY <3>1, <3>2
  <2>3. acc'.pc \in {"named", "counted"} => sess'[acc'.slot].conn # 0
    BY <1>a, <1>b, <2>1 DEF NoneHolds, Same, SameConn
  <2> QED
    BY <2>2, <2>3 DEF NoneHolds
<1>24. ASSUME NEW c \in Closers, CallDisconnect(c) PROVE NoneHolds'
  <2>1. PICK s \in Slots :
        /\ \A r \in Slots : SameConn(r) /\ (r # s => Same(r))
        /\ sess[s].conn \in open /\ sess[s].rel = 0
        /\ acc' = acc
    BY <1>24, CallMoves
  <2>2. ~Fresh(s) /\ sess[s].conn # 0
    BY <2>1 DEF IInv, FreeSlots, Free, TypeOK
  <2>3. Live(s)'
    BY <2>1, <2>2 DEF Live, Fresh, SameConn
  <2>4. \A r \in Slots : r # s => (Live(r)' <=> Live(r)) /\ (Counted(r)' <=> Counted(r))
    BY <2>1 DEF Live, Counted, SameConn
  <2>5. acc'.pc \in {"named", "counted"} => sess'[acc'.slot].conn # 0
    BY <1>a, <1>b, <2>1 DEF NoneHolds, SameConn
  <2> QED
    BY <1>b, <2>1, <2>3, <2>4, <2>5 DEF NoneHolds, Same
<1>25. ASSUME NEW t \in Callers, FirstFlag(t) PROVE NoneHolds'
  BY <1>25, <1>a, <1>b, FirstFlagMoves DEF NoneHolds, Live, Counted, Same, SameConn
<1>26. ASSUME NEW t \in Callers, Cancel(t) PROVE NoneHolds'
  BY <1>26, <1>a, <1>b DEF Cancel, NoneHolds, Live, Counted, Same, SameConn
<1>27. ASSUME StopBegin PROVE NoneHolds'
  BY <1>27, <1>a, <1>b DEF StopBegin, NoneHolds, Live, Counted, Same, SameConn
<1>28. ASSUME StopLook PROVE NoneHolds'
  BY <1>28, <1>a, <1>b, StopLookMoves DEF Visits, NoneHolds, Live, Counted, Same, SameConn
<1>29. ASSUME StopNext PROVE NoneHolds'
  BY <1>29, <1>a, <1>b, StopNextMoves DEF Visits, NoneHolds, Live, Counted, Same, SameConn
<1>30. ASSUME StopJoin PROVE NoneHolds'
  BY <1>30, <1>a, <1>b DEF StopJoin, NoneHolds, Live, Counted, Same, SameConn
<1>u. CASE UNCHANGED vars
  BY <1>u, <1>a, <1>b DEF NoneHolds, Live, Counted, Same, SameConn
<1> QED
  BY <1>1, <1>2, <1>3, <1>4, <1>5, <1>5c, <1>5o, <1>6, <1>7, <1>8, <1>9, <1>10, <1>11, <1>12,
     <1>13, <1>14, <1>15, <1>16, <1>17, <1>18, <1>19, <1>20, <1>21, <1>22, <1>23, <1>24, <1>25, <1>26, <1>27,
     <1>28, <1>29, <1>30, <1>u
  DEF Next, AcceptStep, Serve, WorkerStep, CallerStep, StopStep, Threads, Callers

\* The release of a session is started once and handled by one worker.
LEMMA ReleaseStep ==
  ASSUME NoScan, IInv, [Next]_vars
  PROVE  OneRelease'
<1>a. /\ allocID \in Nat /\ acc \in [pc : AccPCs, slot : Slots] /\ acc.slot \in Slots
      /\ pc \in [Threads -> PCs] /\ at \in [Threads -> Slots \cup {None}]
      /\ DOMAIN recv = Slots /\ relMsgs \in [Slots -> Nat] /\ sess \in [Slots -> Sess]
      /\ \A s \in Slots : sess[s].ref \in Nat /\ sess[s].rel \in {0, 1}
      /\ \A t \in Threads : pc[t] \in Holding \cup Releasing \cup {"round"} => at[t] \in Slots
      /\ Main \in Threads /\ Workers \subseteq Threads /\ Closers \subseteq Threads
      /\ Callers \subseteq Threads /\ Main \notin Workers /\ Closers \cap Workers = {}
  BY TypeFacts, ThreadsApart, Bounds DEF IInv, TypeOK, Threads, Callers, TableType
<1>b. OneRelease /\ Roles /\ FreeSlots
  BY DEF IInv
<1>1. ASSUME Accept PROVE OneRelease'
  BY <1>1, <1>a, <1>b DEF Accept, OneRelease, Same, SameConn, Releasing
<1>2. ASSUME CountIn PROVE OneRelease'
  BY <1>2, <1>a, <1>b DEF CountIn, OneRelease, Same, SameConn, Releasing
<1>3. ASSUME Refuse PROVE OneRelease'
  BY <1>3, <1>a, <1>b DEF Refuse, OneRelease, Same, SameConn, Releasing
<1>4. ASSUME Pop PROVE OneRelease'
  BY <1>4, <1>a, <1>b DEF Pop, OneRelease, Same, SameConn, Releasing
<1>5. ASSUME InitName PROVE OneRelease'
  <2>1. /\ \A r \in Slots : r # acc.slot => SameConn(r)
        /\ acc.pc = "init" /\ relMsgs' = relMsgs /\ open' = open /\ pc' = pc /\ at' = at
    BY <1>5, InitNameMoves DEF Same
  <2>2. Free(acc.slot)
    BY <1>a, <1>b, <2>1 DEF FreeSlots, Fresh
  <2>3. relMsgs[acc.slot] = 0 /\ \A w \in Workers : pc[w] \in Releasing => at[w] # acc.slot
    BY <2>2 DEF Free
  <2> QED
    BY <1>a, <1>b, <2>1, <2>3 DEF OneRelease, SameConn, Releasing
<1>5c. ASSUME InitCount PROVE OneRelease'
  BY <1>5c, <1>a, <1>b, InitCountMoves DEF OneRelease, Same, SameConn, Releasing
<1>5o. ASSUME InitOpen PROVE OneRelease'
  <2>1. /\ \A r \in Slots : r # acc.slot => SameConn(r)
        /\ acc.pc = "counted" /\ relMsgs' = relMsgs /\ open' = open /\ pc' = pc /\ at' = at
    BY <1>5o, InitOpenMoves DEF Same
  <2>2. Free(acc.slot)
    BY <1>a, <1>b, <2>1 DEF FreeSlots, Fresh
  <2>3. relMsgs[acc.slot] = 0 /\ \A w \in Workers : pc[w] \in Releasing => at[w] # acc.slot
    BY <2>2 DEF Free
  <2> QED
    BY <1>a, <1>b, <2>1, <2>3 DEF OneRelease, SameConn, Releasing
<1>6. ASSUME Register PROVE OneRelease'
  BY <1>6, <1>a, <1>b DEF Register, OneRelease, Same, SameConn, Releasing
<1>7. ASSUME Join PROVE OneRelease'
  <2>1. /\ acc.pc = "join" /\ open' = open \cup {sess[acc.slot].conn}
        /\ UNCHANGED <<table, pc, at>>
    BY <1>7 DEF Join
  <2>2. Live(acc.slot)
    BY <2>1, AccCounts DEF AccHolds
  <2>3. ASSUME NEW w \in Workers, pc[w] = "push"
        PROVE  at[w] \in Slots /\ sess[at[w]].conn \notin open'
    <3>1. at[w] \in Slots /\ sess[at[w]].rel = 1 /\ sess[at[w]].conn \notin open
      BY <1>a, <1>b, <2>3 DEF OneRelease, Releasing
    <3>2. at[w] # acc.slot /\ sess[acc.slot].conn # 0
      BY <2>2, <3>1 DEF Live
    <3>3. sess[at[w]].conn # sess[acc.slot].conn
      BY <1>a, <3>1, <3>2 DEF IInv, ConnHasSlot
    <3> QED
      BY <2>1, <3>1, <3>3
  <2> QED
    BY <1>a, <1>b, <2>1, <2>3 DEF OneRelease, Releasing
<1>8. ASSUME FirstRecv PROVE OneRelease'
  BY <1>8, <1>a, <1>b, FirstRecvMoves DEF OneRelease, Same, SameConn, Releasing
<1>9. ASSUME AcceptGive PROVE OneRelease'
  <2>1. /\ acc.slot \in Slots /\ Live(acc.slot) /\ sess'[acc.slot].conn = sess[acc.slot].conn
        /\ \A r \in Slots : r # acc.slot => SameConn(r) /\ relMsgs'[r] = relMsgs[r]
        /\ \/ sess'[acc.slot].rel = 1 /\ relMsgs'[acc.slot] = relMsgs[acc.slot] + 1
           \/ sess'[acc.slot].rel = 0 /\ relMsgs'[acc.slot] = relMsgs[acc.slot]
        /\ open' = open
    BY <1>9, <1>a, AcceptGiveMoves DEF Same
  <2>2. \A w \in Workers : /\ pc'[w] \in Releasing => pc'[w] = pc[w] /\ at'[w] = at[w]
    BY <1>9, <1>a, <1>b, AcceptGiveMoves DEF Roles, Releasing, Home
  <2>3. relMsgs[acc.slot] = 0 /\ \A w \in Workers : pc[w] \in Releasing => at[w] # acc.slot
    BY <1>a, <1>b, <2>1 DEF OneRelease, Live
  <2>4. \A r \in Slots : relMsgs'[r] # 0 =>
            relMsgs'[r] = 1 /\ sess'[r].rel = 1 /\ \A w \in Workers : pc[w] \in Releasing => at[w] # r
    BY <1>a, <1>b, <2>1, <2>3 DEF OneRelease, SameConn
  <2>5. \A w \in Workers : pc[w] \in Releasing =>
            /\ at[w] \in Slots /\ at[w] # acc.slot
            /\ sess'[at[w]].rel = 1 /\ sess'[at[w]].conn = sess[at[w]].conn
    BY <1>a, <1>b, <2>1, <2>3 DEF OneRelease, SameConn
  <2> QED
    BY <1>a, <1>b, <2>1, <2>2, <2>4, <2>5 DEF OneRelease, Releasing
<1>10. ASSUME AcceptEnd PROVE OneRelease'
  BY <1>10, <1>a, <1>b DEF AcceptEnd, OneRelease, Same, SameConn, Releasing
<1>11. ASSUME NEW s \in Slots, PeerSends(s) PROVE OneRelease'
  BY <1>11, <1>a, <1>b DEF PeerSends, OneRelease, Same, SameConn, Releasing
<1>12. ASSUME NEW s \in Slots, PeerCloses(s) PROVE OneRelease'
  BY <1>12, <1>a, <1>b DEF PeerCloses, OneRelease, Same, SameConn, Releasing
<1>13. ASSUME NEW s \in Slots, RecvEnds(s) PROVE OneRelease'
  BY <1>13, <1>a, <1>b DEF RecvEnds, OneRelease, Same, SameConn, Releasing
<1>14. ASSUME NEW w \in Workers, NEW s \in Slots, RecvTake(w, s) PROVE OneRelease'
  <2>1. /\ \A r \in Slots : SameConn(r)
        /\ pc[w] = "idle" /\ pc' = [pc EXCEPT ![w] = "recv"] /\ at' = [at EXCEPT ![w] = s]
        /\ UNCHANGED <<relMsgs, open>>
    BY <1>14, RecvTakeMoves DEF Same
  <2>2. \A v \in Workers : pc'[v] \in Releasing
                             => pc[v] \in Releasing /\ at'[v] = at[v] /\ pc'[v] = pc[v]
    BY <1>a, <2>1 DEF Releasing
  <2>3. \A v \in Workers : pc'[v] \in Releasing => at[v] \in Slots
    BY <1>a, <2>2 DEF Releasing
  <2> QED
    BY <1>b, <2>1, <2>2, <2>3 DEF OneRelease, SameConn, Releasing
<1>15. ASSUME NEW w \in Workers, NEW s \in Slots, ReleaseTake(w, s) PROVE OneRelease'
  BY <1>15, <1>a, <1>b, ReleaseTakeMoves DEF OneRelease, Same, SameConn, Releasing
<1>16. ASSUME NEW w \in Workers, RecvStart(w) PROVE OneRelease'
  BY <1>16, <1>a, <1>b DEF RecvStart, OneRelease, Same, SameConn, Releasing
<1>17. ASSUME NEW w \in Workers, RecvHandled(w) PROVE OneRelease'
  BY <1>17, <1>a, <1>b, RecvHandledMoves DEF OneRelease, Same, SameConn, Releasing
<1>18. ASSUME NEW w \in Workers, RecvCheck(w) PROVE OneRelease'
  BY <1>18, <1>a, <1>b DEF RecvCheck, OneRelease, Same, SameConn, Releasing
<1>19. ASSUME NEW w \in Workers, RecvNext(w) PROVE OneRelease'
  BY <1>19, <1>a, <1>b, RecvNextMoves DEF OneRelease, Same, SameConn, Releasing
<1>20. ASSUME NEW w \in Workers, Leave(w) PROVE OneRelease'
  BY <1>20, <1>a, <1>b, LeaveMoves DEF OneRelease, Same, SameConn, Releasing
<1>21. ASSUME NEW w \in Workers, Push(w) PROVE OneRelease'
  <2>1. /\ \A v \in Workers : pc'[v] \in Releasing => pc'[v] = pc[v]
        /\ at' = at /\ UNCHANGED <<sess, relMsgs, open>>
        /\ \A v \in Workers : pc'[v] \in Releasing => pc[v] \in Releasing
    BY <1>21, <1>a, PushMoves DEF Releasing
  <2> QED
    BY <1>a, <1>b, <2>1 DEF OneRelease, Releasing
<1>22. ASSUME NEW w \in Workers, Count(w) PROVE OneRelease'
  BY <1>22, <1>a, <1>b, CountMoves DEF OneRelease, Same, SameConn, Releasing
<1>23. ASSUME NEW t \in Threads, Give(t) PROVE OneRelease'
  <2>1. /\ at[t] \in Slots /\ Live(at[t]) /\ sess'[at[t]].conn = sess[at[t]].conn
        /\ \A r \in Slots : r # at[t] => SameConn(r) /\ relMsgs'[r] = relMsgs[r]
        /\ \/ sess'[at[t]].rel = 1 /\ relMsgs'[at[t]] = relMsgs[at[t]] + 1
           \/ sess'[at[t]].rel = 0 /\ relMsgs'[at[t]] = relMsgs[at[t]]
        /\ open' = open
    BY <1>23, <1>a, GiveMoves DEF Same
  <2>2. \A w \in Workers : /\ pc'[w] \in Releasing => pc'[w] = pc[w] /\ at'[w] = at[w]
    BY <1>23, <1>a, <1>b, GiveMoves DEF Roles, Releasing, Home
  <2>3. relMsgs[at[t]] = 0 /\ \A w \in Workers : pc[w] \in Releasing => at[w] # at[t]
    BY <1>a, <1>b, <2>1 DEF OneRelease, Live
  <2>4. \A r \in Slots : relMsgs'[r] # 0 =>
            relMsgs'[r] = 1 /\ sess'[r].rel = 1 /\ \A w \in Workers : pc[w] \in Releasing => at[w] # r
    BY <1>a, <1>b, <2>1, <2>3 DEF OneRelease, SameConn
  <2>5. \A w \in Workers : pc[w] \in Releasing =>
            /\ at[w] \in Slots /\ at[w] # at[t]
            /\ sess'[at[w]].rel = 1 /\ sess'[at[w]].conn = sess[at[w]].conn
    BY <1>a, <1>b, <2>1, <2>3 DEF OneRelease, SameConn
  <2> QED
    BY <1>a, <1>b, <2>1, <2>2, <2>4, <2>5 DEF OneRelease, Releasing
<1>24. ASSUME NEW c \in Closers, CallDisconnect(c) PROVE OneRelease'
  BY <1>24, <1>a, <1>b, CallMoves DEF OneRelease, Same, SameConn, Releasing
<1>25. ASSUME NEW t \in Callers, FirstFlag(t) PROVE OneRelease'
  BY <1>25, <1>a, <1>b, FirstFlagMoves DEF OneRelease, Same, SameConn, Releasing
<1>26. ASSUME NEW t \in Callers, Cancel(t) PROVE OneRelease'
  BY <1>26, <1>a, <1>b DEF Cancel, OneRelease, Same, SameConn, Releasing
<1>27. ASSUME StopBegin PROVE OneRelease'
  BY <1>27, <1>a, <1>b DEF StopBegin, OneRelease, Same, SameConn, Releasing
<1>28. ASSUME StopLook PROVE OneRelease'
  BY <1>28, <1>a, <1>b, StopLookMoves DEF Visits, OneRelease, Same, SameConn, Releasing
<1>29. ASSUME StopNext PROVE OneRelease'
  BY <1>29, <1>a, <1>b, StopNextMoves DEF Visits, OneRelease, Same, SameConn, Releasing
<1>30. ASSUME StopJoin PROVE OneRelease'
  BY <1>30, <1>a, <1>b DEF StopJoin, OneRelease, Same, SameConn, Releasing
<1>u. CASE UNCHANGED vars
  BY <1>u, <1>a, <1>b DEF OneRelease, Same, SameConn
<1> QED
  BY <1>1, <1>2, <1>3, <1>4, <1>5, <1>5c, <1>5o, <1>6, <1>7, <1>8, <1>9, <1>10, <1>11, <1>12,
     <1>13, <1>14, <1>15, <1>16, <1>17, <1>18, <1>19, <1>20, <1>21, <1>22, <1>23, <1>24, <1>25, <1>26, <1>27,
     <1>28, <1>29, <1>30, <1>u
  DEF Next, AcceptStep, Serve, WorkerStep, CallerStep, StopStep, Threads, Callers

-----------------------------------------------------------------------------
(* The stack of free indices *)

\* Pop takes one index off the stack.
LEMMA PopTakes ==
  ASSUME NEW q \in Seq(Slots), q # <<>>, Once(q)
  PROVE  /\ Head(q) \in Slots /\ In(q, Head(q)) /\ Once(Tail(q))
         /\ \A s : In(Tail(q), s) <=> In(q, s) /\ s # Head(q)
<1>1. Len(q) \in Nat \ {0} /\ Head(q) = q[1] /\ Head(q) \in Slots
  BY EmptySeq, HeadTailProperties
<1>2. /\ Len(Tail(q)) = Len(q) - 1
      /\ \A i \in 1..(Len(q) - 1) : Tail(q)[i] = q[i + 1]
  BY HeadTailProperties
<1>3. In(q, Head(q))
  BY <1>1 DEF In
<1>4. Once(Tail(q))
  BY <1>1, <1>2 DEF Once
<1>5. ASSUME NEW s, In(Tail(q), s) PROVE In(q, s) /\ s # Head(q)
  BY <1>1, <1>2, <1>5 DEF In, Once
<1>6. ASSUME NEW s, In(q, s), s # Head(q) PROVE In(Tail(q), s)
  <2>1. PICK i \in 1..Len(q) : q[i] = s
    BY <1>6 DEF In
  <2>2. i - 1 \in 1..(Len(q) - 1) /\ (i - 1) + 1 = i
    BY <1>1, <1>6, <2>1
  <2> QED
    BY <1>2, <2>1, <2>2 DEF In
<1> QED
  BY <1>1, <1>3, <1>4, <1>5, <1>6

\* Push puts one index on it.
LEMMA PushPuts ==
  ASSUME NEW q \in Seq(Slots), NEW s \in Slots, Once(q)
  PROVE  /\ \A r : In(<<s>> \o q, r) <=> In(q, r) \/ r = s
         /\ ~In(q, s) => Once(<<s>> \o q)
<1>1. Len(q) \in Nat /\ <<s>> \in Seq(Slots) /\ Len(<<s>>) = 1 /\ <<s>>[1] = s
  BY LenProperties
<1>2. /\ Len(<<s>> \o q) = Len(q) + 1 /\ (<<s>> \o q)[1] = s
      /\ \A i \in 2..(Len(q) + 1) : (<<s>> \o q)[i] = q[i - 1]
  BY <1>1, ConcatProperties
<1>3. ASSUME NEW r, In(<<s>> \o q, r) PROVE In(q, r) \/ r = s
  <2>1. PICK i \in 1..(Len(q) + 1) : (<<s>> \o q)[i] = r
    BY <1>2, <1>3 DEF In
  <2>2. CASE i = 1
    BY <1>2, <2>1, <2>2
  <2>3. CASE i # 1
    <3>1. i \in 2..(Len(q) + 1) /\ i - 1 \in 1..Len(q)
      BY <1>1, <2>3
    <3> QED
      BY <1>2, <2>1, <3>1 DEF In
  <2> QED
    BY <2>2, <2>3
<1>4. In(<<s>> \o q, s)
  BY <1>1, <1>2 DEF In
<1>5. ASSUME NEW r, In(q, r) PROVE In(<<s>> \o q, r)
  <2>1. PICK i \in 1..Len(q) : q[i] = r
    BY <1>5 DEF In
  <2>2. i + 1 \in 2..(Len(q) + 1) /\ i + 1 \in 1..Len(<<s>> \o q) /\ (i + 1) - 1 = i
    BY <1>1, <1>2
  <2>3. (<<s>> \o q)[i + 1] = r
    BY <1>2, <2>1, <2>2
  <2> QED
    BY <2>2, <2>3 DEF In
<1>6. ASSUME ~In(q, s) PROVE Once(<<s>> \o q)
  <2>1. \A i \in 2..(Len(q) + 1) : i - 1 \in 1..Len(q) /\ (<<s>> \o q)[i] = q[i - 1]
    BY <1>1, <1>2
  <2>2. \A i \in 2..(Len(q) + 1) : (<<s>> \o q)[i] # s
    BY <1>6, <2>1 DEF In
  <2>3. SUFFICES ASSUME NEW i \in 1..(Len(q) + 1), NEW j \in 1..(Len(q) + 1), (<<s>> \o q)[i] = (<<s>> \o q)[j]
                 PROVE  i = j
    BY <1>2 DEF Once
  <2>4. CASE i = 1 \/ j = 1
    BY <1>1, <1>2, <2>2, <2>3, <2>4
  <2>5. CASE i # 1 /\ j # 1
    <3>1. i \in 2..(Len(q) + 1) /\ j \in 2..(Len(q) + 1)
      BY <1>1, <2>5
    <3>2. i - 1 = j - 1
      BY <2>1, <2>3, <3>1 DEF Once
    <3> QED
      BY <1>1, <3>2
  <2> QED
    BY <2>4, <2>5
<1> QED
  BY <1>3, <1>4, <1>5, <1>6

\* When m_CurSessionCnt let a connection in, an index is free.
LEMMA PopFinds ==
  ASSUME IInv, acc.pc = "pop"
  PROVE  stack # <<>>
<1> SUFFICES ASSUME stack = <<>> PROVE FALSE
  OBVIOUS
<1>1. Out = Slots
  BY DEF Out, InStack, In
<1>2. MaxSession \in Nat /\ curCnt = MaxSession + Cardinality(Late) + 1
  BY <1>1, CountParts, Bounds DEF IInv, CountTrue, InCount
<1>3. curCnt <= MaxSession
  BY DEF IInv, CountTrue
<1> QED
  BY <1>2, <1>3, CountParts

\* An index goes back when nothing is left of its session, and comes out once.
LEMMA FreeStep ==
  ASSUME NoScan, IInv, [Next]_vars
  PROVE  FreeSlots'
<1>a. /\ allocID \in Nat /\ stack \in Seq(Slots) /\ acc \in [pc : AccPCs, slot : Slots] /\ acc.slot \in Slots
      /\ pc \in [Threads -> PCs] /\ at \in [Threads -> Slots \cup {None}]
      /\ DOMAIN recv = Slots /\ relMsgs \in [Slots -> Nat] /\ sess \in [Slots -> Sess]
      /\ \A s \in Slots : sess[s].ref \in Nat /\ sess[s].rel \in {0, 1}
      /\ \A t \in Threads : pc[t] \in Holding \cup Releasing \cup {"round"} => at[t] \in Slots
      /\ Main \in Threads /\ Workers \subseteq Threads /\ Closers \subseteq Threads
      /\ Callers \subseteq Threads /\ Main \notin Workers /\ Closers \cap Workers = {}
  BY TypeFacts, ThreadsApart, Bounds DEF IInv, TypeOK, Threads, Callers, TableType
<1>b. FreeSlots
  BY DEF IInv
<1>1. ASSUME Accept PROVE FreeSlots'
  <2>1. \A r \in Slots : Free(r) => Free(r)'
    BY <1>1, <1>a, <1>b DEF Accept, Free, Live, SameConn, Same, Releasing
  <2>2. stack' = stack /\ \A r \in Slots : Fresh(r)' <=> Fresh(r)
    BY <1>1, <1>a DEF Accept, Fresh
  <2> QED
    BY <1>b, <2>1, <2>2 DEF FreeSlots, InStack
<1>2. ASSUME CountIn PROVE FreeSlots'
  <2>1. \A r \in Slots : Free(r) => Free(r)'
    BY <1>2, <1>a, <1>b DEF CountIn, Free, Live, SameConn, Same, Releasing
  <2>2. stack' = stack /\ \A r \in Slots : Fresh(r)' <=> Fresh(r)
    BY <1>2, <1>a DEF CountIn, Fresh
  <2> QED
    BY <1>b, <2>1, <2>2 DEF FreeSlots, InStack
<1>3. ASSUME Refuse PROVE FreeSlots'
  <2>1. \A r \in Slots : Free(r) => Free(r)'
    BY <1>3, <1>a, <1>b DEF Refuse, Free, Live, SameConn, Same, Releasing
  <2>2. stack' = stack /\ \A r \in Slots : Fresh(r)' <=> Fresh(r)
    BY <1>3, <1>a DEF Refuse, Fresh
  <2> QED
    BY <1>b, <2>1, <2>2 DEF FreeSlots, InStack
<1>4. ASSUME Pop PROVE FreeSlots'
  <2>1. /\ stack # <<>> /\ acc.pc = "pop"
        /\ stack' = Tail(stack) /\ acc' = [pc |-> "init", slot |-> Head(stack)]
        /\ UNCHANGED <<sess, relMsgs, open, pc, at>>
    BY <1>4, PopFinds DEF Pop
  <2>2. Once(stack)
    BY <1>b DEF FreeSlots
  <2>3. /\ Head(stack) \in Slots /\ InStack(Head(stack)) /\ Once(stack')
        /\ \A s : InStack(s)' <=> InStack(s) /\ s # Head(stack)
    <3>1. /\ Head(stack) \in Slots /\ In(stack, Head(stack)) /\ Once(Tail(stack))
          /\ \A s : In(Tail(stack), s) <=> In(stack, s) /\ s # Head(stack)
      BY <1>a, <2>1, <2>2, PopTakes
    <3> QED
      BY <2>1, <3>1 DEF InStack
  <2>4. \A s \in Slots : Free(s)' <=> Free(s)
    BY <2>1 DEF Free, Live
  <2>5. \A s \in Slots : Fresh(s)' <=> s = Head(stack)
    BY <2>1 DEF Fresh
  <2> QED
    BY <1>b, <2>3, <2>4, <2>5 DEF FreeSlots
<1>5. ASSUME InitName PROVE FreeSlots'
  <2>1. /\ acc.pc = "init" /\ acc'.pc = "named" /\ acc'.slot = acc.slot
        /\ \A r \in Slots : r # acc.slot => SameConn(r)
        /\ sess'[acc.slot].conn = allocID + 1
        /\ UNCHANGED <<relMsgs, stack, open, pc, at>>
    BY <1>5, <1>a, InitNameMoves DEF Same
  <2>2. Free(acc.slot)
    BY <1>a, <1>b, <2>1 DEF FreeSlots, Fresh
  <2>3. allocID + 1 \notin open
    <3>1. \A s \in Slots : sess[s].conn \in Nat /\ sess[s].conn # allocID + 1
      BY <1>a DEF IInv, ConnHasSlot, Sess
    <3> QED
      BY <3>1 DEF IInv, ConnHasSlot
  <2>4. Free(acc.slot)'
    BY <2>1, <2>2, <2>3 DEF Free, Live
  <2>5. \A s \in Slots : s # acc.slot /\ Free(s) => Free(s)'
    BY <2>1 DEF Free, Live, SameConn
  <2>6. \A s \in Slots : (Fresh(s)' <=> Fresh(s)) /\ (InStack(s)' <=> InStack(s))
    BY <2>1 DEF Fresh, InStack
  <2> QED
    BY <1>a, <1>b, <2>1, <2>4, <2>5, <2>6 DEF FreeSlots
<1>5c. ASSUME InitCount PROVE FreeSlots'
  <2>1. \A r \in Slots : Free(r) => Free(r)'
    BY <1>5c, <1>a, <1>b, InitCountMoves DEF Free, Live, SameConn, Same, Releasing
  <2>2. stack' = stack /\ \A r \in Slots : Fresh(r)' <=> Fresh(r)
    BY <1>5c, <1>a, InitCountMoves DEF Fresh
  <2> QED
    BY <1>b, <2>1, <2>2 DEF FreeSlots, InStack
<1>5o. ASSUME InitOpen PROVE FreeSlots'
  <2>1. /\ acc.pc = "counted" /\ acc'.pc = "iocp" /\ \A r \in Slots : r # acc.slot => SameConn(r)
        /\ UNCHANGED <<relMsgs, stack, open, pc, at>>
    BY <1>5o, <1>a, InitOpenMoves DEF Same
  <2>2. ~InStack(acc.slot)
    BY <1>a, <1>b, <2>1 DEF FreeSlots, Fresh
  <2>3. \A s \in Slots : s # acc.slot /\ Free(s) => Free(s)'
    BY <2>1 DEF Free, Live, SameConn
  <2>4. \A s \in Slots : ~Fresh(s)' /\ (InStack(s)' <=> InStack(s))
    BY <2>1 DEF Fresh, InStack
  <2> QED
    BY <1>a, <1>b, <2>1, <2>2, <2>3, <2>4 DEF FreeSlots
<1>6. ASSUME Register PROVE FreeSlots'
  <2>1. \A r \in Slots : Free(r) => Free(r)'
    BY <1>6, <1>a, <1>b DEF Register, Free, Live, SameConn, Same, Releasing
  <2>2. stack' = stack /\ \A r \in Slots : Fresh(r)' <=> Fresh(r)
    BY <1>6, <1>a DEF Register, Fresh
  <2> QED
    BY <1>b, <2>1, <2>2 DEF FreeSlots, InStack
<1>7. ASSUME Join PROVE FreeSlots'
  <2>1. \A r \in Slots : Free(r) => Free(r)'
    <3>1. /\ acc.pc = "join" /\ open' = open \cup {sess[acc.slot].conn}
          /\ UNCHANGED <<table, pc, at>>
      BY <1>7 DEF Join
    <3>2. Live(acc.slot)
      BY <3>1, AccCounts DEF AccHolds
    <3>3. ASSUME NEW s \in Slots, Free(s) PROVE sess[s].conn \notin open'
      <4>1. s # acc.slot /\ sess[acc.slot].conn # 0
        BY <3>2, <3>3 DEF Free, Live
      <4>2. sess[s].conn # sess[acc.slot].conn
        BY <1>a, <4>1 DEF IInv, ConnHasSlot
      <4> QED
        BY <3>1, <3>3, <4>2 DEF Free
    <3> QED
      BY <3>1, <3>3 DEF Free, Live
  <2>2. stack' = stack /\ \A r \in Slots : Fresh(r)' <=> Fresh(r)
    BY <1>7, <1>a DEF Join, Fresh
  <2> QED
    BY <1>b, <2>1, <2>2 DEF FreeSlots, InStack
<1>8. ASSUME FirstRecv PROVE FreeSlots'
  <2>1. \A r \in Slots : Free(r) => Free(r)'
    BY <1>8, <1>a, <1>b, FirstRecvMoves DEF Free, Live, SameConn, Same, Releasing
  <2>2. stack' = stack /\ \A r \in Slots : Fresh(r)' <=> Fresh(r)
    BY <1>8, <1>a, FirstRecvMoves DEF Fresh
  <2> QED
    BY <1>b, <2>1, <2>2 DEF FreeSlots, InStack
<1>9. ASSUME AcceptGive PROVE FreeSlots'
  <2>1. \A r \in Slots : Free(r) => Free(r)'
    <3>1. /\ Live(acc.slot) /\ \A r \in Slots : r # acc.slot => SameConn(r) /\ relMsgs'[r] = relMsgs[r]
          /\ open' = open
      BY <1>9, <1>a, AcceptGiveMoves DEF Same
    <3>2. \A w \in Workers : pc'[w] \in Releasing => pc[w] \in Releasing /\ at'[w] = at[w]
      BY <1>9, <1>a, <1>b, AcceptGiveMoves DEF Releasing, Home
    <3> QED
      BY <3>1, <3>2 DEF Free, Live, SameConn
  <2>2. stack' = stack /\ \A r \in Slots : Fresh(r)' <=> Fresh(r)
    BY <1>9, <1>a, AcceptGiveMoves DEF Fresh
  <2> QED
    BY <1>b, <2>1, <2>2 DEF FreeSlots, InStack
<1>10. ASSUME AcceptEnd PROVE FreeSlots'
  <2>1. \A r \in Slots : Free(r) => Free(r)'
    BY <1>10, <1>a, <1>b DEF AcceptEnd, Free, Live, SameConn, Same, Releasing
  <2>2. stack' = stack /\ \A r \in Slots : Fresh(r)' <=> Fresh(r)
    BY <1>10, <1>a DEF AcceptEnd, Fresh
  <2> QED
    BY <1>b, <2>1, <2>2 DEF FreeSlots, InStack
<1>11. ASSUME NEW s \in Slots, PeerSends(s) PROVE FreeSlots'
  <2>1. \A r \in Slots : Free(r) => Free(r)'
    BY <1>11, <1>a, <1>b DEF PeerSends, Free, Live, SameConn, Same, Releasing
  <2>2. stack' = stack /\ \A r \in Slots : Fresh(r)' <=> Fresh(r)
    BY <1>11, <1>a DEF PeerSends, Fresh
  <2> QED
    BY <1>b, <2>1, <2>2 DEF FreeSlots, InStack
<1>12. ASSUME NEW s \in Slots, PeerCloses(s) PROVE FreeSlots'
  <2>1. \A r \in Slots : Free(r) => Free(r)'
    BY <1>12, <1>a, <1>b DEF PeerCloses, Free, Live, SameConn, Same, Releasing
  <2>2. stack' = stack /\ \A r \in Slots : Fresh(r)' <=> Fresh(r)
    BY <1>12, <1>a DEF PeerCloses, Fresh
  <2> QED
    BY <1>b, <2>1, <2>2 DEF FreeSlots, InStack
<1>13. ASSUME NEW s \in Slots, RecvEnds(s) PROVE FreeSlots'
  <2>1. \A r \in Slots : Free(r) => Free(r)'
    BY <1>13, <1>a, <1>b DEF RecvEnds, Free, Live, SameConn, Same, Releasing
  <2>2. stack' = stack /\ \A r \in Slots : Fresh(r)' <=> Fresh(r)
    BY <1>13, <1>a DEF RecvEnds, Fresh
  <2> QED
    BY <1>b, <2>1, <2>2 DEF FreeSlots, InStack
<1>14. ASSUME NEW w \in Workers, NEW s \in Slots, RecvTake(w, s) PROVE FreeSlots'
  <2>1. \A r \in Slots : Free(r) => Free(r)'
    BY <1>14, <1>a, <1>b, RecvTakeMoves DEF Free, Live, SameConn, Same, Releasing
  <2>2. stack' = stack /\ \A r \in Slots : Fresh(r)' <=> Fresh(r)
    BY <1>14, <1>a, RecvTakeMoves DEF Fresh
  <2> QED
    BY <1>b, <2>1, <2>2 DEF FreeSlots, InStack
<1>15. ASSUME NEW w \in Workers, NEW s \in Slots, ReleaseTake(w, s) PROVE FreeSlots'
  <2>1. \A r \in Slots : Free(r) => Free(r)'
    BY <1>15, <1>a, <1>b, ReleaseTakeMoves DEF Free, Live, SameConn, Same, Releasing
  <2>2. stack' = stack /\ \A r \in Slots : Fresh(r)' <=> Fresh(r)
    BY <1>15, <1>a, ReleaseTakeMoves DEF Fresh
  <2> QED
    BY <1>b, <2>1, <2>2 DEF FreeSlots, InStack
<1>16. ASSUME NEW w \in Workers, RecvStart(w) PROVE FreeSlots'
  <2>1. \A r \in Slots : Free(r) => Free(r)'
    BY <1>16, <1>a, <1>b DEF RecvStart, Free, Live, SameConn, Same, Releasing
  <2>2. stack' = stack /\ \A r \in Slots : Fresh(r)' <=> Fresh(r)
    BY <1>16, <1>a DEF RecvStart, Fresh
  <2> QED
    BY <1>b, <2>1, <2>2 DEF FreeSlots, InStack
<1>17. ASSUME NEW w \in Workers, RecvHandled(w) PROVE FreeSlots'
  <2>1. \A r \in Slots : Free(r) => Free(r)'
    BY <1>17, <1>a, <1>b, RecvHandledMoves DEF Free, Live, SameConn, Same, Releasing
  <2>2. stack' = stack /\ \A r \in Slots : Fresh(r)' <=> Fresh(r)
    BY <1>17, <1>a, RecvHandledMoves DEF Fresh
  <2> QED
    BY <1>b, <2>1, <2>2 DEF FreeSlots, InStack
<1>18. ASSUME NEW w \in Workers, RecvCheck(w) PROVE FreeSlots'
  <2>1. \A r \in Slots : Free(r) => Free(r)'
    BY <1>18, <1>a, <1>b DEF RecvCheck, Free, Live, SameConn, Same, Releasing
  <2>2. stack' = stack /\ \A r \in Slots : Fresh(r)' <=> Fresh(r)
    BY <1>18, <1>a DEF RecvCheck, Fresh
  <2> QED
    BY <1>b, <2>1, <2>2 DEF FreeSlots, InStack
<1>19. ASSUME NEW w \in Workers, RecvNext(w) PROVE FreeSlots'
  <2>1. \A r \in Slots : Free(r) => Free(r)'
    BY <1>19, <1>a, <1>b, RecvNextMoves DEF Free, Live, SameConn, Same, Releasing
  <2>2. stack' = stack /\ \A r \in Slots : Fresh(r)' <=> Fresh(r)
    BY <1>19, <1>a, RecvNextMoves DEF Fresh
  <2> QED
    BY <1>b, <2>1, <2>2 DEF FreeSlots, InStack
<1>20. ASSUME NEW w \in Workers, Leave(w) PROVE FreeSlots'
  <2>1. \A r \in Slots : Free(r) => Free(r)'
    BY <1>20, <1>a, <1>b, LeaveMoves DEF Free, Live, SameConn, Same, Releasing
  <2>2. stack' = stack /\ \A r \in Slots : Fresh(r)' <=> Fresh(r)
    BY <1>20, <1>a, LeaveMoves DEF Fresh
  <2> QED
    BY <1>b, <2>1, <2>2 DEF FreeSlots, InStack
<1>21. ASSUME NEW w \in Workers, Push(w) PROVE FreeSlots'
  <2>1. /\ pc[w] = "push" /\ pc' = [pc EXCEPT ![w] = "count"] /\ at' = at
        /\ stack' = <<at[w]>> \o stack /\ UNCHANGED <<sess, relMsgs, open, acc>>
    BY <1>21, PushMoves
  <2>2. at[w] \in Slots /\ pc[w] \in Releasing
    BY <1>a, <2>1 DEF Releasing
  <2>3. ~Free(at[w]) /\ Once(stack)
    BY <1>b, <2>2 DEF Free, FreeSlots
  <2>4. ~InStack(at[w]) /\ ~Fresh(at[w])
    BY <1>b, <2>2, <2>3 DEF FreeSlots
  <2>5. Once(stack') /\ \A r : InStack(r)' <=> InStack(r) \/ r = at[w]
    <3>1. /\ ~In(stack, at[w])
          /\ \A r : In(<<at[w]>> \o stack, r) <=> In(stack, r) \/ r = at[w]
      BY <1>a, <2>2, <2>3, <2>4, PushPuts DEF InStack
    <3>2. Once(<<at[w]>> \o stack)
      BY <1>a, <2>2, <2>3, <3>1, PushPuts
    <3> QED
      BY <2>1, <3>1, <3>2 DEF InStack
  <2>6. \A v \in Workers : pc'[v] \in Releasing => pc[v] \in Releasing /\ v # w /\ at'[v] = at[v]
    BY <1>a, <2>1 DEF Releasing
  <2>7. \A s \in Slots : (Free(s) => Free(s)') /\ (Fresh(s)' <=> Fresh(s))
    BY <2>1, <2>6 DEF Free, Live, Fresh
  <2>8. Free(at[w])'
    <3>1. sess[at[w]].rel = 1 /\ sess[at[w]].conn \notin open
      BY <2>1, <2>2 DEF IInv, OneRelease
    <3>2. \A v \in Workers : pc[v] \in Releasing /\ at[v] = at[w] => v = w
      BY <2>2 DEF IInv, OneRelease
    <3>3. relMsgs[at[w]] = 0
      BY <2>2 DEF IInv, OneRelease
    <3>4. ~Live(at[w])'
      BY <2>1, <3>1 DEF Live
    <3>5. \A v \in Workers : pc'[v] \in Releasing => at'[v] # at[w]
      BY <2>6, <3>2
    <3> QED
      BY <2>1, <3>1, <3>3, <3>4, <3>5 DEF Free
  <2> QED
    BY <1>a, <1>b, <2>1, <2>2, <2>4, <2>5, <2>7, <2>8 DEF FreeSlots
<1>22. ASSUME NEW w \in Workers, Count(w) PROVE FreeSlots'
  <2>1. \A r \in Slots : Free(r) => Free(r)'
    <3>1. /\ pc[w] = "count" /\ pc' = [pc EXCEPT ![w] = "idle"]
          /\ at' = [at EXCEPT ![w] = None] /\ UNCHANGED <<sess, relMsgs, open, acc>>
      BY <1>22, CountMoves
    <3>2. \A v \in Workers : pc'[v] \in Releasing => pc[v] \in Releasing /\ at'[v] = at[v]
      BY <1>a, <3>1 DEF Releasing
    <3> QED
      BY <3>1, <3>2 DEF Free, Live
  <2>2. stack' = stack /\ \A r \in Slots : Fresh(r)' <=> Fresh(r)
    BY <1>22, <1>a, CountMoves DEF Fresh
  <2> QED
    BY <1>b, <2>1, <2>2 DEF FreeSlots, InStack
<1>23. ASSUME NEW t \in Threads, Give(t) PROVE FreeSlots'
  <2>1. \A r \in Slots : Free(r) => Free(r)'
    <3>1. /\ Live(at[t]) /\ \A r \in Slots : r # at[t] => SameConn(r) /\ relMsgs'[r] = relMsgs[r]
          /\ open' = open /\ acc' = acc
      BY <1>23, <1>a, GiveMoves DEF Same
    <3>2. \A w \in Workers : pc'[w] \in Releasing => pc[w] \in Releasing /\ at'[w] = at[w]
      BY <1>23, <1>a, <1>b, GiveMoves DEF Releasing, Home
    <3> QED
      BY <3>1, <3>2 DEF Free, Live, SameConn
  <2>2. stack' = stack /\ \A r \in Slots : Fresh(r)' <=> Fresh(r)
    BY <1>23, <1>a, GiveMoves DEF Fresh
  <2> QED
    BY <1>b, <2>1, <2>2 DEF FreeSlots, InStack
<1>24. ASSUME NEW c \in Closers, CallDisconnect(c) PROVE FreeSlots'
  <2>1. \A r \in Slots : Free(r) => Free(r)'
    <3>1. /\ \A r \in Slots : SameConn(r)
          /\ relMsgs' = relMsgs /\ open' = open /\ acc' = acc
      BY <1>24, CallMoves DEF Visits, Same, SameConn
    <3>2. \A w \in Workers : pc'[w] = pc[w] /\ at'[w] = at[w]
      BY <1>24, <1>a, CallMoves DEF Visits
    <3> QED
      BY <3>1, <3>2 DEF Free, Live, SameConn
  <2>2. stack' = stack /\ \A r \in Slots : Fresh(r)' <=> Fresh(r)
    BY <1>24, <1>a, CallMoves DEF Fresh
  <2> QED
    BY <1>b, <2>1, <2>2 DEF FreeSlots, InStack
<1>25. ASSUME NEW t \in Callers, FirstFlag(t) PROVE FreeSlots'
  <2>1. \A r \in Slots : Free(r) => Free(r)'
    BY <1>25, <1>a, <1>b, FirstFlagMoves DEF Free, Live, SameConn, Same, Releasing
  <2>2. stack' = stack /\ \A r \in Slots : Fresh(r)' <=> Fresh(r)
    BY <1>25, <1>a, FirstFlagMoves DEF Fresh
  <2> QED
    BY <1>b, <2>1, <2>2 DEF FreeSlots, InStack
<1>26. ASSUME NEW t \in Callers, Cancel(t) PROVE FreeSlots'
  <2>1. \A r \in Slots : Free(r) => Free(r)'
    BY <1>26, <1>a, <1>b DEF Cancel, Free, Live, SameConn, Same, Releasing
  <2>2. stack' = stack /\ \A r \in Slots : Fresh(r)' <=> Fresh(r)
    BY <1>26, <1>a DEF Cancel, Fresh
  <2> QED
    BY <1>b, <2>1, <2>2 DEF FreeSlots, InStack
<1>27. ASSUME StopBegin PROVE FreeSlots'
  <2>1. \A r \in Slots : Free(r) => Free(r)'
    BY <1>27, <1>a, <1>b DEF StopBegin, Free, Live, SameConn, Same, Releasing
  <2>2. stack' = stack /\ \A r \in Slots : Fresh(r)' <=> Fresh(r)
    BY <1>27, <1>a DEF StopBegin, Fresh
  <2> QED
    BY <1>b, <2>1, <2>2 DEF FreeSlots, InStack
<1>28. ASSUME StopLook PROVE FreeSlots'
  <2>1. \A r \in Slots : Free(r) => Free(r)'
    <3>1. /\ \A r \in Slots : SameConn(r)
          /\ relMsgs' = relMsgs /\ open' = open /\ acc' = acc
      BY <1>28, StopLookMoves DEF Visits, Same, SameConn
    <3>2. \A w \in Workers : pc'[w] = pc[w] /\ at'[w] = at[w]
      BY <1>28, <1>a, StopLookMoves DEF Visits
    <3> QED
      BY <3>1, <3>2 DEF Free, Live, SameConn
  <2>2. stack' = stack /\ \A r \in Slots : Fresh(r)' <=> Fresh(r)
    BY <1>28, <1>a, StopLookMoves DEF Fresh
  <2> QED
    BY <1>b, <2>1, <2>2 DEF FreeSlots, InStack
<1>29. ASSUME StopNext PROVE FreeSlots'
  <2>1. \A r \in Slots : Free(r) => Free(r)'
    <3>1. /\ \A r \in Slots : SameConn(r)
          /\ relMsgs' = relMsgs /\ open' = open /\ acc' = acc
      BY <1>29, StopNextMoves DEF Visits, Same, SameConn
    <3>2. \A w \in Workers : pc'[w] = pc[w] /\ at'[w] = at[w]
      BY <1>29, <1>a, StopNextMoves DEF Visits
    <3> QED
      BY <3>1, <3>2 DEF Free, Live, SameConn
  <2>2. stack' = stack /\ \A r \in Slots : Fresh(r)' <=> Fresh(r)
    BY <1>29, <1>a, StopNextMoves DEF Fresh
  <2> QED
    BY <1>b, <2>1, <2>2 DEF FreeSlots, InStack
<1>30. ASSUME StopJoin PROVE FreeSlots'
  <2>1. \A r \in Slots : Free(r) => Free(r)'
    BY <1>30, <1>a, <1>b DEF StopJoin, Free, Live, SameConn, Same, Releasing
  <2>2. stack' = stack /\ \A r \in Slots : Fresh(r)' <=> Fresh(r)
    BY <1>30, <1>a DEF StopJoin, Fresh
  <2> QED
    BY <1>b, <2>1, <2>2 DEF FreeSlots, InStack
<1>u. CASE UNCHANGED vars
  BY <1>u, <1>a, <1>b DEF FreeSlots, InStack, Fresh, Free, Live
<1> QED
  BY <1>1, <1>2, <1>3, <1>4, <1>5, <1>5c, <1>5o, <1>6, <1>7, <1>8, <1>9, <1>10, <1>11, <1>12,
     <1>13, <1>14, <1>15, <1>16, <1>17, <1>18, <1>19, <1>20, <1>21, <1>22, <1>23, <1>24, <1>25, <1>26, <1>27,
     <1>28, <1>29, <1>30, <1>u
  DEF Next, AcceptStep, Serve, WorkerStep, CallerStep, StopStep, Threads, Callers

-----------------------------------------------------------------------------
(* The count of sessions *)

\* A step that leaves the stack alone and moves no worker to or from the place
\* where it counts leaves both parts of the count alone.
LEMMA CountFrame ==
  ASSUME stack' = stack, \A v \in Workers : pc'[v] = "count" <=> pc[v] = "count"
  PROVE  Out' = Out /\ Late' = Late
  BY DEF Out, Late, InStack

\* Every connection that is counted is discounted once, after its index is back.
LEMMA CountStep ==
  ASSUME NoScan, IInv, [Next]_vars
  PROVE  CountTrue'
<1>a. /\ allocID \in Nat /\ stack \in Seq(Slots) /\ acc \in [pc : AccPCs, slot : Slots] /\ acc.slot \in Slots
      /\ pc \in [Threads -> PCs] /\ at \in [Threads -> Slots \cup {None}]
      /\ DOMAIN recv = Slots /\ relMsgs \in [Slots -> Nat] /\ sess \in [Slots -> Sess]
      /\ \A s \in Slots : sess[s].ref \in Nat /\ sess[s].rel \in {0, 1}
      /\ \A t \in Threads : pc[t] \in Holding \cup Releasing \cup {"round"} => at[t] \in Slots
      /\ Main \in Threads /\ Workers \subseteq Threads /\ Closers \subseteq Threads
      /\ Callers \subseteq Threads /\ Main \notin Workers /\ Closers \cap Workers = {}
  BY TypeFacts, ThreadsApart, Bounds DEF IInv, TypeOK, Threads, Callers, TableType
<1>b. CountTrue /\ curCnt \in Nat /\ MaxSession \in Nat
  BY Bounds DEF IInv, TypeOK
<1>c. Cardinality(Out) \in Nat /\ Cardinality(Late) \in Nat /\ IsFiniteSet(Out) /\ IsFiniteSet(Late)
  BY CountParts
<1>1. ASSUME Accept PROVE CountTrue'
  <2>1. \A v \in Workers : pc'[v] = "count" <=> pc[v] = "count"
    BY <1>1, <1>a DEF Accept
  <2>2. Out' = Out /\ Late' = Late
    BY <1>1, <2>1, CountFrame DEF Accept
  <2> QED
    BY <1>1, <1>a, <1>b, <1>c, <2>2 DEF Accept, CountTrue, InCount
<1>2. ASSUME CountIn PROVE CountTrue'
  <2>1. \A v \in Workers : pc'[v] = "count" <=> pc[v] = "count"
    BY <1>2, <1>a DEF CountIn
  <2>2. Out' = Out /\ Late' = Late
    BY <1>2, <2>1, CountFrame DEF CountIn
  <2> QED
    BY <1>2, <1>a, <1>b, <1>c, <2>2 DEF CountIn, TooMany, CountTrue, InCount
<1>3. ASSUME Refuse PROVE CountTrue'
  <2>1. \A v \in Workers : pc'[v] = "count" <=> pc[v] = "count"
    BY <1>3, <1>a DEF Refuse
  <2>2. Out' = Out /\ Late' = Late
    BY <1>3, <2>1, CountFrame DEF Refuse
  <2> QED
    BY <1>3, <1>a, <1>b, <1>c, <2>2 DEF Refuse, CountTrue, InCount
<1>4. ASSUME Pop PROVE CountTrue'
  <2>1. /\ stack # <<>> /\ acc.pc = "pop" /\ acc'.pc = "init"
        /\ stack' = Tail(stack) /\ curCnt' = curCnt /\ pc' = pc
    BY <1>4, PopFinds DEF Pop
  <2>2. Once(stack)
    BY DEF IInv, FreeSlots
  <2>3. /\ Head(stack) \in Slots /\ In(stack, Head(stack))
        /\ \A s : In(Tail(stack), s) <=> In(stack, s) /\ s # Head(stack)
    BY <1>a, <2>1, <2>2, PopTakes
  <2>4. \A s \in Slots : InStack(s)' <=> InStack(s) /\ s # Head(stack)
    BY <2>1, <2>3 DEF InStack
  <2>5. Out' = Out \cup {Head(stack)} /\ Head(stack) \notin Out
    BY <2>3, <2>4 DEF Out, InStack
  <2>6. Cardinality(Out') = Cardinality(Out) + 1
    BY <1>c, <2>5, FS_AddElement
  <2>7. Late' = Late
    BY <2>1 DEF Late
  <2> QED
    BY <1>b, <1>c, <2>1, <2>6, <2>7 DEF CountTrue, InCount
<1>5. ASSUME InitName PROVE CountTrue'
  <2>1. \A v \in Workers : pc'[v] = "count" <=> pc[v] = "count"
    BY <1>5, <1>a, InitNameMoves
  <2>2. Out' = Out /\ Late' = Late
    BY <1>5, <2>1, CountFrame, InitNameMoves
  <2> QED
    BY <1>5, <1>a, <1>b, <1>c, <2>2, InitNameMoves DEF CountTrue, InCount
<1>5c. ASSUME InitCount PROVE CountTrue'
  <2>1. \A v \in Workers : pc'[v] = "count" <=> pc[v] = "count"
    BY <1>5c, <1>a, InitCountMoves
  <2>2. Out' = Out /\ Late' = Late
    BY <1>5c, <2>1, CountFrame, InitCountMoves
  <2> QED
    BY <1>5c, <1>a, <1>b, <1>c, <2>2, InitCountMoves DEF CountTrue, InCount
<1>5o. ASSUME InitOpen PROVE CountTrue'
  <2>1. \A v \in Workers : pc'[v] = "count" <=> pc[v] = "count"
    BY <1>5o, <1>a, InitOpenMoves
  <2>2. Out' = Out /\ Late' = Late
    BY <1>5o, <2>1, CountFrame, InitOpenMoves
  <2> QED
    BY <1>5o, <1>a, <1>b, <1>c, <2>2, InitOpenMoves DEF CountTrue, InCount
<1>6. ASSUME Register PROVE CountTrue'
  <2>1. \A v \in Workers : pc'[v] = "count" <=> pc[v] = "count"
    BY <1>6, <1>a DEF Register
  <2>2. Out' = Out /\ Late' = Late
    BY <1>6, <2>1, CountFrame DEF Register
  <2> QED
    BY <1>6, <1>a, <1>b, <1>c, <2>2 DEF Register, CountTrue, InCount
<1>7. ASSUME Join PROVE CountTrue'
  <2>1. \A v \in Workers : pc'[v] = "count" <=> pc[v] = "count"
    BY <1>7, <1>a DEF Join
  <2>2. Out' = Out /\ Late' = Late
    BY <1>7, <2>1, CountFrame DEF Join
  <2> QED
    BY <1>7, <1>a, <1>b, <1>c, <2>2 DEF Join, CountTrue, InCount
<1>8. ASSUME FirstRecv PROVE CountTrue'
  <2>1. \A v \in Workers : pc'[v] = "count" <=> pc[v] = "count"
    BY <1>8, <1>a, FirstRecvMoves
  <2>2. Out' = Out /\ Late' = Late
    BY <1>8, <2>1, CountFrame, FirstRecvMoves
  <2> QED
    BY <1>8, <1>a, <1>b, <1>c, <2>2, FirstRecvMoves DEF CountTrue, InCount
<1>9. ASSUME AcceptGive PROVE CountTrue'
  <2>1. \A v \in Workers : pc'[v] = "count" <=> pc[v] = "count"
    BY <1>9, <1>a, AcceptGiveMoves
  <2>2. Out' = Out /\ Late' = Late
    BY <1>9, <2>1, CountFrame, AcceptGiveMoves
  <2> QED
    BY <1>9, <1>a, <1>b, <1>c, <2>2, AcceptGiveMoves DEF CountTrue, InCount
<1>10. ASSUME AcceptEnd PROVE CountTrue'
  <2>1. \A v \in Workers : pc'[v] = "count" <=> pc[v] = "count"
    BY <1>10, <1>a DEF AcceptEnd
  <2>2. Out' = Out /\ Late' = Late
    BY <1>10, <2>1, CountFrame DEF AcceptEnd
  <2> QED
    BY <1>10, <1>a, <1>b, <1>c, <2>2 DEF AcceptEnd, CountTrue, InCount
<1>11. ASSUME NEW s \in Slots, PeerSends(s) PROVE CountTrue'
  <2>1. \A v \in Workers : pc'[v] = "count" <=> pc[v] = "count"
    BY <1>11, <1>a DEF PeerSends
  <2>2. stack' = stack /\ curCnt' = curCnt /\ acc' = acc
    BY <1>11 DEF PeerSends
  <2>3. Out' = Out /\ Late' = Late
    BY <2>1, <2>2, CountFrame
  <2> QED
    BY <1>b, <2>2, <2>3 DEF CountTrue, InCount
<1>12. ASSUME NEW s \in Slots, PeerCloses(s) PROVE CountTrue'
  <2>1. \A v \in Workers : pc'[v] = "count" <=> pc[v] = "count"
    BY <1>12, <1>a DEF PeerCloses
  <2>2. stack' = stack /\ curCnt' = curCnt /\ acc' = acc
    BY <1>12 DEF PeerCloses
  <2>3. Out' = Out /\ Late' = Late
    BY <2>1, <2>2, CountFrame
  <2> QED
    BY <1>b, <2>2, <2>3 DEF CountTrue, InCount
<1>13. ASSUME NEW s \in Slots, RecvEnds(s) PROVE CountTrue'
  <2>1. \A v \in Workers : pc'[v] = "count" <=> pc[v] = "count"
    BY <1>13, <1>a DEF RecvEnds
  <2>2. stack' = stack /\ curCnt' = curCnt /\ acc' = acc
    BY <1>13 DEF RecvEnds
  <2>3. Out' = Out /\ Late' = Late
    BY <2>1, <2>2, CountFrame
  <2> QED
    BY <1>b, <2>2, <2>3 DEF CountTrue, InCount
<1>14. ASSUME NEW w \in Workers, NEW s \in Slots, RecvTake(w, s) PROVE CountTrue'
  <2>1. \A v \in Workers : pc'[v] = "count" <=> pc[v] = "count"
    BY <1>14, <1>a, RecvTakeMoves
  <2>2. stack' = stack /\ curCnt' = curCnt /\ acc' = acc
    BY <1>14, RecvTakeMoves
  <2>3. Out' = Out /\ Late' = Late
    BY <2>1, <2>2, CountFrame
  <2> QED
    BY <1>b, <2>2, <2>3 DEF CountTrue, InCount
<1>15. ASSUME NEW w \in Workers, NEW s \in Slots, ReleaseTake(w, s) PROVE CountTrue'
  <2>1. \A v \in Workers : pc'[v] = "count" <=> pc[v] = "count"
    BY <1>15, <1>a, ReleaseTakeMoves
  <2>2. stack' = stack /\ curCnt' = curCnt /\ acc' = acc
    BY <1>15, ReleaseTakeMoves
  <2>3. Out' = Out /\ Late' = Late
    BY <2>1, <2>2, CountFrame
  <2> QED
    BY <1>b, <2>2, <2>3 DEF CountTrue, InCount
<1>16. ASSUME NEW w \in Workers, RecvStart(w) PROVE CountTrue'
  <2>1. \A v \in Workers : pc'[v] = "count" <=> pc[v] = "count"
    BY <1>16, <1>a DEF RecvStart
  <2>2. stack' = stack /\ curCnt' = curCnt /\ acc' = acc
    BY <1>16 DEF RecvStart
  <2>3. Out' = Out /\ Late' = Late
    BY <2>1, <2>2, CountFrame
  <2> QED
    BY <1>b, <2>2, <2>3 DEF CountTrue, InCount
<1>17. ASSUME NEW w \in Workers, RecvHandled(w) PROVE CountTrue'
  <2>1. \A v \in Workers : pc'[v] = "count" <=> pc[v] = "count"
    BY <1>17, <1>a, RecvHandledMoves
  <2>2. stack' = stack /\ curCnt' = curCnt /\ acc' = acc
    BY <1>17, RecvHandledMoves
  <2>3. Out' = Out /\ Late' = Late
    BY <2>1, <2>2, CountFrame
  <2> QED
    BY <1>b, <2>2, <2>3 DEF CountTrue, InCount
<1>18. ASSUME NEW w \in Workers, RecvCheck(w) PROVE CountTrue'
  <2>1. \A v \in Workers : pc'[v] = "count" <=> pc[v] = "count"
    BY <1>18, <1>a DEF RecvCheck
  <2>2. stack' = stack /\ curCnt' = curCnt /\ acc' = acc
    BY <1>18 DEF RecvCheck
  <2>3. Out' = Out /\ Late' = Late
    BY <2>1, <2>2, CountFrame
  <2> QED
    BY <1>b, <2>2, <2>3 DEF CountTrue, InCount
<1>19. ASSUME NEW w \in Workers, RecvNext(w) PROVE CountTrue'
  <2>1. \A v \in Workers : pc'[v] = "count" <=> pc[v] = "count"
    BY <1>19, <1>a, RecvNextMoves
  <2>2. stack' = stack /\ curCnt' = curCnt /\ acc' = acc
    BY <1>19, RecvNextMoves
  <2>3. Out' = Out /\ Late' = Late
    BY <2>1, <2>2, CountFrame
  <2> QED
    BY <1>b, <2>2, <2>3 DEF CountTrue, InCount
<1>20. ASSUME NEW w \in Workers, Leave(w) PROVE CountTrue'
  <2>1. \A v \in Workers : pc'[v] = "count" <=> pc[v] = "count"
    BY <1>20, <1>a, LeaveMoves
  <2>2. stack' = stack /\ curCnt' = curCnt /\ acc' = acc
    BY <1>20, LeaveMoves
  <2>3. Out' = Out /\ Late' = Late
    BY <2>1, <2>2, CountFrame
  <2> QED
    BY <1>b, <2>2, <2>3 DEF CountTrue, InCount
<1>21. ASSUME NEW w \in Workers, Push(w) PROVE CountTrue'
  <2>1. /\ pc[w] = "push" /\ pc' = [pc EXCEPT ![w] = "count"] /\ at' = at
        /\ stack' = <<at[w]>> \o stack /\ UNCHANGED <<acc, curCnt>>
    BY <1>21, PushMoves
  <2>2. at[w] \in Slots /\ pc[w] \in Releasing
    BY <1>a, <2>1 DEF Releasing
  <2>3. Once(stack) /\ ~InStack(at[w])
    BY <2>2 DEF IInv, FreeSlots, Free
  <2>4. \A r : In(<<at[w]>> \o stack, r) <=> In(stack, r) \/ r = at[w]
    BY <1>a, <2>2, <2>3, PushPuts
  <2>5. \A r \in Slots : InStack(r)' <=> InStack(r) \/ r = at[w]
    BY <2>1, <2>4 DEF InStack
  <2>6. Out' = Out \ {at[w]} /\ at[w] \in Out
    BY <2>2, <2>3, <2>5 DEF Out
  <2>7. Late' = Late \cup {w} /\ w \notin Late
    BY <1>a, <2>1 DEF Late
  <2>8. Cardinality(Out') = Cardinality(Out) - 1
    BY <1>c, <2>6, FS_RemoveElement
  <2>9. Cardinality(Late') = Cardinality(Late) + 1
    BY <1>c, <2>7, FS_AddElement
  <2> QED
    BY <1>b, <1>c, <2>1, <2>8, <2>9 DEF CountTrue, InCount
<1>22. ASSUME NEW w \in Workers, Count(w) PROVE CountTrue'
  <2>1. /\ pc[w] = "count" /\ pc' = [pc EXCEPT ![w] = "idle"]
        /\ curCnt' = curCnt - 1 /\ UNCHANGED <<acc, stack>>
    BY <1>22, CountMoves
  <2>2. Late' = Late \ {w} /\ w \in Late
    BY <1>a, <2>1 DEF Late
  <2>3. Cardinality(Late') = Cardinality(Late) - 1
    BY <1>c, <2>2, FS_RemoveElement
  <2>4. Out' = Out
    BY <2>1 DEF Out, InStack
  <2> QED
    BY <1>b, <1>c, <2>1, <2>3, <2>4 DEF CountTrue, InCount
<1>23. ASSUME NEW t \in Threads, Give(t) PROVE CountTrue'
  <2>1. \A v \in Workers : pc'[v] = "count" <=> pc[v] = "count"
    BY <1>23, <1>a, GiveMoves DEF Home
  <2>2. stack' = stack /\ curCnt' = curCnt /\ acc' = acc
    BY <1>23, GiveMoves
  <2>3. Out' = Out /\ Late' = Late
    BY <2>1, <2>2, CountFrame
  <2> QED
    BY <1>b, <2>2, <2>3 DEF CountTrue, InCount
<1>24. ASSUME NEW c \in Closers, CallDisconnect(c) PROVE CountTrue'
  <2>1. \A v \in Workers : pc'[v] = "count" <=> pc[v] = "count"
    BY <1>24, <1>a, CallMoves
  <2>2. stack' = stack /\ curCnt' = curCnt /\ acc' = acc
    BY <1>24, CallMoves
  <2>3. Out' = Out /\ Late' = Late
    BY <2>1, <2>2, CountFrame
  <2> QED
    BY <1>b, <2>2, <2>3 DEF CountTrue, InCount
<1>25. ASSUME NEW t \in Callers, FirstFlag(t) PROVE CountTrue'
  <2>1. \A v \in Workers : pc'[v] = "count" <=> pc[v] = "count"
    BY <1>25, <1>a, FirstFlagMoves
  <2>2. stack' = stack /\ curCnt' = curCnt /\ acc' = acc
    BY <1>25, FirstFlagMoves
  <2>3. Out' = Out /\ Late' = Late
    BY <2>1, <2>2, CountFrame
  <2> QED
    BY <1>b, <2>2, <2>3 DEF CountTrue, InCount
<1>26. ASSUME NEW t \in Callers, Cancel(t) PROVE CountTrue'
  <2>1. \A v \in Workers : pc'[v] = "count" <=> pc[v] = "count"
    BY <1>26, <1>a DEF Cancel
  <2>2. stack' = stack /\ curCnt' = curCnt /\ acc' = acc
    BY <1>26 DEF Cancel
  <2>3. Out' = Out /\ Late' = Late
    BY <2>1, <2>2, CountFrame
  <2> QED
    BY <1>b, <2>2, <2>3 DEF CountTrue, InCount
<1>27. ASSUME StopBegin PROVE CountTrue'
  <2>1. \A v \in Workers : pc'[v] = "count" <=> pc[v] = "count"
    BY <1>27, <1>a DEF StopBegin
  <2>2. stack' = stack /\ curCnt' = curCnt /\ acc' = acc
    BY <1>27 DEF StopBegin
  <2>3. Out' = Out /\ Late' = Late
    BY <2>1, <2>2, CountFrame
  <2> QED
    BY <1>b, <2>2, <2>3 DEF CountTrue, InCount
<1>28. ASSUME StopLook PROVE CountTrue'
  <2>1. \A v \in Workers : pc'[v] = "count" <=> pc[v] = "count"
    BY <1>28, <1>a, StopLookMoves DEF Visits
  <2>2. stack' = stack /\ curCnt' = curCnt /\ acc' = acc
    BY <1>28, StopLookMoves DEF Visits
  <2>3. Out' = Out /\ Late' = Late
    BY <2>1, <2>2, CountFrame
  <2> QED
    BY <1>b, <2>2, <2>3 DEF CountTrue, InCount
<1>29. ASSUME StopNext PROVE CountTrue'
  <2>1. \A v \in Workers : pc'[v] = "count" <=> pc[v] = "count"
    BY <1>29, <1>a, StopNextMoves DEF Visits
  <2>2. stack' = stack /\ curCnt' = curCnt /\ acc' = acc
    BY <1>29, StopNextMoves DEF Visits
  <2>3. Out' = Out /\ Late' = Late
    BY <2>1, <2>2, CountFrame
  <2> QED
    BY <1>b, <2>2, <2>3 DEF CountTrue, InCount
<1>30. ASSUME StopJoin PROVE CountTrue'
  <2>1. \A v \in Workers : pc'[v] = "count" <=> pc[v] = "count"
    BY <1>30, <1>a DEF StopJoin
  <2>2. stack' = stack /\ curCnt' = curCnt /\ acc' = acc
    BY <1>30 DEF StopJoin
  <2>3. Out' = Out /\ Late' = Late
    BY <2>1, <2>2, CountFrame
  <2> QED
    BY <1>b, <2>2, <2>3 DEF CountTrue, InCount
<1>u. CASE UNCHANGED vars
  BY <1>u, <1>a, <1>b, <1>c DEF CountTrue, InCount, Out, Late, InStack
<1> QED
  BY <1>1, <1>2, <1>3, <1>4, <1>5, <1>5c, <1>5o, <1>6, <1>7, <1>8, <1>9, <1>10, <1>11, <1>12,
     <1>13, <1>14, <1>15, <1>16, <1>17, <1>18, <1>19, <1>20, <1>21, <1>22, <1>23, <1>24, <1>25, <1>26, <1>27,
     <1>28, <1>29, <1>30, <1>u
  DEF Next, AcceptStep, Serve, WorkerStep, CallerStep, StopStep, Threads, Callers

-----------------------------------------------------------------------------
(* Connections and their receives *)

\* Every connection gets a number of its own, and keeps its slot while it is open.
LEMMA ConnStep ==
  ASSUME NoScan, IInv, [Next]_vars
  PROVE  ConnHasSlot'
<1>a. /\ allocID \in Nat /\ stack \in Seq(Slots) /\ acc \in [pc : AccPCs, slot : Slots] /\ acc.slot \in Slots
      /\ pc \in [Threads -> PCs] /\ at \in [Threads -> Slots \cup {None}]
      /\ DOMAIN recv = Slots /\ relMsgs \in [Slots -> Nat] /\ sess \in [Slots -> Sess]
      /\ \A s \in Slots : sess[s].ref \in Nat /\ sess[s].rel \in {0, 1}
      /\ \A t \in Threads : pc[t] \in Holding \cup Releasing \cup {"round"} => at[t] \in Slots
      /\ Main \in Threads /\ Workers \subseteq Threads /\ Closers \subseteq Threads
      /\ Callers \subseteq Threads /\ Main \notin Workers /\ Closers \cap Workers = {}
  BY TypeFacts, ThreadsApart, Bounds DEF IInv, TypeOK, Threads, Callers, TableType
<1>b. ConnHasSlot
  BY DEF IInv
<1>1. ASSUME Accept PROVE ConnHasSlot'
  <2>1. \A r \in Slots : sess'[r].conn = sess[r].conn
    BY <1>1, <1>a DEF Accept, Same, SameConn
  <2>2. allocID' = allocID /\ open' \subseteq open
    BY <1>1 DEF Accept
  <2> QED
    BY <1>b, <2>1, <2>2 DEF ConnHasSlot
<1>2. ASSUME CountIn PROVE ConnHasSlot'
  <2>1. \A r \in Slots : sess'[r].conn = sess[r].conn
    BY <1>2, <1>a DEF CountIn, Same, SameConn
  <2>2. allocID' = allocID /\ open' \subseteq open
    BY <1>2 DEF CountIn
  <2> QED
    BY <1>b, <2>1, <2>2 DEF ConnHasSlot
<1>3. ASSUME Refuse PROVE ConnHasSlot'
  <2>1. \A r \in Slots : sess'[r].conn = sess[r].conn
    BY <1>3, <1>a DEF Refuse, Same, SameConn
  <2>2. allocID' = allocID /\ open' \subseteq open
    BY <1>3 DEF Refuse
  <2> QED
    BY <1>b, <2>1, <2>2 DEF ConnHasSlot
<1>4. ASSUME Pop PROVE ConnHasSlot'
  <2>1. \A r \in Slots : sess'[r].conn = sess[r].conn
    BY <1>4, <1>a DEF Pop, Same, SameConn
  <2>2. allocID' = allocID /\ open' \subseteq open
    BY <1>4 DEF Pop
  <2> QED
    BY <1>b, <2>1, <2>2 DEF ConnHasSlot
<1>5. ASSUME InitName PROVE ConnHasSlot'
  <2>1. /\ acc.pc = "init" /\ \A r \in Slots : r # acc.slot => sess'[r].conn = sess[r].conn
        /\ sess'[acc.slot].conn = allocID + 1 /\ allocID' = allocID + 1 /\ open' = open
    BY <1>5, <1>a, InitNameMoves DEF Same, SameConn
  <2>2. sess[acc.slot].conn \notin open
    BY <1>a, <2>1 DEF IInv, FreeSlots, Fresh, Free
  <2>3. \A s \in Slots : sess[s].conn \in Nat
    BY <1>a DEF Sess
  <2>4. ASSUME NEW s \in Slots PROVE sess'[s].conn <= allocID'
    <3>1. CASE s = acc.slot
      BY <1>a, <2>1, <3>1
    <3>2. CASE s # acc.slot
      <4>1. sess'[s].conn = sess[s].conn /\ sess[s].conn <= allocID /\ sess[s].conn \in Nat
        BY <1>b, <2>1, <2>3, <3>2 DEF ConnHasSlot
      <4> QED
        BY <1>a, <2>1, <4>1
    <3> QED
      BY <3>1, <3>2
  <2>5. \A s \in Slots : s # acc.slot => sess'[s].conn # allocID + 1
    BY <1>a, <1>b, <2>1, <2>3 DEF ConnHasSlot
  <2>6. \A s, r \in Slots : sess'[s].conn = sess'[r].conn => s = r \/ sess'[s].conn = 0
    BY <1>b, <2>1, <2>5 DEF ConnHasSlot
  <2>7. \A c \in open' : \E s \in Slots : sess'[s].conn = c
    <3>1. SUFFICES ASSUME NEW c \in open PROVE \E s \in Slots : sess'[s].conn = c
      BY <2>1
    <3>2. PICK s \in Slots : sess[s].conn = c
      BY <1>b DEF ConnHasSlot
    <3>3. s # acc.slot
      BY <2>2, <3>2
    <3> QED
      BY <2>1, <3>2, <3>3
  <2> QED
    BY <2>4, <2>6, <2>7 DEF ConnHasSlot
<1>5c. ASSUME InitCount PROVE ConnHasSlot'
  <2>1. \A r \in Slots : sess'[r].conn = sess[r].conn
    BY <1>5c, <1>a, InitCountMoves DEF Same, SameConn
  <2>2. allocID' = allocID /\ open' \subseteq open
    BY <1>5c, InitCountMoves
  <2> QED
    BY <1>b, <2>1, <2>2 DEF ConnHasSlot
<1>5o. ASSUME InitOpen PROVE ConnHasSlot'
  <2>1. \A r \in Slots : sess'[r].conn = sess[r].conn
    BY <1>5o, <1>a, InitOpenMoves DEF Same, SameConn
  <2>2. allocID' = allocID /\ open' \subseteq open
    BY <1>5o, InitOpenMoves
  <2> QED
    BY <1>b, <2>1, <2>2 DEF ConnHasSlot
<1>6. ASSUME Register PROVE ConnHasSlot'
  <2>1. \A r \in Slots : sess'[r].conn = sess[r].conn
    BY <1>6, <1>a DEF Register, Same, SameConn
  <2>2. allocID' = allocID /\ open' \subseteq open
    BY <1>6 DEF Register
  <2> QED
    BY <1>b, <2>1, <2>2 DEF ConnHasSlot
<1>7. ASSUME Join PROVE ConnHasSlot'
  <2>1. /\ open' = open \cup {sess[acc.slot].conn} /\ UNCHANGED <<sess, allocID>>
    BY <1>7 DEF Join
  <2> QED
    BY <1>a, <1>b, <2>1 DEF ConnHasSlot
<1>8. ASSUME FirstRecv PROVE ConnHasSlot'
  <2>1. \A r \in Slots : sess'[r].conn = sess[r].conn
    BY <1>8, <1>a, FirstRecvMoves DEF Same, SameConn
  <2>2. allocID' = allocID /\ open' \subseteq open
    BY <1>8, FirstRecvMoves
  <2> QED
    BY <1>b, <2>1, <2>2 DEF ConnHasSlot
<1>9. ASSUME AcceptGive PROVE ConnHasSlot'
  <2>1. \A r \in Slots : sess'[r].conn = sess[r].conn
    BY <1>9, <1>a, AcceptGiveMoves DEF Same, SameConn
  <2>2. allocID' = allocID /\ open' \subseteq open
    BY <1>9, AcceptGiveMoves
  <2> QED
    BY <1>b, <2>1, <2>2 DEF ConnHasSlot
<1>10. ASSUME AcceptEnd PROVE ConnHasSlot'
  <2>1. \A r \in Slots : sess'[r].conn = sess[r].conn
    BY <1>10, <1>a DEF AcceptEnd, Same, SameConn
  <2>2. allocID' = allocID /\ open' \subseteq open
    BY <1>10 DEF AcceptEnd
  <2> QED
    BY <1>b, <2>1, <2>2 DEF ConnHasSlot
<1>11. ASSUME NEW s \in Slots, PeerSends(s) PROVE ConnHasSlot'
  <2>1. \A r \in Slots : sess'[r].conn = sess[r].conn
    BY <1>11, <1>a DEF PeerSends, Same, SameConn
  <2>2. allocID' = allocID /\ open' \subseteq open
    BY <1>11 DEF PeerSends
  <2> QED
    BY <1>b, <2>1, <2>2 DEF ConnHasSlot
<1>12. ASSUME NEW s \in Slots, PeerCloses(s) PROVE ConnHasSlot'
  <2>1. \A r \in Slots : sess'[r].conn = sess[r].conn
    BY <1>12, <1>a DEF PeerCloses, Same, SameConn
  <2>2. allocID' = allocID /\ open' \subseteq open
    BY <1>12 DEF PeerCloses
  <2> QED
    BY <1>b, <2>1, <2>2 DEF ConnHasSlot
<1>13. ASSUME NEW s \in Slots, RecvEnds(s) PROVE ConnHasSlot'
  <2>1. \A r \in Slots : sess'[r].conn = sess[r].conn
    BY <1>13, <1>a DEF RecvEnds, Same, SameConn
  <2>2. allocID' = allocID /\ open' \subseteq open
    BY <1>13 DEF RecvEnds
  <2> QED
    BY <1>b, <2>1, <2>2 DEF ConnHasSlot
<1>14. ASSUME NEW w \in Workers, NEW s \in Slots, RecvTake(w, s) PROVE ConnHasSlot'
  <2>1. \A r \in Slots : sess'[r].conn = sess[r].conn
    BY <1>14, <1>a, RecvTakeMoves DEF Same, SameConn
  <2>2. allocID' = allocID /\ open' \subseteq open
    BY <1>14, RecvTakeMoves
  <2> QED
    BY <1>b, <2>1, <2>2 DEF ConnHasSlot
<1>15. ASSUME NEW w \in Workers, NEW s \in Slots, ReleaseTake(w, s) PROVE ConnHasSlot'
  <2>1. \A r \in Slots : sess'[r].conn = sess[r].conn
    BY <1>15, <1>a, ReleaseTakeMoves DEF Same, SameConn
  <2>2. allocID' = allocID /\ open' \subseteq open
    BY <1>15, ReleaseTakeMoves
  <2> QED
    BY <1>b, <2>1, <2>2 DEF ConnHasSlot
<1>16. ASSUME NEW w \in Workers, RecvStart(w) PROVE ConnHasSlot'
  <2>1. \A r \in Slots : sess'[r].conn = sess[r].conn
    BY <1>16, <1>a DEF RecvStart, Same, SameConn
  <2>2. allocID' = allocID /\ open' \subseteq open
    BY <1>16 DEF RecvStart
  <2> QED
    BY <1>b, <2>1, <2>2 DEF ConnHasSlot
<1>17. ASSUME NEW w \in Workers, RecvHandled(w) PROVE ConnHasSlot'
  <2>1. \A r \in Slots : sess'[r].conn = sess[r].conn
    BY <1>17, <1>a, RecvHandledMoves DEF Same, SameConn
  <2>2. allocID' = allocID /\ open' \subseteq open
    BY <1>17, RecvHandledMoves
  <2> QED
    BY <1>b, <2>1, <2>2 DEF ConnHasSlot
<1>18. ASSUME NEW w \in Workers, RecvCheck(w) PROVE ConnHasSlot'
  <2>1. \A r \in Slots : sess'[r].conn = sess[r].conn
    BY <1>18, <1>a DEF RecvCheck, Same, SameConn
  <2>2. allocID' = allocID /\ open' \subseteq open
    BY <1>18 DEF RecvCheck
  <2> QED
    BY <1>b, <2>1, <2>2 DEF ConnHasSlot
<1>19. ASSUME NEW w \in Workers, RecvNext(w) PROVE ConnHasSlot'
  <2>1. \A r \in Slots : sess'[r].conn = sess[r].conn
    BY <1>19, <1>a, RecvNextMoves DEF Same, SameConn
  <2>2. allocID' = allocID /\ open' \subseteq open
    BY <1>19, RecvNextMoves
  <2> QED
    BY <1>b, <2>1, <2>2 DEF ConnHasSlot
<1>20. ASSUME NEW w \in Workers, Leave(w) PROVE ConnHasSlot'
  <2>1. \A r \in Slots : sess'[r].conn = sess[r].conn
    BY <1>20, <1>a, LeaveMoves DEF Same, SameConn
  <2>2. allocID' = allocID /\ open' \subseteq open
    BY <1>20, LeaveMoves
  <2> QED
    BY <1>b, <2>1, <2>2 DEF ConnHasSlot
<1>21. ASSUME NEW w \in Workers, Push(w) PROVE ConnHasSlot'
  <2>1. \A r \in Slots : sess'[r].conn = sess[r].conn
    BY <1>21, <1>a, PushMoves DEF Same, SameConn
  <2>2. allocID' = allocID /\ open' \subseteq open
    BY <1>21, PushMoves
  <2> QED
    BY <1>b, <2>1, <2>2 DEF ConnHasSlot
<1>22. ASSUME NEW w \in Workers, Count(w) PROVE ConnHasSlot'
  <2>1. \A r \in Slots : sess'[r].conn = sess[r].conn
    BY <1>22, <1>a, CountMoves DEF Same, SameConn
  <2>2. allocID' = allocID /\ open' \subseteq open
    BY <1>22, CountMoves
  <2> QED
    BY <1>b, <2>1, <2>2 DEF ConnHasSlot
<1>23. ASSUME NEW t \in Threads, Give(t) PROVE ConnHasSlot'
  <2>1. \A r \in Slots : sess'[r].conn = sess[r].conn
    BY <1>23, <1>a, GiveMoves DEF Same, SameConn
  <2>2. allocID' = allocID /\ open' \subseteq open
    BY <1>23, GiveMoves
  <2> QED
    BY <1>b, <2>1, <2>2 DEF ConnHasSlot
<1>24. ASSUME NEW c \in Closers, CallDisconnect(c) PROVE ConnHasSlot'
  <2>1. \A r \in Slots : sess'[r].conn = sess[r].conn
    BY <1>24, <1>a, CallMoves DEF Same, SameConn
  <2>2. allocID' = allocID /\ open' \subseteq open
    BY <1>24, CallMoves
  <2> QED
    BY <1>b, <2>1, <2>2 DEF ConnHasSlot
<1>25. ASSUME NEW t \in Callers, FirstFlag(t) PROVE ConnHasSlot'
  <2>1. \A r \in Slots : sess'[r].conn = sess[r].conn
    BY <1>25, <1>a, FirstFlagMoves DEF Same, SameConn
  <2>2. allocID' = allocID /\ open' \subseteq open
    BY <1>25, FirstFlagMoves
  <2> QED
    BY <1>b, <2>1, <2>2 DEF ConnHasSlot
<1>26. ASSUME NEW t \in Callers, Cancel(t) PROVE ConnHasSlot'
  <2>1. \A r \in Slots : sess'[r].conn = sess[r].conn
    BY <1>26, <1>a DEF Cancel, Same, SameConn
  <2>2. allocID' = allocID /\ open' \subseteq open
    BY <1>26 DEF Cancel
  <2> QED
    BY <1>b, <2>1, <2>2 DEF ConnHasSlot
<1>27. ASSUME StopBegin PROVE ConnHasSlot'
  <2>1. \A r \in Slots : sess'[r].conn = sess[r].conn
    BY <1>27, <1>a DEF StopBegin, Same, SameConn
  <2>2. allocID' = allocID /\ open' \subseteq open
    BY <1>27 DEF StopBegin
  <2> QED
    BY <1>b, <2>1, <2>2 DEF ConnHasSlot
<1>28. ASSUME StopLook PROVE ConnHasSlot'
  <2>1. \A r \in Slots : sess'[r].conn = sess[r].conn
    BY <1>28, <1>a, StopLookMoves DEF Visits, Same, SameConn
  <2>2. allocID' = allocID /\ open' \subseteq open
    BY <1>28, StopLookMoves DEF Visits
  <2> QED
    BY <1>b, <2>1, <2>2 DEF ConnHasSlot
<1>29. ASSUME StopNext PROVE ConnHasSlot'
  <2>1. \A r \in Slots : sess'[r].conn = sess[r].conn
    BY <1>29, <1>a, StopNextMoves DEF Visits, Same, SameConn
  <2>2. allocID' = allocID /\ open' \subseteq open
    BY <1>29, StopNextMoves DEF Visits
  <2> QED
    BY <1>b, <2>1, <2>2 DEF ConnHasSlot
<1>30. ASSUME StopJoin PROVE ConnHasSlot'
  <2>1. \A r \in Slots : sess'[r].conn = sess[r].conn
    BY <1>30, <1>a DEF StopJoin, Same, SameConn
  <2>2. allocID' = allocID /\ open' \subseteq open
    BY <1>30 DEF StopJoin
  <2> QED
    BY <1>b, <2>1, <2>2 DEF ConnHasSlot
<1>u. CASE UNCHANGED vars
  BY <1>u, <1>a, <1>b DEF ConnHasSlot
<1> QED
  BY <1>1, <1>2, <1>3, <1>4, <1>5, <1>5c, <1>5o, <1>6, <1>7, <1>8, <1>9, <1>10, <1>11, <1>12,
     <1>13, <1>14, <1>15, <1>16, <1>17, <1>18, <1>19, <1>20, <1>21, <1>22, <1>23, <1>24, <1>25, <1>26, <1>27,
     <1>28, <1>29, <1>30, <1>u
  DEF Next, AcceptStep, Serve, WorkerStep, CallerStep, StopStep, Threads, Callers

\* The receive of a session is handed on, never doubled.
LEMMA ReceiveStep ==
  ASSUME NoScan, IInv, [Next]_vars
  PROVE  OneReceive'
<1>a. /\ allocID \in Nat /\ stack \in Seq(Slots) /\ acc \in [pc : AccPCs, slot : Slots] /\ acc.slot \in Slots
      /\ pc \in [Threads -> PCs] /\ at \in [Threads -> Slots \cup {None}]
      /\ DOMAIN recv = Slots /\ relMsgs \in [Slots -> Nat] /\ sess \in [Slots -> Sess]
      /\ \A s \in Slots : sess[s].ref \in Nat /\ sess[s].rel \in {0, 1}
      /\ \A t \in Threads : pc[t] \in Holding \cup Releasing \cup {"round"} => at[t] \in Slots
      /\ Main \in Threads /\ Workers \subseteq Threads /\ Closers \subseteq Threads
      /\ Callers \subseteq Threads /\ Main \notin Workers /\ Closers \cap Workers = {}
  BY TypeFacts, ThreadsApart, Bounds DEF IInv, TypeOK, Threads, Callers, TableType
<1>b. OneReceive
  BY DEF IInv
<1>1. ASSUME Accept PROVE OneReceive'
  BY <1>1, <1>a, <1>b DEF Accept, OneReceive, NoReceiver
<1>2. ASSUME CountIn PROVE OneReceive'
  BY <1>2, <1>a, <1>b DEF CountIn, OneReceive, NoReceiver
<1>3. ASSUME Refuse PROVE OneReceive'
  BY <1>3, <1>a, <1>b DEF Refuse, OneReceive, NoReceiver
<1>4. ASSUME Pop PROVE OneReceive'
  BY <1>4, <1>a, <1>b DEF Pop, OneReceive, NoReceiver
<1>5. ASSUME InitName PROVE OneReceive'
  BY <1>5, <1>a, <1>b, InitNameMoves DEF OneReceive, NoReceiver
<1>5c. ASSUME InitCount PROVE OneReceive'
  BY <1>5c, <1>a, <1>b, InitCountMoves DEF OneReceive, NoReceiver
<1>5o. ASSUME InitOpen PROVE OneReceive'
  <2>1. /\ acc.pc = "counted" /\ acc'.slot = acc.slot /\ recv' = recv /\ pc' = pc /\ at' = at
    BY <1>5o, <1>a, InitOpenMoves
  <2>2. ~Live(acc.slot)
    BY <1>a, <2>1 DEF IInv, FreeSlots, Fresh, Free
  <2>3. \A w \in Workers : pc[w] \in Receiving => at[w] # acc.slot
    BY <1>a, <2>2, HolderCounts DEF Holding
  <2>4. recv[acc.slot] = "none"
    BY <1>a, <2>2, RecvCounts
  <2> QED
    BY <1>a, <1>b, <2>1, <2>3, <2>4 DEF OneReceive, NoReceiver
<1>6. ASSUME Register PROVE OneReceive'
  BY <1>6, <1>a, <1>b DEF Register, OneReceive, NoReceiver
<1>7. ASSUME Join PROVE OneReceive'
  BY <1>7, <1>a, <1>b DEF Join, OneReceive, NoReceiver
<1>8. ASSUME FirstRecv PROVE OneReceive'
  <2>1. /\ acc.pc = "post" /\ acc'.pc = "give" /\ pc' = pc /\ at' = at
        /\ recv' = [recv EXCEPT ![acc.slot] = "posted"] \/ recv' = recv
    BY <1>8, <1>a, FirstRecvMoves
  <2>2. NoReceiver(acc.slot)
    BY <1>b, <2>1 DEF OneReceive
  <2> QED
    BY <1>a, <1>b, <2>1, <2>2 DEF OneReceive, NoReceiver
<1>9. ASSUME AcceptGive PROVE OneReceive'
  BY <1>9, <1>a, <1>b, AcceptGiveMoves DEF OneReceive, NoReceiver
<1>10. ASSUME AcceptEnd PROVE OneReceive'
  BY <1>10, <1>a, <1>b DEF AcceptEnd, OneReceive, NoReceiver
<1>11. ASSUME NEW s \in Slots, PeerSends(s) PROVE OneReceive'
  <2>1. \A v \in Workers : pc'[v] \in Receiving => pc[v] \in Receiving /\ at'[v] = at[v]
    BY <1>11, <1>a DEF PeerSends, Receiving
  <2>2. acc' = acc /\ \A r \in Slots : recv'[r] = "none" <=> recv[r] = "none"
    BY <1>11, <1>a DEF PeerSends
  <2> QED
    BY <1>a, <1>b, <2>1, <2>2 DEF OneReceive, NoReceiver
<1>12. ASSUME NEW s \in Slots, PeerCloses(s) PROVE OneReceive'
  <2>1. \A v \in Workers : pc'[v] \in Receiving => pc[v] \in Receiving /\ at'[v] = at[v]
    BY <1>12, <1>a DEF PeerCloses, Receiving
  <2>2. acc' = acc /\ \A r \in Slots : recv'[r] = "none" <=> recv[r] = "none"
    BY <1>12, <1>a DEF PeerCloses
  <2> QED
    BY <1>a, <1>b, <2>1, <2>2 DEF OneReceive, NoReceiver
<1>13. ASSUME NEW s \in Slots, RecvEnds(s) PROVE OneReceive'
  <2>1. \A v \in Workers : pc'[v] \in Receiving => pc[v] \in Receiving /\ at'[v] = at[v]
    BY <1>13, <1>a DEF RecvEnds, Receiving
  <2>2. acc' = acc /\ \A r \in Slots : recv'[r] = "none" <=> recv[r] = "none"
    BY <1>13, <1>a DEF RecvEnds
  <2> QED
    BY <1>a, <1>b, <2>1, <2>2 DEF OneReceive, NoReceiver
<1>14. ASSUME NEW w \in Workers, NEW s \in Slots, RecvTake(w, s) PROVE OneReceive'
  <2>1. /\ pc[w] = "idle" /\ pc' = [pc EXCEPT ![w] = "recv"] /\ at' = [at EXCEPT ![w] = s]
        /\ recv[s] # "none" /\ recv' = [recv EXCEPT ![s] = "none"] /\ acc' = acc
    BY <1>14, RecvTakeMoves
  <2>2. NoReceiver(s) /\ (acc.pc \in {"iocp", "join", "post"} => acc.slot # s)
    BY <1>b, <2>1 DEF OneReceive
  <2>3. \A v \in Workers : v # w => pc'[v] = pc[v] /\ at'[v] = at[v]
    BY <1>a, <2>1
  <2>4. at'[w] = s /\ pc'[w] = "recv"
    BY <1>a, <2>1
  <2>5. \A r \in Slots : recv'[r] # "none" => r # s /\ recv[r] # "none"
    BY <1>a, <2>1
  <2>6. \A v \in Workers : v # w /\ pc'[v] \in Receiving => at'[v] # s
    BY <2>2, <2>3 DEF NoReceiver
  <2>7. \A u, v \in Workers : pc'[u] \in Receiving /\ pc'[v] \in Receiving /\ at'[u] = at'[v] => u = v
    BY <1>b, <2>3, <2>4, <2>6 DEF OneReceive
  <2>8. \A r \in Slots : r # s /\ NoReceiver(r) => NoReceiver(r)'
    BY <2>3, <2>4 DEF NoReceiver
  <2>9. acc.pc \in {"iocp", "join", "post"} => recv'[acc.slot] = "none"
    BY <1>a, <1>b, <2>1, <2>2 DEF OneReceive
  <2> QED
    BY <1>a, <1>b, <2>1, <2>2, <2>5, <2>7, <2>8, <2>9 DEF OneReceive
<1>15. ASSUME NEW w \in Workers, NEW s \in Slots, ReleaseTake(w, s) PROVE OneReceive'
  <2>1. \A v \in Workers : pc'[v] \in Receiving => pc[v] \in Receiving /\ at'[v] = at[v]
    BY <1>15, <1>a, ReleaseTakeMoves DEF Receiving
  <2>2. acc' = acc /\ \A r \in Slots : recv'[r] = "none" <=> recv[r] = "none"
    BY <1>15, <1>a, ReleaseTakeMoves
  <2> QED
    BY <1>a, <1>b, <2>1, <2>2 DEF OneReceive, NoReceiver
<1>16. ASSUME NEW w \in Workers, RecvStart(w) PROVE OneReceive'
  <2>1. \A v \in Workers : pc'[v] \in Receiving => pc[v] \in Receiving /\ at'[v] = at[v]
    BY <1>16, <1>a DEF RecvStart, Receiving
  <2>2. acc' = acc /\ \A r \in Slots : recv'[r] = "none" <=> recv[r] = "none"
    BY <1>16, <1>a DEF RecvStart
  <2> QED
    BY <1>a, <1>b, <2>1, <2>2 DEF OneReceive, NoReceiver
<1>17. ASSUME NEW w \in Workers, RecvHandled(w) PROVE OneReceive'
  <2>1. \A v \in Workers : pc'[v] \in Receiving => pc[v] \in Receiving /\ at'[v] = at[v]
    BY <1>17, <1>a, RecvHandledMoves DEF Receiving
  <2>2. acc' = acc /\ \A r \in Slots : recv'[r] = "none" <=> recv[r] = "none"
    BY <1>17, <1>a, RecvHandledMoves
  <2> QED
    BY <1>a, <1>b, <2>1, <2>2 DEF OneReceive, NoReceiver
<1>18. ASSUME NEW w \in Workers, RecvCheck(w) PROVE OneReceive'
  <2>1. \A v \in Workers : pc'[v] \in Receiving => pc[v] \in Receiving /\ at'[v] = at[v]
    BY <1>18, <1>a DEF RecvCheck, Receiving
  <2>2. acc' = acc /\ \A r \in Slots : recv'[r] = "none" <=> recv[r] = "none"
    BY <1>18, <1>a DEF RecvCheck
  <2> QED
    BY <1>a, <1>b, <2>1, <2>2 DEF OneReceive, NoReceiver
<1>19. ASSUME NEW w \in Workers, RecvNext(w) PROVE OneReceive'
  <2>1. /\ pc[w] = "post" /\ pc' = [pc EXCEPT ![w] = "give"] /\ at' = at /\ at[w] \in Slots
        /\ recv' = [recv EXCEPT ![at[w]] = "posted"] \/ recv' = recv
        /\ acc' = acc
    BY <1>19, RecvNextMoves
  <2>2. \A v \in Workers : pc'[v] \in Receiving => v # w /\ pc[v] \in Receiving /\ at'[v] = at[v]
    BY <1>a, <2>1 DEF Receiving
  <2>3. pc[w] \in Receiving
    BY <2>1 DEF Receiving
  <2>4. \A v \in Workers : pc'[v] \in Receiving => at'[v] # at[w]
    BY <1>b, <2>2, <2>3 DEF OneReceive
  <2>5. acc.pc \in {"iocp", "join", "post"} => acc.slot # at[w]
    BY <1>b, <2>3 DEF OneReceive, NoReceiver
  <2> QED
    BY <1>a, <1>b, <2>1, <2>2, <2>4, <2>5 DEF OneReceive, NoReceiver
<1>20. ASSUME NEW w \in Workers, Leave(w) PROVE OneReceive'
  <2>1. \A v \in Workers : pc'[v] \in Receiving => pc[v] \in Receiving /\ at'[v] = at[v]
    BY <1>20, <1>a, LeaveMoves DEF Receiving
  <2>2. acc' = acc /\ \A r \in Slots : recv'[r] = "none" <=> recv[r] = "none"
    BY <1>20, <1>a, LeaveMoves
  <2> QED
    BY <1>a, <1>b, <2>1, <2>2 DEF OneReceive, NoReceiver
<1>21. ASSUME NEW w \in Workers, Push(w) PROVE OneReceive'
  <2>1. \A v \in Workers : pc'[v] \in Receiving => pc[v] \in Receiving /\ at'[v] = at[v]
    BY <1>21, <1>a, PushMoves DEF Receiving
  <2>2. acc' = acc /\ \A r \in Slots : recv'[r] = "none" <=> recv[r] = "none"
    BY <1>21, <1>a, PushMoves
  <2> QED
    BY <1>a, <1>b, <2>1, <2>2 DEF OneReceive, NoReceiver
<1>22. ASSUME NEW w \in Workers, Count(w) PROVE OneReceive'
  <2>1. \A v \in Workers : pc'[v] \in Receiving => pc[v] \in Receiving /\ at'[v] = at[v]
    BY <1>22, <1>a, CountMoves DEF Receiving
  <2>2. acc' = acc /\ \A r \in Slots : recv'[r] = "none" <=> recv[r] = "none"
    BY <1>22, <1>a, CountMoves
  <2> QED
    BY <1>a, <1>b, <2>1, <2>2 DEF OneReceive, NoReceiver
<1>23. ASSUME NEW t \in Threads, Give(t) PROVE OneReceive'
  <2>1. \A v \in Workers : pc'[v] \in Receiving => pc[v] \in Receiving /\ at'[v] = at[v]
    BY <1>23, <1>a, GiveMoves DEF Home, Receiving
  <2>2. acc' = acc /\ \A r \in Slots : recv'[r] = "none" <=> recv[r] = "none"
    BY <1>23, <1>a, GiveMoves
  <2> QED
    BY <1>a, <1>b, <2>1, <2>2 DEF OneReceive, NoReceiver
<1>24. ASSUME NEW c \in Closers, CallDisconnect(c) PROVE OneReceive'
  <2>1. \A v \in Workers : pc'[v] \in Receiving => pc[v] \in Receiving /\ at'[v] = at[v]
    BY <1>24, <1>a, CallMoves DEF Receiving
  <2>2. acc' = acc /\ \A r \in Slots : recv'[r] = "none" <=> recv[r] = "none"
    BY <1>24, <1>a, CallMoves
  <2> QED
    BY <1>a, <1>b, <2>1, <2>2 DEF OneReceive, NoReceiver
<1>25. ASSUME NEW t \in Callers, FirstFlag(t) PROVE OneReceive'
  <2>1. \A v \in Workers : pc'[v] \in Receiving => pc[v] \in Receiving /\ at'[v] = at[v]
    BY <1>25, <1>a, FirstFlagMoves DEF Receiving
  <2>2. acc' = acc /\ \A r \in Slots : recv'[r] = "none" <=> recv[r] = "none"
    BY <1>25, <1>a, FirstFlagMoves
  <2> QED
    BY <1>a, <1>b, <2>1, <2>2 DEF OneReceive, NoReceiver
<1>26. ASSUME NEW t \in Callers, Cancel(t) PROVE OneReceive'
  <2>1. \A v \in Workers : pc'[v] \in Receiving => pc[v] \in Receiving /\ at'[v] = at[v]
    BY <1>26, <1>a DEF Cancel, Receiving
  <2>2. acc' = acc /\ \A r \in Slots : recv'[r] = "none" <=> recv[r] = "none"
    BY <1>26, <1>a DEF Cancel
  <2> QED
    BY <1>a, <1>b, <2>1, <2>2 DEF OneReceive, NoReceiver
<1>27. ASSUME StopBegin PROVE OneReceive'
  <2>1. \A v \in Workers : pc'[v] \in Receiving => pc[v] \in Receiving /\ at'[v] = at[v]
    BY <1>27, <1>a DEF StopBegin, Receiving
  <2>2. acc' = acc /\ \A r \in Slots : recv'[r] = "none" <=> recv[r] = "none"
    BY <1>27, <1>a DEF StopBegin
  <2> QED
    BY <1>a, <1>b, <2>1, <2>2 DEF OneReceive, NoReceiver
<1>28. ASSUME StopLook PROVE OneReceive'
  <2>1. \A v \in Workers : pc'[v] \in Receiving => pc[v] \in Receiving /\ at'[v] = at[v]
    BY <1>28, <1>a, StopLookMoves DEF Visits, Receiving
  <2>2. acc' = acc /\ \A r \in Slots : recv'[r] = "none" <=> recv[r] = "none"
    BY <1>28, <1>a, StopLookMoves DEF Visits
  <2> QED
    BY <1>a, <1>b, <2>1, <2>2 DEF OneReceive, NoReceiver
<1>29. ASSUME StopNext PROVE OneReceive'
  <2>1. \A v \in Workers : pc'[v] \in Receiving => pc[v] \in Receiving /\ at'[v] = at[v]
    BY <1>29, <1>a, StopNextMoves DEF Visits, Receiving
  <2>2. acc' = acc /\ \A r \in Slots : recv'[r] = "none" <=> recv[r] = "none"
    BY <1>29, <1>a, StopNextMoves DEF Visits
  <2> QED
    BY <1>a, <1>b, <2>1, <2>2 DEF OneReceive, NoReceiver
<1>30. ASSUME StopJoin PROVE OneReceive'
  <2>1. \A v \in Workers : pc'[v] \in Receiving => pc[v] \in Receiving /\ at'[v] = at[v]
    BY <1>30, <1>a DEF StopJoin, Receiving
  <2>2. acc' = acc /\ \A r \in Slots : recv'[r] = "none" <=> recv[r] = "none"
    BY <1>30, <1>a DEF StopJoin
  <2> QED
    BY <1>a, <1>b, <2>1, <2>2 DEF OneReceive, NoReceiver
<1>u. CASE UNCHANGED vars
  BY <1>u, <1>a, <1>b DEF OneReceive, NoReceiver
<1> QED
  BY <1>1, <1>2, <1>3, <1>4, <1>5, <1>5c, <1>5o, <1>6, <1>7, <1>8, <1>9, <1>10, <1>11, <1>12,
     <1>13, <1>14, <1>15, <1>16, <1>17, <1>18, <1>19, <1>20, <1>21, <1>22, <1>23, <1>24, <1>25, <1>26, <1>27,
     <1>28, <1>29, <1>30, <1>u
  DEF Next, AcceptStep, Serve, WorkerStep, CallerStep, StopStep, Threads, Callers

\* OnClientLeave of a session is called when nothing can be received for it any more.
LEMMA OpenStep ==
  ASSUME NoScan, IInv, [Next]_vars
  PROVE  ReceiveOpen'
<1>a. /\ allocID \in Nat /\ stack \in Seq(Slots) /\ acc \in [pc : AccPCs, slot : Slots] /\ acc.slot \in Slots
      /\ pc \in [Threads -> PCs] /\ at \in [Threads -> Slots \cup {None}]
      /\ DOMAIN recv = Slots /\ relMsgs \in [Slots -> Nat] /\ sess \in [Slots -> Sess]
      /\ \A s \in Slots : sess[s].ref \in Nat /\ sess[s].rel \in {0, 1}
      /\ \A t \in Threads : pc[t] \in Holding \cup Releasing \cup {"round"} => at[t] \in Slots
      /\ Main \in Threads /\ Workers \subseteq Threads /\ Closers \subseteq Threads
      /\ Callers \subseteq Threads /\ Main \notin Workers /\ Closers \cap Workers = {}
  BY TypeFacts, ThreadsApart, Bounds DEF IInv, TypeOK, Threads, Callers, TableType
<1>b. ReceiveOpen
  BY DEF IInv
<1>c. \A v \in Workers : pc[v] \in Receiving => at[v] \in Slots
  BY <1>a DEF Holding
<1>1. ASSUME Accept PROVE ReceiveOpen'
  BY <1>1, <1>a, <1>b, <1>c DEF Accept, ReceiveOpen
<1>2. ASSUME CountIn PROVE ReceiveOpen'
  BY <1>2, <1>a, <1>b, <1>c DEF CountIn, ReceiveOpen
<1>3. ASSUME Refuse PROVE ReceiveOpen'
  BY <1>3, <1>a, <1>b, <1>c DEF Refuse, ReceiveOpen
<1>4. ASSUME Pop PROVE ReceiveOpen'
  BY <1>4, <1>a, <1>b, <1>c DEF Pop, ReceiveOpen
<1>5. ASSUME InitName PROVE ReceiveOpen'
  <2>1. /\ acc.pc = "init" /\ acc'.pc = "named" /\ acc'.slot = acc.slot /\ open' = open
        /\ recv' = [recv EXCEPT ![acc.slot] = "none"] /\ pc' = pc /\ at' = at
        /\ \A r \in Slots : r # acc.slot => sess'[r].conn = sess[r].conn
    BY <1>5, <1>a, InitNameMoves DEF Same, SameConn
  <2>2. ~Live(acc.slot)
    BY <1>a, <2>1 DEF IInv, FreeSlots, Fresh, Free
  <2>3. \A w \in Workers : pc[w] \in Receiving => at[w] # acc.slot
    BY <1>a, <2>2, HolderCounts DEF Holding
  <2> QED
    BY <1>a, <1>b, <1>c, <2>1, <2>3 DEF ReceiveOpen
<1>5c. ASSUME InitCount PROVE ReceiveOpen'
  <2>1. /\ acc'.pc = "counted" /\ pc' = pc /\ at' = at /\ open' = open /\ recv' = recv
        /\ \A r \in Slots : sess'[r].conn = sess[r].conn
    BY <1>5c, <1>a, InitCountMoves DEF SameConn
  <2> QED
    BY <1>a, <1>b, <1>c, <2>1 DEF ReceiveOpen
<1>5o. ASSUME InitOpen PROVE ReceiveOpen'
  <2>1. /\ acc'.pc = "iocp" /\ pc' = pc /\ at' = at /\ open' = open /\ recv' = recv
        /\ \A r \in Slots : sess'[r].conn = sess[r].conn
    BY <1>5o, <1>a, InitOpenMoves DEF SameConn
  <2> QED
    BY <1>a, <1>b, <1>c, <2>1 DEF ReceiveOpen
<1>6. ASSUME Register PROVE ReceiveOpen'
  BY <1>6, <1>a, <1>b, <1>c DEF Register, ReceiveOpen
<1>7. ASSUME Join PROVE ReceiveOpen'
  BY <1>7, <1>a, <1>b, <1>c DEF Join, ReceiveOpen
<1>8. ASSUME FirstRecv PROVE ReceiveOpen'
  <2>1. /\ acc.pc = "post" /\ acc'.pc = "give" /\ pc' = pc /\ at' = at /\ open' = open
        /\ recv' = [recv EXCEPT ![acc.slot] = "posted"] \/ recv' = recv
        /\ \A r \in Slots : sess'[r].conn = sess[r].conn
    BY <1>8, <1>a, FirstRecvMoves DEF SameConn
  <2> QED
    BY <1>a, <1>b, <1>c, <2>1 DEF ReceiveOpen
<1>9. ASSUME AcceptGive PROVE ReceiveOpen'
  <2>1. /\ acc'.pc = "accept" /\ pc' = pc /\ at' = at /\ open' = open /\ recv' = recv
        /\ \A r \in Slots : sess'[r].conn = sess[r].conn
    BY <1>9, <1>a, AcceptGiveMoves DEF Same, SameConn
  <2> QED
    BY <1>b, <1>c, <2>1 DEF ReceiveOpen
<1>10. ASSUME AcceptEnd PROVE ReceiveOpen'
  BY <1>10, <1>a, <1>b, <1>c DEF AcceptEnd, ReceiveOpen
<1>11. ASSUME NEW s \in Slots, PeerSends(s) PROVE ReceiveOpen'
  <2>1. \A v \in Workers : pc'[v] \in Receiving => pc[v] \in Receiving /\ at'[v] = at[v]
    BY <1>11, <1>a DEF PeerSends, Receiving
  <2>2. acc' = acc /\ open' = open /\ \A r \in Slots : recv'[r] = "none" <=> recv[r] = "none"
    BY <1>11, <1>a DEF PeerSends
  <2>3. \A r \in Slots : sess'[r].conn = sess[r].conn
    BY <1>11, <1>a DEF PeerSends, Same, SameConn
  <2> QED
    BY <1>a, <1>c, <1>b, <2>1, <2>2, <2>3 DEF ReceiveOpen
<1>12. ASSUME NEW s \in Slots, PeerCloses(s) PROVE ReceiveOpen'
  <2>1. \A v \in Workers : pc'[v] \in Receiving => pc[v] \in Receiving /\ at'[v] = at[v]
    BY <1>12, <1>a DEF PeerCloses, Receiving
  <2>2. acc' = acc /\ open' = open /\ \A r \in Slots : recv'[r] = "none" <=> recv[r] = "none"
    BY <1>12, <1>a DEF PeerCloses
  <2>3. \A r \in Slots : sess'[r].conn = sess[r].conn
    BY <1>12, <1>a DEF PeerCloses, Same, SameConn
  <2> QED
    BY <1>a, <1>c, <1>b, <2>1, <2>2, <2>3 DEF ReceiveOpen
<1>13. ASSUME NEW s \in Slots, RecvEnds(s) PROVE ReceiveOpen'
  <2>1. \A v \in Workers : pc'[v] \in Receiving => pc[v] \in Receiving /\ at'[v] = at[v]
    BY <1>13, <1>a DEF RecvEnds, Receiving
  <2>2. acc' = acc /\ open' = open /\ \A r \in Slots : recv'[r] = "none" <=> recv[r] = "none"
    BY <1>13, <1>a DEF RecvEnds
  <2>3. \A r \in Slots : sess'[r].conn = sess[r].conn
    BY <1>13, <1>a DEF RecvEnds, Same, SameConn
  <2> QED
    BY <1>a, <1>c, <1>b, <2>1, <2>2, <2>3 DEF ReceiveOpen
<1>14. ASSUME NEW w \in Workers, NEW s \in Slots, RecvTake(w, s) PROVE ReceiveOpen'
  <2>1. /\ pc' = [pc EXCEPT ![w] = "recv"] /\ at' = [at EXCEPT ![w] = s]
        /\ recv[s] # "none" /\ recv' = [recv EXCEPT ![s] = "none"] /\ acc' = acc /\ open' = open
    BY <1>14, RecvTakeMoves
  <2>2. \A r \in Slots : sess'[r].conn = sess[r].conn
    BY <1>14, RecvTakeMoves DEF Same, SameConn
  <2>3. \A v \in Workers : v # w => pc'[v] = pc[v] /\ at'[v] = at[v]
    BY <1>a, <2>1
  <2>4. at'[w] = s
    BY <1>a, <2>1
  <2>5. sess[s].conn \in open
    BY <1>b, <2>1 DEF ReceiveOpen
  <2>6. \A r \in Slots : recv'[r] # "none" => recv[r] # "none"
    BY <1>a, <2>1
  <2> QED
    BY <1>a, <1>b, <1>c, <2>1, <2>2, <2>3, <2>4, <2>5, <2>6 DEF ReceiveOpen
<1>15. ASSUME NEW w \in Workers, NEW s \in Slots, ReleaseTake(w, s) PROVE ReceiveOpen'
  <2>1. \A v \in Workers : pc'[v] \in Receiving => pc[v] \in Receiving /\ at'[v] = at[v]
    BY <1>15, <1>a, ReleaseTakeMoves DEF Receiving
  <2>2. acc' = acc /\ open' = open /\ \A r \in Slots : recv'[r] = "none" <=> recv[r] = "none"
    BY <1>15, <1>a, ReleaseTakeMoves
  <2>3. \A r \in Slots : sess'[r].conn = sess[r].conn
    BY <1>15, <1>a, ReleaseTakeMoves DEF Same, SameConn
  <2> QED
    BY <1>a, <1>c, <1>b, <2>1, <2>2, <2>3 DEF ReceiveOpen
<1>16. ASSUME NEW w \in Workers, RecvStart(w) PROVE ReceiveOpen'
  <2>1. \A v \in Workers : pc'[v] \in Receiving => pc[v] \in Receiving /\ at'[v] = at[v]
    BY <1>16, <1>a DEF RecvStart, Receiving
  <2>2. acc' = acc /\ open' = open /\ \A r \in Slots : recv'[r] = "none" <=> recv[r] = "none"
    BY <1>16, <1>a DEF RecvStart
  <2>3. \A r \in Slots : sess'[r].conn = sess[r].conn
    BY <1>16, <1>a DEF RecvStart, Same, SameConn
  <2> QED
    BY <1>a, <1>c, <1>b, <2>1, <2>2, <2>3 DEF ReceiveOpen
<1>17. ASSUME NEW w \in Workers, RecvHandled(w) PROVE ReceiveOpen'
  <2>1. \A v \in Workers : pc'[v] \in Receiving => pc[v] \in Receiving /\ at'[v] = at[v]
    BY <1>17, <1>a, RecvHandledMoves DEF Receiving
  <2>2. acc' = acc /\ open' = open /\ \A r \in Slots : recv'[r] = "none" <=> recv[r] = "none"
    BY <1>17, <1>a, RecvHandledMoves
  <2>3. \A r \in Slots : sess'[r].conn = sess[r].conn
    BY <1>17, <1>a, RecvHandledMoves DEF Same, SameConn
  <2> QED
    BY <1>a, <1>c, <1>b, <2>1, <2>2, <2>3 DEF ReceiveOpen
<1>18. ASSUME NEW w \in Workers, RecvCheck(w) PROVE ReceiveOpen'
  <2>1. \A v \in Workers : pc'[v] \in Receiving => pc[v] \in Receiving /\ at'[v] = at[v]
    BY <1>18, <1>a DEF RecvCheck, Receiving
  <2>2. acc' = acc /\ open' = open /\ \A r \in Slots : recv'[r] = "none" <=> recv[r] = "none"
    BY <1>18, <1>a DEF RecvCheck
  <2>3. \A r \in Slots : sess'[r].conn = sess[r].conn
    BY <1>18, <1>a DEF RecvCheck, Same, SameConn
  <2> QED
    BY <1>a, <1>c, <1>b, <2>1, <2>2, <2>3 DEF ReceiveOpen
<1>19. ASSUME NEW w \in Workers, RecvNext(w) PROVE ReceiveOpen'
  <2>1. /\ pc[w] = "post" /\ pc' = [pc EXCEPT ![w] = "give"] /\ at' = at /\ at[w] \in Slots
        /\ recv' = [recv EXCEPT ![at[w]] = "posted"] \/ recv' = recv
        /\ acc' = acc /\ open' = open
    BY <1>19, RecvNextMoves
  <2>2. \A r \in Slots : sess'[r].conn = sess[r].conn
    BY <1>19, RecvNextMoves DEF SameConn
  <2>3. \A v \in Workers : pc'[v] \in Receiving => pc[v] \in Receiving
    BY <1>a, <2>1 DEF Receiving
  <2>4. sess[at[w]].conn \in open
    BY <1>b, <2>1 DEF ReceiveOpen, Receiving
  <2> QED
    BY <1>a, <1>b, <1>c, <2>1, <2>2, <2>3, <2>4 DEF ReceiveOpen
<1>20. ASSUME NEW w \in Workers, Leave(w) PROVE ReceiveOpen'
  <2>1. /\ pc[w] = "leave" /\ pc' = [pc EXCEPT ![w] = "push"] /\ at' = at
        /\ open' = open \ {sess[at[w]].conn} /\ UNCHANGED <<sess, recv, acc>>
    BY <1>20, LeaveMoves
  <2>2. at[w] \in Slots /\ sess[at[w]].rel = 1
    BY <1>a, <2>1 DEF Releasing, IInv, OneRelease
  <2>3. ASSUME NEW r \in Slots, Live(r), sess[r].conn \in open PROVE sess[r].conn \in open'
    <3>1. r # at[w] /\ sess[r].conn # 0
      BY <2>2, <2>3 DEF Live
    <3>2. sess[r].conn # sess[at[w]].conn
      BY <2>2, <3>1 DEF IInv, ConnHasSlot
    <3> QED
      BY <2>1, <2>3, <3>2
  <2>4. \A v \in Workers : pc'[v] \in Receiving => pc[v] \in Receiving
    BY <1>a, <2>1 DEF Receiving
  <2>5. \A r \in Slots : recv[r] # "none" => Live(r)
    BY RecvCounts
  <2>6. \A v \in Workers : pc[v] \in Receiving => Live(at[v])
    BY <1>a, HolderCounts DEF Holding
  <2>7. acc.pc = "post" => Live(acc.slot)
    BY AccCounts DEF AccHolds
  <2> QED
    BY <1>a, <1>b, <1>c, <2>1, <2>3, <2>4, <2>5, <2>6, <2>7 DEF ReceiveOpen
<1>21. ASSUME NEW w \in Workers, Push(w) PROVE ReceiveOpen'
  <2>1. \A v \in Workers : pc'[v] \in Receiving => pc[v] \in Receiving /\ at'[v] = at[v]
    BY <1>21, <1>a, PushMoves DEF Receiving
  <2>2. acc' = acc /\ open' = open /\ \A r \in Slots : recv'[r] = "none" <=> recv[r] = "none"
    BY <1>21, <1>a, PushMoves
  <2>3. \A r \in Slots : sess'[r].conn = sess[r].conn
    BY <1>21, <1>a, PushMoves DEF Same, SameConn
  <2> QED
    BY <1>a, <1>c, <1>b, <2>1, <2>2, <2>3 DEF ReceiveOpen
<1>22. ASSUME NEW w \in Workers, Count(w) PROVE ReceiveOpen'
  <2>1. \A v \in Workers : pc'[v] \in Receiving => pc[v] \in Receiving /\ at'[v] = at[v]
    BY <1>22, <1>a, CountMoves DEF Receiving
  <2>2. acc' = acc /\ open' = open /\ \A r \in Slots : recv'[r] = "none" <=> recv[r] = "none"
    BY <1>22, <1>a, CountMoves
  <2>3. \A r \in Slots : sess'[r].conn = sess[r].conn
    BY <1>22, <1>a, CountMoves DEF Same, SameConn
  <2> QED
    BY <1>a, <1>c, <1>b, <2>1, <2>2, <2>3 DEF ReceiveOpen
<1>23. ASSUME NEW t \in Threads, Give(t) PROVE ReceiveOpen'
  <2>1. \A v \in Workers : pc'[v] \in Receiving => pc[v] \in Receiving /\ at'[v] = at[v]
    BY <1>23, <1>a, GiveMoves DEF Home, Receiving
  <2>2. acc' = acc /\ open' = open /\ \A r \in Slots : recv'[r] = "none" <=> recv[r] = "none"
    BY <1>23, <1>a, GiveMoves
  <2>3. \A r \in Slots : sess'[r].conn = sess[r].conn
    BY <1>23, <1>a, GiveMoves DEF Same, SameConn
  <2> QED
    BY <1>a, <1>c, <1>b, <2>1, <2>2, <2>3 DEF ReceiveOpen
<1>24. ASSUME NEW c \in Closers, CallDisconnect(c) PROVE ReceiveOpen'
  <2>1. \A v \in Workers : pc'[v] \in Receiving => pc[v] \in Receiving /\ at'[v] = at[v]
    BY <1>24, <1>a, CallMoves DEF Receiving
  <2>2. acc' = acc /\ open' = open /\ \A r \in Slots : recv'[r] = "none" <=> recv[r] = "none"
    BY <1>24, <1>a, CallMoves
  <2>3. \A r \in Slots : sess'[r].conn = sess[r].conn
    BY <1>24, <1>a, CallMoves DEF Same, SameConn
  <2> QED
    BY <1>a, <1>c, <1>b, <2>1, <2>2, <2>3 DEF ReceiveOpen
<1>25. ASSUME NEW t \in Callers, FirstFlag(t) PROVE ReceiveOpen'
  <2>1. \A v \in Workers : pc'[v] \in Receiving => pc[v] \in Receiving /\ at'[v] = at[v]
    BY <1>25, <1>a, FirstFlagMoves DEF Receiving
  <2>2. acc' = acc /\ open' = open /\ \A r \in Slots : recv'[r] = "none" <=> recv[r] = "none"
    BY <1>25, <1>a, FirstFlagMoves
  <2>3. \A r \in Slots : sess'[r].conn = sess[r].conn
    BY <1>25, <1>a, FirstFlagMoves DEF Same, SameConn
  <2> QED
    BY <1>a, <1>c, <1>b, <2>1, <2>2, <2>3 DEF ReceiveOpen
<1>26. ASSUME NEW t \in Callers, Cancel(t) PROVE ReceiveOpen'
  <2>1. \A v \in Workers : pc'[v] \in Receiving => pc[v] \in Receiving /\ at'[v] = at[v]
    BY <1>26, <1>a DEF Cancel, Receiving
  <2>2. acc' = acc /\ open' = open /\ \A r \in Slots : recv'[r] = "none" <=> recv[r] = "none"
    BY <1>26, <1>a DEF Cancel
  <2>3. \A r \in Slots : sess'[r].conn = sess[r].conn
    BY <1>26, <1>a DEF Cancel, Same, SameConn
  <2> QED
    BY <1>a, <1>c, <1>b, <2>1, <2>2, <2>3 DEF ReceiveOpen
<1>27. ASSUME StopBegin PROVE ReceiveOpen'
  <2>1. \A v \in Workers : pc'[v] \in Receiving => pc[v] \in Receiving /\ at'[v] = at[v]
    BY <1>27, <1>a DEF StopBegin, Receiving
  <2>2. acc' = acc /\ open' = open /\ \A r \in Slots : recv'[r] = "none" <=> recv[r] = "none"
    BY <1>27, <1>a DEF StopBegin
  <2>3. \A r \in Slots : sess'[r].conn = sess[r].conn
    BY <1>27, <1>a DEF StopBegin, Same, SameConn
  <2> QED
    BY <1>a, <1>c, <1>b, <2>1, <2>2, <2>3 DEF ReceiveOpen
<1>28. ASSUME StopLook PROVE ReceiveOpen'
  <2>1. \A v \in Workers : pc'[v] \in Receiving => pc[v] \in Receiving /\ at'[v] = at[v]
    BY <1>28, <1>a, StopLookMoves DEF Visits, Receiving
  <2>2. acc' = acc /\ open' = open /\ \A r \in Slots : recv'[r] = "none" <=> recv[r] = "none"
    BY <1>28, <1>a, StopLookMoves DEF Visits
  <2>3. \A r \in Slots : sess'[r].conn = sess[r].conn
    BY <1>28, <1>a, StopLookMoves DEF Visits, Same, SameConn
  <2> QED
    BY <1>a, <1>c, <1>b, <2>1, <2>2, <2>3 DEF ReceiveOpen
<1>29. ASSUME StopNext PROVE ReceiveOpen'
  <2>1. \A v \in Workers : pc'[v] \in Receiving => pc[v] \in Receiving /\ at'[v] = at[v]
    BY <1>29, <1>a, StopNextMoves DEF Visits, Receiving
  <2>2. acc' = acc /\ open' = open /\ \A r \in Slots : recv'[r] = "none" <=> recv[r] = "none"
    BY <1>29, <1>a, StopNextMoves DEF Visits
  <2>3. \A r \in Slots : sess'[r].conn = sess[r].conn
    BY <1>29, <1>a, StopNextMoves DEF Visits, Same, SameConn
  <2> QED
    BY <1>a, <1>c, <1>b, <2>1, <2>2, <2>3 DEF ReceiveOpen
<1>30. ASSUME StopJoin PROVE ReceiveOpen'
  <2>1. \A v \in Workers : pc'[v] \in Receiving => pc[v] \in Receiving /\ at'[v] = at[v]
    BY <1>30, <1>a DEF StopJoin, Receiving
  <2>2. acc' = acc /\ open' = open /\ \A r \in Slots : recv'[r] = "none" <=> recv[r] = "none"
    BY <1>30, <1>a DEF StopJoin
  <2>3. \A r \in Slots : sess'[r].conn = sess[r].conn
    BY <1>30, <1>a DEF StopJoin, Same, SameConn
  <2> QED
    BY <1>a, <1>c, <1>b, <2>1, <2>2, <2>3 DEF ReceiveOpen
<1>u. CASE UNCHANGED vars
  BY <1>u, <1>a, <1>b, <1>c DEF ReceiveOpen
<1> QED
  BY <1>1, <1>2, <1>3, <1>4, <1>5, <1>5c, <1>5o, <1>6, <1>7, <1>8, <1>9, <1>10, <1>11, <1>12,
     <1>13, <1>14, <1>15, <1>16, <1>17, <1>18, <1>19, <1>20, <1>21, <1>22, <1>23, <1>24, <1>25, <1>26, <1>27,
     <1>28, <1>29, <1>30, <1>u
  DEF Next, AcceptStep, Serve, WorkerStep, CallerStep, StopStep, Threads, Callers

-----------------------------------------------------------------------------
(* The end of Stop *)

\* When no session is counted nothing is left in the table.
LEMMA NothingCounted ==
  ASSUME IInv, curCnt = 0
  PROVE  /\ \A s \in Slots : Free(s) /\ recv[s] = "none" /\ relMsgs[s] = 0
         /\ open = {}
         /\ \A t \in Threads : pc[t] \notin Holding \cup Releasing \cup {"count"}
         /\ acc.pc \notin {"iocp", "join", "post", "give"}
<1>1. Cardinality(Out) = 0 /\ Cardinality(Late) = 0
  BY CountParts DEF IInv, CountTrue, InCount
<1>2. Out = {} /\ Late = {}
  BY <1>1, CountParts, FS_EmptySet
<1>3. \A s \in Slots : Free(s)
  BY <1>2 DEF Out, IInv, FreeSlots
<1>4. \A s \in Slots : recv[s] = "none" /\ relMsgs[s] = 0
  BY <1>3, RecvCounts DEF Free
<1>5. open = {}
  BY <1>3 DEF IInv, ConnHasSlot, Free
<1>6. ASSUME NEW t \in Threads PROVE pc[t] \notin Holding
  BY <1>3, <1>6, HolderCounts DEF Free
<1>7. ASSUME NEW t \in Workers PROVE pc[t] \notin Releasing \cup {"count"}
  <2>1. pc[t] # "count"
    BY <1>2, <1>7 DEF Late
  <2>2. pc[t] \in Releasing => at[t] \in Slots
    BY <1>7 DEF IInv, Roles, Threads
  <2>3. pc[t] \notin Releasing
    BY <1>3, <1>7, <2>2 DEF Free
  <2> QED
    BY <2>1, <2>3
<1>8. ASSUME NEW t \in Callers PROVE pc[t] \notin Releasing \cup {"count"}
  BY <1>8 DEF IInv, Roles, Callers, Releasing
<1>9. acc.pc \notin {"iocp", "join", "post", "give"}
  <2>1. acc.slot \in Slots
    BY DEF IInv, TypeOK
  <2> QED
    BY <1>3, <2>1, AccCounts DEF AccHolds, Free
<1> QED
  BY <1>3, <1>4, <1>5, <1>6, <1>7, <1>8, <1>9 DEF Threads

\* Once the completion port is closed nothing comes after it.
LEMMA StoppedStep ==
  ASSUME NoScan, IInv, [Next]_vars
  PROVE  Stopped'
<1>a. /\ allocID \in Nat /\ stack \in Seq(Slots) /\ acc \in [pc : AccPCs, slot : Slots] /\ acc.slot \in Slots
      /\ pc \in [Threads -> PCs] /\ at \in [Threads -> Slots \cup {None}]
      /\ DOMAIN recv = Slots /\ relMsgs \in [Slots -> Nat] /\ sess \in [Slots -> Sess]
      /\ \A s \in Slots : sess[s].ref \in Nat /\ sess[s].rel \in {0, 1}
      /\ \A t \in Threads : pc[t] \in Holding \cup Releasing \cup {"round"} => at[t] \in Slots
      /\ Main \in Threads /\ Workers \subseteq Threads /\ Closers \subseteq Threads
      /\ Callers \subseteq Threads /\ Main \notin Workers /\ Closers \cap Workers = {}
  BY TypeFacts, ThreadsApart, Bounds DEF IInv, TypeOK, Threads, Callers, TableType
<1>b. Stopped /\ Roles
  BY DEF IInv
<1>1. ASSUME Accept PROVE Stopped'
  BY <1>1, <1>a, <1>b DEF Accept, Stopped
<1>2. ASSUME CountIn PROVE Stopped'
  BY <1>2, <1>a, <1>b DEF CountIn, Stopped
<1>3. ASSUME Refuse PROVE Stopped'
  BY <1>3, <1>a, <1>b DEF Refuse, Stopped
<1>4. ASSUME Pop PROVE Stopped'
  BY <1>4, <1>a, <1>b DEF Pop, Stopped
<1>5. ASSUME InitName PROVE Stopped'
  BY <1>5, <1>a, <1>b, InitNameMoves DEF Stopped
<1>5c. ASSUME InitCount PROVE Stopped'
  BY <1>5c, <1>a, <1>b, InitCountMoves DEF Stopped
<1>5o. ASSUME InitOpen PROVE Stopped'
  BY <1>5o, <1>a, <1>b, InitOpenMoves DEF Stopped
<1>6. ASSUME Register PROVE Stopped'
  BY <1>6, <1>a, <1>b DEF Register, Stopped
<1>7. ASSUME Join PROVE Stopped'
  BY <1>7, <1>a, <1>b DEF Join, Stopped
<1>8. ASSUME FirstRecv PROVE Stopped'
  BY <1>8, <1>a, <1>b, FirstRecvMoves DEF Stopped
<1>9. ASSUME AcceptGive PROVE Stopped'
  BY <1>9, <1>a, <1>b, AcceptGiveMoves DEF Stopped
<1>10. ASSUME AcceptEnd PROVE Stopped'
  BY <1>10, <1>a, <1>b DEF AcceptEnd, Stopped
<1>11. ASSUME NEW s \in Slots, PeerSends(s) PROVE Stopped'
  BY <1>11, <1>a, <1>b DEF PeerSends, Stopped
<1>12. ASSUME NEW s \in Slots, PeerCloses(s) PROVE Stopped'
  BY <1>12, <1>a, <1>b DEF PeerCloses, Stopped
<1>13. ASSUME NEW s \in Slots, RecvEnds(s) PROVE Stopped'
  BY <1>13, <1>a, <1>b DEF RecvEnds, Stopped
<1>14. ASSUME NEW w \in Workers, NEW s \in Slots, RecvTake(w, s) PROVE Stopped'
  BY <1>14, <1>a, <1>b, RecvTakeMoves DEF Stopped
<1>15. ASSUME NEW w \in Workers, NEW s \in Slots, ReleaseTake(w, s) PROVE Stopped'
  BY <1>15, <1>a, <1>b, ReleaseTakeMoves DEF Stopped
<1>16. ASSUME NEW w \in Workers, RecvStart(w) PROVE Stopped'
  BY <1>16, <1>a, <1>b DEF RecvStart, Stopped
<1>17. ASSUME NEW w \in Workers, RecvHandled(w) PROVE Stopped'
  BY <1>17, <1>a, <1>b, RecvHandledMoves DEF Stopped
<1>18. ASSUME NEW w \in Workers, RecvCheck(w) PROVE Stopped'
  BY <1>18, <1>a, <1>b DEF RecvCheck, Stopped
<1>19. ASSUME NEW w \in Workers, RecvNext(w) PROVE Stopped'
  BY <1>19, <1>a, <1>b, RecvNextMoves DEF Stopped
<1>20. ASSUME NEW w \in Workers, Leave(w) PROVE Stopped'
  BY <1>20, <1>a, <1>b, LeaveMoves DEF Stopped
<1>21. ASSUME NEW w \in Workers, Push(w) PROVE Stopped'
  BY <1>21, <1>a, <1>b, PushMoves DEF Stopped
<1>22. ASSUME NEW w \in Workers, Count(w) PROVE Stopped'
  BY <1>22, <1>a, <1>b, CountMoves DEF Stopped
<1>23. ASSUME NEW t \in Threads, Give(t) PROVE Stopped'
  BY <1>23, <1>a, <1>b, GiveMoves DEF Stopped, Threads, Callers
<1>24. ASSUME NEW c \in Closers, CallDisconnect(c) PROVE Stopped'
  BY <1>24, <1>a, <1>b, CallMoves DEF Stopped
<1>25. ASSUME NEW t \in Callers, FirstFlag(t) PROVE Stopped'
  BY <1>25, <1>a, <1>b, FirstFlagMoves DEF Stopped
<1>26. ASSUME NEW t \in Callers, Cancel(t) PROVE Stopped'
  BY <1>26, <1>a, <1>b DEF Cancel, Stopped
<1>27. ASSUME StopBegin PROVE Stopped'
  BY <1>27, <1>a, <1>b DEF StopBegin, Stopped
<1>28. ASSUME StopLook PROVE Stopped'
  <2>1. /\ pc[Main] = "wait" /\ iocp' = (curCnt # 0)
        /\ UNCHANGED <<recv, relMsgs, open, acc, listening>>
    BY <1>28, StopLookMoves
  <2>2. CASE curCnt # 0
    BY <2>1, <2>2 DEF Stopped
  <2>3. CASE curCnt = 0
    <3>1. /\ pc' = [pc EXCEPT ![Main] = "join"]
      BY <1>28, <2>3, StopLookMoves
    <3>2. /\ \A s \in Slots : recv[s] = "none" /\ relMsgs[s] = 0
          /\ open = {} /\ acc.pc \notin {"iocp", "join", "post", "give"}
          /\ \A t \in Threads : pc[t] \notin Holding \cup Releasing \cup {"count"}
      BY <2>3, NothingCounted
    <3>3. ~listening
      BY <1>b, <2>1 DEF Roles
    <3>4. \A t \in Workers : pc[t] = "idle"
      BY <1>a, <1>b, <3>2 DEF Roles, Holding
    <3>5. \A t \in Closers : pc[t] = "idle"
      BY <1>a, <1>b, <3>2 DEF Roles, Holding
    <3>6. \A t \in Workers \cup Closers : pc'[t] = "idle"
      BY <1>a, <3>1, <3>4, <3>5, ThreadsApart
    <3>7. pc'[Main] = "join"
      BY <1>a, <3>1
    <3> QED
      BY <2>1, <3>2, <3>3, <3>6, <3>7 DEF Stopped
  <2> QED
    BY <2>2, <2>3
<1>29. ASSUME StopNext PROVE Stopped'
  BY <1>29, <1>a, <1>b, StopNextMoves DEF Visits, Stopped, Visits
<1>30. ASSUME StopJoin PROVE Stopped'
  BY <1>30, <1>a, <1>b DEF StopJoin, Stopped
<1>u. CASE UNCHANGED vars
  BY <1>u, <1>a, <1>b DEF Stopped
<1> QED
  BY <1>1, <1>2, <1>3, <1>4, <1>5, <1>5c, <1>5o, <1>6, <1>7, <1>8, <1>9, <1>10, <1>11, <1>12,
     <1>13, <1>14, <1>15, <1>16, <1>17, <1>18, <1>19, <1>20, <1>21, <1>22, <1>23, <1>24, <1>25, <1>26, <1>27,
     <1>28, <1>29, <1>30, <1>u
  DEF Next, AcceptStep, Serve, WorkerStep, CallerStep, StopStep, Threads, Callers

-----------------------------------------------------------------------------
(* The initial states *)

\* At first every index is free and on the stack.
LEMMA InitStack ==
  ASSUME Init
  PROVE  /\ stack \in Seq(Slots) /\ Once(stack) /\ \A s \in Slots : InStack(s)
<1>1. MaxSession \in Nat \ {0} /\ stack = [i \in 1..MaxSession |-> MaxSession - i]
  BY Bounds DEF Init
<1>2. \A i \in 1..MaxSession : MaxSession - i \in Slots
  BY <1>1 DEF Slots
<1>3. stack \in [1..MaxSession -> Slots]
  BY <1>1, <1>2
<1>4. stack \in Seq(Slots) /\ Len(stack) = MaxSession
  BY <1>1, <1>3, SeqDef, LenProperties
<1>5. Once(stack)
  BY <1>1, <1>4 DEF Once
<1>6. ASSUME NEW s \in Slots PROVE InStack(s)
  <2>1. MaxSession - s \in 1..MaxSession /\ MaxSession - (MaxSession - s) = s
    BY <1>1, <1>6 DEF Slots
  <2>2. stack[MaxSession - s] = s
    BY <1>1, <2>1
  <2> QED
    BY <1>4, <2>1, <2>2 DEF InStack, In
<1> QED
  BY <1>4, <1>5, <1>6

\* The initial states satisfy the inductive invariant.
LEMMA InitIInv ==
  ASSUME Init
  PROVE  IInv
<1>1. /\ sess = [s \in Slots |-> [conn |-> 0, ref |-> 0, rel |-> 0, dc |-> 0]]
      /\ recv = [s \in Slots |-> "none"] /\ gone = {} /\ relMsgs = [s \in Slots |-> 0]
      /\ curCnt = 0 /\ allocID = 0 /\ open = {} /\ acc = [pc |-> "accept", slot |-> 0]
      /\ pc = [t \in Threads |-> "idle"] /\ at = [t \in Threads |-> None]
      /\ calls = 0 /\ listening = TRUE /\ iocp = TRUE
  BY DEF Init, Threads
<1>2. MaxSession \in Nat \ {0} /\ MaxConn \in Nat /\ MaxCalls \in Nat /\ 0 \in Slots
  BY Bounds DEF Slots
<1>3. \A t \in Threads : pc[t] = "idle"
  BY <1>1
<1>4. \A s \in Slots : /\ sess[s].conn = 0 /\ sess[s].ref = 0 /\ sess[s].rel = 0
                       /\ recv[s] = "none" /\ relMsgs[s] = 0
  BY <1>1
<1>5. TypeOK
  <2>1. [conn |-> 0, ref |-> 0, rel |-> 0, dc |-> 0] \in Sess
    BY <1>2 DEF Sess
  <2>2. sess \in [Slots -> Sess]
    BY <1>1, <2>1
  <2>3. acc \in [pc : AccPCs, slot : Slots]
    BY <1>1, <1>2 DEF AccPCs
  <2>4. pc \in [Threads -> PCs] /\ at \in [Threads -> Slots \cup {None}]
    BY <1>1 DEF PCs
  <2>5. /\ recv \in [Slots -> {"none", "posted", "data", "end"}] /\ gone \subseteq Slots
        /\ relMsgs \in [Slots -> Nat] /\ open \subseteq 1..MaxConn
        /\ curCnt \in Nat /\ allocID \in 0..MaxConn /\ calls \in 0..MaxCalls
        /\ listening \in BOOLEAN /\ iocp \in BOOLEAN
    BY <1>1, <1>2
  <2> QED
    BY <2>2, <2>3, <2>4, <2>5, InitStack DEF TypeOK, Threads
<1>6. Roles
  BY <1>1, <1>3 DEF Roles, Receiving, Holding, Releasing, Threads, Callers
<1>7. RefCounted
  <2>1. ASSUME NEW s \in Slots PROVE Held(s) = {}
    BY <1>3 DEF Held, Holding, Receiving
  <2>2. Cardinality({}) = 0
    BY FS_EmptySet
  <2>3. ASSUME NEW s \in Slots PROVE RefOf(s) = 0
    BY <1>1, <1>4, <2>1, <2>2 DEF RefOf, AccOf, AccHolds, RecvOf
  <2> QED
    BY <1>4, <2>3 DEF RefCounted, Balanced
<1>8. NoneHolds
  BY <1>1, <1>4 DEF NoneHolds, Counted
<1>9. OneRelease
  BY <1>3, <1>4 DEF OneRelease, Releasing, Threads
<1>10. FreeSlots
  BY <1>1, <1>3, <1>4, InitStack DEF FreeSlots, Fresh, Free, Live, Releasing, Threads
<1>11. CountTrue
  <2>1. Out = {} /\ Late = {}
    BY <1>3, InitStack DEF Out, Late, Threads
  <2>2. Cardinality({}) = 0
    BY FS_EmptySet
  <2> QED
    BY <1>1, <2>1, <2>2 DEF CountTrue, InCount
<1>12. ConnHasSlot
  BY <1>1, <1>4 DEF ConnHasSlot
<1>13. OneReceive
  BY <1>1, <1>3, <1>4 DEF OneReceive, NoReceiver, Receiving, Threads
<1>14. ReceiveOpen
  BY <1>1, <1>3, <1>4 DEF ReceiveOpen, Receiving, Threads
<1>15. Stopped
  BY <1>1 DEF Stopped
<1> QED
  BY <1>5, <1>6, <1>7, <1>8, <1>9, <1>10, <1>11, <1>12, <1>13, <1>14, <1>15 DEF IInv

-----------------------------------------------------------------------------
(* The invariants *)

\* Each step keeps the inductive invariant.
LEMMA IInvStep ==
  ASSUME NoScan, IInv, [Next]_vars
  PROVE  IInv'
  BY TypeStep, RolesStep, RefStep, NoneStep, ReleaseStep, FreeStep, CountStep, ConnStep,
     ReceiveStep, OpenStep, StoppedStep DEF IInv

\* The inductive invariant: m_RefCnt and m_CurSessionCnt count what they are
\* meant to, every index has one owner, and so have the release and the
\* receive of every session.
THEOREM Invariance ==
  ASSUME NoScan
  PROVE  Spec => []IInv
<1>1. Init => IInv
  BY InitIInv
<1>2. IInv /\ [Next]_vars => IInv'
  BY IInvStep
<1> QED
  BY <1>1, <1>2, PTL DEF Spec

\* The types of m_SessionTable, of the stack of indices and of the threads;
\* no count falls below zero.
THEOREM Types ==
  ASSUME NoScan
  PROVE  Spec => []TypeOK
<1>1. IInv => TypeOK
  BY DEF IInv
<1> QED
  BY <1>1, Invariance, PTL

\* AcceptThread always pops an index, and one that nothing uses any more.
THEOREM Pops ==
  ASSUME NoScan
  PROVE  Spec => []PopFindsIndex
<1>1. ASSUME IInv PROVE PopFindsIndex
  <2>1. stack \in Seq(Slots)
    BY <1>1 DEF IInv, TypeOK
  <2>2. ASSUME NEW i \in 1..Len(stack)
        PROVE  sess[stack[i]].conn \notin open /\ relMsgs[stack[i]] = 0
    <3>1. stack[i] \in Slots
      BY <2>1, <2>2, ElementOfSeq
    <3>2. InStack(stack[i])
      BY <2>2 DEF InStack, In
    <3> QED
      BY <1>1, <3>1, <3>2 DEF IInv, FreeSlots, Free
  <2> QED
    BY <1>1, <2>2, PopFinds DEF PopFindsIndex
<1>2. IInv => PopFindsIndex
  BY <1>1
<1> QED
  BY <1>2, Invariance, PTL

\* OnRecv of one session never runs in two workers.
THEOREM ReceivesInOrder ==
  ASSUME NoScan
  PROVE  Spec => []RecvInOrder
<1>1. IInv => RecvInOrder
  BY DEF IInv, OneReceive, RecvInOrder, Receiving
<1> QED
  BY <1>1, Invariance, PTL

\* OnRecv is called between OnClientJoin and OnClientLeave only.
THEOREM ReceivesWhileOpen ==
  ASSUME NoScan
  PROVE  Spec => []RecvWhileOpen
<1>1. IInv => RecvWhileOpen
  BY DEF IInv, ReceiveOpen, RecvWhileOpen, Receiving
<1> QED
  BY <1>1, Invariance, PTL

\* Stop closes the completion port when nothing is left that needs it.
THEOREM StopIsClean ==
  ASSUME NoScan
  PROVE  Spec => []StopLeavesNothing
<1>1. IInv => StopLeavesNothing
  BY DEF IInv, Stopped, StopLeavesNothing
<1> QED
  BY <1>1, Invariance, PTL
=============================================================================
