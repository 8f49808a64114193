--------------------------- MODULE SendPathProofs ----------------------------
(***************************************************************************)
(* Proofs about SendPath for every finite set of threads, every set of     *)
(* messages, every batch and every limit, in both send modes.              *)
(***************************************************************************)
EXTENDS SendPath, FiniteSetTheorems, SequenceTheorems, TLAPS

-----------------------------------------------------------------------------
(* The inductive invariant *)

\* The threads whose place, in p, is one of K.
Where(p, K) == {t \in Threads : p[t] \in K}

\* Where a thread holds a reference to the session.
HoldingPCs == {"check", "room", "link", "count", "scan", "post", "flag", "size", "unflag",
               "again", "deq", "wsa", "dc", "dec", "free", "clear"}

\* Where a thread owns m_SendFlag, and with it m_SendArray and m_SendOverlapped.
OwningPCs == {"size", "unflag", "deq", "wsa", "free", "clear"}

\* Where a thread is in ReleaseProc.
ClosingPCs == {"array", "drain"}

\* m_RefCnt is the number of threads that hold a reference, one for the pending
\* send and one for the receive side.
RefCounted == refCnt = Cardinality(Where(pc, HoldingPCs)) + sendPend + (IF recv THEN 1 ELSE 0)

\* Which threads come where, and in which mode.
Roles ==
    /\ \A t \in Threads :
        /\ pc[t] \in {"room", "link", "count", "drop"} => t \in Senders
        /\ pc[t] \in {"free", "clear", "array", "drain"} => t \in Workers
        /\ pc[t] = "scan" => t = Sweeper
        /\ pc[t] \in {"size", "unflag", "again"} => sendThFL = 0
        /\ sendThFL = 1 /\ pc[t] \in {"post", "flag", "deq", "wsa"} => t = Sweeper
    /\ sendThFL = 0 => pc[Sweeper] = "idle"

\* m_SendFlag is up while a thread owns it or a WSASend is pending, and there is
\* one owner.  In the mode 1 SendThread saw the flag down, and nobody else raises it.
FlagOwned ==
    /\ \A t \in Threads : pc[t] \in OwningPCs => sendFlag = 1 /\ sendPend = 0
    /\ sendPend > 0 => sendFlag = 1
    /\ sendPend <= 1
    /\ \A t, u \in Threads : pc[t] \in OwningPCs /\ pc[u] \in OwningPCs => t = u
    /\ sendThFL = 1 /\ pc[Sweeper] \in {"post", "flag"} => sendFlag = 0

\* m_SendArray is empty whenever somebody may fill it.
ArrayOwned ==
    /\ sendArr # <<>> => sendFlag = 1
    /\ \A t \in Threads : sendArr # <<>> /\ pc[t] \in OwningPCs => pc[t] = "free"
    /\ \A t \in Threads : got[t] # <<>> => pc[t] \in {"deq", "wsa"}

\* Once m_RelFlag is up nobody gets past SessionInvalid, and ReleaseProc runs once.
Released ==
    /\ relFlag = 1 => sendPend = 0 /\ ~recv
    /\ \A t \in Threads : relFlag = 1 /\ pc[t] \in HoldingPCs => pc[t] \in {"check", "dec"}
    /\ relFlag = 0 => relMsgs = 0 /\ ~closed
    /\ \A t \in Threads : pc[t] \in ClosingPCs => relFlag = 1 /\ relMsgs = 0 /\ ~closed
    /\ relMsgs <= 1
    /\ relMsgs > 0 => ~closed
    /\ closed => sendQ = <<>>
    /\ \A t, u \in Threads : pc[t] \in ClosingPCs /\ pc[u] \in ClosingPCs => t = u

\* m_size is behind by the threads between the linking CAS and the increment.
SizeCounts == qSize = Len(sendQ) - Cardinality(Where(pc, {"count"}))

\* Who is about to link a message has found room for it.
RoomLeft == Len(sendQ) + Cardinality(Where(pc, {"link"})) <= QMax + Cardinality(Senders) - 1

\* Each sender sends a message of its own.
OwnMessages ==
    /\ \A t \in Threads : cur[t] # NoMsg <=> t \in Senders /\ pc[t] # "idle"
    /\ \A t, u \in Threads : cur[t] = cur[u] /\ cur[t] # NoMsg => t = u
    /\ \A t \in Threads : cur[t] \notin fresh

\* A message is in the queue once, or in the array, or with the thread that
\* fills it, and in none of them before it is linked.
InGot(m) == \E t \in Threads : m \in ToSet(got[t])
Handed(m) == m \in ToSet(sendQ) \/ m \in ToSet(sendArr) \/ InGot(m)
Unlinked(m) == m \in fresh \/ \E t \in Threads : m = cur[t] /\ pc[t] \in {"check", "room", "link"}

Distinct(q) == \A i, j \in 1..Len(q) : q[i] = q[j] => i = j

OnePlace ==
    /\ Distinct(sendQ)
    /\ \A m \in ToSet(sendQ) : m \notin ToSet(sendArr) /\ ~InGot(m)
    /\ \A m \in Msgs : Unlinked(m) => ~Handed(m)

\* m_iRefCnt, place by place.
IsCur(m) == m \in {cur[t] : t \in Threads}
RefsOf(m) ==
    (IF IsCur(m) THEN 1 ELSE 0) + (IF m \in ToSet(sendQ) THEN 1 ELSE 0)
    + (IF m \in InArray THEN 1 ELSE 0) + (IF InGot(m) THEN 1 ELSE 0)
MessagesHeld == \A m \in Msgs : msgRef[m] = RefsOf(m)

IInv ==
    /\ TypeOK /\ Roles /\ RefCounted /\ FlagOwned /\ ArrayOwned /\ Released
    /\ SizeCounts /\ RoomLeft /\ OwnMessages /\ OnePlace /\ MessagesHeld
    /\ SentInOrder /\ NoLostWakeup

-----------------------------------------------------------------------------
(* Counting threads *)

\* A set of threads is finite, and its cardinality a number.
LEMMA WhereFinite ==
  ASSUME NEW p, NEW K
  PROVE  IsFiniteSet(Where(p, K)) /\ Cardinality(Where(p, K)) \in Nat
<1>1. Where(p, K) \in SUBSET Threads
  BY DEF Where
<1> QED
  BY <1>1, ThreadsFinite, FS_Subset, FS_CardinalityType

\* When thread t goes to a place, it is the only one that comes or goes.
LEMMA MoveCount ==
  ASSUME NEW p \in [Threads -> PCs], NEW t \in Threads, NEW place \in PCs, NEW K
  PROVE  LET q == [p EXCEPT ![t] = place] IN
         /\ place \in K /\ p[t] \notin K => Cardinality(Where(q, K)) = Cardinality(Where(p, K)) + 1
         /\ place \notin K /\ p[t] \in K => Cardinality(Where(q, K)) = Cardinality(Where(p, K)) - 1
         /\ (place \in K <=> p[t] \in K) => Cardinality(Where(q, K)) = Cardinality(Where(p, K))
<1> DEFINE q == [p EXCEPT ![t] = place]
<1>1. t \in Where(p, K) <=> p[t] \in K
  BY DEF Where
<1>2. CASE place \in K
  <2>1. Where(q, K) = Where(p, K) \cup {t}
    BY <1>2 DEF Where
  <2>2. Cardinality(Where(q, K)) = IF t \in Where(p, K) THEN Cardinality(Where(p, K))
                                   ELSE Cardinality(Where(p, K)) + 1
    BY <2>1, WhereFinite, FS_AddElement
  <2> QED
    BY <1>1, <1>2, <2>2
<1>3. CASE place \notin K
  <2>1. Where(q, K) = Where(p, K) \ {t}
    BY <1>3 DEF Where
  <2>2. Cardinality(Where(q, K)) = IF t \in Where(p, K) THEN Cardinality(Where(p, K)) - 1
                                   ELSE Cardinality(Where(p, K))
    BY <2>1, WhereFinite, FS_RemoveElement
  <2> QED
    BY <1>1, <1>3, <2>2
<1> QED
  BY <1>2, <1>3

\* The same for the step of a thread: how many are at the places K.
Counted(K) ==
    \A t \in Threads, place \in PCs : pc' = [pc EXCEPT ![t] = place] =>
        /\ place \in K /\ pc[t] \notin K => Cardinality(Where(pc', K)) = Cardinality(Where(pc, K)) + 1
        /\ place \notin K /\ pc[t] \in K => Cardinality(Where(pc', K)) = Cardinality(Where(pc, K)) - 1
        /\ (place \in K <=> pc[t] \in K) => Cardinality(Where(pc', K)) = Cardinality(Where(pc, K))

\* MoveCount said of pc.
LEMMA GotoCount ==
  ASSUME pc \in [Threads -> PCs], NEW K
  PROVE  Counted(K)
<1>1. ASSUME NEW t \in Threads, NEW place \in PCs, pc' = [pc EXCEPT ![t] = place]
      PROVE  /\ place \in K /\ pc[t] \notin K =>
                   Cardinality(Where(pc', K)) = Cardinality(Where(pc, K)) + 1
             /\ place \notin K /\ pc[t] \in K =>
                   Cardinality(Where(pc', K)) = Cardinality(Where(pc, K)) - 1
             /\ (place \in K <=> pc[t] \in K) =>
                   Cardinality(Where(pc', K)) = Cardinality(Where(pc, K))
  BY <1>1, MoveCount
<1> QED
  BY <1>1 DEF Counted


-----------------------------------------------------------------------------
(* The count of the session *)

\* Every increment of m_RefCnt has its decrement, on every path.
LEMMA RefStep ==
  ASSUME IInv, [Next]_vars
  PROVE  RefCounted'
<1> USE DEF IInv
<1>a. pc \in [Threads -> PCs] /\ refCnt \in Nat /\ sendPend \in Nat
  BY DEF TypeOK
<1>b. Cardinality(Where(pc, HoldingPCs)) \in Nat
  BY WhereFinite
<1>c. Counted(HoldingPCs)
  BY <1>a, GotoCount
<1> USE DEF RefCounted, session, queue, io, history, rest
<1>1. ASSUME NEW s \in Senders, CallSend(s) PROVE RefCounted'
  <2>1. Cardinality(Where(pc', HoldingPCs)) = Cardinality(Where(pc, HoldingPCs)) + 1
    BY <1>1, <1>a, <1>c DEF CallSend, Goto, Counted, HoldingPCs, PCs, Threads
  <2> QED
    BY <1>1, <1>a, <1>b, <2>1 DEF CallSend
<1>2. ASSUME NEW c \in Closers, CallDisconnect(c) PROVE RefCounted'
  <2>1. Cardinality(Where(pc', HoldingPCs)) = Cardinality(Where(pc, HoldingPCs)) + 1
    BY <1>2, <1>a, <1>c DEF CallDisconnect, Goto, Counted, HoldingPCs, PCs, Threads
  <2> QED
    BY <1>2, <1>a, <1>b, <2>1 DEF CallDisconnect
<1>3. ASSUME Sweep PROVE RefCounted'
  <2>1. Cardinality(Where(pc', HoldingPCs)) = Cardinality(Where(pc, HoldingPCs)) + 1
    BY <1>3, <1>a, <1>c DEF Sweep, Goto, Counted, HoldingPCs, PCs, Threads
  <2> QED
    BY <1>3, <1>a, <1>b, <2>1 DEF Sweep
<1>4. ASSUME NEW w \in Workers, TakeSend(w) PROVE RefCounted'
  <2>1. Cardinality(Where(pc', HoldingPCs)) = Cardinality(Where(pc, HoldingPCs)) + 1
    BY <1>4, <1>a, <1>c DEF TakeSend, Goto, Counted, HoldingPCs, PCs, Threads
  <2> QED
    BY <1>4, <1>a, <1>b, <2>1 DEF TakeSend
<1>5. ASSUME NEW w \in Workers, RecvEnd(w) PROVE RefCounted'
  <2>1. Cardinality(Where(pc', HoldingPCs)) = Cardinality(Where(pc, HoldingPCs)) + 1
    BY <1>5, <1>a, <1>c DEF RecvEnd, Goto, Counted, HoldingPCs, PCs, Threads
  <2> QED
    BY <1>5, <1>a, <1>b, <2>1 DEF RecvEnd
<1>6. ASSUME NEW w \in Workers, TakeRelease(w) PROVE RefCounted'
  BY <1>6, <1>a, <1>b, <1>c DEF TakeRelease, Goto, HoldingPCs, PCs, Threads, Counted
<1>7. ASSUME NEW t \in Threads, Check(t) PROVE RefCounted'
  BY <1>7, <1>a, <1>b, <1>c DEF Check, Goto, HoldingPCs, PCs, Threads, Counted
<1>8. ASSUME NEW t \in Threads, Room(t) PROVE RefCounted'
  BY <1>8, <1>a, <1>b, <1>c DEF Room, Goto, HoldingPCs, PCs, Threads, Counted
<1>9. ASSUME NEW t \in Threads, Link(t) PROVE RefCounted'
  BY <1>9, <1>a, <1>b, <1>c DEF Link, Goto, HoldingPCs, PCs, Threads, Counted
<1>10. ASSUME NEW t \in Threads, Count(t) PROVE RefCounted'
  BY <1>10, <1>a, <1>b, <1>c DEF Count, Goto, HoldingPCs, PCs, Threads, Counted
<1>11. ASSUME NEW t \in Threads, Scan(t) PROVE RefCounted'
  BY <1>11, <1>a, <1>b, <1>c DEF Scan, Goto, HoldingPCs, PCs, Threads, Counted
<1>12. ASSUME NEW t \in Threads, Post(t) PROVE RefCounted'
  BY <1>12, <1>a, <1>b, <1>c DEF Post, Goto, HoldingPCs, PCs, Threads, Counted
<1>13. ASSUME NEW t \in Threads, Flag(t) PROVE RefCounted'
  BY <1>13, <1>a, <1>b, <1>c DEF Flag, Goto, HoldingPCs, PCs, Threads, Counted
<1>14. ASSUME NEW t \in Threads, Size(t) PROVE RefCounted'
  BY <1>14, <1>a, <1>b, <1>c DEF Size, Goto, HoldingPCs, PCs, Threads, Counted
<1>15. ASSUME NEW t \in Threads, Unflag(t) PROVE RefCounted'
  BY <1>15, <1>a, <1>b, <1>c DEF Unflag, Goto, HoldingPCs, PCs, Threads, Counted
<1>16. ASSUME NEW t \in Threads, Again(t) PROVE RefCounted'
  BY <1>16, <1>a, <1>b, <1>c DEF Again, Goto, HoldingPCs, PCs, Threads, Counted
<1>17. ASSUME NEW t \in Threads, Take(t) PROVE RefCounted'
  BY <1>17 DEF Take
<1>18. ASSUME NEW t \in Threads, TakeEnd(t) PROVE RefCounted'
  BY <1>18, <1>a, <1>b, <1>c DEF TakeEnd, Goto, HoldingPCs, PCs, Threads, Counted
<1>19. ASSUME NEW t \in Threads, WsaSend(t) PROVE RefCounted'
  <2>1. Cardinality(Where(pc', HoldingPCs)) = Cardinality(Where(pc, HoldingPCs))
    BY <1>19, <1>a, <1>c DEF WsaSend, Goto, Counted, HoldingPCs, PCs, Threads
  <2> QED
    BY <1>19, <1>a, <1>b, <2>1 DEF WsaSend, IoRef
<1>20. ASSUME NEW t \in Threads, Disconnect(t) PROVE RefCounted'
  BY <1>20, <1>a, <1>b, <1>c DEF Disconnect, Goto, HoldingPCs, PCs, Threads, Counted
<1>21. ASSUME NEW t \in Threads, Dec(t) PROVE RefCounted'
  <2>1. Cardinality(Where(pc', HoldingPCs)) = Cardinality(Where(pc, HoldingPCs)) - 1
    BY <1>21, <1>a, <1>c DEF Dec, Goto, Counted, HoldingPCs, PCs, Threads
  <2> QED
    BY <1>21, <1>a, <1>b, <2>1 DEF Dec
<1>22. ASSUME NEW t \in Threads, Release(t) PROVE RefCounted'
  BY <1>22, <1>a, <1>b, <1>c DEF Release, Goto, HoldingPCs, PCs, Threads, Counted
<1>23. ASSUME NEW t \in Threads, DropOwn(t) PROVE RefCounted'
  BY <1>23, <1>a, <1>b, <1>c DEF DropOwn, Goto, HoldingPCs, PCs, Threads, Counted
<1>24. ASSUME NEW t \in Threads, FreeSent(t) PROVE RefCounted'
  BY <1>24, <1>a, <1>b, <1>c DEF FreeSent, Goto, HoldingPCs, PCs, Threads, Counted
<1>25. ASSUME NEW t \in Threads, ClearFlag(t) PROVE RefCounted'
  BY <1>25, <1>a, <1>b, <1>c DEF ClearFlag, Goto, HoldingPCs, PCs, Threads, Counted
<1>26. ASSUME NEW t \in Threads, FreeArray(t) PROVE RefCounted'
  BY <1>26, <1>a, <1>b, <1>c DEF FreeArray, Goto, HoldingPCs, PCs, Threads, Counted
<1>27. ASSUME NEW t \in Threads, Drain(t) PROVE RefCounted'
  BY <1>27, <1>a, <1>b, <1>c DEF Drain, Goto, HoldingPCs, PCs, Threads, Counted
<1>28. ASSUME NEW t \in Threads, Leave(t) PROVE RefCounted'
  BY <1>28, <1>a, <1>b, <1>c DEF Leave, Goto, HoldingPCs, PCs, Threads, Counted
<1>u. CASE UNCHANGED vars
  BY <1>u DEF vars
<1> QED
  BY <1>1, <1>2, <1>3, <1>4, <1>5, <1>6, <1>7, <1>8, <1>9, <1>10, <1>11, <1>12, <1>13, <1>14,
     <1>15, <1>16, <1>17, <1>18, <1>19, <1>20, <1>21, <1>22, <1>23, <1>24, <1>25, <1>26, <1>27,
     <1>28, <1>u DEF Next, Step

-----------------------------------------------------------------------------
(* Control *)

\* Every handler stays with its threads, and its mode.
LEMMA RolesStep ==
  ASSUME IInv, [Next]_vars
  PROVE  Roles'
<1> USE DEF IInv
<1>a. pc \in [Threads -> PCs] /\ sendThFL \in {0, 1}
  BY DEF TypeOK
<1>b. /\ Sweeper \in Threads /\ Sweeper \notin Senders \cup Closers \cup Workers
      /\ Senders \subseteq Threads /\ Closers \subseteq Threads /\ Workers \subseteq Threads
  BY ThreadsApart DEF Threads
<1> USE DEF Roles, session, queue, io, history, rest
<1>1. ASSUME NEW s \in Senders, CallSend(s) PROVE Roles'
  BY <1>1, <1>a, <1>b DEF CallSend, Goto
<1>2. ASSUME NEW c \in Closers, CallDisconnect(c) PROVE Roles'
  BY <1>2, <1>a, <1>b DEF CallDisconnect, Goto
<1>3. ASSUME Sweep PROVE Roles'
  BY <1>3, <1>a, <1>b DEF Sweep, Goto
<1>4. ASSUME NEW w \in Workers, TakeSend(w) PROVE Roles'
  BY <1>4, <1>a, <1>b DEF TakeSend, Goto
<1>5. ASSUME NEW w \in Workers, RecvEnd(w) PROVE Roles'
  BY <1>5, <1>a, <1>b DEF RecvEnd, Goto
<1>6. ASSUME NEW w \in Workers, TakeRelease(w) PROVE Roles'
  BY <1>6, <1>a, <1>b DEF TakeRelease, Goto
<1>7. ASSUME NEW t \in Threads, Check(t) PROVE Roles'
  BY <1>7, <1>a, <1>b DEF Check, Goto
<1>8. ASSUME NEW t \in Threads, Room(t) PROVE Roles'
  BY <1>8, <1>a, <1>b DEF Room, Goto
<1>9. ASSUME NEW t \in Threads, Link(t) PROVE Roles'
  BY <1>9, <1>a, <1>b DEF Link, Goto
<1>10. ASSUME NEW t \in Threads, Count(t) PROVE Roles'
  BY <1>10, <1>a, <1>b DEF Count, Goto
<1>11. ASSUME NEW t \in Threads, Scan(t) PROVE Roles'
  BY <1>11, <1>a, <1>b DEF Scan, Goto
<1>12. ASSUME NEW t \in Threads, Post(t) PROVE Roles'
  BY <1>12, <1>a, <1>b DEF Post, Goto
<1>13. ASSUME NEW t \in Threads, Flag(t) PROVE Roles'
  BY <1>13, <1>a, <1>b DEF Flag, Goto
<1>14. ASSUME NEW t \in Threads, Size(t) PROVE Roles'
  BY <1>14, <1>a, <1>b DEF Size, Goto
<1>15. ASSUME NEW t \in Threads, Unflag(t) PROVE Roles'
  BY <1>15, <1>a, <1>b DEF Unflag, Goto
<1>16. ASSUME NEW t \in Threads, Again(t) PROVE Roles'
  BY <1>16, <1>a, <1>b DEF Again, Goto
<1>17. ASSUME NEW t \in Threads, Take(t) PROVE Roles'
  BY <1>17 DEF Take
<1>18. ASSUME NEW t \in Threads, TakeEnd(t) PROVE Roles'
  BY <1>18, <1>a, <1>b DEF TakeEnd, Goto
<1>19. ASSUME NEW t \in Threads, WsaSend(t) PROVE Roles'
  BY <1>19, <1>a, <1>b DEF WsaSend, Goto
<1>20. ASSUME NEW t \in Threads, Disconnect(t) PROVE Roles'
  BY <1>20, <1>a, <1>b DEF Disconnect, Goto
<1>21. ASSUME NEW t \in Threads, Dec(t) PROVE Roles'
  BY <1>21, <1>a, <1>b DEF Dec, Goto
<1>22. ASSUME NEW t \in Threads, Release(t) PROVE Roles'
  BY <1>22, <1>a, <1>b DEF Release, Goto
<1>23. ASSUME NEW t \in Threads, DropOwn(t) PROVE Roles'
  BY <1>23, <1>a, <1>b DEF DropOwn, Goto
<1>24. ASSUME NEW t \in Threads, FreeSent(t) PROVE Roles'
  BY <1>24, <1>a, <1>b DEF FreeSent, Goto
<1>25. ASSUME NEW t \in Threads, ClearFlag(t) PROVE Roles'
  BY <1>25, <1>a, <1>b DEF ClearFlag, Goto
<1>26. ASSUME NEW t \in Threads, FreeArray(t) PROVE Roles'
  BY <1>26, <1>a, <1>b DEF FreeArray, Goto
<1>27. ASSUME NEW t \in Threads, Drain(t) PROVE Roles'
  BY <1>27, <1>a, <1>b DEF Drain, Goto
<1>28. ASSUME NEW t \in Threads, Leave(t) PROVE Roles'
  BY <1>28, <1>a, <1>b DEF Leave, Goto
<1>u. CASE UNCHANGED vars
  BY <1>u DEF vars
<1> QED
  BY <1>1, <1>2, <1>3, <1>4, <1>5, <1>6, <1>7, <1>8, <1>9, <1>10, <1>11, <1>12, <1>13, <1>14,
     <1>15, <1>16, <1>17, <1>18, <1>19, <1>20, <1>21, <1>22, <1>23, <1>24, <1>25, <1>26, <1>27,
     <1>28, <1>u DEF Next, Step

\* Whoever takes the flag finds the array empty and no send pending.
LEMMA FlagStep ==
  ASSUME IInv, [Next]_vars
  PROVE  FlagOwned' /\ ArrayOwned'
<1> USE DEF IInv
<1>a. /\ pc \in [Threads -> PCs] /\ sendPend \in Nat /\ sendFlag \in {0, 1} /\ sendThFL \in {0, 1}
      /\ got \in [Threads -> Seq(Msgs)]
  BY DEF TypeOK
<1>b. /\ Sweeper \in Threads /\ Sweeper \notin Senders \cup Closers \cup Workers
      /\ Senders \subseteq Threads /\ Closers \subseteq Threads /\ Workers \subseteq Threads
  BY ThreadsApart DEF Threads
<1> USE DEF FlagOwned, ArrayOwned, OwningPCs, session, queue, io, history, rest
<1>1. ASSUME NEW s \in Senders, CallSend(s) PROVE FlagOwned' /\ ArrayOwned'
  <2>1. FlagOwned'
    BY <1>1, <1>a, <1>b DEF CallSend, Goto, Roles
  <2>2. ArrayOwned'
    BY <1>1, <1>a, <1>b DEF CallSend, Goto, Roles
  <2> QED
    BY <2>1, <2>2
<1>2. ASSUME NEW c \in Closers, CallDisconnect(c) PROVE FlagOwned' /\ ArrayOwned'
  <2>1. FlagOwned'
    BY <1>2, <1>a, <1>b DEF CallDisconnect, Goto, Roles
  <2>2. ArrayOwned'
    BY <1>2, <1>a, <1>b DEF CallDisconnect, Goto, Roles
  <2> QED
    BY <2>1, <2>2
<1>3. ASSUME Sweep PROVE FlagOwned' /\ ArrayOwned'
  <2>1. FlagOwned'
    BY <1>3, <1>a, <1>b DEF Sweep, Goto, Roles
  <2>2. ArrayOwned'
    BY <1>3, <1>a, <1>b DEF Sweep, Goto, Roles
  <2> QED
    BY <2>1, <2>2
<1>4. ASSUME NEW w \in Workers, TakeSend(w) PROVE FlagOwned' /\ ArrayOwned'
  <2>1. FlagOwned'
    BY <1>4, <1>a, <1>b DEF TakeSend, Goto, Roles
  <2>2. ArrayOwned'
    BY <1>4, <1>a, <1>b DEF TakeSend, Goto, Roles
  <2> QED
    BY <2>1, <2>2
<1>5. ASSUME NEW w \in Workers, RecvEnd(w) PROVE FlagOwned' /\ ArrayOwned'
  <2>1. FlagOwned'
    BY <1>5, <1>a, <1>b DEF RecvEnd, Goto, Roles
  <2>2. ArrayOwned'
    BY <1>5, <1>a, <1>b DEF RecvEnd, Goto, Roles
  <2> QED
    BY <2>1, <2>2
<1>6. ASSUME NEW w \in Workers, TakeRelease(w) PROVE FlagOwned' /\ ArrayOwned'
  <2>1. FlagOwned'
    BY <1>6, <1>a, <1>b DEF TakeRelease, Goto, Roles
  <2>2. ArrayOwned'
    BY <1>6, <1>a, <1>b DEF TakeRelease, Goto, Roles
  <2> QED
    BY <2>1, <2>2
<1>7. ASSUME NEW t \in Threads, Check(t) PROVE FlagOwned' /\ ArrayOwned'
  <2>1. FlagOwned'
    BY <1>7, <1>a, <1>b DEF Check, Goto, Roles
  <2>2. ArrayOwned'
    BY <1>7, <1>a, <1>b DEF Check, Goto, Roles
  <2> QED
    BY <2>1, <2>2
<1>8. ASSUME NEW t \in Threads, Room(t) PROVE FlagOwned' /\ ArrayOwned'
  <2>1. FlagOwned'
    BY <1>8, <1>a, <1>b DEF Room, Goto, Roles
  <2>2. ArrayOwned'
    BY <1>8, <1>a, <1>b DEF Room, Goto, Roles
  <2> QED
    BY <2>1, <2>2
<1>9. ASSUME NEW t \in Threads, Link(t) PROVE FlagOwned' /\ ArrayOwned'
  <2>1. FlagOwned'
    BY <1>9, <1>a, <1>b DEF Link, Goto, Roles
  <2>2. ArrayOwned'
    BY <1>9, <1>a, <1>b DEF Link, Goto, Roles
  <2> QED
    BY <2>1, <2>2
<1>10. ASSUME NEW t \in Threads, Count(t) PROVE FlagOwned' /\ ArrayOwned'
  <2>1. FlagOwned'
    BY <1>10, <1>a, <1>b DEF Count, Goto, Roles
  <2>2. ArrayOwned'
    BY <1>10, <1>a, <1>b DEF Count, Goto, Roles
  <2> QED
    BY <2>1, <2>2
<1>11. ASSUME NEW t \in Threads, Scan(t) PROVE FlagOwned' /\ ArrayOwned'
  <2>1. FlagOwned'
    BY <1>11, <1>a, <1>b DEF Scan, Goto, Roles
  <2>2. ArrayOwned'
    BY <1>11, <1>a, <1>b DEF Scan, Goto, Roles
  <2> QED
    BY <2>1, <2>2
<1>12. ASSUME NEW t \in Threads, Post(t) PROVE FlagOwned' /\ ArrayOwned'
  <2>1. FlagOwned'
    BY <1>12, <1>a, <1>b DEF Post, Goto, Roles
  <2>2. ArrayOwned'
    BY <1>12, <1>a, <1>b DEF Post, Goto, Roles
  <2> QED
    BY <2>1, <2>2
<1>13. ASSUME NEW t \in Threads, Flag(t) PROVE FlagOwned' /\ ArrayOwned'
  <2>1. FlagOwned'
    BY <1>13, <1>a, <1>b DEF Flag, Goto, Roles
  <2>2. ArrayOwned'
    BY <1>13, <1>a, <1>b DEF Flag, Goto, Roles
  <2> QED
    BY <2>1, <2>2
<1>14. ASSUME NEW t \in Threads, Size(t) PROVE FlagOwned' /\ ArrayOwned'
  <2>1. FlagOwned'
    BY <1>14, <1>a, <1>b DEF Size, Goto, Roles
  <2>2. ArrayOwned'
    BY <1>14, <1>a, <1>b DEF Size, Goto, Roles
  <2> QED
    BY <2>1, <2>2
<1>15. ASSUME NEW t \in Threads, Unflag(t) PROVE FlagOwned' /\ ArrayOwned'
  <2>1. FlagOwned'
    BY <1>15, <1>a, <1>b DEF Unflag, Goto, Roles
  <2>2. ArrayOwned'
    BY <1>15, <1>a, <1>b DEF Unflag, Goto, Roles
  <2> QED
    BY <2>1, <2>2
<1>16. ASSUME NEW t \in Threads, Again(t) PROVE FlagOwned' /\ ArrayOwned'
  <2>1. FlagOwned'
    BY <1>16, <1>a, <1>b DEF Again, Goto, Roles
  <2>2. ArrayOwned'
    BY <1>16, <1>a, <1>b DEF Again, Goto, Roles
  <2> QED
    BY <2>1, <2>2
<1>17. ASSUME NEW t \in Threads, Take(t) PROVE FlagOwned' /\ ArrayOwned'
  <2>1. FlagOwned'
    BY <1>17, <1>a, <1>b DEF Take, Goto, Roles
  <2>2. ArrayOwned'
    BY <1>17, <1>a, <1>b DEF Take, Goto, Roles
  <2> QED
    BY <2>1, <2>2
<1>18. ASSUME NEW t \in Threads, TakeEnd(t) PROVE FlagOwned' /\ ArrayOwned'
  <2>1. FlagOwned'
    BY <1>18, <1>a, <1>b DEF TakeEnd, Goto, Roles
  <2>2. ArrayOwned'
    BY <1>18, <1>a, <1>b DEF TakeEnd, Goto, Roles
  <2> QED
    BY <2>1, <2>2
<1>19. ASSUME NEW t \in Threads, WsaSend(t) PROVE FlagOwned' /\ ArrayOwned'
  <2>a. sendPend = 0 /\ sendFlag = 1 /\ sendFlag' = sendFlag /\ sendThFL' = sendThFL
    BY <1>19 DEF WsaSend
  <2>b. \A u \in Threads : u # t => pc[u] \notin OwningPCs
    BY <1>19 DEF WsaSend
  <2>c. sendPend' \in {0, 1} /\ \E place \in {"dc", "dec"} : pc' = [pc EXCEPT ![t] = place]
    BY <1>19, <2>a DEF WsaSend, Goto
  <2>d. \A u \in Threads : pc'[u] \notin OwningPCs
    BY <1>a, <2>b, <2>c
  <2>1. FlagOwned'
    BY <1>19, <1>a, <1>b, <2>a, <2>c, <2>d DEF WsaSend
  <2>e. \A u \in Threads : got'[u] = <<>>
    <3>1. \A u \in Threads : u # t => got[u] = <<>>
      BY <2>b
    <3> QED
      BY <1>19, <1>a, <3>1 DEF WsaSend
  <2>2. ArrayOwned'
    BY <2>a, <2>d, <2>e
  <2> QED
    BY <2>1, <2>2
<1>20. ASSUME NEW t \in Threads, Disconnect(t) PROVE FlagOwned' /\ ArrayOwned'
  <2>1. FlagOwned'
    BY <1>20, <1>a, <1>b DEF Disconnect, Goto, Roles
  <2>2. ArrayOwned'
    BY <1>20, <1>a, <1>b DEF Disconnect, Goto, Roles
  <2> QED
    BY <2>1, <2>2
<1>21. ASSUME NEW t \in Threads, Dec(t) PROVE FlagOwned' /\ ArrayOwned'
  <2>1. FlagOwned'
    BY <1>21, <1>a, <1>b DEF Dec, Goto, Roles
  <2>2. ArrayOwned'
    BY <1>21, <1>a, <1>b DEF Dec, Goto, Roles
  <2> QED
    BY <2>1, <2>2
<1>22. ASSUME NEW t \in Threads, Release(t) PROVE FlagOwned' /\ ArrayOwned'
  <2>1. FlagOwned'
    BY <1>22, <1>a, <1>b DEF Release, Goto, Roles
  <2>2. ArrayOwned'
    BY <1>22, <1>a, <1>b DEF Release, Goto, Roles
  <2> QED
    BY <2>1, <2>2
<1>23. ASSUME NEW t \in Threads, DropOwn(t) PROVE FlagOwned' /\ ArrayOwned'
  <2>1. FlagOwned'
    BY <1>23, <1>a, <1>b DEF DropOwn, Goto, Roles
  <2>2. ArrayOwned'
    BY <1>23, <1>a, <1>b DEF DropOwn, Goto, Roles
  <2> QED
    BY <2>1, <2>2
<1>24. ASSUME NEW t \in Threads, FreeSent(t) PROVE FlagOwned' /\ ArrayOwned'
  <2>1. FlagOwned'
    BY <1>24, <1>a, <1>b DEF FreeSent, Goto, Roles
  <2>2. ArrayOwned'
    BY <1>24, <1>a, <1>b DEF FreeSent, Goto, Roles
  <2> QED
    BY <2>1, <2>2
<1>25. ASSUME NEW t \in Threads, ClearFlag(t) PROVE FlagOwned' /\ ArrayOwned'
  <2>1. FlagOwned'
    BY <1>25, <1>a, <1>b DEF ClearFlag, Goto, Roles
  <2>2. ArrayOwned'
    BY <1>25, <1>a, <1>b DEF ClearFlag, Goto, Roles
  <2> QED
    BY <2>1, <2>2
<1>26. ASSUME NEW t \in Threads, FreeArray(t) PROVE FlagOwned' /\ ArrayOwned'
  <2>1. FlagOwned'
    BY <1>26, <1>a, <1>b DEF FreeArray, Goto, Roles
  <2>2. ArrayOwned'
    BY <1>26, <1>a, <1>b DEF FreeArray, Goto, Roles
  <2> QED
    BY <2>1, <2>2
<1>27. ASSUME NEW t \in Threads, Drain(t) PROVE FlagOwned' /\ ArrayOwned'
  <2>1. FlagOwned'
    BY <1>27, <1>a, <1>b DEF Drain, Goto, Roles
  <2>2. ArrayOwned'
    BY <1>27, <1>a, <1>b DEF Drain, Goto, Roles
  <2> QED
    BY <2>1, <2>2
<1>28. ASSUME NEW t \in Threads, Leave(t) PROVE FlagOwned' /\ ArrayOwned'
  <2>1. FlagOwned'
    BY <1>28, <1>a, <1>b DEF Leave, Goto, Roles
  <2>2. ArrayOwned'
    BY <1>28, <1>a, <1>b DEF Leave, Goto, Roles
  <2> QED
    BY <2>1, <2>2
<1>u. CASE UNCHANGED vars
  BY <1>u DEF vars
<1> QED
  BY <1>1, <1>2, <1>3, <1>4, <1>5, <1>6, <1>7, <1>8, <1>9, <1>10, <1>11, <1>12, <1>13, <1>14,
     <1>15, <1>16, <1>17, <1>18, <1>19, <1>20, <1>21, <1>22, <1>23, <1>24, <1>25, <1>26, <1>27,
     <1>28, <1>u DEF Next, Step

\* Once the release has begun nobody uses the session, and it is done once.
LEMMA ReleasedStep ==
  ASSUME IInv, [Next]_vars
  PROVE  Released'
<1> USE DEF IInv
<1>a. /\ pc \in [Threads -> PCs] /\ sendPend \in Nat /\ relFlag \in {0, 1} /\ relMsgs \in Nat
      /\ recv \in BOOLEAN /\ closed \in BOOLEAN
  BY DEF TypeOK
<1>b. /\ Sweeper \in Threads /\ Senders \subseteq Threads /\ Closers \subseteq Threads
      /\ Workers \subseteq Threads
  BY DEF Threads
<1> USE DEF Released, HoldingPCs, ClosingPCs, session, queue, io, history, rest
<1>1. ASSUME NEW s \in Senders, CallSend(s) PROVE Released'
  BY <1>1, <1>a, <1>b DEF CallSend, Goto
<1>2. ASSUME NEW c \in Closers, CallDisconnect(c) PROVE Released'
  BY <1>2, <1>a, <1>b DEF CallDisconnect, Goto
<1>3. ASSUME Sweep PROVE Released'
  BY <1>3, <1>a, <1>b DEF Sweep, Goto
<1>4. ASSUME NEW w \in Workers, TakeSend(w) PROVE Released'
  BY <1>4, <1>a, <1>b DEF TakeSend, Goto
<1>5. ASSUME NEW w \in Workers, RecvEnd(w) PROVE Released'
  BY <1>5, <1>a, <1>b DEF RecvEnd, Goto
<1>6. ASSUME NEW w \in Workers, TakeRelease(w) PROVE Released'
  BY <1>6, <1>a, <1>b DEF TakeRelease, Goto
<1>7. ASSUME NEW t \in Threads, Check(t) PROVE Released'
  BY <1>7, <1>a, <1>b DEF Check, Goto, Usable
<1>8. ASSUME NEW t \in Threads, Room(t) PROVE Released'
  BY <1>8, <1>a, <1>b DEF Room, Goto
<1>9. ASSUME NEW t \in Threads, Link(t) PROVE Released'
  BY <1>9, <1>a, <1>b DEF Link, Goto
<1>10. ASSUME NEW t \in Threads, Count(t) PROVE Released'
  BY <1>10, <1>a, <1>b DEF Count, Goto
<1>11. ASSUME NEW t \in Threads, Scan(t) PROVE Released'
  BY <1>11, <1>a, <1>b DEF Scan, Goto
<1>12. ASSUME NEW t \in Threads, Post(t) PROVE Released'
  BY <1>12, <1>a, <1>b DEF Post, Goto
<1>13. ASSUME NEW t \in Threads, Flag(t) PROVE Released'
  BY <1>13, <1>a, <1>b DEF Flag, Goto
<1>14. ASSUME NEW t \in Threads, Size(t) PROVE Released'
  BY <1>14, <1>a, <1>b DEF Size, Goto
<1>15. ASSUME NEW t \in Threads, Unflag(t) PROVE Released'
  BY <1>15, <1>a, <1>b DEF Unflag, Goto
<1>16. ASSUME NEW t \in Threads, Again(t) PROVE Released'
  BY <1>16, <1>a, <1>b DEF Again, Goto
<1>17. ASSUME NEW t \in Threads, Take(t) PROVE Released'
  BY <1>17, <1>a, <1>b DEF Take, Goto
<1>18. ASSUME NEW t \in Threads, TakeEnd(t) PROVE Released'
  BY <1>18, <1>a, <1>b DEF TakeEnd, Goto
<1>19. ASSUME NEW t \in Threads, WsaSend(t) PROVE Released'
  BY <1>19, <1>a, <1>b DEF WsaSend, Goto
<1>20. ASSUME NEW t \in Threads, Disconnect(t) PROVE Released'
  BY <1>20, <1>a, <1>b DEF Disconnect, Goto
<1>21. ASSUME NEW t \in Threads, Dec(t) PROVE Released'
  BY <1>21, <1>a, <1>b DEF Dec, Goto
<1>22. ASSUME NEW t \in Threads, Release(t) PROVE Released'
  <2>1. CASE refCnt = 0 /\ relFlag = 0
    <3>1. Where(pc, HoldingPCs) = {} /\ sendPend = 0 /\ ~recv
      <4>1. Cardinality(Where(pc, HoldingPCs)) \in Nat /\ IsFiniteSet(Where(pc, HoldingPCs))
        BY WhereFinite
      <4>2. Cardinality(Where(pc, HoldingPCs)) = 0 /\ sendPend = 0 /\ ~recv
        BY <1>a, <2>1, <4>1 DEF RefCounted
      <4> QED
        BY <4>1, <4>2, FS_EmptySet
    <3>2. \A u \in Threads : pc[u] \notin HoldingPCs
      BY <3>1 DEF Where
    <3> QED
      BY <1>22, <1>a, <2>1, <3>1, <3>2 DEF Release, Goto
  <2>2. CASE ~(refCnt = 0 /\ relFlag = 0)
    BY <1>22, <1>a, <2>2 DEF Release, Goto
  <2> QED
    BY <2>1, <2>2
<1>23. ASSUME NEW t \in Threads, DropOwn(t) PROVE Released'
  BY <1>23, <1>a, <1>b DEF DropOwn, Goto
<1>24. ASSUME NEW t \in Threads, FreeSent(t) PROVE Released'
  BY <1>24, <1>a, <1>b DEF FreeSent, Goto
<1>25. ASSUME NEW t \in Threads, ClearFlag(t) PROVE Released'
  BY <1>25, <1>a, <1>b DEF ClearFlag, Goto
<1>26. ASSUME NEW t \in Threads, FreeArray(t) PROVE Released'
  BY <1>26, <1>a, <1>b DEF FreeArray, Goto
<1>27. ASSUME NEW t \in Threads, Drain(t) PROVE Released'
  BY <1>27, <1>a, <1>b DEF Drain, Goto
<1>28. ASSUME NEW t \in Threads, Leave(t) PROVE Released'
  BY <1>28, <1>a, <1>b DEF Leave, Goto, Drained
<1>u. CASE UNCHANGED vars
  BY <1>u DEF vars
<1> QED
  BY <1>1, <1>2, <1>3, <1>4, <1>5, <1>6, <1>7, <1>8, <1>9, <1>10, <1>11, <1>12, <1>13, <1>14,
     <1>15, <1>16, <1>17, <1>18, <1>19, <1>20, <1>21, <1>22, <1>23, <1>24, <1>25, <1>26, <1>27,
     <1>28, <1>u DEF Next, Step

-----------------------------------------------------------------------------
(* The size of the queue *)

\* Those who found room and have not counted their message are few.
LEMMA FewSenders ==
  ASSUME IInv, NEW t \in Threads, pc[t] = "room"
  PROVE  Cardinality(Where(pc, {"link"})) + Cardinality(Where(pc, {"count"})) + 1
         <= Cardinality(Senders)
<1> DEFINE L == Where(pc, {"link"})
<1> DEFINE C == Where(pc, {"count"})
<1>1. IsFiniteSet(Senders)
  BY ThreadsFinite, FS_Subset DEF Threads
<1>2. L \cap C = {} /\ t \notin L \cup C /\ (L \cup C) \cup {t} \in SUBSET Senders
  BY DEF IInv, Roles, Where
<1>3. IsFiniteSet(L) /\ IsFiniteSet(C) /\ Cardinality(L) \in Nat /\ Cardinality(C) \in Nat
  BY WhereFinite
<1>4. IsFiniteSet(L \cup C) /\ Cardinality(L \cup C) = Cardinality(L) + Cardinality(C)
  <2> HIDE DEF L, C
  <2>1. Cardinality(L \cap C) = 0
    BY <1>2, FS_EmptySet
  <2>2. Cardinality(L \cup C) = Cardinality(L) + Cardinality(C) - Cardinality(L \cap C)
    BY <1>3, FS_Union
  <2> QED
    BY <1>3, <2>1, <2>2, FS_Union
<1>5. Cardinality((L \cup C) \cup {t}) = Cardinality(L) + Cardinality(C) + 1
  <2> HIDE DEF L, C
  <2> QED
    BY <1>2, <1>4, FS_AddElement
<1>6. Cardinality((L \cup C) \cup {t}) <= Cardinality(Senders)
  <2> HIDE DEF L, C
  <2> QED
    BY <1>1, <1>2, FS_Subset
<1> QED
  BY <1>3, <1>5, <1>6

\* m_size follows the queue, and no sender links a message without room for it.
LEMMA SizeStep ==
  ASSUME IInv, [Next]_vars
  PROVE  SizeCounts' /\ RoomLeft'
<1> USE DEF IInv
<1>a. pc \in [Threads -> PCs] /\ qSize \in Int /\ sendQ \in Seq(Msgs) /\ Len(sendQ) \in Nat
  BY DEF TypeOK
<1>b. /\ Sweeper \in Threads /\ Senders \subseteq Threads /\ Closers \subseteq Threads
      /\ Workers \subseteq Threads
  BY DEF Threads
<1>c. Counted({"link"}) /\ Counted({"count"})
  BY <1>a, GotoCount
<1>d. /\ Cardinality(Where(pc, {"link"})) \in Nat /\ Cardinality(Where(pc, {"count"})) \in Nat
      /\ Cardinality(Senders) \in Nat /\ QMax \in Nat
  <2>1. IsFiniteSet(Senders)
    BY ThreadsFinite, FS_Subset DEF Threads
  <2> QED
    BY <2>1, WhereFinite, FS_CardinalityType, BoundsNat
<1> USE DEF SizeCounts, RoomLeft, session, queue, io, history, rest
<1>1. ASSUME NEW s \in Senders, CallSend(s) PROVE SizeCounts' /\ RoomLeft'
  <2>1. Cardinality(Where(pc', {"link"})) = Cardinality(Where(pc, {"link"}))
        /\ Cardinality(Where(pc', {"count"})) = Cardinality(Where(pc, {"count"}))
    BY <1>1, <1>a, <1>b, <1>c DEF CallSend, Goto, Counted, PCs
  <2> QED
    BY <1>1, <2>1 DEF CallSend
<1>2. ASSUME NEW c \in Closers, CallDisconnect(c) PROVE SizeCounts' /\ RoomLeft'
  <2>1. Cardinality(Where(pc', {"link"})) = Cardinality(Where(pc, {"link"}))
        /\ Cardinality(Where(pc', {"count"})) = Cardinality(Where(pc, {"count"}))
    BY <1>2, <1>a, <1>b, <1>c DEF CallDisconnect, Goto, Counted, PCs
  <2> QED
    BY <1>2, <2>1 DEF CallDisconnect
<1>3. ASSUME Sweep PROVE SizeCounts' /\ RoomLeft'
  <2>1. Cardinality(Where(pc', {"link"})) = Cardinality(Where(pc, {"link"}))
        /\ Cardinality(Where(pc', {"count"})) = Cardinality(Where(pc, {"count"}))
    BY <1>3, <1>a, <1>b, <1>c DEF Sweep, Goto, Counted, PCs
  <2> QED
    BY <1>3, <2>1 DEF Sweep
<1>4. ASSUME NEW w \in Workers, TakeSend(w) PROVE SizeCounts' /\ RoomLeft'
  <2>1. Cardinality(Where(pc', {"link"})) = Cardinality(Where(pc, {"link"}))
        /\ Cardinality(Where(pc', {"count"})) = Cardinality(Where(pc, {"count"}))
    BY <1>4, <1>a, <1>b, <1>c DEF TakeSend, Goto, Counted, PCs
  <2> QED
    BY <1>4, <2>1 DEF TakeSend
<1>5. ASSUME NEW w \in Workers, RecvEnd(w) PROVE SizeCounts' /\ RoomLeft'
  <2>1. Cardinality(Where(pc', {"link"})) = Cardinality(Where(pc, {"link"}))
        /\ Cardinality(Where(pc', {"count"})) = Cardinality(Where(pc, {"count"}))
    BY <1>5, <1>a, <1>b, <1>c DEF RecvEnd, Goto, Counted, PCs
  <2> QED
    BY <1>5, <2>1 DEF RecvEnd
<1>6. ASSUME NEW w \in Workers, TakeRelease(w) PROVE SizeCounts' /\ RoomLeft'
  <2>1. Cardinality(Where(pc', {"link"})) = Cardinality(Where(pc, {"link"}))
        /\ Cardinality(Where(pc', {"count"})) = Cardinality(Where(pc, {"count"}))
    BY <1>6, <1>a, <1>b, <1>c DEF TakeRelease, Goto, Counted, PCs
  <2> QED
    BY <1>6, <2>1 DEF TakeRelease
<1>7. ASSUME NEW t \in Threads, Check(t) PROVE SizeCounts' /\ RoomLeft'
  <2>1. Cardinality(Where(pc', {"link"})) = Cardinality(Where(pc, {"link"}))
        /\ Cardinality(Where(pc', {"count"})) = Cardinality(Where(pc, {"count"}))
    BY <1>7, <1>a, <1>b, <1>c DEF Check, Goto, Counted, PCs
  <2> QED
    BY <1>7, <2>1 DEF Check
<1>8. ASSUME NEW t \in Threads, Room(t) PROVE SizeCounts' /\ RoomLeft'
  <2>1. CASE Full
    <3>1. Cardinality(Where(pc', {"link"})) = Cardinality(Where(pc, {"link"}))
          /\ Cardinality(Where(pc', {"count"})) = Cardinality(Where(pc, {"count"}))
      BY <1>8, <1>a, <1>c, <2>1 DEF Room, Goto, Counted, PCs
    <3> QED
      BY <1>8, <3>1 DEF Room
  <2>2. CASE ~Full
    <3>1. Cardinality(Where(pc', {"link"})) = Cardinality(Where(pc, {"link"})) + 1
          /\ Cardinality(Where(pc', {"count"})) = Cardinality(Where(pc, {"count"}))
      BY <1>8, <1>a, <1>c, <2>2 DEF Room, Goto, Counted, PCs
    <3>2. Cardinality(Where(pc, {"link"})) + Cardinality(Where(pc, {"count"})) + 1
          <= Cardinality(Senders)
      BY <1>8, FewSenders DEF Room
    <3>3. qSize < QMax /\ UNCHANGED <<sendQ, qSize>>
      BY <1>8, <1>a, <1>d, <2>2 DEF Room, Full
    <3> QED
      BY <1>a, <1>d, <3>1, <3>2, <3>3
  <2> QED
    BY <2>1, <2>2
<1>9. ASSUME NEW t \in Threads, Link(t) PROVE SizeCounts' /\ RoomLeft'
  <2>1. Cardinality(Where(pc', {"link"})) = Cardinality(Where(pc, {"link"})) - 1
        /\ Cardinality(Where(pc', {"count"})) = Cardinality(Where(pc, {"count"})) + 1
    BY <1>9, <1>a, <1>c DEF Link, Goto, Counted, PCs
  <2>2. Len(sendQ') = Len(sendQ) + 1
    BY <1>9, <1>a DEF Link
  <2> QED
    BY <1>9, <1>a, <1>d, <2>1, <2>2 DEF Link
<1>10. ASSUME NEW t \in Threads, Count(t) PROVE SizeCounts' /\ RoomLeft'
  <2>1. Cardinality(Where(pc', {"link"})) = Cardinality(Where(pc, {"link"}))
        /\ Cardinality(Where(pc', {"count"})) = Cardinality(Where(pc, {"count"})) - 1
    BY <1>10, <1>a, <1>c DEF Count, Goto, Counted, PCs
  <2> QED
    BY <1>10, <1>a, <1>d, <2>1 DEF Count
<1>11. ASSUME NEW t \in Threads, Scan(t) PROVE SizeCounts' /\ RoomLeft'
  <2>1. Cardinality(Where(pc', {"link"})) = Cardinality(Where(pc, {"link"}))
        /\ Cardinality(Where(pc', {"count"})) = Cardinality(Where(pc, {"count"}))
    BY <1>11, <1>a, <1>b, <1>c DEF Scan, Goto, Counted, PCs
  <2> QED
    BY <1>11, <2>1 DEF Scan
<1>12. ASSUME NEW t \in Threads, Post(t) PROVE SizeCounts' /\ RoomLeft'
  <2>1. Cardinality(Where(pc', {"link"})) = Cardinality(Where(pc, {"link"}))
        /\ Cardinality(Where(pc', {"count"})) = Cardinality(Where(pc, {"count"}))
    BY <1>12, <1>a, <1>b, <1>c DEF Post, Goto, Counted, PCs
  <2> QED
    BY <1>12, <2>1 DEF Post
<1>13. ASSUME NEW t \in Threads, Flag(t) PROVE SizeCounts' /\ RoomLeft'
  <2>1. Cardinality(Where(pc', {"link"})) = Cardinality(Where(pc, {"link"}))
        /\ Cardinality(Where(pc', {"count"})) = Cardinality(Where(pc, {"count"}))
    BY <1>13, <1>a, <1>b, <1>c DEF Flag, Goto, Counted, PCs
  <2> QED
    BY <1>13, <2>1 DEF Flag
<1>14. ASSUME NEW t \in Threads, Size(t) PROVE SizeCounts' /\ RoomLeft'
  <2>1. Cardinality(Where(pc', {"link"})) = Cardinality(Where(pc, {"link"}))
        /\ Cardinality(Where(pc', {"count"})) = Cardinality(Where(pc, {"count"}))
    BY <1>14, <1>a, <1>b, <1>c DEF Size, Goto, Counted, PCs
  <2> QED
    BY <1>14, <2>1 DEF Size
<1>15. ASSUME NEW t \in Threads, Unflag(t) PROVE SizeCounts' /\ RoomLeft'
  <2>1. Cardinality(Where(pc', {"link"})) = Cardinality(Where(pc, {"link"}))
        /\ Cardinality(Where(pc', {"count"})) = Cardinality(Where(pc, {"count"}))
    BY <1>15, <1>a, <1>b, <1>c DEF Unflag, Goto, Counted, PCs
  <2> QED
    BY <1>15, <2>1 DEF Unflag
<1>16. ASSUME NEW t \in Threads, Again(t) PROVE SizeCounts' /\ RoomLeft'
  <2>1. Cardinality(Where(pc', {"link"})) = Cardinality(Where(pc, {"link"}))
        /\ Cardinality(Where(pc', {"count"})) = Cardinality(Where(pc, {"count"}))
    BY <1>16, <1>a, <1>b, <1>c DEF Again, Goto, Counted, PCs
  <2> QED
    BY <1>16, <2>1 DEF Again
<1>17. ASSUME NEW t \in Threads, Take(t) PROVE SizeCounts' /\ RoomLeft'
  <2>1. Len(sendQ') = Len(sendQ) - 1 /\ qSize' = qSize - 1 /\ UNCHANGED pc
    BY <1>17, <1>a, HeadTailProperties DEF Take
  <2> QED
    BY <1>a, <1>d, <2>1
<1>18. ASSUME NEW t \in Threads, TakeEnd(t) PROVE SizeCounts' /\ RoomLeft'
  <2>1. Cardinality(Where(pc', {"link"})) = Cardinality(Where(pc, {"link"}))
        /\ Cardinality(Where(pc', {"count"})) = Cardinality(Where(pc, {"count"}))
    BY <1>18, <1>a, <1>b, <1>c DEF TakeEnd, Goto, Counted, PCs
  <2> QED
    BY <1>18, <2>1 DEF TakeEnd
<1>19. ASSUME NEW t \in Threads, WsaSend(t) PROVE SizeCounts' /\ RoomLeft'
  <2>1. Cardinality(Where(pc', {"link"})) = Cardinality(Where(pc, {"link"}))
        /\ Cardinality(Where(pc', {"count"})) = Cardinality(Where(pc, {"count"}))
    BY <1>19, <1>a, <1>b, <1>c DEF WsaSend, Goto, Counted, PCs
  <2> QED
    BY <1>19, <2>1 DEF WsaSend
<1>20. ASSUME NEW t \in Threads, Disconnect(t) PROVE SizeCounts' /\ RoomLeft'
  <2>1. Cardinality(Where(pc', {"link"})) = Cardinality(Where(pc, {"link"}))
        /\ Cardinality(Where(pc', {"count"})) = Cardinality(Where(pc, {"count"}))
    BY <1>20, <1>a, <1>b, <1>c DEF Disconnect, Goto, Counted, PCs
  <2> QED
    BY <1>20, <2>1 DEF Disconnect
<1>21. ASSUME NEW t \in Threads, Dec(t) PROVE SizeCounts' /\ RoomLeft'
  <2>1. Cardinality(Where(pc', {"link"})) = Cardinality(Where(pc, {"link"}))
        /\ Cardinality(Where(pc', {"count"})) = Cardinality(Where(pc, {"count"}))
    BY <1>21, <1>a, <1>b, <1>c DEF Dec, Goto, Counted, PCs
  <2> QED
    BY <1>21, <2>1 DEF Dec
<1>22. ASSUME NEW t \in Threads, Release(t) PROVE SizeCounts' /\ RoomLeft'
  <2>1. Cardinality(Where(pc', {"link"})) = Cardinality(Where(pc, {"link"}))
        /\ Cardinality(Where(pc', {"count"})) = Cardinality(Where(pc, {"count"}))
    BY <1>22, <1>a, <1>b, <1>c DEF Release, Goto, Counted, PCs
  <2> QED
    BY <1>22, <2>1 DEF Release
<1>23. ASSUME NEW t \in Threads, DropOwn(t) PROVE SizeCounts' /\ RoomLeft'
  <2>1. Cardinality(Where(pc', {"link"})) = Cardinality(Where(pc, {"link"}))
        /\ Cardinality(Where(pc', {"count"})) = Cardinality(Where(pc, {"count"}))
    BY <1>23, <1>a, <1>b, <1>c DEF DropOwn, Goto, Counted, PCs
  <2> QED
    BY <1>23, <2>1 DEF DropOwn
<1>24. ASSUME NEW t \in Threads, FreeSent(t) PROVE SizeCounts' /\ RoomLeft'
  <2>1. Cardinality(Where(pc', {"link"})) = Cardinality(Where(pc, {"link"}))
        /\ Cardinality(Where(pc', {"count"})) = Cardinality(Where(pc, {"count"}))
    BY <1>24, <1>a, <1>b, <1>c DEF FreeSent, Goto, Counted, PCs
  <2> QED
    BY <1>24, <2>1 DEF FreeSent
<1>25. ASSUME NEW t \in Threads, ClearFlag(t) PROVE SizeCounts' /\ RoomLeft'
  <2>1. Cardinality(Where(pc', {"link"})) = Cardinality(Where(pc, {"link"}))
        /\ Cardinality(Where(pc', {"count"})) = Cardinality(Where(pc, {"count"}))
    BY <1>25, <1>a, <1>b, <1>c DEF ClearFlag, Goto, Counted, PCs
  <2> QED
    BY <1>25, <2>1 DEF ClearFlag
<1>26. ASSUME NEW t \in Threads, FreeArray(t) PROVE SizeCounts' /\ RoomLeft'
  <2>1. Cardinality(Where(pc', {"link"})) = Cardinality(Where(pc, {"link"}))
        /\ Cardinality(Where(pc', {"count"})) = Cardinality(Where(pc, {"count"}))
    BY <1>26, <1>a, <1>b, <1>c DEF FreeArray, Goto, Counted, PCs
  <2> QED
    BY <1>26, <2>1 DEF FreeArray
<1>27. ASSUME NEW t \in Threads, Drain(t) PROVE SizeCounts' /\ RoomLeft'
  <2>1. Len(sendQ') = Len(sendQ) - 1 /\ qSize' = qSize - 1 /\ UNCHANGED pc
    BY <1>27, <1>a, HeadTailProperties DEF Drain
  <2> QED
    BY <1>a, <1>d, <2>1
<1>28. ASSUME NEW t \in Threads, Leave(t) PROVE SizeCounts' /\ RoomLeft'
  <2>1. Cardinality(Where(pc', {"link"})) = Cardinality(Where(pc, {"link"}))
        /\ Cardinality(Where(pc', {"count"})) = Cardinality(Where(pc, {"count"}))
    BY <1>28, <1>a, <1>b, <1>c DEF Leave, Goto, Counted, PCs
  <2> QED
    BY <1>28, <2>1 DEF Leave
<1>u. CASE UNCHANGED vars
  BY <1>u DEF vars
<1> QED
  BY <1>1, <1>2, <1>3, <1>4, <1>5, <1>6, <1>7, <1>8, <1>9, <1>10, <1>11, <1>12, <1>13, <1>14,
     <1>15, <1>16, <1>17, <1>18, <1>19, <1>20, <1>21, <1>22, <1>23, <1>24, <1>25, <1>26, <1>27,
     <1>28, <1>u DEF Next, Step

-----------------------------------------------------------------------------
(* Nothing is forgotten in the queue *)

\* Who finds m_SendFlag taken may leave: while a message is queued, the flag is
\* down and the session is connected, somebody comes to look again.
LEMMA WakeStep ==
  ASSUME IInv, [Next]_vars
  PROVE  NoLostWakeup'
<1> USE DEF IInv
<1>a. /\ pc \in [Threads -> PCs] /\ sendThFL \in {0, 1} /\ sendFlag \in {0, 1} /\ dcFlag \in {0, 1}
      /\ sendQ \in Seq(Msgs) /\ qSize \in Int
  BY DEF TypeOK
<1>b. /\ Sweeper \in Threads /\ Senders \subseteq Threads /\ Closers \subseteq Threads
      /\ Workers \subseteq Threads
  BY DEF Threads
<1> USE DEF NoLostWakeup, session, queue, io, history, rest
<1>1. ASSUME NEW s \in Senders, CallSend(s) PROVE NoLostWakeup'
  BY <1>1, <1>a, <1>b DEF CallSend, Goto
<1>2. ASSUME NEW c \in Closers, CallDisconnect(c) PROVE NoLostWakeup'
  BY <1>2, <1>a, <1>b DEF CallDisconnect, Goto
<1>3. ASSUME Sweep PROVE NoLostWakeup'
  BY <1>3, <1>a, <1>b DEF Sweep, Goto
<1>4. ASSUME NEW w \in Workers, TakeSend(w) PROVE NoLostWakeup'
  BY <1>4, <1>a, <1>b DEF TakeSend, Goto
<1>5. ASSUME NEW w \in Workers, RecvEnd(w) PROVE NoLostWakeup'
  BY <1>5, <1>a, <1>b DEF RecvEnd, Goto
<1>6. ASSUME NEW w \in Workers, TakeRelease(w) PROVE NoLostWakeup'
  BY <1>6, <1>a, <1>b DEF TakeRelease, Goto
<1>7. ASSUME NEW t \in Threads, Check(t) PROVE NoLostWakeup'
  BY <1>7, <1>a, <1>b DEF Check, Goto
<1>8. ASSUME NEW t \in Threads, Room(t) PROVE NoLostWakeup'
  BY <1>8, <1>a, <1>b DEF Room, Goto
<1>9. ASSUME NEW t \in Threads, Link(t) PROVE NoLostWakeup'
  BY <1>9, <1>a, <1>b DEF Link, Goto, FlagOwned, Roles
<1>10. ASSUME NEW t \in Threads, Count(t) PROVE NoLostWakeup'
  BY <1>10, <1>a, <1>b DEF Count, Goto, Roles
<1>11. ASSUME NEW t \in Threads, Scan(t) PROVE NoLostWakeup'
  BY <1>11, <1>a, <1>b DEF Scan, Goto
<1>12. ASSUME NEW t \in Threads, Post(t) PROVE NoLostWakeup'
  BY <1>12, <1>a, <1>b DEF Post, Goto
<1>13. ASSUME NEW t \in Threads, Flag(t) PROVE NoLostWakeup'
  BY <1>13, <1>a, <1>b DEF Flag, Goto, Roles
<1>14. ASSUME NEW t \in Threads, Size(t) PROVE NoLostWakeup'
  BY <1>14, <1>a, <1>b DEF Size, Goto
<1>15. ASSUME NEW t \in Threads, Unflag(t) PROVE NoLostWakeup'
  BY <1>15, <1>a, <1>b DEF Unflag, Goto
<1>16. ASSUME NEW t \in Threads, Again(t) PROVE NoLostWakeup'
  <2>1. CASE Queued
    BY <1>16, <1>a, <2>1 DEF Again, Goto
  <2>2. CASE ~Queued /\ sendQ # <<>>
    <3>1. Cardinality(Where(pc, {"count"})) # 0
      <4>1. Len(sendQ) \in Nat \ {0}
        BY <1>a, <2>2, EmptySeq
      <4>2. Cardinality(Where(pc, {"count"})) \in Nat
        BY WhereFinite
      <4> QED
        BY <2>2, <4>1, <4>2 DEF Queued, SizeCounts
    <3>2. PICK u \in Threads : pc[u] = "count"
      <4>1. Where(pc, {"count"}) # {}
        BY <3>1, FS_EmptySet
      <4> QED
        BY <4>1 DEF Where
    <3>3. pc'[u] = "count"
      BY <1>16, <1>a, <3>2 DEF Again, Goto
    <3> QED
      BY <3>3
  <2>3. CASE sendQ = <<>>
    BY <1>16, <2>3 DEF Again
  <2> QED
    BY <2>1, <2>2, <2>3
<1>17. ASSUME NEW t \in Threads, Take(t) PROVE NoLostWakeup'
  BY <1>17 DEF Take, FlagOwned, OwningPCs
<1>18. ASSUME NEW t \in Threads, TakeEnd(t) PROVE NoLostWakeup'
  BY <1>18, <1>a, <1>b DEF TakeEnd, Goto
<1>19. ASSUME NEW t \in Threads, WsaSend(t) PROVE NoLostWakeup'
  BY <1>19, <1>a, <1>b DEF WsaSend, Goto
<1>20. ASSUME NEW t \in Threads, Disconnect(t) PROVE NoLostWakeup'
  BY <1>20, <1>a, <1>b DEF Disconnect, Goto
<1>21. ASSUME NEW t \in Threads, Dec(t) PROVE NoLostWakeup'
  BY <1>21, <1>a, <1>b DEF Dec, Goto
<1>22. ASSUME NEW t \in Threads, Release(t) PROVE NoLostWakeup'
  BY <1>22, <1>a, <1>b DEF Release, Goto
<1>23. ASSUME NEW t \in Threads, DropOwn(t) PROVE NoLostWakeup'
  BY <1>23, <1>a, <1>b DEF DropOwn, Goto
<1>24. ASSUME NEW t \in Threads, FreeSent(t) PROVE NoLostWakeup'
  BY <1>24, <1>a, <1>b DEF FreeSent, Goto
<1>25. ASSUME NEW t \in Threads, ClearFlag(t) PROVE NoLostWakeup'
  BY <1>25, <1>a, <1>b DEF ClearFlag, Goto
<1>26. ASSUME NEW t \in Threads, FreeArray(t) PROVE NoLostWakeup'
  BY <1>26, <1>a, <1>b DEF FreeArray, Goto
<1>27. ASSUME NEW t \in Threads, Drain(t) PROVE NoLostWakeup'
  BY <1>27 DEF Drain
<1>28. ASSUME NEW t \in Threads, Leave(t) PROVE NoLostWakeup'
  BY <1>28, <1>a, <1>b DEF Leave, Goto
<1>u. CASE UNCHANGED vars
  BY <1>u DEF vars
<1> QED
  BY <1>1, <1>2, <1>3, <1>4, <1>5, <1>6, <1>7, <1>8, <1>9, <1>10, <1>11, <1>12, <1>13, <1>14,
     <1>15, <1>16, <1>17, <1>18, <1>19, <1>20, <1>21, <1>22, <1>23, <1>24, <1>25, <1>26, <1>27,
     <1>28, <1>u DEF Next, Step

-----------------------------------------------------------------------------
(* The order of the messages *)

FillingPCs == {"deq", "wsa"}

\* What is pulled, when the threads are at p and have taken g.
PulledOf(p, g) ==
    IF Where(p, FillingPCs) = {} THEN <<>> ELSE g[CHOOSE t \in Where(p, FillingPCs) : TRUE]

\* One thread fills m_SendArray: what is pulled is what it has taken.
LEMMA OnePulls ==
  ASSUME NEW p, NEW g, NEW t \in Threads, p[t] \in FillingPCs,
         \A u \in Threads : p[u] \in FillingPCs => u = t
  PROVE  PulledOf(p, g) = g[t]
<1>1. Where(p, FillingPCs) = {t}
  BY DEF Where
<1> QED
  BY <1>1 DEF PulledOf

\* Nobody fills it: nothing is pulled.
LEMMA NonePulls ==
  ASSUME NEW p, NEW g, \A u \in Threads : p[u] \notin FillingPCs
  PROVE  PulledOf(p, g) = <<>>
BY DEF PulledOf, Where

\* What the next three lemmas say, as operators: applied, they leave nothing to
\* compute.
Regrouped(a, b, c, d) == (a \o (b \o c)) \o d = (a \o b) \o (c \o d)
TakeKept(p, g, q) == (p \o Append(g, Head(q))) \o Tail(q) = (p \o g) \o q
LinkKept(p, g, q, m) == Append((p \o g) \o q, m) = (p \o g) \o Append(q, m)

\* Concatenation is associative, said of four sequences.
LEMMA Regroup ==
  ASSUME NEW a \in Seq(Msgs), NEW b \in Seq(Msgs), NEW c \in Seq(Msgs), NEW d \in Seq(Msgs)
  PROVE  Regrouped(a, b, c, d)
<1>1. PICK e \in Seq(Msgs) : e = a \o b
  BY ConcatProperties
<1>2. (a \o b) \o c = a \o (b \o c)
  OBVIOUS
<1>3. (e \o c) \o d = e \o (c \o d)
  OBVIOUS
<1> QED
  BY <1>1, <1>2, <1>3, Zenon DEF Regrouped

\* A message goes from the head of the queue to the end of what is pulled.
LEMMA TakeKeeps ==
  ASSUME NEW p \in Seq(Msgs), NEW g \in Seq(Msgs), NEW q \in Seq(Msgs), q # <<>>
  PROVE  TakeKept(p, g, q)
<1> DEFINE h == <<Head(q)>>
<1>1. Head(q) \in Msgs /\ Tail(q) \in Seq(Msgs)
  BY HeadTailProperties
<1>2. h \in Seq(Msgs)
  BY <1>1
<1>3. q = h \o Tail(q)
  <2>1. Len(h) = 1 /\ h[1] = Head(q)
    OBVIOUS
  <2>2. h \o Tail(q) \in Seq(Msgs) /\ Len(h \o Tail(q)) = Len(q)
    BY <1>1, <1>2, <2>1, ConcatProperties, HeadTailProperties, LenProperties
  <2>3. ASSUME NEW i \in 1..Len(q) PROVE q[i] = (h \o Tail(q))[i]
    <3>1. CASE i = 1
      BY <1>1, <1>2, <2>1, <3>1, ConcatProperties, HeadTailProperties
    <3>2. CASE i # 1
      <4>1. i - 1 \in 1..Len(Tail(q)) /\ Tail(q)[i - 1] = q[i]
        BY <3>2, HeadTailProperties, LenProperties
      <4>2. (h \o Tail(q))[i] = Tail(q)[i - 1]
        BY <1>1, <1>2, <2>1, <3>2, ConcatProperties, HeadTailProperties, LenProperties
      <4> QED
        BY <4>1, <4>2
    <3> QED
      BY <3>1, <3>2
  <2> QED
    BY <2>2, <2>3, SeqEqual
<1>4. Append(g, Head(q)) = g \o h
  BY <1>1, AppendIsConcat
<1> HIDE DEF h
<1>5. Regrouped(p, g, h, Tail(q))
  BY <1>1, <1>2, Regroup
<1> QED
  BY <1>3, <1>4, <1>5, Zenon DEF Regrouped, TakeKept

\* Linking a message and noting it at the end is the same.
LEMMA LinkKeeps ==
  ASSUME NEW p \in Seq(Msgs), NEW g \in Seq(Msgs), NEW q \in Seq(Msgs), NEW m \in Msgs
  PROVE  LinkKept(p, g, q, m)
<1>1. PICK e \in Seq(Msgs) : e = p \o g
  BY ConcatProperties
<1>2. PICK l \in Seq(Msgs) : l = <<m>>
  <2>1. <<m>> \in Seq(Msgs)
    OBVIOUS
  <2> QED
    BY <2>1
<1>3. Append(q, m) = q \o l
  BY <1>2, AppendIsConcat
<1>4. Append(e \o q, m) = (e \o q) \o l
  <2>1. e \o q \in Seq(Msgs)
    BY ConcatProperties
  <2> QED
    BY <1>2, <2>1, AppendIsConcat
<1>5. (e \o q) \o l = e \o (q \o l)
  OBVIOUS
<1> QED
  BY <1>1, <1>3, <1>4, <1>5, Zenon DEF LinkKept

\* No step loses, doubles or reorders a message of an open session.
LEMMA OrderStep ==
  ASSUME IInv, [Next]_vars
  PROVE  SentInOrder'
<1> USE DEF IInv
<1>a. /\ pc \in [Threads -> PCs] /\ got \in [Threads -> Seq(Msgs)] /\ relFlag \in {0, 1}
      /\ sendQ \in Seq(Msgs) /\ linked \in Seq(Msgs) /\ posted \in Seq(Msgs)
      /\ cur \in [Threads -> Msgs \cup {NoMsg}]
  BY DEF TypeOK
<1>b. /\ Sweeper \in Threads /\ Senders \subseteq Threads /\ Closers \subseteq Threads
      /\ Workers \subseteq Threads
  BY DEF Threads
<1>c. Pulled = PulledOf(pc, got) /\ Pulled' = PulledOf(pc', got')
  BY DEF Pulled, PulledOf, Filling, Where, FillingPCs
<1>d. \A t, u \in Threads : pc[t] \in OwningPCs /\ pc[u] \in FillingPCs => u = t
  BY DEF FlagOwned, OwningPCs, FillingPCs
<1>e. \A t \in Threads : pc[t] \in FillingPCs => Pulled = got[t]
  BY <1>c, <1>d, OnePulls DEF OwningPCs, FillingPCs
<1>f. (\A t \in Threads : pc[t] \notin FillingPCs) => Pulled = <<>>
  BY <1>c, NonePulls
<1>g. Pulled \in Seq(Msgs)
  <2>1. CASE \A t \in Threads : pc[t] \notin FillingPCs
    <3>1. Pulled = <<>>
      BY <1>f, <2>1
    <3> QED
      BY <3>1, EmptySeq
  <2>2. ASSUME NEW t \in Threads, pc[t] \in FillingPCs PROVE Pulled \in Seq(Msgs)
    BY <1>a, <1>e, <2>2
  <2> QED
    BY <2>1, <2>2
<1> USE DEF SentInOrder, session, queue, io, history, rest
<1>1. ASSUME NEW s \in Senders, CallSend(s) PROVE SentInOrder'
  <2>1. Where(pc', FillingPCs) = Where(pc, FillingPCs) /\ UNCHANGED <<got, sendQ, linked, posted>>
    BY <1>1, <1>a, <1>b DEF CallSend, Goto, Where, FillingPCs
  <2>2. relFlag' = 0 => relFlag = 0
    BY <1>1, <1>a DEF CallSend
  <2> QED
    BY <1>c, <2>1, <2>2 DEF PulledOf
<1>2. ASSUME NEW c \in Closers, CallDisconnect(c) PROVE SentInOrder'
  <2>1. Where(pc', FillingPCs) = Where(pc, FillingPCs) /\ UNCHANGED <<got, sendQ, linked, posted>>
    BY <1>2, <1>a, <1>b DEF CallDisconnect, Goto, Where, FillingPCs
  <2>2. relFlag' = 0 => relFlag = 0
    BY <1>2, <1>a DEF CallDisconnect
  <2> QED
    BY <1>c, <2>1, <2>2 DEF PulledOf
<1>3. ASSUME Sweep PROVE SentInOrder'
  <2>1. Where(pc', FillingPCs) = Where(pc, FillingPCs) /\ UNCHANGED <<got, sendQ, linked, posted>>
    BY <1>3, <1>a, <1>b DEF Sweep, Goto, Where, FillingPCs
  <2>2. relFlag' = 0 => relFlag = 0
    BY <1>3, <1>a DEF Sweep
  <2> QED
    BY <1>c, <2>1, <2>2 DEF PulledOf
<1>4. ASSUME NEW w \in Workers, TakeSend(w) PROVE SentInOrder'
  <2>1. Where(pc', FillingPCs) = Where(pc, FillingPCs) /\ UNCHANGED <<got, sendQ, linked, posted>>
    BY <1>4, <1>a, <1>b DEF TakeSend, Goto, Where, FillingPCs
  <2>2. relFlag' = 0 => relFlag = 0
    BY <1>4, <1>a DEF TakeSend
  <2> QED
    BY <1>c, <2>1, <2>2 DEF PulledOf
<1>5. ASSUME NEW w \in Workers, RecvEnd(w) PROVE SentInOrder'
  <2>1. Where(pc', FillingPCs) = Where(pc, FillingPCs) /\ UNCHANGED <<got, sendQ, linked, posted>>
    BY <1>5, <1>a, <1>b DEF RecvEnd, Goto, Where, FillingPCs
  <2>2. relFlag' = 0 => relFlag = 0
    BY <1>5, <1>a DEF RecvEnd
  <2> QED
    BY <1>c, <2>1, <2>2 DEF PulledOf
<1>6. ASSUME NEW w \in Workers, TakeRelease(w) PROVE SentInOrder'
  <2>1. Where(pc', FillingPCs) = Where(pc, FillingPCs) /\ UNCHANGED <<got, sendQ, linked, posted>>
    BY <1>6, <1>a, <1>b DEF TakeRelease, Goto, Where, FillingPCs
  <2>2. relFlag' = 0 => relFlag = 0
    BY <1>6, <1>a DEF TakeRelease
  <2> QED
    BY <1>c, <2>1, <2>2 DEF PulledOf
<1>7. ASSUME NEW t \in Threads, Check(t) PROVE SentInOrder'
  <2>1. Where(pc', FillingPCs) = Where(pc, FillingPCs) /\ UNCHANGED <<got, sendQ, linked, posted>>
    BY <1>7, <1>a, <1>b DEF Check, Goto, Where, FillingPCs
  <2>2. relFlag' = 0 => relFlag = 0
    BY <1>7, <1>a DEF Check
  <2> QED
    BY <1>c, <2>1, <2>2 DEF PulledOf
<1>8. ASSUME NEW t \in Threads, Room(t) PROVE SentInOrder'
  <2>1. Where(pc', FillingPCs) = Where(pc, FillingPCs) /\ UNCHANGED <<got, sendQ, linked, posted>>
    BY <1>8, <1>a, <1>b DEF Room, Goto, Where, FillingPCs
  <2>2. relFlag' = 0 => relFlag = 0
    BY <1>8, <1>a DEF Room
  <2> QED
    BY <1>c, <2>1, <2>2 DEF PulledOf
<1>9. ASSUME NEW t \in Threads, Link(t) PROVE SentInOrder'
  <2>1. Where(pc', FillingPCs) = Where(pc, FillingPCs) /\ UNCHANGED <<got, relFlag, posted>>
    BY <1>9, <1>a DEF Link, Goto, Where, FillingPCs
  <2>2. Pulled' = Pulled
    BY <1>c, <2>1 DEF PulledOf
  <2>3. cur[t] \in Msgs
    BY <1>9, <1>a DEF Link, OwnMessages, Roles
  <2>4. linked' = Append(linked, cur[t]) /\ sendQ' = Append(sendQ, cur[t])
    BY <1>9 DEF Link
  <2>5. LinkKept(posted, Pulled, sendQ, cur[t])
    BY <1>a, <1>g, <2>3, LinkKeeps
  <2>6. Append((posted \o Pulled) \o sendQ, cur[t]) = (posted \o Pulled) \o Append(sendQ, cur[t])
    BY <2>5, Zenon DEF LinkKept
  <2> QED
    BY <2>1, <2>2, <2>4, <2>6, Zenon
<1>10. ASSUME NEW t \in Threads, Count(t) PROVE SentInOrder'
  <2>1. Where(pc', FillingPCs) = Where(pc, FillingPCs) /\ UNCHANGED <<got, sendQ, linked, posted>>
    BY <1>10, <1>a, <1>b DEF Count, Goto, Where, FillingPCs
  <2>2. relFlag' = 0 => relFlag = 0
    BY <1>10, <1>a DEF Count
  <2> QED
    BY <1>c, <2>1, <2>2 DEF PulledOf
<1>11. ASSUME NEW t \in Threads, Scan(t) PROVE SentInOrder'
  <2>1. Where(pc', FillingPCs) = Where(pc, FillingPCs) /\ UNCHANGED <<got, sendQ, linked, posted>>
    BY <1>11, <1>a, <1>b DEF Scan, Goto, Where, FillingPCs
  <2>2. relFlag' = 0 => relFlag = 0
    BY <1>11, <1>a DEF Scan
  <2> QED
    BY <1>c, <2>1, <2>2 DEF PulledOf
<1>12. ASSUME NEW t \in Threads, Post(t) PROVE SentInOrder'
  <2>1. Where(pc', FillingPCs) = Where(pc, FillingPCs) /\ UNCHANGED <<got, sendQ, linked, posted>>
    BY <1>12, <1>a, <1>b DEF Post, Goto, Where, FillingPCs
  <2>2. relFlag' = 0 => relFlag = 0
    BY <1>12, <1>a DEF Post
  <2> QED
    BY <1>c, <2>1, <2>2 DEF PulledOf
<1>13. ASSUME NEW t \in Threads, Flag(t) PROVE SentInOrder'
  <2>1. UNCHANGED <<got, relFlag, sendQ, linked, posted>>
    BY <1>13 DEF Flag
  <2>2. CASE pc'[t] = "deq"
    <3>1. \A u \in Threads : pc[u] \notin FillingPCs
      BY <1>13, <1>a, <2>2 DEF Flag, Goto, FlagOwned, Roles, OwningPCs, FillingPCs
    <3>2. \A u \in Threads : pc'[u] \in FillingPCs => u = t
      BY <1>13, <1>a, <3>1 DEF Flag, Goto
    <3>3. Pulled' = got[t]
      BY <1>c, <2>1, <2>2, <3>2, OnePulls DEF FillingPCs
    <3>4. got[t] = <<>>
      BY <3>1 DEF ArrayOwned, FillingPCs
    <3> QED
      BY <1>f, <2>1, <3>1, <3>3, <3>4
  <2>3. CASE pc'[t] # "deq"
    <3>1. Where(pc', FillingPCs) = Where(pc, FillingPCs)
      BY <1>13, <1>a, <2>3 DEF Flag, Goto, Where, FillingPCs
    <3> QED
      BY <1>c, <2>1, <3>1 DEF PulledOf
  <2> QED
    BY <2>2, <2>3
<1>14. ASSUME NEW t \in Threads, Size(t) PROVE SentInOrder'
  <2>1. UNCHANGED <<got, relFlag, sendQ, linked, posted>>
    BY <1>14 DEF Size
  <2>2. CASE pc'[t] = "deq"
    <3>1. \A u \in Threads : pc[u] \notin FillingPCs
      BY <1>14, <1>a, <2>2 DEF Size, Goto, FlagOwned, Roles, OwningPCs, FillingPCs
    <3>2. \A u \in Threads : pc'[u] \in FillingPCs => u = t
      BY <1>14, <1>a, <3>1 DEF Size, Goto
    <3>3. Pulled' = got[t]
      BY <1>c, <2>1, <2>2, <3>2, OnePulls DEF FillingPCs
    <3>4. got[t] = <<>>
      BY <3>1 DEF ArrayOwned, FillingPCs
    <3> QED
      BY <1>f, <2>1, <3>1, <3>3, <3>4
  <2>3. CASE pc'[t] # "deq"
    <3>1. Where(pc', FillingPCs) = Where(pc, FillingPCs)
      BY <1>14, <1>a, <2>3 DEF Size, Goto, Where, FillingPCs
    <3> QED
      BY <1>c, <2>1, <3>1 DEF PulledOf
  <2> QED
    BY <2>2, <2>3
<1>15. ASSUME NEW t \in Threads, Unflag(t) PROVE SentInOrder'
  <2>1. Where(pc', FillingPCs) = Where(pc, FillingPCs) /\ UNCHANGED <<got, sendQ, linked, posted>>
    BY <1>15, <1>a, <1>b DEF Unflag, Goto, Where, FillingPCs
  <2>2. relFlag' = 0 => relFlag = 0
    BY <1>15, <1>a DEF Unflag
  <2> QED
    BY <1>c, <2>1, <2>2 DEF PulledOf
<1>16. ASSUME NEW t \in Threads, Again(t) PROVE SentInOrder'
  <2>1. Where(pc', FillingPCs) = Where(pc, FillingPCs) /\ UNCHANGED <<got, sendQ, linked, posted>>
    BY <1>16, <1>a, <1>b DEF Again, Goto, Where, FillingPCs
  <2>2. relFlag' = 0 => relFlag = 0
    BY <1>16, <1>a DEF Again
  <2> QED
    BY <1>c, <2>1, <2>2 DEF PulledOf
<1>17. ASSUME NEW t \in Threads, Take(t) PROVE SentInOrder'
  <2>1. Pulled = got[t]
    BY <1>17, <1>e DEF Take, FillingPCs
  <2>2. \A u \in Threads : pc'[u] \in FillingPCs => u = t
    BY <1>17, <1>d DEF Take, OwningPCs
  <2>3. Pulled' = got'[t]
    <3>1. pc'[t] \in FillingPCs
      BY <1>17 DEF Take, FillingPCs
    <3>2. PulledOf(pc', got') = got'[t]
      BY <2>2, <3>1, OnePulls
    <3> QED
      BY <1>c, <3>2
  <2>4. got'[t] = Append(got[t], Head(sendQ)) /\ sendQ' = Tail(sendQ) /\ sendQ # <<>>
        /\ UNCHANGED <<relFlag, linked, posted>>
    BY <1>17, <1>a DEF Take
  <2>5. got[t] \in Seq(Msgs)
    BY <1>a
  <2>6. TakeKept(posted, got[t], sendQ)
    BY <1>a, <2>4, <2>5, TakeKeeps
  <2>7. (posted \o Append(got[t], Head(sendQ))) \o Tail(sendQ) = (posted \o got[t]) \o sendQ
    BY <2>6, Zenon DEF TakeKept
  <2> QED
    BY <2>1, <2>3, <2>4, <2>7, Zenon
<1>18. ASSUME NEW t \in Threads, TakeEnd(t) PROVE SentInOrder'
  <2>1. Where(pc', FillingPCs) = Where(pc, FillingPCs) /\ UNCHANGED <<got, sendQ, linked, posted>>
    BY <1>18, <1>a, <1>b DEF TakeEnd, Goto, Where, FillingPCs
  <2>2. relFlag' = 0 => relFlag = 0
    BY <1>18, <1>a DEF TakeEnd
  <2> QED
    BY <1>c, <2>1, <2>2 DEF PulledOf
<1>19. ASSUME NEW t \in Threads, WsaSend(t) PROVE SentInOrder'
  <2>1. Pulled = got[t]
    BY <1>19, <1>e DEF WsaSend, FillingPCs
  <2>2. \A u \in Threads : pc'[u] \notin FillingPCs
    BY <1>19, <1>a, <1>d DEF WsaSend, Goto, OwningPCs, FillingPCs
  <2>3. Pulled' = <<>>
    BY <1>c, <2>2, NonePulls
  <2>4. posted' = posted \o got[t] /\ UNCHANGED <<relFlag, linked, sendQ>>
    BY <1>19 DEF WsaSend
  <2>5. posted' \in Seq(Msgs) /\ posted' \o <<>> = posted'
    BY <1>a, <2>4, ConcatProperties, ConcatEmptySeq
  <2> QED
    BY <2>1, <2>3, <2>4, <2>5
<1>20. ASSUME NEW t \in Threads, Disconnect(t) PROVE SentInOrder'
  <2>1. Where(pc', FillingPCs) = Where(pc, FillingPCs) /\ UNCHANGED <<got, sendQ, linked, posted>>
    BY <1>20, <1>a, <1>b DEF Disconnect, Goto, Where, FillingPCs
  <2>2. relFlag' = 0 => relFlag = 0
    BY <1>20, <1>a DEF Disconnect
  <2> QED
    BY <1>c, <2>1, <2>2 DEF PulledOf
<1>21. ASSUME NEW t \in Threads, Dec(t) PROVE SentInOrder'
  <2>1. Where(pc', FillingPCs) = Where(pc, FillingPCs) /\ UNCHANGED <<got, sendQ, linked, posted>>
    BY <1>21, <1>a, <1>b DEF Dec, Goto, Where, FillingPCs
  <2>2. relFlag' = 0 => relFlag = 0
    BY <1>21, <1>a DEF Dec
  <2> QED
    BY <1>c, <2>1, <2>2 DEF PulledOf
<1>22. ASSUME NEW t \in Threads, Release(t) PROVE SentInOrder'
  <2>1. Where(pc', FillingPCs) = Where(pc, FillingPCs) /\ UNCHANGED <<got, sendQ, linked, posted>>
    BY <1>22, <1>a, <1>b DEF Release, Goto, Where, FillingPCs
  <2>2. relFlag' = 0 => relFlag = 0
    BY <1>22, <1>a DEF Release
  <2> QED
    BY <1>c, <2>1, <2>2 DEF PulledOf
<1>23. ASSUME NEW t \in Threads, DropOwn(t) PROVE SentInOrder'
  <2>1. Where(pc', FillingPCs) = Where(pc, FillingPCs) /\ UNCHANGED <<got, sendQ, linked, posted>>
    BY <1>23, <1>a, <1>b DEF DropOwn, Goto, Where, FillingPCs
  <2>2. relFlag' = 0 => relFlag = 0
    BY <1>23, <1>a DEF DropOwn
  <2> QED
    BY <1>c, <2>1, <2>2 DEF PulledOf
<1>24. ASSUME NEW t \in Threads, FreeSent(t) PROVE SentInOrder'
  <2>1. Where(pc', FillingPCs) = Where(pc, FillingPCs) /\ UNCHANGED <<got, sendQ, linked, posted>>
    BY <1>24, <1>a, <1>b DEF FreeSent, Goto, Where, FillingPCs
  <2>2. relFlag' = 0 => relFlag = 0
    BY <1>24, <1>a DEF FreeSent
  <2> QED
    BY <1>c, <2>1, <2>2 DEF PulledOf
<1>25. ASSUME NEW t \in Threads, ClearFlag(t) PROVE SentInOrder'
  <2>1. Where(pc', FillingPCs) = Where(pc, FillingPCs) /\ UNCHANGED <<got, sendQ, linked, posted>>
    BY <1>25, <1>a, <1>b DEF ClearFlag, Goto, Where, FillingPCs
  <2>2. relFlag' = 0 => relFlag = 0
    BY <1>25, <1>a DEF ClearFlag
  <2> QED
    BY <1>c, <2>1, <2>2 DEF PulledOf
<1>26. ASSUME NEW t \in Threads, FreeArray(t) PROVE SentInOrder'
  <2>1. Where(pc', FillingPCs) = Where(pc, FillingPCs) /\ UNCHANGED <<got, sendQ, linked, posted>>
    BY <1>26, <1>a, <1>b DEF FreeArray, Goto, Where, FillingPCs
  <2>2. relFlag' = 0 => relFlag = 0
    BY <1>26, <1>a DEF FreeArray
  <2> QED
    BY <1>c, <2>1, <2>2 DEF PulledOf
<1>27. ASSUME NEW t \in Threads, Drain(t) PROVE SentInOrder'
  BY <1>27 DEF Drain, Released, ClosingPCs
<1>28. ASSUME NEW t \in Threads, Leave(t) PROVE SentInOrder'
  <2>1. Where(pc', FillingPCs) = Where(pc, FillingPCs) /\ UNCHANGED <<got, sendQ, linked, posted>>
    BY <1>28, <1>a, <1>b DEF Leave, Goto, Where, FillingPCs
  <2>2. relFlag' = 0 => relFlag = 0
    BY <1>28, <1>a DEF Leave
  <2> QED
    BY <1>c, <2>1, <2>2 DEF PulledOf
<1>u. CASE UNCHANGED vars
  <2>1. UNCHANGED <<pc, got, sendQ, linked, posted, relFlag>>
    BY <1>u DEF vars
  <2> QED
    BY <1>c, <2>1
<1> QED
  BY <1>1, <1>2, <1>3, <1>4, <1>5, <1>6, <1>7, <1>8, <1>9, <1>10, <1>11, <1>12, <1>13, <1>14,
     <1>15, <1>16, <1>17, <1>18, <1>19, <1>20, <1>21, <1>22, <1>23, <1>24, <1>25, <1>26, <1>27,
     <1>28, <1>u DEF Next, Step

-----------------------------------------------------------------------------
(* Where the messages are *)

\* What a sequence holds after an Append, and whether it still holds each once.
LEMMA AppendHolds ==
  ASSUME NEW q \in Seq(Msgs), NEW m \in Msgs
  PROVE  /\ ToSet(Append(q, m)) = ToSet(q) \cup {m}
         /\ Distinct(q) /\ m \notin ToSet(q) => Distinct(Append(q, m))
<1>1. Len(q) \in Nat /\ Append(q, m) \in Seq(Msgs) /\ Len(Append(q, m)) = Len(q) + 1
  BY AppendProperties, LenProperties
<1>2. \A i \in 1..Len(q) : Append(q, m)[i] = q[i]
  BY AppendProperties
<1>3. Append(q, m)[Len(q) + 1] = m
  BY AppendProperties
<1>4. ToSet(q) = {q[i] : i \in 1..Len(q)}
  BY LenProperties DEF ToSet
<1>5. ToSet(Append(q, m)) = {Append(q, m)[i] : i \in 1..(Len(q) + 1)}
  BY <1>1, LenProperties DEF ToSet
<1>6. 1..(Len(q) + 1) = (1..Len(q)) \cup {Len(q) + 1}
  BY <1>1
<1>7. ToSet(Append(q, m)) = ToSet(q) \cup {m}
  BY <1>2, <1>3, <1>4, <1>5, <1>6
<1>8. ASSUME Distinct(q), m \notin ToSet(q) PROVE Distinct(Append(q, m))
  <2>1. SUFFICES ASSUME NEW i \in 1..(Len(q) + 1), NEW j \in 1..(Len(q) + 1),
                        Append(q, m)[i] = Append(q, m)[j]
                 PROVE  i = j
    BY <1>1 DEF Distinct
  <2>2. \A k \in 1..Len(q) : q[k] # m
    BY <1>4, <1>8
  <2> QED
    BY <1>1, <1>2, <1>3, <1>6, <1>8, <2>1, <2>2 DEF Distinct
<1> QED
  BY <1>7, <1>8

\* The same for the removal of the first.
LEMMA TailHolds ==
  ASSUME NEW q \in Seq(Msgs), q # <<>>
  PROVE  /\ Head(q) \in Msgs /\ Tail(q) \in Seq(Msgs)
         /\ Head(q) \in ToSet(q)
         /\ ToSet(q) = ToSet(Tail(q)) \cup {Head(q)}
         /\ Distinct(q) => Distinct(Tail(q)) /\ Head(q) \notin ToSet(Tail(q))
<1>1. Head(q) \in Msgs /\ Tail(q) \in Seq(Msgs) /\ Len(Tail(q)) = Len(q) - 1
  BY HeadTailProperties
<1>2. Len(q) \in Nat \ {0} /\ Head(q) = q[1]
  BY EmptySeq
<1>3. \A i \in 1..(Len(q) - 1) : Tail(q)[i] = q[i + 1]
  BY <1>1, HeadTailProperties
<1>4. ToSet(q) = {q[i] : i \in 1..Len(q)}
  BY LenProperties DEF ToSet
<1>5. ToSet(Tail(q)) = {Tail(q)[i] : i \in 1..(Len(q) - 1)}
  BY <1>1, LenProperties DEF ToSet
<1>6. ToSet(q) = ToSet(Tail(q)) \cup {Head(q)}
  <2>1. ASSUME NEW i \in 1..Len(q) PROVE q[i] \in ToSet(Tail(q)) \cup {Head(q)}
    <3>1. CASE i = 1
      BY <1>2, <3>1
    <3>2. CASE i # 1
      <4>1. i - 1 \in 1..(Len(q) - 1) /\ (i - 1) + 1 = i
        BY <1>2, <3>2
      <4> QED
        BY <1>3, <1>5, <4>1
    <3> QED
      BY <3>1, <3>2
  <2>2. ASSUME NEW i \in 1..(Len(q) - 1) PROVE Tail(q)[i] \in ToSet(q)
    <3>1. i + 1 \in 1..Len(q)
      BY <1>2
    <3> QED
      BY <1>3, <1>4, <3>1
  <2>3. Head(q) \in ToSet(q)
    BY <1>2, <1>4
  <2> QED
    BY <1>4, <1>5, <2>1, <2>2, <2>3
<1>7. ASSUME Distinct(q) PROVE Distinct(Tail(q)) /\ Head(q) \notin ToSet(Tail(q))
  <2>1. ASSUME NEW i \in 1..(Len(q) - 1), NEW j \in 1..(Len(q) - 1), Tail(q)[i] = Tail(q)[j]
        PROVE  i = j
    <3>1. i + 1 \in 1..Len(q) /\ j + 1 \in 1..Len(q) /\ q[i + 1] = q[j + 1]
      BY <1>2, <1>3, <2>1
    <3> QED
      BY <1>7, <3>1 DEF Distinct
  <2>2. ASSUME NEW i \in 1..(Len(q) - 1) PROVE Tail(q)[i] # Head(q)
    <3>1. i + 1 \in 1..Len(q) /\ 1 \in 1..Len(q) /\ i + 1 # 1
      BY <1>2
    <3>2. q[i + 1] # q[1]
      BY <1>7, <3>1 DEF Distinct
    <3> QED
      BY <1>2, <1>3, <3>2
  <2> QED
    BY <1>1, <1>5, <2>1, <2>2 DEF Distinct
<1> QED
  BY <1>1, <1>6, <1>7

\* The elements of the empty sequence and of a sequence of one.
LEMMA SmallHolds ==
  /\ ToSet(<<>>) = {}
  /\ \A m : ToSet(<<m>>) = {m}
<1>1. ToSet(<<>>) = {}
  BY DEF ToSet
<1>2. ASSUME NEW m PROVE ToSet(<<m>>) = {m}
  BY DEF ToSet
<1> QED
  BY <1>1, <1>2

\* No message is in two hands, or in the queue twice, or in a hand before it is linked.
LEMMA PlaceStep ==
  ASSUME IInv, [Next]_vars
  PROVE  OwnMessages' /\ OnePlace'
<1> USE DEF IInv
<1>a. /\ pc \in [Threads -> PCs] /\ got \in [Threads -> Seq(Msgs)] /\ sendArr \in Seq(Msgs)
      /\ sendQ \in Seq(Msgs) /\ fresh \subseteq Msgs
      /\ cur \in [Threads -> Msgs \cup {NoMsg}]
  BY DEF TypeOK
<1>b. /\ Sweeper \in Threads /\ Senders \subseteq Threads /\ Closers \subseteq Threads
      /\ Workers \subseteq Threads
  BY DEF Threads
<1>c. /\ \A t \in Threads : cur[t] # NoMsg <=> t \in Senders /\ pc[t] # "idle"
      /\ \A t, u \in Threads : cur[t] = cur[u] /\ cur[t] # NoMsg => t = u
      /\ \A t \in Threads : cur[t] \notin fresh
  BY DEF OwnMessages
<1>d. /\ Distinct(sendQ)
      /\ \A m \in ToSet(sendQ) : m \notin ToSet(sendArr) /\ ~InGot(m)
      /\ \A m \in Msgs : Unlinked(m) => ~Handed(m)
  BY DEF OnePlace
<1> USE DEF session, queue, io, history, rest
<1>1. ASSUME NEW s \in Senders, CallSend(s) PROVE OwnMessages' /\ OnePlace'
  <2>1. PICK m \in fresh : fresh' = fresh \ {m} /\ cur' = [cur EXCEPT ![s] = m]
    BY <1>1 DEF CallSend
  <2>2. UNCHANGED <<sendQ, sendArr, got>> /\ pc' = [pc EXCEPT ![s] = "check"] /\ pc[s] = "idle"
    BY <1>1 DEF CallSend, Goto
  <2>3. OwnMessages'
    BY <1>a, <1>b, <1>c, <2>1, <2>2, NoMsgApart DEF OwnMessages
  <2>4. \A x \in Msgs : Unlinked(x)' => Unlinked(x)
    BY <1>a, <1>b, <2>1, <2>2 DEF Unlinked
  <2> QED
    BY <1>d, <2>2, <2>3, <2>4 DEF OnePlace, Handed, InGot
<1>2. ASSUME NEW c \in Closers, CallDisconnect(c) PROVE OwnMessages' /\ OnePlace'
  <2>1. UNCHANGED <<sendQ, sendArr, got, fresh, cur>>
    BY <1>2 DEF CallDisconnect
  <2>2. OwnMessages'
    BY <1>2, <1>a, <1>b, <1>c, <2>1, ThreadsApart DEF CallDisconnect, Goto, OwnMessages
  <2>3. \A x \in Msgs : Unlinked(x)' => Unlinked(x)
    BY <1>2, <1>a, <1>b, <1>c, ThreadsApart, NoMsgApart, <2>1 DEF CallDisconnect, Goto, Unlinked
  <2> QED
    BY <1>d, <2>1, <2>2, <2>3 DEF OnePlace, Handed, InGot
<1>3. ASSUME Sweep PROVE OwnMessages' /\ OnePlace'
  <2>1. UNCHANGED <<sendQ, sendArr, got, fresh, cur>>
    BY <1>3 DEF Sweep
  <2>2. OwnMessages'
    BY <1>3, <1>a, <1>b, <1>c, <2>1, ThreadsApart DEF Sweep, Goto, OwnMessages
  <2>3. \A x \in Msgs : Unlinked(x)' => Unlinked(x)
    BY <1>3, <1>a, <1>b, <1>c, ThreadsApart, NoMsgApart, <2>1 DEF Sweep, Goto, Unlinked
  <2> QED
    BY <1>d, <2>1, <2>2, <2>3 DEF OnePlace, Handed, InGot
<1>4. ASSUME NEW w \in Workers, TakeSend(w) PROVE OwnMessages' /\ OnePlace'
  <2>1. UNCHANGED <<sendQ, sendArr, got, fresh, cur>>
    BY <1>4 DEF TakeSend
  <2>2. OwnMessages'
    BY <1>4, <1>a, <1>b, <1>c, <2>1, ThreadsApart DEF TakeSend, Goto, OwnMessages
  <2>3. \A x \in Msgs : Unlinked(x)' => Unlinked(x)
    BY <1>4, <1>a, <1>b, <2>1 DEF TakeSend, Goto, Unlinked
  <2> QED
    BY <1>d, <2>1, <2>2, <2>3 DEF OnePlace, Handed, InGot
<1>5. ASSUME NEW w \in Workers, RecvEnd(w) PROVE OwnMessages' /\ OnePlace'
  <2>1. UNCHANGED <<sendQ, sendArr, got, fresh, cur>>
    BY <1>5 DEF RecvEnd
  <2>2. OwnMessages'
    BY <1>5, <1>a, <1>b, <1>c, <2>1, ThreadsApart DEF RecvEnd, Goto, OwnMessages
  <2>3. \A x \in Msgs : Unlinked(x)' => Unlinked(x)
    BY <1>5, <1>a, <1>b, <2>1 DEF RecvEnd, Goto, Unlinked
  <2> QED
    BY <1>d, <2>1, <2>2, <2>3 DEF OnePlace, Handed, InGot
<1>6. ASSUME NEW w \in Workers, TakeRelease(w) PROVE OwnMessages' /\ OnePlace'
  <2>1. UNCHANGED <<sendQ, sendArr, got, fresh, cur>>
    BY <1>6 DEF TakeRelease
  <2>2. OwnMessages'
    BY <1>6, <1>a, <1>b, <1>c, <2>1, ThreadsApart DEF TakeRelease, Goto, OwnMessages
  <2>3. \A x \in Msgs : Unlinked(x)' => Unlinked(x)
    BY <1>6, <1>a, <1>b, <2>1 DEF TakeRelease, Goto, Unlinked
  <2> QED
    BY <1>d, <2>1, <2>2, <2>3 DEF OnePlace, Handed, InGot
<1>7. ASSUME NEW t \in Threads, Check(t) PROVE OwnMessages' /\ OnePlace'
  <2>1. UNCHANGED <<sendQ, sendArr, got, fresh, cur>>
    BY <1>7 DEF Check
  <2>2. OwnMessages'
    BY <1>7, <1>a, <1>b, <1>c, <2>1, ThreadsApart DEF Check, Goto, OwnMessages
  <2>3. \A x \in Msgs : Unlinked(x)' => Unlinked(x)
    BY <1>7, <1>a, <1>b, <2>1 DEF Check, Goto, Unlinked
  <2> QED
    BY <1>d, <2>1, <2>2, <2>3 DEF OnePlace, Handed, InGot
<1>8. ASSUME NEW t \in Threads, Room(t) PROVE OwnMessages' /\ OnePlace'
  <2>1. UNCHANGED <<sendQ, sendArr, got, fresh, cur>>
    BY <1>8 DEF Room
  <2>2. OwnMessages'
    BY <1>8, <1>a, <1>b, <1>c, <2>1, ThreadsApart DEF Room, Goto, OwnMessages
  <2>3. \A x \in Msgs : Unlinked(x)' => Unlinked(x)
    BY <1>8, <1>a, <1>b, <2>1 DEF Room, Goto, Unlinked
  <2> QED
    BY <1>d, <2>1, <2>2, <2>3 DEF OnePlace, Handed, InGot
<1>9. ASSUME NEW t \in Threads, Link(t) PROVE OwnMessages' /\ OnePlace'
  <2>1. cur[t] \in Msgs
    BY <1>9, <1>a, <1>c DEF Link, Roles
  <2>2. sendQ' = Append(sendQ, cur[t]) /\ UNCHANGED <<sendArr, got, cur, fresh>>
        /\ pc[t] = "link" /\ pc' = [pc EXCEPT ![t] = "count"]
    BY <1>9 DEF Link, Goto
  <2>3. OwnMessages'
    BY <1>a, <1>c, <2>2 DEF OwnMessages
  <2>4. ~Handed(cur[t])
    BY <1>d, <2>1, <2>2 DEF Unlinked
  <2>5. Distinct(sendQ') /\ ToSet(sendQ') = ToSet(sendQ) \cup {cur[t]}
    BY <1>a, <1>d, <2>1, <2>2, <2>4, AppendHolds DEF Handed
  <2>6. ~Unlinked(cur[t])'
    BY <1>a, <1>c, <2>1, <2>2, NoMsgApart DEF Unlinked
  <2>7. \A x \in Msgs : Unlinked(x)' => Unlinked(x)
    BY <1>a, <2>2 DEF Unlinked
  <2> QED
    BY <1>d, <2>2, <2>3, <2>4, <2>5, <2>6, <2>7 DEF OnePlace, Handed, InGot
<1>10. ASSUME NEW t \in Threads, Count(t) PROVE OwnMessages' /\ OnePlace'
  <2>1. UNCHANGED <<sendQ, sendArr, got, fresh, cur>>
    BY <1>10 DEF Count
  <2>2. OwnMessages'
    BY <1>10, <1>a, <1>b, <1>c, <2>1, ThreadsApart DEF Count, Goto, OwnMessages
  <2>3. \A x \in Msgs : Unlinked(x)' => Unlinked(x)
    BY <1>10, <1>a, <1>b, <2>1 DEF Count, Goto, Unlinked
  <2> QED
    BY <1>d, <2>1, <2>2, <2>3 DEF OnePlace, Handed, InGot
<1>11. ASSUME NEW t \in Threads, Scan(t) PROVE OwnMessages' /\ OnePlace'
  <2>1. UNCHANGED <<sendQ, sendArr, got, fresh, cur>>
    BY <1>11 DEF Scan
  <2>2. OwnMessages'
    BY <1>11, <1>a, <1>b, <1>c, <2>1, ThreadsApart DEF Scan, Goto, OwnMessages
  <2>3. \A x \in Msgs : Unlinked(x)' => Unlinked(x)
    BY <1>11, <1>a, <1>b, <2>1 DEF Scan, Goto, Unlinked
  <2> QED
    BY <1>d, <2>1, <2>2, <2>3 DEF OnePlace, Handed, InGot
<1>12. ASSUME NEW t \in Threads, Post(t) PROVE OwnMessages' /\ OnePlace'
  <2>1. UNCHANGED <<sendQ, sendArr, got, fresh, cur>>
    BY <1>12 DEF Post
  <2>2. OwnMessages'
    BY <1>12, <1>a, <1>b, <1>c, <2>1, ThreadsApart DEF Post, Goto, OwnMessages
  <2>3. \A x \in Msgs : Unlinked(x)' => Unlinked(x)
    BY <1>12, <1>a, <1>b, <2>1 DEF Post, Goto, Unlinked
  <2> QED
    BY <1>d, <2>1, <2>2, <2>3 DEF OnePlace, Handed, InGot
<1>13. ASSUME NEW t \in Threads, Flag(t) PROVE OwnMessages' /\ OnePlace'
  <2>1. UNCHANGED <<sendQ, sendArr, got, fresh, cur>>
    BY <1>13 DEF Flag
  <2>2. OwnMessages'
    BY <1>13, <1>a, <1>b, <1>c, <2>1, ThreadsApart DEF Flag, Goto, OwnMessages
  <2>3. \A x \in Msgs : Unlinked(x)' => Unlinked(x)
    BY <1>13, <1>a, <1>b, <2>1 DEF Flag, Goto, Unlinked
  <2> QED
    BY <1>d, <2>1, <2>2, <2>3 DEF OnePlace, Handed, InGot
<1>14. ASSUME NEW t \in Threads, Size(t) PROVE OwnMessages' /\ OnePlace'
  <2>1. UNCHANGED <<sendQ, sendArr, got, fresh, cur>>
    BY <1>14 DEF Size
  <2>2. OwnMessages'
    BY <1>14, <1>a, <1>b, <1>c, <2>1, ThreadsApart DEF Size, Goto, OwnMessages
  <2>3. \A x \in Msgs : Unlinked(x)' => Unlinked(x)
    BY <1>14, <1>a, <1>b, <2>1 DEF Size, Goto, Unlinked
  <2> QED
    BY <1>d, <2>1, <2>2, <2>3 DEF OnePlace, Handed, InGot
<1>15. ASSUME NEW t \in Threads, Unflag(t) PROVE OwnMessages' /\ OnePlace'
  <2>1. UNCHANGED <<sendQ, sendArr, got, fresh, cur>>
    BY <1>15 DEF Unflag
  <2>2. OwnMessages'
    BY <1>15, <1>a, <1>b, <1>c, <2>1, ThreadsApart DEF Unflag, Goto, OwnMessages
  <2>3. \A x \in Msgs : Unlinked(x)' => Unlinked(x)
    BY <1>15, <1>a, <1>b, <2>1 DEF Unflag, Goto, Unlinked
  <2> QED
    BY <1>d, <2>1, <2>2, <2>3 DEF OnePlace, Handed, InGot
<1>16. ASSUME NEW t \in Threads, Again(t) PROVE OwnMessages' /\ OnePlace'
  <2>1. UNCHANGED <<sendQ, sendArr, got, fresh, cur>>
    BY <1>16 DEF Again
  <2>2. OwnMessages'
    BY <1>16, <1>a, <1>b, <1>c, <2>1, ThreadsApart DEF Again, Goto, OwnMessages
  <2>3. \A x \in Msgs : Unlinked(x)' => Unlinked(x)
    BY <1>16, <1>a, <1>b, <2>1 DEF Again, Goto, Unlinked
  <2> QED
    BY <1>d, <2>1, <2>2, <2>3 DEF OnePlace, Handed, InGot
<1>17. ASSUME NEW t \in Threads, Take(t) PROVE OwnMessages' /\ OnePlace'
  <2>1. sendQ # <<>> /\ sendQ' = Tail(sendQ) /\ UNCHANGED <<sendArr, pc, cur, fresh>>
        /\ got' = [got EXCEPT ![t] = Append(got[t], Head(sendQ))]
    BY <1>17 DEF Take
  <2>2. OwnMessages'
    BY <1>c, <2>1 DEF OwnMessages
  <2>3. /\ Head(sendQ) \in Msgs /\ ToSet(sendQ) = ToSet(sendQ') \cup {Head(sendQ)}
        /\ Distinct(sendQ') /\ Head(sendQ) \notin ToSet(sendQ')
    BY <1>a, <1>d, <2>1, TailHolds
  <2>4. ToSet(got'[t]) = ToSet(got[t]) \cup {Head(sendQ)}
    BY <1>a, <2>1, <2>3, AppendHolds
  <2>5. \A x \in Msgs : InGot(x)' => InGot(x) \/ x = Head(sendQ)
    BY <1>a, <2>1, <2>4 DEF InGot
  <2>6. \A x \in Msgs : Handed(x)' => Handed(x)
    BY <2>1, <2>3, <2>5 DEF Handed
  <2>7. \A x \in Msgs : Unlinked(x)' => Unlinked(x)
    BY <2>1 DEF Unlinked
  <2>8. \A x \in ToSet(sendQ') : x \in Msgs
    BY <1>a, <2>1, <2>3, TailHolds, LenProperties DEF ToSet
  <2> QED
    BY <1>d, <2>1, <2>2, <2>3, <2>5, <2>6, <2>7, <2>8 DEF OnePlace
<1>18. ASSUME NEW t \in Threads, TakeEnd(t) PROVE OwnMessages' /\ OnePlace'
  <2>1. UNCHANGED <<sendQ, sendArr, got, fresh, cur>>
    BY <1>18 DEF TakeEnd
  <2>2. OwnMessages'
    BY <1>18, <1>a, <1>b, <1>c, <2>1, ThreadsApart DEF TakeEnd, Goto, OwnMessages
  <2>3. \A x \in Msgs : Unlinked(x)' => Unlinked(x)
    BY <1>18, <1>a, <1>b, <2>1 DEF TakeEnd, Goto, Unlinked
  <2> QED
    BY <1>d, <2>1, <2>2, <2>3 DEF OnePlace, Handed, InGot
<1>19. ASSUME NEW t \in Threads, WsaSend(t) PROVE OwnMessages' /\ OnePlace'
  <2>1. sendArr' = got[t] /\ got' = [got EXCEPT ![t] = <<>>] /\ UNCHANGED <<sendQ, cur, fresh>>
    BY <1>19 DEF WsaSend
  <2>2. pc[t] = "wsa" /\ (pc' = [pc EXCEPT ![t] = "dec"] \/ pc' = [pc EXCEPT ![t] = "dc"])
    BY <1>19 DEF WsaSend, Goto
  <2>3. OwnMessages'
    BY <1>a, <1>c, <2>1, <2>2 DEF OwnMessages
  <2>4. \A x : InGot(x)' => InGot(x)
    BY <1>a, <2>1, SmallHolds DEF InGot
  <2>5. \A x : x \in ToSet(sendArr') => InGot(x)
    BY <2>1 DEF InGot
  <2>6. \A x \in Msgs : Unlinked(x)' => Unlinked(x)
    BY <1>a, <2>1, <2>2 DEF Unlinked
  <2> QED
    BY <1>d, <2>1, <2>3, <2>4, <2>5, <2>6 DEF OnePlace, Handed
<1>20. ASSUME NEW t \in Threads, Disconnect(t) PROVE OwnMessages' /\ OnePlace'
  <2>1. UNCHANGED <<sendQ, sendArr, got, fresh, cur>>
    BY <1>20 DEF Disconnect
  <2>2. OwnMessages'
    BY <1>20, <1>a, <1>b, <1>c, <2>1, ThreadsApart DEF Disconnect, Goto, OwnMessages
  <2>3. \A x \in Msgs : Unlinked(x)' => Unlinked(x)
    BY <1>20, <1>a, <1>b, <2>1 DEF Disconnect, Goto, Unlinked
  <2> QED
    BY <1>d, <2>1, <2>2, <2>3 DEF OnePlace, Handed, InGot
<1>21. ASSUME NEW t \in Threads, Dec(t) PROVE OwnMessages' /\ OnePlace'
  <2>1. UNCHANGED <<sendQ, sendArr, got, fresh, cur>>
    BY <1>21 DEF Dec
  <2>2. OwnMessages'
    BY <1>21, <1>a, <1>b, <1>c, <2>1, ThreadsApart DEF Dec, Goto, OwnMessages
  <2>3. \A x \in Msgs : Unlinked(x)' => Unlinked(x)
    BY <1>21, <1>a, <1>b, <2>1 DEF Dec, Goto, Unlinked
  <2> QED
    BY <1>d, <2>1, <2>2, <2>3 DEF OnePlace, Handed, InGot
<1>22. ASSUME NEW t \in Threads, Release(t) PROVE OwnMessages' /\ OnePlace'
  <2>1. UNCHANGED <<sendQ, sendArr, got, fresh, cur>>
    BY <1>22 DEF Release
  <2>2. OwnMessages'
    BY <1>22, <1>a, <1>b, <1>c, <2>1, ThreadsApart DEF Release, Goto, OwnMessages, Roles
  <2>3. \A x \in Msgs : Unlinked(x)' => Unlinked(x)
    BY <1>22, <1>a, <1>b, <2>1 DEF Release, Goto, Unlinked
  <2> QED
    BY <1>d, <2>1, <2>2, <2>3 DEF OnePlace, Handed, InGot
<1>23. ASSUME NEW t \in Threads, DropOwn(t) PROVE OwnMessages' /\ OnePlace'
  <2>1. UNCHANGED <<sendQ, sendArr, got, fresh>> /\ cur' = [cur EXCEPT ![t] = NoMsg]
        /\ pc[t] = "drop" /\ pc' = [pc EXCEPT ![t] = "idle"]
    BY <1>23 DEF DropOwn, Goto
  <2>2. OwnMessages'
    BY <1>a, <1>c, <2>1, NoMsgApart DEF OwnMessages
  <2>3. \A x \in Msgs : Unlinked(x)' => Unlinked(x)
    BY <1>a, <2>1 DEF Unlinked
  <2> QED
    BY <1>d, <2>1, <2>2, <2>3 DEF OnePlace, Handed, InGot
<1>24. ASSUME NEW t \in Threads, FreeSent(t) PROVE OwnMessages' /\ OnePlace'
  <2>1. UNCHANGED <<sendQ, got, fresh, cur>> /\ sendArr' = <<>>
        /\ pc[t] = "free" /\ pc' = [pc EXCEPT ![t] = "clear"]
    BY <1>24 DEF FreeSent, Goto
  <2>2. OwnMessages'
    BY <1>a, <1>c, <2>1 DEF OwnMessages
  <2>3. \A x \in Msgs : Unlinked(x)' => Unlinked(x)
    BY <1>a, <2>1 DEF Unlinked
  <2> QED
    BY <1>d, <2>1, <2>2, <2>3, SmallHolds DEF OnePlace, Handed, InGot
<1>25. ASSUME NEW t \in Threads, ClearFlag(t) PROVE OwnMessages' /\ OnePlace'
  <2>1. UNCHANGED <<sendQ, sendArr, got, fresh, cur>>
    BY <1>25 DEF ClearFlag
  <2>2. OwnMessages'
    BY <1>25, <1>a, <1>b, <1>c, <2>1, ThreadsApart DEF ClearFlag, Goto, OwnMessages
  <2>3. \A x \in Msgs : Unlinked(x)' => Unlinked(x)
    BY <1>25, <1>a, <1>b, <2>1 DEF ClearFlag, Goto, Unlinked
  <2> QED
    BY <1>d, <2>1, <2>2, <2>3 DEF OnePlace, Handed, InGot
<1>26. ASSUME NEW t \in Threads, FreeArray(t) PROVE OwnMessages' /\ OnePlace'
  <2>1. UNCHANGED <<sendQ, sendArr, got, fresh, cur>>
    BY <1>26 DEF FreeArray
  <2>2. OwnMessages'
    BY <1>26, <1>a, <1>b, <1>c, <2>1, ThreadsApart DEF FreeArray, Goto, OwnMessages
  <2>3. \A x \in Msgs : Unlinked(x)' => Unlinked(x)
    BY <1>26, <1>a, <1>b, <2>1 DEF FreeArray, Goto, Unlinked
  <2> QED
    BY <1>d, <2>1, <2>2, <2>3 DEF OnePlace, Handed, InGot
<1>27. ASSUME NEW t \in Threads, Drain(t) PROVE OwnMessages' /\ OnePlace'
  <2>1. sendQ # <<>> /\ sendQ' = Tail(sendQ) /\ UNCHANGED <<sendArr, pc, cur, fresh, got>>
    BY <1>27 DEF Drain
  <2>2. OwnMessages'
    BY <1>c, <2>1 DEF OwnMessages
  <2>3. ToSet(sendQ) = ToSet(sendQ') \cup {Head(sendQ)} /\ Distinct(sendQ')
    BY <1>a, <1>d, <2>1, TailHolds
  <2>4. \A x \in Msgs : Unlinked(x)' => Unlinked(x)
    BY <2>1 DEF Unlinked
  <2> QED
    BY <1>d, <2>1, <2>2, <2>3, <2>4 DEF OnePlace, Handed, InGot
<1>28. ASSUME NEW t \in Threads, Leave(t) PROVE OwnMessages' /\ OnePlace'
  <2>1. UNCHANGED <<sendQ, sendArr, got, fresh, cur>>
    BY <1>28 DEF Leave
  <2>2. OwnMessages'
    BY <1>28, <1>a, <1>b, <1>c, <2>1, ThreadsApart DEF Leave, Goto, OwnMessages, Roles
  <2>3. \A x \in Msgs : Unlinked(x)' => Unlinked(x)
    BY <1>28, <1>a, <1>b, <2>1 DEF Leave, Goto, Unlinked
  <2> QED
    BY <1>d, <2>1, <2>2, <2>3 DEF OnePlace, Handed, InGot
<1>u. CASE UNCHANGED vars
  <2>1. UNCHANGED <<pc, sendQ, sendArr, got, fresh, cur>>
    BY <1>u DEF vars
  <2> QED
    BY <1>c, <1>d, <2>1 DEF OwnMessages, OnePlace, Handed, InGot, Unlinked
<1> QED
  BY <1>1, <1>2, <1>3, <1>4, <1>5, <1>6, <1>7, <1>8, <1>9, <1>10, <1>11, <1>12, <1>13, <1>14,
     <1>15, <1>16, <1>17, <1>18, <1>19, <1>20, <1>21, <1>22, <1>23, <1>24, <1>25, <1>26, <1>27,
     <1>28, <1>u DEF Next, Step

-----------------------------------------------------------------------------
(* The counts of the messages *)

\* Whoever uses m_SendArray for a send does so before ReleaseProc begins.
LEMMA SendingOpen ==
  ASSUME IInv, NEW t \in Threads, pc[t] \in {"wsa", "free"}
  PROVE  relFlag = 0 /\ ~closed /\ \A u \in Threads : pc[u] # "drain"
<1> USE DEF IInv
<1>1. relFlag = 0
  BY DEF TypeOK, Released, HoldingPCs
<1> QED
  BY <1>1 DEF Released, ClosingPCs

\* Only the thread that fills m_SendArray has taken messages.
LEMMA OneGot ==
  ASSUME IInv, NEW t \in Threads, pc[t] \in FillingPCs
  PROVE  \A u \in Threads : u # t => got[u] = <<>>
BY DEF IInv, ArrayOwned, FlagOwned, OwningPCs, FillingPCs

\* Every reference to a message is taken and given back with the place that keeps it.
LEMMA HeldStep ==
  ASSUME IInv, [Next]_vars
  PROVE  MessagesHeld' /\ msgRef' \in [Msgs -> Nat]
<1> USE DEF IInv
<1>a. /\ pc \in [Threads -> PCs] /\ got \in [Threads -> Seq(Msgs)] /\ sendArr \in Seq(Msgs)
      /\ sendQ \in Seq(Msgs) /\ fresh \subseteq Msgs /\ msgRef \in [Msgs -> Nat]
      /\ cur \in [Threads -> Msgs \cup {NoMsg}] /\ closed \in BOOLEAN
  BY DEF TypeOK
<1>b. /\ Sweeper \in Threads /\ Senders \subseteq Threads /\ Closers \subseteq Threads
      /\ Workers \subseteq Threads
  BY DEF Threads
<1>c. /\ \A t \in Threads : cur[t] # NoMsg <=> t \in Senders /\ pc[t] # "idle"
      /\ \A t, u \in Threads : cur[t] = cur[u] /\ cur[t] # NoMsg => t = u
      /\ \A t \in Threads : cur[t] \notin fresh
  BY DEF OwnMessages
<1>d. /\ Distinct(sendQ)
      /\ \A m \in ToSet(sendQ) : m \notin ToSet(sendArr) /\ ~InGot(m)
      /\ \A m \in Msgs : Unlinked(m) => ~Handed(m)
  BY DEF OnePlace
<1>e. \A m \in Msgs : msgRef[m] = RefsOf(m)
  BY DEF MessagesHeld
<1>f. \A m : IsCur(m) <=> \E t \in Threads : cur[t] = m
  BY DEF IsCur
<1>f2. \A m : IsCur(m)' <=> \E t \in Threads : cur'[t] = m
  BY DEF IsCur
<1> DEFINE G == msgRef' \in [Msgs -> Int] /\ \A m \in Msgs : msgRef'[m] = RefsOf(m)'
<1>g. SUFFICES G
  <2>1. \A m \in Msgs : RefsOf(m)' \in Nat
    BY DEF RefsOf
  <2> QED
    BY <2>1 DEF MessagesHeld
<1>h. \A m \in Msgs : msgRef[m] \in Int
  BY <1>a
<1> USE DEF session, queue, io, history, rest
<1>1. ASSUME NEW s \in Senders, CallSend(s) PROVE G
  <2>1. PICK m \in fresh : /\ fresh' = fresh \ {m} /\ cur' = [cur EXCEPT ![s] = m]
                            /\ msgRef' = [msgRef EXCEPT ![m] = 1]
    BY <1>1 DEF CallSend
  <2>2. UNCHANGED <<sendQ, sendArr, got, closed>> /\ pc' = [pc EXCEPT ![s] = "check"] /\ pc[s] = "idle"
    BY <1>1 DEF CallSend, Goto
  <2>3. cur[s] = NoMsg
    BY <1>b, <1>c, <2>2
  <2>4. \A x \in Msgs : IsCur(x)' <=> IsCur(x) \/ x = m
    BY <1>a, <1>b, <1>f, <1>f2, <2>1, <2>3, NoMsgApart
  <2>5. m \in Msgs /\ ~Handed(m)
    BY <1>a, <1>d DEF Unlinked
  <2>6. InArray' = InArray
    BY <1>a, <1>b, <2>2 DEF InArray
  <2>7. m \notin ToSet(sendQ) /\ m \notin InArray /\ ~InGot(m)
    BY <2>5 DEF Handed, InArray
  <2>8. \A x : InGot(x)' = InGot(x)
    BY <2>2 DEF InGot
  <2>9. ASSUME NEW x \in Msgs PROVE msgRef'[x] = RefsOf(x)'
    <3>1. CASE x = m
      BY <1>a, <2>1, <2>2, <2>4, <2>6, <2>7, <2>8, <3>1 DEF RefsOf
    <3>2. CASE x # m
      BY <1>a, <1>e, <2>1, <2>2, <2>4, <2>6, <2>8, <3>2 DEF RefsOf
    <3> QED
      BY <3>1, <3>2
  <2> QED
    BY <1>a, <2>1, <2>9
<1>2. ASSUME NEW c \in Closers, CallDisconnect(c) PROVE G
  <2>1. UNCHANGED <<sendQ, sendArr, got, cur, closed, msgRef>>
    BY <1>2 DEF CallDisconnect
  <2>2. \A u \in Threads : pc'[u] = "drain" <=> pc[u] = "drain"
    BY <1>2, <1>a, <1>b DEF CallDisconnect, Goto
  <2>3. InArray' = InArray
    BY <1>b, <2>1, <2>2 DEF InArray
  <2>4. \A x : InGot(x)' = InGot(x) /\ IsCur(x)' = IsCur(x)
    BY <2>1 DEF InGot, IsCur
  <2> QED
    BY <1>a, <1>e, <2>1, <2>3, <2>4 DEF RefsOf
<1>3. ASSUME Sweep PROVE G
  <2>1. UNCHANGED <<sendQ, sendArr, got, cur, closed, msgRef>>
    BY <1>3 DEF Sweep
  <2>2. \A u \in Threads : pc'[u] = "drain" <=> pc[u] = "drain"
    BY <1>3, <1>a, <1>b DEF Sweep, Goto
  <2>3. InArray' = InArray
    BY <1>b, <2>1, <2>2 DEF InArray
  <2>4. \A x : InGot(x)' = InGot(x) /\ IsCur(x)' = IsCur(x)
    BY <2>1 DEF InGot, IsCur
  <2> QED
    BY <1>a, <1>e, <2>1, <2>3, <2>4 DEF RefsOf
<1>4. ASSUME NEW w \in Workers, TakeSend(w) PROVE G
  <2>1. UNCHANGED <<sendQ, sendArr, got, cur, closed, msgRef>>
    BY <1>4 DEF TakeSend
  <2>2. \A u \in Threads : pc'[u] = "drain" <=> pc[u] = "drain"
    BY <1>4, <1>a, <1>b DEF TakeSend, Goto
  <2>3. InArray' = InArray
    BY <1>b, <2>1, <2>2 DEF InArray
  <2>4. \A x : InGot(x)' = InGot(x) /\ IsCur(x)' = IsCur(x)
    BY <2>1 DEF InGot, IsCur
  <2> QED
    BY <1>a, <1>e, <2>1, <2>3, <2>4 DEF RefsOf
<1>5. ASSUME NEW w \in Workers, RecvEnd(w) PROVE G
  <2>1. UNCHANGED <<sendQ, sendArr, got, cur, closed, msgRef>>
    BY <1>5 DEF RecvEnd
  <2>2. \A u \in Threads : pc'[u] = "drain" <=> pc[u] = "drain"
    BY <1>5, <1>a, <1>b DEF RecvEnd, Goto
  <2>3. InArray' = InArray
    BY <1>b, <2>1, <2>2 DEF InArray
  <2>4. \A x : InGot(x)' = InGot(x) /\ IsCur(x)' = IsCur(x)
    BY <2>1 DEF InGot, IsCur
  <2> QED
    BY <1>a, <1>e, <2>1, <2>3, <2>4 DEF RefsOf
<1>6. ASSUME NEW w \in Workers, TakeRelease(w) PROVE G
  <2>1. UNCHANGED <<sendQ, sendArr, got, cur, closed, msgRef>>
    BY <1>6 DEF TakeRelease
  <2>2. \A u \in Threads : pc'[u] = "drain" <=> pc[u] = "drain"
    BY <1>6, <1>a, <1>b DEF TakeRelease, Goto
  <2>3. InArray' = InArray
    BY <1>b, <2>1, <2>2 DEF InArray
  <2>4. \A x : InGot(x)' = InGot(x) /\ IsCur(x)' = IsCur(x)
    BY <2>1 DEF InGot, IsCur
  <2> QED
    BY <1>a, <1>e, <2>1, <2>3, <2>4 DEF RefsOf
<1>7. ASSUME NEW t \in Threads, Check(t) PROVE G
  <2>1. UNCHANGED <<sendQ, sendArr, got, cur, closed, msgRef>>
    BY <1>7 DEF Check
  <2>2. \A u \in Threads : pc'[u] = "drain" <=> pc[u] = "drain"
    BY <1>7, <1>a, <1>b DEF Check, Goto
  <2>3. InArray' = InArray
    BY <1>b, <2>1, <2>2 DEF InArray
  <2>4. \A x : InGot(x)' = InGot(x) /\ IsCur(x)' = IsCur(x)
    BY <2>1 DEF InGot, IsCur
  <2> QED
    BY <1>a, <1>e, <2>1, <2>3, <2>4 DEF RefsOf
<1>8. ASSUME NEW t \in Threads, Room(t) PROVE G
  <2>1. UNCHANGED <<sendQ, sendArr, got, cur, closed, msgRef>>
    BY <1>8 DEF Room
  <2>2. \A u \in Threads : pc'[u] = "drain" <=> pc[u] = "drain"
    BY <1>8, <1>a, <1>b DEF Room, Goto
  <2>3. InArray' = InArray
    BY <1>b, <2>1, <2>2 DEF InArray
  <2>4. \A x : InGot(x)' = InGot(x) /\ IsCur(x)' = IsCur(x)
    BY <2>1 DEF InGot, IsCur
  <2> QED
    BY <1>a, <1>e, <2>1, <2>3, <2>4 DEF RefsOf
<1>9. ASSUME NEW t \in Threads, Link(t) PROVE G
  <2>1. cur[t] \in Msgs
    BY <1>9, <1>a, <1>c DEF Link, Roles
  <2>2. sendQ' = Append(sendQ, cur[t]) /\ UNCHANGED <<sendArr, got, cur, closed>>
        /\ pc[t] = "link" /\ pc' = [pc EXCEPT ![t] = "count"]
        /\ msgRef' = [msgRef EXCEPT ![cur[t]] = msgRef[cur[t]] + 1]
    BY <1>9 DEF Link, Goto, AddRef
  <2>3. cur[t] \notin ToSet(sendQ)
    BY <1>d, <2>1, <2>2 DEF Unlinked, Handed
  <2>4. ToSet(sendQ') = ToSet(sendQ) \cup {cur[t]}
    BY <1>a, <2>1, <2>2, AppendHolds
  <2>5. InArray' = InArray
    BY <1>a, <1>b, <2>2 DEF InArray
  <2>6. \A x : InGot(x)' = InGot(x) /\ IsCur(x)' = IsCur(x)
    BY <2>2 DEF InGot, IsCur
  <2>7. ASSUME NEW x \in Msgs PROVE msgRef'[x] = RefsOf(x)'
    <3>1. CASE x = cur[t]
      BY <1>a, <1>e, <2>1, <2>2, <2>3, <2>4, <2>5, <2>6, <3>1 DEF RefsOf
    <3>2. CASE x # cur[t]
      BY <1>a, <1>e, <2>1, <2>2, <2>4, <2>5, <2>6, <3>2 DEF RefsOf
    <3> QED
      BY <3>1, <3>2
  <2> QED
    BY <1>a, <2>1, <2>2, <2>7
<1>10. ASSUME NEW t \in Threads, Count(t) PROVE G
  <2>1. UNCHANGED <<sendQ, sendArr, got, cur, closed, msgRef>>
    BY <1>10 DEF Count
  <2>2. \A u \in Threads : pc'[u] = "drain" <=> pc[u] = "drain"
    BY <1>10, <1>a, <1>b DEF Count, Goto
  <2>3. InArray' = InArray
    BY <1>b, <2>1, <2>2 DEF InArray
  <2>4. \A x : InGot(x)' = InGot(x) /\ IsCur(x)' = IsCur(x)
    BY <2>1 DEF InGot, IsCur
  <2> QED
    BY <1>a, <1>e, <2>1, <2>3, <2>4 DEF RefsOf
<1>11. ASSUME NEW t \in Threads, Scan(t) PROVE G
  <2>1. UNCHANGED <<sendQ, sendArr, got, cur, closed, msgRef>>
    BY <1>11 DEF Scan
  <2>2. \A u \in Threads : pc'[u] = "drain" <=> pc[u] = "drain"
    BY <1>11, <1>a, <1>b DEF Scan, Goto
  <2>3. InArray' = InArray
    BY <1>b, <2>1, <2>2 DEF InArray
  <2>4. \A x : InGot(x)' = InGot(x) /\ IsCur(x)' = IsCur(x)
    BY <2>1 DEF InGot, IsCur
  <2> QED
    BY <1>a, <1>e, <2>1, <2>3, <2>4 DEF RefsOf
<1>12. ASSUME NEW t \in Threads, Post(t) PROVE G
  <2>1. UNCHANGED <<sendQ, sendArr, got, cur, closed, msgRef>>
    BY <1>12 DEF Post
  <2>2. \A u \in Threads : pc'[u] = "drain" <=> pc[u] = "drain"
    BY <1>12, <1>a, <1>b DEF Post, Goto
  <2>3. InArray' = InArray
    BY <1>b, <2>1, <2>2 DEF InArray
  <2>4. \A x : InGot(x)' = InGot(x) /\ IsCur(x)' = IsCur(x)
    BY <2>1 DEF InGot, IsCur
  <2> QED
    BY <1>a, <1>e, <2>1, <2>3, <2>4 DEF RefsOf
<1>13. ASSUME NEW t \in Threads, Flag(t) PROVE G
  <2>1. UNCHANGED <<sendQ, sendArr, got, cur, closed, msgRef>>
    BY <1>13 DEF Flag
  <2>2. \A u \in Threads : pc'[u] = "drain" <=> pc[u] = "drain"
    BY <1>13, <1>a, <1>b DEF Flag, Goto
  <2>3. InArray' = InArray
    BY <1>b, <2>1, <2>2 DEF InArray
  <2>4. \A x : InGot(x)' = InGot(x) /\ IsCur(x)' = IsCur(x)
    BY <2>1 DEF InGot, IsCur
  <2> QED
    BY <1>a, <1>e, <2>1, <2>3, <2>4 DEF RefsOf
<1>14. ASSUME NEW t \in Threads, Size(t) PROVE G
  <2>1. UNCHANGED <<sendQ, sendArr, got, cur, closed, msgRef>>
    BY <1>14 DEF Size
  <2>2. \A u \in Threads : pc'[u] = "drain" <=> pc[u] = "drain"
    BY <1>14, <1>a, <1>b DEF Size, Goto
  <2>3. InArray' = InArray
    BY <1>b, <2>1, <2>2 DEF InArray
  <2>4. \A x : InGot(x)' = InGot(x) /\ IsCur(x)' = IsCur(x)
    BY <2>1 DEF InGot, IsCur
  <2> QED
    BY <1>a, <1>e, <2>1, <2>3, <2>4 DEF RefsOf
<1>15. ASSUME NEW t \in Threads, Unflag(t) PROVE G
  <2>1. UNCHANGED <<sendQ, sendArr, got, cur, closed, msgRef>>
    BY <1>15 DEF Unflag
  <2>2. \A u \in Threads : pc'[u] = "drain" <=> pc[u] = "drain"
    BY <1>15, <1>a, <1>b DEF Unflag, Goto
  <2>3. InArray' = InArray
    BY <1>b, <2>1, <2>2 DEF InArray
  <2>4. \A x : InGot(x)' = InGot(x) /\ IsCur(x)' = IsCur(x)
    BY <2>1 DEF InGot, IsCur
  <2> QED
    BY <1>a, <1>e, <2>1, <2>3, <2>4 DEF RefsOf
<1>16. ASSUME NEW t \in Threads, Again(t) PROVE G
  <2>1. UNCHANGED <<sendQ, sendArr, got, cur, closed, msgRef>>
    BY <1>16 DEF Again
  <2>2. \A u \in Threads : pc'[u] = "drain" <=> pc[u] = "drain"
    BY <1>16, <1>a, <1>b DEF Again, Goto
  <2>3. InArray' = InArray
    BY <1>b, <2>1, <2>2 DEF InArray
  <2>4. \A x : InGot(x)' = InGot(x) /\ IsCur(x)' = IsCur(x)
    BY <2>1 DEF InGot, IsCur
  <2> QED
    BY <1>a, <1>e, <2>1, <2>3, <2>4 DEF RefsOf
<1>17. ASSUME NEW t \in Threads, Take(t) PROVE G
  <2>1. sendQ # <<>> /\ sendQ' = Tail(sendQ) /\ UNCHANGED <<sendArr, pc, cur, closed, msgRef>>
        /\ got' = [got EXCEPT ![t] = Append(got[t], Head(sendQ))]
    BY <1>17 DEF Take
  <2>2. /\ Head(sendQ) \in Msgs /\ ToSet(sendQ) = ToSet(sendQ') \cup {Head(sendQ)}
        /\ Head(sendQ) \notin ToSet(sendQ')
    BY <1>a, <1>d, <2>1, TailHolds
  <2>3. ToSet(got'[t]) = ToSet(got[t]) \cup {Head(sendQ)}
    BY <1>a, <2>1, <2>2, AppendHolds
  <2>4. \A x \in Msgs : InGot(x)' <=> InGot(x) \/ x = Head(sendQ)
    BY <1>a, <2>1, <2>3 DEF InGot
  <2>5. ~InGot(Head(sendQ))
    BY <1>d, <2>2
  <2>6. InArray' = InArray /\ \A x : IsCur(x)' = IsCur(x)
    BY <2>1 DEF InArray, IsCur
  <2>7. ASSUME NEW x \in Msgs PROVE msgRef'[x] = RefsOf(x)'
    <3>1. CASE x = Head(sendQ)
      <4>1. x \in ToSet(sendQ) /\ x \notin ToSet(sendQ') /\ ~InGot(x) /\ InGot(x)'
        BY <2>2, <2>4, <2>5, <3>1
      <4> QED
        BY <1>e, <2>1, <2>6, <4>1 DEF RefsOf
    <3>2. CASE x # Head(sendQ)
      <4>1. (x \in ToSet(sendQ') <=> x \in ToSet(sendQ)) /\ (InGot(x)' <=> InGot(x))
        BY <2>2, <2>4, <3>2
      <4> QED
        BY <1>e, <2>1, <2>6, <4>1 DEF RefsOf
    <3> QED
      BY <3>1, <3>2
  <2> QED
    BY <1>a, <2>1, <2>7
<1>18. ASSUME NEW t \in Threads, TakeEnd(t) PROVE G
  <2>1. UNCHANGED <<sendQ, sendArr, got, cur, closed, msgRef>>
    BY <1>18 DEF TakeEnd
  <2>2. \A u \in Threads : pc'[u] = "drain" <=> pc[u] = "drain"
    BY <1>18, <1>a, <1>b DEF TakeEnd, Goto
  <2>3. InArray' = InArray
    BY <1>b, <2>1, <2>2 DEF InArray
  <2>4. \A x : InGot(x)' = InGot(x) /\ IsCur(x)' = IsCur(x)
    BY <2>1 DEF InGot, IsCur
  <2> QED
    BY <1>a, <1>e, <2>1, <2>3, <2>4 DEF RefsOf
<1>19. ASSUME NEW t \in Threads, WsaSend(t) PROVE G
  <2>1. sendArr' = got[t] /\ got' = [got EXCEPT ![t] = <<>>]
        /\ UNCHANGED <<sendQ, cur, closed, msgRef>>
    BY <1>19 DEF WsaSend
  <2>2. pc[t] = "wsa" /\ (pc' = [pc EXCEPT ![t] = "dec"] \/ pc' = [pc EXCEPT ![t] = "dc"])
    BY <1>19 DEF WsaSend, Goto
  <2>3. ~closed /\ \A u \in Threads : pc[u] # "drain" /\ pc'[u] # "drain"
    BY <1>a, <2>2, SendingOpen
  <2>4. \A u \in Threads : u # t => got[u] = <<>>
    BY <2>2, OneGot DEF FillingPCs
  <2>5. sendArr = <<>>
    BY <2>2 DEF ArrayOwned, OwningPCs
  <2>6. InArray = {} /\ InArray' = ToSet(got[t])
    BY <1>b, <2>1, <2>3, <2>5, SmallHolds DEF InArray
  <2>7. \A x : ~InGot(x)' /\ (InGot(x) <=> x \in ToSet(got[t]))
    BY <1>a, <2>1, <2>4, SmallHolds DEF InGot
  <2>8. \A x : IsCur(x)' = IsCur(x)
    BY <2>1 DEF IsCur
  <2>9. ASSUME NEW x \in Msgs PROVE msgRef'[x] = RefsOf(x)'
    BY <1>e, <2>1, <2>6, <2>7, <2>8 DEF RefsOf
  <2> QED
    BY <1>a, <2>1, <2>9
<1>20. ASSUME NEW t \in Threads, Disconnect(t) PROVE G
  <2>1. UNCHANGED <<sendQ, sendArr, got, cur, closed, msgRef>>
    BY <1>20 DEF Disconnect
  <2>2. \A u \in Threads : pc'[u] = "drain" <=> pc[u] = "drain"
    BY <1>20, <1>a, <1>b DEF Disconnect, Goto
  <2>3. InArray' = InArray
    BY <1>b, <2>1, <2>2 DEF InArray
  <2>4. \A x : InGot(x)' = InGot(x) /\ IsCur(x)' = IsCur(x)
    BY <2>1 DEF InGot, IsCur
  <2> QED
    BY <1>a, <1>e, <2>1, <2>3, <2>4 DEF RefsOf
<1>21. ASSUME NEW t \in Threads, Dec(t) PROVE G
  <2>1. UNCHANGED <<sendQ, sendArr, got, cur, closed, msgRef>>
    BY <1>21 DEF Dec
  <2>2. \A u \in Threads : pc'[u] = "drain" <=> pc[u] = "drain"
    BY <1>21, <1>a, <1>b DEF Dec, Goto
  <2>3. InArray' = InArray
    BY <1>b, <2>1, <2>2 DEF InArray
  <2>4. \A x : InGot(x)' = InGot(x) /\ IsCur(x)' = IsCur(x)
    BY <2>1 DEF InGot, IsCur
  <2> QED
    BY <1>a, <1>e, <2>1, <2>3, <2>4 DEF RefsOf
<1>22. ASSUME NEW t \in Threads, Release(t) PROVE G
  <2>1. UNCHANGED <<sendQ, sendArr, got, cur, closed, msgRef>>
    BY <1>22 DEF Release
  <2>2. \A u \in Threads : pc'[u] = "drain" <=> pc[u] = "drain"
    BY <1>22, <1>a, <1>b DEF Release, Goto
  <2>3. InArray' = InArray
    BY <1>b, <2>1, <2>2 DEF InArray
  <2>4. \A x : InGot(x)' = InGot(x) /\ IsCur(x)' = IsCur(x)
    BY <2>1 DEF InGot, IsCur
  <2> QED
    BY <1>a, <1>e, <2>1, <2>3, <2>4 DEF RefsOf
<1>23. ASSUME NEW t \in Threads, DropOwn(t) PROVE G
  <2>1. UNCHANGED <<sendQ, sendArr, got, closed>> /\ cur' = [cur EXCEPT ![t] = NoMsg]
        /\ pc[t] = "drop" /\ pc' = [pc EXCEPT ![t] = "idle"]
    BY <1>23 DEF DropOwn, Goto
  <2>2. msgRef' = [m \in Msgs |-> IF m = cur[t] THEN msgRef[m] - 1 ELSE msgRef[m]]
    BY <1>23, SmallHolds DEF DropOwn, FreeAll
  <2>3. cur[t] # NoMsg
    BY <1>c, <2>1 DEF Roles
  <2>4. \A x \in Msgs : IsCur(x)' <=> IsCur(x) /\ x # cur[t]
    BY <1>a, <1>c, <1>f, <1>f2, <2>1, <2>3, NoMsgApart
  <2>5. IsCur(cur[t])
    BY <1>f
  <2>6. InArray' = InArray /\ \A x : InGot(x)' = InGot(x)
    BY <1>a, <1>b, <2>1 DEF InArray, InGot
  <2>7. ASSUME NEW x \in Msgs PROVE msgRef'[x] = RefsOf(x)'
    <3>1. CASE x = cur[t]
      <4>1. IsCur(x) /\ ~IsCur(x)' /\ msgRef'[x] = msgRef[x] - 1
        BY <2>2, <2>4, <2>5, <3>1
      <4> QED
        BY <1>e, <2>1, <2>6, <4>1 DEF RefsOf
    <3>2. CASE x # cur[t]
      <4>1. (IsCur(x)' <=> IsCur(x)) /\ msgRef'[x] = msgRef[x]
        BY <2>2, <2>4, <3>2
      <4> QED
        BY <1>e, <2>1, <2>6, <4>1 DEF RefsOf
    <3> QED
      BY <3>1, <3>2
  <2> QED
    BY <1>h, <2>2, <2>7
<1>24. ASSUME NEW t \in Threads, FreeSent(t) PROVE G
  <2>1. UNCHANGED <<sendQ, got, cur, closed>> /\ sendArr' = <<>>
        /\ pc[t] = "free" /\ pc' = [pc EXCEPT ![t] = "clear"]
    BY <1>24 DEF FreeSent, Goto
  <2>2. msgRef' = [m \in Msgs |-> IF m \in ToSet(sendArr) THEN msgRef[m] - 1 ELSE msgRef[m]]
    BY <1>24 DEF FreeSent, FreeAll
  <2>3. ~closed /\ \A u \in Threads : pc[u] # "drain"
    BY <2>1, SendingOpen
  <2>4. InArray = ToSet(sendArr) /\ InArray' = {}
    BY <1>b, <2>1, <2>3, SmallHolds DEF InArray
  <2>5. \A x : InGot(x)' = InGot(x) /\ IsCur(x)' = IsCur(x)
    BY <2>1 DEF InGot, IsCur
  <2>6. ASSUME NEW x \in Msgs PROVE msgRef'[x] = RefsOf(x)'
    BY <1>e, <2>1, <2>2, <2>4, <2>5 DEF RefsOf
  <2> QED
    BY <1>h, <2>2, <2>6
<1>25. ASSUME NEW t \in Threads, ClearFlag(t) PROVE G
  <2>1. UNCHANGED <<sendQ, sendArr, got, cur, closed, msgRef>>
    BY <1>25 DEF ClearFlag
  <2>2. \A u \in Threads : pc'[u] = "drain" <=> pc[u] = "drain"
    BY <1>25, <1>a, <1>b DEF ClearFlag, Goto
  <2>3. InArray' = InArray
    BY <1>b, <2>1, <2>2 DEF InArray
  <2>4. \A x : InGot(x)' = InGot(x) /\ IsCur(x)' = IsCur(x)
    BY <2>1 DEF InGot, IsCur
  <2> QED
    BY <1>a, <1>e, <2>1, <2>3, <2>4 DEF RefsOf
<1>26. ASSUME NEW t \in Threads, FreeArray(t) PROVE G
  <2>1. UNCHANGED <<sendQ, sendArr, got, cur, closed>>
        /\ pc[t] = "array" /\ pc' = [pc EXCEPT ![t] = "drain"]
    BY <1>26 DEF FreeArray, Goto
  <2>2. msgRef' = [m \in Msgs |-> IF m \in ToSet(sendArr) THEN msgRef[m] - 1 ELSE msgRef[m]]
    BY <1>26 DEF FreeArray, FreeAll
  <2>3. ~closed /\ \A u \in Threads : pc[u] # "drain"
    BY <2>1 DEF Released, ClosingPCs
  <2>4. t \in Workers /\ pc'[t] = "drain"
    BY <1>a, <2>1 DEF Roles
  <2>5. InArray = ToSet(sendArr) /\ InArray' = {}
    BY <1>b, <2>3, <2>4 DEF InArray
  <2>6. \A x : InGot(x)' = InGot(x) /\ IsCur(x)' = IsCur(x)
    BY <2>1 DEF InGot, IsCur
  <2>7. ASSUME NEW x \in Msgs PROVE msgRef'[x] = RefsOf(x)'
    BY <1>e, <2>1, <2>2, <2>5, <2>6 DEF RefsOf
  <2> QED
    BY <1>h, <2>2, <2>7
<1>27. ASSUME NEW t \in Threads, Drain(t) PROVE G
  <2>1. sendQ # <<>> /\ sendQ' = Tail(sendQ) /\ UNCHANGED <<sendArr, pc, cur, closed, got>>
    BY <1>27 DEF Drain
  <2>2. msgRef' = [m \in Msgs |-> IF m = Head(sendQ) THEN msgRef[m] - 1 ELSE msgRef[m]]
    BY <1>27, SmallHolds DEF Drain, FreeAll
  <2>3. /\ Head(sendQ) \in Msgs /\ ToSet(sendQ) = ToSet(sendQ') \cup {Head(sendQ)}
        /\ Head(sendQ) \notin ToSet(sendQ')
    BY <1>a, <1>d, <2>1, TailHolds
  <2>4. InArray' = InArray /\ \A x : InGot(x)' = InGot(x) /\ IsCur(x)' = IsCur(x)
    BY <2>1 DEF InArray, InGot, IsCur
  <2>5. ASSUME NEW x \in Msgs PROVE msgRef'[x] = RefsOf(x)'
    <3>1. CASE x = Head(sendQ)
      <4>1. x \in ToSet(sendQ) /\ x \notin ToSet(sendQ') /\ msgRef'[x] = msgRef[x] - 1
        BY <2>2, <2>3, <3>1
      <4> QED
        BY <1>e, <2>4, <4>1 DEF RefsOf
    <3>2. CASE x # Head(sendQ)
      <4>1. (x \in ToSet(sendQ') <=> x \in ToSet(sendQ)) /\ msgRef'[x] = msgRef[x]
        BY <2>2, <2>3, <3>2
      <4> QED
        BY <1>e, <2>4, <4>1 DEF RefsOf
    <3> QED
      BY <3>1, <3>2
  <2> QED
    BY <1>h, <2>2, <2>5
<1>28. ASSUME NEW t \in Threads, Leave(t) PROVE G
  <2>1. UNCHANGED <<sendQ, got, cur, msgRef>> /\ closed' = TRUE /\ pc[t] = "drain"
    BY <1>28 DEF Leave
  <2>2. InArray = {} /\ InArray' = {}
    BY <2>1 DEF InArray, Roles
  <2>3. \A x : InGot(x)' = InGot(x) /\ IsCur(x)' = IsCur(x)
    BY <2>1 DEF InGot, IsCur
  <2> QED
    BY <1>a, <1>e, <2>1, <2>2, <2>3 DEF RefsOf
<1>u. CASE UNCHANGED vars
  <2>1. UNCHANGED <<pc, sendQ, sendArr, got, cur, closed, msgRef>>
    BY <1>u DEF vars
  <2> QED
    BY <1>a, <1>e, <2>1 DEF RefsOf, InGot, IsCur, InArray
<1> QED
  BY <1>1, <1>2, <1>3, <1>4, <1>5, <1>6, <1>7, <1>8, <1>9, <1>10, <1>11, <1>12, <1>13, <1>14,
     <1>15, <1>16, <1>17, <1>18, <1>19, <1>20, <1>21, <1>22, <1>23, <1>24, <1>25, <1>26, <1>27,
     <1>28, <1>u DEF Next, Step

-----------------------------------------------------------------------------
(* The types *)

\* Every count stays a number and every sequence a sequence of messages.
LEMMA TypeStep ==
  ASSUME IInv, [Next]_vars
  PROVE  TypeOK'
<1> USE DEF IInv
<1>a. /\ sendThFL \in {0, 1} /\ refCnt \in Nat /\ relFlag \in {0, 1} /\ dcFlag \in {0, 1}
      /\ sendFlag \in {0, 1} /\ sendQ \in Seq(Msgs) /\ qSize \in Int /\ sendArr \in Seq(Msgs)
      /\ sendPend \in Nat /\ recv \in BOOLEAN /\ relMsgs \in Nat /\ closed \in BOOLEAN
      /\ pc \in [Threads -> PCs] /\ cur \in [Threads -> Msgs \cup {NoMsg}]
      /\ got \in [Threads -> Seq(Msgs)] /\ fresh \subseteq Msgs /\ discs \in Nat
      /\ linked \in Seq(Msgs) /\ posted \in Seq(Msgs)
  BY DEF TypeOK
<1>b. /\ Sweeper \in Threads /\ Senders \subseteq Threads /\ Closers \subseteq Threads
      /\ Workers \subseteq Threads
  BY DEF Threads
<1>c. msgRef' \in [Msgs -> Nat]
  BY HeldStep
<1>d. sendPend' \in Nat /\ recv' \in BOOLEAN => refCnt' \in Nat
  <2>1. Cardinality(Where(pc', HoldingPCs)) \in Nat
    BY WhereFinite
  <2> QED
    BY <2>1, RefStep DEF RefCounted
<1>e. \A t \in Threads : pc[t] = "link" => cur[t] \in Msgs
  BY <1>a DEF OwnMessages, Roles
<1>f. sendQ # <<>> => Head(sendQ) \in Msgs /\ Tail(sendQ) \in Seq(Msgs)
  BY <1>a, HeadTailProperties
<1>g. sendPend' \in Nat /\ recv' \in BOOLEAN /\ relMsgs' \in Nat /\ closed' \in BOOLEAN
      /\ sendThFL' \in {0, 1} /\ relFlag' \in {0, 1} /\ dcFlag' \in {0, 1} /\ sendFlag' \in {0, 1}
      /\ qSize' \in Int /\ pc' \in [Threads -> PCs] /\ discs' \in Nat /\ fresh' \subseteq Msgs
      /\ cur' \in [Threads -> Msgs \cup {NoMsg}] /\ sendQ' \in Seq(Msgs) /\ sendArr' \in Seq(Msgs)
      /\ got' \in [Threads -> Seq(Msgs)] /\ linked' \in Seq(Msgs) /\ posted' \in Seq(Msgs)
  <2> DEFINE Flags == /\ sendThFL' \in {0, 1} /\ relFlag' \in {0, 1} /\ dcFlag' \in {0, 1}
                      /\ sendFlag' \in {0, 1} /\ recv' \in BOOLEAN /\ closed' \in BOOLEAN
  <2> DEFINE Counts == /\ sendPend' \in Nat /\ relMsgs' \in Nat /\ qSize' \in Int /\ discs' \in Nat
  <2> DEFINE Where2 == /\ pc' \in [Threads -> PCs] /\ fresh' \subseteq Msgs
                       /\ cur' \in [Threads -> Msgs \cup {NoMsg}]
  <2> DEFINE Seqs == /\ sendQ' \in Seq(Msgs) /\ sendArr' \in Seq(Msgs) /\ got' \in [Threads -> Seq(Msgs)]
                     /\ linked' \in Seq(Msgs) /\ posted' \in Seq(Msgs)
  <2> USE DEF session, queue, io, history, rest
  <2>1. ASSUME NEW s \in Senders, CallSend(s) PROVE Flags /\ Counts /\ Where2 /\ Seqs
    <3>1. Flags /\ Counts
      BY <2>1, <1>a DEF CallSend
    <3>2. Where2
      BY <2>1, <1>a, <1>b DEF CallSend, Goto, PCs
    <3>4. Seqs
      BY <2>1, <1>a DEF CallSend
    <3> QED
      BY <3>1, <3>2, <3>4
  <2>2. ASSUME NEW c \in Closers, CallDisconnect(c) PROVE Flags /\ Counts /\ Where2 /\ Seqs
    <3>1. Flags /\ Counts
      BY <2>2, <1>a DEF CallDisconnect
    <3>2. Where2
      BY <2>2, <1>a, <1>b DEF CallDisconnect, Goto, PCs
    <3>4. Seqs
      BY <2>2, <1>a DEF CallDisconnect
    <3> QED
      BY <3>1, <3>2, <3>4
  <2>3. ASSUME Sweep PROVE Flags /\ Counts /\ Where2 /\ Seqs
    <3>1. Flags /\ Counts
      BY <2>3, <1>a DEF Sweep
    <3>2. Where2
      BY <2>3, <1>a, <1>b DEF Sweep, Goto, PCs
    <3>4. Seqs
      BY <2>3, <1>a DEF Sweep
    <3> QED
      BY <3>1, <3>2, <3>4
  <2>4. ASSUME NEW w \in Workers, TakeSend(w) PROVE Flags /\ Counts /\ Where2 /\ Seqs
    <3>1. Flags /\ Counts
      BY <2>4, <1>a DEF TakeSend
    <3>2. Where2
      BY <2>4, <1>a, <1>b DEF TakeSend, Goto, PCs
    <3>4. Seqs
      BY <2>4, <1>a DEF TakeSend
    <3> QED
      BY <3>1, <3>2, <3>4
  <2>5. ASSUME NEW w \in Workers, RecvEnd(w) PROVE Flags /\ Counts /\ Where2 /\ Seqs
    <3>1. Flags /\ Counts
      BY <2>5, <1>a DEF RecvEnd
    <3>2. Where2
      BY <2>5, <1>a, <1>b DEF RecvEnd, Goto, PCs
    <3>4. Seqs
      BY <2>5, <1>a DEF RecvEnd
    <3> QED
      BY <3>1, <3>2, <3>4
  <2>6. ASSUME NEW w \in Workers, TakeRelease(w) PROVE Flags /\ Counts /\ Where2 /\ Seqs
    <3>1. Flags /\ Counts
      BY <2>6, <1>a DEF TakeRelease
    <3>2. Where2
      BY <2>6, <1>a, <1>b DEF TakeRelease, Goto, PCs
    <3>4. Seqs
      BY <2>6, <1>a DEF TakeRelease
    <3> QED
      BY <3>1, <3>2, <3>4
  <2>7. ASSUME NEW t \in Threads, Check(t) PROVE Flags /\ Counts /\ Where2 /\ Seqs
    <3>1. Flags /\ Counts
      BY <2>7, <1>a DEF Check
    <3>2. Where2
      BY <2>7, <1>a, <1>b DEF Check, Goto, PCs
    <3>4. Seqs
      BY <2>7, <1>a DEF Check
    <3> QED
      BY <3>1, <3>2, <3>4
  <2>8. ASSUME NEW t \in Threads, Room(t) PROVE Flags /\ Counts /\ Where2 /\ Seqs
    <3>1. Flags /\ Counts
      BY <2>8, <1>a DEF Room
    <3>2. Where2
      BY <2>8, <1>a, <1>b DEF Room, Goto, PCs
    <3>4. Seqs
      BY <2>8, <1>a DEF Room
    <3> QED
      BY <3>1, <3>2, <3>4
  <2>9. ASSUME NEW t \in Threads, Link(t) PROVE Flags /\ Counts /\ Where2 /\ Seqs
    <3>1. Flags /\ Counts
      BY <2>9, <1>a DEF Link
    <3>2. Where2
      BY <2>9, <1>a, <1>b DEF Link, Goto, PCs
    <3>3. Append(sendQ, cur[t]) \in Seq(Msgs) /\ Append(linked, cur[t]) \in Seq(Msgs)
      BY <2>9, <1>a, <1>e, AppendProperties DEF Link
    <3>4. Seqs
      BY <2>9, <1>a, <3>3 DEF Link
    <3> QED
      BY <3>1, <3>2, <3>4
  <2>10. ASSUME NEW t \in Threads, Count(t) PROVE Flags /\ Counts /\ Where2 /\ Seqs
    <3>1. Flags /\ Counts
      BY <2>10, <1>a DEF Count
    <3>2. Where2
      BY <2>10, <1>a, <1>b DEF Count, Goto, PCs
    <3>4. Seqs
      BY <2>10, <1>a DEF Count
    <3> QED
      BY <3>1, <3>2, <3>4
  <2>11. ASSUME NEW t \in Threads, Scan(t) PROVE Flags /\ Counts /\ Where2 /\ Seqs
    <3>1. Flags /\ Counts
      BY <2>11, <1>a DEF Scan
    <3>2. Where2
      BY <2>11, <1>a, <1>b DEF Scan, Goto, PCs
    <3>4. Seqs
      BY <2>11, <1>a DEF Scan
    <3> QED
      BY <3>1, <3>2, <3>4
  <2>12. ASSUME NEW t \in Threads, Post(t) PROVE Flags /\ Counts /\ Where2 /\ Seqs
    <3>1. Flags /\ Counts
      BY <2>12, <1>a DEF Post
    <3>2. Where2
      BY <2>12, <1>a, <1>b DEF Post, Goto, PCs
    <3>4. Seqs
      BY <2>12, <1>a DEF Post
    <3> QED
      BY <3>1, <3>2, <3>4
  <2>13. ASSUME NEW t \in Threads, Flag(t) PROVE Flags /\ Counts /\ Where2 /\ Seqs
    <3>1. Flags /\ Counts
      BY <2>13, <1>a DEF Flag
    <3>2. Where2
      BY <2>13, <1>a, <1>b DEF Flag, Goto, PCs
    <3>4. Seqs
      BY <2>13, <1>a DEF Flag
    <3> QED
      BY <3>1, <3>2, <3>4
  <2>14. ASSUME NEW t \in Threads, Size(t) PROVE Flags /\ Counts /\ Where2 /\ Seqs
    <3>1. Flags /\ Counts
      BY <2>14, <1>a DEF Size
    <3>2. Where2
      BY <2>14, <1>a, <1>b DEF Size, Goto, PCs
    <3>4. Seqs
      BY <2>14, <1>a DEF Size
    <3> QED
      BY <3>1, <3>2, <3>4
  <2>15. ASSUME NEW t \in Threads, Unflag(t) PROVE Flags /\ Counts /\ Where2 /\ Seqs
    <3>1. Flags /\ Counts
      BY <2>15, <1>a DEF Unflag
    <3>2. Where2
      BY <2>15, <1>a, <1>b DEF Unflag, Goto, PCs
    <3>4. Seqs
      BY <2>15, <1>a DEF Unflag
    <3> QED
      BY <3>1, <3>2, <3>4
  <2>16. ASSUME NEW t \in Threads, Again(t) PROVE Flags /\ Counts /\ Where2 /\ Seqs
    <3>1. Flags /\ Counts
      BY <2>16, <1>a DEF Again
    <3>2. Where2
      BY <2>16, <1>a, <1>b DEF Again, Goto, PCs
    <3>4. Seqs
      BY <2>16, <1>a DEF Again
    <3> QED
      BY <3>1, <3>2, <3>4
  <2>17. ASSUME NEW t \in Threads, Take(t) PROVE Flags /\ Counts /\ Where2 /\ Seqs
    <3>1. Flags /\ Counts
      BY <2>17, <1>a DEF Take
    <3>2. Where2
      BY <2>17, <1>a, <1>b DEF Take, Goto, PCs
    <3>3. Append(got[t], Head(sendQ)) \in Seq(Msgs)
      BY <2>17, <1>a, <1>f, AppendProperties DEF Take
    <3>4. Seqs
      BY <2>17, <1>a, <1>f, <3>3 DEF Take
    <3> QED
      BY <3>1, <3>2, <3>4
  <2>18. ASSUME NEW t \in Threads, TakeEnd(t) PROVE Flags /\ Counts /\ Where2 /\ Seqs
    <3>1. Flags /\ Counts
      BY <2>18, <1>a DEF TakeEnd
    <3>2. Where2
      BY <2>18, <1>a, <1>b DEF TakeEnd, Goto, PCs
    <3>4. Seqs
      BY <2>18, <1>a DEF TakeEnd
    <3> QED
      BY <3>1, <3>2, <3>4
  <2>19. ASSUME NEW t \in Threads, WsaSend(t) PROVE Flags /\ Counts /\ Where2 /\ Seqs
    <3>1. Flags /\ Counts
      BY <2>19, <1>a DEF WsaSend
    <3>2. Where2
      BY <2>19, <1>a, <1>b DEF WsaSend, Goto, PCs
    <3>3. posted \o got[t] \in Seq(Msgs) /\ <<>> \in Seq(Msgs)
      BY <1>a, ConcatProperties, EmptySeq
    <3>4. Seqs
      BY <2>19, <1>a, <3>3 DEF WsaSend
    <3> QED
      BY <3>1, <3>2, <3>4
  <2>20. ASSUME NEW t \in Threads, Disconnect(t) PROVE Flags /\ Counts /\ Where2 /\ Seqs
    <3>1. Flags /\ Counts
      BY <2>20, <1>a DEF Disconnect
    <3>2. Where2
      BY <2>20, <1>a, <1>b DEF Disconnect, Goto, PCs
    <3>4. Seqs
      BY <2>20, <1>a DEF Disconnect
    <3> QED
      BY <3>1, <3>2, <3>4
  <2>21. ASSUME NEW t \in Threads, Dec(t) PROVE Flags /\ Counts /\ Where2 /\ Seqs
    <3>1. Flags /\ Counts
      BY <2>21, <1>a DEF Dec
    <3>2. Where2
      BY <2>21, <1>a, <1>b DEF Dec, Goto, PCs
    <3>4. Seqs
      BY <2>21, <1>a DEF Dec
    <3> QED
      BY <3>1, <3>2, <3>4
  <2>22. ASSUME NEW t \in Threads, Release(t) PROVE Flags /\ Counts /\ Where2 /\ Seqs
    <3>1. Flags /\ Counts
      BY <2>22, <1>a DEF Release
    <3>2. Where2
      BY <2>22, <1>a, <1>b DEF Release, Goto, PCs
    <3>4. Seqs
      BY <2>22, <1>a DEF Release
    <3> QED
      BY <3>1, <3>2, <3>4
  <2>23. ASSUME NEW t \in Threads, DropOwn(t) PROVE Flags /\ Counts /\ Where2 /\ Seqs
    <3>1. Flags /\ Counts
      BY <2>23, <1>a DEF DropOwn
    <3>2. Where2
      BY <2>23, <1>a, <1>b DEF DropOwn, Goto, PCs
    <3>4. Seqs
      BY <2>23, <1>a DEF DropOwn
    <3> QED
      BY <3>1, <3>2, <3>4
  <2>24. ASSUME NEW t \in Threads, FreeSent(t) PROVE Flags /\ Counts /\ Where2 /\ Seqs
    <3>1. Flags /\ Counts
      BY <2>24, <1>a DEF FreeSent
    <3>2. Where2
      BY <2>24, <1>a, <1>b DEF FreeSent, Goto, PCs
    <3>4. Seqs
      BY <2>24, <1>a, EmptySeq DEF FreeSent
    <3> QED
      BY <3>1, <3>2, <3>4
  <2>25. ASSUME NEW t \in Threads, ClearFlag(t) PROVE Flags /\ Counts /\ Where2 /\ Seqs
    <3>1. Flags /\ Counts
      BY <2>25, <1>a DEF ClearFlag
    <3>2. Where2
      BY <2>25, <1>a, <1>b DEF ClearFlag, Goto, PCs
    <3>4. Seqs
      BY <2>25, <1>a DEF ClearFlag
    <3> QED
      BY <3>1, <3>2, <3>4
  <2>26. ASSUME NEW t \in Threads, FreeArray(t) PROVE Flags /\ Counts /\ Where2 /\ Seqs
    <3>1. Flags /\ Counts
      BY <2>26, <1>a DEF FreeArray
    <3>2. Where2
      BY <2>26, <1>a, <1>b DEF FreeArray, Goto, PCs
    <3>4. Seqs
      BY <2>26, <1>a DEF FreeArray
    <3> QED
      BY <3>1, <3>2, <3>4
  <2>27. ASSUME NEW t \in Threads, Drain(t) PROVE Flags /\ Counts /\ Where2 /\ Seqs
    <3>1. Flags /\ Counts
      BY <2>27, <1>a DEF Drain
    <3>2. Where2
      BY <2>27, <1>a, <1>b DEF Drain, Goto, PCs
    <3>4. Seqs
      BY <2>27, <1>a, <1>f DEF Drain
    <3> QED
      BY <3>1, <3>2, <3>4
  <2>28. ASSUME NEW t \in Threads, Leave(t) PROVE Flags /\ Counts /\ Where2 /\ Seqs
    <3>1. Flags /\ Counts
      BY <2>28, <1>a DEF Leave
    <3>2. Where2
      BY <2>28, <1>a, <1>b DEF Leave, Goto, PCs
    <3>4. Seqs
      BY <2>28, <1>a DEF Leave
    <3> QED
      BY <3>1, <3>2, <3>4
  <2>u. CASE UNCHANGED vars
    BY <2>u, <1>a DEF vars
  <2> QED
    BY <2>1, <2>2, <2>3, <2>4, <2>5, <2>6, <2>7, <2>8, <2>9, <2>10, <2>11, <2>12, <2>13, <2>14,
       <2>15, <2>16, <2>17, <2>18, <2>19, <2>20, <2>21, <2>22, <2>23, <2>24, <2>25, <2>26, <2>27,
       <2>28, <2>u DEF Next, Step
<1> QED
  BY <1>c, <1>d, <1>g DEF TypeOK

-----------------------------------------------------------------------------
(* The invariant holds *)

\* A new session has the reference of its receive side and nothing else.
LEMMA InitIInv ==
  ASSUME Init
  PROVE  IInv
<1> USE DEF Init
<1>1. \A K : (\A t \in Threads : "idle" \notin K) => Where(pc, K) = {}
  BY DEF Where
<1>2. /\ Cardinality(Where(pc, HoldingPCs)) = 0 /\ Cardinality(Where(pc, {"count"})) = 0
      /\ Cardinality(Where(pc, {"link"})) = 0
  <2>1. /\ Where(pc, HoldingPCs) = {} /\ Where(pc, {"count"}) = {} /\ Where(pc, {"link"}) = {}
    BY DEF Where, HoldingPCs
  <2> QED
    BY <2>1, FS_EmptySet
<1>3. Cardinality(Senders) \in Nat \ {0}
  <2>1. IsFiniteSet(Senders)
    BY ThreadsFinite, FS_Subset DEF Threads
  <2> QED
    BY <2>1, SomeSender, FS_EmptySet, FS_CardinalityType
<1>4. <<>> \in Seq(Msgs) /\ Len(<<>>) = 0
  BY EmptySeq
<1>5. Pulled = <<>>
  BY DEF Pulled, Filling
<1>6. Sweeper \in Threads
  BY DEF Threads
<1>7. TypeOK
  <2>1. /\ pc \in [Threads -> PCs] /\ cur \in [Threads -> Msgs \cup {NoMsg}]
        /\ msgRef \in [Msgs -> Nat]
    BY DEF PCs
  <2>2. got \in [Threads -> Seq(Msgs)]
    BY <1>4
  <2>3. recv \in BOOLEAN /\ closed \in BOOLEAN
    OBVIOUS
  <2>4. /\ sendThFL \in {0, 1} /\ relFlag \in {0, 1} /\ dcFlag \in {0, 1} /\ sendFlag \in {0, 1}
        /\ refCnt \in Nat /\ qSize \in Int /\ sendPend \in Nat /\ relMsgs \in Nat /\ discs \in Nat
    OBVIOUS
  <2>5. /\ sendQ \in Seq(Msgs) /\ sendArr \in Seq(Msgs) /\ linked \in Seq(Msgs)
        /\ posted \in Seq(Msgs) /\ fresh \subseteq Msgs
    BY <1>4
  <2> HIDE DEF Init
  <2> QED
    BY <2>1, <2>2, <2>3, <2>4, <2>5 DEF TypeOK
<1>8. Roles /\ FlagOwned /\ ArrayOwned /\ Released /\ NoLostWakeup
  BY <1>6 DEF Roles, FlagOwned, ArrayOwned, Released, NoLostWakeup, OwningPCs, ClosingPCs, HoldingPCs
<1>9. RefCounted /\ SizeCounts /\ RoomLeft
  BY <1>2, <1>3, <1>4, BoundsNat DEF RefCounted, SizeCounts, RoomLeft
<1>10. OwnMessages
  BY NoMsgApart DEF OwnMessages
<1>11. \A m : ~Handed(m)
  BY SmallHolds DEF Handed, InGot
<1>12. OnePlace
  BY <1>4, <1>11, SmallHolds DEF OnePlace, Distinct
<1>13. MessagesHeld
  <2>1. SUFFICES ASSUME NEW m \in Msgs PROVE msgRef[m] = RefsOf(m)
    BY DEF MessagesHeld
  <2>2. ~IsCur(m) /\ m \notin ToSet(sendQ) /\ m \notin InArray /\ ~InGot(m)
    BY <1>11, NoMsgApart, SmallHolds DEF IsCur, Handed, InArray
  <2> QED
    BY <2>2 DEF RefsOf
<1>14. SentInOrder
  BY <1>4, <1>5, ConcatEmptySeq DEF SentInOrder
<1> QED
  BY <1>7, <1>8, <1>9, <1>10, <1>12, <1>13, <1>14 DEF IInv

\* The invariant is inductive.
LEMMA IInvStep ==
  ASSUME IInv, [Next]_vars
  PROVE  IInv'
BY TypeStep, RolesStep, RefStep, FlagStep, ReleasedStep, SizeStep, PlaceStep, HeldStep, OrderStep,
   WakeStep DEF IInv

\* It holds of every behaviour, in both send modes.
THEOREM Invariance == Spec => []IInv
<1>1. Init => IInv
  BY InitIInv
<1>2. IInv /\ [Next]_vars => IInv'
  BY IInvStep
<1> QED
  BY <1>1, <1>2, PTL DEF Spec

-----------------------------------------------------------------------------
(* What follows *)

\* Every variable stays in its type: no count of references falls below zero.
THEOREM TypesHold == Spec => []TypeOK
<1>1. IInv => TypeOK
  BY DEF IInv
<1> QED
  BY <1>1, Invariance, PTL

\* Two threads that use m_SendArray are the same thread, and then no WSASend is
\* pending.
LEMMA OneUser ==
  ASSUME IInv
  PROVE  /\ \A t, u \in Filling \cup Freeing : t = u
         /\ Filling \cup Freeing # {} => sendPend = 0
<1> USE DEF IInv
<1>1. ASSUME NEW t \in Filling \cup Freeing
      PROVE  t \in Threads /\ (pc[t] \in OwningPCs \/ pc[t] \in ClosingPCs)
  BY DEF Filling, Freeing, OwningPCs, ClosingPCs
<1>2. ASSUME NEW t \in Threads, NEW u \in Threads, pc[t] \in OwningPCs
      PROVE  pc[u] \notin ClosingPCs
  BY <1>2 DEF Released, OwningPCs, HoldingPCs
<1>3. ASSUME NEW t \in Filling \cup Freeing, NEW u \in Filling \cup Freeing PROVE t = u
  BY <1>1, <1>2 DEF FlagOwned, Released
<1>4. ASSUME NEW t \in Filling \cup Freeing PROVE sendPend = 0
  BY <1>1 DEF FlagOwned, Released
<1> QED
  BY <1>3, <1>4

\* m_SendArray and m_SendOverlapped have one user at a time, whatever the number
\* of threads that send, complete and disconnect.
THEOREM OnePending == Spec => []OneSendPending
<1>1. ASSUME IInv PROVE OneSendPending
  <2>1. sendPend \in Nat /\ sendPend <= 1
    BY <1>1 DEF IInv, TypeOK, FlagOwned
  <2>2. Cardinality(Filling \cup Freeing) + sendPend <= 1
    <3>1. CASE Filling \cup Freeing = {}
      BY <2>1, <3>1, FS_EmptySet
    <3>2. ASSUME NEW t \in Filling \cup Freeing PROVE Cardinality(Filling \cup Freeing) + sendPend <= 1
      <4>1. Filling \cup Freeing = {t} /\ sendPend = 0
        BY <1>1, <3>2, OneUser
      <4>2. Cardinality({t}) = 1
        BY FS_Singleton
      <4> QED
        BY <4>1, <4>2
    <3> QED
      BY <3>1, <3>2
  <2>3. Filling # {} /\ sendArr # <<>> => relFlag = 1
    BY <1>1 DEF IInv, ArrayOwned, Filling, OwningPCs
  <2> QED
    BY <2>2, <2>3 DEF OneSendPending
<1> QED
  BY <1>1, Invariance, PTL

\* While the session is open the messages are handed to WSASend once each and in
\* the order in which they were linked.
THEOREM InOrder == Spec => []SentInOrder
<1>1. IInv => SentInOrder
  BY DEF IInv
<1> QED
  BY <1>1, Invariance, PTL

\* How many of four conditions hold.
LEMMA FourCount ==
  ASSUME NEW a, NEW b, NEW c, NEW d
  PROVE  Cardinality({i \in 1..4 : <<a, b, c, d>>[i]}) =
             (IF a THEN 1 ELSE 0) + (IF b THEN 1 ELSE 0) + (IF c THEN 1 ELSE 0) + (IF d THEN 1 ELSE 0)
<1> DEFINE A == IF a THEN {1} ELSE {}
           B == IF b THEN A \cup {2} ELSE A
           C == IF c THEN B \cup {3} ELSE B
           D == IF d THEN C \cup {4} ELSE C
<1>1. IsFiniteSet(A) /\ Cardinality(A) = (IF a THEN 1 ELSE 0) /\ A \subseteq {1}
  BY FS_EmptySet, FS_Singleton
<1>2. IsFiniteSet(B) /\ Cardinality(B) = Cardinality(A) + (IF b THEN 1 ELSE 0) /\ B \subseteq {1, 2}
  <2> HIDE DEF A
  <2>1. 2 \notin A /\ Cardinality(A) \in Nat
    BY <1>1
  <2> QED
    BY <1>1, <2>1, FS_AddElement
<1>3. IsFiniteSet(C) /\ Cardinality(C) = Cardinality(B) + (IF c THEN 1 ELSE 0) /\ C \subseteq {1, 2, 3}
  <2> HIDE DEF A, B
  <2>1. 3 \notin B /\ Cardinality(B) \in Nat
    BY <1>2, FS_CardinalityType
  <2> QED
    BY <1>2, <2>1, FS_AddElement
<1>4. IsFiniteSet(D) /\ Cardinality(D) = Cardinality(C) + (IF d THEN 1 ELSE 0)
  <2> HIDE DEF A, B, C
  <2>1. 4 \notin C /\ Cardinality(C) \in Nat
    BY <1>3, FS_CardinalityType
  <2> QED
    BY <1>3, <2>1, FS_AddElement
<1>5. {i \in 1..4 : <<a, b, c, d>>[i]} = D
  <2>1. 1..4 = {1, 2, 3, 4}
    OBVIOUS
  <2>2. ASSUME NEW i \in {1, 2, 3, 4} PROVE <<a, b, c, d>>[i] <=> i \in D
    <3>1. CASE i = 1
      BY <3>1
    <3>2. CASE i = 2
      BY <3>2
    <3>3. CASE i = 3
      BY <3>3
    <3>4. CASE i = 4
      BY <3>4
    <3> QED
      BY <3>1, <3>2, <3>3, <3>4
  <2>3. D \subseteq {1, 2, 3, 4}
    OBVIOUS
  <2> QED
    BY <2>1, <2>2, <2>3
<1> HIDE DEF A, B, C, D
<1> QED
  BY <1>1, <1>2, <1>3, <1>4, <1>5

\* The reference count of a message is the number of places that use it.
THEOREM CountsHold == Spec => []MessageCount
<1>1. ASSUME IInv PROVE MessageCount
  <2>1. SUFFICES ASSUME NEW m \in Msgs
                 PROVE  msgRef[m] = Cardinality({i \in 1..4 : Places(m)[i]})
    BY DEF MessageCount
  <2>2. Places(m) = <<IsCur(m), m \in ToSet(sendQ), m \in InArray, InGot(m)>>
    BY DEF Places, IsCur, InGot
  <2>3. msgRef[m] = RefsOf(m)
    BY <1>1 DEF IInv, MessagesHeld
  <2> DEFINE a == IsCur(m)
             b == m \in ToSet(sendQ)
             c == m \in InArray
             d == InGot(m)
  <2>5. Places(m) = <<a, b, c, d>>
    BY <2>2
  <2>6. RefsOf(m) = (IF a THEN 1 ELSE 0) + (IF b THEN 1 ELSE 0) + (IF c THEN 1 ELSE 0)
                    + (IF d THEN 1 ELSE 0)
    BY DEF RefsOf
  <2> HIDE DEF a, b, c, d
  <2>7. Cardinality({i \in 1..4 : <<a, b, c, d>>[i]}) = RefsOf(m)
    BY <2>6, FourCount
  <2> QED
    BY <2>3, <2>5, <2>7
<1> QED
  BY <1>1, Invariance, PTL

\* After OnClientLeave nothing is queued, pending or about to be.
THEOREM NothingLeft == Spec => []NothingLeftBehind
<1>1. ASSUME IInv PROVE NothingLeftBehind
  <2>1. closed => relFlag = 1
    BY <1>1 DEF IInv, TypeOK, Released
  <2> QED
    BY <1>1, <2>1 DEF IInv, Released, NothingLeftBehind, Filling, HoldingPCs
<1> QED
  BY <1>1, Invariance, PTL

\* No message is left in the queue with nobody to send it.
THEOREM NoneForgotten == Spec => []NoLostWakeup
<1>1. IInv => NoLostWakeup
  BY DEF IInv
<1> QED
  BY <1>1, Invariance, PTL

\* The queue passes its limit by one message for each sender but one, at most.
THEOREM BoundHolds == Spec => []QueueBound
<1>1. ASSUME IInv PROVE QueueBound
  <2>1. Cardinality(Where(pc, {"link"})) \in Nat /\ Cardinality(Senders) \in Nat
    <3>1. IsFiniteSet(Senders)
      BY ThreadsFinite, FS_Subset DEF Threads
    <3> QED
      BY <3>1, WhereFinite, FS_CardinalityType
  <2>2. Len(sendQ) \in Nat
    BY <1>1, LenProperties DEF IInv, TypeOK
  <2> QED
    BY <1>1, <2>1, <2>2, BoundsNat DEF IInv, RoomLeft, QueueBound
<1> QED
  BY <1>1, Invariance, PTL
=============================================================================
