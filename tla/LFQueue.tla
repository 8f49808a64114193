------------------------------ MODULE LFQueue -------------------------------
(***************************************************************************)
(* LFQueueMul, step by step: several queues over one pool of nodes.        *)
(*                                                                         *)
(* Abstractions.  The tag beside a pointer in m_pHead and m_pTail is new   *)
(* with every write, so a CAS against a copy of the whole word succeeds    *)
(* iff the word was not written since it was read: headFresh and tailFresh *)
(* (no tag of 17 bits comes round between a read and its CAS).  m_size is  *)
(* left to SendPath.  CMemoryPool is a stack of free nodes, at its         *)
(* linearization points; it also allocates a new node when it is empty or  *)
(* when its counters, read before, make it look so.  A step holds one      *)
(* access of shared memory, with three exceptions in which nobody can tell *)
(* the accesses apart: CallEnqueue (Alloc and the writes of a node nobody  *)
(* can link to yet), Check (the second read of m_pHead and that of _data,  *)
(* which the CAS throws away if m_pHead moved between them) and Take (the  *)
(* CAS and the Free of a node that only this thread can free).             *)
(***************************************************************************)
EXTENDS Naturals, Sequences, FiniteSets

CONSTANTS
    Queues,   \* queues that share m_pMemoryPool
    Nodes,    \* bound: nodes the pool ever allocates
    Threads,
    MaxEnq,   \* bound: calls of Enqueue; the n-th one enqueues n
    MaxDeq,   \* bound: calls of Dequeue
    Null,     \* nullptr
    Linking   \* 0xFFFFFFFFFFFFFFFF, the next of a node that is not linked yet

ASSUME NotNodes == {Null, Linking} \cap Nodes = {} /\ Null # Linking
ASSUME NotQueue == Null \notin Queues
\* Each queue has a dummy node of its own.
ASSUME EnoughNodes ==
    /\ IsFiniteSet(Nodes)
    /\ \E d \in [Queues -> Nodes] : \A i, j \in Queues : d[i] = d[j] => i = j
ASSUME Calls == MaxEnq \in Nat /\ MaxDeq \in Nat

VARIABLES
    next, qid, data,  \* _next, _Qid and _data of each node
    pool,             \* free nodes, the top first
    unused,           \* nodes never allocated
    head, tail,       \* m_pHead and m_pTail of each queue
    me,               \* each thread: where it is, its call and its local variables
    headFresh,        \* threads whose localHead is still the word in m_pHead
    tailFresh,        \* threads whose localTail is still the word in m_pTail
    enqs, deqs,       \* calls so far
    out               \* history: what was dequeued from each queue

nodes == <<next, qid, data>>
free == <<pool, unused>>
heads == <<head, headFresh>>
tails == <<tail, tailFresh>>
calls == <<enqs, deqs>>
vars == <<nodes, free, heads, tails, me, calls, out>>

Ptr == Nodes \cup {Null, Linking}
Values == 0..MaxEnq
PCs == {"idle", "tail", "next", "help", "last", "link", "open", "swing",
        "head", "first", "check", "take"}

Idle == [pc |-> "idle", op |-> "none", q |-> Null, new |-> Null, tail |-> Null,
         head |-> Null, next |-> Null, temp |-> 0, empty |-> FALSE]

TypeOK ==
    /\ next \in [Nodes -> Ptr] /\ qid \in [Nodes -> Queues \cup {Null}]
    /\ data \in [Nodes -> Values]
    /\ pool \in Seq(Nodes) /\ unused \subseteq Nodes
    /\ head \in [Queues -> Nodes] /\ tail \in [Queues -> Nodes]
    /\ me \in [Threads ->
                  [pc : PCs, op : {"none", "enq", "deq"}, q : Queues \cup {Null},
                   new : Nodes \cup {Null}, tail : Nodes \cup {Null}, head : Nodes \cup {Null},
                   next : Ptr, temp : Values, empty : BOOLEAN]]
    /\ headFresh \subseteq Threads /\ tailFresh \subseteq Threads
    /\ enqs \in 0..MaxEnq /\ deqs \in 0..MaxDeq
    /\ out \in [Queues -> Seq(Values)]

\* The constructor gives each queue a dummy node of its own.
Dummy == CHOOSE d \in [Queues -> Nodes] : \A i, j \in Queues : d[i] = d[j] => i = j

Init ==
    /\ qid = [n \in Nodes |-> IF \E i \in Queues : Dummy[i] = n
                              THEN CHOOSE i \in Queues : Dummy[i] = n ELSE Null]
    /\ next = [n \in Nodes |-> Null] /\ data = [n \in Nodes |-> 0]
    /\ pool = <<>> /\ unused = {n \in Nodes : qid[n] = Null}
    /\ head = Dummy /\ tail = Dummy
    /\ me = [t \in Threads |-> Idle]
    /\ headFresh = {} /\ tailFresh = {}
    /\ enqs = 0 /\ deqs = 0
    /\ out = [i \in Queues |-> <<>>]

At(t, place) == me[t].pc = place
Goto(t, place) == me' = [me EXCEPT ![t].pc = place]

\* Writing m_pTail or m_pHead outdates every copy of it.
SetTail(i, n) ==
    /\ tail' = [tail EXCEPT ![i] = n]
    /\ tailFresh' = {t \in tailFresh : me[t].q # i}

SetHead(i, n) ==
    /\ head' = [head EXCEPT ![i] = n]
    /\ headFresh' = {t \in headFresh : me[t].q # i}

\* localTail = m_pTail
CopyTail(t, place) ==
    /\ me' = [me EXCEPT ![t].tail = tail[me[t].q], ![t].pc = place]
    /\ tailFresh' = tailFresh \cup {t}
    /\ UNCHANGED tail

\* The call returns.
Return(t) == me' = [me EXCEPT ![t] = Idle]

Alloc(n) ==
    \/ pool # <<>> /\ n = Head(pool) /\ pool' = Tail(pool) /\ UNCHANGED unused
    \/ n \in unused /\ n = (CHOOSE m \in unused : TRUE)
       /\ unused' = unused \ {n} /\ UNCHANGED pool

-----------------------------------------------------------------------------
\* The items of a queue: what follows its dummy node.
Contents(i) ==
    LET walk[k \in 0..Cardinality(Nodes)] ==
            IF k = 0 THEN head[i]
            ELSE IF walk[k - 1] \in Nodes THEN next[walk[k - 1]] ELSE Null
        len == Cardinality({k \in 1..Cardinality(Nodes) : walk[k] \in Nodes})
    IN  [k \in 1..len |-> data[walk[k]]]

-----------------------------------------------------------------------------
(* Slips one could make in this code.  No action uses them: each is put in  *)
(* the place of the definition it is named after, to see which property     *)
(* notices.                                                                 *)

\* The node that is being enqueued starts with the next of a last node.
FirstNext_Null == Null

\* The first loop does not wait for a node that is being linked.
LoopNext_NoWait(t) ==
    /\ At(t, "next")
    /\ LET n == next[me[t].tail]
           place == IF n = Null THEN (IF me[t].op = "enq" THEN "last" ELSE "head") ELSE "help"
       IN  me' = [me EXCEPT ![t].next = n, ![t].pc = place]
    /\ UNCHANGED <<nodes, free, heads, tails, calls, out>>

\* Dequeue does not look at m_pHead again.
SameHead_Skip(t) == TRUE

-----------------------------------------------------------------------------
(* Calls *)

\* The next of a new node.
FirstNext == Linking

CallEnqueue(t, i) ==
    /\ At(t, "idle") /\ enqs < MaxEnq
    /\ enqs' = enqs + 1
    /\ \E n \in Nodes :
        /\ Alloc(n)
        /\ data' = [data EXCEPT ![n] = enqs + 1]
        /\ next' = [next EXCEPT ![n] = FirstNext]
        /\ qid' = [qid EXCEPT ![n] = i]
        /\ me' = [me EXCEPT ![t] = [Idle EXCEPT !.pc = "tail", !.op = "enq", !.q = i, !.new = n]]
    /\ UNCHANGED <<heads, tails, deqs, out>>

CallDequeue(t, i) ==
    /\ At(t, "idle") /\ deqs < MaxDeq
    /\ deqs' = deqs + 1
    /\ me' = [me EXCEPT ![t] = [Idle EXCEPT !.pc = "tail", !.op = "deq", !.q = i]]
    /\ UNCHANGED <<nodes, free, heads, tails, enqs, out>>

-----------------------------------------------------------------------------
(* The first loop of both calls: m_pTail is moved up to the last node. *)

LoopTail(t) ==
    /\ At(t, "tail")
    /\ CopyTail(t, "next")
    /\ UNCHANGED <<nodes, free, heads, calls, out>>

LoopNext(t) ==
    /\ At(t, "next")
    /\ LET n == next[me[t].tail]
           place == IF n = Null THEN (IF me[t].op = "enq" THEN "last" ELSE "head")
                    ELSE IF n = Linking THEN "tail" ELSE "help"
       IN  me' = [me EXCEPT ![t].next = n, ![t].pc = place]
    /\ UNCHANGED <<nodes, free, heads, tails, calls, out>>

\* The CAS of m_pTail sees the word it was read with.
SameTail(t) == t \in tailFresh

LoopHelp(t) ==
    /\ At(t, "help")
    /\ IF SameTail(t) THEN SetTail(me[t].q, me[t].next) ELSE UNCHANGED tails
    /\ Goto(t, "tail")
    /\ UNCHANGED <<nodes, free, heads, calls, out>>

-----------------------------------------------------------------------------
(* Enqueue *)

ReadLast(t) ==
    /\ At(t, "last")
    /\ CopyTail(t, "link")
    /\ UNCHANGED <<nodes, free, heads, calls, out>>

\* The CAS of 128 bits, over _next and _Qid: the node is last, and of this queue.
IsLast(t) == next[me[t].tail] = Null /\ qid[me[t].tail] = me[t].q

Link(t) ==
    /\ At(t, "link")
    /\ IF IsLast(t)
       THEN next' = [next EXCEPT ![me[t].tail] = me[t].new] /\ Goto(t, "open")
       ELSE Goto(t, "last") /\ UNCHANGED next
    /\ UNCHANGED <<qid, data, free, heads, tails, calls, out>>

Open(t) ==
    /\ At(t, "open")
    /\ next' = [next EXCEPT ![me[t].new] = Null]
    /\ Goto(t, "swing")
    /\ UNCHANGED <<qid, data, free, heads, tails, calls, out>>

Swing(t) ==
    /\ At(t, "swing")
    /\ IF SameTail(t) THEN SetTail(me[t].q, me[t].new) ELSE UNCHANGED tails
    /\ Return(t)
    /\ UNCHANGED <<nodes, free, heads, calls, out>>

-----------------------------------------------------------------------------
(* Dequeue *)

ReadHead(t) ==
    /\ At(t, "head")
    /\ me' = [me EXCEPT ![t].head = head[me[t].q], ![t].pc = "first"]
    /\ headFresh' = headFresh \cup {t} /\ tailFresh' = tailFresh \ {t}
    /\ UNCHANGED <<nodes, free, head, tail, calls, out>>

\* realHead->_next; empty records for EmptyIsReal whether the queue was empty.
ReadFirst(t) ==
    /\ At(t, "first")
    /\ me' = [me EXCEPT ![t].next = next[me[t].head], ![t].pc = "check",
                        ![t].empty = Contents(me[t].q) = <<>>]
    /\ UNCHANGED <<nodes, free, heads, tails, calls, out>>

\* localHead != m_pHead: look again.
SameHead(t) == t \in headFresh

Check(t) ==
    /\ At(t, "check")
    /\ \/ ~SameHead(t) /\ Goto(t, "head") /\ UNCHANGED headFresh
       \/ SameHead(t) /\ me[t].next \notin Nodes /\ Return(t) /\ headFresh' = headFresh \ {t}
       \/ /\ SameHead(t) /\ me[t].next \in Nodes
          /\ me' = [me EXCEPT ![t].temp = data[me[t].next], ![t].pc = "take"]
          /\ UNCHANGED headFresh
    /\ UNCHANGED <<nodes, free, head, tails, calls, out>>

\* The CAS of m_pHead, then the old dummy goes back to the pool.
Take(t) ==
    /\ At(t, "take")
    /\ IF t \in headFresh
       THEN /\ SetHead(me[t].q, me[t].next)
            /\ out' = [out EXCEPT ![me[t].q] = Append(@, me[t].temp)]
            /\ pool' = <<me[t].head>> \o pool
            /\ Return(t)
       ELSE Goto(t, "head") /\ UNCHANGED <<heads, out, pool>>
    /\ UNCHANGED <<nodes, unused, tails, calls>>

-----------------------------------------------------------------------------
Step(t) ==
    \/ LoopTail(t) \/ LoopNext(t) \/ LoopHelp(t)
    \/ ReadLast(t) \/ Link(t) \/ Open(t) \/ Swing(t)
    \/ ReadHead(t) \/ ReadFirst(t) \/ Check(t) \/ Take(t)

Next ==
    \E t \in Threads : Step(t) \/ \E i \in Queues : CallEnqueue(t, i) \/ CallDequeue(t, i)

Spec == Init /\ [][Next]_vars


-----------------------------------------------------------------------------
(* Properties *)

\* The queue is one: what is taken is what was linked, in that order.
Fifo == INSTANCE FifoQueue WITH items <- [i \in Queues |-> Contents(i)]
FifoSpec == Fifo!Spec

\* Dequeue says that the queue is empty only if it was, at some time of the call.
EmptyIsReal ==
    [][\A t \in Threads : At(t, "check") /\ me'[t].pc = "idle" => me[t].empty]_vars

\* From m_pTail the last node of the same queue is reached: Enqueue finds it.
TailLeadsHome ==
    \A i \in Queues :
        LET Reach[k \in 0..Cardinality(Nodes)] ==
                IF k = 0 THEN {tail[i]}
                ELSE Reach[k - 1] \cup ({next[n] : n \in Reach[k - 1]} \cap Nodes)
        IN  \E n \in Reach[Cardinality(Nodes)] : qid[n] = i /\ next[n] \in {Null, Linking}

\* Once nobody is in a call, the next Enqueue finds the end of its queue: m_pTail
\* has not been led away into another queue.
QuietTail == (\A t \in Threads : At(t, "idle")) => TailLeadsHome
=============================================================================
