-------------------------- MODULE LFQueueProofs ---------------------------
(***************************************************************************)
(* Proofs about LFQueue for every number of queues over one pool of nodes, *)
(* threads, nodes and calls.                                               *)
(***************************************************************************)
EXTENDS LFQueue, FiniteSetTheorems, SequenceTheorems, WellFoundedInduction, TLAPS

-----------------------------------------------------------------------------
(* Walking from the dummy node *)

\* The function of Contents: the nodes after h, by the next field nx.
Size == Cardinality(Nodes)
Walk(nx, h) ==
    CHOOSE w : w = [k \in 0..Size |-> IF k = 0 THEN h ELSE IF w[k - 1] \in Nodes THEN nx[w[k - 1]] ELSE Null]
ItemsOf(nx, dt, h) ==
    [k \in 1..Cardinality({k \in 1..Size : Walk(nx, h)[k] \in Nodes}) |-> dt[Walk(nx, h)[k]]]

\* What Contents says of a state, and of the next one.
LEMMA ContentsOf ==
  ASSUME NEW i
  PROVE  Contents(i) = ItemsOf(next, data, head[i]) /\ Contents(i)' = ItemsOf(next', data', head'[i])
BY DEF Contents, ItemsOf, Walk, Size

\* A set of numbers has a smallest one: induction on numbers.
LEMMA SmallestNat ==
  ASSUME NEW S \in SUBSET Nat, S # {}
  PROVE  \E v \in S : \A w \in S : v <= w
<1> DEFINE R == StrictSubsetOrdering(Nat)
           F == FiniteSubsetsOf(Nat)
           Upto(v) == 0..v
           T == {Upto(v) : v \in S}
<1>1. IsWellFoundedOn(R, F)
  BY FS_StrictSubsetOrderingWellFounded
<1>2. T \subseteq F /\ T # {}
  <2>1. ASSUME NEW v \in S PROVE Upto(v) \in F
    BY FS_Interval DEF FiniteSubsetsOf
  <2> QED
    BY <2>1
<1>3. ASSUME NEW v \in S, NEW w \in S, w < v PROVE <<Upto(w), Upto(v)>> \in R
  <2>1. Upto(w) \in SUBSET Nat /\ Upto(v) \in SUBSET Nat /\ Upto(w) \subseteq Upto(v)
    BY <1>3
  <2>2. v \in Upto(v) /\ v \notin Upto(w)
    BY <1>3
  <2> HIDE DEF Upto
  <2> QED
    BY <2>1, <2>2 DEF StrictSubsetOrdering
<1> HIDE DEF R, F
<1>4. PICK x \in T : \A y \in T : <<y, x>> \notin R
  BY <1>1, <1>2, WFMin
<1>5. PICK v \in S : x = Upto(v)
  BY <1>4
<1>6. \A w \in S : ~(w < v)
  BY <1>3, <1>4, <1>5
<1> QED
  BY <1>6

\* The nodes f[0], ..., f[m] follow one another; the last is followed by none.
Follows(nx, f, m) ==
    /\ \A k \in 0..m : f[k] \in Nodes
    /\ \A k \in 0..m : k < m => nx[f[k]] = f[k + 1]
    /\ nx[f[m]] \notin Nodes
    /\ \A k, l \in 0..m : f[k] = f[l] => k = l

\* The walk from f[0] goes along them and ends.
LEMMA WalkFollows ==
  ASSUME NEW nx, NEW f, NEW m \in Nat, Follows(nx, f, m)
  PROVE  /\ m < Size
         /\ \A k \in 0..Size : IF k <= m THEN Walk(nx, f[0])[k] = f[k] ELSE Walk(nx, f[0])[k] \notin Nodes
<1> DEFINE After(w, k) == IF w[k - 1] \in Nodes THEN nx[w[k - 1]] ELSE Null
           Next1(w) == [k \in 0..Size |-> IF k = 0 THEN f[0] ELSE After(w, k)]
           W == [k \in 0..Size |-> IF k <= m THEN f[k] ELSE IF k = m + 1 THEN nx[f[m]] ELSE Null]
           V == Walk(nx, f[0])
<1> USE DEF Follows
<1>1. Size \in Nat /\ Null \notin Nodes
  BY EnoughNodes, NotNodes, FS_CardinalityType DEF Size
<1>2. m < Size
  <2> DEFINE g == [k \in 0..m |-> f[k]]
  <2>1. g \in Injection(0..m, Nodes)
    BY DEF Injection, IsInjective
  <2>2. Cardinality(0..m) <= Size /\ Cardinality(0..m) = m + 1
    BY <2>1, EnoughNodes, FS_Injection, FS_Interval DEF Size
  <2> QED
    BY <1>1, <2>2
<1>3. W = Next1(W)
  <2>1. ASSUME NEW k \in 0..Size, k # 0
        PROVE  W[k] = After(W, k)
    <3>1. k - 1 \in 0..Size /\ k \in Nat /\ k - 1 \in Nat
      BY <1>1, <2>1
    <3>2. CASE k <= m
      <4>1. W[k - 1] = f[k - 1] /\ k - 1 \in 0..m /\ k - 1 < m
        BY <3>1, <3>2
      <4>2. nx[f[k - 1]] = f[(k - 1) + 1] /\ f[k - 1] \in Nodes
        BY <4>1
      <4>3. (k - 1) + 1 = k
        BY <3>1
      <4> QED
        BY <3>1, <3>2, <4>1, <4>2, <4>3
    <3>3. CASE k = m + 1
      <4>1. W[k - 1] = f[m] /\ f[m] \in Nodes
        BY <3>1, <3>3
      <4>2. W[k] = nx[f[m]]
        BY <3>1, <3>3
      <4> QED
        BY <4>1, <4>2
    <3>4. CASE k > m + 1
      <4>1. W[k] = Null
        BY <3>1, <3>4
      <4>2. W[k - 1] \notin Nodes
        BY <1>1, <3>1, <3>4
      <4> QED
        BY <4>1, <4>2
    <3> QED
      BY <3>1, <3>2, <3>3, <3>4
  <2>2. W[0] = f[0]
    BY <1>1
  <2> QED
    BY <2>1, <2>2
<1>4. V = Next1(V)
  <2> HIDE DEF W
  <2>1. \E w : w = Next1(w)
    BY <1>3
  <2> QED
    BY <2>1 DEF Walk
<1>5. ASSUME NEW k \in 0..Size PROVE V[k] = W[k]
  <2> DEFINE D == {l \in 0..Size : V[l] # W[l]}
  <2> HIDE DEF V
  <2>1. SUFFICES ASSUME D # {} PROVE FALSE
    BY <2>1
  <2>2. D \in SUBSET Nat
    BY <1>1
  <2>3. PICK l \in D : \A j \in D : l <= j
    BY <2>1, <2>2, SmallestNat
  <2>4. l \in 0..Size /\ V[l] # W[l]
    BY <2>3
  <2>5. l # 0
    BY <1>1, <1>3, <1>4, <2>4
  <2>6. l - 1 \in 0..Size /\ l - 1 \notin D
    BY <1>1, <2>3, <2>4, <2>5
  <2>7. V[l - 1] = W[l - 1]
    BY <2>6
  <2>8. V[l] = After(V, l)
    BY <1>4, <2>4, <2>5
  <2>9. W[l] = After(W, l)
    <3> HIDE DEF W
    <3> QED
      BY <1>3, <2>4, <2>5
  <2> HIDE DEF W
  <2> QED
    BY <2>4, <2>7, <2>8, <2>9
<1> QED
  BY <1>1, <1>2, <1>5

\* So the items of the queue are the data of the nodes after the dummy node.
LEMMA ItemsFollow ==
  ASSUME NEW nx, NEW dt, NEW f, NEW m \in Nat, Follows(nx, f, m)
  PROVE  ItemsOf(nx, dt, f[0]) = [k \in 1..m |-> dt[f[k]]]
<1>1. /\ m < Size
      /\ \A k \in 0..Size : IF k <= m THEN Walk(nx, f[0])[k] = f[k] ELSE Walk(nx, f[0])[k] \notin Nodes
  BY WalkFollows
<1>2. Size \in Nat
  BY EnoughNodes, FS_CardinalityType DEF Size
<1>3. {k \in 1..Size : Walk(nx, f[0])[k] \in Nodes} = 1..m
  <2>1. \A k \in 1..Size : k \in 0..Size /\ k \in Nat
    BY <1>2
  <2>2. \A k \in 1..Size : Walk(nx, f[0])[k] \in Nodes <=> k <= m
    BY <1>1, <2>1 DEF Follows
  <2>3. \A k \in 1..m : k \in 1..Size
    BY <1>1, <1>2
  <2> QED
    BY <2>1, <2>2, <2>3
<1>4. Cardinality(1..m) = m
  BY FS_Interval
<1>5. ItemsOf(nx, dt, f[0]) = [k \in 1..m |-> dt[Walk(nx, f[0])[k]]]
  BY <1>3, <1>4 DEF ItemsOf
<1>6. ASSUME NEW k \in 1..m PROVE Walk(nx, f[0])[k] = f[k]
  <2>1. k \in 0..Size /\ k <= m
    BY <1>1, <1>2
  <2> QED
    BY <1>1, <2>1
<1> QED
  BY <1>5, <1>6

-----------------------------------------------------------------------------
(* The inductive invariant *)

\* Node m is in its queue: one of the n[i] + 1 nodes c[i][0], c[i][1], ...
Linked(c, n, m) == qid[m] \in Queues /\ \E k \in 0..n[qid[m]] : m = c[qid[m]][k]

\* The chain of queue i: its dummy node is c[i][0], its last node c[i][n[i]].
Chain(c, n, i) ==
    /\ c[i][0] = head[i]
    /\ \A k \in 0..n[i] : qid[c[i][k]] = i
    /\ \A k \in 0..n[i] : k < n[i] => next[c[i][k]] = c[i][k + 1]
    /\ next[c[i][n[i]]] \in {Null, Linking}
    /\ \A k, l \in 0..n[i] : c[i][k] = c[i][l] => k = l
\* A node that looks like a last one is the last one.
IsEnd(c, n, m) == next[m] = Null /\ qid[m] \in Queues => m = c[qid[m]][n[qid[m]]]
Chained(c, n) == (\A i \in Queues : Chain(c, n, i)) /\ \A m \in Nodes : IsEnd(c, n, m)

\* Thread t has a node that is not linked yet, or not open yet.
Brings(t) == me[t].op = "enq" /\ me[t].pc \in {"tail", "next", "help", "last", "link"}
Owns(t) == Brings(t) \/ me[t].pc = "open"

Brought(c, n) ==
    \A t \in Threads :
        /\ Owns(t) => /\ next[me[t].new] = Linking /\ qid[me[t].new] = me[t].q
                      /\ \A u \in Threads : Owns(u) /\ me[u].new = me[t].new => u = t
        /\ Brings(t) => ~Linked(c, n, me[t].new)
        /\ me[t].pc = "open" => me[t].new = c[me[t].q][n[me[t].q]]

\* A node of the pool is there once and nowhere else; nor is one never allocated.
Spare(c, n, m) == ~Linked(c, n, m) /\ \A t \in Threads : Owns(t) => me[t].new # m
PoolApart(c, n) ==
    /\ \A k \in 1..Len(pool) :
        /\ Spare(c, n, pool[k]) /\ pool[k] \notin unused
        /\ \A l \in 1..Len(pool) : pool[k] = pool[l] => k = l
    /\ \A m \in unused : Spare(c, n, m)

\* What a thread has in its local variables where it uses them.
Places ==
    \A t \in Threads :
        /\ me[t].pc # "idle" => me[t].q \in Queues
        /\ me[t].pc \in {"next", "help", "link"} => me[t].tail \in Nodes
        /\ me[t].pc = "help" => me[t].next \in Nodes
        /\ me[t].pc \in {"last", "link", "open", "swing"} => me[t].op = "enq"
        /\ me[t].op = "enq" => me[t].new \in Nodes
        /\ me[t].pc \in {"first", "check", "take"} => me[t].head \in Nodes
        /\ me[t].pc = "take" => me[t].next \in Nodes

\* Whose copy of m_pHead is fresh has the dummy node and, once read, its next.
Snapshot(t) ==
    /\ me[t].pc \in {"first", "check", "take"} /\ me[t].head = head[me[t].q]
    /\ me[t].pc \in {"check", "take"} /\ me[t].next \in Nodes => next[me[t].head] = me[t].next
    /\ me[t].pc = "check" /\ me[t].next \notin Nodes => me[t].empty
    /\ me[t].pc = "take" => me[t].temp = data[me[t].next]
Snapshots == \A t \in headFresh : Snapshot(t)

\* A chain for every queue.
Chains == [Queues -> [Nat -> Nodes]]
Shape(c, n) == Chained(c, n) /\ Brought(c, n) /\ PoolApart(c, n)
Shaped == \E c \in Chains, n \in [Queues -> Nat] : Shape(c, n)

IInv == TypeOK /\ Places /\ Snapshots /\ Shaped

USE DEF nodes, free, heads, tails, calls, vars, At, Goto

-----------------------------------------------------------------------------
(* What each step does to the thread that takes it *)

MeRec == [pc : PCs, op : {"none", "enq", "deq"}, q : Queues \cup {Null},
          new : Nodes \cup {Null}, tail : Nodes \cup {Null}, head : Nodes \cup {Null},
          next : Ptr, temp : Values, empty : BOOLEAN]

Others(t) == me' \in [Threads -> MeRec] /\ \A u \in Threads : u # t => me'[u] = me[u]
SameCall(t) == me'[t].op = me[t].op /\ me'[t].q = me[t].q /\ me'[t].new = me[t].new
SameTailCopy(t) == me'[t].tail = me[t].tail
SameRead(t) == me'[t].head = me[t].head /\ me'[t].temp = me[t].temp /\ me'[t].empty = me[t].empty
SameNext(t) == me'[t].next = me[t].next
Moves(t, place) == Others(t) /\ me'[t].pc = place /\ SameCall(t)
Rests(t) == Others(t) /\ me'[t] = Idle

\* The types of the variables and what is assumed of the constants.
LEMMA TypeFacts ==
  ASSUME TypeOK, Places
  PROVE  /\ next \in [Nodes -> Ptr] /\ qid \in [Nodes -> Queues \cup {Null}] /\ data \in [Nodes -> Values]
         /\ pool \in Seq(Nodes) /\ unused \subseteq Nodes
         /\ head \in [Queues -> Nodes] /\ tail \in [Queues -> Nodes] /\ me \in [Threads -> MeRec]
         /\ headFresh \subseteq Threads /\ tailFresh \subseteq Threads
         /\ Null \notin Nodes /\ Linking \notin Nodes /\ Null # Linking /\ Null \notin Queues
         /\ Ptr = Nodes \cup {Null, Linking}
         /\ enqs \in Nat /\ MaxEnq \in Nat /\ MaxDeq \in Nat
         /\ \A t \in Threads :
              /\ me[t].pc # "idle" => me[t].q \in Queues
              /\ me[t].pc \in {"next", "help", "link"} => me[t].tail \in Nodes
              /\ me[t].pc = "help" => me[t].next \in Nodes
              /\ me[t].pc \in {"last", "link", "open", "swing"} => me[t].op = "enq"
              /\ me[t].op = "enq" => me[t].new \in Nodes
              /\ me[t].pc \in {"first", "check", "take"} => me[t].head \in Nodes
              /\ me[t].pc = "take" => me[t].next \in Nodes
BY NotNodes, NotQueue, Calls DEF TypeOK, Places, MeRec, Ptr

\* A thread outside of every call.
LEMMA IdleFields ==
  /\ Idle \in MeRec /\ Idle.pc = "idle" /\ Idle.op = "none" /\ Idle.q = Null /\ Idle.new = Null
  /\ Idle.tail = Null /\ Idle.head = Null /\ Idle.next = Null /\ Idle.temp = 0 /\ ~Idle.empty
BY Calls DEF Idle, MeRec, PCs, Ptr, Values

\* A step that changes the place of its thread only.
LEMMA GotoMoves ==
  ASSUME TypeOK, Places, NEW t \in Threads, NEW place \in PCs, Goto(t, place)
  PROVE  Moves(t, place) /\ SameRead(t) /\ SameNext(t) /\ SameTailCopy(t)
<1>1. me \in [Threads -> MeRec] /\ me[t] \in MeRec
  BY TypeFacts
<1>2. me'[t] = [me[t] EXCEPT !.pc = place] /\ \A u \in Threads : u # t => me'[u] = me[u]
  BY <1>1
<1>3. /\ me'[t].pc = place /\ SameCall(t)
      /\ SameRead(t) /\ SameNext(t) /\ SameTailCopy(t)
  BY <1>1, <1>2 DEF MeRec, SameCall, SameTailCopy, SameRead, SameNext
<1>4. me'[t] \in MeRec
  BY <1>1, <1>2 DEF MeRec
<1>5. me' \in [Threads -> MeRec]
  BY <1>1, <1>2, <1>4
<1> QED
  BY <1>2, <1>3, <1>5 DEF Others, Moves

\* localTail is m_pTail.
LEMMA LoopTailMoves ==
  ASSUME TypeOK, Places, NEW t \in Threads, LoopTail(t)
  PROVE  /\ me[t].pc = "tail" /\ Moves(t, "next") /\ SameRead(t) /\ SameNext(t)
         /\ me'[t].tail \in Nodes
         /\ tail' = tail /\ tailFresh' = tailFresh \cup {t}
         /\ UNCHANGED <<nodes, free, heads, calls, out>>
BY TypeFacts DEF LoopTail, CopyTail, MeRec, PCs, Others, SameCall, SameRead, SameNext, Moves

\* The next of the node that m_pTail named decides where to go.
LEMMA LoopNextMoves ==
  ASSUME TypeOK, Places, NEW t \in Threads, LoopNext(t)
  PROVE  /\ me[t].pc = "next" /\ SameRead(t) /\ SameTailCopy(t)
         /\ \/ Moves(t, "help") /\ me'[t].next \in Nodes
            \/ Moves(t, "tail")
            \/ Moves(t, "last") /\ me[t].op = "enq"
            \/ Moves(t, "head") /\ me[t].op # "enq"
         /\ UNCHANGED <<nodes, free, heads, tails, calls, out>>
<1>1. PICK n, place :
         /\ n = next[me[t].tail]
         /\ place = (IF n = Null THEN (IF me[t].op = "enq" THEN "last" ELSE "head")
                     ELSE IF n = Linking THEN "tail" ELSE "help")
         /\ me' = [me EXCEPT ![t].next = n, ![t].pc = place]
  BY DEF LoopNext
<1>2. me[t].pc = "next" /\ UNCHANGED <<nodes, free, heads, tails, calls, out>>
  BY DEF LoopNext
<1>3. n \in Ptr /\ place \in PCs /\ me \in [Threads -> MeRec] /\ (place = "help" => n \in Nodes)
  BY <1>1, <1>2, TypeFacts DEF PCs, Ptr
<1>4. /\ Others(t) /\ me'[t].pc = place /\ me'[t].next = n
      /\ SameCall(t) /\ SameTailCopy(t) /\ SameRead(t)
  <2>1. me'[t] = [me[t] EXCEPT !.next = n, !.pc = place] /\ \A u \in Threads : u # t => me'[u] = me[u]
    BY <1>1, <1>3
  <2>2. me[t] \in MeRec
    BY <1>3
  <2>3. me'[t].pc = place /\ me'[t].next = n /\ SameCall(t) /\ SameTailCopy(t) /\ SameRead(t)
    BY <2>1, <2>2 DEF MeRec, SameCall, SameTailCopy, SameRead
  <2>4. me'[t] \in MeRec
    BY <1>3, <2>1, <2>2 DEF MeRec
  <2>5. me' \in [Threads -> MeRec]
    BY <1>1, <1>3, <2>1, <2>4
  <2> QED
    BY <2>1, <2>3, <2>5 DEF Others
<1> QED
  BY <1>1, <1>2, <1>3, <1>4 DEF Moves

\* m_pTail is moved up, unless it was written meanwhile.
LEMMA LoopHelpMoves ==
  ASSUME TypeOK, Places, NEW t \in Threads, LoopHelp(t)
  PROVE  /\ me[t].pc = "help" /\ Moves(t, "tail") /\ SameRead(t) /\ SameNext(t) /\ SameTailCopy(t)
         /\ tail' \in [Queues -> Nodes] /\ tailFresh' \subseteq tailFresh
         /\ UNCHANGED <<nodes, free, heads, calls, out>>
<1>1. Goto(t, "tail") /\ me[t].pc = "help" /\ UNCHANGED <<nodes, free, heads, calls, out>>
  BY DEF LoopHelp
<1>2. Moves(t, "tail") /\ SameRead(t) /\ SameNext(t) /\ SameTailCopy(t)
  BY <1>1, GotoMoves DEF PCs
<1>3. tail' \in [Queues -> Nodes] /\ tailFresh' \subseteq tailFresh
  BY <1>1, TypeFacts DEF LoopHelp, SetTail
<1> QED
  BY <1>1, <1>2, <1>3

\* Enqueue reads m_pTail again.
LEMMA ReadLastMoves ==
  ASSUME TypeOK, Places, NEW t \in Threads, ReadLast(t)
  PROVE  /\ me[t].pc = "last" /\ Moves(t, "link") /\ SameRead(t) /\ SameNext(t)
         /\ me'[t].tail \in Nodes
         /\ tail' = tail /\ tailFresh' = tailFresh \cup {t}
         /\ UNCHANGED <<nodes, free, heads, calls, out>>
BY TypeFacts DEF ReadLast, CopyTail, MeRec, PCs, Others, SameCall, SameRead, SameNext, Moves

\* The CAS of 128 bits links the new node behind a last node of the queue.
LEMMA LinkMoves ==
  ASSUME TypeOK, Places, NEW t \in Threads, Link(t)
  PROVE  /\ me[t].pc = "link" /\ SameRead(t) /\ SameNext(t) /\ SameTailCopy(t)
         /\ \/ /\ Moves(t, "open") /\ IsLast(t)
               /\ next' = [next EXCEPT ![me[t].tail] = me[t].new]
            \/ Moves(t, "last") /\ next' = next
         /\ UNCHANGED <<qid, data, free, heads, tails, calls, out>>
<1>1. /\ me[t].pc = "link" /\ UNCHANGED <<qid, data, free, heads, tails, calls, out>>
      /\ \/ IsLast(t) /\ next' = [next EXCEPT ![me[t].tail] = me[t].new] /\ Goto(t, "open")
         \/ Goto(t, "last") /\ next' = next
  BY DEF Link
<1>2. ASSUME NEW place \in {"open", "last"}, Goto(t, place)
      PROVE  Moves(t, place) /\ SameRead(t) /\ SameNext(t) /\ SameTailCopy(t)
  BY <1>2, GotoMoves DEF PCs
<1> QED
  BY <1>1, <1>2

\* The new node is the last one now.
LEMMA OpenMoves ==
  ASSUME TypeOK, Places, NEW t \in Threads, Open(t)
  PROVE  /\ me[t].pc = "open" /\ Moves(t, "swing") /\ SameRead(t) /\ SameNext(t) /\ SameTailCopy(t)
         /\ next' = [next EXCEPT ![me[t].new] = Null]
         /\ UNCHANGED <<qid, data, free, heads, tails, calls, out>>
BY TypeFacts DEF Open, MeRec, PCs, Others, SameCall, SameTailCopy, SameRead, SameNext, Moves

\* m_pTail is moved to the new node, unless it was written meanwhile.
LEMMA SwingMoves ==
  ASSUME TypeOK, Places, NEW t \in Threads, Swing(t)
  PROVE  /\ me[t].pc = "swing" /\ Rests(t)
         /\ tail' \in [Queues -> Nodes] /\ tailFresh' \subseteq tailFresh
         /\ UNCHANGED <<nodes, free, heads, calls, out>>
BY TypeFacts, IdleFields DEF Swing, SetTail, Return, MeRec, PCs, Others, Rests

\* localHead is m_pHead.
LEMMA ReadHeadMoves ==
  ASSUME TypeOK, Places, NEW t \in Threads, ReadHead(t)
  PROVE  /\ me[t].pc = "head" /\ Moves(t, "first") /\ me'[t].head = head[me[t].q]
         /\ headFresh' = headFresh \cup {t} /\ tailFresh' = tailFresh \ {t}
         /\ UNCHANGED <<nodes, free, head, tail, calls, out>>
<1> DEFINE h == head[me[t].q]
<1>1. /\ me[t].pc = "head" /\ me[t] \in MeRec /\ h \in Nodes /\ me \in [Threads -> MeRec]
  BY TypeFacts DEF ReadHead
<1>2. /\ me' = [me EXCEPT ![t].head = h, ![t].pc = "first"]
      /\ headFresh' = headFresh \cup {t} /\ tailFresh' = tailFresh \ {t}
      /\ UNCHANGED <<nodes, free, head, tail, calls, out>>
  BY DEF ReadHead
<1> HIDE DEF h
<1>3. Moves(t, "first") /\ me'[t].head = h
  BY <1>1, <1>2 DEF MeRec, PCs, Others, SameCall, Moves
<1> QED
  BY <1>1, <1>2, <1>3 DEF h

\* Dequeue reads the next of the node it has for the dummy.
LEMMA ReadFirstMoves ==
  ASSUME TypeOK, Places, NEW t \in Threads, ReadFirst(t)
  PROVE  /\ me[t].pc = "first" /\ Moves(t, "check") /\ me'[t].head = me[t].head
         /\ me'[t].next = next[me[t].head] /\ me'[t].empty = (Contents(me[t].q) = <<>>)
         /\ UNCHANGED <<nodes, free, heads, tails, calls, out>>
<1> DEFINE e == Contents(me[t].q) = <<>>
           m == next[me[t].head]
<1>1. /\ me[t].pc = "first" /\ me[t] \in MeRec /\ m \in Ptr /\ me \in [Threads -> MeRec]
  BY TypeFacts DEF ReadFirst
<1>2. /\ me' = [me EXCEPT ![t].next = m, ![t].pc = "check", ![t].empty = e]
      /\ UNCHANGED <<nodes, free, heads, tails, calls, out>>
  BY DEF ReadFirst
<1>3. e \in BOOLEAN
  OBVIOUS
<1> HIDE DEF e, m
<1>4. Moves(t, "check") /\ me'[t].next = m /\ me'[t].head = me[t].head
  BY <1>1, <1>2, <1>3 DEF MeRec, PCs, Others, SameCall, Moves
<1>5. me'[t].empty = e
  BY <1>1, <1>2 DEF MeRec
<1> QED
  BY <1>1, <1>2, <1>4, <1>5 DEF e, m

\* m_pHead was written, the queue is empty, or the first item is read.
LEMMA CheckMoves ==
  ASSUME TypeOK, Places, NEW t \in Threads, Check(t)
  PROVE  /\ me[t].pc = "check"
         /\ \/ t \notin headFresh /\ Moves(t, "head") /\ headFresh' = headFresh
            \/ /\ t \in headFresh /\ me[t].next \notin Nodes /\ Rests(t)
               /\ headFresh' = headFresh \ {t}
            \/ /\ t \in headFresh /\ me[t].next \in Nodes /\ Moves(t, "take")
               /\ me'[t].head = me[t].head /\ me'[t].next = me[t].next
               /\ me'[t].temp = data[me[t].next] /\ headFresh' = headFresh
         /\ UNCHANGED <<nodes, free, head, tails, calls, out>>
<1>1. /\ me[t].pc = "check" /\ me[t] \in MeRec /\ me \in [Threads -> MeRec]
      /\ UNCHANGED <<nodes, free, head, tails, calls, out>>
  BY TypeFacts DEF Check
<1>2. CASE t \notin headFresh /\ Goto(t, "head") /\ headFresh' = headFresh
  BY <1>1, <1>2 DEF MeRec, PCs, Others, SameCall, Moves
<1>3. CASE t \in headFresh /\ me[t].next \notin Nodes /\ Return(t) /\ headFresh' = headFresh \ {t}
  BY <1>1, <1>3, IdleFields DEF Return, Rests, Others
<1>4. CASE /\ t \in headFresh /\ me[t].next \in Nodes /\ headFresh' = headFresh
           /\ me' = [me EXCEPT ![t].temp = data[me[t].next], ![t].pc = "take"]
  <2>1. data[me[t].next] \in Values
    BY <1>4, TypeFacts
  <2> QED
    BY <1>1, <1>4, <2>1 DEF MeRec, PCs, Others, SameCall, Moves
<1> QED
  BY <1>1, <1>2, <1>3, <1>4 DEF Check, SameHead

\* The CAS of m_pHead makes the first node the dummy and frees the one before it.
LEMMA TakeMoves ==
  ASSUME TypeOK, Places, NEW t \in Threads, Take(t)
  PROVE  /\ me[t].pc = "take"
         /\ \/ /\ t \in headFresh /\ Rests(t)
               /\ head' = [head EXCEPT ![me[t].q] = me[t].next]
               /\ headFresh' = {u \in headFresh : me[u].q # me[t].q}
               /\ out' = [out EXCEPT ![me[t].q] = Append(@, me[t].temp)]
               /\ pool' = <<me[t].head>> \o pool
            \/ t \notin headFresh /\ Moves(t, "head") /\ UNCHANGED <<heads, out, pool>>
         /\ UNCHANGED <<nodes, unused, tails, calls>>
<1>1. /\ me[t].pc = "take" /\ me[t] \in MeRec /\ me \in [Threads -> MeRec]
      /\ UNCHANGED <<nodes, unused, tails, calls>>
  BY TypeFacts DEF Take
<1>2. CASE t \in headFresh
  BY <1>1, <1>2, IdleFields DEF Take, SetHead, Return, Rests, Others
<1>3. CASE t \notin headFresh
  <2>1. Goto(t, "head") /\ UNCHANGED <<heads, out, pool>>
    BY <1>3 DEF Take
  <2> QED
    BY <1>1, <1>3, <2>1 DEF MeRec, PCs, Others, SameCall, Moves
<1> QED
  BY <1>2, <1>3

\* Alloc takes a node out of the pool, or one that was never allocated.
Allocs(m) ==
    \/ pool # <<>> /\ m = Head(pool) /\ pool' = Tail(pool) /\ unused' = unused
    \/ m \in unused /\ unused' = unused \ {m} /\ pool' = pool

\* Enqueue begins with a new node.
LEMMA CallEnqueueMoves ==
  ASSUME TypeOK, Places, NEW t \in Threads, NEW i \in Queues, CallEnqueue(t, i)
  PROVE  /\ me[t].pc = "idle" /\ enqs < MaxEnq /\ enqs' = enqs + 1
         /\ \E m \in Nodes :
              /\ Allocs(m)
              /\ data' = [data EXCEPT ![m] = enqs + 1] /\ next' = [next EXCEPT ![m] = Linking]
              /\ qid' = [qid EXCEPT ![m] = i]
              /\ Others(t) /\ me'[t].pc = "tail" /\ me'[t].op = "enq" /\ me'[t].q = i /\ me'[t].new = m
         /\ UNCHANGED <<heads, tails, deqs, out>>
<1>1. /\ me[t].pc = "idle" /\ enqs < MaxEnq /\ enqs' = enqs + 1 /\ me \in [Threads -> MeRec]
      /\ UNCHANGED <<heads, tails, deqs, out>>
  BY TypeFacts DEF CallEnqueue
<1>2. PICK m \in Nodes :
        /\ Allocs(m)
        /\ data' = [data EXCEPT ![m] = enqs + 1] /\ next' = [next EXCEPT ![m] = Linking]
        /\ qid' = [qid EXCEPT ![m] = i]
        /\ me' = [me EXCEPT ![t] = [Idle EXCEPT !.pc = "tail", !.op = "enq", !.q = i, !.new = m]]
  BY DEF CallEnqueue, Alloc, Allocs, FirstNext
<1>3. Others(t) /\ me'[t].pc = "tail" /\ me'[t].op = "enq" /\ me'[t].q = i /\ me'[t].new = m
  BY <1>1, <1>2, IdleFields DEF Others, MeRec, PCs
<1> QED
  BY <1>1, <1>2, <1>3

\* Dequeue begins.
LEMMA CallDequeueMoves ==
  ASSUME TypeOK, Places, NEW t \in Threads, NEW i \in Queues, CallDequeue(t, i)
  PROVE  /\ me[t].pc = "idle" /\ deqs < MaxDeq /\ deqs' = deqs + 1
         /\ Others(t) /\ me'[t].pc = "tail" /\ me'[t].op = "deq" /\ me'[t].q = i
         /\ UNCHANGED <<nodes, free, heads, tails, enqs, out>>
BY TypeFacts, IdleFields DEF CallDequeue, Idle, Ptr, Values, MeRec, PCs, Others

-----------------------------------------------------------------------------
(* What each step does to the chains *)

\* What a chain consists of, node by node.
LEMMA ChainFacts ==
  ASSUME NEW c \in Chains, NEW n \in [Queues -> Nat], Chained(c, n), NEW i \in Queues
  PROVE  /\ n[i] \in Nat /\ c[i] \in [Nat -> Nodes] /\ c[i][0] = head[i]
         /\ \A k \in 0..n[i] : /\ c[i][k] \in Nodes /\ qid[c[i][k]] = i /\ Linked(c, n, c[i][k])
                               /\ k < n[i] => next[c[i][k]] = c[i][k + 1]
         /\ next[c[i][n[i]]] \in {Null, Linking}
         /\ \A k, l \in 0..n[i] : c[i][k] = c[i][l] => k = l
BY DEF Chains, Chained, Chain, Linked

\* The items of a queue are the data of the nodes after the dummy node.
LEMMA ItemsOfChain ==
  ASSUME NEW c \in Chains, NEW n \in [Queues -> Nat], NEW i \in Queues
  PROVE  /\ Chained(c, n) => Contents(i) = [k \in 1..n[i] |-> data[c[i][k]]]
         /\ Chained(c, n)' => Contents(i)' = [k \in 1..n[i] |-> data'[c[i][k]]]
<1> DEFINE f == c[i]
           m == n[i]
<1>1. m \in Nat /\ (\A k \in 0..m : f[k] \in Nodes) /\ Null \notin Nodes /\ Linking \notin Nodes
  BY NotNodes DEF Chains
<1>2. ASSUME Chained(c, n) PROVE Contents(i) = [k \in 1..m |-> data[f[k]]]
  <2>1. Follows(next, f, m) /\ f[0] = head[i]
    BY <1>1, <1>2 DEF Follows, Chained, Chain
  <2> HIDE DEF f, m
  <2>2. m \in Nat /\ Follows(next, f, m)
    BY <1>1, <2>1
  <2>3. ItemsOf(next, data, f[0]) = [k \in 1..m |-> data[f[k]]]
    BY ONLY <2>2, ItemsFollow
  <2> QED
    BY <2>1, <2>3, ContentsOf
<1>3. ASSUME Chained(c, n)' PROVE Contents(i)' = [k \in 1..m |-> data'[f[k]]]
  <2>1. Follows(next', f, m) /\ f[0] = head'[i]
    BY <1>1, <1>3 DEF Follows, Chained, Chain
  <2> HIDE DEF f, m
  <2>2. m \in Nat /\ Follows(next', f, m)
    BY <1>1, <2>1
  <2>3. ItemsOf(next', data', f[0]) = [k \in 1..m |-> data'[f[k]]]
    BY ONLY <2>2, ItemsFollow
  <2> QED
    BY <2>1, <2>3, ContentsOf
<1> QED
  BY <1>2, <1>3

\* Append, for a sequence that is given by its elements.
LEMMA AppendOf ==
  ASSUME NEW S, NEW m \in Nat, NEW s \in [1..m -> S], NEW x \in S
  PROVE  /\ s \in Seq(S) /\ Len(s) = m
         /\ Append(s, x) = [k \in 1..(m + 1) |-> IF k <= m THEN s[k] ELSE x]
<1>1. s \in Seq(S) /\ Len(s) = m
  OBVIOUS
<1>2. /\ Append(s, x) \in Seq(S) /\ Len(Append(s, x)) = m + 1
      /\ \A k \in 1..m : Append(s, x)[k] = s[k]
      /\ Append(s, x)[m + 1] = x
  BY <1>1, AppendProperties
<1>3. DOMAIN Append(s, x) = 1..(m + 1) /\ Append(s, x) \in [1..(m + 1) -> S]
  BY <1>2, LenProperties
<1>4. \A k \in 1..(m + 1) : Append(s, x)[k] = IF k <= m THEN s[k] ELSE x
  BY <1>2
<1> QED
  BY <1>1, <1>3, <1>4

\* The new node of a thread.
LEMMA OwnFacts ==
  ASSUME TypeOK, Places, NEW t \in Threads, Owns(t)
  PROVE  me[t].new \in Nodes /\ me[t].q \in Queues /\ me[t].op = "enq" /\ me[t].pc # "idle"
BY TypeFacts DEF Owns, Brings

\* A step that gets thread t no node: what it had, it has, or has done with.
Quiet(t) ==
    /\ Others(t)
    /\ \/ ~Owns(t)'
       \/ SameCall(t) /\ (Brings(t)' => Brings(t)) /\ (me'[t].pc = "open" => me[t].pc = "open")

\* Such a step leaves the chains as they are.
LEMMA QuietKeeps ==
  ASSUME NEW c \in Chains, NEW n \in [Queues -> Nat], Shape(c, n),
         NEW t \in Threads, Quiet(t), UNCHANGED <<next, qid, pool, unused, head>>
  PROVE  Shape(c, n)'
<1>1. Chained(c, n)'
  BY DEF Shape, Chained, Chain, IsEnd
<1>2. \A m : Linked(c, n, m)' <=> Linked(c, n, m)
  BY DEF Linked
<1>3. \A u \in Threads : /\ Owns(u)' => Owns(u) /\ me'[u].new = me[u].new /\ me'[u].q = me[u].q
                         /\ Brings(u)' => Brings(u)
                         /\ me'[u].pc = "open" => me[u].pc = "open" /\ Owns(u)'
  BY DEF Quiet, Others, SameCall, Owns, Brings
<1>4. Brought(c, n)'
  <2>1. \A u \in Threads : Owns(u)' => next'[me'[u].new] = Linking /\ qid'[me'[u].new] = me'[u].q
    BY <1>3 DEF Shape, Brought
  <2>2. \A u, v \in Threads : Owns(u)' /\ Owns(v)' /\ me'[v].new = me'[u].new => v = u
    BY <1>3 DEF Shape, Brought
  <2>3. \A u \in Threads : Brings(u)' => ~Linked(c, n, me[u].new)'
    BY <1>2, <1>3 DEF Shape, Brought, Owns
  <2>4. \A u \in Threads : me'[u].pc = "open" => me'[u].new = c[me'[u].q][n[me'[u].q]]
    BY <1>3 DEF Shape, Brought
  <2> QED
    BY <2>1, <2>2, <2>3, <2>4 DEF Brought
<1>5. PoolApart(c, n)'
  BY <1>2, <1>3 DEF Shape, PoolApart, Spare
<1> QED
  BY <1>1, <1>4, <1>5 DEF Shape

\* The steps that link, open and free no node.
LEMMA QuietSteps ==
  ASSUME TypeOK, Places, NEW t \in Threads,
         \/ LoopTail(t) \/ LoopNext(t) \/ LoopHelp(t) \/ ReadLast(t) \/ Swing(t)
         \/ ReadHead(t) \/ ReadFirst(t) \/ Check(t)
         \/ (Link(t) /\ ~IsLast(t)) \/ (Take(t) /\ t \notin headFresh)
         \/ (\E i \in Queues : CallDequeue(t, i))
  PROVE  Quiet(t) /\ UNCHANGED <<next, qid, data, pool, unused, head, out>>
<1>1. ASSUME NEW p, NEW r, me[t].pc = p, Moves(t, r), r # "open", p # "open",
             p \in {"tail", "next", "help", "last", "link", "head", "first", "check", "take"},
             r \in {"tail", "next", "help", "last", "link"} => p \in {"tail", "next", "help", "last", "link"}
      PROVE  Quiet(t)
  BY <1>1 DEF Quiet, Moves, SameCall, Owns, Brings
<1>2. ASSUME Rests(t) PROVE Quiet(t)
  BY <1>2, IdleFields DEF Quiet, Rests, Others, Owns, Brings
<1>3. CASE LoopTail(t)
  BY <1>1, <1>3, LoopTailMoves
<1>4. CASE LoopNext(t)
  BY <1>1, <1>4, LoopNextMoves
<1>5. CASE LoopHelp(t)
  BY <1>1, <1>5, LoopHelpMoves
<1>6. CASE ReadLast(t)
  BY <1>1, <1>6, ReadLastMoves
<1>7. CASE Swing(t)
  BY <1>2, <1>7, SwingMoves
<1>8. CASE ReadHead(t)
  BY <1>1, <1>8, ReadHeadMoves
<1>9. CASE ReadFirst(t)
  BY <1>1, <1>9, ReadFirstMoves
<1>10. CASE Check(t)
  BY <1>1, <1>2, <1>10, CheckMoves
<1>11. CASE Link(t) /\ ~IsLast(t)
  BY <1>1, <1>11, LinkMoves
<1>12. CASE Take(t) /\ t \notin headFresh
  BY <1>1, <1>12, TakeMoves
<1>13. CASE \E i \in Queues : CallDequeue(t, i)
  BY <1>13, CallDequeueMoves DEF Quiet, Owns, Brings
<1> QED
  BY <1>3, <1>4, <1>5, <1>6, <1>7, <1>8, <1>9, <1>10, <1>11, <1>12, <1>13

\* The chains once m is linked to that of queue i.
Longer(c, n, i, m) == [c EXCEPT ![i] = [c[i] EXCEPT ![n[i] + 1] = m]]

\* Link puts the new node behind the last one.
LEMMA LinkKeeps ==
  ASSUME TypeOK, Places, NEW c \in Chains, NEW n \in [Queues -> Nat], Shape(c, n),
         NEW t \in Threads, Link(t), IsLast(t), NEW i, i = me[t].q, NEW m, m = me[t].new,
         NEW c2, c2 = Longer(c, n, i, m), NEW n2, n2 = [n EXCEPT ![i] = @ + 1]
  PROVE  c2 \in Chains /\ n2 \in [Queues -> Nat] /\ Shape(c2, n2)'
<1> DEFINE e == me[t].tail
<1>1. /\ me[t].pc = "link" /\ next' = [next EXCEPT ![e] = m] /\ Moves(t, "open")
      /\ UNCHANGED <<qid, data, free, heads, tails, calls, out>>
  <2>1. next' = [next EXCEPT ![e] = m] /\ Goto(t, "open")
    BY DEF Link
  <2>2. me'[t].pc = "open" /\ me[t].pc = "link"
    BY <2>1, TypeFacts DEF Link
  <2> QED
    BY <2>1, <2>2, LinkMoves DEF Moves
<1>2. Brings(t) /\ Owns(t) /\ i \in Queues /\ m \in Nodes /\ e \in Nodes
  BY <1>1, TypeFacts DEF Brings, Owns
<1>3. e = c[i][n[i]] /\ next[e] = Null /\ qid[e] = i
  BY <1>2 DEF IsLast, Shape, Chained, IsEnd
<1>4. next[m] = Linking /\ qid[m] = i /\ ~Linked(c, n, m) /\ Null # Linking /\ Null \notin Nodes
  BY <1>2, TypeFacts DEF Shape, Brought
<1>5. /\ \A j \in Queues : n[j] \in Nat /\ c[j] \in [Nat -> Nodes]
      /\ c2 \in Chains /\ n2 \in [Queues -> Nat] /\ n2[i] = n[i] + 1
      /\ \A j \in Queues : j # i => c2[j] = c[j] /\ n2[j] = n[j]
      /\ \A k \in 0..n[i] : c2[i][k] = c[i][k]
      /\ c2[i][n[i] + 1] = m
  BY <1>2 DEF Longer, Chains
<1>6. \A j \in Queues : \A k \in 0..n[j] : Linked(c, n, c[j][k]) /\ c[j][k] # m /\ c[j][k] \in Nodes
  BY <1>4, ChainFacts DEF Shape
<1>6a. PICK z \in Nat : z = n[i] /\ n2[i] = z + 1
  BY <1>2, <1>5
<1>6b. /\ \A k : k \in 0..(z + 1) <=> k \in 0..z \/ k = z + 1
       /\ \A k \in 0..z : k < z \/ k = z
       /\ z + 1 \notin 0..z /\ z \in 0..z /\ ~(z + 1 < z + 1)
  BY ONLY z \in Nat
<1>6c. /\ \A k \in 0..z : c2[i][k] = c[i][k] /\ c[i][k] # m
       /\ c2[i][z + 1] = m /\ c2[i][z] = e /\ c[i][z] = e
  BY <1>2, <1>3, <1>5, <1>6, <1>6a, <1>6b
<1>7. /\ e # m /\ next'[e] = m /\ next'[m] = Linking
      /\ \A x \in Nodes : x # e => next'[x] = next[x]
      /\ next \in [Nodes -> Ptr]
  BY <1>1, <1>2, <1>3, <1>4, TypeFacts
<1>8. \A x \in Nodes : Linked(c2, n2, x)' <=> Linked(c, n, x) \/ x = m
  <2> SUFFICES ASSUME NEW x \in Nodes PROVE Linked(c2, n2, x)' <=> Linked(c, n, x) \/ x = m
    OBVIOUS
  <2>1. CASE qid[x] # i
    <3>1. qid' = qid /\ x # m
      BY <1>1, <1>4, <2>1
    <3>2. qid[x] \in Queues => c2[qid[x]] = c[qid[x]] /\ n2[qid[x]] = n[qid[x]]
      BY <1>5, <2>1
    <3> QED
      BY <3>1, <3>2 DEF Linked
  <2>2. CASE qid[x] = i
    <3>1. (\E k \in 0..(z + 1) : x = c2[i][k]) <=> (\E k \in 0..z : x = c[i][k]) \/ x = m
      BY ONLY <1>6b, <1>6c
    <3>2. (\E k \in 0..n2[i] : x = c2[i][k]) <=> (\E k \in 0..n[i] : x = c[i][k]) \/ x = m
      BY <1>6a, <3>1
    <3> QED
      BY <1>1, <1>2, <2>2, <3>2 DEF Linked
  <2> QED
    BY <2>1, <2>2
<1>9. Chained(c2, n2)'
  <2>1. ASSUME NEW j \in Queues, j # i PROVE Chain(c2, n2, j)'
    <3>1. c2[j] = c[j] /\ n2[j] = n[j]
      BY <1>5, <2>1
    <3>2. n[j] \in 0..n[j]
      BY <1>5
    <3>3. Chain(c, n, j)
      BY DEF Shape, Chained
    <3>4. \A k \in 0..n[j] : c[j][k] # e /\ c[j][k] \in Nodes
      <4>1. \A k \in 0..n[j] : qid[c[j][k]] = j
        BY <3>3 DEF Chain
      <4> QED
        BY <1>3, <1>6, <2>1, <4>1
    <3>5. \A k \in 0..n[j] : next'[c[j][k]] = next[c[j][k]]
      BY <1>7, <3>4
    <3>6. head' = head /\ qid' = qid
      BY <1>1
    <3>7. /\ c[j][0] = head'[j]
          /\ \A k \in 0..n[j] : qid'[c[j][k]] = j
          /\ \A k \in 0..n[j] : k < n[j] => next'[c[j][k]] = c[j][k + 1]
          /\ next'[c[j][n[j]]] \in {Null, Linking}
          /\ \A k, l \in 0..n[j] : c[j][k] = c[j][l] => k = l
      BY <3>2, <3>3, <3>5, <3>6 DEF Chain
    <3> QED
      BY <3>1, <3>7 DEF Chain
  <2>2. c2[i][0] = head'[i]
    BY <1>1, <1>2, <1>5 DEF Shape, Chained, Chain
  <2>3. ASSUME NEW k \in 0..n2[i]
        PROVE  qid'[c2[i][k]] = i /\ (k < n2[i] => next'[c2[i][k]] = c2[i][k + 1])
    <3>1. CASE k < n[i]
      <4>1. k \in 0..n[i] /\ k + 1 \in 0..n[i] /\ n[i] \in 0..n[i] /\ k # n[i]
        BY <1>2, <1>5, <3>1
      <4>2. c[i][k] \in Nodes /\ qid[c[i][k]] = i /\ next[c[i][k]] = c[i][k + 1]
        BY <1>2, <3>1, <4>1, ChainFacts DEF Shape
      <4>3. \A a, b \in 0..n[i] : c[i][a] = c[i][b] => a = b
        BY <1>2 DEF Shape, Chained, Chain
      <4>4. c[i][k] # e
        BY <1>3, <4>1, <4>3
      <4> QED
        <5>1. c2[i][k] = c[i][k] /\ c2[i][k + 1] = c[i][k + 1]
          BY <1>5, <4>1
        <5>2. qid' = qid /\ next'[c[i][k]] = next[c[i][k]]
          BY <1>1, <1>7, <4>2, <4>4
        <5> QED
          BY <4>2, <5>1, <5>2
    <3>2. CASE k = n[i]
      <4>1. c2[i][k] = e /\ c2[i][k + 1] = m
        BY <1>6a, <1>6c, <3>2
      <4> QED
        BY <1>1, <1>3, <1>7, <4>1
    <3>3. CASE k = n[i] + 1
      <4>1. c2[i][k] = m /\ ~(k < n2[i])
        BY <1>6a, <1>6b, <1>6c, <3>3
      <4> QED
        BY <1>1, <1>4, <4>1
    <3>4. k < n[i] \/ k = n[i] \/ k = n[i] + 1
      BY <1>6a, <1>6b
    <3> QED
      BY <3>1, <3>2, <3>3, <3>4
  <2>4. next'[c2[i][n2[i]]] \in {Null, Linking}
    BY <1>5, <1>7
  <2>5. ASSUME NEW k \in 0..n2[i], NEW l \in 0..n2[i], c2[i][k] = c2[i][l] PROVE k = l
    <3>1. /\ k \in 0..z \/ k = z + 1
          /\ l \in 0..z \/ l = z + 1
      BY <1>6a, <1>6b
    <3>2. \A a, b \in 0..z : c[i][a] = c[i][b] => a = b
      BY <1>2, <1>6a DEF Shape, Chained, Chain
    <3> QED
      BY ONLY <1>6c, <2>5, <3>1, <3>2
  <2>6. ASSUME NEW x \in Nodes, next'[x] = Null, qid'[x] \in Queues PROVE x = c2[qid'[x]][n2[qid'[x]]]
    <3>1. x # e /\ x # m /\ next[x] = Null
      BY <1>2, <1>4, <1>7, <2>6
    <3>2. x = c[qid[x]][n[qid[x]]]
      BY <1>1, <2>6, <3>1 DEF Shape, Chained, IsEnd
    <3>3. qid[x] # i
      BY <1>3, <3>1, <3>2
    <3> QED
      BY <1>1, <1>5, <2>6, <3>2, <3>3
  <2>7. Chain(c2, n2, i)'
    BY <2>2, <2>3, <2>4, <2>5 DEF Chain
  <2> QED
    BY <2>1, <2>6, <2>7 DEF Chained, IsEnd
<1>10. /\ \A u \in Threads : u # t => me'[u] = me[u]
       /\ me'[t].pc = "open" /\ me'[t].new = m /\ me'[t].q = i
       /\ \A u \in Threads : Owns(u)' => Owns(u) /\ me'[u].new = me[u].new /\ me'[u].q = me[u].q
       /\ ~Brings(t)'
  BY <1>1, <1>2 DEF Moves, Others, SameCall, Owns, Brings
<1>11. ASSUME NEW u \in Threads, u # t, Owns(u)
       PROVE  me[u].new \in Nodes /\ me[u].new # m /\ me[u].new # e /\ next'[me[u].new] = Linking
  <2>1. me[u].new \in Nodes /\ next[me[u].new] = Linking /\ me[u].new # m
    BY <1>2, <1>11, OwnFacts DEF Shape, Brought
  <2> QED
    BY <1>3, <1>4, <1>7, <2>1
<1>12. Brought(c2, n2)'
  <2>1. ASSUME NEW u \in Threads, Owns(u)'
        PROVE  /\ next'[me'[u].new] = Linking /\ qid'[me'[u].new] = me'[u].q
               /\ \A v \in Threads : Owns(v)' /\ me'[v].new = me'[u].new => v = u
    <3>1. next'[me'[u].new] = Linking
      BY <1>7, <1>10, <1>11, <2>1
    <3> QED
      BY <1>1, <1>10, <2>1, <3>1 DEF Shape, Brought
  <2>2. ASSUME NEW u \in Threads, Brings(u)' PROVE ~Linked(c2, n2, me[u].new)'
    <3>1. u # t /\ Brings(u) /\ Owns(u)
      BY <1>10, <2>2 DEF Brings, Owns
    <3>2. me'[u] = me[u] /\ me[u].new # m /\ me[u].new \in Nodes /\ ~Linked(c, n, me[u].new)
      BY <1>10, <1>11, <3>1 DEF Shape, Brought
    <3> QED
      BY <1>8, <3>2
  <2>3. ASSUME NEW u \in Threads, me'[u].pc = "open" PROVE me'[u].new = c2[me'[u].q][n2[me'[u].q]]
    <3>1. CASE u = t
      BY <1>5, <1>10, <3>1
    <3>2. CASE u # t
      <4>1. me[u].pc = "open" /\ me'[u] = me[u] /\ Owns(u)
        BY <1>10, <2>3, <3>2 DEF Owns
      <4>2. me[u].new = c[me[u].q][n[me[u].q]] /\ me[u].new # e /\ me[u].q \in Queues
        BY <1>11, <3>2, <4>1, OwnFacts DEF Shape, Brought
      <4>3. me[u].q # i
        BY <1>3, <4>2
      <4>4. c2[me[u].q] = c[me[u].q] /\ n2[me[u].q] = n[me[u].q]
        BY <1>5, <4>2, <4>3
      <4> QED
        BY <4>1, <4>2, <4>4
    <3> QED
      BY <3>1, <3>2
  <2> QED
    BY <2>1, <2>2, <2>3 DEF Brought
<1>13. PoolApart(c2, n2)'
  <2>1. ASSUME NEW x \in Nodes, Spare(c, n, x) PROVE Spare(c2, n2, x)'
    <3>1. x # m /\ ~Linked(c, n, x)
      BY <1>2, <2>1 DEF Spare
    <3> QED
      BY <1>8, <1>10, <2>1, <3>1 DEF Spare
  <2>2. pool' = pool /\ unused' = unused /\ unused \subseteq Nodes /\ \A k \in 1..Len(pool) : pool[k] \in Nodes
    BY <1>1, TypeFacts, ElementOfSeq
  <2> QED
    BY <2>1, <2>2 DEF Shape, PoolApart
<1> QED
  BY <1>5, <1>9, <1>12, <1>13 DEF Shape

\* The items are those from before and the data of the new node.
LEMMA LinkAppends ==
  ASSUME TypeOK, Places, Shaped, NEW t \in Threads, Link(t), IsLast(t)
  PROVE  \E i \in Queues, v \in Values :
             /\ Contents(i)' = Append(Contents(i), v)
             /\ \A j \in Queues : j # i => Contents(j)' = Contents(j)
<1>1. PICK c \in Chains, n \in [Queues -> Nat] : Shape(c, n)
  BY DEF Shaped
<1>2. PICK i \in Queues : i = me[t].q
  BY TypeFacts, LinkMoves
<1>3. PICK m \in Nodes : m = me[t].new
  BY TypeFacts, LinkMoves
<1>4. PICK c2 : c2 = Longer(c, n, i, m)
  OBVIOUS
<1>5. PICK n2 : n2 = [n EXCEPT ![i] = @ + 1]
  OBVIOUS
<1>6. c2 \in Chains /\ n2 \in [Queues -> Nat] /\ Shape(c2, n2)'
  BY <1>1, <1>2, <1>3, <1>4, <1>5, LinkKeeps
<1>7. data' = data /\ data[m] \in Values /\ data \in [Nodes -> Values]
  BY TypeFacts, LinkMoves
<1>8. /\ \A j \in Queues : n[j] \in Nat /\ c[j] \in [Nat -> Nodes]
      /\ n2[i] = n[i] + 1
      /\ \A j \in Queues : j # i => c2[j] = c[j] /\ n2[j] = n[j]
      /\ \A k \in 0..n[i] : c2[i][k] = c[i][k]
      /\ c2[i][n[i] + 1] = m
  BY <1>4, <1>5 DEF Longer, Chains
<1>9. \A j \in Queues : /\ Contents(j) = [k \in 1..n[j] |-> data[c[j][k]]]
                        /\ Contents(j)' = [k \in 1..n2[j] |-> data[c2[j][k]]]
  BY <1>1, <1>6, <1>7, ItemsOfChain DEF Shape
<1>10. Contents(i)' = Append(Contents(i), data[m])
  <2> DEFINE s == [k \in 1..n[i] |-> data[c[i][k]]]
  <2>1. s \in [1..n[i] -> Values]
    BY <1>7, <1>8
  <2>2. Append(s, data[m]) = [k \in 1..(n[i] + 1) |-> IF k <= n[i] THEN s[k] ELSE data[m]]
    <3> HIDE DEF s
    <3> QED
      BY <1>7, <1>8, <2>1, AppendOf
  <2>3. ASSUME NEW k \in 1..(n[i] + 1) PROVE data[c2[i][k]] = IF k <= n[i] THEN s[k] ELSE data[m]
    <3>1. CASE k <= n[i]
      <4>1. k \in 1..n[i] /\ k \in 0..n[i]
        BY <1>8, <3>1
      <4> QED
        BY <1>8, <3>1, <4>1
    <3>2. CASE k = n[i] + 1
      <4>1. ~(k <= n[i]) /\ c2[i][k] = m
        BY <1>8, <3>2
      <4> QED
        BY <4>1
    <3> QED
      BY <1>8, <3>1, <3>2
  <2>4. Append(s, data[m]) = [k \in 1..(n[i] + 1) |-> data[c2[i][k]]]
    <3> HIDE DEF s
    <3> QED
      BY <2>2, <2>3
  <2>5. Contents(i)' = [k \in 1..(n[i] + 1) |-> data[c2[i][k]]] /\ Contents(i) = s
    BY <1>8, <1>9
  <2> QED
    BY <2>4, <2>5
<1>11. ASSUME NEW j \in Queues, j # i PROVE Contents(j)' = Contents(j)
  BY <1>8, <1>9, <1>11
<1> QED
  BY <1>7, <1>10, <1>11

\* Open makes the last node one that a node can be linked to.
LEMMA OpenKeeps ==
  ASSUME TypeOK, Places, NEW c \in Chains, NEW n \in [Queues -> Nat], Shape(c, n),
         NEW t \in Threads, Open(t)
  PROVE  Shape(c, n)'
<1>1. PICK i \in Queues, m \in Nodes : i = me[t].q /\ m = me[t].new /\ Owns(t)
  BY TypeFacts, OpenMoves DEF Owns
<1>2. /\ me[t].pc = "open" /\ Moves(t, "swing") /\ next' = [next EXCEPT ![m] = Null]
      /\ UNCHANGED <<qid, data, free, heads, tails, calls, out>>
  BY <1>1, OpenMoves
<1>3. m = c[i][n[i]] /\ qid[m] = i /\ next[m] = Linking /\ Null # Linking
  BY <1>1, <1>2, TypeFacts DEF Shape, Brought
<1>4. next'[m] = Null /\ \A x \in Nodes : x # m => next'[x] = next[x]
  BY <1>1, <1>2, TypeFacts
<1>5. \A x : Linked(c, n, x)' <=> Linked(c, n, x)
  BY <1>2 DEF Linked
<1>6. ASSUME NEW j \in Queues PROVE Chain(c, n, j)'
  <2>1. /\ n[j] \in 0..n[j] /\ Chain(c, n, j) /\ (\A k \in 0..n[j] : c[j][k] \in Nodes)
        /\ next[c[j][n[j]]] \in {Null, Linking}
    BY ChainFacts DEF Shape, Chained
  <2>2. ASSUME NEW k \in 0..n[j], k < n[j] PROVE next'[c[j][k]] = c[j][k + 1]
    <3>1. c[j][k] # m
      <4>1. CASE j = i
        BY <1>3, <2>1, <2>2, <4>1 DEF Chain
      <4>2. CASE j # i
        BY <1>3, <2>1, <4>2 DEF Chain
      <4> QED
        BY <4>1, <4>2
    <3> QED
      BY <1>4, <2>1, <2>2, <3>1 DEF Chain
  <2>3. next'[c[j][n[j]]] \in {Null, Linking}
    BY <1>4, <2>1
  <2> QED
    BY <1>2, <2>1, <2>2, <2>3 DEF Chain
<1>7. ASSUME NEW x \in Nodes PROVE IsEnd(c, n, x)'
  <2>1. CASE x = m
    BY <1>1, <1>2, <1>3, <2>1 DEF IsEnd
  <2>2. CASE x # m
    BY <1>2, <1>4, <2>2 DEF Shape, Chained, IsEnd
  <2> QED
    BY <2>1, <2>2
<1>8. /\ \A u \in Threads : u # t => me'[u] = me[u]
      /\ ~Owns(t)' /\ ~Brings(t)' /\ me'[t].pc # "open"
      /\ \A u \in Threads : /\ Owns(u)' => u # t /\ Owns(u)
                            /\ Brings(u)' => u # t /\ Brings(u)
  BY <1>2 DEF Moves, Others, Owns, Brings
<1>9. ASSUME NEW u \in Threads, u # t, Owns(u) PROVE next'[me[u].new] = Linking
  BY <1>1, <1>4, <1>9, OwnFacts DEF Shape, Brought
<1>10. Brought(c, n)'
  <2>1. ASSUME NEW u \in Threads, Owns(u)'
        PROVE  /\ next'[me'[u].new] = Linking /\ qid'[me'[u].new] = me'[u].q
               /\ \A v \in Threads : Owns(v)' /\ me'[v].new = me'[u].new => v = u
    BY <1>2, <1>8, <1>9, <2>1 DEF Shape, Brought
  <2>2. ASSUME NEW u \in Threads, Brings(u)' PROVE ~Linked(c, n, me[u].new)'
    BY <1>5, <1>8, <2>2 DEF Shape, Brought
  <2>3. ASSUME NEW u \in Threads, me'[u].pc = "open" PROVE me'[u].new = c[me'[u].q][n[me'[u].q]]
    BY <1>8, <2>3 DEF Shape, Brought
  <2> QED
    BY <2>1, <2>2, <2>3 DEF Brought
<1>11. PoolApart(c, n)'
  BY <1>2, <1>5, <1>8 DEF Shape, PoolApart, Spare
<1> QED
  BY <1>6, <1>7, <1>10, <1>11 DEF Shape, Chained

\* The data of linked nodes stay as they are, so do the items.
LEMMA SameItems ==
  ASSUME TypeOK, Places, NEW c \in Chains, NEW n \in [Queues -> Nat], Shape(c, n), Shape(c, n)',
         \A m \in Nodes : Linked(c, n, m) => data'[m] = data[m]
  PROVE  \A i \in Queues : Contents(i)' = Contents(i)
<1> SUFFICES ASSUME NEW i \in Queues PROVE Contents(i)' = Contents(i)
  OBVIOUS
<1>1. /\ Contents(i) = [k \in 1..n[i] |-> data[c[i][k]]]
      /\ Contents(i)' = [k \in 1..n[i] |-> data'[c[i][k]]]
  BY ItemsOfChain DEF Shape
<1>2. \A k \in 1..n[i] : k \in 0..n[i] /\ data'[c[i][k]] = data[c[i][k]]
  BY ChainFacts DEF Shape
<1> QED
  BY <1>1, <1>2

\* A new node is one that nobody has.
LEMMA AllocSpare ==
  ASSUME TypeOK, Places, NEW c \in Chains, NEW n \in [Queues -> Nat], Shape(c, n),
         NEW m \in Nodes, Allocs(m)
  PROVE  /\ Spare(c, n, m) /\ unused' \subseteq unused /\ m \notin unused' /\ Len(pool') \in Nat
         /\ \A k \in 1..Len(pool') : /\ Spare(c, n, pool'[k]) /\ pool'[k] \notin unused' /\ pool'[k] # m
                                     /\ pool'[k] \in Nodes
                                     /\ \A l \in 1..Len(pool') : pool'[k] = pool'[l] => k = l
<1>1. CASE pool # <<>> /\ m = Head(pool) /\ pool' = Tail(pool) /\ unused' = unused
  <2>1. /\ Len(pool) \in Nat \ {0} /\ m = pool[1] /\ Len(pool') = Len(pool) - 1
        /\ \A k \in 1..(Len(pool) - 1) : pool'[k] = pool[k + 1]
        /\ \A k \in 1..Len(pool) : pool[k] \in Nodes
    BY <1>1, TypeFacts, HeadTailProperties, EmptySeq, ElementOfSeq
  <2>2. Spare(c, n, m) /\ m \notin unused
    BY <2>1 DEF Shape, PoolApart
  <2>3. ASSUME NEW k \in 1..Len(pool')
        PROVE  /\ Spare(c, n, pool'[k]) /\ pool'[k] \notin unused /\ pool'[k] # m /\ pool'[k] \in Nodes
               /\ \A l \in 1..Len(pool') : pool'[k] = pool'[l] => k = l
    <3>1. k \in 1..(Len(pool) - 1) /\ k + 1 \in 1..Len(pool) /\ 1 \in 1..Len(pool) /\ k + 1 # 1
      BY <2>1, <2>3
    <3>2. pool'[k] = pool[k + 1]
      BY <2>1, <3>1
    <3>3. \A l \in 1..Len(pool') : pool'[k] = pool'[l] => k = l
      <4> SUFFICES ASSUME NEW l \in 1..Len(pool'), pool'[k] = pool'[l] PROVE k = l
        OBVIOUS
      <4>1. l \in 1..(Len(pool) - 1) /\ l + 1 \in 1..Len(pool)
        BY <2>1
      <4>2. pool[k + 1] = pool[l + 1]
        BY <2>1, <3>2, <4>1
      <4>3. k + 1 = l + 1
        BY <3>1, <4>1, <4>2 DEF Shape, PoolApart
      <4> QED
        BY <3>1, <4>1, <4>3
    <3> QED
      BY <2>1, <3>1, <3>2, <3>3 DEF Shape, PoolApart
  <2> QED
    BY <1>1, <2>1, <2>2, <2>3
<1>2. CASE m \in unused /\ unused' = unused \ {m} /\ pool' = pool
  BY <1>2, TypeFacts, ElementOfSeq, LenProperties DEF Shape, PoolApart
<1> QED
  BY <1>1, <1>2 DEF Allocs

\* A call of Enqueue touches a node only that nobody has.
LEMMA CallEnqueueKeeps ==
  ASSUME TypeOK, Places, NEW c \in Chains, NEW n \in [Queues -> Nat], Shape(c, n),
         NEW t \in Threads, NEW i \in Queues, CallEnqueue(t, i)
  PROVE  /\ Shape(c, n)' /\ (\A m \in Nodes : Linked(c, n, m) => data'[m] = data[m] /\ next'[m] = next[m])
         /\ UNCHANGED <<head, headFresh, out>>
<1>1. PICK m \in Nodes :
        /\ Allocs(m)
        /\ data' = [data EXCEPT ![m] = enqs + 1] /\ next' = [next EXCEPT ![m] = Linking]
        /\ qid' = [qid EXCEPT ![m] = i]
        /\ Others(t) /\ me'[t].pc = "tail" /\ me'[t].op = "enq" /\ me'[t].q = i /\ me'[t].new = m
  BY CallEnqueueMoves
<1>2. me[t].pc = "idle" /\ UNCHANGED <<head, headFresh, out>>
  BY CallEnqueueMoves
<1>3. Spare(c, n, m)
  BY <1>1, AllocSpare
<1>4. /\ \A x \in Nodes : x # m => next'[x] = next[x] /\ qid'[x] = qid[x] /\ data'[x] = data[x]
      /\ next'[m] = Linking /\ qid'[m] = i /\ Null # Linking
  BY <1>1, TypeFacts
<1>5. \A j \in Queues : \A k \in 0..n[j] : c[j][k] \in Nodes /\ c[j][k] # m
  BY <1>3, ChainFacts DEF Spare, Shape
<1>6. \A x \in Nodes : x # m => (Linked(c, n, x)' <=> Linked(c, n, x))
  BY <1>4 DEF Linked
<1>7. ~Linked(c, n, m)'
  BY <1>4, <1>5 DEF Linked
<1>8. ASSUME NEW j \in Queues PROVE Chain(c, n, j)'
  <2>1. n[j] \in 0..n[j] /\ Chain(c, n, j)
    BY DEF Shape, Chained
  <2>2. \A k \in 0..n[j] : next'[c[j][k]] = next[c[j][k]] /\ qid'[c[j][k]] = qid[c[j][k]]
    BY <1>4, <1>5
  <2> QED
    BY <1>2, <2>1, <2>2 DEF Chain
<1>9. ASSUME NEW x \in Nodes PROVE IsEnd(c, n, x)'
  <2>1. CASE x = m
    BY <1>4, <2>1 DEF IsEnd
  <2>2. CASE x # m
    BY <1>4, <2>2 DEF Shape, Chained, IsEnd
  <2> QED
    BY <2>1, <2>2
<1>10. /\ \A u \in Threads : u # t => me'[u] = me[u]
       /\ Owns(t)' /\ ~Owns(t) /\ me'[t].pc = "tail"
       /\ \A u \in Threads : u # t => /\ Owns(u)' <=> Owns(u)
                                      /\ Brings(u)' <=> Brings(u)
  BY <1>1, <1>2 DEF Others, Owns, Brings
<1>11. \A u \in Threads : Owns(u) => me[u].new # m /\ me[u].new \in Nodes
  BY <1>3, OwnFacts DEF Spare
<1>12. Brought(c, n)'
  <2>1. ASSUME NEW u \in Threads, Owns(u)'
        PROVE  /\ next'[me'[u].new] = Linking /\ qid'[me'[u].new] = me'[u].q
               /\ \A v \in Threads : Owns(v)' /\ me'[v].new = me'[u].new => v = u
    <3>1. CASE u = t
      BY <1>1, <1>4, <1>10, <1>11, <3>1
    <3>2. CASE u # t
      <4>1. me'[u] = me[u] /\ Owns(u) /\ me[u].new # m /\ me[u].new \in Nodes
        BY <1>10, <1>11, <2>1, <3>2
      <4> QED
        BY <1>1, <1>4, <1>10, <3>2, <4>1 DEF Shape, Brought
    <3> QED
      BY <3>1, <3>2
  <2>2. ASSUME NEW u \in Threads, Brings(u)' PROVE ~Linked(c, n, me[u].new)'
    <3>1. CASE u = t
      BY <1>1, <1>7, <3>1
    <3>2. CASE u # t
      <4>1. me'[u] = me[u] /\ Owns(u) /\ Brings(u) /\ me[u].new # m /\ me[u].new \in Nodes
        BY <1>10, <1>11, <2>2, <3>2 DEF Owns
      <4> QED
        BY <1>6, <4>1 DEF Shape, Brought
    <3> QED
      BY <3>1, <3>2
  <2>3. ASSUME NEW u \in Threads, me'[u].pc = "open" PROVE me'[u].new = c[me'[u].q][n[me'[u].q]]
    BY <1>10, <2>3 DEF Shape, Brought
  <2> QED
    BY <2>1, <2>2, <2>3 DEF Brought
<1>13. ASSUME NEW x \in Nodes, Spare(c, n, x), x # m PROVE Spare(c, n, x)'
  BY <1>1, <1>6, <1>10, <1>13 DEF Spare
<1>14. PoolApart(c, n)'
  <2>1. /\ unused' \subseteq unused /\ m \notin unused' /\ unused \subseteq Nodes
        /\ \A k \in 1..Len(pool') : /\ Spare(c, n, pool'[k]) /\ pool'[k] \notin unused' /\ pool'[k] # m
                                    /\ pool'[k] \in Nodes
                                    /\ \A l \in 1..Len(pool') : pool'[k] = pool'[l] => k = l
    BY <1>1, AllocSpare, TypeFacts
  <2>2. \A x \in unused' : Spare(c, n, x)'
    BY <1>13, <2>1 DEF Shape, PoolApart
  <2>3. ASSUME NEW k \in 1..Len(pool') PROVE Spare(c, n, pool[k])'
    BY <1>13, <2>1
  <2> QED
    BY <2>1, <2>2, <2>3 DEF PoolApart
<1>15. ASSUME NEW x \in Nodes, Linked(c, n, x) PROVE data'[x] = data[x] /\ next'[x] = next[x]
  BY <1>3, <1>4, <1>15 DEF Spare
<1> QED
  BY <1>2, <1>8, <1>9, <1>12, <1>14, <1>15 DEF Shape, Chained


\* The chains once the dummy node of queue i is the next one.
Shorter(c, i) == [c EXCEPT ![i] = [k \in Nat |-> c[i][k + 1]]]

\* Whose CAS of m_pHead succeeds has the dummy node and the first item.
LEMMA FreshTake ==
  ASSUME TypeOK, Places, Snapshots, NEW c \in Chains, NEW n \in [Queues -> Nat], Shape(c, n),
         NEW t \in Threads, me[t].pc = "take", t \in headFresh, NEW i \in Queues, i = me[t].q
  PROVE  /\ me[t].head = c[i][0] /\ me[t].next = c[i][1] /\ me[t].temp = data[c[i][1]]
         /\ next[c[i][0]] = c[i][1] /\ n[i] \in Nat \ {0} /\ c[i][0] \in Nodes /\ c[i][1] \in Nodes
<1>1. /\ me[t].head = head[i] /\ next[me[t].head] = me[t].next /\ me[t].next \in Nodes
      /\ me[t].temp = data[me[t].next]
  BY TypeFacts DEF Snapshots, Snapshot
<1>2. c[i][0] = head[i] /\ n[i] \in Nat /\ next[c[i][n[i]]] \in {Null, Linking}
  BY ChainFacts DEF Shape
<1>3. n[i] # 0
  BY <1>1, <1>2, TypeFacts
<1>4. 0 \in 0..n[i] /\ 1 \in 0..n[i] /\ 0 < n[i]
  BY <1>2, <1>3
<1>5. next[c[i][0]] = c[i][0 + 1] /\ c[i][0] \in Nodes /\ c[i][1] \in Nodes
  BY <1>4, ChainFacts DEF Shape
<1> QED
  BY <1>1, <1>2, <1>3, <1>5

\* The dummy node goes back to the pool, and the first node takes its place.
LEMMA TakeKeeps ==
  ASSUME TypeOK, Places, Snapshots, NEW c \in Chains, NEW n \in [Queues -> Nat], Shape(c, n),
         NEW t \in Threads, Take(t), t \in headFresh, NEW i \in Queues, i = me[t].q,
         NEW c2, c2 = Shorter(c, i), NEW n2, n2 = [n EXCEPT ![i] = @ - 1]
  PROVE  c2 \in Chains /\ n2 \in [Queues -> Nat] /\ Shape(c2, n2)'
<1>1. /\ me[t].pc = "take" /\ Rests(t) /\ UNCHANGED <<nodes, unused, tails, calls>>
      /\ head' = [head EXCEPT ![i] = me[t].next] /\ pool' = <<me[t].head>> \o pool
  BY TakeMoves
<1>2. PICK h \in Nodes, f \in Nodes : h = c[i][0] /\ f = c[i][1]
  BY <1>1, FreshTake
<1>3. me[t].head = h /\ me[t].next = f /\ next[h] = f /\ n[i] \in Nat \ {0}
  BY <1>1, <1>2, FreshTake
<1>4. /\ head' = [head EXCEPT ![i] = f] /\ pool' = <<h>> \o pool
      /\ head \in [Queues -> Nodes] /\ pool \in Seq(Nodes)
      /\ Null \notin Nodes /\ Linking \notin Nodes /\ Null # Linking
  BY <1>1, <1>3, TypeFacts
<1>5. /\ \A j \in Queues : n[j] \in Nat /\ c[j] \in [Nat -> Nodes]
      /\ c2 \in Chains /\ n2 \in [Queues -> Nat] /\ n2[i] = n[i] - 1
      /\ \A j \in Queues : j # i => c2[j] = c[j] /\ n2[j] = n[j]
      /\ \A k \in Nat : c2[i][k] = c[i][k + 1]
  BY <1>3 DEF Shorter, Chains
<1>6. \A k \in 0..n2[i] : k \in Nat /\ k + 1 \in 0..n[i] /\ k + 1 # 0 /\ (k < n2[i] => k + 1 < n[i])
  BY <1>3, <1>5
<1>7. Linked(c, n, h) /\ qid[h] = i
  BY <1>2, <1>3, ChainFacts DEF Shape
<1>8. \A x \in Nodes : Linked(c2, n2, x)' <=> Linked(c, n, x) /\ x # h
  <2> SUFFICES ASSUME NEW x \in Nodes PROVE Linked(c2, n2, x)' <=> Linked(c, n, x) /\ x # h
    OBVIOUS
  <2>1. CASE qid[x] # i
    BY <1>1, <1>5, <1>7, <2>1 DEF Linked
  <2>2. CASE qid[x] = i
    <3>1. ASSUME NEW k \in 0..n2[i], x = c2[i][k] PROVE (\E l \in 0..n[i] : x = c[i][l]) /\ x # h
      <4>1. x = c[i][k + 1] /\ k + 1 \in 0..n[i] /\ k + 1 # 0 /\ 0 \in 0..n[i]
        BY <1>3, <1>5, <1>6, <3>1
      <4>2. c[i][k + 1] # c[i][0]
        BY <4>1, ChainFacts DEF Shape
      <4> QED
        BY <1>2, <4>1, <4>2
    <3>2. ASSUME NEW l \in 0..n[i], x = c[i][l], x # h PROVE \E k \in 0..n2[i] : x = c2[i][k]
      <4>1. l # 0
        BY <1>2, <3>2
      <4>2. l - 1 \in 0..n2[i] /\ l - 1 \in Nat /\ (l - 1) + 1 = l
        BY <1>3, <1>5, <4>1
      <4>3. c2[i][l - 1] = c[i][l]
        BY <1>5, <4>2
      <4> QED
        BY <3>2, <4>2, <4>3
    <3>3. (\E k \in 0..n2[i] : x = c2[i][k]) <=> (\E l \in 0..n[i] : x = c[i][l]) /\ x # h
      BY <3>1, <3>2
    <3> QED
      BY <1>1, <2>2, <3>3 DEF Linked
  <2> QED
    BY <2>1, <2>2
<1>9. Chained(c2, n2)'
  <2>1. ASSUME NEW j \in Queues, j # i PROVE Chain(c2, n2, j)'
    <3>1. c2[j] = c[j] /\ n2[j] = n[j] /\ head'[j] = head[j] /\ Chain(c, n, j)
      BY <1>4, <1>5, <2>1 DEF Shape, Chained
    <3>2. next' = next /\ qid' = qid
      BY <1>1
    <3>3. /\ c[j][0] = head'[j]
          /\ \A k \in 0..n[j] : qid'[c[j][k]] = j
          /\ \A k \in 0..n[j] : k < n[j] => next'[c[j][k]] = c[j][k + 1]
          /\ next'[c[j][n[j]]] \in {Null, Linking}
          /\ \A k, l \in 0..n[j] : c[j][k] = c[j][l] => k = l
      BY <3>1, <3>2 DEF Chain
    <3> QED
      BY <3>1, <3>3 DEF Chain
  <2>2. Chain(c, n, i)
    BY DEF Shape, Chained
  <2>3. c2[i][0] = head'[i]
    <3>1. c2[i][0] = c[i][0 + 1]
      BY <1>5
    <3>2. c2[i][0] = f /\ head'[i] = f
      BY <1>2, <1>4, <3>1
    <3> QED
      BY <3>2
  <2>4. ASSUME NEW k \in 0..n2[i]
        PROVE  qid'[c2[i][k]] = i /\ (k < n2[i] => next'[c2[i][k]] = c2[i][k + 1])
    <3>1. k \in Nat /\ k + 1 \in Nat /\ k + 1 \in 0..n[i] /\ (k < n2[i] => k + 1 < n[i])
      BY <1>6
    <3>2. qid[c[i][k + 1]] = i /\ (k + 1 < n[i] => next[c[i][k + 1]] = c[i][(k + 1) + 1])
      BY <2>2, <3>1 DEF Chain
    <3>3. c2[i][k] = c[i][k + 1] /\ c2[i][k + 1] = c[i][(k + 1) + 1]
      BY <1>5, <3>1
    <3> QED
      BY <1>1, <3>1, <3>2, <3>3
  <2>5. next'[c2[i][n2[i]]] \in {Null, Linking} /\ c2[i][n2[i]] = c[i][n[i]]
    <3>1. n2[i] \in Nat /\ n2[i] + 1 = n[i]
      BY <1>3, <1>5
    <3>2. c2[i][n2[i]] = c[i][n[i]]
      BY <1>5, <3>1
    <3> QED
      BY <1>1, <2>2, <3>2 DEF Chain
  <2>6. ASSUME NEW k \in 0..n2[i], NEW l \in 0..n2[i], c2[i][k] = c2[i][l] PROVE k = l
    <3>1. c2[i][k] = c[i][k + 1] /\ c2[i][l] = c[i][l + 1] /\ k + 1 \in 0..n[i] /\ l + 1 \in 0..n[i]
      BY <1>5, <1>6
    <3>2. \A a, b \in 0..n[i] : c[i][a] = c[i][b] => a = b
      BY <2>2 DEF Chain
    <3>3. k + 1 = l + 1
      BY ONLY <2>6, <3>1, <3>2
    <3> QED
      BY <1>6, <3>3
  <2>7. Chain(c2, n2, i)'
    BY <2>3, <2>4, <2>5, <2>6 DEF Chain
  <2>8. ASSUME NEW x \in Nodes PROVE IsEnd(c2, n2, x)'
    <3>1. IsEnd(c, n, x)
      BY DEF Shape, Chained
    <3> QED
      BY <1>1, <1>5, <2>5, <3>1 DEF IsEnd
  <2> QED
    BY <2>1, <2>7, <2>8 DEF Chained
<1>10. /\ \A u \in Threads : u # t => me'[u] = me[u]
       /\ ~Owns(t)' /\ ~Brings(t)' /\ me'[t].pc # "open"
       /\ \A u \in Threads : /\ Owns(u)' => u # t /\ Owns(u)
                             /\ Brings(u)' => u # t /\ Brings(u)
  BY <1>1, IdleFields DEF Rests, Others, Owns, Brings
<1>11. \A u \in Threads : Owns(u) => me[u].new \in Nodes /\ me[u].new # h
  BY <1>3, <1>4, OwnFacts DEF Shape, Brought
<1>12. Brought(c2, n2)'
  <2>1. ASSUME NEW u \in Threads, Owns(u)'
        PROVE  /\ next'[me'[u].new] = Linking /\ qid'[me'[u].new] = me'[u].q
               /\ \A v \in Threads : Owns(v)' /\ me'[v].new = me'[u].new => v = u
    <3>1. next' = next /\ qid' = qid /\ Owns(u) /\ me'[u] = me[u]
      BY <1>1, <1>10, <2>1
    <3>2. \A v \in Threads : Owns(v)' => Owns(v) /\ me'[v] = me[v]
      BY <1>10
    <3>3. /\ next[me[u].new] = Linking /\ qid[me[u].new] = me[u].q
          /\ \A v \in Threads : Owns(v) /\ me[v].new = me[u].new => v = u
      BY <3>1 DEF Shape, Brought
    <3> QED
      BY <3>1, <3>2, <3>3
  <2>2. ASSUME NEW u \in Threads, Brings(u)' PROVE ~Linked(c2, n2, me[u].new)'
    <3>1. u # t /\ Brings(u) /\ Owns(u) /\ me'[u] = me[u]
      BY <1>10, <2>2 DEF Brings, Owns
    <3>2. me[u].new \in Nodes /\ ~Linked(c, n, me[u].new)
      BY <1>11, <3>1 DEF Shape, Brought
    <3> QED
      BY <1>8, <3>1, <3>2
  <2>3. ASSUME NEW u \in Threads, me'[u].pc = "open" PROVE me'[u].new = c2[me'[u].q][n2[me'[u].q]]
    <3>1. u # t /\ me[u].pc = "open" /\ me'[u] = me[u] /\ Owns(u)
      BY <1>10, <2>3 DEF Owns
    <3>2. me[u].new = c[me[u].q][n[me[u].q]] /\ me[u].q \in Queues
      BY <3>1, OwnFacts DEF Shape, Brought
    <3>3. c2[i][n2[i]] = c[i][n[i]]
      <4>1. n2[i] \in Nat /\ n2[i] + 1 = n[i]
        BY <1>3, <1>5
      <4> QED
        BY <1>5, <4>1
    <3>4. me[u].q # i => c2[me[u].q] = c[me[u].q] /\ n2[me[u].q] = n[me[u].q]
      BY <1>5, <3>2
    <3> QED
      BY <3>1, <3>2, <3>3, <3>4
  <2> QED
    BY <2>1, <2>2, <2>3 DEF Brought
<1>13. ASSUME NEW x \in Nodes, Spare(c, n, x) PROVE Spare(c2, n2, x)' /\ x # h
  BY <1>7, <1>8, <1>10, <1>13 DEF Spare
<1>14. Spare(c2, n2, h)'
  BY <1>8, <1>10, <1>11 DEF Spare
<1>15. PoolApart(c2, n2)'
  <2>1. /\ Len(pool) \in Nat /\ Len(pool') = Len(pool) + 1 /\ pool'[1] = h
        /\ \A k \in 1..Len(pool) : pool[k] \in Nodes
        /\ \A k \in 1..Len(pool') : k # 1 => k - 1 \in 1..Len(pool) /\ pool'[k] = pool[k - 1]
    <3>1. <<h>> \in Seq(Nodes) /\ Len(<<h>>) = 1 /\ <<h>>[1] = h
      OBVIOUS
    <3>2. /\ Len(<<h>> \o pool) = 1 + Len(pool)
          /\ \A k \in 1..(1 + Len(pool)) : (<<h>> \o pool)[k] = IF k <= 1 THEN <<h>>[k] ELSE pool[k - 1]
      BY <1>4, <3>1, ConcatProperties
    <3>3. Len(pool) \in Nat /\ \A k \in 1..Len(pool) : pool[k] \in Nodes
      BY <1>4, ElementOfSeq, LenProperties
    <3> QED
      BY <1>4, <3>1, <3>2, <3>3
  <2>2. unused' = unused /\ unused \subseteq Nodes /\ h \notin unused
    BY <1>1, <1>7, TypeFacts DEF Shape, PoolApart, Spare
  <2>3. \A k \in 1..Len(pool) : /\ Spare(c, n, pool[k]) /\ pool[k] \notin unused
                                /\ \A l \in 1..Len(pool) : pool[k] = pool[l] => k = l
    BY DEF Shape, PoolApart
  <2>4. \A k \in 1..Len(pool) : pool[k] # h
    BY <1>13, <2>1, <2>3
  <2>5. ASSUME NEW k \in 1..Len(pool')
        PROVE  /\ Spare(c2, n2, pool[k])' /\ pool'[k] \notin unused'
               /\ \A l \in 1..Len(pool') : pool'[k] = pool'[l] => k = l
    <3>1. CASE k = 1
      BY <1>14, <2>1, <2>2, <2>4, <3>1
    <3>2. CASE k # 1
      <4>1. PICK p : p = k - 1 /\ p \in 1..Len(pool) /\ pool'[k] = pool[p]
        BY <2>1, <3>2
      <4>2. pool'[k] \notin unused'
        BY <2>2, <2>3, <4>1
      <4>3. ASSUME NEW l \in 1..Len(pool'), pool'[k] = pool'[l] PROVE k = l
        <5>1. l # 1
          BY <2>1, <2>4, <4>1, <4>3
        <5>2. l - 1 \in 1..Len(pool) /\ pool'[l] = pool[l - 1]
          BY <2>1, <5>1
        <5>3. p = l - 1
          BY <2>3, <4>1, <4>3, <5>2
        <5> QED
          BY <2>1, <4>1, <5>3
      <4>4. Spare(c2, n2, pool[k])'
        <5>1. PICK x \in Nodes : x = pool[p]
          BY <2>1, <4>1
        <5>2. Spare(c2, n2, x)' /\ x = pool'[k]
          BY <1>13, <2>3, <4>1, <5>1
        <5> QED
          BY <5>2
      <4> QED
        BY <4>2, <4>3, <4>4
    <3> QED
      BY <3>1, <3>2
  <2>6. \A x \in unused' : Spare(c2, n2, x)'
    BY <1>13, <2>2 DEF Shape, PoolApart
  <2> QED
    BY <2>5, <2>6 DEF PoolApart
<1> QED
  BY <1>5, <1>9, <1>12, <1>15 DEF Shape

\* What Take returns is the first item, and the rest stays.
LEMMA TakeGets ==
  ASSUME TypeOK, Places, Snapshots, Shaped, NEW t \in Threads, Take(t), t \in headFresh
  PROVE  \E i \in Queues :
             /\ Contents(i) # <<>> /\ Contents(i)' = Tail(Contents(i))
             /\ out' = [out EXCEPT ![i] = Append(@, Head(Contents(i)))]
             /\ \A j \in Queues : j # i => Contents(j)' = Contents(j)
<1>1. PICK c \in Chains, n \in [Queues -> Nat] : Shape(c, n)
  BY DEF Shaped
<1>2. PICK i \in Queues : i = me[t].q
  BY TypeFacts, TakeMoves
<1>3. PICK c2 : c2 = Shorter(c, i)
  OBVIOUS
<1>4. PICK n2 : n2 = [n EXCEPT ![i] = @ - 1]
  OBVIOUS
<1>5. c2 \in Chains /\ n2 \in [Queues -> Nat] /\ Shape(c2, n2)'
  BY <1>1, <1>2, <1>3, <1>4, TakeKeeps
<1>6. data' = data /\ data \in [Nodes -> Values] /\ out' = [out EXCEPT ![i] = Append(@, me[t].temp)]
  BY <1>2, TypeFacts, TakeMoves
<1>7. me[t].temp = data[c[i][1]] /\ n[i] \in Nat \ {0}
  <2>1. me[t].pc = "take"
    BY TakeMoves
  <2> QED
    BY <1>1, <1>2, <2>1, FreshTake
<1>8. /\ \A j \in Queues : n[j] \in Nat /\ c[j] \in [Nat -> Nodes]
      /\ n2[i] = n[i] - 1
      /\ \A j \in Queues : j # i => c2[j] = c[j] /\ n2[j] = n[j]
      /\ \A k \in Nat : c2[i][k] = c[i][k + 1]
  BY <1>3, <1>4 DEF Shorter, Chains
<1>9. \A j \in Queues : /\ Contents(j) = [k \in 1..n[j] |-> data[c[j][k]]]
                        /\ Contents(j)' = [k \in 1..n2[j] |-> data[c2[j][k]]]
  BY <1>1, <1>5, <1>6, ItemsOfChain DEF Shape
<1>10. PICK s \in Seq(Values) : s = Contents(i) /\ Len(s) = n[i] /\ \A k \in 1..n[i] : s[k] = data[c[i][k]]
  <2> DEFINE r == [k \in 1..n[i] |-> data[c[i][k]]]
  <2>1. \A k \in 1..n[i] : k \in Nat /\ c[i][k] \in Nodes
    BY <1>8
  <2>2. r \in [1..n[i] -> Values]
    BY <1>6, <2>1
  <2>3. \A k \in 1..n[i] : r[k] = data[c[i][k]]
    OBVIOUS
  <2>4. r \in Seq(Values) /\ Len(r) = n[i]
    <3> HIDE DEF r
    <3>1. n[i] \in Nat /\ data[c[i][1]] \in Values
      BY <1>6, <1>8
    <3> QED
      BY <2>2, <3>1, AppendOf
  <2> HIDE DEF r
  <2> QED
    BY <1>9, <2>3, <2>4 DEF r
<1>11. s # <<>> /\ Head(s) = me[t].temp
  BY <1>7, <1>10
<1>12. Tail(s) = [k \in 1..(n[i] - 1) |-> s[k + 1]]
  <2>1. /\ Tail(s) \in Seq(Values) /\ Len(Tail(s)) = n[i] - 1
        /\ \A k \in 1..(n[i] - 1) : Tail(s)[k] = s[k + 1]
    BY <1>7, <1>10, <1>11, HeadTailProperties
  <2>2. Tail(s) \in [1..(n[i] - 1) -> Values]
    BY <2>1, LenProperties
  <2> QED
    BY <2>1, <2>2
<1>13. Contents(i)' = Tail(s)
  <2>1. Contents(i)' = [k \in 1..(n[i] - 1) |-> data[c2[i][k]]]
    BY <1>8, <1>9
  <2>2. ASSUME NEW k \in 1..(n[i] - 1) PROVE s[k + 1] = data[c2[i][k]]
    <3>1. k \in Nat /\ k + 1 \in 1..n[i]
      BY <1>7
    <3> QED
      BY <1>8, <1>10, <3>1
  <2> QED
    BY <1>12, <2>1, <2>2
<1>14. ASSUME NEW j \in Queues, j # i PROVE Contents(j)' = Contents(j)
  BY <1>8, <1>9, <1>14
<1> QED
  BY <1>6, <1>10, <1>11, <1>13, <1>14

-----------------------------------------------------------------------------
(* The invariant *)

\* Each step is one of these thirteen.
LEMMA Steps ==
  ASSUME Next
  PROVE  \E t \in Threads :
            \/ LoopTail(t) \/ LoopNext(t) \/ LoopHelp(t) \/ ReadLast(t) \/ Link(t) \/ Open(t) \/ Swing(t)
            \/ ReadHead(t) \/ ReadFirst(t) \/ Check(t) \/ Take(t)
            \/ \E i \in Queues : CallEnqueue(t, i)
            \/ \E i \in Queues : CallDequeue(t, i)
BY DEF Next, Step

\* As far as the chains go, a step is quiet, opens, links, frees or gets a node.
LEMMA ChainSteps ==
  ASSUME TypeOK, Places, Next
  PROVE  \E t \in Threads :
            \/ Quiet(t) /\ UNCHANGED <<next, qid, data, pool, unused, head, out>>
            \/ Open(t) /\ me[t].pc = "open" /\ UNCHANGED <<data, head, out>>
            \/ Link(t) /\ IsLast(t) /\ UNCHANGED <<data, head, out>>
            \/ Take(t) /\ t \in headFresh
            \/ \E i \in Queues : CallEnqueue(t, i)
BY Steps, QuietSteps, OpenMoves, LinkMoves

\* The queue is what it was, unless a node is linked or taken.
LEMMA Unlinked ==
  ASSUME TypeOK, Places, NEW c \in Chains, NEW n \in [Queues -> Nat], Shape(c, n), NEW t \in Threads,
         \/ Quiet(t) /\ UNCHANGED <<next, qid, data, pool, unused, head, out>>
         \/ Open(t) /\ UNCHANGED <<data, head, out>>
         \/ \E i \in Queues : CallEnqueue(t, i)
  PROVE  Shape(c, n)' /\ out' = out /\ \A i \in Queues : Contents(i)' = Contents(i)
<1>1. Shape(c, n)' /\ out' = out /\ \A m \in Nodes : Linked(c, n, m) => data'[m] = data[m]
  BY QuietKeeps, OpenKeeps, CallEnqueueKeeps
<1> QED
  BY <1>1, SameItems

\* The chains are there after every step.
LEMMA ShapedStep ==
  ASSUME TypeOK, Places, Snapshots, Shaped, [Next]_vars
  PROVE  Shaped'
<1>1. PICK c \in Chains, n \in [Queues -> Nat] : Shape(c, n)
  BY DEF Shaped
<1>2. CASE UNCHANGED vars
  <2>1. Chained(c, n)'
    BY <1>1, <1>2 DEF Shape, Chained, Chain, IsEnd
  <2>2. Brought(c, n)'
    BY <1>1, <1>2 DEF Shape, Brought, Brings, Owns, Linked
  <2>3. PoolApart(c, n)'
    BY <1>1, <1>2 DEF Shape, PoolApart, Spare, Brings, Owns, Linked
  <2> QED
    BY <2>1, <2>2, <2>3 DEF Shaped, Shape
<1>3. CASE Next
  <2>1. PICK t \in Threads :
            \/ Quiet(t) /\ UNCHANGED <<next, qid, data, pool, unused, head, out>>
            \/ Open(t) /\ me[t].pc = "open" /\ UNCHANGED <<data, head, out>>
            \/ Link(t) /\ IsLast(t) /\ UNCHANGED <<data, head, out>>
            \/ Take(t) /\ t \in headFresh
            \/ \E i \in Queues : CallEnqueue(t, i)
    BY <1>3, ChainSteps
  <2>2. CASE Link(t) /\ IsLast(t)
    <3>1. PICK i, m, c2, n2 : /\ i = me[t].q /\ m = me[t].new /\ c2 = Longer(c, n, i, m)
                              /\ n2 = [n EXCEPT ![i] = @ + 1]
      OBVIOUS
    <3>2. c2 \in Chains /\ n2 \in [Queues -> Nat] /\ Shape(c2, n2)'
      BY <1>1, <2>2, <3>1, LinkKeeps
    <3> QED
      BY <3>2 DEF Shaped
  <2>3. CASE Take(t) /\ t \in headFresh
    <3>1. PICK i \in Queues : i = me[t].q
      BY <2>3, TypeFacts, TakeMoves
    <3>2. PICK c2, n2 : c2 = Shorter(c, i) /\ n2 = [n EXCEPT ![i] = @ - 1]
      OBVIOUS
    <3>3. c2 \in Chains /\ n2 \in [Queues -> Nat] /\ Shape(c2, n2)'
      BY <1>1, <2>3, <3>1, <3>2, TakeKeeps
    <3> QED
      BY <3>3 DEF Shaped
  <2>4. ASSUME \/ Quiet(t) /\ UNCHANGED <<next, qid, data, pool, unused, head, out>>
               \/ Open(t) /\ UNCHANGED <<data, head, out>>
               \/ \E i \in Queues : CallEnqueue(t, i)
        PROVE  Shaped'
    <3>1. Shape(c, n)'
      BY <1>1, <2>4, Unlinked
    <3> QED
      BY <3>1 DEF Shaped
  <2> QED
    BY <2>1, <2>2, <2>3, <2>4
<1> QED
  BY <1>2, <1>3

\* What the types say of the next state, variable by variable.
LEMMA Typed ==
  ASSUME next' \in [Nodes -> Ptr], qid' \in [Nodes -> Queues \cup {Null}], data' \in [Nodes -> Values],
         pool' \in Seq(Nodes), unused' \subseteq Nodes,
         head' \in [Queues -> Nodes], tail' \in [Queues -> Nodes], me' \in [Threads -> MeRec],
         headFresh' \subseteq Threads, tailFresh' \subseteq Threads,
         enqs' \in 0..MaxEnq, deqs' \in 0..MaxDeq, out' \in [Queues -> Seq(Values)]
  PROVE  TypeOK'
BY DEF TypeOK, MeRec

\* Every step keeps the types.
LEMMA TypedStep ==
  ASSUME TypeOK, Places, [Next]_vars
  PROVE  TypeOK'
<1>0. /\ next \in [Nodes -> Ptr] /\ qid \in [Nodes -> Queues \cup {Null}] /\ data \in [Nodes -> Values]
      /\ pool \in Seq(Nodes) /\ unused \subseteq Nodes
      /\ head \in [Queues -> Nodes] /\ tail \in [Queues -> Nodes] /\ me \in [Threads -> MeRec]
      /\ headFresh \subseteq Threads /\ tailFresh \subseteq Threads
      /\ enqs \in 0..MaxEnq /\ deqs \in 0..MaxDeq /\ out \in [Queues -> Seq(Values)]
  BY DEF TypeOK, MeRec
<1>1. CASE UNCHANGED vars
  BY <1>0, <1>1, Typed
<1>2. CASE Next
  <2>0. PICK t \in Threads :
            \/ LoopTail(t) \/ LoopNext(t) \/ LoopHelp(t) \/ ReadLast(t) \/ Link(t) \/ Open(t) \/ Swing(t)
            \/ ReadHead(t) \/ ReadFirst(t) \/ Check(t) \/ Take(t)
            \/ \E i \in Queues : CallEnqueue(t, i)
            \/ \E i \in Queues : CallDequeue(t, i)
    BY <1>2, Steps
  <2>1. CASE LoopTail(t)
    BY <1>0, <2>1, LoopTailMoves, Typed DEF Moves, Others
  <2>2. CASE LoopNext(t)
    BY <1>0, <2>2, LoopNextMoves, Typed DEF Moves, Others
  <2>3. CASE LoopHelp(t)
    BY <1>0, <2>3, LoopHelpMoves, Typed DEF Moves, Others
  <2>4. CASE ReadLast(t)
    BY <1>0, <2>4, ReadLastMoves, Typed DEF Moves, Others
  <2>5. CASE Link(t)
    <3>1. next' \in [Nodes -> Ptr]
      <4>1. me[t].new \in Ptr
        BY <2>5, TypeFacts, LinkMoves
      <4> QED
        BY <1>0, <2>5, <4>1, LinkMoves
    <3> QED
      BY <1>0, <2>5, <3>1, LinkMoves, Typed DEF Moves, Others
  <2>6. CASE Open(t)
    <3>1. next' \in [Nodes -> Ptr]
      BY <1>0, <2>6, OpenMoves, TypeFacts
    <3> QED
      BY <1>0, <2>6, <3>1, OpenMoves, Typed DEF Moves, Others
  <2>7. CASE Swing(t)
    BY <1>0, <2>7, SwingMoves, Typed DEF Rests, Others
  <2>8. CASE ReadHead(t)
    BY <1>0, <2>8, ReadHeadMoves, Typed DEF Moves, Others
  <2>9. CASE ReadFirst(t)
    BY <1>0, <2>9, ReadFirstMoves, Typed DEF Moves, Others
  <2>10. CASE Check(t)
    <3>1. me' \in [Threads -> MeRec] /\ headFresh' \subseteq Threads
      BY <1>0, <2>10, CheckMoves DEF Moves, Rests, Others
    <3> QED
      BY <1>0, <2>10, <3>1, CheckMoves, Typed
  <2>11. CASE Take(t)
    <3>1. CASE t \notin headFresh
      BY <1>0, <2>11, <3>1, TakeMoves, Typed DEF Moves, Others
    <3>2. CASE t \in headFresh
      <4>1. /\ Rests(t) /\ head' = [head EXCEPT ![me[t].q] = me[t].next]
            /\ headFresh' = {u \in headFresh : me[u].q # me[t].q}
            /\ out' = [out EXCEPT ![me[t].q] = Append(@, me[t].temp)]
            /\ pool' = <<me[t].head>> \o pool /\ UNCHANGED <<nodes, unused, tails, calls>>
        BY <2>11, <3>2, TakeMoves
      <4>2. me[t].q \in Queues /\ me[t].next \in Nodes /\ me[t].head \in Nodes /\ me[t].temp \in Values
        BY <2>11, TypeFacts, TakeMoves DEF MeRec
      <4>3. head' \in [Queues -> Nodes] /\ headFresh' \subseteq Threads /\ pool' \in Seq(Nodes)
        BY <1>0, <4>1, <4>2
      <4>4. out' \in [Queues -> Seq(Values)]
        <5>1. Append(out[me[t].q], me[t].temp) \in Seq(Values)
          BY <1>0, <4>2, AppendProperties
        <5> QED
          BY <1>0, <4>1, <4>2, <5>1
      <4> QED
        BY <1>0, <4>1, <4>3, <4>4, Typed DEF Rests, Others
    <3> QED
      BY <3>1, <3>2
  <2>12. ASSUME NEW i \in Queues, CallEnqueue(t, i) PROVE TypeOK'
    <3>1. PICK m \in Nodes :
              /\ Allocs(m)
              /\ data' = [data EXCEPT ![m] = enqs + 1] /\ next' = [next EXCEPT ![m] = Linking]
              /\ qid' = [qid EXCEPT ![m] = i] /\ Others(t)
      BY <2>12, CallEnqueueMoves
    <3>2. enqs' = enqs + 1 /\ enqs < MaxEnq /\ UNCHANGED <<heads, tails, deqs, out>>
      BY <2>12, CallEnqueueMoves
    <3>3. enqs' \in 0..MaxEnq /\ enqs + 1 \in Values /\ Linking \in Ptr
      BY <1>0, <3>2, Calls DEF Values, Ptr
    <3>4. pool' \in Seq(Nodes) /\ unused' \subseteq Nodes
      <4>1. CASE pool # <<>> /\ pool' = Tail(pool) /\ unused' = unused
        BY <1>0, <4>1, HeadTailProperties
      <4>2. CASE unused' = unused \ {m} /\ pool' = pool
        BY <1>0, <4>2
      <4> QED
        BY <3>1, <4>1, <4>2 DEF Allocs
    <3>5. next' \in [Nodes -> Ptr] /\ qid' \in [Nodes -> Queues \cup {Null}] /\ data' \in [Nodes -> Values]
      BY <1>0, <3>1, <3>3
    <3> QED
      BY <1>0, <3>1, <3>2, <3>3, <3>4, <3>5, Typed DEF Others
  <2>13. ASSUME NEW i \in Queues, CallDequeue(t, i) PROVE TypeOK'
    <3>1. deqs' \in 0..MaxDeq /\ Others(t) /\ UNCHANGED <<nodes, free, heads, tails, enqs, out>>
      BY <1>0, <2>13, CallDequeueMoves, Calls
    <3> QED
      BY <1>0, <3>1, Typed DEF Others
  <2> QED
    BY <2>0, <2>1, <2>2, <2>3, <2>4, <2>5, <2>6, <2>7, <2>8, <2>9, <2>10, <2>11, <2>12, <2>13
<1> QED
  BY <1>1, <1>2

\* What a thread knows where it is, for a thread that does not move.
Placed(t) ==
    /\ me[t].pc # "idle" => me[t].q \in Queues
    /\ me[t].pc \in {"next", "help", "link"} => me[t].tail \in Nodes
    /\ me[t].pc = "help" => me[t].next \in Nodes
    /\ me[t].pc \in {"last", "link", "open", "swing"} => me[t].op = "enq"
    /\ me[t].op = "enq" => me[t].new \in Nodes
    /\ me[t].pc \in {"first", "check", "take"} => me[t].head \in Nodes
    /\ me[t].pc = "take" => me[t].next \in Nodes

\* Every step leaves the others alone, and the thread knows what it needs next.
LEMMA PlacedSteps ==
  ASSUME TypeOK, Places, NEW t \in Threads,
         \/ LoopTail(t) \/ LoopNext(t) \/ LoopHelp(t) \/ ReadLast(t) \/ Link(t) \/ Open(t) \/ Swing(t)
         \/ ReadHead(t) \/ ReadFirst(t) \/ Check(t) \/ Take(t)
         \/ \E i \in Queues : CallEnqueue(t, i)
         \/ \E i \in Queues : CallDequeue(t, i)
  PROVE  Others(t) /\ Placed(t)' /\ (me[t].pc = "check" => Check(t))
<1>0. me[t] \in MeRec /\ Placed(t)
  BY TypeFacts DEF Placed
<1>1. CASE LoopTail(t)
  BY <1>0, <1>1, LoopTailMoves DEF Moves, SameCall, Placed
<1>2. CASE LoopNext(t)
  BY <1>0, <1>2, LoopNextMoves DEF Moves, SameCall, SameTailCopy, Placed
<1>3. CASE LoopHelp(t)
  BY <1>0, <1>3, LoopHelpMoves DEF Moves, SameCall, Placed
<1>4. CASE ReadLast(t)
  BY <1>0, <1>4, ReadLastMoves DEF Moves, SameCall, Placed
<1>5. CASE Link(t)
  BY <1>0, <1>5, LinkMoves DEF Moves, SameCall, Placed
<1>6. CASE Open(t)
  BY <1>0, <1>6, OpenMoves DEF Moves, SameCall, Placed
<1>7. CASE Swing(t)
  BY <1>0, <1>7, SwingMoves, IdleFields DEF Rests, Placed
<1>8. CASE ReadHead(t)
  <2>1. me'[t].head \in Nodes
    BY <1>0, <1>8, ReadHeadMoves, TypeFacts
  <2> QED
    BY <1>0, <1>8, <2>1, ReadHeadMoves DEF Moves, SameCall, Placed
<1>9. CASE ReadFirst(t)
  BY <1>0, <1>9, ReadFirstMoves DEF Moves, SameCall, Placed
<1>10. CASE Check(t)
  BY <1>0, <1>10, CheckMoves, IdleFields DEF Moves, Rests, SameCall, Placed
<1>11. CASE Take(t)
  BY <1>0, <1>11, TakeMoves, IdleFields DEF Moves, Rests, SameCall, Placed
<1>12. CASE \E i \in Queues : CallEnqueue(t, i)
  BY <1>0, <1>12, CallEnqueueMoves DEF Placed
<1>13. CASE \E i \in Queues : CallDequeue(t, i)
  BY <1>0, <1>13, CallDequeueMoves DEF Placed
<1> QED
  BY <1>1, <1>2, <1>3, <1>4, <1>5, <1>6, <1>7, <1>8, <1>9, <1>10, <1>11, <1>12, <1>13

\* Every step keeps what the threads know.
LEMMA PlacesStep ==
  ASSUME TypeOK, Places, [Next]_vars
  PROVE  Places'
<1>1. CASE UNCHANGED vars
  BY <1>1 DEF Places
<1>2. CASE Next
  <2>1. PICK t \in Threads : Others(t) /\ Placed(t)'
    BY <1>2, Steps, PlacedSteps
  <2>2. \A u \in Threads : Placed(u)'
    BY <2>1 DEF Others, Places, Placed
  <2> QED
    BY <2>2 DEF Places, Placed
<1> QED
  BY <1>1, <1>2

\* The nodes that are in a queue keep their data and, once they have one, their next.
Fixed(c, n) ==
    \A m \in Nodes : Linked(c, n, m) => data'[m] = data[m] /\ (next[m] \in Nodes => next'[m] = next[m])

\* They do in every step: only a last node gets another next.
LEMMA FixedStep ==
  ASSUME TypeOK, Places, NEW c \in Chains, NEW n \in [Queues -> Nat], Shape(c, n), [Next]_vars
  PROVE  Fixed(c, n)
<1>1. CASE UNCHANGED vars
  BY <1>1 DEF Fixed
<1>2. CASE Next
  <2>1. PICK t \in Threads :
            \/ Quiet(t) /\ UNCHANGED <<next, qid, data, pool, unused, head, out>>
            \/ Open(t) /\ me[t].pc = "open" /\ UNCHANGED <<data, head, out>>
            \/ Link(t) /\ IsLast(t) /\ UNCHANGED <<data, head, out>>
            \/ Take(t) /\ t \in headFresh
            \/ \E i \in Queues : CallEnqueue(t, i)
    BY <1>2, ChainSteps
  <2>2. CASE Quiet(t) /\ UNCHANGED <<next, qid, data, pool, unused, head, out>>
    BY <2>2 DEF Fixed
  <2>3. CASE Open(t) /\ me[t].pc = "open"
    <3>1. Owns(t) /\ me[t].new \in Nodes /\ next[me[t].new] = Linking
      BY <2>3, OwnFacts DEF Owns, Shape, Brought
    <3>2. data' = data /\ next' = [next EXCEPT ![me[t].new] = Null] /\ Linking \notin Nodes
      BY <2>3, OpenMoves, TypeFacts
    <3> QED
      BY <3>1, <3>2, TypeFacts DEF Fixed
  <2>4. CASE Link(t) /\ IsLast(t)
    <3>1. data' = data /\ Null \notin Nodes /\ next[me[t].tail] = Null
      BY <2>4, LinkMoves, TypeFacts DEF IsLast
    <3>2. next' = [next EXCEPT ![me[t].tail] = me[t].new] \/ next' = next
      BY <2>4, LinkMoves
    <3> QED
      BY <3>1, <3>2, TypeFacts DEF Fixed
  <2>5. CASE Take(t)
    BY <2>5, TakeMoves DEF Fixed
  <2>6. CASE \E i \in Queues : CallEnqueue(t, i)
    BY <2>6, CallEnqueueKeeps DEF Fixed
  <2> QED
    BY <2>1, <2>2, <2>3, <2>4, <2>5, <2>6
<1> QED
  BY <1>1, <1>2

\* A thread that stands still knows what it knew, while its queue's head is the same.
LEMMA SnapshotKept ==
  ASSUME TypeOK, Places, Snapshots, NEW c \in Chains, NEW n \in [Queues -> Nat], Shape(c, n), Fixed(c, n),
         NEW u \in headFresh, me'[u] = me[u], head'[me[u].q] = head[me[u].q]
  PROVE  Snapshot(u)'
<1>1. Snapshot(u) /\ u \in Threads /\ me[u].pc \in {"first", "check", "take"}
  BY TypeFacts DEF Snapshots, Snapshot
<1>2. PICK i \in Queues : i = me[u].q
  BY <1>1, TypeFacts
<1>3. /\ me[u].head = c[i][0] /\ c[i][0] \in Nodes /\ Linked(c, n, c[i][0])
  <2>1. 0 \in 0..n[i]
    BY ChainFacts DEF Shape
  <2> QED
    BY <1>1, <1>2, <2>1, ChainFacts DEF Shape, Snapshot
<1>4. next[me[u].head] \in Nodes => next'[me[u].head] = next[me[u].head]
  BY <1>3 DEF Fixed
<1>5. me[u].pc = "take" => data'[me[u].next] = data[me[u].next]
  <2> SUFFICES ASSUME me[u].pc = "take" PROVE data'[me[u].next] = data[me[u].next]
    OBVIOUS
  <2>1. me[u].next = c[i][1] /\ n[i] \in Nat \ {0} /\ c[i][1] \in Nodes
    BY <1>1, <1>2, FreshTake
  <2>2. Linked(c, n, c[i][1])
    <3>1. 1 \in 0..n[i]
      BY <2>1
    <3> QED
      BY <3>1, ChainFacts DEF Shape
  <2> QED
    BY <2>1, <2>2 DEF Fixed
<1> QED
  BY <1>1, <1>4, <1>5 DEF Snapshot

\* The dummy node is followed by no node only in an empty queue.
LEMMA EmptyChain ==
  ASSUME TypeOK, Places, NEW c \in Chains, NEW n \in [Queues -> Nat], Shape(c, n), NEW i \in Queues,
         next[head[i]] \notin Nodes
  PROVE  Contents(i) = <<>>
<1>1. /\ n[i] \in Nat /\ c[i][0] = head[i] /\ c[i] \in [Nat -> Nodes]
      /\ \A k \in 0..n[i] : c[i][k] \in Nodes /\ (k < n[i] => next[c[i][k]] = c[i][k + 1])
  BY ChainFacts DEF Shape
<1>2. n[i] = 0
  <2>1. SUFFICES ASSUME n[i] # 0 PROVE FALSE
    BY <2>1
  <2>2. 0 \in 0..n[i] /\ 0 < n[i]
    BY <1>1, <2>1
  <2>3. next[c[i][0]] = c[i][0 + 1] /\ c[i][0 + 1] \in Nodes
    BY <1>1, <2>2
  <2> QED
    BY <1>1, <2>3
<1>3. Contents(i) = [k \in 1..n[i] |-> data[c[i][k]]]
  BY ItemsOfChain DEF Shape
<1> QED
  BY <1>2, <1>3

\* Every step keeps what is known with a fresh copy of m_pHead.
LEMMA SnapshotsStep ==
  ASSUME TypeOK, Places, Snapshots, Shaped, [Next]_vars
  PROVE  Snapshots'
<1>1. PICK c \in Chains, n \in [Queues -> Nat] : Shape(c, n)
  BY DEF Shaped
<1>2. Fixed(c, n)
  BY <1>1, FixedStep
<1>3. ASSUME NEW u \in headFresh, me'[u] = me[u], head'[me[u].q] = head[me[u].q] PROVE Snapshot(u)'
  BY <1>1, <1>2, <1>3, SnapshotKept
<1>4. CASE UNCHANGED vars
  BY <1>3, <1>4 DEF Snapshots
<1>5. ASSUME NEW t \in Threads, t \notin headFresh', headFresh' \subseteq headFresh, Others(t),
             \A u \in headFresh' : head'[me[u].q] = head[me[u].q]
      PROVE  Snapshots'
  BY <1>3, <1>5, TypeFacts DEF Snapshots, Others
<1>6. ASSUME NEW t \in Threads, me[t].pc \notin {"first", "check", "take"} PROVE t \notin headFresh
  BY <1>6 DEF Snapshots, Snapshot
<1>7. ASSUME NEW t \in Threads, me'[t].pc \in {"first", "check", "take"}, Others(t), Snapshot(t)',
             head' = head, headFresh' \subseteq headFresh \cup {t}
      PROVE  Snapshots'
  BY <1>3, <1>7, TypeFacts DEF Snapshots, Others
<1>8. CASE Next
  <2>0. PICK t \in Threads :
            \/ LoopTail(t) \/ LoopNext(t) \/ LoopHelp(t) \/ ReadLast(t) \/ Link(t) \/ Open(t) \/ Swing(t)
            \/ ReadHead(t) \/ ReadFirst(t) \/ Check(t) \/ Take(t)
            \/ \E i \in Queues : CallEnqueue(t, i)
            \/ \E i \in Queues : CallDequeue(t, i)
    BY <1>8, Steps
  <2>1. Others(t)
    BY <2>0, PlacedSteps
  <2>2. CASE LoopTail(t)
    BY <1>5, <1>6, <2>1, <2>2, LoopTailMoves
  <2>3. CASE LoopNext(t)
    BY <1>5, <1>6, <2>1, <2>3, LoopNextMoves
  <2>4. CASE LoopHelp(t)
    BY <1>5, <1>6, <2>1, <2>4, LoopHelpMoves
  <2>5. CASE ReadLast(t)
    BY <1>5, <1>6, <2>1, <2>5, ReadLastMoves
  <2>6. CASE Link(t)
    BY <1>5, <1>6, <2>1, <2>6, LinkMoves
  <2>7. CASE Open(t)
    BY <1>5, <1>6, <2>1, <2>7, OpenMoves
  <2>8. CASE Swing(t)
    BY <1>5, <1>6, <2>1, <2>8, SwingMoves
  <2>9. CASE ReadHead(t)
    <3>1. /\ me'[t].pc = "first" /\ me'[t].head = head[me[t].q] /\ me'[t].q = me[t].q /\ head' = head
          /\ headFresh' = headFresh \cup {t}
      BY <2>9, ReadHeadMoves DEF Moves, SameCall
    <3>2. Snapshot(t)'
      BY <3>1 DEF Snapshot
    <3> QED
      BY <1>7, <2>1, <3>1, <3>2
  <2>10. CASE ReadFirst(t)
    <3>1. /\ me[t].pc = "first" /\ me'[t].pc = "check" /\ me'[t].head = me[t].head /\ me'[t].q = me[t].q
          /\ me'[t].next = next[me[t].head] /\ me'[t].empty = (Contents(me[t].q) = <<>>)
          /\ UNCHANGED <<next, data, head, headFresh>>
      BY <2>10, ReadFirstMoves DEF Moves, SameCall
    <3>2. CASE t \notin headFresh
      BY <1>5, <2>1, <3>1, <3>2
    <3>3. CASE t \in headFresh
      <4>1. me[t].head = head[me[t].q] /\ me[t].q \in Queues
        BY <3>1, <3>3, TypeFacts DEF Snapshots, Snapshot
      <4>2. me'[t].next \notin Nodes => Contents(me[t].q) = <<>>
        BY <1>1, <3>1, <4>1, EmptyChain
      <4>3. Snapshot(t)'
        BY <3>1, <4>1, <4>2 DEF Snapshot
      <4> QED
        BY <1>7, <2>1, <3>1, <4>3
    <3> QED
      BY <3>2, <3>3
  <2>11. CASE Check(t)
    <3>1. CASE t \notin headFresh'
      <4>1. head' = head /\ headFresh' \subseteq headFresh
        BY <2>11, CheckMoves
      <4> QED
        BY <1>5, <2>1, <3>1, <4>1
    <3>2. CASE t \in headFresh'
      <4>1. /\ t \in headFresh /\ me[t].next \in Nodes /\ me'[t].pc = "take" /\ me'[t].q = me[t].q
            /\ me'[t].head = me[t].head /\ me'[t].next = me[t].next
            /\ me'[t].temp = data[me[t].next] /\ me[t].pc = "check"
            /\ UNCHANGED <<next, data, head, headFresh>>
        BY <2>11, <3>2, CheckMoves DEF Moves, SameCall
      <4>2. Snapshot(t)'
        BY <4>1 DEF Snapshots, Snapshot
      <4> QED
        BY <1>7, <2>1, <4>1, <4>2
    <3> QED
      BY <3>1, <3>2
  <2>12. CASE Take(t)
    <3>1. CASE t \notin headFresh
      BY <1>5, <2>1, <2>12, <3>1, TakeMoves
    <3>2. CASE t \in headFresh
      <4>1. PICK i, m : i = me[t].q /\ m = me[t].next
        OBVIOUS
      <4>2. headFresh' = {u \in headFresh : me[u].q # i} /\ head' = [head EXCEPT ![i] = m]
        BY <2>12, <3>2, <4>1, TakeMoves
      <4>3. t \notin headFresh' /\ headFresh' \subseteq headFresh
        BY <4>1, <4>2
      <4>4. ASSUME NEW u \in headFresh' PROVE head'[me[u].q] = head[me[u].q]
        <5>1. u \in headFresh /\ u \in Threads /\ me[u].q # i /\ me[u].q \in Queues
          BY <4>2, TypeFacts DEF Snapshots, Snapshot
        <5> QED
          BY <4>2, <5>1, TypeFacts
      <4> QED
        BY <1>5, <2>1, <4>3, <4>4
    <3> QED
      BY <3>1, <3>2
  <2>13. CASE \E i \in Queues : CallEnqueue(t, i)
    BY <1>5, <1>6, <2>1, <2>13, CallEnqueueMoves
  <2>14. CASE \E i \in Queues : CallDequeue(t, i)
    BY <1>5, <1>6, <2>1, <2>14, CallDequeueMoves
  <2> QED
    BY <2>0, <2>2, <2>3, <2>4, <2>5, <2>6, <2>7, <2>8, <2>9, <2>10, <2>11, <2>12, <2>13, <2>14
<1> QED
  BY <1>4, <1>8

\* At the start every queue has its dummy node alone, and no node is anybody's.
LEMMA InitIInv ==
  ASSUME Init
  PROVE  IInv /\ \A i \in Queues : Contents(i) = <<>>
<1> DEFINE c == [i \in Queues |-> [k \in Nat |-> Dummy[i]]]
           n == [i \in Queues |-> 0]
<1>1. Dummy \in [Queues -> Nodes] /\ \A i, j \in Queues : Dummy[i] = Dummy[j] => i = j
  BY EnoughNodes DEF Dummy
<1>2. /\ next = [m \in Nodes |-> Null] /\ data = [m \in Nodes |-> 0]
      /\ pool = <<>> /\ unused = {m \in Nodes : qid[m] = Null}
      /\ head = Dummy /\ tail = Dummy /\ me = [t \in Threads |-> Idle]
      /\ headFresh = {} /\ tailFresh = {} /\ enqs = 0 /\ deqs = 0
      /\ out = [i \in Queues |-> <<>>]
      /\ Null \notin Nodes /\ Null # Linking /\ Null \notin Queues
  BY NotNodes, NotQueue DEF Init
<1>3. /\ qid \in [Nodes -> Queues \cup {Null}]
      /\ \A i \in Queues : qid[Dummy[i]] = i
      /\ \A m \in Nodes : qid[m] \in Queues => m = Dummy[qid[m]]
  <2>1. qid = [m \in Nodes |-> IF \E i \in Queues : Dummy[i] = m
                               THEN CHOOSE i \in Queues : Dummy[i] = m ELSE Null]
    BY DEF Init
  <2>2. ASSUME NEW m \in Nodes
        PROVE  qid[m] \in Queues \cup {Null} /\ (qid[m] \in Queues => Dummy[qid[m]] = m)
    <3>1. CASE \E i \in Queues : Dummy[i] = m
      <4>1. qid[m] = CHOOSE i \in Queues : Dummy[i] = m
        BY <2>1, <3>1
      <4> QED
        BY <3>1, <4>1
    <3>2. CASE ~\E i \in Queues : Dummy[i] = m
      BY <1>2, <2>1, <3>2
    <3> QED
      BY <3>1, <3>2
  <2>3. ASSUME NEW i \in Queues PROVE qid[Dummy[i]] = i
    <3>1. Dummy[i] \in Nodes
      BY <1>1
    <3>2. qid[Dummy[i]] = CHOOSE j \in Queues : Dummy[j] = Dummy[i]
      BY <2>1, <3>1
    <3>3. qid[Dummy[i]] \in Queues /\ Dummy[qid[Dummy[i]]] = Dummy[i]
      BY <3>2
    <3> QED
      BY <1>1, <3>3
  <2> QED
    BY <2>1, <2>2, <2>3
<1>4. Idle \in MeRec /\ Idle.pc = "idle" /\ Idle.op = "none"
  BY IdleFields
<1>5. TypeOK
  BY <1>1, <1>2, <1>3, <1>4, Calls DEF TypeOK, MeRec, Ptr, Values
<1>6. Places /\ Snapshots
  BY <1>2, <1>4 DEF Places, Snapshots
<1>7. c \in Chains /\ n \in [Queues -> Nat]
  BY <1>1 DEF Chains
<1>8. \A i \in Queues : n[i] = 0 /\ \A k \in 0..n[i] : k = 0 /\ c[i][k] = Dummy[i]
  OBVIOUS
<1>9. \A m \in Nodes : next[m] = Null
  BY <1>2
<1> HIDE DEF c, n
<1>10. Chained(c, n)
  <2>1. ASSUME NEW i \in Queues PROVE Chain(c, n, i)
    BY <1>1, <1>2, <1>3, <1>8, <1>9 DEF Chain
  <2>2. ASSUME NEW m \in Nodes PROVE IsEnd(c, n, m)
    BY <1>3, <1>8 DEF IsEnd
  <2> QED
    BY <2>1, <2>2 DEF Chained
<1>11. \A t \in Threads : ~Owns(t) /\ ~Brings(t) /\ me[t].pc # "open"
  BY <1>2, <1>4 DEF Owns, Brings
<1>12. Brought(c, n)
  BY <1>11 DEF Brought
<1>13. PoolApart(c, n)
  <2>1. Len(pool) = 0
    BY <1>2
  <2>2. \A m \in unused : Spare(c, n, m)
    BY <1>2, <1>11 DEF Spare, Linked
  <2> QED
    BY <2>1, <2>2 DEF PoolApart
<1>14. Shape(c, n)
  BY <1>10, <1>12, <1>13 DEF Shape
<1>15. ASSUME NEW i \in Queues PROVE Contents(i) = <<>>
  <2>1. next[head[i]] \notin Nodes
    BY <1>1, <1>2
  <2> QED
    BY <1>5, <1>6, <1>7, <1>14, <2>1, EmptyChain
<1> QED
  BY <1>5, <1>6, <1>7, <1>14, <1>15 DEF IInv, Shaped

\* Every step keeps the invariant.
LEMMA InvStep == IInv /\ [Next]_vars => IInv'
<1> SUFFICES ASSUME IInv, [Next]_vars PROVE IInv'
  OBVIOUS
<1>1. TypeOK /\ Places /\ Snapshots /\ Shaped
  BY DEF IInv
<1>2. TypeOK'
  BY <1>1, TypedStep
<1>3. Places'
  BY <1>1, PlacesStep
<1>4. Snapshots'
  BY <1>1, SnapshotsStep
<1>5. Shaped'
  BY <1>1, ShapedStep
<1> QED
  BY <1>2, <1>3, <1>4, <1>5 DEF IInv

\* In every state every queue is a chain that ends, whatever queues share the
\* pool: all that looks like a last node of a queue is the last one of its chain.
THEOREM Invariance == Spec => []IInv
<1>1. Init => IInv
  BY InitIInv
<1> QED
  BY <1>1, InvStep, PTL DEF Spec

\* Every variable has its type.
THEOREM Types == Spec => []TypeOK
<1>1. IInv => TypeOK
  BY DEF IInv
<1> QED
  BY <1>1, Invariance, PTL

-----------------------------------------------------------------------------
(* What is promised to the callers *)

\* A step that lets Dequeue return without a node was taken by its thread, which
\* saw an empty queue.
LEMMA EmptyStep ==
  ASSUME IInv, [Next]_vars, NEW t \in Threads, At(t, "check"), me'[t].pc = "idle"
  PROVE  me[t].empty
<1>1. TypeOK /\ Places /\ Snapshots /\ me[t].pc = "check"
  BY DEF IInv
<1>2. Next
  OBVIOUS
<1>3. PICK u \in Threads : Others(u) /\ (me[u].pc = "check" => Check(u))
  BY <1>1, <1>2, Steps, PlacedSteps
<1>4. u = t
  BY <1>1, <1>3 DEF Others
<1>5. t \in headFresh /\ me[t].next \notin Nodes
  BY <1>1, <1>3, <1>4, CheckMoves DEF Moves
<1> QED
  BY <1>1, <1>5 DEF Snapshots, Snapshot

\* Dequeue says that the queue is empty only if it was, at some time of the call.
THEOREM EmptyTrue == Spec => EmptyIsReal
<1>1. IInv /\ [Next]_vars => [\A t \in Threads : At(t, "check") /\ me'[t].pc = "idle" => me[t].empty]_vars
  BY EmptyStep
<1> QED
  BY <1>1, Invariance, PTL DEF Spec, EmptyIsReal

\* The initial states are those of FifoQueue.
LEMMA FifoInit == Init => Fifo!Init
BY InitIInv DEF Fifo!Init, Init

\* Link is its Put, Take its Get, and no other step changes what is in a queue.
LEMMA FifoStep ==
  ASSUME IInv, [Next]_vars
  PROVE  [Fifo!Next]_<<[i \in Queues |-> Contents(i)], out>>
<1>0. TypeOK /\ Places /\ Snapshots /\ Shaped
  BY DEF IInv
<1> DEFINE items == [i \in Queues |-> Contents(i)]
<1>1. ASSUME \A i \in Queues : Contents(i)' = Contents(i) PROVE items' = items
  BY <1>1
<1>2. PICK c \in Chains, n \in [Queues -> Nat] : Shape(c, n)
  BY <1>0 DEF Shaped
<1>3. CASE UNCHANGED vars
  <2>1. \A i \in Queues : Contents(i)' = Contents(i)
    BY <1>3 DEF Contents
  <2> QED
    BY <1>1, <1>3, <2>1
<1>4. CASE Next
  <2>1. PICK t \in Threads :
            \/ Quiet(t) /\ UNCHANGED <<next, qid, data, pool, unused, head, out>>
            \/ Open(t) /\ me[t].pc = "open" /\ UNCHANGED <<data, head, out>>
            \/ Link(t) /\ IsLast(t) /\ UNCHANGED <<data, head, out>>
            \/ Take(t) /\ t \in headFresh
            \/ \E i \in Queues : CallEnqueue(t, i)
    BY <1>0, <1>4, ChainSteps
  <2>2. CASE Link(t) /\ IsLast(t) /\ out' = out
    <3>1. PICK i \in Queues, v \in Values :
             /\ Contents(i)' = Append(Contents(i), v)
             /\ \A j \in Queues : j # i => Contents(j)' = Contents(j)
      BY <1>0, <2>2, LinkAppends
    <3>2. items' = [items EXCEPT ![i] = Append(@, v)]
      BY <3>1
    <3>3. Fifo!Put(i)
      BY <2>2, <3>2 DEF Fifo!Put
    <3> QED
      BY <3>3 DEF Fifo!Next
  <2>3. CASE Take(t) /\ t \in headFresh
    <3>1. PICK i \in Queues :
             /\ Contents(i) # <<>> /\ Contents(i)' = Tail(Contents(i))
             /\ out' = [out EXCEPT ![i] = Append(@, Head(Contents(i)))]
             /\ \A j \in Queues : j # i => Contents(j)' = Contents(j)
      BY <1>0, <2>3, TakeGets
    <3>2. items' = [items EXCEPT ![i] = Tail(@)] /\ items[i] = Contents(i)
      BY <3>1
    <3>3. Fifo!Get(i)
      BY <3>1, <3>2 DEF Fifo!Get
    <3> QED
      BY <3>3 DEF Fifo!Next
  <2>4. ASSUME \/ Quiet(t) /\ UNCHANGED <<next, qid, data, pool, unused, head, out>>
               \/ Open(t) /\ UNCHANGED <<data, head, out>>
               \/ \E i \in Queues : CallEnqueue(t, i)
        PROVE  items' = items /\ out' = out
    <3>1. out' = out /\ \A i \in Queues : Contents(i)' = Contents(i)
      BY <1>0, <1>2, <2>4, Unlinked
    <3> QED
      BY <1>1, <3>1
  <2> QED
    BY <2>1, <2>2, <2>3, <2>4
<1> QED
  BY <1>3, <1>4

\* Each queue is one: what is taken from it is what was put into it, in that order,
\* and each call takes effect at one step.
THEOREM ImplementsFifo == Spec => FifoSpec
<1>1. Init => Fifo!Init
  BY FifoInit
<1>2. IInv /\ [Next]_vars => [Fifo!Next]_<<[i \in Queues |-> Contents(i)], out>>
  BY FifoStep
<1> QED
  BY <1>1, <1>2, Invariance, PTL DEF Spec, FifoSpec, Fifo!Spec
=============================================================================
