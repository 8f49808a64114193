------------------------- MODULE GroupsUsersProofs --------------------------
(***************************************************************************)
(* Every CUser is accounted for: UsersAccounted of Groups, for every       *)
(* number of connections, messages, users and workers.                     *)
(***************************************************************************)
EXTENDS GroupsProofs, FunctionTheorems

-----------------------------------------------------------------------------
(* The sum over the connections that logged in more than once *)

\* The function of MapThenSumSet: the logins beyond the first, added up.
Added(S, lg) ==
    CHOOSE g : g = [s \in SUBSET S |->
        IF s = {} THEN 0 ELSE (lg[CHOOSE y \in s : TRUE] - 1) + g[s \ {CHOOSE y \in s : TRUE}]]

LEMMA SumIsAdded ==
  ASSUME NEW S
  PROVE  MapThenSumSet(LAMBDA c : logins[c] - 1, S) = Added(S, logins)[S]
BY DEF MapThenSumSet, MapThenFoldSet, Added

\* One pair for each login beyond the first of the connections in s.
Pairs(s, lg) == {x \in Conns \X (1..MaxMsg) : x[1] \in s /\ x[2] <= lg[x[1]] - 1}

\* There are finitely many of them.
LEMMA PairsFinite ==
  ASSUME NEW s, NEW lg
  PROVE  IsFiniteSet(Pairs(s, lg)) /\ Cardinality(Pairs(s, lg)) \in Nat
<1>1. IsFiniteSet(Conns) /\ IsFiniteSet(1..MaxMsg)
  BY Bounds, FS_Interval DEF Conns
<1>2. IsFiniteSet(Conns \X (1..MaxMsg))
  BY <1>1, FS_Product
<1>3. Pairs(s, lg) \in SUBSET (Conns \X (1..MaxMsg))
  BY DEF Pairs
<1> QED
  BY <1>2, <1>3, FS_Subset, FS_CardinalityType

\* One connection brings as many pairs as it has logins beyond the first.
LEMMA PairsOfOne ==
  ASSUME NEW lg \in [Conns -> 0..MaxMsg], NEW s \in SUBSET Conns, NEW x \in s, lg[x] > 1
  PROVE  Cardinality(Pairs(s, lg)) = (lg[x] - 1) + Cardinality(Pairs(s \ {x}, lg))
<1> DEFINE K == 1..(lg[x] - 1)
           C == {x} \X K
           P == Pairs(s \ {x}, lg)
<1>1. x \in Conns /\ lg[x] \in Nat /\ MaxMsg \in Nat /\ lg[x] <= MaxMsg /\ lg[x] - 1 \in Nat
  BY Bounds
<1>2. IsFiniteSet(C) /\ Cardinality(C) = lg[x] - 1
  <2>1. IsFiniteSet(K) /\ Cardinality(K) = lg[x] - 1
    <3>1. 1 \in Int /\ lg[x] - 1 \in Int /\ ~(1 > lg[x] - 1)
      BY <1>1
    <3> QED
      BY <1>1, <3>1, FS_Interval
  <2>2. IsFiniteSet({x}) /\ Cardinality({x}) = 1
    BY FS_Singleton
  <2> HIDE DEF K
  <2>3. IsFiniteSet(C) /\ Cardinality(C) = 1 * (lg[x] - 1)
    BY <2>1, <2>2, FS_Product
  <2> QED
    BY <1>1, <2>3
<1>3. Pairs(s, lg) = C \cup P
  <2>1. ASSUME NEW y \in Conns \X (1..MaxMsg)
        PROVE  y \in Pairs(s, lg) <=> y \in C \/ y \in P
    <3>1. y[1] \in Conns /\ y[2] \in 1..MaxMsg /\ y = <<y[1], y[2]>>
      OBVIOUS
    <3>2. y[1] = x => (y[2] <= lg[y[1]] - 1 <=> y[2] \in K)
      BY <1>1, <3>1
    <3>3. y \in C <=> y[1] = x /\ y[2] \in K
      BY <3>1
    <3> QED
      BY <3>2, <3>3 DEF Pairs
  <2>2. C \subseteq Conns \X (1..MaxMsg)
    BY <1>1
  <2> QED
    BY <2>1, <2>2 DEF Pairs
<1>4. C \cap P = {}
  BY DEF Pairs
<1>5. IsFiniteSet(P) /\ Cardinality(P) \in Nat
  BY PairsFinite
<1> HIDE DEF C, P
<1>6. Cardinality(C \cup P) = Cardinality(C) + Cardinality(P) - Cardinality(C \cap P)
  BY <1>2, <1>5, FS_Union
<1>7. Cardinality(C \cap P) = 0
  BY <1>4, FS_EmptySet
<1> QED
  BY <1>1, <1>2, <1>3, <1>5, <1>6, <1>7 DEF P

\* So the sum is the number of pairs.
LEMMA SumIsPairs ==
  ASSUME NEW lg \in [Conns -> 0..MaxMsg], NEW S \in SUBSET Conns, \A c \in S : lg[c] > 1
  PROVE  Added(S, lg)[S] = Cardinality(Pairs(S, lg))
<1> DEFINE one(s) == CHOOSE y \in s : TRUE
           Next1(g) == [s \in SUBSET S |->
               IF s = {} THEN 0 ELSE (lg[one(s)] - 1) + g[s \ {one(s)}]]
           W == [s \in SUBSET S |-> Cardinality(Pairs(s, lg))]
           V == Added(S, lg)
<1>1. \A s \in SUBSET S : s # {} => one(s) \in s
  OBVIOUS
<1> HIDE DEF one
<1>2. W = Next1(W)
  <2>1. ASSUME NEW s \in SUBSET S, s = {} PROVE W[s] = 0
    <3>1. Pairs(s, lg) = {}
      BY <2>1 DEF Pairs
    <3> QED
      BY <3>1, FS_EmptySet
  <2>2. ASSUME NEW s \in SUBSET S, s # {} PROVE W[s] = (lg[one(s)] - 1) + W[s \ {one(s)}]
    <3>1. one(s) \in s /\ lg[one(s)] > 1 /\ s \in SUBSET Conns
      BY <1>1, <2>2
    <3> QED
      BY <3>1, PairsOfOne
  <2> QED
    BY <2>1, <2>2
<1>3. V = Next1(V)
  <2> HIDE DEF W
  <2>1. \E w : w = Next1(w)
    BY <1>2
  <2> QED
    BY <2>1 DEF Added, one
<1>4. ASSUME NEW s \in SUBSET S, V[s] # W[s] PROVE FALSE
  <2> DEFINE D == {r \in SUBSET S : V[r] # W[r]}
             R == StrictSubsetOrdering(S)
             F == FiniteSubsetsOf(S)
  <2> HIDE DEF V, W
  <2>1. IsWellFoundedOn(R, F)
    BY FS_StrictSubsetOrderingWellFounded
  <2>2. D \subseteq F /\ D # {}
    <3>1. IsFiniteSet(S)
      <4>1. IsFiniteSet(Conns)
        BY Bounds, FS_Interval DEF Conns
      <4> QED
        BY <4>1, FS_Subset
    <3>2. F = SUBSET S
      BY <3>1, FS_FiniteSubsetsOfFinite
    <3> QED
      BY <1>4, <3>2
  <2>3. PICK r \in D : \A q \in D : <<q, r>> \notin R
    <3> HIDE DEF D, R, F
    <3> QED
      BY <2>1, <2>2, WFMin
  <2>4. r \in SUBSET S /\ V[r] # W[r]
    BY <2>3
  <2>5. r # {}
    BY <1>2, <1>3, <2>4
  <2>6. one(r) \in r /\ r \ {one(r)} \in SUBSET S /\ <<r \ {one(r)}, r>> \in R
    BY <1>1, <2>4, <2>5 DEF StrictSubsetOrdering
  <2>7. V[r \ {one(r)}] = W[r \ {one(r)}]
    BY <2>3, <2>6
  <2> QED
    BY <1>2, <1>3, <2>4, <2>5, <2>7
<1> QED
  BY <1>4

\* As many as there are pairs at most, if each connection has no more than its own.
LEMMA SharedOut ==
  ASSUME NEW lg \in [Conns -> 0..MaxMsg], NEW L \in SUBSET Users, NEW o, NEW S,
         S = {c \in Conns : lg[c] > 1}, \A u \in L : o[u] \in Conns,
         \A u \in L : Cardinality({v \in L : o[v] = o[u]}) < lg[o[u]]
  PROVE  Cardinality(L) <= Cardinality(Pairs(S, lg))
<1> DEFINE Bag(c) == {v \in L : o[v] = c}
           n(c) == Cardinality(Bag(c))
           Num(c) == CHOOSE f : f \in Injection(Bag(c), 1..n(c))
           h == [u \in L |-> <<o[u], Num(o[u])[u]>>]
<1>1. IsFiniteSet(L)
  <2>1. IsFiniteSet(Users)
    BY Bounds, FS_Interval DEF Users
  <2> QED
    BY <2>1, FS_Subset
<1>2. ASSUME NEW c PROVE n(c) \in Nat /\ Num(c) \in Injection(Bag(c), 1..n(c))
  <2>1. IsFiniteSet(Bag(c))
    BY <1>1, FS_Subset
  <2> HIDE DEF Bag
  <2>2. n(c) \in Nat /\ ExistsBijection(1..n(c), Bag(c))
    BY <2>1, FS_CardinalityType
  <2> HIDE DEF n
  <2>3. ExistsBijection(Bag(c), 1..n(c))
    BY <2>2, Fun_ExistsBijSymmetric
  <2>4. Injection(Bag(c), 1..n(c)) # {}
    BY <2>3 DEF ExistsBijection, Bijection
  <2> QED
    BY <2>2, <2>4
<1> HIDE DEF Num
<1>3. ASSUME NEW u \in L
      PROVE  /\ h[u] = <<o[u], Num(o[u])[u]>> /\ h[u] \in Pairs(S, lg)
             /\ \A v \in L : h[v] = h[u] => v = u
  <2>1. u \in Bag(o[u]) /\ o[u] \in Conns /\ n(o[u]) < lg[o[u]] /\ lg[o[u]] \in 0..MaxMsg
    OBVIOUS
  <2>2. h[u] = <<o[u], Num(o[u])[u]>>
    OBVIOUS
  <2>3. Num(o[u]) \in [Bag(o[u]) -> 1..n(o[u])] /\ IsInjective(Num(o[u])) /\ n(o[u]) \in Nat
    BY <1>2 DEF Injection
  <2> HIDE DEF n
  <2>4. Num(o[u])[u] \in 1..n(o[u])
    BY <2>1, <2>3
  <2>5. /\ Num(o[u])[u] \in 1..MaxMsg /\ Num(o[u])[u] <= lg[o[u]] - 1 /\ lg[o[u]] > 1
    BY <2>1, <2>3, <2>4, Bounds
  <2>6. h[u] \in Pairs(S, lg)
    BY <2>1, <2>2, <2>5 DEF Pairs
  <2>7. ASSUME NEW v \in L, h[v] = h[u] PROVE v = u
    <3>1. o[v] = o[u] /\ Num(o[v])[v] = Num(o[u])[u]
      BY <2>7
    <3>2. v \in Bag(o[u]) /\ Num(o[u])[v] = Num(o[u])[u]
      BY <3>1
    <3> HIDE DEF Bag
    <3> QED
      BY <2>1, <2>3, <3>2 DEF IsInjective
  <2> QED
    BY <2>2, <2>6, <2>7
<1>4. h \in Injection(L, Pairs(S, lg))
  <2>1. h \in [L -> Pairs(S, lg)]
    BY <1>3
  <2>2. \A u, v \in DOMAIN h : h[u] = h[v] => u = v
    BY <1>3
  <2> HIDE DEF h
  <2> QED
    BY <2>1, <2>2 DEF Injection, IsInjective
<1> HIDE DEF h
<1> QED
  BY <1>4, PairsFinite, FS_Injection

-----------------------------------------------------------------------------
(* The connection of each CUser *)

\* The users that are on their way to CEcho.
Carried == {p.user : p \in {q \in port : q.kind = "move"}}
           \cup {me[t].user : t \in {w \in Workers : Moving(w)}}

\* The users of connection c, by o, and those that nobody keeps.
Owned(o, c) == {u \in inUse : o[u] = c}
Lost(o, c) == Owned(o, c) \ (Carried \cup {echoUser[c]})

\* Where the connection of a user can be seen, it is that of o.
Named(o) ==
    /\ \A u \in inUse : o[u] \in Conns
    /\ \A p \in port : p.kind = "move" => o[p.user] = p.conn
    /\ \A t \in Threads : Moving(t) => o[me[t].user] = me[t].conn
    /\ \A c \in Conns : echoUser[c] # None => o[echoUser[c]] = c

\* A connection has no more users than logins; it loses one only besides the one
\* that CEcho keeps, or has freed when the connection left.
Counted(o, c) ==
    /\ Cardinality(Owned(o, c)) <= logins[c]
    /\ Lost(o, c) # {} => /\ Cardinality(Owned(o, c) \ {echoUser[c]}) < logins[c]
                          /\ echoUser[c] # None \/ c \in left

\* Which connection a lost user was of is no longer in the state.
Owners == [Users -> 0..MaxConn]
Accounted == \E o \in Owners : Named(o) /\ \A c \in Conns : Counted(o, c)

USE DEF table, io, maps, peers, history, bounds, vars, At, Conn

\* Where a user is on its way: in a packet of the port or with a thread.
LEMMA CarriedBy ==
  ASSUME IInv, NEW u
  PROVE  u \in Carried <=> \/ \E p \in port : p.kind = "move" /\ p.user = u
                           \/ \E t \in Threads : Moving(t) /\ me[t].user = u
<1>1. \A t \in Threads : Moving(t) => t \in Workers
  BY PlaceJob DEF Moving
<1>2. Workers \subseteq Threads
  BY DEF Threads
<1> QED
  BY <1>1, <1>2 DEF Carried

\* Sets of users are finite.
LEMMA UsersFinite ==
  ASSUME NEW S \in SUBSET Users
  PROVE  IsFiniteSet(S) /\ Cardinality(S) \in Nat
<1>1. IsFiniteSet(Users)
  BY Bounds, FS_Interval DEF Users
<1> QED
  BY <1>1, FS_Subset, FS_CardinalityType

\* The user CEcho keeps is one of its connection.
LEMMA KeptIsOwned ==
  ASSUME IInv, NEW o, Named(o), NEW c \in Conns, echoUser[c] # None
  PROVE  echoUser[c] \in Owned(o, c)
BY TypeFacts DEF Named, Owned, UserOnce

\* The users of a connection and their number.
LEMMA OwnedFacts ==
  ASSUME IInv, NEW o, NEW c \in Conns
  PROVE  /\ Owned(o, c) \in SUBSET Users /\ Cardinality(Owned(o, c)) \in Nat
         /\ logins[c] \in Nat /\ Owned(o, c) \ {echoUser[c]} \in SUBSET Users
         /\ Cardinality(Owned(o, c) \ {echoUser[c]}) \in Nat
<1>1. inUse \subseteq Users /\ logins[c] \in Nat
  BY TypeFacts
<1>2. Owned(o, c) \in SUBSET Users
  BY <1>1 DEF Owned
<1> QED
  BY <1>1, <1>2, UsersFinite

\* Then it is as UsersAccounted says: each lost user is one of the logins beyond
\* the first of its connection.
LEMMA AccountedSums ==
  ASSUME IInv, Accounted
  PROVE  UsersAccounted
<1> DEFINE L == inUse \ (Carried \cup {echoUser[c] : c \in Conns})
           S == {c \in Conns : logins[c] > 1}
<1>1. PICK o \in Owners : Named(o) /\ \A c \in Conns : Counted(o, c)
  BY DEF Accounted
<1>2. inUse \subseteq Users /\ logins \in [Conns -> 0..MaxMsg] /\ L \in SUBSET Users
  BY TypeFacts DEF IInv, TypeOK
<1>3. ASSUME NEW u \in L
      PROVE  o[u] \in Conns /\ Cardinality({v \in L : o[v] = o[u]}) < logins[o[u]]
  <2>1. PICK c \in Conns : c = o[u]
    BY <1>1 DEF Named
  <2>2. u \in Lost(o, c)
    BY <2>1 DEF Lost, Owned
  <2>3. Cardinality(Owned(o, c) \ {echoUser[c]}) < logins[c]
    BY <1>1, <2>2 DEF Counted
  <2>4. {v \in L : o[v] = c} \in SUBSET (Owned(o, c) \ {echoUser[c]})
    BY DEF Owned
  <2>5. /\ IsFiniteSet(Owned(o, c) \ {echoUser[c]}) /\ Cardinality(Owned(o, c) \ {echoUser[c]}) \in Nat
        /\ logins[c] \in Nat /\ Cardinality({v \in L : o[v] = c}) \in Nat
    <3>1. {v \in L : o[v] = c} \in SUBSET Users
      BY <1>2
    <3> HIDE DEF L
    <3> QED
      BY <3>1, OwnedFacts, UsersFinite
  <2>6. Cardinality({v \in L : o[v] = c}) <= Cardinality(Owned(o, c) \ {echoUser[c]})
    <3> HIDE DEF L
    <3> QED
      BY <2>4, <2>5, FS_Subset
  <2>7. Cardinality({v \in L : o[v] = c}) < logins[c]
    <3> HIDE DEF L
    <3> QED
      BY <2>3, <2>5, <2>6
  <2> QED
    BY <2>1, <2>7
<1> HIDE DEF L
<1>4. Cardinality(L) <= Cardinality(Pairs(S, logins))
  BY <1>2, <1>3, SharedOut
<1>5. Added(S, logins)[S] = Cardinality(Pairs(S, logins))
  BY <1>2, SumIsPairs
<1>6. MapThenSumSet(LAMBDA c : logins[c] - 1, S) = Added(S, logins)[S]
  BY SumIsAdded
<1>7. Cardinality(L) <= MapThenSumSet(LAMBDA c : logins[c] - 1, S)
  BY <1>4, <1>5, <1>6
<1> QED
  BY <1>7 DEF UsersAccounted, Carried, L

-----------------------------------------------------------------------------
(* What each step does to the users *)

\* Thread t stays outside of a move, or goes on with one.
SameMoving(t) ==
    /\ Moving(t)' <=> Moving(t)
    /\ Moving(t) => me'[t].user = me[t].user /\ me'[t].conn = me[t].conn

\* A step that neither allocates, delivers nor frees a user.
Quiet ==
    /\ UNCHANGED <<inUse, echoUser, logins>> /\ left \subseteq left'
    /\ \A q : q.kind = "move" => (q \in port' <=> q \in port)
    /\ \A t \in Threads : SameMoving(t)

\* Such a step leaves all as it is.
LEMMA QuietKeeps ==
  ASSUME IInv, IInv', Accounted, Quiet
  PROVE  Accounted'
<1>1. PICK o \in Owners : Named(o) /\ \A c \in Conns : Counted(o, c)
  BY DEF Accounted
<1>2. Named(o)'
  BY <1>1 DEF Quiet, SameMoving, Named
<1>3. Carried' = Carried
  <2>1. \A t \in Threads : (Moving(t)' <=> Moving(t)) /\ (Moving(t) => me'[t].user = me[t].user)
    BY DEF Quiet, SameMoving
  <2>2. \A t \in Threads : Moving(t) => t \in Workers
    BY PlaceJob DEF Moving
  <2>3. \A t \in Workers : t \in Threads
    BY DEF Threads
  <2>4. {q \in port' : q.kind = "move"} = {q \in port : q.kind = "move"}
    BY DEF Quiet
  <2>5. {me'[t].user : t \in {w \in Workers : Moving(w)'}} = {me[t].user : t \in {w \in Workers : Moving(w)}}
    BY <2>1, <2>3
  <2> QED
    BY <2>4, <2>5 DEF Carried
<1>4. ASSUME NEW c \in Conns PROVE Counted(o, c)'
  <2>1. Owned(o, c)' = Owned(o, c) /\ Lost(o, c)' = Lost(o, c) /\ logins' = logins /\ echoUser' = echoUser
        /\ left \subseteq left'
    BY <1>3 DEF Quiet, Owned, Lost
  <2> QED
    BY <1>1, <2>1 DEF Counted
<1> QED
  BY <1>1, <1>2, <1>4 DEF Accounted

\* No other thread is concerned.
LEMMA OthersMoving ==
  ASSUME NEW t \in Threads, Others(t), SameMoving(t)
  PROVE  \A u \in Threads : SameMoving(u)
BY DEF Others, SameMoving, Moving

\* All but four kinds of steps are of that kind.
LEMMA QuietSteps ==
  ASSUME IInv, NoScan, [Next]_vars
  PROVE  \/ Quiet
         \/ \E t \in Threads : OnRecv(t) \/ OnIUserMove(t) \/ OnClientLeave(t)
         \/ \E t \in Threads : \E p \in port : TakeMove(t, p)
<1>0. IInv /\ port \subseteq Packets
  BY TypeFacts
<1>1. ASSUME NEW t \in Threads, Others(t), SameMoving(t), UNCHANGED <<inUse, echoUser, logins, left>>,
             \A q : q.kind = "move" => (q \in port' <=> q \in port)
      PROVE  Quiet
  BY <1>1, OthersMoving DEF Quiet
<1>2. ASSUME me' = me, UNCHANGED <<inUse, echoUser, logins, left>>,
             \A q : q.kind = "move" => (q \in port' <=> q \in port)
      PROVE  Quiet
  BY <1>2 DEF Quiet, SameMoving, Moving
<1>3. ASSUME NEW t \in Threads, Accept(t) PROVE Quiet
  <2>1. /\ Others(t) /\ UNCHANGED <<inUse, echoUser, logins, left>>
        /\ \A q : q.kind = "move" => (q \in port' <=> q \in port)
    BY <1>3, AcceptMoves DEF Begun
  <2>2. SameMoving(t)
    BY <1>3, AcceptMoves, IdleWork, PlaceJob DEF Begun, SameMoving, Moving
  <2> QED
    BY <1>1, <2>1, <2>2
<1>4. ASSUME NEW t \in Threads, OnClientJoin(t) PROVE Quiet
  <2>1. /\ Others(t) /\ UNCHANGED <<inUse, echoUser, logins, left>>
        /\ \A q : q.kind = "move" => (q \in port' <=> q \in port)
    BY <1>4, OnClientJoinMoves DEF Moves, SameWork
  <2>2. SameMoving(t)
    BY <1>4, OnClientJoinMoves, IdleWork, PlaceJob DEF Moves, SameWork, SameMoving, Moving
  <2> QED
    BY <1>1, <2>1, <2>2
<1>5. ASSUME NEW t \in Threads, Post(t) PROVE Quiet
  <2>p. PICK place \in {"give", "wsa"} : Moves(t, place)
    BY <1>5, PostMoves
  <2>1. /\ Others(t) /\ UNCHANGED <<inUse, echoUser, logins, left>>
        /\ \A q : q.kind = "move" => (q \in port' <=> q \in port)
    BY <1>5, <2>p, PostMoves DEF Moves, SameWork
  <2>2. SameMoving(t)
    BY <1>5, <2>p, PostMoves, IdleWork, PlaceJob DEF Moves, SameWork, SameMoving, Moving
  <2> QED
    BY <1>1, <2>1, <2>2
<1>5a. ASSUME NEW t \in Threads, InitCount(t) PROVE Quiet
  <2>1. /\ Others(t) /\ UNCHANGED <<inUse, echoUser, logins, left>>
        /\ \A q : q.kind = "move" => (q \in port' <=> q \in port)
    BY <1>5a, InitCountMoves DEF Moves, SameWork
  <2>2. SameMoving(t)
    BY <1>5a, InitCountMoves, IdleWork, PlaceJob DEF Moves, SameWork, SameMoving, Moving
  <2> QED
    BY <1>1, <2>1, <2>2
<1>5b. ASSUME NEW t \in Threads, InitOpen(t) PROVE Quiet
  <2>1. /\ Others(t) /\ UNCHANGED <<inUse, echoUser, logins, left>>
        /\ \A q : q.kind = "move" => (q \in port' <=> q \in port)
    BY <1>5b, InitOpenMoves DEF Moves, SameWork
  <2>2. SameMoving(t)
    BY <1>5b, InitOpenMoves, IdleWork, PlaceJob DEF Moves, SameWork, SameMoving, Moving
  <2> QED
    BY <1>1, <2>1, <2>2
<1>5c. ASSUME NEW t \in Threads, PostRecv(t) PROVE Quiet
  <2>1. /\ Others(t) /\ UNCHANGED <<inUse, echoUser, logins, left>>
        /\ \A q : q.kind = "move" => (q \in port' <=> q \in port)
    BY <1>5c, PostRecvMoves DEF Moves, SameWork
  <2>2. SameMoving(t)
    BY <1>5c, PostRecvMoves, IdleWork, PlaceJob DEF Moves, SameWork, SameMoving, Moving
  <2> QED
    BY <1>1, <2>1, <2>2
<1>6. ASSUME NEW t \in Threads, Give(t) PROVE Quiet
  <2>1. /\ Others(t) /\ UNCHANGED <<inUse, echoUser, logins, left>>
        /\ \A q : q.kind = "move" => (q \in port' <=> q \in port)
    BY <1>6, GiveMoves DEF Rests
  <2>2. SameMoving(t)
    BY <1>6, GiveMoves, IdleWork, PlaceJob DEF Rests, SameMoving, Moving
  <2> QED
    BY <1>1, <2>1, <2>2
<1>7. ASSUME NEW t \in Threads, NEW s \in Slots, TakeRecv(t, s) PROVE Quiet
  <2>1. /\ Others(t) /\ UNCHANGED <<inUse, echoUser, logins, left>>
        /\ \A q : q.kind = "move" => (q \in port' <=> q \in port)
    BY <1>7, TakeRecvMoves DEF Begun
  <2>2. SameMoving(t)
    BY <1>7, TakeRecvMoves, IdleWork, PlaceJob DEF Begun, SameMoving, Moving
  <2> QED
    BY <1>1, <2>1, <2>2
<1>8. ASSUME NEW t \in Threads, NextMessage(t) PROVE Quiet
  <2>1. /\ Others(t) /\ UNCHANGED <<inUse, echoUser, logins, left>>
        /\ \A q : q.kind = "move" => (q \in port' <=> q \in port)
    BY <1>8, NextMessageMoves
  <2>2. SameMoving(t)
    BY <1>8, NextMessageMoves, IdleWork, PlaceJob DEF SameMoving, Moving
  <2> QED
    BY <1>1, <2>1, <2>2
<1>9. ASSUME NEW t \in Threads, RecvLock(t) PROVE Quiet
  <2>1. /\ Others(t) /\ UNCHANGED <<inUse, echoUser, logins, left>>
        /\ \A q : q.kind = "move" => (q \in port' <=> q \in port)
    BY <1>9, RecvLockMoves DEF Moves, SameWork
  <2>2. SameMoving(t)
    BY <1>9, RecvLockMoves, IdleWork, PlaceJob DEF Moves, SameWork, SameMoving, Moving
  <2> QED
    BY <1>1, <2>1, <2>2
<1>10. ASSUME NEW t \in Threads, Unlock(t) PROVE Quiet
  <2>1. /\ Others(t) /\ UNCHANGED <<inUse, echoUser, logins, left>>
        /\ \A q : q.kind = "move" => (q \in port' <=> q \in port)
    BY <1>10, UnlockMoves DEF Moves, Rests, SameWork
  <2>2. SameMoving(t)
    BY <1>10, UnlockMoves, IdleWork, PlaceJob DEF Moves, Rests, SameWork, SameMoving, Moving
  <2> QED
    BY <1>1, <2>1, <2>2
<1>11. ASSUME NEW t \in Threads, NEW p \in port, TakeRelease(t, p) PROVE Quiet
  <2>1. /\ Others(t) /\ UNCHANGED <<inUse, echoUser, logins, left>>
        /\ \A q : q.kind = "move" => (q \in port' <=> q \in port)
    BY <1>11, TakeReleaseMoves DEF Begun
  <2>2. SameMoving(t)
    BY <1>11, TakeReleaseMoves, IdleWork, PlaceJob DEF Begun, SameMoving, Moving
  <2> QED
    BY <1>1, <2>1, <2>2
<1>12. ASSUME NEW t \in Threads, NEW p \in port, TakeFrame(t, p) PROVE Quiet
  <2>1. /\ Others(t) /\ UNCHANGED <<inUse, echoUser, logins, left>>
        /\ \A q : q.kind = "move" => (q \in port' <=> q \in port)
    BY <1>12, TakeFrameMoves DEF Begun
  <2>2. SameMoving(t)
    BY <1>12, TakeFrameMoves, IdleWork, PlaceJob DEF Begun, SameMoving, Moving
  <2> QED
    BY <1>1, <2>1, <2>2
<1>13. ASSUME NEW t \in Threads, MoveLock(t) PROVE Quiet
  <2>1. /\ Others(t) /\ UNCHANGED <<inUse, echoUser, logins, left>>
        /\ \A q : q.kind = "move" => (q \in port' <=> q \in port)
    BY <1>13, MoveLockMoves DEF Moves, SameWork
  <2>2. SameMoving(t)
    BY <1>13, MoveLockMoves, IdleWork, PlaceJob DEF Moves, SameWork, SameMoving, Moving
  <2> QED
    BY <1>1, <2>1, <2>2
<1>14. ASSUME NEW t \in Threads, SetGroup(t) PROVE Quiet
  <2>1. /\ Others(t) /\ UNCHANGED <<inUse, echoUser, logins, left>>
        /\ \A q : q.kind = "move" => (q \in port' <=> q \in port)
    BY <1>14, SetGroupMoves DEF Moves, SameWork
  <2>2. SameMoving(t)
    BY <1>14, SetGroupMoves, IdleWork, PlaceJob DEF Moves, SameWork, SameMoving, Moving
  <2> QED
    BY <1>1, <2>1, <2>2
<1>15. ASSUME NEW t \in Threads, Push(t) PROVE Quiet
  <2>1. /\ Others(t) /\ UNCHANGED <<inUse, echoUser, logins, left>>
        /\ \A q : q.kind = "move" => (q \in port' <=> q \in port)
    BY <1>15, PushMoves DEF Rests
  <2>2. SameMoving(t)
    BY <1>15, PushMoves, IdleWork, PlaceJob DEF Rests, SameMoving, Moving
  <2> QED
    BY <1>1, <2>1, <2>2
<1>16. ASSUME NEW t \in Threads, FrameLock(t) PROVE Quiet
  <2>1. /\ Others(t) /\ UNCHANGED <<inUse, echoUser, logins, left>>
        /\ \A q : q.kind = "move" => (q \in port' <=> q \in port)
    BY <1>16, FrameLockMoves DEF Moves, SameWork
  <2>2. SameMoving(t)
    BY <1>16, FrameLockMoves, IdleWork, PlaceJob DEF Moves, SameWork, SameMoving, Moving
  <2> QED
    BY <1>1, <2>1, <2>2
<1>17. ASSUME NEW t \in Threads, SetDC(t) PROVE Quiet
  <2>1. /\ Others(t) /\ UNCHANGED <<inUse, echoUser, logins, left>>
        /\ \A q : q.kind = "move" => (q \in port' <=> q \in port)
    BY <1>17, SetDCMoves DEF Moves, SameWork
  <2>2. SameMoving(t)
    BY <1>17, SetDCMoves, IdleWork, PlaceJob DEF Moves, SameWork, SameMoving, Moving
  <2> QED
    BY <1>1, <2>1, <2>2
<1>18. ASSUME NEW t \in Threads, Cancel(t) PROVE Quiet
  <2>1. /\ Others(t) /\ UNCHANGED <<inUse, echoUser, logins, left>>
        /\ \A q : q.kind = "move" => (q \in port' <=> q \in port)
    BY <1>18, CancelMoves DEF Moves, SameWork
  <2>2. SameMoving(t)
    BY <1>18, CancelMoves, IdleWork, PlaceJob DEF Moves, SameWork, SameMoving, Moving
  <2> QED
    BY <1>1, <2>1, <2>2
<1>19. ASSUME NEW t \in Threads, NEW s \in Slots, Enter(t, s) PROVE Quiet
  <2>1. /\ Others(t) /\ UNCHANGED <<inUse, echoUser, logins, left>>
        /\ \A q : q.kind = "move" => (q \in port' <=> q \in port)
    BY <1>19, EnterMoves DEF Begun
  <2>2. SameMoving(t)
    BY <1>19, EnterMoves, IdleWork, PlaceJob DEF Begun, SameMoving, Moving
  <2> QED
    BY <1>1, <2>1, <2>2
<1>20. ASSUME NEW g \in Groups, PostFrame(g) PROVE Quiet
  <2>1. /\ me' = me /\ UNCHANGED <<inUse, echoUser, logins, left>>
        /\ \A q : q.kind = "move" => (q \in port' <=> q \in port)
    BY <1>20 DEF PostFrame
  <2> QED
    BY <1>2, <2>1
<1>21. ASSUME NEW s \in Slots, PeerCloses(s) PROVE Quiet
  <2>1. /\ me' = me /\ UNCHANGED <<inUse, echoUser, logins, left>>
        /\ \A q : q.kind = "move" => (q \in port' <=> q \in port)
    BY <1>21 DEF PeerCloses
  <2> QED
    BY <1>2, <2>1
<1>22. ASSUME NEW s \in Slots, RecvEnds(s) PROVE Quiet
  <2>1. /\ me' = me /\ UNCHANGED <<inUse, echoUser, logins, left>>
        /\ \A q : q.kind = "move" => (q \in port' <=> q \in port)
    BY <1>22 DEF RecvEnds
  <2> QED
    BY <1>2, <2>1
<1>23. ASSUME NEW s \in Slots, NEW k \in 1..MaxMsg, PeerSends(s, k) PROVE Quiet
  <2>1. /\ me' = me /\ UNCHANGED <<inUse, echoUser, logins, left>>
        /\ \A q : q.kind = "move" => (q \in port' <=> q \in port)
    BY <1>23 DEF PeerSends
  <2> QED
    BY <1>2, <2>1
<1>24. ASSUME UNCHANGED vars PROVE Quiet
  BY <1>2, <1>24
<1> QED
  BY <1>3, <1>4, <1>5, <1>5a, <1>5b, <1>5c, <1>6, <1>7, <1>8, <1>9, <1>10, <1>11, <1>12, <1>13,
     <1>14, <1>15, <1>16, <1>17, <1>18, <1>19, <1>20, <1>21, <1>22, <1>23, <1>24, StepCases

\* A login brings its connection a user that nobody had.
LEMMA LoginKeeps ==
  ASSUME IInv, IInv', Accounted, NEW t \in Threads, OnRecv(t)
  PROVE  Accounted'
<1>1. PICK o \in Owners : Named(o) /\ \A c \in Conns : Counted(o, c)
  BY DEF Accounted
<1>2. PICK b \in Conns : b = Conn(t)
  BY OnRecvMoves, OwnSlot
<1>3. /\ echoUser' = echoUser /\ left' = left /\ Others(t) /\ ~Moving(t) /\ ~Moving(t)'
  BY OnRecvMoves DEF Moves, SameWork, Moving
<1>4. \A w \in Threads : /\ Moving(w)' <=> Moving(w)
                         /\ Moving(w) => me'[w].user = me[w].user /\ me'[w].conn = me[w].conn
  BY <1>3 DEF Moving, Others
<1>5. CASE UNCHANGED <<port, inUse, logins>>
  <2>1. Quiet
    BY <1>3, <1>4, <1>5 DEF Quiet, SameMoving
  <2> QED
    BY <2>1, QuietKeeps
<1>6. ASSUME NEW u \in Users \ inUse, inUse' = inUse \cup {u},
             port' = port \cup {[kind |-> "move", slot |-> me[t].slot, conn |-> Conn(t), user |-> u]},
             logins' = [logins EXCEPT ![Conn(t)] = @ + 1]
      PROVE  Accounted'
  <2>1. PICK o2 \in Owners : o2[u] = b /\ \A v \in Users : v # u => o2[v] = o[v]
    <3>1. b \in 0..MaxConn
      BY Bounds DEF Conns
    <3>2. [o EXCEPT ![u] = b] \in Owners
      BY <3>1 DEF Owners
    <3> QED
      BY <3>2 DEF Owners
  <2>2. /\ inUse \subseteq Users /\ None \notin Users /\ UserOnce /\ logins \in [Conns -> Nat]
        /\ \A c \in Conns : echoUser[c] # u
    BY <1>6, TypeFacts DEF UserOnce
  <2>3. \A p \in port' : p.kind = "move" => p \in port \/ (p.user = u /\ p.conn = b)
    BY <1>2, <1>6
  <2>4. /\ \A p \in port : p.kind = "move" => p.user \in inUse
        /\ \A w \in Threads : Moving(w) => me[w].user \in inUse
        /\ \A c \in Conns : echoUser[c] # None => echoUser[c] \in inUse
    BY <2>2 DEF UserOnce
  <2>5. Named(o2)'
    <3>1. \A v \in inUse' : o2[v] \in Conns
      BY <1>1, <1>6, <2>1, <2>2 DEF Named
    <3>2. \A p \in port' : p.kind = "move" => o2[p.user] = p.conn
      BY <1>1, <1>6, <2>1, <2>2, <2>3, <2>4 DEF Named
    <3>3. \A w \in Threads : Moving(w)' => o2[me'[w].user] = me'[w].conn
      BY <1>1, <1>4, <1>6, <2>1, <2>2, <2>4 DEF Named
    <3>4. \A c \in Conns : echoUser'[c] # None => o2[echoUser'[c]] = c
      BY <1>1, <1>3, <1>6, <2>1, <2>2, <2>4 DEF Named
    <3> QED
      BY <3>1, <3>2, <3>3, <3>4 DEF Named
  <2>6. \A v : v \in Carried => v \in Carried'
    <3>1. ASSUME NEW q \in port, q.kind = "move" PROVE q.user \in Carried'
      <4>1. q \in {r \in port' : r.kind = "move"}
        BY <1>6, <3>1
      <4> QED
        BY <4>1 DEF Carried
    <3>2. ASSUME NEW w \in Threads, Moving(w) PROVE me[w].user \in Carried'
      <4>1. w \in Workers /\ Moving(w)' /\ me'[w].user = me[w].user
        BY <1>4, <3>2, PlaceJob DEF Moving
      <4> QED
        BY <4>1 DEF Carried
    <3> QED
      BY <3>1, <3>2, CarriedBy
  <2>7. u \in Carried'
    <3>1. [kind |-> "move", slot |-> me[t].slot, conn |-> Conn(t), user |-> u] \in {q \in port' : q.kind = "move"}
      BY <1>6
    <3> QED
      BY <3>1 DEF Carried
  <2>8. \A c \in Conns : Owned(o2, c)' = IF c = b THEN Owned(o, c) \cup {u} ELSE Owned(o, c)
    BY <1>6, <2>1, <2>2 DEF Owned
  <2>9. \A c \in Conns : Lost(o2, c)' \subseteq Lost(o, c)
    BY <1>3, <2>6, <2>7, <2>8 DEF Lost
  <2>10. ASSUME NEW c \in Conns PROVE Counted(o2, c)'
    <3>1. Counted(o, c)
      BY <1>1
    <3>2. CASE c # b
      <4>1. Owned(o2, c)' = Owned(o, c) /\ logins'[c] = logins[c] /\ echoUser'[c] = echoUser[c] /\ left' = left
        BY <1>2, <1>3, <1>6, <2>2, <2>8, <3>2
      <4> QED
        BY <2>9, <3>1, <4>1 DEF Counted
    <3>3. CASE c = b
      <4>1. Owned(o2, c)' = Owned(o, c) \cup {u} /\ logins'[c] = logins[c] + 1 /\ echoUser'[c] = echoUser[c]
            /\ left' = left
        BY <1>2, <1>3, <1>6, <2>2, <2>8, <3>3
      <4>2. /\ (Owned(o, c) \cup {u}) \ {echoUser[c]} = (Owned(o, c) \ {echoUser[c]}) \cup {u}
            /\ u \notin Owned(o, c)
        BY <1>6, <2>2 DEF Owned
      <4>3. /\ Cardinality(Owned(o, c) \cup {u}) = Cardinality(Owned(o, c)) + 1
            /\ Cardinality((Owned(o, c) \ {echoUser[c]}) \cup {u}) = Cardinality(Owned(o, c) \ {echoUser[c]}) + 1
        BY <4>2, OwnedFacts, UsersFinite, FS_AddElement
      <4>4. /\ Cardinality(Owned(o, c)) \in Nat /\ Cardinality(Owned(o, c) \ {echoUser[c]}) \in Nat
            /\ logins[c] \in Nat
        BY OwnedFacts
      <4>5. Cardinality(Owned(o2, c)') <= logins'[c]
        <5>1. Cardinality(Owned(o, c)) <= logins[c]
          BY <3>1 DEF Counted
        <5> QED
          BY <4>1, <4>3, <4>4, <5>1
      <4>6. ASSUME Lost(o2, c)' # {}
            PROVE  /\ Cardinality(Owned(o2, c)' \ {echoUser'[c]}) < logins'[c]
                   /\ echoUser'[c] # None \/ c \in left'
        <5>1. Lost(o, c) # {}
          BY <2>9, <4>6
        <5>2. /\ Cardinality(Owned(o, c) \ {echoUser[c]}) < logins[c]
              /\ echoUser[c] # None \/ c \in left
          BY <3>1, <5>1 DEF Counted
        <5>3. Owned(o2, c)' \ {echoUser'[c]} = (Owned(o, c) \ {echoUser[c]}) \cup {u}
          BY <4>1, <4>2
        <5>4. Cardinality((Owned(o, c) \ {echoUser[c]}) \cup {u}) < logins[c] + 1
          BY <4>3, <4>4, <5>2
        <5> QED
          BY <4>1, <5>2, <5>3, <5>4
      <4> QED
        BY <4>5, <4>6 DEF Counted
    <3> QED
      BY <3>2, <3>3
  <2> QED
    BY <2>5, <2>10 DEF Accounted
<1> QED
  BY <1>5, <1>6, OnRecvMoves

\* GroupMoveProc takes a user out of the port and carries it on.
LEMMA TakeMoveKeeps ==
  ASSUME IInv, IInv', Accounted, NEW t \in Threads, NEW p \in port, TakeMove(t, p)
  PROVE  Accounted'
<1>1. PICK o \in Owners : Named(o) /\ \A c \in Conns : Counted(o, c)
  BY DEF Accounted
<1>2. /\ p.kind = "move" /\ Begun(t, "lock", p.slot, "move") /\ me'[t].user = p.user /\ me'[t].conn = p.conn
      /\ port' = port \ {p} /\ UNCHANGED <<inUse, echoUser, logins, left>> /\ t \in Workers
  BY TakeMoveMoves
<1>3. Others(t) /\ ~Moving(t) /\ Moving(t)'
  BY <1>2 DEF Begun, Moving
<1>4. \A w \in Threads : w # t => /\ Moving(w)' <=> Moving(w)
                                  /\ me'[w].user = me[w].user /\ me'[w].conn = me[w].conn
  BY <1>3 DEF Moving, Others
<1>5. Named(o)'
  BY <1>1, <1>2, <1>4 DEF Named
<1>6. \A v : v \in Carried => v \in Carried'
  <2>1. ASSUME NEW q \in port, q.kind = "move" PROVE q.user \in Carried'
    <3>1. CASE q = p
      BY <1>2, <1>3, <3>1 DEF Carried
    <3>2. CASE q # p
      <4>1. q \in {r \in port' : r.kind = "move"}
        BY <1>2, <2>1, <3>2
      <4> QED
        BY <4>1 DEF Carried
    <3> QED
      BY <3>1, <3>2
  <2>2. ASSUME NEW w \in Threads, Moving(w) PROVE me[w].user \in Carried'
    <3>1. w # t /\ w \in Workers
      BY <1>3, <2>2, PlaceJob DEF Moving
    <3>2. Moving(w)' /\ me'[w].user = me[w].user
      BY <1>4, <2>2, <3>1
    <3> QED
      BY <3>1, <3>2 DEF Carried
  <2> QED
    BY <2>1, <2>2, CarriedBy
<1>7. ASSUME NEW c \in Conns PROVE Counted(o, c)'
  <2>1. Owned(o, c)' = Owned(o, c) /\ Lost(o, c)' \subseteq Lost(o, c)
    BY <1>2, <1>6 DEF Owned, Lost
  <2> QED
    BY <1>1, <1>2, <2>1 DEF Counted
<1> QED
  BY <1>1, <1>5, <1>7 DEF Accounted

\* OnIUserMove hands the user to CEcho, which has one already or never lost one.
LEMMA MovedKeeps ==
  ASSUME IInv, IInv', Accounted, NEW t \in Threads, OnIUserMove(t)
  PROVE  Accounted'
<1>1. PICK o \in Owners : Named(o) /\ \A c \in Conns : Counted(o, c)
  BY DEF Accounted
<1>2. PICK b \in Conns, u \in Users : b = me[t].conn /\ u = me[t].user
  BY OnIUserMoveMoves
<1>3. /\ me[t].pc = "user" /\ me[t].job = "move" /\ Moves(t, "unlock") /\ Conn(t) = b
      /\ echoUser'[b] = (IF echoUser[b] = None THEN u ELSE echoUser[b])
      /\ \A c \in Conns : c # b => echoUser'[c] = echoUser[c]
      /\ UNCHANGED <<port, inUse, logins, left>>
  BY <1>2, OnIUserMoveMoves
<1>4. b \notin left
  BY <1>3, OwnSlot
<1>5. Others(t) /\ Moving(t) /\ ~Moving(t)'
  BY <1>3 DEF Moves, SameWork, Moving
<1>6. \A w \in Threads : w # t => /\ Moving(w)' <=> Moving(w)
                                  /\ me'[w].user = me[w].user /\ me'[w].conn = me[w].conn
  BY <1>5 DEF Moving, Others
<1>7. o[u] = b /\ u # None
  BY <1>1, <1>2, <1>5, TypeFacts DEF Named
<1>8. Named(o)'
  <2>1. /\ \A v \in inUse' : o[v] \in Conns
        /\ \A p \in port' : p.kind = "move" => o[p.user] = p.conn
    BY <1>1, <1>3 DEF Named
  <2>2. \A w \in Threads : Moving(w)' => o[me'[w].user] = me'[w].conn
    BY <1>1, <1>5, <1>6 DEF Named
  <2>3. \A c \in Conns : echoUser'[c] # None => o[echoUser'[c]] = c
    BY <1>1, <1>3, <1>7 DEF Named
  <2> QED
    BY <2>1, <2>2, <2>3 DEF Named
<1>9. \A v : v \in Carried => v \in Carried' \/ v = u
  <2>1. ASSUME NEW q \in port, q.kind = "move" PROVE q.user \in Carried'
    BY <1>3, <2>1 DEF Carried
  <2>2. ASSUME NEW w \in Threads, Moving(w) PROVE me[w].user \in Carried' \/ me[w].user = u
    <3>1. CASE w = t
      BY <1>2, <3>1
    <3>2. CASE w # t
      <4>1. w \in Workers /\ Moving(w)' /\ me'[w].user = me[w].user
        BY <1>6, <2>2, <3>2, PlaceJob DEF Moving
      <4> QED
        BY <4>1 DEF Carried
    <3> QED
      BY <3>1, <3>2
  <2> QED
    BY <2>1, <2>2, CarriedBy
<1>10. \A c \in Conns : Owned(o, c)' = Owned(o, c) /\ (c # b => u \notin Owned(o, c))
  BY <1>3, <1>7 DEF Owned
<1>11. ASSUME NEW c \in Conns PROVE Counted(o, c)'
  <2>1. Counted(o, c)
    BY <1>1
  <2>2. CASE c # b
    <3>1. Lost(o, c)' \subseteq Lost(o, c) /\ echoUser'[c] = echoUser[c]
      BY <1>3, <1>9, <1>10, <2>2 DEF Lost
    <3> QED
      BY <1>3, <1>10, <2>1, <3>1 DEF Counted
  <2>3. CASE c = b /\ echoUser[b] = None
    <3>1. Lost(o, c) = {}
      BY <1>4, <2>1, <2>3 DEF Counted
    <3>2. Lost(o, c)' = {}
      <4>1. echoUser'[c] = u /\ None \notin Owned(o, c)
        <5>1. None \notin inUse
          BY TypeFacts
        <5> QED
          BY <1>3, <2>3, <5>1 DEF Owned
      <4>2. echoUser[c] = None /\ Owned(o, c)' = Owned(o, c)
        BY <1>10, <2>3
      <4>3. Lost(o, c)' \subseteq Lost(o, c)
        <5>1. Lost(o, c)' = Owned(o, c) \ (Carried' \cup {u})
          BY <4>1, <4>2 DEF Lost
        <5>2. Lost(o, c) = Owned(o, c) \ Carried
          BY <4>1, <4>2 DEF Lost
        <5> QED
          BY <1>9, <5>1, <5>2
      <4> QED
        BY <3>1, <4>3
    <3> QED
      BY <1>3, <1>10, <2>1, <3>2 DEF Counted
  <2>4. CASE c = b /\ echoUser[b] # None
    <3>1. echoUser'[c] = echoUser[c] /\ echoUser[c] \in Owned(o, c)
      BY <1>1, <1>3, <2>4, KeptIsOwned
    <3>2. Cardinality(Owned(o, c) \ {echoUser[c]}) = Cardinality(Owned(o, c)) - 1
      BY <3>1, OwnedFacts, UsersFinite, FS_RemoveElement
    <3>3. Cardinality(Owned(o, c)) \in Nat /\ logins[c] \in Nat /\ Cardinality(Owned(o, c)) <= logins[c]
      BY <2>1, OwnedFacts DEF Counted
    <3>4. /\ Owned(o, c)' = Owned(o, c) /\ Owned(o, c)' \ {echoUser'[c]} = Owned(o, c) \ {echoUser[c]}
          /\ logins'[c] = logins[c] /\ echoUser'[c] # None
      BY <1>3, <1>10, <2>4, <3>1
    <3>5. Cardinality(Owned(o, c) \ {echoUser[c]}) < logins[c]
      BY <3>2, <3>3
    <3>6. Cardinality(Owned(o, c)') <= logins'[c] /\ Cardinality(Owned(o, c)' \ {echoUser'[c]}) < logins'[c]
      BY <3>3, <3>4, <3>5
    <3> QED
      BY <3>4, <3>6 DEF Counted
  <2> QED
    BY <2>2, <2>3, <2>4
<1> QED
  BY <1>1, <1>8, <1>11 DEF Accounted

\* OnClientLeave of CEcho frees the user that it keeps.
LEMMA LeaveKeeps ==
  ASSUME IInv, IInv', Accounted, NEW t \in Threads, OnClientLeave(t)
  PROVE  Accounted'
<1>1. PICK o \in Owners : Named(o) /\ \A c \in Conns : Counted(o, c)
  BY DEF Accounted
<1>2. PICK b \in Conns : b = Conn(t)
  BY OnClientLeaveMoves
<1>3. /\ port' = port /\ logins' = logins /\ left' = left \cup {b}
      /\ Others(t) /\ ~Moving(t) /\ ~Moving(t)'
  BY <1>2, OnClientLeaveMoves DEF Moves, SameWork, Moving
<1>4. \A w \in Threads : /\ Moving(w)' <=> Moving(w)
                         /\ Moving(w) => me'[w].user = me[w].user /\ me'[w].conn = me[w].conn
  BY <1>3 DEF Moving, Others
<1>5. CASE UNCHANGED <<echoUser, inUse>>
  <2>1. Quiet
    BY <1>3, <1>4, <1>5 DEF Quiet, SameMoving
  <2> QED
    BY <2>1, QuietKeeps
<1>6. CASE /\ inUse' = inUse \ {echoUser[b]} /\ echoUser'[b] = None
           /\ \A c \in Conns : c # b => echoUser'[c] = echoUser[c]
  <2>1. Named(o)'
    <3>1. \A w \in Threads : Moving(w)' => o[me'[w].user] = me'[w].conn
      BY <1>1, <1>4 DEF Named
    <3> QED
      BY <1>1, <1>3, <1>6, <3>1 DEF Named
  <2>2. Carried' = Carried
    <3>1. {q \in port' : q.kind = "move"} = {q \in port : q.kind = "move"}
      BY <1>3
    <3>2. {me'[w].user : w \in {x \in Workers : Moving(x)'}} = {me[w].user : w \in {x \in Workers : Moving(x)}}
      BY <1>4 DEF Threads
    <3> QED
      BY <3>1, <3>2 DEF Carried
  <2>3. ASSUME NEW c \in Conns PROVE Counted(o, c)'
    <3>1. Counted(o, c) /\ Cardinality(Owned(o, c)) \in Nat /\ logins[c] \in Nat
          /\ None \notin Owned(o, c)
      BY <1>1, OwnedFacts, TypeFacts
    <3>2. CASE c # b
      <4>1. Owned(o, c)' = Owned(o, c)
        <5>1. echoUser[b] # None => o[echoUser[b]] = b
          BY <1>1 DEF Named
        <5>2. echoUser[b] \notin Owned(o, c)
          BY <3>1, <3>2, <5>1 DEF Owned
        <5> QED
          BY <1>6, <5>2 DEF Owned
      <4>2. Lost(o, c)' = Lost(o, c) /\ echoUser'[c] = echoUser[c]
        BY <1>6, <2>2, <3>2, <4>1 DEF Lost
      <4> QED
        BY <1>3, <3>1, <4>1, <4>2 DEF Counted
    <3>3. CASE c = b
      <4>1. Owned(o, c)' = Owned(o, c) \ {echoUser[c]} /\ echoUser'[c] = None /\ c \in left'
        BY <1>3, <1>6, <3>3 DEF Owned
      <4>2. (Owned(o, c) \ {echoUser[c]}) \ {None} = Owned(o, c) \ {echoUser[c]}
        BY <3>1
      <4>3. Lost(o, c)' \subseteq Lost(o, c)
        BY <2>2, <4>1 DEF Lost
      <4>4. Cardinality(Owned(o, c) \ {echoUser[c]}) <= logins[c]
        <5>1. /\ Cardinality(Owned(o, c) \ {echoUser[c]}) <= Cardinality(Owned(o, c))
              /\ Cardinality(Owned(o, c) \ {echoUser[c]}) \in Nat
          BY OwnedFacts, UsersFinite, FS_Subset
        <5> QED
          BY <3>1, <5>1 DEF Counted
      <4> QED
        BY <1>3, <3>1, <4>1, <4>2, <4>3, <4>4 DEF Counted
    <3> QED
      BY <3>2, <3>3
  <2> QED
    BY <1>1, <2>1, <2>3 DEF Accounted
<1> QED
  BY <1>2, <1>5, <1>6, OnClientLeaveMoves

-----------------------------------------------------------------------------
(* The theorem *)

\* At the start there are no users.
LEMMA InitAccounted ==
  ASSUME Init, IInv
  PROVE  Accounted
<1> DEFINE o == [u \in Users |-> 0]
<1>1. o \in Owners
  BY Bounds DEF Owners
<1>2. /\ inUse = {} /\ port = {} /\ echoUser = [c \in Conns |-> None] /\ logins = [c \in Conns |-> 0]
      /\ me = [t \in Threads |-> Idle]
  BY DEF Init
<1> HIDE DEF o
<1>3. \A t \in Threads : ~Moving(t)
  BY <1>2, IdleWork DEF Moving
<1>4. Named(o)
  BY <1>2, <1>3 DEF Named
<1>5. ASSUME NEW c \in Conns PROVE Counted(o, c)
  <2>1. Owned(o, c) = {} /\ Lost(o, c) = {}
    BY <1>2 DEF Owned, Lost
  <2>2. Cardinality(Owned(o, c)) = 0 /\ logins[c] = 0
    BY <1>2, <2>1, FS_EmptySet
  <2> QED
    BY <2>1, <2>2 DEF Counted
<1> QED
  BY <1>1, <1>4, <1>5 DEF Accounted

\* Every step keeps each user with its connection.
LEMMA AccountedStep ==
  ASSUME NoScan
  PROVE  IInv /\ IInv' /\ Accounted /\ [Next]_vars => Accounted'
<1> SUFFICES ASSUME IInv, IInv', Accounted, [Next]_vars PROVE Accounted'
  OBVIOUS
<1> QED
  BY QuietSteps, QuietKeeps, LoginKeeps, TakeMoveKeeps, MovedKeeps, LeaveKeeps

\* Every CUser is in a packet, with a thread, or in the map of CEcho, but for those
\* of logins beyond the first of a connection: nothing else loses one, whatever the
\* threads do and whenever connections end, as long as no ID is taken from the table
\* during Init of its first connection.
THEOREM NoUserLost ==
  ASSUME NoScan
  PROVE  Spec => []UsersAccounted
<1>1. IInv /\ Accounted => UsersAccounted
  BY AccountedSums
<1>2. Init /\ IInv => Accounted
  BY InitAccounted
<1> QED
  BY <1>1, <1>2, AccountedStep, Invariance, PTL DEF Spec
=============================================================================
