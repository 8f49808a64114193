---------------------------- MODULE LoginProofs -----------------------------
(***************************************************************************)
(* Proofs about Login for every number of sessions, tokens and messages,   *)
(* every limit of users and both builds of the chat server.                *)
(***************************************************************************)
EXTENDS Login, FiniteSetTheorems, SequenceTheorems, TLAPS

-----------------------------------------------------------------------------
(* The inductive invariant *)

\* A sequence has an element in E; it has one at most; those in E come first.
Has(q, E) == \E i \in 1..Len(q) : q[i] \in E
OnceIn(q, E) == \A i, j \in 1..Len(q) : q[i] \in E /\ q[j] \in E => i = j
Ahead(q, E, F) == \A i, j \in 1..Len(q) : q[i] \in E /\ q[j] \in F => i < j

\* A job of UpdateThread is about a session or about a message of one.
GoodJob == {j \in Job : j.m = 0 <=> j.type \in {"Join", "Delete"}}
JobOf(type, s) == {j \in Job : j.type = type /\ j.s = s}
JobWith(m) == {j \in Job : j.m = m}
RecvJob(m) == {j \in Job : j.type = "Recv" /\ j.m = m}
AuthJob(m) == {j \in Job : j.type = "AuthCom" /\ j.m = m}
Get(m) == {c \in Command : c.cmd = "get" /\ c.m = m}
ReplyTo(m) == {r \in Reply : r.m = m}

Queued(type, s) == Has(jobs, JobOf(type, s))
Mapped(s) == s \in non \cup users

\* In the queue a session's Join comes first and its Delete last, each once.
JobOrder ==
    /\ jobs \in Seq(GoodJob)
    /\ \A s \in Sessions :
        /\ OnceIn(jobs, JobOf("Join", s)) /\ OnceIn(jobs, JobOf("Delete", s))
        /\ Ahead(jobs, JobOf("Join", s), JobOf("Recv", s))
        /\ Ahead(jobs, JobOf("Join", s), JobOf("Delete", s))
        /\ Ahead(jobs, JobOf("Recv", s), JobOf("Delete", s))

\* What the queue and the maps say of a session.
Tracked(s) ==
    /\ conn[s] = "none" =>
           ~Mapped(s) /\ ~Queued("Join", s) /\ ~Queued("Recv", s) /\ ~Queued("Delete", s)
    /\ Queued("Join", s) => ~Mapped(s)
    /\ Queued("Delete", s) => conn[s] = "left"
    /\ conn[s] \in {"open", "closing"} => Mapped(s) \/ Queued("Join", s)
    /\ Queued("Recv", s) \/ Queued("Delete", s) => Mapped(s) \/ Queued("Join", s)
    /\ (Mapped(s) \/ Queued("Join", s)) /\ conn[s] = "left" => Queued("Delete", s)

Found == non \cap users = {} /\ \A s \in Sessions : Tracked(s)

\* Where a message may be: with its worker, in UpdateThread's queue, with
\* UpdateThread, and on its way to Redis and back.
Recvd(m) == \E s \in Sessions : recv[s] = m
ToHandle(m) == Has(jobs, RecvJob(m))
Handled(m) == upd.m = m
ToAsk(m) == Has(authQ, {m})
Sent(m) == Has(pipe, Get(m))
Replied(m) == Has(replies, ReplyTo(m))
Back(m) == Has(jobs, AuthJob(m))

\* It is once in each of these places.
OnceEach ==
    /\ \A s, r \in Sessions : recv[s] = recv[r] => s = r \/ recv[s] = 0
    /\ \A m \in Messages : /\ OnceIn(jobs, JobWith(m)) /\ OnceIn(authQ, {m})
                           /\ OnceIn(pipe, Get(m)) /\ OnceIn(replies, ReplyTo(m))

One(b) == IF b THEN 1 ELSE 0
Asking(m) == One(ToAsk(m)) + One(Sent(m)) + One(Replied(m)) + One(Back(m))
Held(m) == One(Recvd(m)) + One(ToHandle(m)) + One(Handled(m)) + Asking(m)

\* UpdateThread has it once, and asks Redis once, after that.
Placed(m) ==
    /\ ~(ToHandle(m) /\ Handled(m)) /\ Asking(m) <= 1
    /\ ToHandle(m) => Asking(m) = 0
    /\ m > Len(msgs) => Held(m) = 0

\* m_RefCnt is the number of places.  AuthComProc keeps the reference of a login
\* of the wrong size.
Counted(m) ==
    \/ ref[m] = Held(m)
    \/ /\ m <= Len(msgs) /\ msgs[m].kind = "bad" /\ ref[m] = Held(m) + 1
       /\ ~ToHandle(m) /\ Asking(m) = 0

MessagesKept ==
    /\ Len(msgs) <= MaxMsg
    /\ upd.pc = "loop" <=> upd.m = 0
    /\ \A m \in Messages : Placed(m) /\ Counted(m)

\* The build without Redis asks nobody.
AuthJobs == {j \in Job : j.type = "AuthCom"}
AsksNobody ==
    ~auth => authQ = <<>> /\ pipe = <<>> /\ replies = <<>> /\ delNext = 0 /\ ~Has(jobs, AuthJobs)

\* The job of a message is about the session that sent it.
RecvOf(m, s) == {j \in Job : j.type = "Recv" /\ j.m = m /\ j.s = s}
JobsTrue ==
    \A m \in Messages, s \in Sessions : Has(jobs, RecvOf(m, s)) => m <= Len(msgs) /\ msgs[m].s = s

\* Without Redis a user has logged in, with a message that is handled by now ...
IsLogin(i, s) == msgs[i].s = s /\ msgs[i].kind = "login"
LoggedIn(s) == \E i \in 1..Len(msgs) : IsLogin(i, s) /\ ~ToHandle(i)
UsersLoggedIn == ~auth => \A s \in users : LoggedIn(s)

\* ... so the login that breaks UpdateThread is another one.
Again(m, s) == \E i \in 1..Len(msgs) : i # m /\ IsLogin(i, s)
BrokenBySecond ==
    Broken => /\ ~auth /\ upd.m \in 1..Len(msgs) /\ msgs[upd.m].kind = "login"
              /\ msgs[upd.m].s \in users /\ Again(upd.m, msgs[upd.m].s)

LoginsTold == AsksNobody /\ JobsTrue /\ UsersLoggedIn /\ BrokenBySecond

IInv == TypeOK /\ JobOrder /\ Found /\ OnceEach /\ MessagesKept /\ LoginsTold

USE DEF chatNet, maps, authTh, client, loginServer, vars

-----------------------------------------------------------------------------
(* Queues *)

\* Enqueue puts an element behind the others.
LEMMA AppendHas ==
  ASSUME NEW S, NEW q \in Seq(S), NEW e \in S
  PROVE  /\ Append(q, e) \in Seq(S)
         /\ \A E : Has(Append(q, e), E) <=> Has(q, E) \/ e \in E
         /\ \A E : OnceIn(q, E) /\ (e \in E => ~Has(q, E)) => OnceIn(Append(q, e), E)
         /\ \A E, F : Ahead(q, E, F) /\ (e \in E => ~Has(q, F) /\ e \notin F)
                      => Ahead(Append(q, e), E, F)
<1>1. /\ Len(q) \in Nat /\ Append(q, e) \in Seq(S) /\ Len(Append(q, e)) = Len(q) + 1
      /\ Append(q, e)[Len(q) + 1] = e /\ \A i \in 1..Len(q) : Append(q, e)[i] = q[i]
  BY AppendProperties, LenProperties
<1>2. ASSUME NEW E PROVE Has(Append(q, e), E) <=> Has(q, E) \/ e \in E
  BY <1>1 DEF Has
<1>3. ASSUME NEW E, OnceIn(q, E), e \in E => ~Has(q, E) PROVE OnceIn(Append(q, e), E)
  BY <1>1, <1>3 DEF Has, OnceIn
<1>4. ASSUME NEW E, NEW F, Ahead(q, E, F), e \in E => ~Has(q, F) /\ e \notin F
      PROVE  Ahead(Append(q, e), E, F)
  BY <1>1, <1>4 DEF Has, Ahead
<1> QED
  BY <1>1, <1>2, <1>3, <1>4

\* Dequeue takes the first one.
LEMMA TailHas ==
  ASSUME NEW S, NEW q \in Seq(S), q # <<>>
  PROVE  /\ Head(q) \in S /\ Tail(q) \in Seq(S)
         /\ \A E : Has(q, E) <=> Head(q) \in E \/ Has(Tail(q), E)
         /\ \A E : OnceIn(q, E) => OnceIn(Tail(q), E) /\ (Head(q) \in E => ~Has(Tail(q), E))
         /\ \A E, F : Ahead(q, E, F) =>
                          Ahead(Tail(q), E, F) /\ (Head(q) \in F => ~Has(q, E))
<1>1. /\ Len(q) \in Nat \ {0} /\ Head(q) = q[1] /\ Head(q) \in S /\ Tail(q) \in Seq(S)
      /\ Len(Tail(q)) = Len(q) - 1 /\ \A i \in 1..(Len(q) - 1) : Tail(q)[i] = q[i + 1]
  BY HeadTailProperties, EmptySeq, LenProperties
<1>2. ASSUME NEW E PROVE Has(q, E) <=> Head(q) \in E \/ Has(Tail(q), E)
  <2>1. ASSUME Has(q, E), Head(q) \notin E PROVE Has(Tail(q), E)
    <3>1. PICK i \in 1..Len(q) : q[i] \in E
      BY <2>1 DEF Has
    <3>2. i - 1 \in 1..(Len(q) - 1) /\ (i - 1) + 1 = i
      BY <1>1, <2>1, <3>1
    <3> QED
      BY <1>1, <3>1, <3>2 DEF Has
  <2>2. Head(q) \in E \/ Has(Tail(q), E) => Has(q, E)
    BY <1>1 DEF Has
  <2> QED
    BY <2>1, <2>2
<1>3. ASSUME NEW E, OnceIn(q, E) PROVE OnceIn(Tail(q), E) /\ (Head(q) \in E => ~Has(Tail(q), E))
  BY <1>1, <1>3 DEF Has, OnceIn
<1>4. ASSUME NEW E, NEW F, Ahead(q, E, F)
      PROVE  Ahead(Tail(q), E, F) /\ (Head(q) \in F => ~Has(q, E))
  BY <1>1, <1>4 DEF Has, Ahead
<1> QED
  BY <1>1, <1>2, <1>3, <1>4

\* The number of elements of a sequence in E, when there is one at most.
LEMMA CountOnce ==
  ASSUME NEW S, NEW q \in Seq(S), NEW E, OnceIn(q, E)
  PROVE  Cardinality({i \in DOMAIN q : q[i] \in E}) = One(Has(q, E))
<1>1. DOMAIN q = 1..Len(q)
  BY LenProperties
<1>2. CASE Has(q, E)
  <2>1. PICK i \in 1..Len(q) : q[i] \in E
    BY <1>2 DEF Has
  <2>2. {k \in DOMAIN q : q[k] \in E} = {i}
    BY <1>1, <2>1 DEF OnceIn
  <2> QED
    BY <1>2, <2>2, FS_Singleton DEF One
<1>3. CASE ~Has(q, E)
  <2>1. {k \in DOMAIN q : q[k] \in E} = {}
    BY <1>1, <1>3 DEF Has
  <2> QED
    BY <1>3, <2>1, FS_EmptySet DEF One
<1> QED
  BY <1>2, <1>3

\* UpdateThread takes a job.
LEMMA TakeJob ==
  ASSUME IInv, jobs # <<>>, jobs' = Tail(jobs)
  PROVE  /\ Head(jobs) \in GoodJob /\ JobOrder'
         /\ \A m \in Messages : /\ OnceIn(jobs', JobWith(m))
                                /\ ToHandle(m)' <=> ToHandle(m) /\ Head(jobs) \notin RecvJob(m)
                                /\ Back(m)' <=> Back(m) /\ Head(jobs) \notin AuthJob(m)
                                /\ Head(jobs) \in RecvJob(m) => ToHandle(m)
                                /\ Head(jobs) \in AuthJob(m) => Back(m)
         /\ \A s \in Sessions, type \in {"Join", "Recv", "Delete"} :
                Head(jobs) \notin JobOf(type, s) => (Queued(type, s)' <=> Queued(type, s))
         /\ \A s \in Sessions :
                /\ Head(jobs) \in JobOf("Join", s) => Queued("Join", s) /\ ~Queued("Join", s)'
                /\ Head(jobs) \in JobOf("Recv", s) => Queued("Recv", s) /\ ~Queued("Join", s)
                /\ Queued("Recv", s)' => Queued("Recv", s)
                /\ Head(jobs) \in JobOf("Delete", s) =>
                       /\ Queued("Delete", s) /\ ~Queued("Join", s) /\ ~Queued("Recv", s)
                       /\ ~Queued("Delete", s)'
<1>1. jobs \in Seq(GoodJob)
  BY DEF IInv, JobOrder
<1>2. /\ Head(jobs) \in GoodJob /\ jobs' \in Seq(GoodJob)
      /\ \A E : Has(jobs, E) <=> Head(jobs) \in E \/ Has(jobs', E)
      /\ \A E : OnceIn(jobs, E) => OnceIn(jobs', E) /\ (Head(jobs) \in E => ~Has(jobs', E))
      /\ \A E, F : Ahead(jobs, E, F) =>
                       Ahead(jobs', E, F) /\ (Head(jobs) \in F => ~Has(jobs, E))
  BY <1>1, TailHas
<1>3. JobOrder'
  BY <1>2 DEF IInv, JobOrder
<1>4. ASSUME NEW m \in Messages
      PROVE  /\ OnceIn(jobs', JobWith(m))
             /\ ToHandle(m)' <=> ToHandle(m) /\ Head(jobs) \notin RecvJob(m)
             /\ Back(m)' <=> Back(m) /\ Head(jobs) \notin AuthJob(m)
             /\ Head(jobs) \in RecvJob(m) => ToHandle(m)
             /\ Head(jobs) \in AuthJob(m) => Back(m)
  <2>1. OnceIn(jobs, JobWith(m)) /\ OnceIn(jobs, RecvJob(m)) /\ OnceIn(jobs, AuthJob(m))
    BY DEF IInv, OnceEach, OnceIn, JobWith, RecvJob, AuthJob
  <2> QED
    BY <1>2, <2>1 DEF ToHandle, Back
<1>5. ASSUME NEW s \in Sessions, NEW type \in {"Join", "Recv", "Delete"}, Head(jobs) \notin JobOf(type, s)
      PROVE  Queued(type, s)' <=> Queued(type, s)
  BY <1>2, <1>5 DEF Queued
<1>6. ASSUME NEW s \in Sessions
      PROVE  /\ Head(jobs) \in JobOf("Join", s) => Queued("Join", s) /\ ~Queued("Join", s)'
             /\ Head(jobs) \in JobOf("Recv", s) => Queued("Recv", s) /\ ~Queued("Join", s)
             /\ Queued("Recv", s)' => Queued("Recv", s)
             /\ Head(jobs) \in JobOf("Delete", s) =>
                    /\ Queued("Delete", s) /\ ~Queued("Join", s) /\ ~Queued("Recv", s)
                    /\ ~Queued("Delete", s)'
  <2>1. /\ OnceIn(jobs, JobOf("Join", s)) /\ OnceIn(jobs, JobOf("Delete", s))
        /\ Ahead(jobs, JobOf("Join", s), JobOf("Recv", s))
        /\ Ahead(jobs, JobOf("Join", s), JobOf("Delete", s))
        /\ Ahead(jobs, JobOf("Recv", s), JobOf("Delete", s))
    BY DEF IInv, JobOrder
  <2> QED
    BY <1>2, <2>1 DEF Queued
<1> QED
  BY <1>2, <1>3, <1>4, <1>5, <1>6

\* A job is put behind the others.
LEMMA PutJob ==
  ASSUME IInv, NEW e \in GoodJob, jobs' = Append(jobs, e)
  PROVE  /\ jobs' \in Seq(GoodJob)
         /\ \A E : Has(jobs', E) <=> Has(jobs, E) \/ e \in E
         /\ \A E : OnceIn(jobs, E) /\ (e \in E => ~Has(jobs, E)) => OnceIn(jobs', E)
         /\ \A E, F : Ahead(jobs, E, F) /\ (e \in E => ~Has(jobs, F) /\ e \notin F)
                      => Ahead(jobs', E, F)
  BY AppendHas DEF IInv, JobOrder

-----------------------------------------------------------------------------
(* Sessions, their jobs and the two maps *)

\* What is known of a session stays so when only a Disconnect happens to it.
LEMMA TrackedKept ==
  ASSUME NEW r \in Sessions, Tracked(r), Mapped(r)' <=> Mapped(r),
         Queued("Join", r)' <=> Queued("Join", r),
         Queued("Recv", r)' <=> Queued("Recv", r),
         Queued("Delete", r)' <=> Queued("Delete", r),
         conn'[r] = conn[r] \/ (conn[r] = "open" /\ conn'[r] = "closing")
  PROVE  Tracked(r)'
  BY DEF Tracked

\* A Disconnect and nothing else.
LEMMA OnlyDisconnect ==
  ASSUME IInv, UNCHANGED <<jobs, non, users>>,
         conn' = conn \/ \E s \in Sessions : conn' = Disconnected(s)
  PROVE  JobOrder' /\ Found'
<1>1. JobOrder'
  BY DEF IInv, JobOrder
<1>2. ASSUME NEW r \in Sessions PROVE Tracked(r)'
  <2>1. conn'[r] = conn[r] \/ (conn[r] = "open" /\ conn'[r] = "closing")
    BY DEF Disconnected, IInv, TypeOK
  <2> QED
    BY <2>1, TrackedKept DEF IInv, Found, Mapped, Queued
<1> QED
  BY <1>1, <1>2 DEF IInv, Found

\* The answer of Redis goes to a session there is.
LEMMA CallbackMoves ==
  ASSUME IInv, Callback
  PROVE  /\ UNCHANGED <<non, users>>
         /\ conn' = conn \/ \E s \in Sessions : conn' = Disconnected(s)
         /\ \E e : /\ e.type = "AuthCom" /\ e \in GoodJob
                   /\ jobs' = Append(jobs, e) \/ jobs' = jobs
<1> DEFINE m == Head(replies).m
<1>1. replies \in Seq(Reply) /\ replies # <<>>
  BY DEF IInv, TypeOK, Callback
<1>2. Head(replies) \in Reply /\ Has(replies, ReplyTo(m))
  <2>1. Head(replies) \in Reply /\ \A E : Has(replies, E) <=> Head(replies) \in E \/ Has(Tail(replies), E)
    BY <1>1, TailHas
  <2> QED
    BY <2>1 DEF ReplyTo
<1>3. m \in Messages /\ m # 0
  BY <1>2, Bounds DEF Reply, Messages
<1>4. m <= Len(msgs)
  BY <1>2, <1>3 DEF IInv, MessagesKept, Placed, Held, Asking, Replied, One, Messages
<1>5. m \in 1..Len(msgs) /\ msgs[m].s \in Sessions
  <2>1. msgs \in Seq([s : Sessions, kind : {"login", "bad", "other"}, token : Tokens \cup {Wrong, None}])
    BY DEF IInv, TypeOK
  <2>2. m \in 1..Len(msgs)
    BY <1>3, <1>4, <2>1, LenProperties, Bounds DEF Messages
  <2>3. msgs[m] \in [s : Sessions, kind : {"login", "bad", "other"}, token : Tokens \cup {Wrong, None}]
    BY <2>1, <2>2, ElementOfSeq
  <2> QED
    BY <2>2, <2>3
<1> DEFINE e == [type |-> "AuthCom", s |-> msgs[m].s, m |-> m]
<1>6. e \in GoodJob /\ e.type = "AuthCom"
  BY <1>3, <1>5 DEF GoodJob, Job
<1>7. /\ UNCHANGED <<non, users>> /\ (jobs' = Append(jobs, e) \/ jobs' = jobs)
      /\ conn' = conn \/ conn' = Disconnected(msgs[m].s)
  BY DEF Callback
<1> HIDE DEF e
<1> QED
  BY <1>5, <1>6, <1>7

\* A job is about a session.
LEMMA HeadSession ==
  ASSUME IInv, jobs # <<>>
  PROVE  Head(jobs).s \in Sessions
<1>1. Head(jobs) \in GoodJob
  BY TailHas DEF IInv, JobOrder
<1> QED
  BY <1>1 DEF GoodJob, Job

\* The jobs of a session come in order, and find it where they look for it.
LEMMA SessionStep ==
  ASSUME IInv, [Next]_vars
  PROVE  JobOrder' /\ Found'
<1>a. /\ \A r \in Sessions : Tracked(r) /\ conn[r] \in {"none", "open", "closing", "left"}
      /\ non \cap users = {} /\ non \subseteq Sessions /\ users \subseteq Sessions
      /\ DOMAIN conn = Sessions /\ conn \in [Sessions -> {"none", "open", "closing", "left"}]
  BY DEF IInv, Found, TypeOK
<1>b. \A r \in Sessions : conn[r] = "none" =>
          ~Mapped(r) /\ ~Queued("Join", r) /\ ~Queued("Recv", r) /\ ~Queued("Delete", r)
  BY <1>a DEF Tracked
<1>1. CASE SetRedisToken
  BY <1>1, OnlyDisconnect DEF SetRedisToken
<1>2. ASSUME NEW k \in Tokens, LoginAnswer(k) PROVE JobOrder' /\ Found'
  BY <1>2, OnlyDisconnect DEF LoginAnswer
<1>3. ASSUME NEW s \in Sessions, Join(s) PROVE JobOrder' /\ Found'
  <2> DEFINE e == [type |-> "Join", s |-> s, m |-> 0]
  <2>1. /\ conn[s] = "none" /\ conn' = [conn EXCEPT ![s] = "open"]
        /\ jobs' = Append(jobs, e) /\ UNCHANGED <<non, users>>
    BY <1>3 DEF Join
  <2>2. e \in GoodJob /\ \A type, r : e \in JobOf(type, r) <=> type = "Join" /\ r = s
    BY DEF GoodJob, Job, JobOf
  <2> HIDE DEF e
  <2>3. /\ ~Mapped(s) /\ ~Queued("Join", s) /\ ~Queued("Recv", s) /\ ~Queued("Delete", s)
    BY <1>b, <2>1
  <2>4. JobOrder'
    BY <2>1, <2>2, <2>3, PutJob DEF IInv, JobOrder, Queued
  <2>5. \A type, r : Queued(type, r)' <=> Queued(type, r) \/ (type = "Join" /\ r = s)
    BY <2>1, <2>2, PutJob DEF Queued
  <2>6. ASSUME NEW r \in Sessions, r # s PROVE Tracked(r)'
    BY <1>a, <2>1, <2>5, <2>6, TrackedKept DEF Mapped
  <2>7. Tracked(s)'
    BY <1>a, <2>1, <2>3, <2>5 DEF Tracked, Mapped
  <2> QED
    BY <1>a, <2>1, <2>4, <2>6, <2>7 DEF Found
<1>4. ASSUME NEW s \in Sessions, Hangup(s) PROVE JobOrder' /\ Found'
  BY <1>4, OnlyDisconnect DEF Hangup
<1>5. ASSUME NEW s \in Sessions, FreeReceived(s) PROVE JobOrder' /\ Found'
  BY <1>5, OnlyDisconnect DEF FreeReceived
<1>6. ASSUME NEW s \in Sessions, Leave(s) PROVE JobOrder' /\ Found'
  <2> DEFINE e == [type |-> "Delete", s |-> s, m |-> 0]
  <2>1. /\ conn[s] = "closing" /\ conn' = [conn EXCEPT ![s] = "left"]
        /\ jobs' = Append(jobs, e) /\ UNCHANGED <<non, users>>
    BY <1>6 DEF Leave
  <2>2. e \in GoodJob /\ \A type, r : e \in JobOf(type, r) <=> type = "Delete" /\ r = s
    BY DEF GoodJob, Job, JobOf
  <2> HIDE DEF e
  <2>3. ~Queued("Delete", s) /\ (Mapped(s) \/ Queued("Join", s))
    BY <1>a, <2>1 DEF Tracked
  <2>4. JobOrder'
    BY <2>1, <2>2, <2>3, PutJob DEF IInv, JobOrder, Queued
  <2>5. \A type, r : Queued(type, r)' <=> Queued(type, r) \/ (type = "Delete" /\ r = s)
    BY <2>1, <2>2, PutJob DEF Queued
  <2>6. ASSUME NEW r \in Sessions, r # s PROVE Tracked(r)'
    BY <1>a, <2>1, <2>5, <2>6, TrackedKept DEF Mapped
  <2>7. Tracked(s)'
    BY <1>a, <2>1, <2>3, <2>5 DEF Tracked, Mapped
  <2> QED
    BY <1>a, <2>1, <2>4, <2>6, <2>7 DEF Found
<1>7. ASSUME NEW s \in Sessions, NEW kind \in {"login", "bad", "other"},
             NEW token \in Tokens \cup {Wrong, None}, Receive(s, kind, token)
      PROVE  JobOrder' /\ Found'
  <2> DEFINE e == [type |-> "Recv", s |-> s, m |-> Len(msgs) + 1]
  <2>1. /\ conn[s] \in {"open", "closing"} /\ conn' = conn
        /\ jobs' = Append(jobs, e) /\ UNCHANGED <<non, users>> /\ Len(msgs) < MaxMsg
    BY <1>7 DEF Receive, CanReceive
  <2>2. Len(msgs) + 1 \in Messages /\ Len(msgs) + 1 # 0
    BY <2>1, Bounds, LenProperties DEF IInv, TypeOK, Messages
  <2>3. e \in GoodJob /\ \A type, r : e \in JobOf(type, r) <=> type = "Recv" /\ r = s
    BY <2>2 DEF GoodJob, Job, JobOf
  <2> HIDE DEF e
  <2>4. ~Queued("Delete", s) /\ (Mapped(s) \/ Queued("Join", s))
    BY <1>a, <2>1 DEF Tracked
  <2>5. JobOrder'
    BY <2>1, <2>3, <2>4, PutJob DEF IInv, JobOrder, Queued
  <2>6. \A type, r : Queued(type, r)' <=> Queued(type, r) \/ (type = "Recv" /\ r = s)
    BY <2>1, <2>3, PutJob DEF Queued
  <2>7. ASSUME NEW r \in Sessions, r # s PROVE Tracked(r)'
    BY <1>a, <2>1, <2>6, <2>7, TrackedKept DEF Mapped
  <2>8. Tracked(s)'
    BY <1>a, <2>1, <2>4, <2>6 DEF Tracked, Mapped
  <2> QED
    BY <1>a, <2>1, <2>5, <2>7, <2>8 DEF Found
<1>8. CASE JoinProc
  <2> DEFINE h == Head(jobs)
  <2>0. PICK s \in Sessions : s = Head(jobs).s
    BY <1>8, HeadSession DEF JoinProc, NextIs
  <2>1. /\ h.type = "Join" /\ jobs # <<>> /\ jobs' = Tail(jobs)
        /\ non' = non \cup {s} /\ UNCHANGED <<users, conn>>
    BY <1>8, <2>0 DEF JoinProc, NextIs
  <2>2. /\ h \in GoodJob /\ JobOrder'
        /\ \A r \in Sessions, type \in {"Join", "Recv", "Delete"} :
               h \notin JobOf(type, r) => (Queued(type, r)' <=> Queued(type, r))
        /\ \A r \in Sessions :
               /\ h \in JobOf("Join", r) => Queued("Join", r) /\ ~Queued("Join", r)'
               /\ h \in JobOf("Recv", r) => Queued("Recv", r) /\ ~Queued("Join", r)
               /\ Queued("Recv", r)' => Queued("Recv", r)
               /\ h \in JobOf("Delete", r) =>
                      /\ Queued("Delete", r) /\ ~Queued("Join", r) /\ ~Queued("Recv", r)
                      /\ ~Queued("Delete", r)'
    BY <2>1, TakeJob
  <2>3. s \in Sessions /\ \A type, r : h \in JobOf(type, r) <=> type = "Join" /\ r = s
    BY <2>0, <2>1, <2>2 DEF GoodJob, Job, JobOf
  <2> HIDE DEF h
  <2>4. ASSUME NEW r \in Sessions, r # s PROVE Tracked(r)'
    BY <1>a, <2>1, <2>2, <2>3, <2>4, TrackedKept DEF Mapped
  <2>5. Queued("Join", s) /\ ~Mapped(s) /\ conn[s] # "none"
    BY <1>a, <2>2, <2>3 DEF Tracked
  <2>6. Tracked(s)'
    BY <1>a, <2>1, <2>2, <2>3, <2>5 DEF Tracked, Mapped
  <2> QED
    BY <1>a, <2>1, <2>2, <2>4, <2>5, <2>6 DEF Found, Mapped
<1>9. CASE DeleteProc
  <2> DEFINE h == Head(jobs)
  <2>0. PICK s \in Sessions : s = Head(jobs).s
    BY <1>9, HeadSession DEF DeleteProc, NextIs
  <2>1. /\ h.type = "Delete" /\ jobs # <<>> /\ jobs' = Tail(jobs)
        /\ non' = non \ {s} /\ users' = (IF s \in non THEN users ELSE users \ {s}) /\ conn' = conn
    BY <1>9, <2>0 DEF DeleteProc, NextIs
  <2>2. /\ h \in GoodJob /\ JobOrder'
        /\ \A r \in Sessions, type \in {"Join", "Recv", "Delete"} :
               h \notin JobOf(type, r) => (Queued(type, r)' <=> Queued(type, r))
        /\ \A r \in Sessions :
               /\ h \in JobOf("Join", r) => Queued("Join", r) /\ ~Queued("Join", r)'
               /\ h \in JobOf("Recv", r) => Queued("Recv", r) /\ ~Queued("Join", r)
               /\ Queued("Recv", r)' => Queued("Recv", r)
               /\ h \in JobOf("Delete", r) =>
                      /\ Queued("Delete", r) /\ ~Queued("Join", r) /\ ~Queued("Recv", r)
                      /\ ~Queued("Delete", r)'
    BY <2>1, TakeJob
  <2>3. s \in Sessions /\ \A type, r : h \in JobOf(type, r) <=> type = "Delete" /\ r = s
    BY <2>0, <2>1, <2>2 DEF GoodJob, Job, JobOf
  <2> HIDE DEF h
  <2>4. ASSUME NEW r \in Sessions, r # s PROVE Tracked(r)'
    BY <1>a, <2>1, <2>2, <2>3, <2>4, TrackedKept DEF Mapped
  <2>5. conn[s] = "left" /\ ~Mapped(s)'
    BY <1>a, <2>1, <2>2, <2>3 DEF Tracked, Mapped
  <2>6. Tracked(s)'
    BY <1>a, <2>1, <2>2, <2>3, <2>5 DEF Tracked
  <2> QED
    BY <1>a, <2>1, <2>2, <2>4, <2>6 DEF Found
<1>10. CASE LoginProc
  <2> DEFINE h == Head(jobs)
  <2>0. PICK s \in Sessions : s = Head(jobs).s
    BY <1>10, HeadSession DEF LoginProc, NextIs
  <2>1. /\ h.type = "Recv" /\ jobs # <<>> /\ jobs' = Tail(jobs)
        /\ \/ /\ UNCHANGED <<non, users>>
              /\ conn' = conn \/ conn' = [conn EXCEPT ![s] = IF @ = "open" THEN "closing" ELSE @]
           \/ non' = non \ {s} /\ users' = users \cup {s} /\ conn' = conn
    BY <1>10, <2>0 DEF LoginProc, Disconnected, NextIs
  <2>2. /\ h \in GoodJob /\ JobOrder'
        /\ \A r \in Sessions, type \in {"Join", "Recv", "Delete"} :
               h \notin JobOf(type, r) => (Queued(type, r)' <=> Queued(type, r))
        /\ \A r \in Sessions :
               /\ h \in JobOf("Join", r) => Queued("Join", r) /\ ~Queued("Join", r)'
               /\ h \in JobOf("Recv", r) => Queued("Recv", r) /\ ~Queued("Join", r)
               /\ Queued("Recv", r)' => Queued("Recv", r)
               /\ h \in JobOf("Delete", r) =>
                      /\ Queued("Delete", r) /\ ~Queued("Join", r) /\ ~Queued("Recv", r)
                      /\ ~Queued("Delete", r)'
    BY <2>1, TakeJob
  <2>3. s \in Sessions /\ \A type, r : h \in JobOf(type, r) <=> type = "Recv" /\ r = s
    BY <2>0, <2>1, <2>2 DEF GoodJob, Job, JobOf
  <2> HIDE DEF h
  <2>4. ASSUME NEW r \in Sessions, r # s PROVE Tracked(r)'
    <3>1. conn'[r] = conn[r]
      BY <1>a, <2>1, <2>3, <2>4
    <3> QED
      BY <1>a, <2>1, <2>2, <2>3, <2>4, <3>1, TrackedKept DEF Mapped
  <2>5. Mapped(s) /\ ~Queued("Join", s) /\ conn[s] # "none"
    BY <1>a, <2>2, <2>3 DEF Tracked
  <2>6. Mapped(s)' /\ ~Queued("Join", s)' /\ (Queued("Delete", s)' <=> Queued("Delete", s))
    BY <1>a, <2>1, <2>2, <2>3, <2>5 DEF Mapped
  <2>7. conn'[s] = conn[s] \/ (conn[s] = "open" /\ conn'[s] = "closing")
    BY <1>a, <2>1, <2>3
  <2>8. Tracked(s)'
    BY <1>a, <2>3, <2>5, <2>6, <2>7 DEF Tracked
  <2> QED
    BY <1>a, <2>1, <2>2, <2>4, <2>8 DEF Found
<1>11. CASE AuthRequestJob
  <2> DEFINE h == Head(jobs)
  <2>0. PICK s \in Sessions : s = Head(jobs).s
    BY <1>11, HeadSession DEF AuthRequestJob, NextIs
  <2>1. /\ h.type = "Recv" /\ jobs # <<>> /\ jobs' = Tail(jobs)
        /\ UNCHANGED <<non, users>>
        /\ conn' = conn \/ conn' = [conn EXCEPT ![s] = IF @ = "open" THEN "closing" ELSE @]
    BY <1>11, <2>0 DEF AuthRequestJob, Disconnected, NextIs
  <2>2. /\ h \in GoodJob /\ JobOrder'
        /\ \A r \in Sessions, type \in {"Join", "Recv", "Delete"} :
               h \notin JobOf(type, r) => (Queued(type, r)' <=> Queued(type, r))
        /\ \A r \in Sessions :
               /\ h \in JobOf("Join", r) => Queued("Join", r) /\ ~Queued("Join", r)'
               /\ h \in JobOf("Recv", r) => Queued("Recv", r) /\ ~Queued("Join", r)
               /\ Queued("Recv", r)' => Queued("Recv", r)
               /\ h \in JobOf("Delete", r) =>
                      /\ Queued("Delete", r) /\ ~Queued("Join", r) /\ ~Queued("Recv", r)
                      /\ ~Queued("Delete", r)'
    BY <2>1, TakeJob
  <2>3. s \in Sessions /\ \A type, r : h \in JobOf(type, r) <=> type = "Recv" /\ r = s
    BY <2>0, <2>1, <2>2 DEF GoodJob, Job, JobOf
  <2> HIDE DEF h
  <2>4. ASSUME NEW r \in Sessions, r # s PROVE Tracked(r)'
    <3>1. conn'[r] = conn[r]
      BY <1>a, <2>1, <2>3, <2>4
    <3> QED
      BY <1>a, <2>1, <2>2, <2>3, <2>4, <3>1, TrackedKept DEF Mapped
  <2>5. Mapped(s) /\ ~Queued("Join", s) /\ conn[s] # "none"
    BY <1>a, <2>2, <2>3 DEF Tracked
  <2>6. Mapped(s)' /\ ~Queued("Join", s)' /\ (Queued("Delete", s)' <=> Queued("Delete", s))
    BY <1>a, <2>1, <2>2, <2>3, <2>5 DEF Mapped
  <2>7. conn'[s] = conn[s] \/ (conn[s] = "open" /\ conn'[s] = "closing")
    BY <1>a, <2>1, <2>3
  <2>8. Tracked(s)'
    BY <1>a, <2>3, <2>5, <2>6, <2>7 DEF Tracked
  <2> QED
    BY <1>a, <2>1, <2>2, <2>4, <2>8 DEF Found
<1>12. CASE OtherProc
  <2> DEFINE h == Head(jobs)
  <2>0. PICK s \in Sessions : s = Head(jobs).s
    BY <1>12, HeadSession DEF OtherProc, NextIs
  <2>1. /\ h.type = "Recv" /\ jobs # <<>> /\ jobs' = Tail(jobs)
        /\ UNCHANGED <<non, users>>
        /\ conn' = conn \/ conn' = [conn EXCEPT ![s] = IF @ = "open" THEN "closing" ELSE @]
    BY <1>12, <2>0 DEF OtherProc, Disconnected, NextIs
  <2>2. /\ h \in GoodJob /\ JobOrder'
        /\ \A r \in Sessions, type \in {"Join", "Recv", "Delete"} :
               h \notin JobOf(type, r) => (Queued(type, r)' <=> Queued(type, r))
        /\ \A r \in Sessions :
               /\ h \in JobOf("Join", r) => Queued("Join", r) /\ ~Queued("Join", r)'
               /\ h \in JobOf("Recv", r) => Queued("Recv", r) /\ ~Queued("Join", r)
               /\ Queued("Recv", r)' => Queued("Recv", r)
               /\ h \in JobOf("Delete", r) =>
                      /\ Queued("Delete", r) /\ ~Queued("Join", r) /\ ~Queued("Recv", r)
                      /\ ~Queued("Delete", r)'
    BY <2>1, TakeJob
  <2>3. s \in Sessions /\ \A type, r : h \in JobOf(type, r) <=> type = "Recv" /\ r = s
    BY <2>0, <2>1, <2>2 DEF GoodJob, Job, JobOf
  <2> HIDE DEF h
  <2>4. ASSUME NEW r \in Sessions, r # s PROVE Tracked(r)'
    <3>1. conn'[r] = conn[r]
      BY <1>a, <2>1, <2>3, <2>4
    <3> QED
      BY <1>a, <2>1, <2>2, <2>3, <2>4, <3>1, TrackedKept DEF Mapped
  <2>5. Mapped(s) /\ ~Queued("Join", s) /\ conn[s] # "none"
    BY <1>a, <2>2, <2>3 DEF Tracked
  <2>6. Mapped(s)' /\ ~Queued("Join", s)' /\ (Queued("Delete", s)' <=> Queued("Delete", s))
    BY <1>a, <2>1, <2>2, <2>3, <2>5 DEF Mapped
  <2>7. conn'[s] = conn[s] \/ (conn[s] = "open" /\ conn'[s] = "closing")
    BY <1>a, <2>1, <2>3
  <2>8. Tracked(s)'
    BY <1>a, <2>3, <2>5, <2>6, <2>7 DEF Tracked
  <2> QED
    BY <1>a, <2>1, <2>2, <2>4, <2>8 DEF Found
<1>13. CASE AuthComProc
  <2> DEFINE h == Head(jobs)
  <2>0. PICK s \in Sessions : s = Head(jobs).s
    BY <1>13, HeadSession DEF AuthComProc, NextIs
  <2>1. /\ h.type = "AuthCom" /\ jobs # <<>> /\ jobs' = Tail(jobs)
        /\ \/ /\ UNCHANGED <<non, users>>
              /\ conn' = conn \/ conn' = [conn EXCEPT ![s] = IF @ = "open" THEN "closing" ELSE @]
           \/ s \in non /\ non' = non \ {s} /\ users' = users \cup {s} /\ conn' = conn
    BY <1>13, <2>0 DEF AuthComProc, StillNonUser, Disconnected, NextIs
  <2>2. /\ h \in GoodJob /\ JobOrder'
        /\ \A r \in Sessions, type \in {"Join", "Recv", "Delete"} :
               h \notin JobOf(type, r) => (Queued(type, r)' <=> Queued(type, r))
        /\ \A r \in Sessions :
               /\ h \in JobOf("Join", r) => Queued("Join", r) /\ ~Queued("Join", r)'
               /\ h \in JobOf("Recv", r) => Queued("Recv", r) /\ ~Queued("Join", r)
               /\ Queued("Recv", r)' => Queued("Recv", r)
               /\ h \in JobOf("Delete", r) =>
                      /\ Queued("Delete", r) /\ ~Queued("Join", r) /\ ~Queued("Recv", r)
                      /\ ~Queued("Delete", r)'
    BY <2>1, TakeJob
  <2>3. s \in Sessions /\ \A type, r : h \in JobOf(type, r) <=> type = "AuthCom" /\ r = s
    BY <2>0, <2>1, <2>2 DEF GoodJob, Job, JobOf
  <2> HIDE DEF h
  <2>4. ASSUME NEW r \in Sessions PROVE Tracked(r)'
    <3>1. conn'[r] = conn[r] \/ (conn[r] = "open" /\ conn'[r] = "closing")
      BY <1>a, <2>1, <2>3
    <3>2. Mapped(r)' <=> Mapped(r)
      BY <2>1 DEF Mapped
    <3> QED
      BY <1>a, <2>2, <2>3, <3>1, <3>2, TrackedKept
  <2> QED
    BY <1>a, <2>1, <2>2, <2>4 DEF Found
<1>14. CASE SetEvent
  BY <1>14, OnlyDisconnect DEF SetEvent
<1>15. CASE FreeJobMessage
  BY <1>15, OnlyDisconnect DEF FreeJobMessage
<1>16. CASE AuthWait
  BY <1>16, OnlyDisconnect DEF AuthWait
<1>17. CASE AuthReqProc
  BY <1>17, OnlyDisconnect DEF AuthReqProc
<1>18. CASE AuthDrained
  BY <1>18, OnlyDisconnect DEF AuthDrained
<1>19. CASE Redis
  BY <1>19, OnlyDisconnect DEF Redis
<1>20. CASE SendDel
  BY <1>20, OnlyDisconnect DEF SendDel
<1>21. CASE Callback
  <2>1. PICK e : /\ e.type = "AuthCom" /\ e \in GoodJob
                 /\ jobs' = Append(jobs, e) \/ jobs' = jobs
    BY <1>21, CallbackMoves
  <2>2. UNCHANGED <<non, users>> /\ (conn' = conn \/ \E s \in Sessions : conn' = Disconnected(s))
    BY <1>21, CallbackMoves
  <2>3. CASE jobs' = jobs
    BY <2>2, <2>3, OnlyDisconnect
  <2>4. CASE jobs' = Append(jobs, e)
    <3>1. \A type, r : type # "AuthCom" => e \notin JobOf(type, r)
      BY <2>1 DEF JobOf
    <3>2. JobOrder'
      BY <2>1, <2>4, <3>1, PutJob DEF IInv, JobOrder
    <3>3. \A type, r : type # "AuthCom" => (Queued(type, r)' <=> Queued(type, r))
      BY <2>1, <2>4, <3>1, PutJob DEF Queued
    <3>4. ASSUME NEW r \in Sessions PROVE Tracked(r)'
      <4>1. conn'[r] = conn[r] \/ (conn[r] = "open" /\ conn'[r] = "closing")
        BY <1>a, <2>2 DEF Disconnected
      <4> QED
        BY <1>a, <2>2, <3>3, <4>1, TrackedKept DEF Mapped
    <3> QED
      BY <1>a, <2>2, <3>2, <3>4 DEF Found
  <2> QED
    BY <2>1, <2>3, <2>4
<1>u. CASE UNCHANGED vars
  BY <1>u, OnlyDisconnect
<1> QED
  BY <1>1, <1>2, <1>3, <1>4, <1>5, <1>6, <1>7, <1>8, <1>9, <1>10, <1>11, <1>12, <1>13, <1>14, <1>15, <1>16, <1>17, <1>18, <1>19, <1>20, <1>21, <1>u
  DEF Next, Worker, UpdateThread, AuthThread

-----------------------------------------------------------------------------
(* Messages *)

\* A message stays where it is.
Still(m) ==
    /\ Recvd(m)' <=> Recvd(m)
    /\ ToHandle(m)' <=> ToHandle(m)
    /\ Handled(m)' <=> Handled(m)
    /\ ToAsk(m)' <=> ToAsk(m)
    /\ Sent(m)' <=> Sent(m)
    /\ Replied(m)' <=> Replied(m)
    /\ Back(m)' <=> Back(m)

\* Then what is known of it stays so.
LEMMA StillKept ==
  ASSUME NEW m \in Messages, Still(m), Placed(m), Counted(m), ref'[m] = ref[m],
         UNCHANGED msgs
  PROVE  Placed(m)' /\ Counted(m)'
<1>1. Held(m)' = Held(m) /\ Asking(m)' = Asking(m)
  BY DEF Still, Held, Asking, One
<1> QED
  BY <1>1 DEF Placed, Counted, Still

\* The facts about the places that the steps need.
LEMMA PlaceFacts ==
  ASSUME IInv
  PROVE  /\ jobs \in Seq(GoodJob) /\ authQ \in Seq(Messages)
         /\ pipe \in Seq(Command) /\ replies \in Seq(Reply)
         /\ ref \in [Messages -> 0..3] /\ recv \in [Sessions -> Messages \cup {0}]
         /\ 0 \notin Messages /\ Messages \subseteq Nat /\ Len(msgs) \in Nat /\ Len(msgs) <= MaxMsg
         /\ upd \in [pc : {"loop", "signal", "free", "broken"}, m : Messages \cup {0}]
         /\ upd.pc = "loop" <=> upd.m = 0
         /\ \A m \in Messages : Placed(m) /\ Counted(m)
         /\ \A m \in Messages : /\ OnceIn(jobs, JobWith(m)) /\ OnceIn(authQ, {m})
                                /\ OnceIn(pipe, Get(m)) /\ OnceIn(replies, ReplyTo(m))
         /\ \A s, r \in Sessions : recv[s] = recv[r] => s = r \/ recv[s] = 0
<1>1. 0 \notin Messages /\ Messages \subseteq Nat
  BY Bounds DEF Messages
<1>2. Len(msgs) \in Nat
  BY LenProperties DEF IInv, TypeOK
<1> QED
  BY <1>1, <1>2 DEF IInv, TypeOK, JobOrder, MessagesKept, OnceEach

\* A step that moves no message.
LEMMA AllStill ==
  ASSUME IInv, UNCHANGED <<msgs, ref>>, upd'.pc = "loop" <=> upd'.m = 0,
         \A n \in Messages : Still(n)
  PROVE  MessagesKept'
<1>1. ASSUME NEW n \in Messages PROVE Placed(n)' /\ Counted(n)'
  BY <1>1, PlaceFacts, StillKept
<1> QED
  BY <1>1, PlaceFacts DEF MessagesKept

\* A step that moves the message m.
LEMMA OneMoves ==
  ASSUME IInv, UNCHANGED msgs, upd'.pc = "loop" <=> upd'.m = 0,
         NEW m \in Messages, Placed(m)', Counted(m)',
         \A n \in Messages : n # m => Still(n) /\ ref'[n] = ref[n]
  PROVE  MessagesKept'
<1>1. ASSUME NEW n \in Messages, n # m PROVE Placed(n)' /\ Counted(n)'
  BY <1>1, PlaceFacts, StillKept
<1> QED
  BY <1>1, PlaceFacts DEF MessagesKept

\* A step that touches no place of a message.
LEMMA NoPlaces ==
  ASSUME IInv, UNCHANGED <<recv, jobs, upd, authQ, pipe, replies, msgs, ref>>
  PROVE  OnceEach' /\ MessagesKept'
<1>1. \A n \in Messages : Still(n)
  BY DEF Still, Recvd, ToHandle, Handled, ToAsk, Sent, Replied, Back
<1>2. MessagesKept'
  BY <1>1, AllStill, PlaceFacts
<1> QED
  BY <1>2 DEF IInv, OnceEach

\* A job without a message is put into the queue or taken out of it.
LEMMA OtherJobs ==
  ASSUME IInv, UNCHANGED <<recv, upd, authQ, pipe, replies, msgs, ref>>,
         \/ \E e \in GoodJob : e.m = 0 /\ jobs' = Append(jobs, e)
         \/ jobs # <<>> /\ jobs' = Tail(jobs) /\ Head(jobs).m = 0
  PROVE  OnceEach' /\ MessagesKept'
<1>1. CASE jobs # <<>> /\ jobs' = Tail(jobs) /\ Head(jobs).m = 0
  <2>1. \A n \in Messages : /\ OnceIn(jobs', JobWith(n))
                            /\ ToHandle(n)' <=> ToHandle(n) /\ Head(jobs) \notin RecvJob(n)
                            /\ Back(n)' <=> Back(n) /\ Head(jobs) \notin AuthJob(n)
    BY <1>1, TakeJob
  <2>2. \A n \in Messages : Head(jobs) \notin RecvJob(n) /\ Head(jobs) \notin AuthJob(n)
    BY <1>1, PlaceFacts DEF RecvJob, AuthJob
  <2>3. \A n \in Messages : Still(n)
    BY <2>1, <2>2 DEF Still, Recvd, Handled, ToAsk, Sent, Replied
  <2> QED
    BY <2>1, <2>3, PlaceFacts, AllStill DEF OnceEach
<1>2. ASSUME NEW e \in GoodJob, e.m = 0, jobs' = Append(jobs, e)
      PROVE  OnceEach' /\ MessagesKept'
  <2>1. \A n \in Messages : e \notin RecvJob(n) /\ e \notin AuthJob(n) /\ e \notin JobWith(n)
    BY <1>2, PlaceFacts DEF RecvJob, AuthJob, JobWith
  <2>2. /\ \A E : Has(jobs', E) <=> Has(jobs, E) \/ e \in E
        /\ \A E : OnceIn(jobs, E) /\ (e \in E => ~Has(jobs, E)) => OnceIn(jobs', E)
    BY <1>2, PutJob
  <2>3. \A n \in Messages : OnceIn(jobs', JobWith(n))
    BY <2>1, <2>2, PlaceFacts
  <2>4. \A n \in Messages : Still(n)
    BY <2>1, <2>2 DEF Still, Recvd, ToHandle, Back, Handled, ToAsk, Sent, Replied
  <2> QED
    BY <2>3, <2>4, PlaceFacts, AllStill DEF OnceEach
<1> QED
  BY <1>1, <1>2

\* UpdateThread takes the Recv job of a message.
LEMMA HeadMessage ==
  ASSUME IInv, NextIs("Recv"), jobs' = Tail(jobs)
  PROVE  /\ \A n \in Messages : OnceIn(jobs', JobWith(n)) /\ (Back(n)' <=> Back(n))
         /\ \A n \in Messages : n # Head(jobs).m => (ToHandle(n)' <=> ToHandle(n)) /\ ~Handled(n)
         /\ Head(jobs).m \in Messages /\ Head(jobs).m <= Len(msgs)
         /\ \A m \in Messages : m = Head(jobs).m =>
                /\ ToHandle(m) /\ ~ToHandle(m)' /\ ~Handled(m)
                /\ ~ToAsk(m) /\ ~Sent(m) /\ ~Replied(m) /\ ~Back(m)
         /\ upd.pc = "loop" /\ upd.m = 0
<1>1. jobs # <<>> /\ Head(jobs).type = "Recv" /\ upd.pc = "loop" /\ upd.m = 0
  BY PlaceFacts DEF NextIs
<1>2. /\ Head(jobs) \in GoodJob
      /\ \A m \in Messages : /\ OnceIn(jobs', JobWith(m))
                             /\ ToHandle(m)' <=> ToHandle(m) /\ Head(jobs) \notin RecvJob(m)
                             /\ Back(m)' <=> Back(m) /\ Head(jobs) \notin AuthJob(m)
                             /\ Head(jobs) \in RecvJob(m) => ToHandle(m)
  BY <1>1, TakeJob
<1>3. /\ Head(jobs).m \in Messages /\ Head(jobs) \in Job
      /\ \A n : Head(jobs) \notin AuthJob(n)
      /\ \A n : Head(jobs) \in RecvJob(n) <=> n = Head(jobs).m
  BY <1>1, <1>2 DEF GoodJob, Job, AuthJob, RecvJob
<1>4. ASSUME NEW m \in Messages, m = Head(jobs).m
      PROVE  /\ ToHandle(m) /\ ~ToHandle(m)' /\ ~Handled(m) /\ m <= Len(msgs)
             /\ ~ToAsk(m) /\ ~Sent(m) /\ ~Replied(m) /\ ~Back(m)
  <2>1. ToHandle(m) /\ ~ToHandle(m)' /\ Placed(m) /\ m \in Nat /\ Len(msgs) \in Nat /\ Len(msgs) <= MaxMsg
    BY <1>2, <1>3, <1>4, PlaceFacts
  <2> QED
    BY <2>1 DEF Placed, Held, Asking, One
<1>5. \A n \in Messages : ~Handled(n)
  BY <1>1, PlaceFacts DEF Handled
<1> QED
  BY <1>1, <1>2, <1>3, <1>4, <1>5

\* UpdateThread is done with a Recv job but for its reference.
LEMMA HandledNow ==
  ASSUME IInv, NextIs("Recv"), jobs' = Tail(jobs), NEW p \in {"free", "broken"},
         upd' = [pc |-> p, m |-> Head(jobs).m],
         UNCHANGED <<recv, msgs, ref, authQ, pipe, replies>>
  PROVE  OnceEach' /\ MessagesKept'
<1>1. PICK m \in Messages : m = Head(jobs).m
  BY HeadMessage
<1>2. /\ \A n \in Messages : OnceIn(jobs', JobWith(n)) /\ (Back(n)' <=> Back(n))
      /\ \A n \in Messages : n # m => (ToHandle(n)' <=> ToHandle(n)) /\ ~Handled(n)
      /\ ToHandle(m) /\ ~ToHandle(m)' /\ ~Handled(m) /\ m <= Len(msgs)
      /\ ~ToAsk(m) /\ ~Sent(m) /\ ~Replied(m) /\ ~Back(m)
  BY <1>1, HeadMessage
<1>3. upd'.pc = p /\ upd'.m = m
  BY <1>1
<1>4. \A n \in Messages : /\ Recvd(n)' <=> Recvd(n)
                          /\ Handled(n)' <=> n = m
                          /\ ToAsk(n)' <=> ToAsk(n)
                          /\ Sent(n)' <=> Sent(n)
                          /\ Replied(n)' <=> Replied(n)
  BY <1>3 DEF Recvd, Handled, ToAsk, Sent, Replied
<1>5. \A n \in Messages : n # m => Still(n) /\ ref'[n] = ref[n]
  BY <1>2, <1>4 DEF Still
<1>6. Held(m)' = Held(m) /\ Asking(m) = 0 /\ Asking(m)' = 0
  BY <1>2, <1>4 DEF Held, Asking, One
<1>7. Placed(m)' /\ Counted(m)'
  <2>1. Placed(m) /\ Counted(m) /\ m \in Nat /\ Len(msgs) \in Nat
    BY PlaceFacts
  <2> QED
    BY <1>2, <1>4, <1>6, <2>1 DEF Placed, Counted
<1>8. MessagesKept'
  BY <1>3, <1>5, <1>7, OneMoves, PlaceFacts
<1> QED
  BY <1>2, <1>8, PlaceFacts DEF OnceEach

\* AuthRequestJob, with a free place: the message goes on to AuthThread too.
LEMMA AskedNow ==
  ASSUME IInv, NextIs("Recv"), jobs' = Tail(jobs), upd' = [pc |-> "signal", m |-> Head(jobs).m],
         authQ' = Append(authQ, Head(jobs).m), ref' = [ref EXCEPT ![Head(jobs).m] = @ + 1],
         UNCHANGED <<recv, msgs, pipe, replies>>
  PROVE  OnceEach' /\ MessagesKept'
<1>1. PICK m \in Messages : m = Head(jobs).m
  BY HeadMessage
<1>2. /\ \A n \in Messages : OnceIn(jobs', JobWith(n)) /\ (Back(n)' <=> Back(n))
      /\ \A n \in Messages : n # m => (ToHandle(n)' <=> ToHandle(n)) /\ ~Handled(n)
      /\ ToHandle(m) /\ ~ToHandle(m)' /\ ~Handled(m) /\ m <= Len(msgs)
      /\ ~ToAsk(m) /\ ~Sent(m) /\ ~Replied(m) /\ ~Back(m)
  BY <1>1, HeadMessage
<1>3. upd'.pc = "signal" /\ upd'.m = m /\ authQ' = Append(authQ, m) /\ ref' = [ref EXCEPT ![m] = @ + 1]
  BY <1>1
<1>4. /\ \A E : Has(authQ', E) <=> Has(authQ, E) \/ m \in E
      /\ \A E : OnceIn(authQ, E) /\ (m \in E => ~Has(authQ, E)) => OnceIn(authQ', E)
  BY <1>3, AppendHas, PlaceFacts
<1>5. \A n \in Messages : /\ Recvd(n)' <=> Recvd(n)
                          /\ Handled(n)' <=> n = m
                          /\ ToAsk(n)' <=> ToAsk(n) \/ n = m
                          /\ Sent(n)' <=> Sent(n)
                          /\ Replied(n)' <=> Replied(n)
  BY <1>3, <1>4 DEF Recvd, Handled, ToAsk, Sent, Replied
<1>6. ref'[m] = ref[m] + 1 /\ \A n \in Messages : n # m => Still(n) /\ ref'[n] = ref[n]
  BY <1>2, <1>3, <1>5, PlaceFacts DEF Still
<1>7. Held(m)' = Held(m) + 1 /\ Asking(m) = 0 /\ Asking(m)' = 1
  BY <1>2, <1>5 DEF Held, Asking, One
<1>8. Placed(m)' /\ Counted(m)'
  <2>1. Placed(m) /\ Counted(m) /\ m \in Nat /\ Len(msgs) \in Nat
    BY PlaceFacts
  <2> QED
    BY <1>2, <1>5, <1>6, <1>7, <2>1 DEF Placed, Counted
<1>9. MessagesKept'
  BY <1>3, <1>6, <1>8, OneMoves, PlaceFacts
<1>10. \A n \in Messages : OnceIn(authQ', {n})
  BY <1>2, <1>4, PlaceFacts DEF ToAsk
<1> QED
  BY <1>2, <1>9, <1>10, PlaceFacts DEF OnceEach

\* FreeJobMessage: UpdateThread's place and its reference go together.
LEMMA FreedNow ==
  ASSUME IInv, FreeJobMessage
  PROVE  OnceEach' /\ MessagesKept'
<1>1. PICK m \in Messages : m = upd.m
  BY PlaceFacts DEF FreeJobMessage
<1>2. /\ upd'.pc = "loop" /\ upd'.m = 0 /\ ref' = [ref EXCEPT ![m] = @ - 1]
      /\ UNCHANGED <<recv, msgs, jobs, authQ, pipe, replies>>
  BY <1>1 DEF FreeJobMessage
<1>3. \A n \in Messages : /\ Recvd(n)' <=> Recvd(n)
                          /\ Handled(n) <=> n = m
                          /\ ~Handled(n)'
                          /\ ToHandle(n)' <=> ToHandle(n)
                          /\ Back(n)' <=> Back(n)
                          /\ ToAsk(n)' <=> ToAsk(n)
                          /\ Sent(n)' <=> Sent(n)
                          /\ Replied(n)' <=> Replied(n)
  BY <1>1, <1>2, PlaceFacts DEF Recvd, Handled, ToAsk, Sent, Replied, ToHandle, Back
<1>4. ref'[m] = ref[m] - 1 /\ \A n \in Messages : n # m => Still(n) /\ ref'[n] = ref[n]
  BY <1>2, <1>3, PlaceFacts DEF Still
<1>5. Held(m)' = Held(m) - 1 /\ Asking(m)' = Asking(m)
  BY <1>3 DEF Held, Asking, One
<1>6. Placed(m)' /\ Counted(m)'
  <2>1. Placed(m) /\ Counted(m) /\ m \in Nat /\ Len(msgs) \in Nat /\ Held(m) \in Nat
    BY PlaceFacts DEF Held, Asking, One
  <2>2. m <= Len(msgs)
    BY <1>3, <2>1 DEF Placed, Held, Asking, One
  <2> QED
    BY <1>2, <1>3, <1>4, <1>5, <2>1, <2>2, PlaceFacts DEF Placed, Counted
<1>7. MessagesKept'
  BY <1>2, <1>4, <1>6, OneMoves, PlaceFacts
<1> QED
  BY <1>2, <1>7, PlaceFacts DEF OnceEach

\* FreeReceived: so do the worker's.
LEMMA WorkerFreed ==
  ASSUME IInv, NEW s \in Sessions, FreeReceived(s)
  PROVE  OnceEach' /\ MessagesKept'
<1>1. PICK m \in Messages : m = recv[s]
  BY PlaceFacts DEF FreeReceived
<1>2. /\ recv' = [recv EXCEPT ![s] = 0] /\ ref' = [ref EXCEPT ![m] = @ - 1]
      /\ UNCHANGED <<upd, msgs, jobs, authQ, pipe, replies>>
  BY <1>1 DEF FreeReceived
<1>3. \A n \in Messages : /\ Handled(n)' <=> Handled(n)
                          /\ ToHandle(n)' <=> ToHandle(n)
                          /\ Back(n)' <=> Back(n)
                          /\ ToAsk(n)' <=> ToAsk(n)
                          /\ Sent(n)' <=> Sent(n)
                          /\ Replied(n)' <=> Replied(n)
  BY <1>2 DEF Handled, ToAsk, Sent, Replied, ToHandle, Back
<1>4. Recvd(m) /\ \A n \in Messages : Recvd(n)' <=> Recvd(n) /\ n # m
  BY <1>1, <1>2, PlaceFacts DEF Recvd
<1>5. ref'[m] = ref[m] - 1 /\ \A n \in Messages : n # m => Still(n) /\ ref'[n] = ref[n]
  BY <1>2, <1>3, <1>4, PlaceFacts DEF Still
<1>6. Held(m)' = Held(m) - 1 /\ Asking(m)' = Asking(m)
  BY <1>3, <1>4 DEF Held, Asking, One
<1>7. Placed(m)' /\ Counted(m)'
  <2>1. Placed(m) /\ Counted(m) /\ m \in Nat /\ Len(msgs) \in Nat /\ Held(m) \in Nat
    BY PlaceFacts DEF Held, Asking, One
  <2>2. m <= Len(msgs)
    BY <1>4, <2>1 DEF Placed, Held, Asking, One
  <2>3. Placed(m)'
    BY <1>2, <1>3, <1>6, <2>1, <2>2 DEF Placed
  <2>4. Counted(m)'
    <3>1. ref[m] \in Nat /\ msgs' = msgs
      BY <1>2, PlaceFacts
    <3> QED
      BY <1>3, <1>5, <1>6, <2>1, <3>1 DEF Counted
  <2> QED
    BY <2>3, <2>4
<1>8. MessagesKept'
  BY <1>2, <1>5, <1>7, OneMoves, PlaceFacts
<1>9. \A r, n \in Sessions : recv'[r] = recv'[n] => r = n \/ recv'[r] = 0
  BY <1>2, PlaceFacts
<1> QED
  BY <1>2, <1>8, <1>9, PlaceFacts DEF OnceEach

\* AuthReqProc: the message is asked about.
LEMMA SentNow ==
  ASSUME IInv, AuthReqProc
  PROVE  OnceEach' /\ MessagesKept'
<1>1. /\ authQ # <<>> /\ authQ' = Tail(authQ) /\ pipe' = Append(pipe, [cmd |-> "get", m |-> Head(authQ)])
      /\ UNCHANGED <<recv, upd, msgs, ref, jobs, replies>>
  BY DEF AuthReqProc
<1>2. /\ Head(authQ) \in Messages
      /\ \A E : Has(authQ, E) <=> Head(authQ) \in E \/ Has(authQ', E)
      /\ \A E : OnceIn(authQ, E) => OnceIn(authQ', E) /\ (Head(authQ) \in E => ~Has(authQ', E))
  BY <1>1, TailHas, PlaceFacts
<1>3. PICK m \in Messages : m = Head(authQ)
  BY <1>2
<1> DEFINE c == [cmd |-> "get", m |-> m]
<1>4. c \in Command /\ \A n : c \in Get(n) <=> n = m
  BY DEF Command, Get
<1>5. pipe' = Append(pipe, c)
  BY <1>1, <1>3
<1> HIDE DEF c
<1>6. /\ \A E : Has(pipe', E) <=> Has(pipe, E) \/ c \in E
      /\ \A E : OnceIn(pipe, E) /\ (c \in E => ~Has(pipe, E)) => OnceIn(pipe', E)
  BY <1>4, <1>5, AppendHas, PlaceFacts
<1>7. ToAsk(m) /\ \A n \in Messages : (ToAsk(n)' <=> ToAsk(n) /\ n # m) /\ OnceIn(authQ', {n})
  BY <1>2, <1>3, PlaceFacts DEF ToAsk
<1>8. \A n \in Messages : /\ Recvd(n)' <=> Recvd(n)
                          /\ Handled(n)' <=> Handled(n)
                          /\ ToHandle(n)' <=> ToHandle(n)
                          /\ Back(n)' <=> Back(n)
                          /\ Sent(n)' <=> Sent(n) \/ n = m
                          /\ Replied(n)' <=> Replied(n)
  BY <1>1, <1>4, <1>6 DEF Recvd, Handled, Sent, Replied, ToHandle, Back
<1>9. Placed(m) /\ Counted(m) /\ Asking(m) = 1 /\ ~Sent(m) /\ ~Replied(m) /\ ~Back(m) /\ ~ToHandle(m)
  <2>1. Placed(m) /\ Counted(m)
    BY PlaceFacts
  <2> QED
    BY <1>7, <2>1 DEF Placed, Asking, One
<1>10. Held(m)' = Held(m) /\ Asking(m)' = 1
  <2>1. ~ToAsk(m)' /\ Sent(m)' /\ ~Replied(m)' /\ ~Back(m)'
    BY <1>7, <1>8, <1>9
  <2>2. Asking(m)' = 1
    BY <2>1 DEF Asking, One
  <2> QED
    BY <1>8, <1>9, <2>2 DEF Held, One
<1>11. Placed(m)' /\ Counted(m)'
  BY <1>1, <1>8, <1>9, <1>10 DEF Placed, Counted
<1>12. \A n \in Messages : n # m => Still(n) /\ ref'[n] = ref[n]
  BY <1>1, <1>7, <1>8 DEF Still
<1>13. MessagesKept'
  BY <1>1, <1>11, <1>12, OneMoves, PlaceFacts
<1>14. \A n \in Messages : OnceIn(pipe', Get(n))
  BY <1>4, <1>6, <1>9, PlaceFacts DEF Sent
<1> QED
  BY <1>1, <1>7, <1>13, <1>14, PlaceFacts DEF OnceEach

\* Redis answers a get.
LEMMA RepliedNow ==
  ASSUME IInv, Redis, Head(pipe).cmd = "get"
  PROVE  OnceEach' /\ MessagesKept'
<1>1. /\ pipe # <<>> /\ pipe' = Tail(pipe)
      /\ replies' = Append(replies, [m |-> Head(pipe).m, value |-> redis])
      /\ UNCHANGED <<recv, upd, msgs, ref, jobs, authQ>> /\ redis \in Tokens \cup {None}
  BY DEF Redis, IInv, TypeOK
<1>2. /\ Head(pipe) \in Command
      /\ \A E : Has(pipe, E) <=> Head(pipe) \in E \/ Has(pipe', E)
      /\ \A E : OnceIn(pipe, E) => OnceIn(pipe', E) /\ (Head(pipe) \in E => ~Has(pipe', E))
  BY <1>1, TailHas, PlaceFacts
<1>3. PICK m \in Messages : m = Head(pipe).m
  BY <1>2 DEF Command
<1>4. \A n : Head(pipe) \in Get(n) <=> n = m
  BY <1>2, <1>3 DEF Get
<1> DEFINE e == [m |-> m, value |-> redis]
<1>5. e \in Reply /\ \A n : e \in ReplyTo(n) <=> n = m
  BY <1>1 DEF Reply, ReplyTo
<1>6. replies' = Append(replies, e)
  BY <1>1, <1>3
<1> HIDE DEF e
<1>7. /\ \A E : Has(replies', E) <=> Has(replies, E) \/ e \in E
      /\ \A E : OnceIn(replies, E) /\ (e \in E => ~Has(replies, E)) => OnceIn(replies', E)
  BY <1>5, <1>6, AppendHas, PlaceFacts
<1>8. Sent(m) /\ \A n \in Messages : (Sent(n)' <=> Sent(n) /\ n # m) /\ OnceIn(pipe', Get(n))
  BY <1>2, <1>4, PlaceFacts DEF Sent
<1>9. \A n \in Messages : /\ Recvd(n)' <=> Recvd(n)
                          /\ Handled(n)' <=> Handled(n)
                          /\ ToHandle(n)' <=> ToHandle(n)
                          /\ Back(n)' <=> Back(n)
                          /\ ToAsk(n)' <=> ToAsk(n)
                          /\ Replied(n)' <=> Replied(n) \/ n = m
  BY <1>1, <1>5, <1>7 DEF Recvd, Handled, ToAsk, Replied, ToHandle, Back
<1>10. Placed(m) /\ Counted(m) /\ Asking(m) = 1 /\ ~ToAsk(m) /\ ~Replied(m) /\ ~Back(m) /\ ~ToHandle(m)
  <2>1. Placed(m) /\ Counted(m)
    BY PlaceFacts
  <2> QED
    BY <1>8, <2>1 DEF Placed, Asking, One
<1>11. Held(m)' = Held(m) /\ Asking(m)' = 1
  BY <1>8, <1>9, <1>10 DEF Held, Asking, One
<1>12. Placed(m)' /\ Counted(m)'
  BY <1>1, <1>9, <1>10, <1>11 DEF Placed, Counted
<1>13. \A n \in Messages : n # m => Still(n) /\ ref'[n] = ref[n]
  BY <1>1, <1>8, <1>9 DEF Still
<1>14. MessagesKept'
  BY <1>1, <1>12, <1>13, OneMoves, PlaceFacts
<1>15. \A n \in Messages : OnceIn(replies', ReplyTo(n))
  BY <1>5, <1>7, <1>10, PlaceFacts DEF Replied
<1> QED
  BY <1>1, <1>8, <1>14, <1>15, PlaceFacts DEF OnceEach

\* Redis forgets the token; the messages stay where they are.
LEMMA DeletedNow ==
  ASSUME IInv, Redis, Head(pipe).cmd # "get"
  PROVE  OnceEach' /\ MessagesKept'
<1>1. /\ pipe # <<>> /\ pipe' = Tail(pipe)
      /\ UNCHANGED <<recv, upd, msgs, ref, jobs, authQ, replies>>
  BY DEF Redis
<1>2. /\ \A E : Has(pipe, E) <=> Head(pipe) \in E \/ Has(pipe', E)
      /\ \A E : OnceIn(pipe, E) => OnceIn(pipe', E)
  BY <1>1, TailHas, PlaceFacts
<1>3. \A n \in Messages : (Sent(n)' <=> Sent(n)) /\ OnceIn(pipe', Get(n))
  BY <1>2, PlaceFacts DEF Sent, Get
<1>4. \A n \in Messages : Still(n)
  BY <1>1, <1>3 DEF Still, Recvd, Handled, ToAsk, Replied, ToHandle, Back
<1> QED
  BY <1>1, <1>3, <1>4, PlaceFacts, AllStill DEF OnceEach

\* The callback's del is no get.
LEMMA DelSent ==
  ASSUME IInv, SendDel
  PROVE  OnceEach' /\ MessagesKept'
<1> DEFINE c == [cmd |-> "del", m |-> delNext]
<1>1. pipe' = Append(pipe, c) /\ UNCHANGED <<recv, upd, msgs, ref, jobs, authQ, replies>>
  BY DEF SendDel
<1>2. c \in Command /\ \A n : c \notin Get(n)
  BY DEF SendDel, IInv, TypeOK, Command, Get
<1> HIDE DEF c
<1>3. /\ \A E : Has(pipe', E) <=> Has(pipe, E) \/ c \in E
      /\ \A E : OnceIn(pipe, E) /\ (c \in E => ~Has(pipe, E)) => OnceIn(pipe', E)
  BY <1>1, <1>2, AppendHas, PlaceFacts
<1>4. \A n \in Messages : (Sent(n)' <=> Sent(n)) /\ OnceIn(pipe', Get(n))
  BY <1>2, <1>3, PlaceFacts DEF Sent
<1>5. \A n \in Messages : Still(n)
  BY <1>1, <1>4 DEF Still, Recvd, Handled, ToAsk, Replied, ToHandle, Back
<1> QED
  BY <1>1, <1>4, <1>5, PlaceFacts, AllStill DEF OnceEach

\* A message is one of a session.
LEMMA MessageSession ==
  ASSUME IInv, NEW m \in Messages, m <= Len(msgs)
  PROVE  m \in 1..Len(msgs) /\ msgs[m].s \in Sessions
<1>1. msgs \in Seq([s : Sessions, kind : {"login", "bad", "other"}, token : Tokens \cup {Wrong, None}])
  BY DEF IInv, TypeOK
<1>2. m \in 1..Len(msgs)
  BY <1>1, LenProperties, Bounds DEF Messages
<1>3. msgs[m] \in [s : Sessions, kind : {"login", "bad", "other"}, token : Tokens \cup {Wrong, None}]
  BY <1>1, <1>2, ElementOfSeq
<1> QED
  BY <1>2, <1>3

\* The callback: the message goes back to UpdateThread, or is given up.
LEMMA AnsweredNow ==
  ASSUME IInv, Callback
  PROVE  OnceEach' /\ MessagesKept'
<1>1. replies # <<>> /\ replies' = Tail(replies) /\ UNCHANGED <<recv, upd, msgs, authQ, pipe>>
  BY DEF Callback
<1>2. /\ Head(replies) \in Reply
      /\ \A E : Has(replies, E) <=> Head(replies) \in E \/ Has(replies', E)
      /\ \A E : OnceIn(replies, E) => OnceIn(replies', E) /\ (Head(replies) \in E => ~Has(replies', E))
  BY <1>1, TailHas, PlaceFacts
<1>3. PICK m \in Messages : m = Head(replies).m
  BY <1>2 DEF Reply
<1>4. \A n : Head(replies) \in ReplyTo(n) <=> n = m
  BY <1>2, <1>3 DEF ReplyTo
<1>5. Replied(m) /\ \A n \in Messages : (Replied(n)' <=> Replied(n) /\ n # m) /\ OnceIn(replies', ReplyTo(n))
  BY <1>2, <1>4, PlaceFacts DEF Replied
<1>6. \A n \in Messages : /\ Recvd(n)' <=> Recvd(n)
                          /\ Handled(n)' <=> Handled(n)
                          /\ ToAsk(n)' <=> ToAsk(n)
                          /\ Sent(n)' <=> Sent(n)
  BY <1>1 DEF Recvd, Handled, ToAsk, Sent
<1>7. Placed(m) /\ Counted(m) /\ Asking(m) = 1 /\ ~ToAsk(m) /\ ~Sent(m) /\ ~Back(m) /\ ~ToHandle(m)
  <2>1. Placed(m) /\ Counted(m)
    BY PlaceFacts
  <2> QED
    BY <1>5, <2>1 DEF Placed, Asking, One
<1>8. m <= Len(msgs) /\ m \in Nat /\ Len(msgs) \in Nat
  <2>1. m \in Nat /\ Len(msgs) \in Nat /\ Held(m) # 0
    BY <1>5, PlaceFacts DEF Held, Asking, One
  <2> QED
    BY <1>7, <2>1 DEF Placed
<1>9. CASE jobs' = jobs /\ ref' = [ref EXCEPT ![m] = @ - 1]
  <2>1. \A n \in Messages : (ToHandle(n)' <=> ToHandle(n)) /\ (Back(n)' <=> Back(n))
    BY <1>9 DEF ToHandle, Back
  <2>2. ref'[m] = ref[m] - 1 /\ ref[m] \in Nat /\ \A n \in Messages : n # m => Still(n) /\ ref'[n] = ref[n]
    <3>1. \A n \in Messages : n # m => Still(n)
      BY <1>5, <1>6, <2>1 DEF Still
    <3>2. ref \in [Messages -> 0..3]
      BY PlaceFacts
    <3>4. ref[m] \in Nat /\ ref'[m] = ref[m] - 1
      BY <1>9, <3>2
    <3>3. \A n \in Messages : n # m => ref'[n] = ref[n]
      BY <1>9, <3>2
    <3> QED
      BY <3>1, <3>3, <3>4
  <2>3. Asking(m)' = 0
    BY <1>5, <1>6, <1>7, <2>1 DEF Asking, One
  <2>4. Held(m)' = Held(m) - 1 /\ Held(m) \in Nat
    BY <1>6, <1>7, <2>1, <2>3 DEF Held, One
  <2>5. Placed(m)' /\ Counted(m)'
    BY <1>1, <1>6, <1>7, <1>8, <2>1, <2>2, <2>3, <2>4 DEF Placed, Counted
  <2>6. MessagesKept'
    BY <1>1, <2>2, <2>5, OneMoves, PlaceFacts
  <2> QED
    BY <1>1, <1>5, <1>9, <2>6, PlaceFacts DEF OnceEach
<1>10. CASE /\ jobs' = Append(jobs, [type |-> "AuthCom", s |-> msgs[m].s, m |-> m])
            /\ ref' = ref
  <2> DEFINE e == [type |-> "AuthCom", s |-> msgs[m].s, m |-> m]
  <2>1. e \in GoodJob /\ \A n : e \notin RecvJob(n) /\ (e \in AuthJob(n) <=> n = m) /\ (e \in JobWith(n) <=> n = m)
    BY <1>8, MessageSession, PlaceFacts DEF GoodJob, Job, RecvJob, AuthJob, JobWith
  <2>2. jobs' = Append(jobs, e)
    BY <1>10
  <2> HIDE DEF e
  <2>3. /\ \A E : Has(jobs', E) <=> Has(jobs, E) \/ e \in E
        /\ \A E : OnceIn(jobs, E) /\ (e \in E => ~Has(jobs, E)) => OnceIn(jobs', E)
    BY <2>1, <2>2, PutJob
  <2>4. \A n \in Messages : (ToHandle(n)' <=> ToHandle(n)) /\ (Back(n)' <=> Back(n) \/ n = m)
    BY <2>1, <2>3 DEF ToHandle, Back
  <2>5. ~Has(jobs, JobWith(m))
    BY <1>7, PlaceFacts DEF ToHandle, Back, Has, JobWith, RecvJob, AuthJob, GoodJob, Job
  <2>6. \A n \in Messages : OnceIn(jobs', JobWith(n))
    BY <2>1, <2>3, <2>5, PlaceFacts
  <2>7. \A n \in Messages : n # m => Still(n) /\ ref'[n] = ref[n]
    BY <1>5, <1>6, <1>10, <2>4 DEF Still
  <2>8. Asking(m)' = 1
    BY <1>5, <1>6, <1>7, <2>4 DEF Asking, One
  <2>9. Held(m)' = Held(m)
    BY <1>6, <1>7, <2>4, <2>8 DEF Held, One
  <2>10. Placed(m)' /\ Counted(m)'
    BY <1>1, <1>6, <1>7, <1>8, <1>10, <2>4, <2>8, <2>9 DEF Placed, Counted
  <2>11. MessagesKept'
    BY <1>1, <2>7, <2>10, OneMoves, PlaceFacts
  <2> QED
    BY <1>1, <1>5, <2>6, <2>11, PlaceFacts DEF OnceEach
<1> QED
  BY <1>3, <1>9, <1>10 DEF Callback

\* AuthComProc: it leaves UpdateThread's queue.
LEMMA CompletedNow ==
  ASSUME IInv, AuthComProc
  PROVE  OnceEach' /\ MessagesKept'
<1>1. /\ jobs # <<>> /\ jobs' = Tail(jobs) /\ Head(jobs).type = "AuthCom"
      /\ UNCHANGED <<recv, upd, msgs, authQ, pipe, replies>>
  BY DEF AuthComProc, NextIs
<1>2. /\ Head(jobs) \in GoodJob
      /\ \A n \in Messages : /\ OnceIn(jobs', JobWith(n))
                             /\ ToHandle(n)' <=> ToHandle(n) /\ Head(jobs) \notin RecvJob(n)
                             /\ Back(n)' <=> Back(n) /\ Head(jobs) \notin AuthJob(n)
                             /\ Head(jobs) \in AuthJob(n) => Back(n)
  BY <1>1, TakeJob
<1>3. PICK m \in Messages : m = Head(jobs).m
  BY <1>1, <1>2 DEF GoodJob, Job
<1>4. \A n : Head(jobs) \notin RecvJob(n) /\ (Head(jobs) \in AuthJob(n) <=> n = m)
  BY <1>1, <1>2, <1>3 DEF GoodJob, RecvJob, AuthJob
<1>5. /\ Back(m)
      /\ \A n \in Messages : (ToHandle(n)' <=> ToHandle(n)) /\ (Back(n)' <=> Back(n) /\ n # m)
  BY <1>2, <1>4
<1>6. \A n \in Messages : /\ Recvd(n)' <=> Recvd(n)
                          /\ Handled(n)' <=> Handled(n)
                          /\ ToAsk(n)' <=> ToAsk(n)
                          /\ Sent(n)' <=> Sent(n)
                          /\ Replied(n)' <=> Replied(n)
  BY <1>1 DEF Recvd, Handled, ToAsk, Sent, Replied
<1>7. Placed(m) /\ Counted(m) /\ Asking(m) = 1 /\ ~ToAsk(m) /\ ~Sent(m) /\ ~Replied(m) /\ ~ToHandle(m)
  <2>1. Placed(m) /\ Counted(m)
    BY PlaceFacts
  <2> QED
    BY <1>5, <2>1 DEF Placed, Asking, One
<1>8. m <= Len(msgs) /\ m \in Nat /\ Len(msgs) \in Nat
  <2>1. m \in Nat /\ Len(msgs) \in Nat /\ Held(m) # 0
    BY <1>5, PlaceFacts DEF Held, Asking, One
  <2> QED
    BY <1>7, <2>1 DEF Placed
<1>9. ref[m] = Held(m)
  BY <1>7 DEF Counted
<1>10. Asking(m)' = 0
  BY <1>5, <1>6, <1>7 DEF Asking, One
<1>11. Held(m)' = Held(m) - 1 /\ Held(m) \in Nat
  BY <1>5, <1>6, <1>7, <1>10 DEF Held, One
<1>12. ref' = [ref EXCEPT ![m] = @ - 1] \/ (ref' = ref /\ msgs[m].kind = "bad")
  BY <1>3 DEF AuthComProc
<1>13. /\ ref'[m] = ref[m] - 1 \/ (ref'[m] = ref[m] /\ msgs[m].kind = "bad")
       /\ \A n \in Messages : n # m => Still(n) /\ ref'[n] = ref[n]
  BY <1>5, <1>6, <1>12, PlaceFacts DEF Still
<1>14. Placed(m)'
  BY <1>1, <1>5, <1>6, <1>7, <1>8, <1>10, <1>11 DEF Placed
<1>15. Counted(m)'
  BY <1>1, <1>5, <1>7, <1>8, <1>9, <1>10, <1>11, <1>13 DEF Counted
<1>16. MessagesKept'
  BY <1>1, <1>13, <1>14, <1>15, OneMoves, PlaceFacts
<1> QED
  BY <1>1, <1>2, <1>16, PlaceFacts DEF OnceEach

\* RecvIOProc, OnRecv: a new message, with its worker and in UpdateThread's queue.
LEMMA ReceivedNow ==
  ASSUME IInv, NEW s \in Sessions, NEW kind \in {"login", "bad", "other"},
         NEW token \in Tokens \cup {Wrong, None}, Receive(s, kind, token)
  PROVE  OnceEach' /\ MessagesKept'
<1> DEFINE msg == [s |-> s, kind |-> kind, token |-> token]
<1>1. /\ recv[s] = 0 /\ Len(msgs) < MaxMsg /\ msgs' = Append(msgs, msg)
      /\ UNCHANGED <<upd, authQ, pipe, replies>>
  BY DEF Receive, CanReceive
<1>2. /\ Len(msgs) \in Nat /\ Len(msgs') = Len(msgs) + 1
      /\ \A i \in 1..Len(msgs) : msgs'[i] = msgs[i]
  <2>1. msgs \in Seq([s : Sessions, kind : {"login", "bad", "other"}, token : Tokens \cup {Wrong, None}])
    BY DEF IInv, TypeOK
  <2>2. msg \in [s : Sessions, kind : {"login", "bad", "other"}, token : Tokens \cup {Wrong, None}]
    OBVIOUS
  <2> HIDE DEF msg
  <2> QED
    BY <1>1, <2>1, <2>2, AppendProperties, LenProperties
<1> HIDE DEF msg
<1>3. PICK m \in Messages : m = Len(msgs) + 1
  BY <1>1, <1>2, Bounds DEF Messages
<1> DEFINE e == [type |-> "Recv", s |-> s, m |-> m]
<1>4. /\ ref' = [ref EXCEPT ![m] = 2] /\ recv' = [recv EXCEPT ![s] = m] /\ jobs' = Append(jobs, e)
  BY <1>3 DEF Receive
<1>5. e \in GoodJob /\ \A n : e \notin AuthJob(n) /\ (e \in RecvJob(n) <=> n = m) /\ (e \in JobWith(n) <=> n = m)
  BY PlaceFacts DEF GoodJob, Job, RecvJob, AuthJob, JobWith
<1> HIDE DEF e
<1>6. /\ \A E : Has(jobs', E) <=> Has(jobs, E) \/ e \in E
      /\ \A E : OnceIn(jobs, E) /\ (e \in E => ~Has(jobs, E)) => OnceIn(jobs', E)
  BY <1>4, <1>5, PutJob
<1>7. m \in Nat /\ Placed(m) /\ Held(m) = 0
  <2>1. m \in Nat /\ Placed(m)
    BY PlaceFacts
  <2> QED
    BY <1>2, <1>3, <2>1 DEF Placed
<1>8. /\ ~Recvd(m) /\ ~ToHandle(m) /\ ~Handled(m) /\ ~ToAsk(m) /\ ~Sent(m) /\ ~Replied(m) /\ ~Back(m)
  BY <1>7 DEF Held, Asking, One
<1>9. \A n \in Messages : /\ ToHandle(n)' <=> ToHandle(n) \/ n = m
                          /\ Back(n)' <=> Back(n)
                          /\ Handled(n)' <=> Handled(n)
                          /\ ToAsk(n)' <=> ToAsk(n)
                          /\ Sent(n)' <=> Sent(n)
                          /\ Replied(n)' <=> Replied(n)
  BY <1>1, <1>5, <1>6 DEF ToHandle, Back, Handled, ToAsk, Sent, Replied
<1>10. \A n \in Messages : Recvd(n)' <=> Recvd(n) \/ n = m
  BY <1>1, <1>4, PlaceFacts DEF Recvd
<1>11. Asking(m)' = 0
  BY <1>8, <1>9 DEF Asking, One
<1>12. Held(m)' = 2
  BY <1>8, <1>9, <1>10, <1>11 DEF Held, One
<1>13. Placed(m)' /\ Counted(m)'
  <2>1. ref'[m] = 2
    BY <1>4, PlaceFacts
  <2> QED
    BY <1>2, <1>3, <1>8, <1>9, <1>11, <1>12, <2>1 DEF Placed, Counted
<1>14. ASSUME NEW n \in Messages, n # m PROVE Placed(n)' /\ Counted(n)'
  <2>1. /\ Placed(n) /\ Counted(n) /\ n \in Nat /\ n # 0 /\ ref'[n] = ref[n] /\ Still(n)
    BY <1>4, <1>9, <1>10, <1>14, PlaceFacts DEF Still
  <2>2. Held(n)' = Held(n) /\ Asking(n)' = Asking(n)
    BY <2>1 DEF Still, Held, Asking, One
  <2>3. n <= Len(msgs) => n <= Len(msgs') /\ msgs'[n] = msgs[n]
    BY <1>2, <2>1
  <2>4. n > Len(msgs') => n > Len(msgs)
    BY <1>2, <2>1
  <2>5. Placed(n)'
    BY <2>1, <2>2, <2>4 DEF Placed, Still
  <2> QED
    BY <2>1, <2>2, <2>3, <2>5 DEF Counted, Still
<1>15. MessagesKept'
  <2>1. upd'.pc = "loop" <=> upd'.m = 0
    BY <1>1, PlaceFacts
  <2> QED
    BY <1>1, <1>2, <1>13, <1>14, <2>1, Bounds DEF MessagesKept
<1>16. ~Has(jobs, JobWith(m))
  BY <1>8, PlaceFacts DEF ToHandle, Back, Has, JobWith, RecvJob, AuthJob, GoodJob, Job
<1>17. \A n \in Messages : OnceIn(jobs', JobWith(n))
  BY <1>5, <1>6, <1>16, PlaceFacts
<1>18. \A r, n \in Sessions : recv'[r] = recv'[n] => r = n \/ recv'[r] = 0
  BY <1>1, <1>4, <1>8, PlaceFacts DEF Recvd
<1> QED
  BY <1>1, <1>15, <1>17, <1>18, PlaceFacts DEF OnceEach

\* AuthRequestJob: SetEvent.
LEMMA SignalledNow ==
  ASSUME IInv, SetEvent
  PROVE  OnceEach' /\ MessagesKept'
<1>1. /\ upd.pc = "signal" /\ upd'.pc = "free" /\ upd'.m = upd.m
      /\ UNCHANGED <<recv, msgs, ref, jobs, authQ, pipe, replies>>
  BY PlaceFacts DEF SetEvent
<1>2. \A n \in Messages : Still(n)
  BY <1>1 DEF Still, Recvd, Handled, ToAsk, Sent, Replied, ToHandle, Back
<1> QED
  BY <1>1, <1>2, PlaceFacts, AllStill DEF OnceEach

\* A message is where it is counted, and only there, after every step.
LEMMA MessageStep ==
  ASSUME IInv, [Next]_vars
  PROVE  OnceEach' /\ MessagesKept'
<1>1. CASE SetRedisToken
  BY <1>1, NoPlaces DEF SetRedisToken
<1>2. ASSUME NEW k \in Tokens, LoginAnswer(k) PROVE OnceEach' /\ MessagesKept'
  BY <1>2, NoPlaces DEF LoginAnswer
<1>3. ASSUME NEW s \in Sessions, Join(s) PROVE OnceEach' /\ MessagesKept'
  <2>1. [type |-> "Join", s |-> s, m |-> 0] \in GoodJob
    BY DEF GoodJob, Job
  <2> QED
    BY <1>3, <2>1, OtherJobs DEF Join
<1>4. ASSUME NEW s \in Sessions, Hangup(s) PROVE OnceEach' /\ MessagesKept'
  BY <1>4, NoPlaces DEF Hangup
<1>5. ASSUME NEW s \in Sessions, FreeReceived(s) PROVE OnceEach' /\ MessagesKept'
  BY <1>5, WorkerFreed
<1>6. ASSUME NEW s \in Sessions, Leave(s) PROVE OnceEach' /\ MessagesKept'
  <2>1. [type |-> "Delete", s |-> s, m |-> 0] \in GoodJob
    BY DEF GoodJob, Job
  <2> QED
    BY <1>6, <2>1, OtherJobs DEF Leave
<1>7. ASSUME NEW s \in Sessions, NEW kind \in {"login", "bad", "other"},
             NEW token \in Tokens \cup {Wrong, None}, Receive(s, kind, token)
      PROVE  OnceEach' /\ MessagesKept'
  BY <1>7, ReceivedNow
<1>8. CASE JoinProc
  <2>1. jobs # <<>> /\ Head(jobs) \in GoodJob /\ Head(jobs).type = "Join"
    BY <1>8, TailHas, PlaceFacts DEF JoinProc, NextIs
  <2> QED
    BY <1>8, <2>1, OtherJobs DEF JoinProc, GoodJob
<1>9. CASE DeleteProc
  <2>1. jobs # <<>> /\ Head(jobs) \in GoodJob /\ Head(jobs).type = "Delete"
    BY <1>9, TailHas, PlaceFacts DEF DeleteProc, NextIs
  <2> QED
    BY <1>9, <2>1, OtherJobs DEF DeleteProc, GoodJob
<1>10. CASE LoginProc
  <2>1. PICK p \in {"free", "broken"} : upd' = [pc |-> p, m |-> Head(jobs).m]
    BY <1>10 DEF LoginProc
  <2> QED
    BY <1>10, <2>1, HandledNow DEF LoginProc
<1>11. CASE AuthRequestJob
  BY <1>11, HandledNow, AskedNow DEF AuthRequestJob
<1>12. CASE OtherProc
  BY <1>12, HandledNow DEF OtherProc
<1>13. CASE AuthComProc
  BY <1>13, CompletedNow
<1>14. CASE SetEvent
  BY <1>14, SignalledNow
<1>15. CASE FreeJobMessage
  BY <1>15, FreedNow
<1>16. CASE AuthWait
  BY <1>16, NoPlaces DEF AuthWait
<1>17. CASE AuthReqProc
  BY <1>17, SentNow
<1>18. CASE AuthDrained
  BY <1>18, NoPlaces DEF AuthDrained
<1>19. CASE Redis
  BY <1>19, RepliedNow, DeletedNow
<1>20. CASE SendDel
  BY <1>20, DelSent
<1>21. CASE Callback
  BY <1>21, AnsweredNow
<1>u. CASE UNCHANGED vars
  BY <1>u, NoPlaces
<1> QED
  BY <1>1, <1>2, <1>3, <1>4, <1>5, <1>6, <1>7, <1>8, <1>9, <1>10, <1>11, <1>12, <1>13, <1>14, <1>15, <1>16, <1>17, <1>18, <1>19, <1>20, <1>21, <1>u
  DEF Next, Worker, UpdateThread, AuthThread

-----------------------------------------------------------------------------
(* Logins *)

\* The facts about logins that the steps need.
LEMMA LoginFacts ==
  ASSUME IInv
  PROVE  /\ AsksNobody /\ JobsTrue /\ UsersLoggedIn /\ BrokenBySecond
         /\ jobs \in Seq(GoodJob) /\ Len(msgs) \in Nat /\ Len(msgs) <= MaxMsg
         /\ \A m \in 1..Len(msgs) : m \in Messages /\ m # Len(msgs) + 1
         /\ \A m \in 1..Len(msgs) :
                msgs[m].s \in Sessions /\ msgs[m].kind \in {"login", "bad", "other"}
<1>1. msgs \in Seq([s : Sessions, kind : {"login", "bad", "other"}, token : Tokens \cup {Wrong, None}])
  BY DEF IInv, TypeOK
<1>2. \A m \in 1..Len(msgs) :
          msgs[m] \in [s : Sessions, kind : {"login", "bad", "other"}, token : Tokens \cup {Wrong, None}]
  BY <1>1, ElementOfSeq
<1> QED
  BY <1>2, PlaceFacts, Bounds DEF IInv, LoginsTold, Messages

\* A step that brings no user keeps what is said of them.
LEMMA UsersKept ==
  ASSUME IInv, auth' = auth, users' \subseteq users,
         Len(msgs') \in Nat, Len(msgs) <= Len(msgs'), \A i \in 1..Len(msgs) : msgs'[i] = msgs[i],
         \A i \in 1..Len(msgs) : ToHandle(i)' => ToHandle(i)
  PROVE  UsersLoggedIn'
<1> SUFFICES ASSUME ~auth, NEW s \in users' PROVE LoggedIn(s)'
  BY DEF UsersLoggedIn
<1>1. PICK i \in 1..Len(msgs) : IsLogin(i, s) /\ ~ToHandle(i)
  BY LoginFacts DEF UsersLoggedIn, LoggedIn
<1>2. i \in 1..Len(msgs') /\ msgs'[i] = msgs[i] /\ ~ToHandle(i)'
  BY <1>1, LoginFacts
<1>3. IsLogin(i, s)'
  BY <1>1, <1>2 DEF IsLogin
<1> QED
  BY <1>2, <1>3 DEF LoggedIn

\* A broken UpdateThread takes no user away.
LEMMA BrokenKept ==
  ASSUME IInv, auth' = auth, upd' = upd, users' = users,
         Len(msgs') \in Nat, Len(msgs) <= Len(msgs'), \A i \in 1..Len(msgs) : msgs'[i] = msgs[i]
  PROVE  BrokenBySecond'
<1> SUFFICES ASSUME Broken PROVE BrokenBySecond'
  BY DEF BrokenBySecond, Broken
<1>1. /\ ~auth /\ upd.m \in 1..Len(msgs) /\ msgs[upd.m].kind = "login"
      /\ msgs[upd.m].s \in users /\ Again(upd.m, msgs[upd.m].s)
  BY LoginFacts DEF BrokenBySecond
<1>2. PICK m \in 1..Len(msgs) : m = upd.m
  BY <1>1
<1>3. PICK i \in 1..Len(msgs) : i # m /\ IsLogin(i, msgs[m].s)
  BY <1>1, <1>2 DEF Again
<1>4. /\ i \in 1..Len(msgs') /\ m \in 1..Len(msgs') /\ msgs'[i] = msgs[i] /\ msgs'[m] = msgs[m]
      /\ upd'.m = m
  BY <1>2, <1>3, LoginFacts
<1>5. Again(upd.m, msgs[upd.m].s)'
  BY <1>3, <1>4 DEF Again, IsLogin
<1> QED
  BY <1>1, <1>2, <1>4, <1>5 DEF BrokenBySecond

\* A step after which UpdateThread is not broken.
LEMMA NotBroken ==
  ASSUME upd'.pc # "broken"
  PROVE  BrokenBySecond'
  BY DEF BrokenBySecond, Broken

\* A step that leaves messages, users and UpdateThread alone, and its queue too.
LEMMA LoginsSame ==
  ASSUME IInv, UNCHANGED <<auth, msgs, users, upd, jobs>>, AsksNobody'
  PROVE  LoginsTold'
<1>1. JobsTrue'
  BY LoginFacts DEF JobsTrue
<1>2. UsersLoggedIn'
  BY LoginFacts, UsersKept DEF ToHandle
<1>3. BrokenBySecond'
  BY LoginFacts, BrokenKept
<1> QED
  BY <1>1, <1>2, <1>3 DEF LoginsTold

\* The queue gets a job that is not about a message to be handled.
LEMMA LoginsPut ==
  ASSUME IInv, UNCHANGED <<auth, msgs, users, upd>>, NEW j \in GoodJob, j.type # "Recv",
         jobs' = Append(jobs, j), AsksNobody'
  PROVE  LoginsTold'
<1>1. \A E : Has(jobs', E) <=> Has(jobs, E) \/ j \in E
  BY LoginFacts, AppendHas
<1>2. \A m, s : j \notin RecvOf(m, s) /\ j \notin RecvJob(m)
  BY DEF RecvOf, RecvJob
<1>3. JobsTrue'
  BY <1>1, <1>2, LoginFacts DEF JobsTrue
<1>4. \A i \in 1..Len(msgs) : ToHandle(i)' => ToHandle(i)
  BY <1>1, <1>2 DEF ToHandle
<1>5. UsersLoggedIn'
  BY <1>4, LoginFacts, UsersKept
<1>6. BrokenBySecond'
  BY LoginFacts, BrokenKept
<1> QED
  BY <1>3, <1>5, <1>6 DEF LoginsTold

\* A job is taken and handled, and brings no user.
LEMMA LoginsTaken ==
  ASSUME IInv, UNCHANGED <<auth, msgs>>, users' \subseteq users, jobs # <<>>, jobs' = Tail(jobs),
         upd'.pc # "broken", AsksNobody'
  PROVE  LoginsTold'
<1>1. \A E : Has(jobs', E) => Has(jobs, E)
  BY LoginFacts, TailHas
<1>2. JobsTrue'
  BY <1>1, LoginFacts DEF JobsTrue
<1>3. \A i \in 1..Len(msgs) : ToHandle(i)' => ToHandle(i)
  BY <1>1 DEF ToHandle
<1>4. UsersLoggedIn'
  BY <1>3, LoginFacts, UsersKept
<1> QED
  BY <1>2, <1>4, NotBroken DEF LoginsTold

\* OnRecv: one more message, with its job.
LEMMA LoginReceived ==
  ASSUME IInv, NEW s \in Sessions, NEW kind \in {"login", "bad", "other"},
         NEW token \in Tokens \cup {Wrong, None}, Receive(s, kind, token)
  PROVE  LoginsTold'
<1> DEFINE m == Len(msgs) + 1
           j == [type |-> "Recv", s |-> s, m |-> m]
           x == [s |-> s, kind |-> kind, token |-> token]
<1>1. /\ msgs' = Append(msgs, x) /\ jobs' = Append(jobs, j) /\ Len(msgs) < MaxMsg
      /\ UNCHANGED <<auth, users, upd, authQ, pipe, replies, delNext>>
  BY DEF Receive
<1>2. m \in Messages /\ Len(msgs) \in Nat
  BY <1>1, LoginFacts, Bounds DEF Messages
<1>3. j \in GoodJob /\ j.type = "Recv" /\ j.s = s /\ j.m = m
  BY <1>2, PlaceFacts DEF GoodJob, Job
<1>4. /\ Len(msgs') = m /\ msgs'[m] = x /\ \A i \in 1..Len(msgs) : msgs'[i] = msgs[i]
  BY <1>1, <1>2, AppendProperties DEF IInv, TypeOK
<1> HIDE DEF j
<1>5. \A E : Has(jobs', E) <=> Has(jobs, E) \/ j \in E
  BY <1>1, <1>3, LoginFacts, AppendHas
<1>6. AsksNobody'
  BY <1>1, <1>3, <1>5, LoginFacts DEF AsksNobody, AuthJobs
<1>7. \A n \in Messages, r \in Sessions : j \in RecvOf(n, r) => n = m /\ r = s
  BY <1>3 DEF RecvOf
<1>8. \A n \in Messages : j \in RecvJob(n) => n = m
  BY <1>3 DEF RecvJob
<1>9. JobsTrue'
  <2> SUFFICES ASSUME NEW n \in Messages, NEW r \in Sessions, Has(jobs', RecvOf(n, r))
               PROVE  n <= Len(msgs') /\ msgs'[n].s = r
    BY DEF JobsTrue, RecvOf
  <2>1. CASE Has(jobs, RecvOf(n, r))
    <3>1. n <= Len(msgs) /\ msgs[n].s = r /\ n \in Nat /\ n # 0
      BY <2>1, LoginFacts, PlaceFacts DEF JobsTrue
    <3> QED
      BY <1>2, <1>4, <3>1
  <2>2. CASE j \in RecvOf(n, r)
    BY <1>2, <1>4, <1>7, <2>2
  <2> QED
    BY <1>5, <2>1, <2>2
<1>10. \A i \in 1..Len(msgs) : ToHandle(i)' => ToHandle(i)
  BY <1>5, <1>8, LoginFacts DEF ToHandle
<1> HIDE DEF m
<1>11. Len(msgs') \in Nat /\ Len(msgs) <= Len(msgs')
  BY <1>2, <1>4 DEF m
<1>12. UsersLoggedIn'
  BY <1>1, <1>4, <1>10, <1>11, UsersKept
<1>13. BrokenBySecond'
  BY <1>1, <1>4, <1>11, BrokenKept
<1> QED
  BY <1>6, <1>9, <1>12, <1>13 DEF LoginsTold

\* LoginProc: the session becomes a user by this login, or was one by another.
LEMMA LoginHandled ==
  ASSUME IInv, LoginProc
  PROVE  LoginsTold'
<1>1. /\ jobs # <<>> /\ jobs' = Tail(jobs) /\ Head(jobs).type = "Recv" /\ ~auth
      /\ NextIs("Recv") /\ UNCHANGED <<auth, msgs, authQ, pipe, replies, delNext>>
  BY DEF LoginProc, NextIs
<1>2. /\ Head(jobs) \in GoodJob /\ \A E : Has(jobs', E) => Has(jobs, E)
      /\ \A E : Head(jobs) \in E => Has(jobs, E)
  BY <1>1, LoginFacts, TailHas
<1>3. PICK s \in Sessions : s = Head(jobs).s
  BY <1>2 DEF GoodJob, Job
<1>4. PICK m \in Messages : /\ m = Head(jobs).m /\ m <= Len(msgs) /\ ToHandle(m) /\ ~ToHandle(m)'
  BY <1>1, HeadMessage
<1>5. m \in 1..Len(msgs) /\ msgs[m].s = s
  <2>1. Head(jobs) \in RecvOf(m, s)
    BY <1>1, <1>2, <1>3, <1>4 DEF RecvOf, GoodJob
  <2> QED
    BY <1>2, <1>4, <2>1, LoginFacts, PlaceFacts DEF JobsTrue
<1>6. AsksNobody'
  BY <1>1, <1>2, LoginFacts DEF AsksNobody
<1>7. JobsTrue'
  BY <1>1, <1>2, LoginFacts DEF JobsTrue
<1>8. \A i \in 1..Len(msgs) : ToHandle(i)' => ToHandle(i)
  BY <1>2 DEF ToHandle
<1>9. CASE users' \subseteq users /\ upd'.pc # "broken"
  <2>1. UsersLoggedIn'
    BY <1>1, <1>8, <1>9, LoginFacts, UsersKept
  <2> QED
    BY <1>6, <1>7, <1>9, <2>1, NotBroken DEF LoginsTold
<1>10. CASE users' = users \cup {s} /\ upd'.pc # "broken" /\ msgs[m].kind = "login"
  <2>1. ASSUME NEW r \in users' PROVE LoggedIn(r)'
    <3>1. CASE r = s
      BY <1>1, <1>4, <1>5, <1>10, <3>1 DEF LoggedIn, IsLogin
    <3>2. CASE r \in users
      <4>1. PICK i \in 1..Len(msgs) : IsLogin(i, r) /\ ~ToHandle(i)
        BY <1>1, <3>2, LoginFacts DEF UsersLoggedIn, LoggedIn
      <4> QED
        BY <1>1, <1>8, <4>1 DEF LoggedIn, IsLogin
    <3> QED
      BY <1>10, <2>1, <3>1, <3>2
  <2>2. UsersLoggedIn'
    BY <2>1 DEF UsersLoggedIn
  <2> QED
    BY <1>6, <1>7, <1>10, <2>2, NotBroken DEF LoginsTold
<1>11. CASE users' = users /\ s \notin non /\ upd' = [pc |-> "broken", m |-> m] /\ msgs[m].kind = "login"
  <2>1. UsersLoggedIn'
    BY <1>1, <1>8, <1>11, LoginFacts, UsersKept
  <2>2. s \in users
    <3>1. Head(jobs) \in JobOf("Recv", s)
      BY <1>1, <1>2, <1>3 DEF JobOf, GoodJob
    <3>2. Queued("Recv", s) /\ ~Queued("Join", s)
      BY <1>1, <3>1, TakeJob
    <3>3. Tracked(s)
      BY DEF IInv, Found
    <3> QED
      BY <1>11, <3>2, <3>3 DEF Tracked, Mapped
  <2>3. PICK i \in 1..Len(msgs) : IsLogin(i, s) /\ ~ToHandle(i)
    BY <1>1, <2>2, LoginFacts DEF UsersLoggedIn, LoggedIn
  <2>4. Again(m, s)'
    BY <1>1, <1>4, <2>3 DEF Again, IsLogin
  <2>5. upd'.m = m
    BY <1>11
  <2>6. BrokenBySecond'
    BY <1>1, <1>5, <1>11, <2>2, <2>4, <2>5 DEF BrokenBySecond
  <2> QED
    BY <1>6, <1>7, <2>1, <2>6 DEF LoginsTold
<1>12. msgs[m].kind \in {"login", "bad", "other"}
  BY <1>5, LoginFacts
<1> QED
  BY <1>3, <1>4, <1>9, <1>10, <1>11, <1>12 DEF LoginProc

\* What is known of the logins stays known.
LEMMA LoginsStep ==
  ASSUME IInv, [Next]_vars
  PROVE  LoginsTold'
<1>a. AsksNobody /\ upd.pc \in {"loop", "signal", "free", "broken"}
  BY LoginFacts, PlaceFacts
<1>1. CASE SetRedisToken
  BY <1>a, <1>1, LoginsSame DEF SetRedisToken, AsksNobody
<1>2. ASSUME NEW k \in Tokens, LoginAnswer(k) PROVE LoginsTold'
  BY <1>a, <1>2, LoginsSame DEF LoginAnswer, AsksNobody
<1>3. ASSUME NEW s \in Sessions, Join(s) PROVE LoginsTold'
  <2>1. [type |-> "Join", s |-> s, m |-> 0] \in GoodJob
    BY DEF GoodJob, Job
  <2>2. AsksNobody'
    BY <1>a, <1>3, <2>1, AppendHas, LoginFacts DEF Join, AsksNobody, AuthJobs
  <2> QED
    BY <1>3, <2>1, <2>2, LoginsPut DEF Join
<1>4. ASSUME NEW s \in Sessions, Hangup(s) PROVE LoginsTold'
  BY <1>a, <1>4, LoginsSame DEF Hangup, AsksNobody
<1>5. ASSUME NEW s \in Sessions, FreeReceived(s) PROVE LoginsTold'
  BY <1>a, <1>5, LoginsSame DEF FreeReceived, AsksNobody
<1>6. ASSUME NEW s \in Sessions, Leave(s) PROVE LoginsTold'
  <2>1. [type |-> "Delete", s |-> s, m |-> 0] \in GoodJob
    BY DEF GoodJob, Job
  <2>2. AsksNobody'
    BY <1>a, <1>6, <2>1, AppendHas, LoginFacts DEF Leave, AsksNobody, AuthJobs
  <2> QED
    BY <1>6, <2>1, <2>2, LoginsPut DEF Leave
<1>7. ASSUME NEW s \in Sessions, NEW kind \in {"login", "bad", "other"},
             NEW token \in Tokens \cup {Wrong, None}, Receive(s, kind, token)
      PROVE  LoginsTold'
  BY <1>7, LoginReceived
<1>t. ASSUME jobs # <<>>, jobs' = Tail(jobs), UNCHANGED <<auth, pipe, replies, delNext>>, auth \/ authQ' = authQ
      PROVE  AsksNobody'
  BY <1>a, <1>t, TailHas, LoginFacts DEF AsksNobody
<1>8. CASE JoinProc
  BY <1>8, <1>t, LoginsTaken DEF JoinProc, NextIs
<1>9. CASE DeleteProc
  BY <1>9, <1>t, LoginsTaken DEF DeleteProc, NextIs
<1>10. CASE LoginProc
  BY <1>10, LoginHandled
<1>11. CASE AuthRequestJob
  BY <1>11, <1>t, LoginsTaken DEF AuthRequestJob, NextIs
<1>12. CASE OtherProc
  BY <1>12, <1>t, LoginsTaken DEF OtherProc, NextIs
<1>13. CASE AuthComProc
  <2>1. /\ jobs # <<>> /\ jobs' = Tail(jobs) /\ Head(jobs).type = "AuthCom" /\ upd' = upd /\ upd.pc = "loop"
        /\ UNCHANGED <<auth, msgs, authQ, pipe, replies, delNext>>
    BY <1>13 DEF AuthComProc, NextIs
  <2>2. auth
    <3>1. Head(jobs) \in GoodJob /\ \A E : Has(jobs, E) <=> Head(jobs) \in E \/ Has(Tail(jobs), E)
      BY <2>1, TailHas, LoginFacts
    <3>2. Head(jobs) \in AuthJobs
      BY <2>1, <3>1 DEF AuthJobs, GoodJob
    <3> QED
      BY <1>a, <3>1, <3>2 DEF AsksNobody
  <2>3. AsksNobody' /\ UsersLoggedIn'
    BY <2>1, <2>2 DEF AsksNobody, UsersLoggedIn
  <2>4. JobsTrue'
    BY <2>1, TailHas, LoginFacts DEF JobsTrue
  <2> QED
    BY <2>1, <2>3, <2>4, NotBroken DEF LoginsTold
<1>14. CASE SetEvent
  <2>1. upd'.pc # "broken" /\ UNCHANGED <<auth, msgs, users, jobs, authQ, pipe, replies, delNext>>
    BY <1>14, PlaceFacts DEF SetEvent
  <2>2. AsksNobody'
    BY <1>a, <2>1 DEF AsksNobody
  <2>3. JobsTrue'
    BY <2>1, LoginFacts DEF JobsTrue
  <2>4. UsersLoggedIn'
    BY <2>1, LoginFacts, UsersKept DEF ToHandle
  <2> QED
    BY <2>1, <2>2, <2>3, <2>4, NotBroken DEF LoginsTold
<1>15. CASE FreeJobMessage
  <2>1. upd'.pc # "broken" /\ UNCHANGED <<auth, msgs, users, jobs, authQ, pipe, replies, delNext>>
    BY <1>15 DEF FreeJobMessage
  <2>2. AsksNobody'
    BY <1>a, <2>1 DEF AsksNobody
  <2>3. JobsTrue'
    BY <2>1, LoginFacts DEF JobsTrue
  <2>4. UsersLoggedIn'
    BY <2>1, LoginFacts, UsersKept DEF ToHandle
  <2> QED
    BY <2>1, <2>2, <2>3, <2>4, NotBroken DEF LoginsTold
<1>16. CASE AuthWait
  BY <1>a, <1>16, LoginsSame DEF AuthWait, AsksNobody
<1>17. CASE AuthReqProc
  BY <1>a, <1>17, LoginsSame DEF AuthReqProc, AsksNobody
<1>18. CASE AuthDrained
  BY <1>a, <1>18, LoginsSame DEF AuthDrained, AsksNobody
<1>19. CASE Redis
  BY <1>a, <1>19, LoginsSame DEF Redis, AsksNobody
<1>20. CASE SendDel
  BY <1>a, <1>20, LoginsSame DEF SendDel, AsksNobody
<1>21. CASE Callback
  <2>1. auth /\ UNCHANGED <<auth, msgs, users, upd>>
    BY <1>a, <1>21 DEF Callback, AsksNobody
  <2>2. AsksNobody'
    BY <2>1 DEF AsksNobody
  <2>3. CASE jobs' = jobs
    BY <2>1, <2>2, <2>3, LoginsSame
  <2>4. CASE jobs' # jobs
    <3>1. PICK r \in Reply : r = Head(replies)
      BY <1>21, TailHas, PlaceFacts DEF Callback
    <3>2. jobs' = Append(jobs, [type |-> "AuthCom", s |-> msgs[r.m].s, m |-> r.m])
      BY <1>21, <2>4, <3>1 DEF Callback
    <3>3. r.m \in Messages /\ r.m # 0 /\ r.m <= Len(msgs)
      <4>1. r.m \in Messages /\ r.m # 0 /\ r \in ReplyTo(r.m)
        BY <3>1, PlaceFacts DEF Reply, ReplyTo
      <4>2. Replied(r.m)
        BY <1>21, <3>1, <4>1, TailHas, PlaceFacts DEF Callback, Replied
      <4>3. Placed(r.m) /\ r.m \in Nat /\ Len(msgs) \in Nat
        BY <4>1, PlaceFacts
      <4> QED
        BY <4>1, <4>2, <4>3 DEF Placed, Held, Asking, One
    <3>4. msgs[r.m].s \in Sessions
      BY <3>3, PlaceFacts, LoginFacts
    <3>5. [type |-> "AuthCom", s |-> msgs[r.m].s, m |-> r.m] \in GoodJob
      BY <3>3, <3>4 DEF GoodJob, Job
    <3> QED
      BY <2>1, <2>2, <3>2, <3>5, LoginsPut
  <2> QED
    BY <2>3, <2>4
<1>u. CASE UNCHANGED vars
  BY <1>a, <1>u, LoginsSame DEF AsksNobody
<1> QED
  BY <1>1, <1>2, <1>3, <1>4, <1>5, <1>6, <1>7, <1>8, <1>9, <1>10, <1>11, <1>12, <1>13, <1>14, <1>15, <1>16, <1>17, <1>18, <1>19, <1>20, <1>21, <1>u
  DEF Next, Worker, UpdateThread, AuthThread

-----------------------------------------------------------------------------
(* Types *)

\* The types that a step keeps by itself.
Typed ==
    /\ auth \in BOOLEAN
    /\ conn \in [Sessions -> {"none", "open", "closing", "left"}]
    /\ recv \in [Sessions -> Messages \cup {0}]
    /\ msgs \in Seq([s : Sessions, kind : {"login", "bad", "other"}, token : Tokens \cup {Wrong, None}])
    /\ ref \in [Messages -> Int]
    /\ non \subseteq Sessions /\ users \subseteq Sessions
    /\ upd \in [pc : {"loop", "signal", "free", "broken"}, m : Messages \cup {0}]
    /\ authQ \in Seq(Messages) /\ event \in BOOLEAN /\ authPc \in {"wait", "drain"}
    /\ pipe \in Seq(Command) /\ replies \in Seq(Reply) /\ delNext \in Messages \cup {0}
    /\ redis \in Tokens \cup {None}
    /\ stored \in 0..MaxToken /\ known \subseteq 1..stored

\* Each of them is kept by every step.
LEMMA TypedStep ==
  ASSUME IInv, [Next]_vars
  PROVE  Typed'
<1>t. Typed
  <2>1. TypeOK
    BY DEF IInv
  <2>2. ref \in [Messages -> Int]
    BY <2>1 DEF TypeOK
  <2> QED
    BY ONLY <2>1, <2>2 DEF TypeOK, Typed
<1>1. CASE SetRedisToken
  BY <1>t, <1>1, Bounds DEF Typed, SetRedisToken, Tokens
<1>2. ASSUME NEW k \in Tokens, LoginAnswer(k) PROVE Typed'
  BY <1>t, <1>2, Bounds DEF Typed, LoginAnswer, Tokens
<1>3. ASSUME NEW s \in Sessions, Join(s) PROVE Typed'
  BY <1>t, <1>3 DEF Typed, Join
<1>4. ASSUME NEW s \in Sessions, Hangup(s) PROVE Typed'
  BY <1>t, <1>4 DEF Typed, Hangup, Disconnected
<1>5. ASSUME NEW s \in Sessions, FreeReceived(s) PROVE Typed'
  BY <1>t, <1>5 DEF Typed, FreeReceived
<1>6. ASSUME NEW s \in Sessions, Leave(s) PROVE Typed'
  BY <1>t, <1>6 DEF Typed, Leave
<1>7. ASSUME NEW s \in Sessions, NEW kind \in {"login", "bad", "other"},
             NEW token \in Tokens \cup {Wrong, None}, Receive(s, kind, token)
      PROVE  Typed'
  <2>1. Len(msgs) + 1 \in Messages
    BY <1>7, PlaceFacts, Bounds DEF Receive, Messages
  <2>2. recv' \in [Sessions -> Messages \cup {0}] /\ ref' \in [Messages -> Int]
    BY <1>t, <1>7, <2>1 DEF Typed, Receive
  <2>3. msgs' \in Seq([s : Sessions, kind : {"login", "bad", "other"}, token : Tokens \cup {Wrong, None}])
    BY <1>t, <1>7, AppendProperties DEF Typed, Receive
  <2> QED
    BY <1>t, <1>7, <2>2, <2>3 DEF Typed, Receive
<1>8. CASE JoinProc
  BY <1>t, <1>8, HeadSession DEF Typed, JoinProc, NextIs
<1>9. CASE DeleteProc
  BY <1>t, <1>9, HeadSession DEF Typed, DeleteProc, NextIs
<1>10. CASE LoginProc
  <2>1. Head(jobs).m \in Messages /\ Head(jobs).s \in Sessions
    BY <1>10, HeadSession, HeadMessage DEF LoginProc, NextIs
  <2>2. upd' \in [pc : {"loop", "signal", "free", "broken"}, m : Messages \cup {0}]
    BY <1>10, <2>1 DEF LoginProc
  <2>3. conn' = conn \/ conn' = Disconnected(Head(jobs).s)
    BY <1>10 DEF LoginProc
  <2>4. conn' \in [Sessions -> {"none", "open", "closing", "left"}]
    BY <1>t, <2>3 DEF Typed, Disconnected
  <2>5. non' \subseteq Sessions /\ users' \subseteq Sessions
    BY <1>t, <1>10, <2>1 DEF Typed, LoginProc
  <2> QED
    BY <1>t, <1>10, <2>2, <2>4, <2>5 DEF Typed, LoginProc
<1>11. CASE AuthRequestJob
  <2>1. Head(jobs).m \in Messages
    BY <1>11, HeadMessage DEF AuthRequestJob
  <2>2. authQ' \in Seq(Messages)
    <3>1. authQ' = authQ \/ authQ' = Append(authQ, Head(jobs).m)
      BY <1>11 DEF AuthRequestJob
    <3>2. authQ \in Seq(Messages)
      BY PlaceFacts
    <3>3. Append(authQ, Head(jobs).m) \in Seq(Messages)
      BY <2>1, <3>2, AppendProperties
    <3> QED
      BY <3>1, <3>2, <3>3
  <2>3. ref' \in [Messages -> Int] /\ upd' \in [pc : {"loop", "signal", "free", "broken"}, m : Messages \cup {0}]
    BY <1>t, <1>11, <2>1 DEF Typed, AuthRequestJob
  <2> QED
    BY <1>t, <1>11, <2>2, <2>3 DEF Typed, AuthRequestJob, Disconnected
<1>12. CASE OtherProc
  BY <1>t, <1>12, HeadMessage DEF Typed, OtherProc, Disconnected
<1>13. CASE AuthComProc
  <2>1. ref' \in [Messages -> Int]
    <3>1. ref' = ref \/ ref' = [ref EXCEPT ![Head(jobs).m] = @ - 1]
      BY <1>13 DEF AuthComProc
    <3> QED
      BY <1>t, <3>1 DEF Typed
  <2>2. conn' = conn \/ conn' = Disconnected(Head(jobs).s)
    BY <1>13 DEF AuthComProc
  <2>3. conn' \in [Sessions -> {"none", "open", "closing", "left"}]
    BY <1>t, <2>2 DEF Typed, Disconnected
  <2>4. non' \subseteq Sessions /\ users' \subseteq Sessions
    BY <1>t, <1>13, HeadSession DEF Typed, AuthComProc, NextIs
  <2> QED
    BY <1>t, <1>13, <2>1, <2>3, <2>4 DEF Typed, AuthComProc
<1>14. CASE SetEvent
  BY <1>t, <1>14 DEF Typed, SetEvent
<1>15. CASE FreeJobMessage
  <2>1. ref' \in [Messages -> Int]
    <3>1. ref' = [ref EXCEPT ![upd.m] = @ - 1]
      BY <1>15 DEF FreeJobMessage
    <3>2. upd.m \in Messages
      BY <1>15, PlaceFacts DEF FreeJobMessage
    <3> QED
      BY <1>t, <3>1, <3>2 DEF Typed
  <2> QED
    BY <1>t, <1>15, <2>1 DEF Typed, FreeJobMessage
<1>16. CASE AuthWait
  BY <1>t, <1>16 DEF Typed, AuthWait
<1>17. CASE AuthReqProc
  <2>1. Head(authQ) \in Messages /\ authQ' \in Seq(Messages)
    BY <1>17, PlaceFacts, TailHas DEF AuthReqProc
  <2>2. pipe' \in Seq(Command)
    BY <1>17, <2>1, PlaceFacts, AppendProperties DEF AuthReqProc, Command
  <2> QED
    BY <1>t, <1>17, <2>1, <2>2 DEF Typed, AuthReqProc
<1>18. CASE AuthDrained
  BY <1>t, <1>18 DEF Typed, AuthDrained
<1>19. CASE Redis
  <2>1. Head(pipe) \in Command /\ pipe' \in Seq(Command)
    BY <1>19, PlaceFacts, TailHas DEF Redis
  <2>2. [m |-> Head(pipe).m, value |-> redis] \in Reply
    BY <1>t, <2>1 DEF Typed, Command, Reply
  <2>3. replies' \in Seq(Reply)
    <3>1. replies' = replies \/ replies' = Append(replies, [m |-> Head(pipe).m, value |-> redis])
      BY <1>19 DEF Redis
    <3>2. replies \in Seq(Reply)
      BY PlaceFacts
    <3>3. Append(replies, [m |-> Head(pipe).m, value |-> redis]) \in Seq(Reply)
      BY <2>2, <3>2, AppendProperties
    <3> QED
      BY <2>2, <3>1, <3>2, <3>3
  <2> QED
    BY <1>t, <1>19, <2>1, <2>3 DEF Typed, Redis
<1>20. CASE SendDel
  <2>1. [cmd |-> "del", m |-> delNext] \in Command
    BY <1>t, <1>20 DEF Typed, SendDel, Command
  <2>2. pipe' \in Seq(Command)
    BY <1>20, <2>1, PlaceFacts, AppendProperties DEF SendDel
  <2> QED
    BY <1>t, <1>20, <2>2 DEF Typed, SendDel
<1>21. CASE Callback
  <2>1. Head(replies) \in Reply /\ replies' \in Seq(Reply)
    BY <1>21, PlaceFacts, TailHas DEF Callback
  <2> QED
    <3>1. ref' = ref \/ ref' = [ref EXCEPT ![Head(replies).m] = @ - 1]
      BY <1>21 DEF Callback
    <3>2. conn' = conn \/ conn' = Disconnected(msgs[Head(replies).m].s)
      BY <1>21 DEF Callback
    <3>3. ref' \in [Messages -> Int]
      BY <1>t, <3>1 DEF Typed
    <3>4. conn' \in [Sessions -> {"none", "open", "closing", "left"}]
      BY <1>t, <3>2 DEF Typed, Disconnected
    <3>5. delNext' \in Messages \cup {0}
      BY <1>21, <2>1 DEF Callback, Reply
    <3> QED
      BY <1>t, <1>21, <2>1, <3>3, <3>4, <3>5 DEF Typed, Callback
<1>u. CASE UNCHANGED vars
  BY <1>t, <1>u DEF Typed
<1> QED
  BY <1>1, <1>2, <1>3, <1>4, <1>5, <1>6, <1>7, <1>8, <1>9, <1>10, <1>11, <1>12, <1>13, <1>14, <1>15, <1>16, <1>17, <1>18, <1>19, <1>20, <1>21, <1>u
  DEF Next, Worker, UpdateThread, AuthThread

\* A sequence of jobs that are each about one thing is a sequence of jobs.
LEMMA GoodJobs == ASSUME NEW q \in Seq(GoodJob) PROVE q \in Seq(Job)
<1>1. q \in [1..Len(q) -> GoodJob] /\ Len(q) \in Nat
  BY LenProperties
<1>2. q \in [1..Len(q) -> Job]
  BY <1>1 DEF GoodJob
<1> QED
  BY <1>1, <1>2, IsASeq

\* m_RefCnt goes no higher than 3: a message is with the worker, with
\* UpdateThread and on its way to Redis.
LEMMA TypeStep ==
  ASSUME IInv, [Next]_vars, JobOrder', MessagesKept'
  PROVE  TypeOK'
<1>1. Typed'
  BY TypedStep
<1>2. jobs' \in Seq(Job)
  BY GoodJobs DEF JobOrder
<1>3. ASSUME NEW m \in Messages PROVE ref'[m] \in 0..3
  <2>1. Placed(m)' /\ Counted(m)'
    BY DEF MessagesKept
  <2>2. /\ Held(m)' \in 0..3
        /\ ~ToHandle(m)' /\ Asking(m)' = 0 => Held(m)' \in 0..2
    BY <2>1 DEF Placed, Held, Asking, One
  <2> QED
    BY <2>1, <2>2 DEF Counted
<1>4. ref' \in [Messages -> 0..3]
  BY <1>1, <1>3 DEF Typed
<1> QED
  BY <1>1, <1>2, <1>4 DEF Typed, TypeOK

-----------------------------------------------------------------------------
(* The invariant *)

\* At the start no session has come and no message either.
LEMMA InitIInv == Init => IInv
<1> SUFFICES ASSUME Init PROVE IInv
  OBVIOUS
<1>1. jobs = <<>> /\ authQ = <<>> /\ pipe = <<>> /\ replies = <<>> /\ msgs = <<>>
  BY DEF Init
<1>2. \A E : ~Has(<<>>, E) /\ OnceIn(<<>>, E) /\ \A F : Ahead(<<>>, E, F)
  BY EmptySeq DEF Has, OnceIn, Ahead
<1>3. TypeOK
  BY EmptySeq, Bounds DEF Init, TypeOK, Tokens
<1>4. JobOrder
  BY <1>1, <1>2, EmptySeq DEF JobOrder
<1>5. Found
  BY <1>1, <1>2 DEF Init, Found, Tracked, Mapped, Queued
<1>6. OnceEach
  BY <1>1, <1>2 DEF Init, OnceEach
<1>7. MessagesKept
  <2>1. upd.pc = "loop" /\ upd.m = 0
    BY DEF Init
  <2>2. ASSUME NEW m \in Messages PROVE Placed(m) /\ Counted(m)
    <3>1. m # 0 /\ ref[m] = 0
      BY Bounds DEF Init, Messages
    <3>2. /\ ~Recvd(m) /\ ~ToHandle(m) /\ ~Handled(m) /\ ~ToAsk(m) /\ ~Sent(m) /\ ~Replied(m) /\ ~Back(m)
      BY <1>1, <1>2, <2>1, <3>1 DEF Init, Recvd, ToHandle, Handled, ToAsk, Sent, Replied, Back
    <3> QED
      BY <3>1, <3>2 DEF Placed, Counted, Held, Asking, One
  <2> QED
    BY <1>1, <2>1, <2>2, EmptySeq, Bounds DEF MessagesKept
<1>8. LoginsTold
  <2>1. AsksNobody
    BY <1>1, <1>2 DEF Init, AsksNobody
  <2>2. JobsTrue
    BY <1>1, <1>2 DEF JobsTrue
  <2>3. UsersLoggedIn /\ BrokenBySecond
    BY DEF Init, UsersLoggedIn, BrokenBySecond, Broken
  <2> QED
    BY <2>1, <2>2, <2>3 DEF LoginsTold
<1> QED
  BY <1>3, <1>4, <1>5, <1>6, <1>7, <1>8 DEF IInv

\* The sessions', the messages' and the logins' part, and the types that follow.
LEMMA NextIInv ==
  ASSUME IInv, [Next]_vars
  PROVE  IInv'
<1>1. JobOrder' /\ Found'
  BY SessionStep
<1>2. OnceEach' /\ MessagesKept'
  BY MessageStep
<1>3. TypeOK'
  BY <1>1, <1>2, TypeStep
<1>4. LoginsTold'
  BY LoginsStep
<1> QED
  BY <1>1, <1>2, <1>3, <1>4 DEF IInv

\* The invariant holds in every reachable state of either build.
THEOREM Invariance == Spec => []IInv
BY InitIInv, NextIInv, PTL DEF Spec

\* Type correctness: m_RefCnt of a message stays between 0 and 3.
THEOREM Types == Spec => []TypeOK
<1>1. IInv => TypeOK
  BY DEF IInv
<1> QED
  BY <1>1, Invariance, PTL

-----------------------------------------------------------------------------
(* Every job finds its session *)

\* A job of a session among the first ones of the queue.
LEMMA WaitingHas ==
  ASSUME IInv, NEW s \in Sessions, NEW type \in {"Join", "Recv", "Delete"}, NEW n \in 0..Len(jobs)
  PROVE  Waiting(type, s, n) <=> \E j \in 1..n : jobs[j] \in JobOf(type, s)
<1>1. Len(jobs) \in Nat /\ \A j \in 1..Len(jobs) : jobs[j] \in Job
  BY ElementOfSeq, LenProperties DEF IInv, TypeOK
<1>2. \A j \in 1..n : jobs[j] \in JobOf(type, s) <=> jobs[j].type = type /\ jobs[j].s = s
  BY <1>1 DEF JobOf
<1> QED
  BY <1>2 DEF Waiting

\* SectorMoveProc and DeleteProc find the session of their job in one of the two
\* maps, and AuthComProc brings none back after its Delete.  LoginProc finds it in
\* the first one, unless the session is a user already and has logged in twice.
THEOREM EveryJobFindsItsSession == Spec => []SessionFound
<1>1. ASSUME IInv PROVE SessionFound
  <2>1. /\ Len(jobs) \in Nat /\ DOMAIN jobs = 1..Len(jobs)
        /\ \A i \in 1..Len(jobs) : jobs[i] \in Job
    BY <1>1, ElementOfSeq, LenProperties DEF IInv, TypeOK
  <2>2. non \cap users = {} /\ non \cup users \subseteq Sessions /\ \A s \in Sessions : Tracked(s)
    BY <1>1 DEF IInv, Found, TypeOK
  <2>3. ASSUME NEW i \in DOMAIN jobs, jobs[i].type \in {"Recv", "Delete"}
        PROVE  /\ jobs[i].s \in non \cup users \/ Waiting("Join", jobs[i].s, i - 1)
               /\ ~Waiting("Delete", jobs[i].s, i - 1)
    <3>1. PICK s \in Sessions : s = jobs[i].s
      BY <2>1 DEF Job
    <3>2. i \in 1..Len(jobs) /\ i - 1 \in 0..Len(jobs)
      BY <2>1
    <3>3. jobs[i] \in JobOf(jobs[i].type, s)
      BY <2>1, <3>1 DEF JobOf
    <3>4. Queued(jobs[i].type, s)
      BY <3>2, <3>3 DEF Queued, Has
    <3>5. Mapped(s) \/ Queued("Join", s)
      BY <2>2, <2>3, <3>4 DEF Tracked
    <3>6. /\ OnceIn(jobs, JobOf("Delete", s))
          /\ Ahead(jobs, JobOf("Join", s), JobOf("Recv", s))
          /\ Ahead(jobs, JobOf("Join", s), JobOf("Delete", s))
          /\ Ahead(jobs, JobOf("Recv", s), JobOf("Delete", s))
      BY <1>1 DEF IInv, JobOrder
    <3>7. ~Waiting("Delete", s, i - 1)
      <4>1. SUFFICES ASSUME NEW j \in 1..(i - 1), jobs[j] \in JobOf("Delete", s) PROVE FALSE
        BY <1>1, <3>2, WaitingHas
      <4>2. j \in 1..Len(jobs) /\ j < i
        BY <3>2
      <4> QED
        BY <2>3, <3>2, <3>3, <3>6, <4>1, <4>2 DEF OnceIn, Ahead
    <3>8. Queued("Join", s) => Waiting("Join", s, i - 1)
      <4>1. SUFFICES ASSUME Queued("Join", s) PROVE Waiting("Join", s, i - 1)
        OBVIOUS
      <4>2. PICK j \in 1..Len(jobs) : jobs[j] \in JobOf("Join", s)
        BY <4>1 DEF Queued, Has
      <4>3. j < i
        BY <2>3, <3>2, <3>3, <3>6, <4>2 DEF Ahead
      <4>4. j \in 1..(i - 1)
        BY <3>2, <4>3
      <4> QED
        BY <1>1, <3>2, <4>2, <4>4, WaitingHas
    <3> QED
      BY <3>1, <3>5, <3>7, <3>8 DEF Mapped
  <2>4. ASSUME NEW s \in non \cup users, conn[s] = "left" PROVE Waiting("Delete", s, Len(jobs))
    <3>1. s \in Sessions /\ Queued("Delete", s)
      BY <2>2, <2>4 DEF Tracked, Mapped
    <3> QED
      BY <1>1, <2>1, <3>1, WaitingHas DEF Queued, Has
  <2>5. ASSUME Broken
        PROVE  /\ ~auth /\ msgs[upd.m].kind = "login" /\ msgs[upd.m].s \in users
               /\ \E i \in DOMAIN msgs :
                      i # upd.m /\ msgs[i].s = msgs[upd.m].s /\ msgs[i].kind = "login"
    <3>1. DOMAIN msgs = 1..Len(msgs)
      BY <1>1, LenProperties DEF IInv, TypeOK
    <3> QED
      BY <1>1, <2>5, <3>1 DEF IInv, LoginsTold, BrokenBySecond, Again, IsLogin
  <2> QED
    BY <2>2, <2>3, <2>4, <2>5 DEF SessionFound
<1> QED
  BY <1>1, Invariance, PTL

-----------------------------------------------------------------------------
(* m_RefCnt is the number of holders *)

\* The holders that Holders counts are the places of the message.
LEMMA HoldersHeld ==
  ASSUME IInv, NEW m \in Messages
  PROVE  Holders(m) = Held(m)
<1>1. Cardinality({s \in Sessions : recv[s] = m}) = One(Recvd(m))
  <2>1. CASE Recvd(m)
    <3>1. PICK s \in Sessions : recv[s] = m
      BY <2>1 DEF Recvd
    <3>2. {r \in Sessions : recv[r] = m} = {s}
      BY <3>1, PlaceFacts
    <3> QED
      BY <2>1, <3>2, FS_Singleton DEF One
  <2>2. CASE ~Recvd(m)
    <3>1. {r \in Sessions : recv[r] = m} = {}
      BY <2>2 DEF Recvd
    <3> QED
      BY <2>2, <3>1, FS_EmptySet DEF One
  <2> QED
    BY <2>1, <2>2
<1>2. Cardinality({i \in DOMAIN jobs : jobs[i].m = m}) = One(ToHandle(m)) + One(Back(m))
  <2>1. /\ Len(jobs) \in Nat /\ DOMAIN jobs = 1..Len(jobs)
        /\ \A i \in 1..Len(jobs) : jobs[i] \in GoodJob
    BY PlaceFacts, ElementOfSeq, LenProperties
  <2>2. {i \in DOMAIN jobs : jobs[i].m = m} = {i \in DOMAIN jobs : jobs[i] \in JobWith(m)}
    BY <2>1 DEF JobWith, GoodJob
  <2>3. Cardinality({i \in DOMAIN jobs : jobs[i] \in JobWith(m)}) = One(Has(jobs, JobWith(m)))
    BY CountOnce, PlaceFacts
  <2>4. \A i \in 1..Len(jobs) :
            jobs[i] \in JobWith(m) <=> jobs[i] \in RecvJob(m) \/ jobs[i] \in AuthJob(m)
    BY <2>1, PlaceFacts DEF GoodJob, Job, JobWith, RecvJob, AuthJob
  <2>5. Has(jobs, JobWith(m)) <=> ToHandle(m) \/ Back(m)
    BY <2>4 DEF Has, ToHandle, Back
  <2>6. ~(ToHandle(m) /\ Back(m))
    <3>1. Placed(m)
      BY PlaceFacts
    <3> QED
      BY <3>1 DEF Placed, Asking, One
  <2> QED
    <3>1. One(Has(jobs, JobWith(m))) = One(ToHandle(m)) + One(Back(m))
      BY <2>5, <2>6 DEF One
    <3> QED
      BY <2>2, <2>3, <3>1
<1>3. Cardinality({i \in DOMAIN authQ : authQ[i] = m}) = One(ToAsk(m))
  <2>1. {i \in DOMAIN authQ : authQ[i] = m} = {i \in DOMAIN authQ : authQ[i] \in {m}}
    OBVIOUS
  <2> QED
    BY <2>1, CountOnce, PlaceFacts DEF ToAsk
<1>4. Cardinality({i \in DOMAIN pipe : pipe[i].m = m /\ pipe[i].cmd = "get"}) = One(Sent(m))
  <2>1. DOMAIN pipe = 1..Len(pipe) /\ \A i \in 1..Len(pipe) : pipe[i] \in Command
    BY PlaceFacts, ElementOfSeq, LenProperties
  <2>2. {i \in DOMAIN pipe : pipe[i].m = m /\ pipe[i].cmd = "get"} = {i \in DOMAIN pipe : pipe[i] \in Get(m)}
    BY <2>1 DEF Get
  <2> QED
    BY <2>2, CountOnce, PlaceFacts DEF Sent
<1>5. Cardinality({i \in DOMAIN replies : replies[i].m = m}) = One(Replied(m))
  <2>1. DOMAIN replies = 1..Len(replies) /\ \A i \in 1..Len(replies) : replies[i] \in Reply
    BY PlaceFacts, ElementOfSeq, LenProperties
  <2>2. {i \in DOMAIN replies : replies[i].m = m} = {i \in DOMAIN replies : replies[i] \in ReplyTo(m)}
    BY <2>1 DEF ReplyTo
  <2> QED
    BY <2>2, CountOnce, PlaceFacts DEF Replied
<1>6. (IF upd.m = m THEN 1 ELSE 0) = One(Handled(m))
  BY DEF Handled, One
<1>8. /\ One(Recvd(m)) \in Nat /\ One(ToHandle(m)) \in Nat /\ One(Handled(m)) \in Nat /\ One(Back(m)) \in Nat
      /\ One(ToAsk(m)) \in Nat /\ One(Sent(m)) \in Nat /\ One(Replied(m)) \in Nat
  BY DEF One
<1> QED
  BY <1>1, <1>2, <1>3, <1>4, <1>5, <1>6, <1>8 DEF Holders, Held, Asking

\* m_RefCnt of a message is the number of its holders, but for a login of the
\* wrong size: the worker, UpdateThread, AuthThread and the callback may be done
\* with it in any order.
THEOREM EveryReferenceIsHeld == Spec => []MessageHeld
<1>1. ASSUME IInv PROVE MessageHeld
  <2>1. SUFFICES ASSUME NEW m \in DOMAIN msgs, msgs[m].kind # "bad" PROVE ref[m] = Holders(m)
    BY DEF MessageHeld
  <2>2. m \in Messages
    BY <1>1, <2>1, PlaceFacts, LenProperties, Bounds DEF Messages, IInv, TypeOK
  <2> QED
    BY <1>1, <2>1, <2>2, HoldersHeld, PlaceFacts DEF Counted
<1> QED
  BY <1>1, Invariance, PTL
=============================================================================
