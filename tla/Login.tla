------------------------------- MODULE Login --------------------------------
(***************************************************************************)
(* How a client comes in: the login server stores its token in Redis       *)
(* (CLoginServer), the chat server looks it up and lets the client in      *)
(* (ChatServer).  Two builds of the chat server keep one queue of jobs     *)
(* that UpdateThread works through: servers/chatserver logs a client in    *)
(* at once, servers/chatserver_auth_ver hands the request to AuthThread,   *)
(* which asks Redis, whose answer comes back as one more job.              *)
(*                                                                         *)
(* Abstractions.  All clients belong to one account, so Redis is one       *)
(* value.  A session is the network library's: it joins once, its          *)
(* messages are handled one after another, and it leaves when no           *)
(* completion holds it (SessionRef, NetServer).  The queues are FIFO       *)
(* (LFQueue).  A message is a login, a login of the wrong size ("bad"), or *)
(* another request ("other").                                              *)
(***************************************************************************)
EXTENDS Naturals, Sequences, FiniteSets

CONSTANTS
    MaxConn,  \* bound: sessions of the chat server
    MaxToken, \* bound: tokens the login server stores
    MaxMsg,   \* bound: messages received by the chat server
    UserMax,  \* m_UserMaxCnt of the chat server without Redis
    AuthMax,  \* m_UserMaxCnt of the one with Redis
    None

Sessions == 1..MaxConn
Tokens == 1..MaxToken
Messages == 1..MaxMsg
Wrong == 0 \* a token the login server never stored

ASSUME Bounds ==
    /\ MaxConn \in Nat /\ MaxToken \in Nat /\ MaxMsg \in Nat
    /\ UserMax \in Nat /\ AuthMax \in Nat
ASSUME NoneIsNoToken == None \notin Nat

VARIABLES
    auth,          \* the build: TRUE asks Redis
    conn,          \* each session: "none", "open", "closing" (disconnected), "left"
    recv,          \* the message the worker of a session in RecvIOProc holds, or 0
    msgs, ref,     \* the messages received so far, and each one's m_RefCnt
    jobs,          \* m_pUpdateJobQ
    non, users,    \* m_NonUserMap and m_UserMap
    upd,           \* UpdateThread: where it is, and its message
    authQ, event,  \* m_pAuthJobQ and m_AuthEvent (resets itself)
    authPc,        \* AuthThread: "wait" or "drain"
    pipe, replies, \* what m_pRedisClient has sent, and what Redis has answered
    delNext,       \* the callback is about to send its del
    redis,         \* the token stored for the account
    stored,        \* tokens the login server has stored
    known          \* tokens whose client has been told that it is logged in

chatNet == <<conn, recv, msgs>>
maps == <<non, users>>
authTh == <<authQ, event, authPc>>
client == <<pipe, replies, delNext>>
loginServer == <<stored, known>>
vars == <<auth, chatNet, ref, jobs, maps, upd, authTh, client, redis, loginServer>>

Job == [type : {"Join", "Recv", "Delete", "AuthCom"}, s : Sessions, m : Messages \cup {0}]
Command == [cmd : {"get", "del"}, m : Messages]
Reply == [m : Messages, value : Tokens \cup {None}]

TypeOK ==
    /\ auth \in BOOLEAN
    /\ conn \in [Sessions -> {"none", "open", "closing", "left"}]
    /\ recv \in [Sessions -> Messages \cup {0}]
    /\ msgs \in Seq([s : Sessions, kind : {"login", "bad", "other"}, token : Tokens \cup {Wrong, None}])
    /\ ref \in [Messages -> 0..3]
    /\ jobs \in Seq(Job)
    /\ non \subseteq Sessions /\ users \subseteq Sessions
    /\ upd \in [pc : {"loop", "signal", "free", "broken"}, m : Messages \cup {0}]
    /\ authQ \in Seq(Messages) /\ event \in BOOLEAN /\ authPc \in {"wait", "drain"}
    /\ pipe \in Seq(Command) /\ replies \in Seq(Reply) /\ delNext \in Messages \cup {0}
    /\ redis \in Tokens \cup {None}
    /\ stored \in 0..MaxToken /\ known \subseteq 1..stored

\* Mem_Init of both servers: m_AuthEvent is created signalled.
Init ==
    /\ auth \in BOOLEAN
    /\ conn = [s \in Sessions |-> "none"]
    /\ recv = [s \in Sessions |-> 0]
    /\ msgs = <<>> /\ ref = [m \in Messages |-> 0]
    /\ jobs = <<>> /\ non = {} /\ users = {}
    /\ upd = [pc |-> "loop", m |-> 0]
    /\ authQ = <<>> /\ event = TRUE /\ authPc = "wait"
    /\ pipe = <<>> /\ replies = <<>> /\ delNext = 0
    /\ redis = None
    /\ stored = 0 /\ known = {}

-----------------------------------------------------------------------------
(* The login server. *)

\* LoginRequest, SetRedisToken: sync_commit waits until Redis has stored the
\* token.  Tokens are numbered in the order they are stored.
SetRedisToken ==
    /\ auth /\ stored < MaxToken
    /\ stored' = stored + 1
    /\ redis' = stored + 1
    /\ UNCHANGED <<auth, chatNet, ref, jobs, maps, upd, authTh, client, known>>

\* LoginRequest tells the client; requests of two sessions may overtake each other.
LoginAnswer(k) ==
    /\ k <= stored /\ k \notin known
    /\ known' = known \cup {k}
    /\ UNCHANGED <<auth, chatNet, ref, jobs, maps, upd, authTh, client, redis, stored>>

-----------------------------------------------------------------------------
(* The chat server's sessions and workers. *)

\* CNetServer::Disconnect: the session leaves once nothing holds it.
Disconnected(s) ==
    [conn EXCEPT ![s] = IF @ = "open" THEN "closing" ELSE @]

\* OnClientJoin, called by AcceptThread for one connection after another and
\* before the first receive is posted.
Join(s) ==
    /\ conn[s] = "none" /\ \A r \in 1..s - 1 : conn[r] # "none"
    /\ conn' = [conn EXCEPT ![s] = "open"]
    /\ jobs' = Append(jobs, [type |-> "Join", s |-> s, m |-> 0])
    /\ UNCHANGED <<auth, recv, msgs, ref, maps, upd, authTh, client, redis, loginServer>>

\* The next message of a session is looked at when RecvIOProc is done with the
\* one before; what had come by then is still handled after a Disconnect.
CanReceive(s) == recv[s] = 0 /\ conn[s] \in {"open", "closing"}

\* RecvIOProc takes a message out of the ring; OnRecv: AddRef, then a job.  A
\* client shows the token it was told of or a Wrong one; a client of the build
\* without Redis has none.
Receive(s, kind, token) ==
    /\ CanReceive(s) /\ Len(msgs) < MaxMsg
    /\ IF auth
       THEN /\ token \in known \cup {Wrong, None}
            /\ (token = None <=> kind = "other") /\ (kind = "bad" => token # Wrong)
       ELSE token = None
    /\ LET m == Len(msgs) + 1 IN
       /\ msgs' = Append(msgs, [s |-> s, kind |-> kind, token |-> token])
       /\ ref' = [ref EXCEPT ![m] = 2]
       /\ jobs' = Append(jobs, [type |-> "Recv", s |-> s, m |-> m])
       /\ recv' = [recv EXCEPT ![s] = m]
    /\ UNCHANGED <<auth, conn, maps, upd, authTh, client, redis, loginServer>>

\* RecvIOProc gives its reference back.
FreeReceived(s) ==
    /\ recv[s] # 0
    /\ ref' = [ref EXCEPT ![recv[s]] = @ - 1]
    /\ recv' = [recv EXCEPT ![s] = 0]
    /\ UNCHANGED <<auth, conn, msgs, jobs, maps, upd, authTh, client, redis, loginServer>>

Hangup(s) ==
    /\ conn[s] = "open"
    /\ conn' = Disconnected(s)
    /\ UNCHANGED <<auth, recv, msgs, ref, jobs, maps, upd, authTh, client, redis, loginServer>>

\* The last reference is gone: ReleaseProc calls OnClientLeave.
Leave(s) ==
    /\ conn[s] = "closing" /\ recv[s] = 0
    /\ conn' = [conn EXCEPT ![s] = "left"]
    /\ jobs' = Append(jobs, [type |-> "Delete", s |-> s, m |-> 0])
    /\ UNCHANGED <<auth, recv, msgs, ref, maps, upd, authTh, client, redis, loginServer>>

-----------------------------------------------------------------------------
(* UpdateThread. *)

NextIs(type) == upd.pc = "loop" /\ jobs # <<>> /\ Head(jobs).type = type

JoinProc ==
    /\ NextIs("Join")
    /\ non' = non \cup {Head(jobs).s}
    /\ jobs' = Tail(jobs)
    /\ UNCHANGED <<auth, chatNet, ref, users, upd, authTh, client, redis, loginServer>>

\* A session is looked for in m_NonUserMap first.
DeleteProc ==
    /\ NextIs("Delete")
    /\ LET s == Head(jobs).s IN
       /\ non' = non \ {s}
       /\ users' = IF s \in non THEN users ELSE users \ {s}
    /\ jobs' = Tail(jobs)
    /\ UNCHANGED <<auth, chatNet, ref, upd, authTh, client, redis, loginServer>>

Full == Cardinality(users) >= IF auth THEN AuthMax ELSE UserMax

\* RecvProc, LoginProc without Redis: the size is checked, the session moves
\* from one map to the other.  One that is not in m_NonUserMap ends in the
\* __debugbreak: UpdateThread does nothing more.
LoginProc ==
    /\ NextIs("Recv") /\ ~auth
    /\ LET m == Head(jobs).m  s == Head(jobs).s
           refused == Full \/ msgs[m].kind = "bad" IN
       /\ msgs[m].kind # "other"
       /\ \/ refused /\ conn' = Disconnected(s) /\ UNCHANGED maps
          \/ ~refused /\ s \in non /\ non' = non \ {s} /\ users' = users \cup {s} /\ UNCHANGED conn
          \/ ~refused /\ s \notin non /\ UNCHANGED <<conn, maps>>
       /\ upd' = [pc |-> IF refused \/ s \in non THEN "free" ELSE "broken", m |-> m]
    /\ jobs' = Tail(jobs)
    /\ UNCHANGED <<auth, recv, msgs, ref, authTh, client, redis, loginServer>>

\* AuthRequestJob with its reference left to the caller's.
AuthRequestJob_NoRef ==
    /\ NextIs("Recv") /\ auth
    /\ LET m == Head(jobs).m IN
       /\ msgs[m].kind # "other"
       /\ authQ' = Append(authQ, m)
       /\ upd' = [pc |-> "signal", m |-> m]
    /\ jobs' = Tail(jobs)
    /\ UNCHANGED <<auth, chatNet, ref, maps, event, authPc, client, redis, loginServer>>

\* RecvProc, LoginProc with Redis, AuthRequestJob: AddRef and the job.
AuthRequestJob ==
    /\ NextIs("Recv") /\ auth
    /\ LET m == Head(jobs).m  s == Head(jobs).s IN
       /\ msgs[m].kind # "other"
       /\ IF Full
          THEN /\ conn' = Disconnected(s)
               /\ upd' = [pc |-> "free", m |-> m]
               /\ UNCHANGED <<ref, authQ>>
          ELSE /\ ref' = [ref EXCEPT ![m] = @ + 1]
               /\ authQ' = Append(authQ, m)
               /\ upd' = [pc |-> "signal", m |-> m]
               /\ UNCHANGED conn
    /\ jobs' = Tail(jobs)
    /\ UNCHANGED <<auth, recv, msgs, maps, event, authPc, client, redis, loginServer>>

\* AuthRequestJob: SetEvent.
SetEvent ==
    /\ upd.pc = "signal"
    /\ event' = TRUE
    /\ upd' = [upd EXCEPT !.pc = "free"]
    /\ UNCHANGED <<auth, chatNet, ref, jobs, maps, authQ, authPc, client, redis, loginServer>>

\* RecvProc: SectorMoveProc, ChatMessageProc, HeartBeatProc disconnect a
\* session that is not a user yet.  So does a message that is none of these.
OtherProc ==
    /\ NextIs("Recv")
    /\ LET m == Head(jobs).m  s == Head(jobs).s IN
       /\ msgs[m].kind = "other"
       /\ conn' \in {Disconnected(s)} \cup (IF s \in users THEN {conn} ELSE {})
       /\ upd' = [pc |-> "free", m |-> m]
    /\ jobs' = Tail(jobs)
    /\ UNCHANGED <<auth, recv, msgs, ref, maps, authTh, client, redis, loginServer>>

\* The end of RecvProc.
FreeJobMessage ==
    /\ upd.pc = "free"
    /\ ref' = [ref EXCEPT ![upd.m] = @ - 1]
    /\ upd' = [pc |-> "loop", m |-> 0]
    /\ UNCHANGED <<auth, chatNet, jobs, maps, authTh, client, redis, loginServer>>

\* AuthComProc without its look at m_NonUserMap.
StillNonUser_Unchecked(s) == TRUE

\* AuthComProc: the session may have gone, or come in, since it asked.
StillNonUser(s) == s \in non

\* AuthComProc.  The branch for a message of the wrong size gives no reference back.
AuthComProc ==
    /\ NextIs("AuthCom")
    /\ LET m == Head(jobs).m  s == Head(jobs).s
           bad == msgs[m].kind = "bad" IN
       IF ~StillNonUser(s)
       THEN ref' = [ref EXCEPT ![m] = @ - 1] /\ UNCHANGED <<conn, maps>>
       ELSE IF bad
       THEN conn' = Disconnected(s) /\ UNCHANGED <<ref, maps>>
       ELSE /\ non' = non \ {s} /\ users' = users \cup {s}
            /\ ref' = [ref EXCEPT ![m] = @ - 1]
            /\ UNCHANGED conn
    /\ jobs' = Tail(jobs)
    /\ UNCHANGED <<auth, recv, msgs, upd, authTh, client, redis, loginServer>>

UpdateThread ==
    \/ JoinProc \/ DeleteProc \/ LoginProc \/ AuthRequestJob \/ SetEvent
    \/ OtherProc \/ FreeJobMessage \/ AuthComProc

-----------------------------------------------------------------------------
(* AuthThread, Redis and the callback of get. *)

\* WaitForSingleObject on an event that resets itself.
AuthWait ==
    /\ authPc = "wait" /\ event
    /\ event' = FALSE /\ authPc' = "drain"
    /\ UNCHANGED <<auth, chatNet, ref, jobs, maps, upd, authQ, client, redis, loginServer>>

\* AuthThread taking one job for each time it is woken.
AuthReqProc_Once ==
    /\ authPc = "drain" /\ authQ # <<>>
    /\ pipe' = Append(pipe, [cmd |-> "get", m |-> Head(authQ)])
    /\ authQ' = Tail(authQ) /\ authPc' = "wait"
    /\ UNCHANGED <<auth, chatNet, ref, jobs, maps, upd, event, replies, delNext, redis, loginServer>>

\* AuthReqProc: get and commit.
AuthReqProc ==
    /\ authPc = "drain" /\ authQ # <<>>
    /\ pipe' = Append(pipe, [cmd |-> "get", m |-> Head(authQ)])
    /\ authQ' = Tail(authQ)
    /\ UNCHANGED <<auth, chatNet, ref, jobs, maps, upd, event, authPc, replies, delNext, redis, loginServer>>

\* The queue is empty: back to the wait.
AuthDrained ==
    /\ authPc = "drain" /\ authQ = <<>>
    /\ authPc' = "wait"
    /\ UNCHANGED <<auth, chatNet, ref, jobs, maps, upd, authQ, event, client, redis, loginServer>>

AuthThread == AuthWait \/ AuthReqProc \/ AuthDrained

\* Redis executes the chat server's commands in the order they were sent.
Redis ==
    /\ pipe # <<>>
    /\ pipe' = Tail(pipe)
    /\ IF Head(pipe).cmd = "get"
       THEN replies' = Append(replies, [m |-> Head(pipe).m, value |-> redis]) /\ UNCHANGED redis
       ELSE redis' = None /\ UNCHANGED replies
    /\ UNCHANGED <<auth, chatNet, ref, jobs, maps, upd, authTh, delNext, loginServer>>

\* The callback of get: no token, the right one (AuthCompleteJob), another one.
Callback ==
    /\ delNext = 0 /\ replies # <<>>
    /\ LET m == Head(replies).m  s == msgs[m].s IN
       /\ IF Head(replies).value = msgs[m].token
          THEN /\ jobs' = Append(jobs, [type |-> "AuthCom", s |-> s, m |-> m])
               /\ UNCHANGED <<conn, ref>>
          ELSE /\ ref' = [ref EXCEPT ![m] = @ - 1]
               /\ conn' = Disconnected(s)
               /\ UNCHANGED jobs
       /\ delNext' = IF Head(replies).value = None THEN 0 ELSE m
    /\ replies' = Tail(replies)
    /\ UNCHANGED <<auth, recv, msgs, maps, upd, authTh, pipe, redis, loginServer>>

\* The callback sends del, whatever the token was, and commits.
SendDel ==
    /\ delNext # 0
    /\ pipe' = Append(pipe, [cmd |-> "del", m |-> delNext])
    /\ delNext' = 0
    /\ UNCHANGED <<auth, chatNet, ref, jobs, maps, upd, authTh, replies, redis, loginServer>>

-----------------------------------------------------------------------------
Worker(s) == FreeReceived(s) \/ Leave(s)

Next ==
    \/ SetRedisToken \/ \E k \in Tokens : LoginAnswer(k)
    \/ \E s \in Sessions : Join(s) \/ Hangup(s) \/ Worker(s)
    \/ \E s \in Sessions, kind \in {"login", "bad", "other"}, token \in Tokens \cup {Wrong, None} :
           Receive(s, kind, token)
    \/ UpdateThread \/ AuthThread \/ Redis \/ Callback \/ SendDel

Spec == Init /\ [][Next]_vars

\* Every thread runs on, and Redis answers.
FairSpec ==
    /\ Spec
    /\ WF_vars(UpdateThread) /\ WF_vars(AuthThread)
    /\ WF_vars(Redis) /\ WF_vars(Callback) /\ WF_vars(SendDel)
    /\ \A s \in Sessions : WF_vars(Worker(s))

-----------------------------------------------------------------------------
(* Properties. *)

Waiting(type, s, i) == \E j \in 1..i : jobs[j].type = type /\ jobs[j].s = s

Broken == upd.pc = "broken"

\* Every message and every leave finds its session in exactly one of the two
\* maps when its turn comes (SectorMoveProc, DeleteProc), and no session comes
\* back to a map after its Delete, however long Redis took.  The __debugbreak
\* of LoginProc is met in the build without Redis only, and only by a session
\* that is a user already and has logged in twice.
SessionFound ==
    /\ non \cap users = {}
    /\ \A i \in DOMAIN jobs : jobs[i].type \in {"Recv", "Delete"} =>
           /\ jobs[i].s \in non \cup users \/ Waiting("Join", jobs[i].s, i - 1)
           /\ ~Waiting("Delete", jobs[i].s, i - 1)
    /\ \A s \in non \cup users : conn[s] = "left" => Waiting("Delete", s, Len(jobs))
    /\ Broken =>
           /\ ~auth /\ msgs[upd.m].kind = "login" /\ msgs[upd.m].s \in users
           /\ \E i \in DOMAIN msgs :
                  i # upd.m /\ msgs[i].s = msgs[upd.m].s /\ msgs[i].kind = "login"

\* Who holds a reference to a message.
Holders(m) ==
    Cardinality({s \in Sessions : recv[s] = m})
    + Cardinality({i \in DOMAIN jobs : jobs[i].m = m})
    + Cardinality({i \in DOMAIN authQ : authQ[i] = m})
    + Cardinality({i \in DOMAIN pipe : pipe[i].m = m /\ pipe[i].cmd = "get"})
    + Cardinality({i \in DOMAIN replies : replies[i].m = m})
    + (IF upd.m = m THEN 1 ELSE 0)

\* m_RefCnt of a message is the number of its holders, in every order in which
\* the worker, UpdateThread, AuthThread and the callback are done with it: it
\* is neither used after it is freed nor kept for ever.  A login of the wrong
\* size is left out: AuthComProc keeps its reference (see the README).
MessageHeld ==
    \A m \in DOMAIN msgs : msgs[m].kind # "bad" => ref[m] = Holders(m)

Asked(m) == m \in DOMAIN msgs /\ msgs[m].kind # "other"
Answered(m) ==
    m \in DOMAIN msgs /\ (msgs[m].s \in users \/ conn[msgs[m].s] # "open")

\* A login is answered, its session becomes a user or is disconnected, unless
\* UpdateThread met its __debugbreak.  No SetEvent of UpdateThread is lost
\* between AuthThread's last look at its queue and its wait.
LoginAnswered == \A m \in Messages : Asked(m) ~> Answered(m) \/ Broken
=============================================================================
