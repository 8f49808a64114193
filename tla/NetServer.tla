----------------------------- MODULE NetServer ------------------------------
(***************************************************************************)
(* CNetServer over its whole m_SessionTable: AcceptThread, the receive of  *)
(* each session, Disconnect, ReleaseProc and Stop, with m_CurSessionCnt    *)
(* and the stack of free indices.                                          *)
(*                                                                         *)
(* Abstractions.  SessionRef is the detail of acquiring and giving back a  *)
(* reference; here SessionInvalid is one step, and so are the decrement    *)
(* and the CAS behind it.  CSession::Init takes its steps one by one, as   *)
(* Stop reads IDs out of the table meanwhile.  SendPath is the detail of   *)
(* sending, which keeps no state between calls that matters here.  A       *)
(* receive completes with data or with its end (0 bytes: the peer closed,  *)
(* the connection failed, or the I/O was cancelled).                       *)
(***************************************************************************)
EXTENDS Naturals, Sequences, FiniteSets

CONSTANTS
    MaxSession, \* m_MaxSessionCnt
    MaxConn,    \* bound: connections accepted
    MaxCalls,   \* bound: calls of Disconnect by the contents
    Workers,    \* WorkerThread
    Closers,    \* threads of the contents that call Disconnect
    Main,       \* the thread that calls Stop
    None,
    ScanInit    \* the scan of Stop may enter a session whose first Init is under
                \* way: m_RelFlag is 0 then from the start

Slots == 0..MaxSession - 1
Callers == Closers \cup {Main}

ASSUME Bounds == MaxSession \in Nat \ {0} /\ MaxConn \in Nat /\ MaxCalls \in Nat
ASSUME ThreadsApart == Workers \cap Callers = {} /\ Main \notin Closers
ASSUME ScanBoolean == ScanInit \in BOOLEAN
ASSUME ThreadsFinite == IsFiniteSet(Workers) /\ IsFiniteSet(Closers)

VARIABLES
    sess,     \* each slot: the number of its connection, m_RefCnt, m_RelFlag, m_DCFlag
    recv,     \* the receive of each slot: "none", "posted", or completed: "data", "end"
    gone,     \* slots whose peer has closed
    relMsgs,  \* en_RELEASE packets in the completion port, for each slot
    stack,    \* m_pSessionIdxStack, top first
    curCnt,   \* m_CurSessionCnt
    allocID,  \* m_AllocID
    open,     \* connections between OnClientJoin and OnClientLeave
    acc,      \* AcceptThread: where it is and its slot
    pc, at,   \* where each worker and caller is, and the slot it works on
    calls,    \* calls of Disconnect by the contents so far
    listening, iocp  \* m_Listen and m_IOCP are open

table == <<sess, recv, gone, relMsgs>>
pool == <<stack, curCnt, allocID>>
threads == <<acc, pc, at>>
ports == <<listening, iocp>>
vars == <<table, pool, open, threads, calls, ports>>

AccPCs == {"accept", "took", "full", "pop", "init", "named", "counted", "iocp", "join", "post",
           "give", "end", "dead"}
PCs == {"idle", "recv", "onrecv", "check", "post", "give", "leave", "push", "count",
        "flag", "cancel", "wait", "round", "join", "done"}

Sess == [conn : 0..MaxConn, ref : Nat, rel : {0, 1}, dc : {0, 1}]

TypeOK ==
    /\ sess \in [Slots -> Sess]
    /\ recv \in [Slots -> {"none", "posted", "data", "end"}]
    /\ gone \subseteq Slots
    /\ relMsgs \in [Slots -> Nat]
    /\ stack \in Seq(Slots) /\ curCnt \in Nat /\ allocID \in 0..MaxConn
    /\ open \subseteq 1..MaxConn
    /\ acc \in [pc : AccPCs, slot : Slots]
    /\ pc \in [Workers \cup Callers -> PCs]
    /\ at \in [Workers \cup Callers -> Slots \cup {None}]
    /\ calls \in 0..MaxCalls
    /\ listening \in BOOLEAN /\ iocp \in BOOLEAN

\* Mem_Init and Thread_Create.
Init ==
    /\ sess = [s \in Slots |-> [conn |-> 0, ref |-> 0, rel |-> 0, dc |-> 0]]
    /\ recv = [s \in Slots |-> "none"] /\ gone = {}
    /\ relMsgs = [s \in Slots |-> 0]
    /\ stack = [i \in 1..MaxSession |-> MaxSession - i] /\ curCnt = 0 /\ allocID = 0
    /\ open = {}
    /\ acc = [pc |-> "accept", slot |-> 0]
    /\ pc = [t \in Workers \cup Callers |-> "idle"]
    /\ at = [t \in Workers \cup Callers |-> None]
    /\ calls = 0
    /\ listening = TRUE /\ iocp = TRUE

AccTo(place) == acc' = [acc EXCEPT !.pc = place]
Goto(t, place) == pc' = [pc EXCEPT ![t] = place] /\ UNCHANGED at
Start(t, place, s) == pc' = [pc EXCEPT ![t] = place] /\ at' = [at EXCEPT ![t] = s]
Home(t) == IF t = Main THEN "round" ELSE "idle"

\* InterlockedDecrement64 and Release: the last reference starts the release.
GiveBack(s) ==
    LET last == sess[s].ref = 1 /\ sess[s].rel = 0
    IN  /\ sess' = [sess EXCEPT ![s].ref = @ - 1, ![s].rel = IF last THEN 1 ELSE @]
        /\ relMsgs' = [relMsgs EXCEPT ![s] = IF last THEN @ + 1 ELSE @]

-----------------------------------------------------------------------------
(* Slips one could make in this code.  No action uses them: each is put in  *)
(* the place of the definition it is named after, to see which property     *)
(* notices.                                                                 *)

\* RecvPost without a reference for the receive.
RecvPost_NoRef(s) ==
    \/ UNCHANGED sess /\ recv' = [recv EXCEPT ![s] = "posted"]
    \/ sess' = [sess EXCEPT ![s].dc = 1] /\ UNCHANGED recv

-----------------------------------------------------------------------------
\* RecvPost: WSARecv accepts the receive, with a reference for it, or refuses
\* it, and then Disconnect is called (nothing is pending to be cancelled).
RecvPost(s) ==
    \/ sess' = [sess EXCEPT ![s].ref = @ + 1] /\ recv' = [recv EXCEPT ![s] = "posted"]
    \/ sess' = [sess EXCEPT ![s].dc = 1] /\ UNCHANGED recv

-----------------------------------------------------------------------------
(* Slips that use it. *)

\* RecvIOProc posts the next receive before it handles the messages.
RecvStart_PostFirst(w) ==
    /\ pc[w] = "recv"
    /\ Goto(w, IF sess[at[w]].dc = 1 THEN "check" ELSE "onrecv")
    /\ IF sess[at[w]].dc = 1 THEN UNCHANGED <<sess, recv>> ELSE RecvPost(at[w])
    /\ UNCHANGED <<gone, relMsgs, pool, open, acc, calls, ports>>

\* ReleaseProc lowers the count first, or before the Push.
ReleaseOrder_CountFirst == <<"count", "leave", "push">>
ReleaseOrder_PushLast == <<"leave", "count", "push">>

\* The reference is given back without looking for the last one.
Give_NoRelease(t) ==
    /\ pc[t] = "give"
    /\ sess' = [sess EXCEPT ![at[t]].ref = @ - 1]
    /\ Start(t, Home(t), IF t = Main THEN at[t] ELSE None)
    /\ UNCHANGED <<recv, gone, relMsgs, pool, open, acc, calls, ports>>

-----------------------------------------------------------------------------
(* AcceptThread *)

\* InterlockedIncrement16(&m_CurSessionCnt) > m_MaxSessionCnt
TooMany == curCnt + 1 > MaxSession

\* accept() returns a connection.
Accept ==
    /\ acc.pc = "accept" /\ listening /\ allocID < MaxConn
    /\ AccTo("took")
    /\ UNCHANGED <<table, pool, open, pc, at, calls, ports>>

\* The connection is counted; a failing setsockopt ends the thread.
CountIn ==
    /\ acc.pc = "took"
    /\ curCnt' = curCnt + 1
    /\ IF TooMany THEN AccTo("full") ELSE AccTo("pop") \/ AccTo("dead")
    /\ UNCHANGED <<table, stack, allocID, open, pc, at, calls, ports>>

Refuse ==
    /\ acc.pc = "full"
    /\ curCnt' = curCnt - 1
    /\ AccTo("accept")
    /\ UNCHANGED <<table, stack, allocID, open, pc, at, calls, ports>>

\* The result of Pop is ignored: on an empty stack Index stays 0.
Pop ==
    /\ acc.pc = "pop"
    /\ acc' = [pc |-> "init", slot |-> IF stack = <<>> THEN 0 ELSE Head(stack)]
    /\ stack' = IF stack = <<>> THEN stack ELSE Tail(stack)
    /\ UNCHANGED <<table, curCnt, allocID, open, pc, at, calls, ports>>

\* CSession::Init: the new socket and its ID ...
InitName ==
    /\ acc.pc = "init"
    /\ allocID' = allocID + 1
    /\ sess' = [sess EXCEPT ![acc.slot].conn = allocID + 1]
    /\ recv' = [recv EXCEPT ![acc.slot] = "none"]
    /\ gone' = gone \ {acc.slot}
    /\ AccTo("named")
    /\ UNCHANGED <<relMsgs, stack, curCnt, open, pc, at, calls, ports>>

\* ... m_RefCnt, then m_DCFlag ...
InitCount ==
    /\ acc.pc = "named"
    /\ sess' = [sess EXCEPT ![acc.slot] = [sess[acc.slot] EXCEPT !.ref = @ + 1, !.dc = 0]]
    /\ AccTo("counted")
    /\ UNCHANGED <<recv, gone, relMsgs, pool, open, pc, at, calls, ports>>

\* ... and last m_RelFlag.
InitOpen ==
    /\ acc.pc = "counted"
    /\ sess' = [sess EXCEPT ![acc.slot].rel = 0]
    /\ AccTo("iocp")
    /\ UNCHANGED <<recv, gone, relMsgs, pool, open, pc, at, calls, ports>>

\* CreateIoCompletionPort for the socket; when it fails the thread ends.
Register ==
    /\ acc.pc = "iocp"
    /\ (iocp /\ AccTo("join")) \/ AccTo("dead")
    /\ UNCHANGED <<table, pool, open, pc, at, calls, ports>>

Join ==
    /\ acc.pc = "join"
    /\ open' = open \cup {sess[acc.slot].conn}
    /\ AccTo("post")
    /\ UNCHANGED <<table, pool, pc, at, calls, ports>>

FirstRecv ==
    /\ acc.pc = "post"
    /\ RecvPost(acc.slot)
    /\ AccTo("give")
    /\ UNCHANGED <<gone, relMsgs, pool, open, pc, at, calls, ports>>

AcceptGive ==
    /\ acc.pc = "give"
    /\ GiveBack(acc.slot)
    /\ AccTo("accept")
    /\ UNCHANGED <<recv, gone, pool, open, pc, at, calls, ports>>

\* accept() fails once the listening socket is closed.
AcceptEnd ==
    /\ acc.pc = "accept" /\ ~listening
    /\ AccTo("end")
    /\ UNCHANGED <<table, pool, open, pc, at, calls, ports>>

AcceptStep ==
    \/ Accept \/ CountIn \/ Refuse \/ Pop \/ InitName \/ InitCount \/ InitOpen
    \/ Register \/ Join \/ FirstRecv \/ AcceptGive \/ AcceptEnd

-----------------------------------------------------------------------------
(* The peer and the kernel *)

PeerSends(s) ==
    /\ recv[s] = "posted" /\ s \notin gone
    /\ recv' = [recv EXCEPT ![s] = "data"]
    /\ UNCHANGED <<sess, gone, relMsgs, pool, open, threads, calls, ports>>

PeerCloses(s) ==
    /\ s \notin gone /\ sess[s].conn > 0 /\ sess[s].rel = 0
    /\ gone' = gone \cup {s}
    /\ UNCHANGED <<sess, recv, relMsgs, pool, open, threads, calls, ports>>

RecvEnds(s) ==
    /\ recv[s] = "posted" /\ s \in gone
    /\ recv' = [recv EXCEPT ![s] = "end"]
    /\ UNCHANGED <<sess, gone, relMsgs, pool, open, threads, calls, ports>>

-----------------------------------------------------------------------------
(* WorkerThread *)

\* A worker takes the completed receive; 0 bytes set m_DCFlag.
RecvTake(w, s) ==
    /\ pc[w] = "idle" /\ iocp /\ recv[s] \in {"data", "end"}
    /\ sess' = [sess EXCEPT ![s].dc = IF recv[s] = "end" THEN 1 ELSE @]
    /\ recv' = [recv EXCEPT ![s] = "none"]
    /\ Start(w, "recv", s)
    /\ UNCHANGED <<gone, relMsgs, pool, open, acc, calls, ports>>

\* RecvIOProc: the messages are looked at unless the session is disconnected.
RecvStart(w) ==
    /\ pc[w] = "recv"
    /\ Goto(w, IF sess[at[w]].dc = 1 THEN "check" ELSE "onrecv")
    /\ UNCHANGED <<table, pool, open, acc, calls, ports>>

\* The framing loop ends with OnRecv, or with the Disconnect of a wrong code or
\* length (no receive is pending then); a wrong checksum, at which the server
\* stops for the debugger, does not come.
RecvHandled(w) ==
    /\ pc[w] = "onrecv"
    /\ \E bad \in {0, 1} : sess' = [sess EXCEPT ![at[w]].dc = IF bad = 1 THEN 1 ELSE @]
    /\ Goto(w, "check")
    /\ UNCHANGED <<recv, gone, relMsgs, pool, open, acc, calls, ports>>

\* The last look at m_DCFlag ...
RecvCheck(w) ==
    /\ pc[w] = "check"
    /\ Goto(w, IF sess[at[w]].dc = 1 THEN "give" ELSE "post")
    /\ UNCHANGED <<table, pool, open, acc, calls, ports>>

\* ... and RecvPost, which does not look again.
RecvNext(w) ==
    /\ pc[w] = "post"
    /\ RecvPost(at[w])
    /\ Goto(w, "give")
    /\ UNCHANGED <<gone, relMsgs, pool, open, acc, calls, ports>>

\* ReleaseProc: OnClientLeave, then closesocket and the Push, last the count.
ReleaseOrder == <<"leave", "push", "count">>

After(w) ==
    LET i == CHOOSE k \in 1..3 : ReleaseOrder[k] = pc[w]
    IN  IF i = 3 THEN Start(w, "idle", None) ELSE Goto(w, ReleaseOrder[i + 1])

ReleaseTake(w, s) ==
    /\ pc[w] = "idle" /\ iocp /\ relMsgs[s] > 0
    /\ relMsgs' = [relMsgs EXCEPT ![s] = @ - 1]
    /\ Start(w, ReleaseOrder[1], s)
    /\ UNCHANGED <<sess, recv, gone, pool, open, acc, calls, ports>>

Leave(w) ==
    /\ pc[w] = "leave"
    /\ open' = open \ {sess[at[w]].conn}
    /\ After(w)
    /\ UNCHANGED <<table, pool, acc, calls, ports>>

Push(w) ==
    /\ pc[w] = "push"
    /\ stack' = <<at[w]>> \o stack
    /\ After(w)
    /\ UNCHANGED <<table, curCnt, allocID, open, acc, calls, ports>>

Count(w) ==
    /\ pc[w] = "count"
    /\ curCnt' = curCnt - 1
    /\ After(w)
    /\ UNCHANGED <<table, stack, allocID, open, acc, calls, ports>>

-----------------------------------------------------------------------------
(* Disconnect *)

\* Called with an ID the contents were given; a stale one is turned away.
CallDisconnect(c) ==
    /\ pc[c] = "idle" /\ calls < MaxCalls
    /\ calls' = calls + 1
    /\ \E s \in Slots :
        /\ sess[s].conn \in open /\ sess[s].rel = 0
        /\ sess' = [sess EXCEPT ![s].ref = @ + 1]
        /\ Start(c, "flag", s)
    /\ UNCHANGED <<recv, gone, relMsgs, pool, open, acc, ports>>

\* InterlockedExchange(&m_DCFlag, 1): only the first goes on.
FirstFlag(t) ==
    /\ pc[t] = "flag"
    /\ sess' = [sess EXCEPT ![at[t]].dc = 1]
    /\ Goto(t, IF sess[at[t]].dc = 1 THEN "give" ELSE "cancel")
    /\ UNCHANGED <<recv, gone, relMsgs, pool, open, acc, calls, ports>>

\* CancelIoEx: a receive that is pending completes.
Cancel(t) ==
    /\ pc[t] = "cancel"
    /\ recv' = [recv EXCEPT ![at[t]] = IF @ = "posted" THEN "end" ELSE @]
    /\ Goto(t, "give")
    /\ UNCHANGED <<sess, gone, relMsgs, pool, open, acc, calls, ports>>

Give(t) ==
    /\ pc[t] = "give"
    /\ GiveBack(at[t])
    /\ Start(t, Home(t), IF t = Main THEN at[t] ELSE None)
    /\ UNCHANGED <<recv, gone, pool, open, acc, calls, ports>>

-----------------------------------------------------------------------------
(* Stop *)

StopBegin ==
    /\ pc[Main] = "idle"
    /\ listening' = FALSE
    /\ Start(Main, "wait", None)
    /\ UNCHANGED <<table, pool, open, acc, calls, iocp>>

\* AcceptThread is inside Init for the first connection of the slot: the ID is
\* there and m_RelFlag, never raised before, keeps nobody out.
FirstInit(s) == acc.pc \in {"named", "counted"} /\ acc.slot = s /\ sess[s].rel = 0

\* Disconnect of the connection in a slot, passing over slots never used; a
\* session being released is turned away, and so is one inside a later Init.
Visit(s) ==
    /\ FirstInit(s) => ScanInit
    /\ IF sess[s].conn > 0 /\ sess[s].rel = 0
       THEN sess' = [sess EXCEPT ![s].ref = @ + 1] /\ Start(Main, "flag", s)
       ELSE Start(Main, "round", s) /\ UNCHANGED sess

\* The head of the loop; once no session is left the completion port is closed.
StopLook ==
    /\ pc[Main] = "wait"
    /\ iocp' = (curCnt # 0)
    /\ IF curCnt = 0 THEN Start(Main, "join", None) /\ UNCHANGED sess ELSE Visit(0)
    /\ UNCHANGED <<recv, gone, relMsgs, pool, open, acc, calls, listening>>

StopNext ==
    /\ pc[Main] = "round"
    /\ IF at[Main] + 1 < MaxSession THEN Visit(at[Main] + 1)
       ELSE Start(Main, "wait", None) /\ UNCHANGED sess
    /\ UNCHANGED <<recv, gone, relMsgs, pool, open, acc, calls, ports>>

\* Thread_Destroy joins AcceptThread and the workers, which end with the
\* completion port; then the table and the stack are deleted.
StopJoin ==
    /\ pc[Main] = "join" /\ acc.pc \in {"end", "dead"}
    /\ \A w \in Workers : pc[w] = "idle"
    /\ Goto(Main, "done")
    /\ UNCHANGED <<table, pool, open, acc, calls, ports>>

-----------------------------------------------------------------------------
WorkerStep(w) ==
    \/ RecvStart(w) \/ RecvHandled(w) \/ RecvCheck(w) \/ RecvNext(w)
    \/ Leave(w) \/ Push(w) \/ Count(w) \/ Give(w)

CallerStep(c) == FirstFlag(c) \/ Cancel(c) \/ Give(c)
StopStep == StopLook \/ StopNext \/ StopJoin \/ CallerStep(Main)
Serve(s) == \E w \in Workers : RecvTake(w, s) \/ ReleaseTake(w, s)

Next ==
    \/ AcceptStep
    \/ \E s \in Slots : PeerSends(s) \/ PeerCloses(s) \/ RecvEnds(s) \/ Serve(s)
    \/ \E w \in Workers : WorkerStep(w)
    \/ \E c \in Closers : CallDisconnect(c) \/ CallerStep(c)
    \/ StopBegin \/ StopStep

Spec == Init /\ [][Next]_vars

\* Every thread runs on and every packet finds a worker; a receive whose peer
\* has closed completes.  Whether a peer ever closes is its own affair.
Fairness ==
    /\ WF_vars(AcceptStep) /\ WF_vars(StopStep)
    /\ \A s \in Slots : WF_vars(RecvEnds(s)) /\ WF_vars(Serve(s))
    /\ \A w \in Workers : WF_vars(WorkerStep(w))
    /\ \A c \in Closers : WF_vars(CallerStep(c))

FairSpec == Spec /\ Fairness
PeersLeave == \A s \in Slots : WF_vars(PeerCloses(s))
FairPeersSpec == FairSpec /\ PeersLeave

-----------------------------------------------------------------------------
(* Properties *)

\* AcceptThread, which ignores the result of Pop, finds an index whenever
\* m_CurSessionCnt let a connection in, and never one that is still in use.
PopFindsIndex ==
    /\ acc.pc = "pop" => stack # <<>>
    /\ \A i \in 1..Len(stack) : sess[stack[i]].conn \notin open /\ relMsgs[stack[i]] = 0

\* The messages of a session are handled one receive after the other: two
\* workers are never in OnRecv for it, though any worker may take a completion.
RecvInOrder ==
    \A v, w \in Workers : pc[v] = "onrecv" /\ pc[w] = "onrecv" /\ at[v] = at[w] => v = w

\* The contents hear of a connection between its OnClientJoin and its
\* OnClientLeave only.
RecvWhileOpen == \A w \in Workers : pc[w] = "onrecv" => sess[at[w]].conn \in open

\* When Stop closes the completion port nothing is left that needs it: no
\* session open, no receive posted, no release waiting for a worker.
StopLeavesNothing ==
    ~iocp =>
        /\ open = {}
        /\ \A s \in Slots : recv[s] = "none" /\ relMsgs[s] = 0
        /\ \A w \in Workers : pc[w] = "idle"

\* Stop comes to its end when the peers close their connections sooner or
\* later, unless AcceptThread ended on an error, its connection being counted.
StopEnds == pc[Main] = "wait" ~> (pc[Main] = "done" \/ acc.pc = "dead")

\* A connection that was disconnected leaves, without its peer's help.
DisconnectEnds ==
    \A i \in 1..MaxConn :
        (\E s \in Slots : sess[s].conn = i /\ sess[s].dc = 1 /\ i \in open) ~> i \notin open
=============================================================================
