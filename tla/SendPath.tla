------------------------------ MODULE SendPath ------------------------------
(***************************************************************************)
(* The send path of one CNetServer session, from the return of its         *)
(* AcceptThread turn to the end of its ReleaseProc: SendPacket, SendPost,  *)
(* SendThread, SendIOProc, Disconnect, Release and ReleaseProc, with the   *)
(* reference count of each CMessage.  SessionRef says what happens when    *)
(* the slot is used again.                                                 *)
(*                                                                         *)
(* One thread at a time may fill m_SendArray and use m_SendOverlapped: in  *)
(* the mode m_SendThFL = 0 whoever swaps m_SendFlag to 1, in the mode 1    *)
(* the SendThread.                                                         *)
(*                                                                         *)
(* Abstractions.  m_SendQ is a sequence that changes when the enqueuer's   *)
(* first CAS links the node; m_size follows in a step of its own, as in    *)
(* LFQueueMul.  Dequeue moves the head and lowers m_size in one step: only *)
(* the dequeuer reads the head, so m_size alone tells the others.  The     *)
(* receive side is the one reference it keeps (RecvPost takes the next one *)
(* before RecvIOProc drops the last).  A thread that calls Disconnect from *)
(* inside SendPacket or SendPost already holds a reference, so the further *)
(* one Disconnect or a failed WSASend takes and returns is left out.       *)
(***************************************************************************)
EXTENDS Integers, FiniteSets, SequencesExt

CONSTANTS
    Senders,     \* threads of the contents that call SendPacket
    Closers,     \* threads of the contents that call Disconnect
    Workers,     \* WorkerThread
    Sweeper,     \* SendThread
    Msgs,        \* the messages sent to this session
    NoMsg,
    Batch,       \* messages of one WSASend: df_SERVER_WSABUFSIZE, the size of m_SendArray
    QMax,        \* SENDQ_MAX_SIZE
    MaxDisc      \* bound: calls of Disconnect by the contents

Threads == Senders \cup Closers \cup Workers \cup {Sweeper}

ASSUME ThreadsFinite == IsFiniteSet(Threads)
ASSUME ThreadsApart ==
    /\ Senders \cap Closers = {} /\ Senders \cap Workers = {} /\ Closers \cap Workers = {}
    /\ Sweeper \notin Senders \cup Closers \cup Workers
ASSUME NoMsgApart == NoMsg \notin Msgs
ASSUME SomeSender == Senders # {}
ASSUME BoundsNat == Batch \in Nat \ {0} /\ QMax \in Nat /\ MaxDisc \in Nat

VARIABLES
    sendThFL, \* m_SendThFL: 0 send at once, 1 leave it to SendThread; set at Start
    refCnt, relFlag, dcFlag, sendFlag,  \* m_RefCnt, m_RelFlag, m_DCFlag, m_SendFlag
    sendQ,    \* messages linked in m_SendQ
    qSize,    \* m_SendQ.m_size
    sendArr,  \* m_SendArray[0 .. m_SendMsgCnt - 1]
    sendPend, \* WSASend requests whose completion no worker has taken
    recv,     \* the receive side holds its reference
    relMsgs,  \* en_RELEASE packets in the completion port
    closed,   \* OnClientLeave was called
    msgRef,   \* m_iRefCnt of each message, 0 in the pool
    pc,       \* where each thread is
    cur,      \* the message a sender is sending
    got,      \* what a thread in SendPost has put in m_SendArray so far
    fresh,    \* messages the contents have yet to send
    discs,    \* calls of Disconnect so far
    linked,   \* history: messages in the order they were linked
    posted    \* history: messages in the order they were handed to WSASend

session == <<refCnt, relFlag, dcFlag, sendFlag>>
queue == <<sendQ, qSize>>
io == <<sendPend, recv, relMsgs, closed>>
history == <<linked, posted>>
rest == <<sendThFL, fresh, discs>>
vars == <<session, queue, sendArr, io, msgRef, pc, cur, got, rest, history>>

PCs == {"idle", "check", "room", "link", "count", "scan", "post", "flag", "size",
        "unflag", "again", "deq", "wsa", "dc", "dec", "cas", "drop", "free",
        "clear", "array", "drain"}

TypeOK ==
    /\ sendThFL \in {0, 1}
    /\ refCnt \in Nat /\ relFlag \in {0, 1} /\ dcFlag \in {0, 1} /\ sendFlag \in {0, 1}
    /\ sendQ \in Seq(Msgs) /\ qSize \in Int /\ sendArr \in Seq(Msgs)
    /\ sendPend \in Nat /\ recv \in BOOLEAN /\ relMsgs \in Nat /\ closed \in BOOLEAN
    /\ msgRef \in [Msgs -> Nat]
    /\ pc \in [Threads -> PCs]
    /\ cur \in [Threads -> Msgs \cup {NoMsg}]
    /\ got \in [Threads -> Seq(Msgs)]
    /\ fresh \subseteq Msgs /\ discs \in Nat
    /\ linked \in Seq(Msgs) /\ posted \in Seq(Msgs)

\* The session as AcceptThread leaves it: Init ran, RecvPost was called.
Init ==
    /\ sendThFL \in {0, 1}
    /\ refCnt = 1 /\ relFlag = 0 /\ dcFlag = 0 /\ sendFlag = 0
    /\ sendQ = <<>> /\ qSize = 0 /\ sendArr = <<>>
    /\ sendPend = 0 /\ recv = TRUE /\ relMsgs = 0 /\ closed = FALSE
    /\ msgRef = [m \in Msgs |-> 0]
    /\ pc = [t \in Threads |-> "idle"]
    /\ cur = [t \in Threads |-> NoMsg]
    /\ got = [t \in Threads |-> <<>>]
    /\ fresh = Msgs /\ discs = 0
    /\ linked = <<>> /\ posted = <<>>

Goto(t, place) == pc' = [pc EXCEPT ![t] = place]

\* CMessage::Free of every message of a sequence (each is there once).
FreeAll(seq) == msgRef' = [m \in Msgs |-> IF m \in ToSet(seq) THEN msgRef[m] - 1 ELSE msgRef[m]]

-----------------------------------------------------------------------------
(* Slips one could make in this code.  No action uses them: each is put in  *)
(* the place of the definition it is named after, to see which property     *)
(* notices.                                                                 *)

Usable_Always == TRUE               \* SessionInvalid without the check of m_RelFlag
Full_Never == FALSE                 \* SendPacket without the limit
AddRef_Skip(m) == UNCHANGED msgRef  \* Enqueue without the AddRef before it
Queued_Never == FALSE               \* SendPost without the second look
IoRef_Skip == UNCHANGED refCnt      \* WSASend without a reference of its own
Drained_Always == TRUE              \* ReleaseProc does not empty the queue

\* The Dequeue loop takes a message before it finds m_SendArray full.
TakeEnd_DropsNext(t) ==
    /\ pc[t] = "deq" /\ (sendQ = <<>> \/ Len(got[t]) = Batch)
    /\ IF sendQ = <<>> THEN UNCHANGED queue ELSE sendQ' = Tail(sendQ) /\ qSize' = qSize - 1
    /\ Goto(t, "wsa")
    /\ UNCHANGED <<session, sendArr, io, msgRef, cur, got, rest, history>>

\* SendIOProc gives the flag up before it frees the array.
TakeSend_FlagFirst(w) ==
    /\ pc[w] = "idle" /\ sendPend > 0
    /\ sendPend' = sendPend - 1
    /\ sendFlag' = 0
    /\ Goto(w, "free")
    /\ UNCHANGED <<refCnt, relFlag, dcFlag, queue, sendArr, recv, relMsgs, closed, msgRef, cur, got,
                   rest, history>>

\* SendIOProc does not go on with what was queued meanwhile.
ClearFlag_NoPost(w) ==
    /\ pc[w] = "clear"
    /\ sendFlag' = 0
    /\ Goto(w, "dec")
    /\ UNCHANGED <<refCnt, relFlag, dcFlag, queue, sendArr, io, msgRef, cur, got, rest, history>>

-----------------------------------------------------------------------------
(* Entering: the increment of SessionInvalid, then its check *)

\* A thread of the contents takes a new message and calls SendPacket.
CallSend(s) ==
    /\ pc[s] = "idle"
    /\ \E m \in fresh :
        /\ fresh' = fresh \ {m}
        /\ msgRef' = [msgRef EXCEPT ![m] = 1]
        /\ cur' = [cur EXCEPT ![s] = m]
    /\ refCnt' = refCnt + 1
    /\ Goto(s, "check")
    /\ UNCHANGED <<relFlag, dcFlag, sendFlag, queue, sendArr, io, got, sendThFL, discs, history>>

CallDisconnect(c) ==
    /\ pc[c] = "idle" /\ discs < MaxDisc
    /\ discs' = discs + 1
    /\ refCnt' = refCnt + 1
    /\ Goto(c, "check")
    /\ UNCHANGED <<relFlag, dcFlag, sendFlag, queue, sendArr, io, msgRef, cur, got, sendThFL, fresh, history>>

\* SendThread comes to this session in its round over m_SessionTable.
Sweep ==
    /\ pc[Sweeper] = "idle" /\ sendThFL = 1
    /\ refCnt' = refCnt + 1
    /\ Goto(Sweeper, "check")
    /\ UNCHANGED <<relFlag, dcFlag, sendFlag, queue, sendArr, io, msgRef, cur, got, rest, history>>

Usable == relFlag = 0

Check(t) ==
    /\ pc[t] = "check"
    /\ Goto(t, IF ~Usable THEN "dec"
               ELSE IF t \in Senders THEN "room"
               ELSE IF t = Sweeper THEN "scan" ELSE "dc")
    /\ UNCHANGED <<session, queue, sendArr, io, msgRef, cur, got, rest, history>>

-----------------------------------------------------------------------------
(* SendPacket *)

Full == qSize >= QMax

\* A full queue disconnects the session instead.
Room(t) ==
    /\ pc[t] = "room"
    /\ Goto(t, IF Full THEN "dc" ELSE "link")
    /\ UNCHANGED <<session, queue, sendArr, io, msgRef, cur, got, rest, history>>

AddRef(m) == msgRef' = [msgRef EXCEPT ![m] = @ + 1]

\* AddRef, and Enqueue up to the CAS that links the node.
Link(t) ==
    /\ pc[t] = "link"
    /\ AddRef(cur[t])
    /\ sendQ' = Append(sendQ, cur[t])
    /\ linked' = Append(linked, cur[t])
    /\ Goto(t, "count")
    /\ UNCHANGED <<session, qSize, sendArr, io, cur, got, rest, posted>>

\* The end of Enqueue: InterlockedIncrement(&m_size).
Count(t) ==
    /\ pc[t] = "count"
    /\ qSize' = qSize + 1
    /\ Goto(t, IF sendThFL = 0 THEN "post" ELSE "dec")
    /\ UNCHANGED <<session, sendQ, sendArr, io, msgRef, cur, got, rest, history>>

\* SendThread passes over a session that is sending or has nothing to send.
Scan(t) ==
    /\ pc[t] = "scan"
    /\ Goto(t, IF sendFlag # 0 \/ qSize = 0 THEN "dec" ELSE "post")
    /\ UNCHANGED <<session, queue, sendArr, io, msgRef, cur, got, rest, history>>

-----------------------------------------------------------------------------
(* SendPost *)

Post(t) ==
    /\ pc[t] = "post"
    /\ Goto(t, IF dcFlag = 1 THEN "dec" ELSE "flag")
    /\ UNCHANGED <<session, queue, sendArr, io, msgRef, cur, got, rest, history>>

\* InterlockedExchange16(&m_SendFlag, 1), or SendThread's plain store.
Flag(t) ==
    /\ pc[t] = "flag"
    /\ sendFlag' = 1
    /\ Goto(t, IF sendThFL = 1 THEN "deq" ELSE IF sendFlag = 1 THEN "dec" ELSE "size")
    /\ UNCHANGED <<refCnt, relFlag, dcFlag, queue, sendArr, io, msgRef, cur, got, rest, history>>

Size(t) ==
    /\ pc[t] = "size"
    /\ Goto(t, IF qSize = 0 THEN "unflag" ELSE "deq")
    /\ UNCHANGED <<session, queue, sendArr, io, msgRef, cur, got, rest, history>>

Unflag(t) ==
    /\ pc[t] = "unflag"
    /\ sendFlag' = 0
    /\ Goto(t, "again")
    /\ UNCHANGED <<refCnt, relFlag, dcFlag, queue, sendArr, io, msgRef, cur, got, rest, history>>

Queued == qSize # 0

\* The second look at the size, after the flag was given up.
Again(t) ==
    /\ pc[t] = "again"
    /\ Goto(t, IF Queued THEN "flag" ELSE "dec")
    /\ UNCHANGED <<session, queue, sendArr, io, msgRef, cur, got, rest, history>>

\* The Dequeue loop into m_SendArray, one message a step.
Take(t) ==
    /\ pc[t] = "deq" /\ sendQ # <<>> /\ Len(got[t]) < Batch
    /\ got' = [got EXCEPT ![t] = Append(@, Head(sendQ))]
    /\ sendQ' = Tail(sendQ)
    /\ qSize' = qSize - 1
    /\ UNCHANGED <<session, sendArr, io, msgRef, pc, cur, rest, history>>

TakeEnd(t) ==
    /\ pc[t] = "deq" /\ (sendQ = <<>> \/ Len(got[t]) = Batch)
    /\ Goto(t, "wsa")
    /\ UNCHANGED <<session, queue, sendArr, io, msgRef, cur, got, rest, history>>

IoRef == refCnt' = refCnt + 1

\* m_SendMsgCnt is set and WSASend called: accepted, with a reference of its
\* own, or refused, and then SendPost disconnects.
WsaSend(t) ==
    /\ pc[t] = "wsa"
    /\ sendArr' = got[t]
    /\ posted' = posted \o got[t]
    /\ got' = [got EXCEPT ![t] = <<>>]
    /\ \/ sendPend' = sendPend + 1 /\ IoRef /\ Goto(t, "dec")
       \/ Goto(t, "dc") /\ UNCHANGED <<sendPend, refCnt>>
    /\ UNCHANGED <<relFlag, dcFlag, sendFlag, queue, recv, relMsgs, closed, msgRef, cur, rest, linked>>

-----------------------------------------------------------------------------
(* Leaving *)

\* Disconnect: InterlockedExchange(&m_DCFlag, 1), and CancelIoEx, which makes
\* the pending I/O complete (TakeSend and RecvEnd may happen at any time).
Disconnect(t) ==
    /\ pc[t] = "dc"
    /\ dcFlag' = 1
    /\ Goto(t, "dec")
    /\ UNCHANGED <<refCnt, relFlag, sendFlag, queue, sendArr, io, msgRef, cur, got, rest, history>>

Dec(t) ==
    /\ pc[t] = "dec"
    /\ refCnt' = refCnt - 1
    /\ Goto(t, "cas")
    /\ UNCHANGED <<relFlag, dcFlag, sendFlag, queue, sendArr, io, msgRef, cur, got, rest, history>>

Release(t) ==
    /\ pc[t] = "cas"
    /\ IF refCnt = 0 /\ relFlag = 0
       THEN relFlag' = 1 /\ relMsgs' = relMsgs + 1
       ELSE UNCHANGED <<relFlag, relMsgs>>
    /\ Goto(t, IF t \in Senders THEN "drop" ELSE "idle")
    /\ UNCHANGED <<refCnt, dcFlag, sendFlag, queue, sendArr, sendPend, recv, closed, msgRef, cur,
                   got, rest, history>>

\* The caller of SendPacket frees its own reference to the message.
DropOwn(s) ==
    /\ pc[s] = "drop"
    /\ FreeAll(<<cur[s]>>)
    /\ cur' = [cur EXCEPT ![s] = NoMsg]
    /\ Goto(s, "idle")
    /\ UNCHANGED <<session, queue, sendArr, io, got, rest, history>>

-----------------------------------------------------------------------------
(* WorkerThread *)

TakeSend(w) ==
    /\ pc[w] = "idle" /\ sendPend > 0
    /\ sendPend' = sendPend - 1
    /\ Goto(w, "free")
    /\ UNCHANGED <<session, queue, sendArr, recv, relMsgs, closed, msgRef, cur, got, rest, history>>

\* SendIOProc: the messages sent go back, m_SendMsgCnt = 0 ...
FreeSent(w) ==
    /\ pc[w] = "free"
    /\ FreeAll(sendArr)
    /\ sendArr' = <<>>
    /\ Goto(w, "clear")
    /\ UNCHANGED <<session, queue, io, cur, got, rest, history>>

\* ... and only then the flag is given up.
ClearFlag(w) ==
    /\ pc[w] = "clear"
    /\ sendFlag' = 0
    /\ Goto(w, IF sendThFL = 0 THEN "post" ELSE "dec")
    /\ UNCHANGED <<refCnt, relFlag, dcFlag, queue, sendArr, io, msgRef, cur, got, rest, history>>

\* RecvIOProc of the last receive: the peer closed or the I/O was cancelled.
RecvEnd(w) ==
    /\ pc[w] = "idle" /\ recv
    /\ recv' = FALSE
    /\ dcFlag' = 1
    /\ Goto(w, "dec")
    /\ UNCHANGED <<refCnt, relFlag, sendFlag, queue, sendArr, sendPend, relMsgs, closed, msgRef,
                   cur, got, rest, history>>

TakeRelease(w) ==
    /\ pc[w] = "idle" /\ relMsgs > 0
    /\ relMsgs' = relMsgs - 1
    /\ Goto(w, "array")
    /\ UNCHANGED <<session, queue, sendArr, sendPend, recv, closed, msgRef, cur, got, rest, history>>

\* ReleaseProc: what m_SendArray still holds (m_SendMsgCnt is not reset) ...
FreeArray(w) ==
    /\ pc[w] = "array"
    /\ FreeAll(sendArr)
    /\ Goto(w, "drain")
    /\ UNCHANGED <<session, queue, sendArr, io, cur, got, rest, history>>

\* ... then what m_SendQ holds, until it is empty ...
Drain(w) ==
    /\ pc[w] = "drain" /\ sendQ # <<>>
    /\ FreeAll(<<Head(sendQ)>>)
    /\ sendQ' = Tail(sendQ)
    /\ qSize' = qSize - 1
    /\ UNCHANGED <<session, sendArr, io, pc, cur, got, rest, history>>

Drained == sendQ = <<>>

\* ... then OnClientLeave, closesocket and the Push of the index.
Leave(w) ==
    /\ pc[w] = "drain" /\ Drained
    /\ closed' = TRUE
    /\ Goto(w, "idle")
    /\ UNCHANGED <<session, queue, sendArr, sendPend, recv, relMsgs, msgRef, cur, got, rest, history>>

-----------------------------------------------------------------------------
\* What a thread does once it is called, up to its return.
Step(t) ==
    \/ Check(t) \/ Room(t) \/ Link(t) \/ Count(t) \/ Scan(t)
    \/ Post(t) \/ Flag(t) \/ Size(t) \/ Unflag(t) \/ Again(t)
    \/ Take(t) \/ TakeEnd(t) \/ WsaSend(t)
    \/ Disconnect(t) \/ Dec(t) \/ Release(t) \/ DropOwn(t)
    \/ FreeSent(t) \/ ClearFlag(t) \/ FreeArray(t) \/ Drain(t) \/ Leave(t)

Next ==
    \/ \E s \in Senders : CallSend(s)
    \/ \E c \in Closers : CallDisconnect(c)
    \/ Sweep
    \/ \E w \in Workers : TakeSend(w) \/ RecvEnd(w) \/ TakeRelease(w)
    \/ \E t \in Threads : Step(t)

Spec == Init /\ [][Next]_vars

\* Threads run on, a worker takes every completion, and a send that was
\* accepted completes: the peer reads on or the connection fails.  Nothing is
\* assumed of the receive side or of the calls of the contents.
Fairness ==
    /\ \A t \in Threads : WF_vars(Step(t))
    /\ WF_vars(\E w \in Workers : TakeSend(w))
    /\ WF_vars(\E w \in Workers : TakeRelease(w))
    /\ WF_vars(Sweep)

FairSpec == Spec /\ Fairness

-----------------------------------------------------------------------------
(* Properties *)

\* The threads that may use m_SendArray, m_SendMsgCnt and m_SendOverlapped.
Filling == {t \in Threads : pc[t] \in {"deq", "wsa"}}
Freeing == {t \in Threads : pc[t] \in {"free", "array"}}

\* At most one thread or pending WSASend uses m_SendArray and m_SendOverlapped
\* at a time, whoever sends, completes and disconnects: an OVERLAPPED is never
\* reused under an I/O and no array entry is overwritten before it is freed.
OneSendPending ==
    /\ Cardinality(Filling \cup Freeing) + sendPend <= 1
    /\ Filling # {} /\ sendArr # <<>> => relFlag = 1

\* The messages a thread in SendPost has taken out of the queue.
Pulled == IF Filling = {} THEN <<>> ELSE got[CHOOSE t \in Filling : TRUE]

\* While the session is open every message linked in m_SendQ is handed to
\* WSASend once and in that order: what was handed over, what the sending
\* thread has taken and what is queued make up what was linked.
SentInOrder == relFlag = 0 => linked = posted \o Pulled \o sendQ

\* Who holds a reference to a message: its sender until SendPacket returns, the
\* queue, m_SendArray or the thread filling it.  ReleaseProc leaves
\* m_SendMsgCnt as it is once it has freed the array.
InArray == IF closed \/ \E w \in Workers : pc[w] = "drain" THEN {} ELSE ToSet(sendArr)
Places(m) ==
    <<m \in {cur[t] : t \in Threads}, m \in ToSet(sendQ), m \in InArray,
      \E t \in Threads : m \in ToSet(got[t])>>

\* m_iRefCnt of a message is the number of places that still use it: it goes back
\* to the pool once, neither under a pending send nor never.
MessageCount ==
    \A m \in Msgs : msgRef[m] = Cardinality({i \in 1..4 : Places(m)[i]})

\* After OnClientLeave nothing is queued, being sent or about to be: the slot
\* can be given away, and CSession::Init has nothing to throw away.
NothingLeftBehind ==
    closed =>
        /\ sendQ = <<>> /\ sendPend = 0 /\ Filling = {}
        /\ \A t \in Threads : pc[t] \notin {"room", "link", "count", "flag", "size", "unflag"}

\* Mode 0, no wake-up is lost: when a message is queued, nobody sends and the
\* session is not disconnected, some thread is on its way to look again.
NoLostWakeup ==
    sendThFL = 0 /\ dcFlag = 0 /\ sendQ # <<>> /\ sendFlag = 0 =>
        \E t \in Threads : pc[t] \in {"count", "post", "flag", "again"}

\* The check of SENDQ_MAX_SIZE and the Enqueue are two steps, so senders may pass
\* it together, but no more than one message each beyond the last free place.
QueueBound == Len(sendQ) <= QMax + Cardinality(Senders) - 1

\* Every message linked is handed to WSASend, unless the session is disconnected.
EverySent ==
    \A m \in Msgs : m \in ToSet(linked) ~> (m \in ToSet(posted) \/ dcFlag = 1)

\* Once the receive side has ended the session is released, and every message
\* goes back to the pool for good.
MessagesComeBack ==
    ~recv ~> (closed /\ [](\A m \in ToSet(linked) : msgRef[m] = 0))
=============================================================================
