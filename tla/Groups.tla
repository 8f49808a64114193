------------------------------- MODULE Groups -------------------------------
(***************************************************************************)
(* CGameLibrary with the two groups of the echo game: CAuth, where every   *)
(* connection starts, and CEcho, where GroupMove takes it after its login. *)
(*                                                                         *)
(* Abstractions.  SessionRef is the detail of a reference and NetServer of *)
(* the table: SessionInvalid is one step, so is a decrement with the CAS   *)
(* behind it, and the index stack is a set; CSession::Init takes its steps *)
(* one by one, as a Closer reads IDs out of the table meanwhile.  SendPath *)
(* is the detail of a send; what it does to this model is that it may      *)
(* fail, as a Closer.  A packet of the completion port may be taken before *)
(* an older one.                                                           *)
(***************************************************************************)
EXTENDS Naturals, Sequences, FiniteSetsExt

CONSTANTS
    Slots,     \* m_SessionTable
    MaxConn,   \* bound: connections accepted
    MaxMsg,    \* bound: messages of all connections
    MaxClose,  \* bound: times a Closer sets m_DCFlag
    MaxFrame,  \* bound: frames FrameThread posts
    MaxUser,   \* bound: CUser objects
    Workers,   \* WorkerThread
    Acceptor,  \* AcceptThread
    Closer,    \* SendThread when WSASend fails, and the caller of Stop
    None,
    ScanInit   \* a Closer may enter a session whose first Init is under way:
               \* m_RelFlag is 0 then from the start

Auth == 0
Echo == 1
Groups == {Auth, Echo}
Conns == 1..MaxConn
Users == 1..MaxUser
Threads == Workers \cup {Acceptor, Closer}

ASSUME Bounds == {MaxConn, MaxMsg, MaxClose, MaxFrame, MaxUser} \subseteq Nat
ASSUME ThreadsApart == {Acceptor, Closer} \cap Workers = {} /\ Acceptor # Closer
ASSUME ThreadsFinite == IsFiniteSet(Workers)
ASSUME ScanBoolean == ScanInit \in BOOLEAN
ASSUME NoneApart == None \notin Slots \cup Users \cup Threads

VARIABLES
    sess,      \* each slot: its connection, m_RefCnt, m_RelFlag, m_DCFlag, m_GroupID
    free,      \* m_pSessionIdxStack
    recv,      \* the receive of each slot: "none", "posted", or completed: "data", "end"
    ring,      \* m_RecvQ: the messages a completed receive brought
    port,      \* packets in m_IOCP that are no completions
    lock,      \* m_GroupLock of each group: its exclusive and its shared owners
    nonUser,   \* CAuth::m_NonUserMap
    echoUser,  \* CEcho::m_EchoUser: the CUser of each connection, or None
    inUse,     \* CUser objects that are allocated
    me,        \* each thread: where it is and its local variables
    accepted,  \* connections so far (m_AllocID)
    sent,      \* messages the peers have sent
    gone,      \* connections whose peer has closed
    welcomed,  \* connections the login response was sent to
    logins,    \* history: login requests CAuth handled
    left,      \* history: connections OnClientLeave was called for
    closes, frames

table == <<sess, free>>
io == <<recv, ring>>
maps == <<nonUser, echoUser, inUse>>
peers == <<sent, gone, welcomed>>
history == <<logins, left>>
bounds == <<accepted, closes, frames>>
vars == <<table, io, port, lock, maps, me, peers, history, bounds>>

Messages == [type : {"login", "echo", "bad"}, late : BOOLEAN]
Packets == [kind : {"release"}, slot : Slots]
           \cup [kind : {"frame"}, group : Groups]
           \cup [kind : {"move"}, slot : Slots, conn : Conns, user : Users]
PCs == {"idle", "named", "counted", "next", "lock", "recv", "post", "wsa", "give", "set", "user",
        "unlock", "push", "flag", "cancel"}
Idle == [pc |-> "idle", slot |-> None, conn |-> 0, group |-> Auth, user |-> None, job |-> "none"]

TypeOK ==
    /\ sess \in [Slots -> [conn : 0..MaxConn, ref : Nat, rel : {0, 1}, dc : {0, 1},
                           group : Groups]]
    /\ free \subseteq Slots
    /\ recv \in [Slots -> {"none", "posted", "data", "end"}]
    /\ ring \in [Slots -> Seq(Messages)]
    /\ port \subseteq Packets
    /\ lock \in [Groups -> [excl : Threads \cup {None}, shared : SUBSET Workers]]
    /\ nonUser \subseteq Conns /\ echoUser \in [Conns -> Users \cup {None}] /\ inUse \subseteq Users
    /\ me \in [Threads -> [pc : PCs, slot : Slots \cup {None}, conn : 0..MaxConn, group : Groups,
                           user : Users \cup {None},
                           job : {"none", "accept", "recv", "move", "release", "frame", "close"}]]
    /\ accepted \in 0..MaxConn /\ closes \in 0..MaxClose /\ frames \in 0..MaxFrame
    /\ sent \in 0..MaxMsg /\ logins \in [Conns -> 0..MaxMsg]
    /\ gone \subseteq Conns /\ welcomed \subseteq Conns /\ left \subseteq Conns

Init ==
    /\ sess = [s \in Slots |-> [conn |-> 0, ref |-> 0, rel |-> 0, dc |-> 0, group |-> Auth]]
    /\ free = Slots
    /\ recv = [s \in Slots |-> "none"] /\ ring = [s \in Slots |-> <<>>]
    /\ port = {}
    /\ lock = [g \in Groups |-> [excl |-> None, shared |-> {}]]
    /\ nonUser = {} /\ echoUser = [c \in Conns |-> None] /\ inUse = {}
    /\ me = [t \in Threads |-> Idle]
    /\ accepted = 0 /\ closes = 0 /\ frames = 0
    /\ sent = 0 /\ logins = [c \in Conns |-> 0]
    /\ gone = {} /\ welcomed = {} /\ left = {}

At(t, place) == me[t].pc = place
Goto(t, place) == me' = [me EXCEPT ![t].pc = place]
Conn(t) == sess[me[t].slot].conn

\* m_Shared, as Main.cpp attaches the groups.
Shared(g) == g = Echo

\* InterlockedDecrement64 and Release: the last reference posts en_RELEASE.
GiveBack(s) ==
    LET last == sess[s].ref = 1 /\ sess[s].rel = 0
    IN  /\ sess' = [sess EXCEPT ![s].ref = @ - 1, ![s].rel = IF last THEN 1 ELSE @]
        /\ port' = IF last THEN port \cup {[kind |-> "release", slot |-> s]} ELSE port

\* CancelIoEx of the receive: one that is pending completes with 0 bytes.
CancelRecv(s) == recv' = [recv EXCEPT ![s] = IF @ = "posted" THEN "end" ELSE @]

-----------------------------------------------------------------------------
(* Slips one could make in this code.  No action uses them: each is put in  *)
(* the place of the definition it is named after, to see which property     *)
(* notices.                                                                 *)

\* OnRecv of a shared group without its lock.
SharedFree_Always(g) == TRUE

\* GroupMove without a reference for the packet.
GroupMove_NoRef(t, u) ==
    /\ port' = port \cup {[kind |-> "move", slot |-> me[t].slot, conn |-> Conn(t), user |-> u]}
    /\ UNCHANGED sess

\* m_GroupID changes after OnIUserMove.
MoveOrder_UserFirst == [set |-> "unlock", user |-> "set", lock |-> "user"]

\* OnClientLeave keeps the CUser.
EchoLeave_NoFree(c) == echoUser' = [echoUser EXCEPT ![c] = None] /\ UNCHANGED <<nonUser, inUse>>

\* RecvPost without a reference for the receive.
RecvPost_NoRef(s) ==
    \/ recv' = [recv EXCEPT ![s] = "posted"] /\ UNCHANGED sess
    \/ sess' = [sess EXCEPT ![s].dc = 1] /\ UNCHANGED recv

\* RecvIOProc returns before its Release when m_DCFlag is set.
NextStop_NoGive == "idle"

-----------------------------------------------------------------------------
(* The locks of the groups *)

SharedFree(g) == lock[g].excl = None
ExclusiveFree(g) == lock[g].excl = None /\ lock[g].shared = {}

\* The thread acquires the lock of group g and goes on.
Exclusive(t, g) ==
    /\ ExclusiveFree(g)
    /\ lock' = [lock EXCEPT ![g].excl = t]

Unlocked(t) ==
    lock' = [g \in Groups |-> [excl |-> IF lock[g].excl = t THEN None ELSE lock[g].excl,
                               shared |-> lock[g].shared \ {t}]]

-----------------------------------------------------------------------------
(* AcceptThread *)

\* accept, Pop, and Init up to m_RecvQ: the ID is in the table ...
Accept(t) ==
    /\ t = Acceptor /\ At(t, "idle") /\ accepted < MaxConn
    /\ \E s \in free :
           /\ free' = free \ {s}
           /\ sess' = [sess EXCEPT ![s] = [sess[s] EXCEPT !.conn = accepted + 1, !.group = Auth]]
           /\ ring' = [ring EXCEPT ![s] = <<>>]
           /\ me' = [me EXCEPT ![t] = [Idle EXCEPT !.pc = "named", !.slot = s, !.job = "accept"]]
    /\ accepted' = accepted + 1
    /\ UNCHANGED <<recv, port, lock, maps, peers, history, closes, frames>>

\* ... m_RefCnt, then m_DCFlag ...
InitCount(t) ==
    /\ At(t, "named")
    /\ sess' = [sess EXCEPT ![me[t].slot] = [sess[me[t].slot] EXCEPT !.ref = @ + 1, !.dc = 0]]
    /\ Goto(t, "counted")
    /\ UNCHANGED <<free, io, port, lock, maps, peers, history, bounds>>

\* ... and last m_RelFlag.
InitOpen(t) ==
    /\ At(t, "counted")
    /\ sess' = [sess EXCEPT ![me[t].slot].rel = 0]
    /\ Goto(t, "lock")
    /\ UNCHANGED <<free, io, port, lock, maps, peers, history, bounds>>

\* The lock of the group and OnClientJoin, which touches what it guards only.
OnClientJoin(t) ==
    /\ At(t, "lock") /\ me[t].job = "accept"
    /\ Exclusive(t, sess[me[t].slot].group)
    /\ nonUser' = nonUser \cup {Conn(t)}
    /\ Goto(t, "unlock")
    /\ UNCHANGED <<table, io, port, echoUser, inUse, peers, history, bounds>>

\* WSARecv accepts the receive, with a reference for it, or refuses it.
RecvPost(s) ==
    \/ sess' = [sess EXCEPT ![s].ref = @ + 1] /\ recv' = [recv EXCEPT ![s] = "posted"]
    \/ sess' = [sess EXCEPT ![s].dc = 1] /\ UNCHANGED recv

\* The look at m_DCFlag in RecvIOProc and the one of RecvPost behind it, as the
\* flag stays up: a Disconnect may come between them and the WSARecv.
Post(t) ==
    /\ At(t, "post")
    /\ Goto(t, IF sess[me[t].slot].dc = 1 THEN "give" ELSE "wsa")
    /\ UNCHANGED <<table, io, port, lock, maps, peers, history, bounds>>

PostRecv(t) ==
    /\ At(t, "wsa")
    /\ RecvPost(me[t].slot)
    /\ Goto(t, "give")
    /\ UNCHANGED <<free, ring, port, lock, maps, peers, history, bounds>>

Give(t) ==
    /\ At(t, "give")
    /\ GiveBack(me[t].slot)
    /\ me' = [me EXCEPT ![t] = Idle]
    /\ UNCHANGED <<free, io, lock, maps, peers, history, bounds>>

-----------------------------------------------------------------------------
(* RecvIOProc *)

TakeRecv(t, s) ==
    /\ t \in Workers /\ At(t, "idle") /\ recv[s] \in {"data", "end"}
    /\ me' = [me EXCEPT ![t] = [Idle EXCEPT !.pc = "next", !.slot = s, !.job = "recv"]]
    /\ sess' = [sess EXCEPT ![s].dc = IF recv[s] = "end" THEN 1 ELSE @]
    /\ recv' = [recv EXCEPT ![s] = "none"]
    /\ UNCHANGED <<free, ring, port, lock, maps, peers, history, bounds>>

\* Where the loop over the ring ends when m_DCFlag is set.
NextStop == "give"

\* The loop goes on with the next message and reads m_GroupID, without a lock.
\* A bad header leads to Disconnect, under the reference of the receive, which
\* is not pending now.
NextMessage(t) ==
    /\ At(t, "next")
    /\ LET s == me[t].slot
           bad == ring[s] # <<>> /\ Head(ring[s]).type = "bad"
           place == CASE sess[s].dc = 1 -> NextStop
                      [] sess[s].dc = 0 /\ ring[s] = <<>> -> "post"
                      [] sess[s].dc = 0 /\ bad -> "give"
                      [] OTHER -> "lock"
       IN  /\ me' = [me EXCEPT ![t].pc = place, ![t].group = IF place = "lock" THEN sess[s].group ELSE @]
           /\ sess' = [sess EXCEPT ![s].dc = IF bad THEN 1 ELSE @]
    /\ UNCHANGED <<free, io, port, lock, maps, peers, history, bounds>>

\* The lock of the group that was read, in the mode of that group.
RecvLock(t) ==
    LET g == me[t].group
    IN  /\ At(t, "lock") /\ me[t].job = "recv"
        /\ IF Shared(g) THEN SharedFree(g) /\ lock' = [lock EXCEPT ![g].shared = @ \cup {t}]
                        ELSE Exclusive(t, g)
        /\ Goto(t, "recv")
        /\ UNCHANGED <<table, io, port, maps, peers, history, bounds>>

\* The packet holds the reference that SessionInvalid took.
GroupMove(t, u) ==
    /\ port' = port \cup {[kind |-> "move", slot |-> me[t].slot, conn |-> Conn(t), user |-> u]}
    /\ sess' = [sess EXCEPT ![me[t].slot].ref = @ + 1]

\* LoginRequsetProc.  GroupMove fails if the session is being released.
Login(t) ==
    LET u == CHOOSE v \in Users \ inUse : \A w \in Users \ inUse : v <= w
    IN  /\ inUse # Users
        /\ nonUser' = nonUser \ {Conn(t)}
        /\ logins' = [logins EXCEPT ![Conn(t)] = @ + 1]
        /\ IF sess[me[t].slot].rel = 0
           THEN GroupMove(t, u) /\ inUse' = inUse \cup {u}
           ELSE UNCHANGED <<port, sess, inUse>>

\* A message of another group's protocol: Disconnect, under the reference of
\* the receive.
WrongType(t) ==
    /\ sess' = [sess EXCEPT ![me[t].slot].dc = 1]
    /\ UNCHANGED <<port, nonUser, inUse, logins>>

\* OnRecv of the group whose lock is held.
OnRecv(t) ==
    LET m == Head(ring[me[t].slot])
    IN  /\ At(t, "recv")
        /\ CASE me[t].group = Auth /\ m.type = "login" -> Login(t)
             [] me[t].group = Echo /\ m.type = "echo"  -> UNCHANGED <<sess, port, nonUser, inUse, logins>>
             [] OTHER -> WrongType(t)
        /\ ring' = [ring EXCEPT ![me[t].slot] = Tail(@)]
        /\ Goto(t, "unlock")
        /\ UNCHANGED <<free, recv, lock, echoUser, peers, left, bounds>>

Unlock(t) ==
    /\ At(t, "unlock")
    /\ Unlocked(t)
    /\ IF me[t].job = "frame" THEN me' = [me EXCEPT ![t] = Idle]
       ELSE Goto(t, CASE me[t].job = "accept" -> "post"
                      [] me[t].job = "recv" -> "next"
                      [] me[t].job = "move" -> "give"
                      [] me[t].job = "release" -> "push")
    /\ UNCHANGED <<table, io, port, maps, peers, history, bounds>>

-----------------------------------------------------------------------------
(* GroupMoveProc *)

\* After the lock, the assignment and the callback: lock, set, user, unlock.
MoveOrder == [lock |-> "set", set |-> "user", user |-> "unlock"]

TakeMove(t, p) ==
    /\ t \in Workers /\ At(t, "idle") /\ p.kind = "move"
    /\ port' = port \ {p}
    /\ me' = [me EXCEPT ![t] = [Idle EXCEPT !.pc = "lock", !.slot = p.slot, !.conn = p.conn,
                                            !.user = p.user, !.group = Echo, !.job = "move"]]
    /\ UNCHANGED <<table, io, lock, maps, peers, history, bounds>>

MoveLock(t) ==
    /\ At(t, "lock") /\ me[t].job = "move"
    /\ Exclusive(t, Echo)
    /\ Goto(t, MoveOrder.lock)
    /\ UNCHANGED <<table, io, port, maps, peers, history, bounds>>

SetGroup(t) ==
    /\ At(t, "set")
    /\ sess' = [sess EXCEPT ![me[t].slot].group = Echo]
    /\ Goto(t, MoveOrder.set)
    /\ UNCHANGED <<free, io, port, lock, maps, peers, history, bounds>>

\* CEcho::OnIUserMove: insert does nothing if the key is there; LoginResponse.
OnIUserMove(t) ==
    LET c == me[t].conn
    IN  /\ At(t, "user")
        /\ echoUser' = [echoUser EXCEPT ![c] = IF @ = None THEN me[t].user ELSE @]
        /\ welcomed' = welcomed \cup {c}
        /\ Goto(t, MoveOrder.user)
        /\ UNCHANGED <<table, io, port, lock, nonUser, inUse, sent, gone, history, bounds>>

-----------------------------------------------------------------------------
(* ReleaseProc and FrameProc *)

TakeRelease(t, p) ==
    /\ t \in Workers /\ At(t, "idle") /\ p.kind = "release"
    /\ port' = port \ {p}
    /\ me' = [me EXCEPT ![t] = [Idle EXCEPT !.pc = "lock", !.slot = p.slot, !.job = "release"]]
    /\ UNCHANGED <<table, io, lock, maps, peers, history, bounds>>

AuthLeave(c) == nonUser' = nonUser \ {c} /\ UNCHANGED <<echoUser, inUse>>

EchoLeave(c) ==
    /\ inUse' = inUse \ {echoUser[c]}
    /\ echoUser' = [echoUser EXCEPT ![c] = None]
    /\ UNCHANGED nonUser

\* The lock of the group m_GroupID names, and its OnClientLeave.
OnClientLeave(t) ==
    LET g == sess[me[t].slot].group
    IN  /\ At(t, "lock") /\ me[t].job = "release"
        /\ Exclusive(t, g)
        /\ IF g = Auth THEN AuthLeave(Conn(t)) ELSE EchoLeave(Conn(t))
        /\ left' = left \cup {Conn(t)}
        /\ Goto(t, "unlock")
        /\ UNCHANGED <<table, io, port, peers, logins, bounds>>

\* The index goes back to the stack.
Push(t) ==
    /\ At(t, "push")
    /\ free' = free \cup {me[t].slot}
    /\ me' = [me EXCEPT ![t] = Idle]
    /\ UNCHANGED <<sess, io, port, lock, maps, peers, history, bounds>>

\* FrameThread, when the time of a frame has passed.
PostFrame(g) ==
    /\ frames < MaxFrame
    /\ port' = port \cup {[kind |-> "frame", group |-> g]}
    /\ frames' = frames + 1
    /\ UNCHANGED <<table, io, lock, maps, me, peers, history, accepted, closes>>

TakeFrame(t, p) ==
    /\ t \in Workers /\ At(t, "idle") /\ p.kind = "frame"
    /\ port' = port \ {p}
    /\ me' = [me EXCEPT ![t] = [Idle EXCEPT !.pc = "lock", !.group = p.group, !.job = "frame"]]
    /\ UNCHANGED <<table, io, lock, maps, peers, history, bounds>>

\* OnUpdate of both groups counts its calls and no more.
FrameLock(t) ==
    /\ At(t, "lock") /\ me[t].job = "frame"
    /\ Exclusive(t, me[t].group)
    /\ Goto(t, "unlock")
    /\ UNCHANGED <<table, io, port, maps, peers, history, bounds>>

-----------------------------------------------------------------------------
(* Disconnect from outside the receive *)

\* AcceptThread is inside Init for the first connection of the slot: the ID is
\* there and m_RelFlag, never raised before, keeps nobody out.
FirstInit(s) == me[Acceptor].slot = s /\ me[Acceptor].pc \in {"named", "counted"} /\ sess[s].rel = 0

Enter(t, s) ==
    /\ t = Closer /\ At(t, "idle") /\ closes < MaxClose
    /\ sess[s].conn # 0 /\ sess[s].rel = 0
    /\ FirstInit(s) => ScanInit
    /\ sess' = [sess EXCEPT ![s].ref = @ + 1]
    /\ me' = [me EXCEPT ![t] = [Idle EXCEPT !.pc = "flag", !.slot = s, !.job = "close"]]
    /\ closes' = closes + 1
    /\ UNCHANGED <<free, io, port, lock, maps, peers, history, accepted, frames>>

SetDC(t) ==
    /\ At(t, "flag")
    /\ sess' = [sess EXCEPT ![me[t].slot].dc = 1]
    /\ Goto(t, "cancel")
    /\ UNCHANGED <<free, io, port, lock, maps, peers, history, bounds>>

Cancel(t) ==
    /\ At(t, "cancel")
    /\ CancelRecv(me[t].slot)
    /\ Goto(t, "give")
    /\ UNCHANGED <<table, ring, port, lock, maps, peers, history, bounds>>

-----------------------------------------------------------------------------
(* The peers *)

\* Messages come alone or together; any peer may send anything at any time.
PeerSends(s, k) ==
    LET c == sess[s].conn
    IN  /\ recv[s] = "posted" /\ c \notin gone /\ sent + k <= MaxMsg
        /\ \E batch \in [1..k -> {m \in Messages : m.late = (c \in welcomed)}] :
               ring' = [ring EXCEPT ![s] = batch]
        /\ recv' = [recv EXCEPT ![s] = "data"]
        /\ sent' = sent + k
        /\ UNCHANGED <<table, port, lock, maps, me, gone, welcomed, history, bounds>>

PeerCloses(s) ==
    LET c == sess[s].conn
    IN  /\ c # 0 /\ c \notin gone \cup left
        /\ gone' = gone \cup {c}
        /\ UNCHANGED <<table, io, port, lock, maps, me, sent, welcomed, history, bounds>>

RecvEnds(s) ==
    /\ recv[s] = "posted" /\ sess[s].conn \in gone
    /\ recv' = [recv EXCEPT ![s] = "end"]
    /\ UNCHANGED <<table, ring, port, lock, maps, me, peers, history, bounds>>

-----------------------------------------------------------------------------
Work(t) ==
    \/ InitCount(t) \/ InitOpen(t) \/ OnClientJoin(t)
    \/ Post(t) \/ PostRecv(t) \/ Give(t)
    \/ \E s \in Slots : TakeRecv(t, s)
    \/ NextMessage(t) \/ RecvLock(t) \/ OnRecv(t) \/ Unlock(t)
    \/ \E p \in port : TakeMove(t, p) \/ TakeRelease(t, p) \/ TakeFrame(t, p)
    \/ MoveLock(t) \/ SetGroup(t) \/ OnIUserMove(t)
    \/ OnClientLeave(t) \/ Push(t) \/ FrameLock(t)
    \/ SetDC(t) \/ Cancel(t)

Next ==
    \/ \E t \in Threads : Work(t) \/ Accept(t) \/ \E s \in Slots : Enter(t, s)
    \/ \E g \in Groups : PostFrame(g)
    \/ \E s \in Slots : PeerCloses(s) \/ RecvEnds(s) \/ \E k \in 1..MaxMsg : PeerSends(s, k)

Spec == Init /\ [][Next]_vars

\* A thread that has work does it; the end of a connection reaches its receive.
Fair ==
    /\ \A t \in Threads : WF_vars(Work(t))
    /\ \A s \in Slots : WF_vars(RecvEnds(s))

FairSpec == Spec /\ Fair

-----------------------------------------------------------------------------
(* Properties *)

\* The contents find what they look for: OnClientLeave its connection in the
\* map of the group m_GroupID names, CEcho::OnRecv the user of the session;
\* otherwise they reach __debugbreak.  A message may have been routed by an
\* m_GroupID that is changing at that moment.
FoundByContents ==
    \A t \in Threads :
        /\ At(t, "lock") /\ me[t].job = "release"
             => IF sess[me[t].slot].group = Auth THEN Conn(t) \in nonUser
                ELSE echoUser[Conn(t)] # None
        /\ At(t, "recv") /\ me[t].group = Echo /\ Head(ring[me[t].slot]).type = "echo"
             => echoUser[Conn(t)] # None

\* What a client sends after it got its login response is handled by CEcho,
\* though RecvIOProc reads m_GroupID without a lock.
WelcomedToEcho ==
    \A t \in Threads :
        At(t, "recv") /\ Head(ring[me[t].slot]).late => me[t].group = Echo

\* GroupMoveProc does not look at the session ID again: the slot is still the
\* session that was to be moved, and not released.
Moving(t) == me[t].job = "move" /\ me[t].pc \in {"lock", "set", "user"}

MoveFindsSession ==
    /\ \A p \in port : p.kind = "move" => sess[p.slot].conn = p.conn /\ sess[p.slot].rel = 0
    /\ \A t \in Workers : Moving(t) => Conn(t) = me[t].conn /\ sess[me[t].slot].rel = 0

\* A CUser that is allocated is on its way to CEcho or in its map; each login
\* request beyond the first that a client gets in before it was moved may lose
\* one, as insert finds the key taken and nobody keeps the object.
UsersAccounted ==
    LET carried == {p.user : p \in {q \in port : q.kind = "move"}}
                   \cup {me[t].user : t \in {w \in Workers : Moving(w)}}
        lost == inUse \ (carried \cup {echoUser[c] : c \in Conns})
        again == {c \in Conns : logins[c] > 1}
    IN  Cardinality(lost) <= MapThenSumSet(LAMBDA c : logins[c] - 1, again)

\* A connection whose peer has closed leaves its group: no group lock is kept
\* or waited for by its owner, and no reference is lost on the way between the
\* groups.
LeavesWhenGone == \A c \in Conns : c \in gone ~> c \in left
=============================================================================
