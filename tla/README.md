# LockFree-NetworkLibrary in TLA+

Models, model-checking runs and proofs for the IOCP network library of this
repository (`network_library`, `game_library`, `common_files`) and the servers
built on it. Line numbers of every definition are in `PROJECT.json` (`map`).

## 1. The system

| Part | State | Operations | Talks to |
|---|---|---|---|
| `CSession` / `CNetServer` session protocol | `m_SessionID`, `m_RefCnt`, `m_RelFlag`, `m_DCFlag` of each slot; index stack; `m_CurSessionCnt` | `SessionInvalid`, `Release`, `ReleaseProc`, `Disconnect`, `AcceptThread`, `CSession::Init`, `Stop` | all threads, through the counters; completion port (`en_RELEASE` packets) |
| Send path | `m_SendQ`, `m_SendFlag`, `m_SendArray`, `m_SendMsgCnt`, `m_SendOverlapped` | `SendPacket`, `SendPost`, `SendIOProc`, `SendThread`, `SendPacketAll` | contents, workers, kernel |
| Receive path | `m_RecvQ` (ring buffer), `m_RecvOverlapped` | `RecvPost`, `RecvIOProc`, `Encoding`, `Decoding` | kernel, `OnRecv` |
| `CLanServer`, `CLanClient` | as above; the client owns a single session and reconnects | the same skeleton without encoding; `ReConnect` | monitoring |
| `CGameLibrary` | as `CNetServer`, and `m_GroupID`, one lock per group | `GroupMove`, `GroupMoveProc`, `FrameThread`, `FrameProc` | groups (`OnIUserMove`, `OnUpdate`, ...) |
| `LFQueueMul`, `LFQueue`, `LFStack` | tagged head and tail pointers, shared node pool | `Enqueue`, `Dequeue`, `Push`, `Pop` | node pool |
| `CMemoryPool`, `CMPoolTLS`, `CMessage` | free lists, buckets of each thread, `m_iRefCnt` | `Alloc`, `Free`, `AddRef` | every thread |
| Chat servers (three versions) | user and non-user maps, sectors, job queue or locks | login, sector move, chat, heartbeat, time-outs, shutdown | network library, Redis |
| Login, monitoring and game servers | user maps; agents and records; groups | login, tokens; data update, DB writes; echo | Redis, MySQL, network library |

What is hard: nothing on the session path takes a lock. Any number of workers,
content threads, `AcceptThread` and `SendThread` reach a slot at the same time
and the slot is used again for the next connection. A completion may come while
another thread disconnects; a sender may be between any two of its steps while
the owner of the send flag gives up. `hazards` in `PROJECT.json` lists every
place of this kind we found, and the properties that watch it.

What makes each part correct:

- session protocol: nobody works on a slot released or given away under it, a
  connection is released exactly once, an idle slot comes back;
- send path: one `WSASend` at a time, every message sent once, in order, its
  memory returned once, no wake-up lost;
- receive path: the bytes framed are the bytes received; a disconnected session
  ends;
- queues, stack, pools: linearizable, no node in two places;
- groups: a user is handled by the group it is in, messages in order, no
  deadlock between group locks;
- contents: a session is in one map at a time, joins before it receives, leaves
  once; broadcasts reach each user once; lock orders have no cycle.

## 2. The models

### SessionLife

The abstract promise for one slot: `Open`, `Publish`, `Enter`/`Leave` of users,
`Close` only without users, `Recycle`. No counter, flag or thread.

### SessionRef

The protocol that keeps this promise. `sessionID`, `refCnt` and `relFlag` are
the fields of `CSession`; `ref[r]` is how far each reference has come: counted
(`inc`), accepted (`ok`) or not (`fail`), given back and about to run the CAS
(`try`). A reference stands for a call of `SendPacket`, `Disconnect`, `FindIP`,
a posted receive or a pending send: the protocol is the same for all of them.
`Acquire`, `Validate`, `Drop` and `Release` are the steps of `SessionInvalid`
and `Release`; `Fork` is the second reference of `RecvPost` and `SendPost`.
`AcceptThread` is `Pop`, `InitName`, `InitCount`, `InitOpen`, `Join`: the writes
of `CSession::Init` that other threads can see, in the order of the code. When
`CreateIoCompletionPort` fails (`RegisterFails`) `AcceptThread` ends with its
reference kept, `dead`, and the slot is lost.
`ReleaseProc` is `ReleaseLeave` and `ReleasePush`. `Known` says which IDs a
caller may hold: those handed to `OnClientJoin`, and with `ScanTable` also those
read from `m_SessionTable` by `SendThread`, `SendPacketAll` or `Stop`.

A connection number stands for `(index << 48) | m_AllocID`; as the number grows
with each connection an ID is never used twice (48 bits of `m_AllocID`).
Assigning the table is the only thing left out: one slot, because slots share
nothing but the index stack.

### SendPath

One session, from the end of its `AcceptThread` turn to the end of
`ReleaseProc`, in both values of `m_SendThFL` (a variable that is chosen in
`Init` and never changes). `pc[t]` is where thread `t` is:

| pc | code |
|---|---|
| `check` | after the increment of `SessionInvalid` |
| `room`, `link`, `count` | `SendPacket`: limit check, `AddRef` and the linking CAS of `Enqueue`, `m_size++` |
| `scan` | `SendThread`: look at flag and size |
| `post`, `flag`, `size`, `unflag`, `again`, `deq`, `wsa` | `SendPost`, in the order of the code |
| `dc`, `dec`, `cas`, `drop` | `Disconnect`, decrement, 128-bit CAS, the sender's own `CMessage::Free` |
| `free`, `clear` | `SendIOProc` |
| `array`, `drain` | `ReleaseProc` |

`qSize` is kept apart from `sendQ`, as `m_size` follows the linking CAS and can
be below 0 for a moment. `msgRef` counts the references of each message.
`linked` and `posted` are histories. Left out, with the reasons in the module's
head: the receive side beyond its reference, and references that are taken and
given back while the thread holds another one. Encoding does not change what
these properties tell apart.

### NetServer

The server over its whole table: `acc` is `AcceptThread`, whose early exits
(`setsockopt`, `CreateIoCompletionPort`) end it with `m_CurSessionCnt` raised,
and which runs through `CSession::Init` in the steps `InitName`, `InitCount`,
`InitOpen`, as `Stop` reads IDs out of the table meanwhile;
`recv` is the receive of each slot, `relMsgs` its `en_RELEASE` packets; `pc` and
`at` say where each worker and each caller of `Disconnect` is. What the two
models above take apart is one step here: `SessionInvalid`, and the decrement with
its CAS. So this module finds what the slots, the counter,
the stack and the pending receive do to each other, and says nothing new about
the reference count itself. `ScanInit` says whether `Stop` may come upon a slot
in the middle of its first `Init`, when `m_RelFlag` does not keep it out
(`FirstInit`, finding 1); the runs and the proofs exclude this, and section 4
says what fails with it. In a later `Init` the flag is up, and `Stop` may come at
any time. `OnRecv` and the framing loop are `RecvHandled`,
which may end in the `Disconnect` of a packet with a wrong code or length; the
`__debugbreak` of a wrong checksum (`CNetServer.cpp:929-933`) is left out.
Sends are left to `SendPath`:
a pending send keeps a reference as a pending receive does. `PeerSends`,
`PeerCloses` and `RecvEnds` are the peer and the kernel, from how `RecvIOProc`
uses them.

### FifoQueue and LFQueue

`FifoQueue` is what `LFQueueMul` promises: a sequence for each queue, `Put` and
`Get` in one step. `LFQueue` is the code, a step holding one access of shared
memory: the loop that moves `m_pTail` up (`LoopTail`, `LoopNext`, `LoopHelp`,
in both calls), the two CAS of `Enqueue` (`Link`, `Swing`) with the write that
opens the new node between them (`Open`), and the three reads and the CAS of
`Dequeue` (`ReadHead`, `ReadFirst`, `Check`, `Take`). Three steps hold more than
one access, where no thread can tell: `CallEnqueue` takes a node and writes it
before anybody can link to it (until its `_next` is written it looks as it did in
the pool); `Check` reads `_data` after its second look at `m_pHead`, and what it
read is thrown away by the CAS of `Take` if `m_pHead` moved in between; `Take`
frees the old dummy node with its CAS, as nobody else can free it. All queues share one pool,
so a node that a thread still looks at may be freed, allocated and linked again,
in the same queue or in another. A pointer carries a tag that is new with every
write; `headFresh` and `tailFresh` are the threads whose copy of a tagged word
is still the word in memory, which is all a CAS can tell. That no tag of 17 bits
comes round between a read and its CAS is an assumption. `Contents` maps the
nodes to the sequence: what follows the dummy node, from the linking CAS on.

### Groups

`CGameLibrary` with the two groups of the echo game. `me[t]` says where a thread
is and for which job: `accept`, `recv` (`RecvIOProc`), `move`
(`GroupMoveProc`), `release`, `frame`, `close`. `lock[g]` is `m_GroupLock`: one
exclusive owner, or shared ones for a group attached as shared. `RecvIOProc`
reads `m_GroupID` without a lock (`NextMessage`), then takes the lock of the
group it read (`RecvLock`); the group may have changed in between. `MoveLock`,
`SetGroup`, `OnIUserMove` are the steps of `GroupMoveProc` under the lock of the
new group. `port` holds the packets of the completion port, which workers take
in any order. `nonUser`, `echoUser` and `inUse` are the maps of `CAuth` and
`CEcho` and the `CUser` objects. Taking a reference, and giving it back, is one
step each, as in `NetServer`; `CSession::Init` is `Accept` (with the new ID),
`InitCount` and `InitOpen`, and `ScanInit` says whether `Closer`, which stands for
`SendThread` and the caller of `Stop`, may enter a first `Init`. A receive is
posted in two steps: `Post` looks at `m_DCFlag`, `PostRecv` is the `WSARecv`, so a
`Disconnect` may come in between. The error exits of `AcceptThread` are left out.

### ChatSectors

The chat server whose workers handle messages themselves. The sector locks are
SRWLOCKs: `excl[p]` and `shared[p]`. A move (`SectorMove`, `Lock1`, `Lock2`,
`Move`, `Unlock`, `Moved`) takes two of them in the order of
`AcquireSectorExclusiveLock`; a chat message takes up to nine, in the order of
`SectorFind` (`LockNext`), then sends and releases sector by sector (`SendOne`).
`Offset` is that order, by rows; `Around(p, k)` is the `k`-th sector, in the grid
or not, and `SectorRangeCheck` decides. The critical sections of the two map
locks are single steps. `there` and `got` record for a broadcast who was in the
sectors when the last lock was taken, and how often each was sent to.

### Login

How a client gets in, in the two builds with a job queue; `auth` is the build.
`Join`, `Receive`, `Leave` are the calls of the network library, which put jobs
into `m_pUpdateJobQ`; `JoinProc`, `LoginProc`, `OtherProc`, `DeleteProc`,
`AuthComProc` are `UpdateThread`. With Redis, `AuthRequestJob` hands the message
to `AuthThread` in two steps (queue, then `SetEvent`), which sends `get`;
`Redis` answers, `Callback` runs on the thread of the Redis client and puts a
job back, then sends `del`. A session may send any number of logins. The
`__debugbreak` of `LoginProc` (`chatserver/ChatServer.cpp:442-444`), which a second
login of a user meets in the build without Redis, is `Broken`: `UpdateThread` does
nothing more. `UserMax` and `AuthMax` are `m_UserMaxCnt` of the two builds.
`SetRedisToken` and `LoginAnswer` are the login
server. `ref` is `m_RefCnt` of each message. All clients belong to one account,
as accounts share nothing.

Each of the modules holds variants of single definitions with a plausible slip,
under a heading of their own or (in `Login`) before the definition they vary. No
specification uses them; they record which slip each property notices
(`mutants` in `PROJECT.json`).

## 3. The runs

| Run | Instance | Shows |
|---|---|---|
| `session_ref` | 3 references and `AcceptThread`, 2 connections, fairness | `TypeOK`, `RefCntExact`, `UsersSeeTheirSession`, `LastDropReleases`, `ReleasedOnce`, `SlotComesBack`, and `LifeSpec`: `SessionRef` implements `SessionLife` |
| `session_ref_scan` | the same with `ScanTable` | **violated**: `ReleasedOnce` (finding 1) |
| `send_path` | 2 senders, 3 messages, 1 disconnecting thread, `SendThread`, 2 workers, batch 2, limit 1, both modes | `TypeOK`, `OneSendPending`, `SentInOrder`, `MessageCount`, `NothingLeftBehind`, `NoLostWakeup`, `QueueBound` |
| `send_path_live` | 2 senders, 2 messages, batch 1, limit 2, both modes, fairness | `EverySent`, `MessagesComeBack` |
| `net_server` | 2 slots, 3 connections, 2 workers, 1 call of `Disconnect`, `Stop` | `TypeOK`, `PopFindsIndex`, `RecvInOrder`, `RecvWhileOpen`, `StopLeavesNothing` |
| `net_server_stop` | 1 slot, 2 connections, 2 calls of `Disconnect`, fairness, peers that close sooner or later | `StopEnds` |
| `net_server_cancel` | 1 slot, 1 connection, 2 calls of `Disconnect`, fairness, peers that need not close | **violated**: `DisconnectEnds` (finding 2) |
| `lf_queue` | 1 queue, 3 threads, 4 nodes, 3 calls of `Enqueue`, 2 of `Dequeue` | `TypeOK`; `FifoSpec`: `LFQueue` implements `FifoQueue`; `EmptyIsReal` |
| `lf_queue_shared` | 2 queues, 2 threads, 5 nodes | **violated**: `QuietTail` (finding 3) |
| `groups` | 1 slot, 2 connections, 2 workers, 2 messages, 1 outside `Disconnect`, 1 frame, 4 users, fairness | `TypeOK`, `FoundByContents`, `WelcomedToEcho`, `MoveFindsSession`, `UsersAccounted`, `LeavesWhenGone` |
| `chat_sectors` | 3x2 sectors, 2 workers, 2 sessions, 1 user at most | `TypeOK`, `LocksInOrder`, `BroadcastOnce`, `ListsHoldUsers` |
| `chat_login` | 2 sessions, 1 token, 2 messages, both builds, fairness | `TypeOK`, `SessionFound`, `MessageHeld`, `LoginAnswered` |

Bounds. Three references beside `AcceptThread`'s are enough for a user, a late
caller with an old ID and a releaser to overlap; two connections are what a
stale ID needs; the theorems of section 5 remove both bounds, and those of `send_path`,
`net_server`, `lf_queue`, `chat_sectors`, `chat_login` and of the safety properties of
`groups` too. In `send_path` two
senders and three messages let one sender link while the other owns the flag,
and a message arrive behind a full batch; the limit of 1 lets two senders pass it
together; two workers let a completion and a release, or a completion and the
end of the receive, overlap. With the batch of 1 of `send_path_live` the
completion worker has to go on with the rest of the queue. `CHECK_DEADLOCK` is
off as the system may stop: all messages sent and all calls made. Symmetry is
used in the safety runs of `SendPath` and `ChatSectors` only.

In
`net_server` two slots are filled and the third connection is either refused or
takes an index that came back; one slot is enough for the two liveness questions,
and the second call of `Disconnect` shows that repeating it does not help.

In `lf_queue` four nodes make every node come back while a third thread holds a
snapshot of it; two queues of one thread each are enough for finding 3, whose
trace is 28 calls and steps long at most. In `groups` two connections use one
slot one after the other, so whatever comes too late meets the next connection,
and two messages let a login and an echo, or two logins, come in one receive or
two. In `chat_sectors` three columns give a sector whose neighbours are not
neighbours of each other, and two rows make rows matter; two workers are what a
cycle of two locks needs, and the theorem removes all of these bounds; with a
limit of one user and two sessions the limit is met and overshot. In
`chat_login` two sessions and two messages give a login whose session leaves
before Redis answers, two logins of one session, and two sessions with one token.
A limit of one user is met in the build with Redis; without Redis the limit is two,
so that a second login comes through to the `__debugbreak` (it is not met then, but
a login of the wrong size takes the same branch, and the theorem covers every
limit). `ScanInit` is `FALSE` in `net_server`, `net_server_stop`,
`net_server_cancel` and `groups`.

Fairness. A thread that has begun a call goes on (weak fairness on its steps):
no call of this path waits for another. A worker takes every packet of the
completion port. `send_path_live` also assumes that a send that was accepted
completes, because the peer reads on or the connection fails; the library does
not guarantee this, TCP does. `net_server_stop` assumes that every peer closes
sooner or later, and `net_server_cancel` shows why it has to. In `groups` each thread goes on
when it can and the kernel completes the receive of a closed connection; weak
fairness is enough as the calls are bounded, so nobody takes a group lock from a
waiting thread for ever (the code relies on SRWLOCK for that). In
`chat_login` the threads of the server run on and Redis answers; messages,
logins and hang-ups need not come. `LFQueue` and `ChatSectors` have safety
properties only. Nothing else is
assumed of the contents, of the peer's messages or of the end of the receive side; `SlotComesBack` is conditional on
the references running out, and excepts the slot that `AcceptThread` gave up on an
error; `MessagesComeBack` is conditional on the end of the receive side.

## 4. Findings

1. **First use of a slot.** `CSession::Init` publishes the new ID before it
   raises `m_RefCnt`. What keeps others out meanwhile is `m_RelFlag = 1` of the
   last release, but the constructor starts it at 0. `SendThread` (on in most of
   the shipped configurations), `SendPacketAll` and `Stop` read IDs from the
   table, so one of them can pass `SessionInvalid`, drop back to 0 and release
   the session that `AcceptThread` is opening; it is released again later. The
   README (line 59) promises a return without a double release. Starting
   `m_RelFlag` at 1 removes it.

   The extra release runs `ReleaseProc` under an open session: one `OnClientLeave`
   too many, its index pushed while it is in use, `m_CurSessionCnt` lowered twice.
   With `ScanInit = TRUE` TLC shows that in the first use of a slot these do not
   hold: of `NetServer` `TypeOK` (`m_CurSessionCnt` falls below 0),
   `PopFindsIndex`, `RecvWhileOpen`, `StopLeavesNothing` and `StopEnds`
   (`RecvInOrder` still does on the instance); of `Groups` `FoundByContents`
   (`OnClientLeave` comes before `OnClientJoin`, `CAuth.cpp:41`) and
   `MoveFindsSession`, and the model then comes to steps that have no meaning, a
   message taken out of a ring `Init` has cleared. So these properties are stated,
   checked and proved for servers that `SendThread` and `Stop` do not catch inside
   a slot's first `Init`.
2. **A cancel that comes too early.** `RecvIOProc` reads `m_DCFlag` and then
   posts the next receive; `AcceptThread` posts the first one without reading it.
   A `Disconnect` in between sets the flag and has nothing to cancel. Every later
   `Disconnect`, of a heartbeat check or of `Stop`, returns at the flag. Until its
   peer closes, the connection keeps its slot, and `Stop` spins. `StopEnds` holds
   only with peers that close. Reading the flag once more after `WSARecv`, and
   cancelling then, removes it.

3. **A tail led into another queue.** An enqueuer stops between linking its node
   and moving `m_pTail`. The node before becomes the dummy, is dequeued, freed to
   the pool that all `LFQueueMul` of a type share, and linked in another queue.
   The loop that moves `m_pTail` up does not look at `_Qid`, so it walks into the
   other queue's list; the 128-bit CAS, which does, fails from then on, and
   `Enqueue` of the first queue never returns. As every session's `m_SendQ` takes
   its nodes from one pool, the queues of two clients are enough. Comparing
   `_Qid` in the first loop too removes it. What is in the queues is not touched:
   `ImplementsFifo` of section 5 holds for queues that share a pool, too.

Not counted as findings of a run, but seen while modelling:

- `CLanServer::SendPost` gathers up to `WSABUFSIZE` = 200 messages (line 668) into
  `m_SendArray` of `df_SERVER_WSABUFSIZE` = 100 entries (`CSession.h`).
- When `AcceptThread` ends on an error, `m_CurSessionCnt` stays raised and `Stop`
  never sees 0 (`StopEnds` makes the exception explicit).
- Within one queue a stale snapshot may link a node while `m_pTail` lags behind;
  `Enqueue`'s second loop (147-165) does not move it and spins until another call
  enters the queue and does.
- `docs/Code_Intent.md:92` has `m_GroupID` change after `OnIUserMove`; the code
  changes it before, under the lock. The documented order breaks
  `WelcomedToEcho`: a client that answers its login response at once would be
  heard by `CAuth` and cut off.
- Two logins of one client before its move allocate two `CUser`s; the second
  insert into `m_EchoUser` does nothing and that object is never freed.
  `UsersAccounted` allows for exactly this.
- A token is not for one use, as `docs/Code_Intent.md:111` has it: `get` and `del`
  are two commands, so two logins may both pass before the first `del`, and a late
  `del` removes the token of the next login. A wrong token deletes the right one.
- `AuthComProc` returns without `CMessage::Free` for a login of the wrong size
  (lines 793-808); `MessageHeld` leaves that message out.
- In the lock version of the chat server `m_NonUserMap` is searched under
  `m_UserMapLock` alone (605, 716, 802) while others insert into it, and
  `m_UserMap.size()` is read without a lock (520), so logins overshoot the limit,
  as they do in the Redis version.
- A second login of one client stops the server at a `__debugbreak`: in the job queue
  version without Redis (`chatserver/ChatServer.cpp:442-444`), where `SessionFound`
  shows that it takes exactly that and `LoginAnswered` that no login is answered from
  then on only because of it, and in the lock version
  (`chatserver_multi_ver/ChatServer.cpp:564`).
- The comment on `SendPacket_SectorOne` says that it sends to the sector except
  `pUser` (`chatserver_multi_ver/ChatServer.cpp:399`). The lock version and the Redis
  version (323) do not look at `pUser`, and the job queue version, which does, is
  called with `nullptr` (300): in all three the sender of a chat message gets it, too.
  `BroadcastOnce` states what the code does, one copy for everybody around.
- The comment that index 0 of `around` is the sector itself
  (`chatserver_multi_ver/ChatServer.cpp:414`) is out of date: `SectorFind` goes by
  rows, so index 0 is the neighbour above to the left, where there is one. The lock
  order of a broadcast needs the rows (`LocksInOrder`).
- `StopServer` of the Redis version deletes its queues while a callback of the
  Redis client may still be to come.
- `CLanClient::Disconnect` raises `s_DCFlag`, then lowers the count without
  `Release` (79-82). When the last completion gives its reference back between the
  two, the count reaches 0 in `Disconnect` and nobody releases: `s_RelFlag` stays 0,
  `ReConnect` refuses for ever and `Destroy` (156) spins. `SendPacket` of the client
  holds no reference, so a send that passed the look at `s_DCFlag` may raise the count
  of a released session from 0 and release it again.
- The ring buffer that is filled to the last byte reads as empty.

## 5. The proofs

`SessionRefProofs` proves, for every finite set of references and any number of
connections, and assuming only that no thread takes IDs out of the table
(`ScanTable = FALSE`, without which finding 1 applies):

- `TypeCorrect`, `CountIsExact`, `NoUseAfterRelease`, `NoOrphan`,
  `NoDoubleRelease`: the invariants of `session_ref`;
- `ImplementsLife`: `Spec => LifeSpec`.

The invariants are not inductive alone. `IInv` adds

- `ClosedUnlessOpen`: while the slot is on the stack, in `Init` or in
  `ReleaseProc`, `m_RelFlag` is 1, unless nobody knows the slot yet. This is what
  turns late callers away; finding 1 is the case where the second half fails;
- `UnknownUnused`: before the first `OnClientJoin` only `AcceptThread` works on
  the slot;
- `IdsInOrder` and `NotYetLeft`: the ID being opened is new, so a caller that
  holds an older one fails the comparison, and `OnClientLeave` has not run for it.

There is one lemma for each action, `NextIInv` puts them together and
`Invariance` lifts the result to `Spec`. `HoldingGrows`, `HoldingShrinks` and
`ZeroMeansNobody` carry the counting: `m_RefCnt` is the cardinality of the set of
holders, so 0 means that nobody holds the slot, which is why the CAS may close it.

`SendPathProofs` proves all seven invariants of `send_path` for every finite set of
senders, disconnecting threads and workers, every set of messages, every batch and
every limit, in both modes: `TypesHold` (`TypeOK`), `OnePending` (`OneSendPending`),
`InOrder` (`SentInOrder`), `CountsHold` (`MessageCount`), `NothingLeft`
(`NothingLeftBehind`), `NoneForgotten` (`NoLostWakeup`), `BoundHolds` (`QueueBound`).
It assumes what the module assumes of its constants (`ThreadsFinite`,
`ThreadsApart`, `NoMsgApart`, `SomeSender`, `BoundsNat`). Its `IInv` adds

- `RefCounted`: `m_RefCnt` is the number of threads inside a call that counts, one
  for the pending send and one for the receive side. So it is above 0 wherever
  somebody works, which gives
- `Released`: once `m_RelFlag` is up no send is pending, the threads that still hold
  a reference are about to be turned away or to give it back, and one `ReleaseProc`
  runs, or has run, or waits in the completion port;
- `FlagOwned` and `ArrayOwned`: `m_SendFlag` has one owner, a thread or the pending
  send, and `m_SendArray` is empty unless sent or about to be freed. In the mode 1
  the plain store of `SendThread` needs that nobody else raises the flag;
- `Roles`: which threads come to which place;
- `SizeCounts`: `m_size` is behind the queue by the threads between the linking CAS
  and the increment; `RoomLeft`: whoever is about to link has found room for it.
  `FewSenders` bounds how many can;
- `OwnMessages`, `OnePlace`, `MessagesHeld`: a message is in one of queue, array and
  hands of the filling thread, in none before it is linked, and its count is the sum
  over its places.

`NoLostWakeup` is kept by `SizeCounts`: a second look that finds `m_size` = 0 beside
a queued message has a thread at the increment, which will look. Each part of `IInv`
has a step lemma with one step for each action (`RefStep`, `RolesStep`, `FlagStep`,
`ReleasedStep`, `SizeStep`, `WakeStep`, `OrderStep`, `PlaceStep`, `HeldStep`,
`TypeStep`), and `IInvStep` puts them together.

`ChatSectorsProofs` proves, for every size of the grid and every set of workers
and sessions (assumptions: `Sizes`, `NoneApart`):

- `TypeCorrect` and `ListsTrue` (`ListsHoldUsers`);
- `LockOrder` (`LocksInOrder`): whoever waits holds only locks before the one it
  waits for. `Before` is a strict order by rows, so waiting workers cannot form a
  cycle;
- `SentOnce` (`BroadcastOnce`): each user around is sent to exactly once, the sender
  among them.

Its invariant `IInv` adds, by name:

- `LocksHeld`: which locks a worker holds follows from where it is, e.g. those of
  `Around(from, 1)` to `Around(from, k - 1)` while it acquires for a broadcast;
- `LocksKept`: a lock has one exclusive owner or shared ones;
- `OneWorker`: a session is served by one worker at a time, the one that made it
  busy;
- `InOneMap`, `LocalsTrue`: a session is in one map; what a worker copied from a
  user (its sector) is still true;
- `Listed`: where each user is listed, at each step of its move or leave;
- `SentSoFar`: during a broadcast the users of the sectors still locked have not
  been sent to, the others once; nobody can enter or leave a sector that is still
  locked.

`LockOrder` needs that the `k`-th sector of a broadcast lies before the `k+1`-th
(`AroundInOrder`, a fact about `Offset` and the grid) and that
`AcquireSectorExclusiveLock` takes the earlier of its two first
(`FirstBeforeSecond`). The step lemmas are split by the part of `IInv` they keep:
`TypeStep`, `SessionStep`, `LockStep`, `ListedStep`, `SentStep`.

`NetServerProofs` proves the invariants of `net_server` for every table of at least
one slot, any number of connections and calls of `Disconnect`, and finite sets of
workers and of threads that disconnect (assumptions: `Bounds`, `ThreadsApart`,
`ThreadsFinite`, `ScanBoolean`). Each theorem has the hypothesis `NoScan`
(`ScanInit = FALSE`): `Stop` does not enter a slot's first `Init`. Finding 1 is what
happens otherwise, and it refutes all but one of them:

- `Types` (`TypeOK`), `ReceivesInOrder` (`RecvInOrder`) and `ReceivesWhileOpen`
  (`RecvWhileOpen`);
- `Pops` (`PopFindsIndex`): `m_CurSessionCnt` at most `m_MaxSession` means that the
  stack has an index;
- `StopIsClean` (`StopLeavesNothing`): when `Stop` has seen 0 nothing is left of any
  session.

Its `IInv` adds

- `Roles`: where each kind of thread may be, and that it has a slot there;
- `RefCounted`: `m_RefCnt` is the number of threads that hold the session, and one
  each for `AcceptThread` and the receive. When `AcceptThread` has ended on an error
  its reference stays, so the equation has a second case;
- `NoneHolds`, `OneRelease`, `FreeSlots`: a session that is not live has no
  references; its release is one packet or one worker; an index is on the stack once
  and only when nothing is left of its session;
- `CountTrue`: `m_CurSessionCnt` is the number of indices off the stack, of workers
  between `Push` and the decrement, and one for `AcceptThread` before `Pop` (or, for
  ever, for one that ended on an error). With a stack without repetition this is
  `PopFindsIndex`: the order push, then count, in `ReleaseProc` is what makes the
  count an upper bound. And a count of 0 means that every index is back, that no
  worker is in `ReleaseProc` and that `AcceptThread` has no connection: `Stopped`
  keeps that once the completion port is closed;
- `ConnHasSlot`, `OneReceive`, `ReceiveOpen`: a connection has one slot; the receive
  of a session is with the kernel or with one worker, between `OnClientJoin` and
  `OnClientLeave`.

`GroupsProofs` proves four of the safety invariants of `groups` for every session
table, every finite set of workers, any number of connections, messages, calls of
`Disconnect`, frames and users (assumptions: `Bounds`, `ThreadsApart`,
`ThreadsFinite`, `ScanBoolean`, `NoneApart`), each with the hypothesis `NoScan`: no
`Closer` enters a slot's first `Init` (finding 1). They are `Types` (`TypeOK`), `ContentsFind`
(`FoundByContents`), `WelcomeHolds` (`WelcomedToEcho`), `MoveSafe`
(`MoveFindsSession`). Its `IInv` adds

- `Roles`, `RefCounted`, `Stages`, `ConnsApart`, `OneReceive`: as above, where a move
  packet holds a reference too; a slot is free, live, or released by one packet or
  one thread, and without references unless live;
- `LocksKept`: a thread in `OnRecv` of `CEcho` has its lock shared, a thread that
  moves a session has it exclusively;
- `InitAlone`: nobody but `AcceptThread` works on a slot inside `Init`. The parts above
  take such a slot for counted and open already (`Refs`, `Rels`), so only its steps see
  the difference;
- `Grouped`: a session is in the map of its group, or a move packet or the mover is
  on its way there, or `AcceptThread` is about to put it there, and then nobody but
  it and callers of `Disconnect` hold it, and there is no move;
- `MovesTrue`: a move is of the session that is in the slot now;
- `Routed`: who has read `Echo` as the group of a session finds `Echo` later on;
  messages sent after the login response are for a session in `Echo`;
- `LoginsCome`, `UserOnce`: no more logins than messages; a `CUser` is in one place,
  so the packet of a new move is a new one.

`FoundByContents` follows in two cases. In `OnClientLeave` the references are gone, so
no packet and no mover has the session, and `Grouped` leaves its map. In `OnRecv` of
`CEcho` the shared lock excludes the mover between the write of `m_GroupID` and
`OnIUserMove`; this is where the order of `GroupMoveProc` matters. `SmallestUser`
gives the `CHOOSE` that stands for the pool of `CUser`s a value. Each action has a
lemma that says what it does to each thread, slot and map, each part of `IInv` a step
lemma (`TypedStep`, `RolesStep`, `RefStep`, `StagesStep`, `ConnsStep`, `ReceiveStep`,
`LocksStep`, `GroupedStep`, `MovesTrueStep`, `RoutedStep`, `LoginsStep`, `UsersStep`).

`GroupsUsersProofs` goes on from there, under the same assumptions and `NoScan`, to the fifth,
`NoUserLost` (`UsersAccounted`): a `CUser` that is neither in a move packet, nor with
the thread that moves it, nor in `m_EchoUser` is one of the logins beyond the first of
a connection. The state does not tell whose a lost object was, so the invariant
(`Accounted`) says that a function from users to connections exists, with

- `Named`: wherever the connection of a user can be seen (packet, mover, `m_EchoUser`),
  it is the function's;
- `Counted`: a connection has no more users than logins, and one that has lost a user
  has another, which `CEcho` keeps, or has freed when the connection left.

`LoginKeeps` extends the function by the new user, `MovedKeeps` is where an object can
be lost: only when `m_EchoUser` has one already. `QuietKeeps` deals with the steps that
leave all of this alone. The sum over the connections in `UsersAccounted` is a fold;
`SumIsPairs` gives its value for every finite set, as the number of pairs of a
connection and a login beyond its first, by a smallest set for which it would be
otherwise. `SharedOut` then counts the lost users against those pairs. TLC checked
`Accounted` as an invariant on two instances first.

`LFQueueProofs` proves everything `lf_queue` checks, for any number of queues over one
pool, any threads, nodes and calls (assumptions: `NotNodes`, `NotQueue`, `Calls`, and
`EnoughNodes`: finitely many nodes, one at least for the dummy of each queue): `Types`
(`TypeOK`), `EmptyTrue` (`EmptyIsReal`) and `ImplementsFifo` (`Spec => FifoSpec`). Its
`IInv` says that chains of nodes exist, one for each queue (`Shaped`), with

- `Chained`: the chain starts at the dummy node `m_pHead`, follows `_next`, has no node
  twice, only nodes with the `_Qid` of its queue, and ends at one whose `_next` is null,
  or not open yet. And (`IsEnd`) a node anywhere whose `_next` is null and whose `_Qid`
  is a queue is the last of that queue's chain. This is why the 128-bit CAS on `_next`
  and `_Qid` is enough: whatever old pointer a thread brings to it, it succeeds at the
  end of the right queue only;
- `Brought`: a node that is not linked yet belongs to one thread, in no chain; one that
  is linked but not open is the last of its chain, with `_next` still 0xFF..FF, so
  nobody can link behind it;
- `PoolApart`: a node of the pool is there once and in no chain or hand;

and of the threads

- `Places`: what their local variables hold where they are used;
- `Snapshots`: whose copy of `m_pHead` is still the word in memory has the dummy node,
  and once read its `_next` and the value behind it. So the value that `Dequeue` read
  before its CAS is the right one, though the node may be freed under a slower thread.

`m_pTail` does not occur in it beyond its type: where it points decides how soon a node
is linked, not where. That is also why finding 3 stops `Enqueue` without harming what is
queued. `LinkKeeps` and `TakeKeeps` make a chain longer and shorter; `LinkAppends` and
`TakeGets` say the same of `Contents`. `Contents` walks recursively; `WalkFollows` shows
that the walk is the chain, with the smallest place where they would differ
(`SmallestNat` stands for induction). `QuietKeeps` takes all the steps that write no
node. What the proof does not cover is the tag: that none comes round remains an
assumption of the model.

`LoginProofs` proves `Types` (`TypeOK`), `EveryJobFindsItsSession` (`SessionFound`)
and `EveryReferenceIsHeld` (`MessageHeld`) for any number of connections, tokens,
messages and users, any limits and any number of logins of a session, in both builds
(assumptions: `Bounds`, `NoneIsNoToken`). Its `IInv` adds

- `JobOrder`: of a session the job of `OnClientJoin` is first in the queue, that of
  `OnClientLeave` last, each at most once;
- `Found`: how the maps, the queue and the connection go together: a session with a
  job in the queue is in one of the maps or has its join in the queue, and one in a
  map that has left has its leave in the queue. So `JoinProc` finds nobody and the
  others find their session, except an answer of Redis, whose session may be gone;
- `LoginsTold`: without Redis nothing is asked; a user has logged in before with a
  message of its own, and `Broken` comes from a login beside that one. So the
  `__debugbreak` needs a second login of a session that is a user;
- `OnceEach`: a message is at most once in each place;
- `MessagesKept`: `m_RefCnt` is the number of places a message is in (with its
  worker, in the queue, with `UpdateThread`, on its way to Redis and back), and one
  more for a login of the wrong size, which `AuthComProc` keeps (section 4).

For `NetServer`, `Groups` and `Login` TLC checked `IInv` itself on the instance of the
run, too.

Only model-checked:

- `SlotComesBack`, `EverySent`, `MessagesComeBack`, `StopEnds`, `LeavesWhenGone` and
  `LoginAnswered`: liveness under fairness is out of the prover's reach;
- the three violations, which are counterexamples of small instances.

Every other property of a run is a theorem. Where a proof needs induction over data
(the walk of `Contents`, the fold of `UsersAccounted`) it takes the smallest
counterexample instead, as the induction theorems of the library cannot be used here.

## 6. Not modelled

- `CLanServer`, `CLanClient`, `CMonitorClient`: the server repeats `CNetServer`
  statement by statement without encoding; the client has one session towards the
  monitoring server. Their own slips are listed in section 4.
- `LFQueue` (one consumer) and `LFStack`, `CMemoryPool`'s tags, `CMPoolTLS`: used
  at their promise.
- Packet framing, `Encoding`/`Decoding`, the ring buffer: sequential computations
  of one worker on bytes.
- Sectors of the job-queue chat servers (owned by `UpdateThread` alone), their
  time-outs (commented out in two of the three versions) and shutdown.
- The maps, database query and routing of the login server; the monitoring server;
  the group that prints statistics in the game server.
- Logging, configuration, profiling, crash dumps, database access: input and output
  without a protocol. `bench/` and `dummy/`: measuring programs.

Of about 49,000 lines that count as implementation two thirds are headers of
MySQL and cpp_redis copied into the servers' directories; what is written in this
repository is some 16,600 lines, much of it three near-copies of one server
skeleton and of one chat server. `map` covers the concurrent core of each kind
once.

What would come next: `LFStack` and `CMemoryPool` with small tags, which would turn the
assumption on tags of `LFQueue` into a bound on how long a thread may be held up; the
framing loop against "split the bytes into packets"; `CLanClient` with its
reconnection.

## 7. Running

    tlc -config SessionRef.cfg MCSessionRef
    tlc -config SendPath.cfg MCSendPath
    tlc -config NetServer.cfg MCNetServer
    tlc -config LFQueue.cfg MCLFQueue
    tlc -config Groups.cfg MCGroups
    tlc -config ChatSectors.cfg MCChatSectors
    tlc -config Login.cfg Login
    tlapm SessionRefProofs.tla
    tlapm SendPathProofs.tla
    tlapm ChatSectorsProofs.tla
    tlapm NetServerProofs.tla
    tlapm GroupsProofs.tla
    tlapm GroupsUsersProofs.tla
    tlapm LFQueueProofs.tla
    tlapm LoginProofs.tla
