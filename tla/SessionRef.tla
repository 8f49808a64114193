----------------------------- MODULE SessionRef -----------------------------
(***************************************************************************)
(* The reference protocol of one CSession slot of CNetServer: RefCnt,      *)
(* RelFlag and SessionID under SessionInvalid, Release, CSession::Init and *)
(* ReleaseProc.  What a reference is taken for (a send, a disconnect, a    *)
(* posted receive) does not matter here: NetServer says it.                *)
(*                                                                         *)
(* A reference goes "none" -> "inc" (counted, not yet validated) -> "ok"   *)
(* or "fail" -> "try" (given back, about to run the 128-bit CAS) -> "none".*)
(* AcceptThread's own reference Acc starts "popped" -> "named" ->          *)
(* "counted" -> "ok" instead, through CSession::Init; it ends "dead", never *)
(* given back, when AcceptThread ends on an error before OnClientJoin.     *)
(***************************************************************************)
EXTENDS Naturals, FiniteSets

CONSTANTS
    Refs,      \* the references threads and pending I/O can hold at a time
    Acc,       \* the reference AcceptThread holds from Init on
    MaxId,     \* bound: connections accepted into the slot
    ScanTable  \* a thread takes IDs out of m_SessionTable itself: SendThread
               \* (SEND_TH_FLAG = 1), SendPacketAll or Stop

ASSUME RefsFinite == IsFiniteSet(Refs)
ASSUME AccApart == Acc \notin Refs
ASSUME MaxIdNat == MaxId \in Nat
ASSUME ScanBoolean == ScanTable \in BOOLEAN

Tokens == Refs \cup {Acc}
Ids == 1..MaxId
NoId == 0          \* df_INVALID_SESSIONID

VARIABLES
    sessionID,  \* m_SessionID, as the number of the connection
    refCnt,     \* m_RefCnt
    relFlag,    \* m_RelFlag
    ref,        \* how far each reference has come
    want,       \* the ID each reference was asked for
    freeIdx,    \* how often the slot's index is on m_pSessionIdxStack
    relMsgs,    \* en_RELEASE packets of this slot in the completion port
    leaving,    \* workers between OnClientLeave and the Push of ReleaseProc
    joined,     \* IDs handed to OnClientJoin
    left        \* number of OnClientLeave calls for each ID

vars == <<sessionID, refCnt, relFlag, ref, want, freeIdx, relMsgs, leaving,
          joined, left>>
slotVars == <<freeIdx, relMsgs, leaving, left>>

RefStates == {"none", "inc", "ok", "fail", "try"}
AccStates == {"none", "popped", "named", "counted", "ok", "try", "dead"}

TypeOK ==
    /\ sessionID \in Ids \cup {NoId}
    /\ refCnt \in Nat
    /\ relFlag \in {0, 1}
    /\ ref \in [Tokens -> RefStates \cup AccStates]
    /\ want \in [Tokens -> Ids \cup {NoId}]
    /\ freeIdx \in Nat /\ relMsgs \in Nat /\ leaving \in Nat
    /\ joined \subseteq Ids
    /\ left \in [Ids -> Nat]

\* CSession::CSession and the Push of Mem_Init.
Init ==
    /\ sessionID = NoId
    /\ refCnt = 0
    /\ relFlag = 0
    /\ ref = [r \in Tokens |-> "none"]
    /\ want = [r \in Tokens |-> NoId]
    /\ freeIdx = 1
    /\ relMsgs = 0 /\ leaving = 0
    /\ joined = {}
    /\ left = [i \in Ids |-> 0]

-----------------------------------------------------------------------------
(* Slips one could make in this code.  No action uses them: each is put in  *)
(* the place of the action it is named after to see which property notices. *)

\* Init takes m_RelFlag back together with the new ID instead of last.
InitName_OpensFirst ==
    /\ ref[Acc] = "popped"
    /\ sessionID' = sessionID + 1
    /\ want' = [want EXCEPT ![Acc] = sessionID + 1]
    /\ relFlag' = 0
    /\ ref' = [ref EXCEPT ![Acc] = "named"]
    /\ UNCHANGED <<refCnt, joined, slotVars>>

\* SessionInvalid does not compare the ID.
Accepts_AnyID(r) == relFlag = 0

\* SessionInvalid returns without giving the count back.
Validate_NoUndo(r) ==
    /\ ref[r] = "inc"
    /\ ref' = [ref EXCEPT ![r] = IF relFlag = 0 /\ want[r] = sessionID THEN "ok" ELSE "none"]
    /\ UNCHANGED <<sessionID, refCnt, relFlag, want, joined, slotVars>>

\* RecvPost and SendPost start the I/O without a reference for it.
Fork_NoCount(r, q) ==
    /\ ref[r] = "ok" /\ ref[q] = "none"
    /\ r = Acc => want[r] \in joined
    /\ ref' = [ref EXCEPT ![q] = "ok"]
    /\ want' = [want EXCEPT ![q] = want[r]]
    /\ UNCHANGED <<sessionID, refCnt, relFlag, joined, slotVars>>

\* SessionInvalid takes the count back but does not call Release.
Drop_NoRelease(r) ==
    /\ ref[r] \in {"ok", "fail"}
    /\ r = Acc => want[r] \in joined
    /\ refCnt' = refCnt - 1
    /\ ref' = [ref EXCEPT ![r] = IF ref[r] = "fail" THEN "none" ELSE "try"]
    /\ UNCHANGED <<sessionID, relFlag, want, joined, slotVars>>

\* The release decides on m_RelFlag alone.
Release_AnyCount(r) ==
    /\ ref[r] = "try"
    /\ ref' = [ref EXCEPT ![r] = "none"]
    /\ IF relFlag = 0 THEN relFlag' = 1 /\ relMsgs' = relMsgs + 1 ELSE UNCHANGED <<relFlag, relMsgs>>
    /\ UNCHANGED <<sessionID, refCnt, want, freeIdx, leaving, joined, left>>

-----------------------------------------------------------------------------
(* AcceptThread *)

Pop ==
    /\ ref[Acc] = "none" /\ freeIdx > 0 /\ sessionID < MaxId
    /\ freeIdx' = freeIdx - 1
    /\ ref' = [ref EXCEPT ![Acc] = "popped"]
    /\ UNCHANGED <<sessionID, refCnt, relFlag, want, relMsgs, leaving, joined, left>>

\* Init: the new socket and ID, then both queues cleared.
InitName ==
    /\ ref[Acc] = "popped"
    /\ sessionID' = sessionID + 1
    /\ want' = [want EXCEPT ![Acc] = sessionID + 1]
    /\ ref' = [ref EXCEPT ![Acc] = "named"]
    /\ UNCHANGED <<refCnt, relFlag, joined, slotVars>>

\* Init: InterlockedIncrement64(&m_RefCnt), then SendFlag and DCFlag.
InitCount ==
    /\ ref[Acc] = "named"
    /\ refCnt' = refCnt + 1
    /\ ref' = [ref EXCEPT ![Acc] = "counted"]
    /\ UNCHANGED <<sessionID, relFlag, want, joined, slotVars>>

\* Init: the last step, InterlockedExchange64(&m_RelFlag, 0).
InitOpen ==
    /\ ref[Acc] = "counted"
    /\ relFlag' = 0
    /\ ref' = [ref EXCEPT ![Acc] = "ok"]
    /\ UNCHANGED <<sessionID, refCnt, want, joined, slotVars>>

\* OnClientJoin(sessionID): from here on the contents know the ID.
Join ==
    /\ ref[Acc] = "ok" /\ want[Acc] \notin joined
    /\ joined' = joined \cup {want[Acc]}
    /\ UNCHANGED <<sessionID, refCnt, relFlag, ref, want, slotVars>>

\* CreateIoCompletionPort fails: AcceptThread leaves its loop without giving
\* its reference back, so the slot stays as it is for good.
RegisterFails ==
    /\ ref[Acc] = "ok" /\ want[Acc] \notin joined
    /\ ref' = [ref EXCEPT ![Acc] = "dead"]
    /\ UNCHANGED <<sessionID, refCnt, relFlag, want, joined, slotVars>>

-----------------------------------------------------------------------------
(* Every path that uses a session *)

\* The IDs a caller of SessionInvalid can hold: those the contents were
\* given, and, for a thread that scans the table, any it read there.
Known == joined \cup (IF ScanTable THEN 1..sessionID ELSE {})

\* SessionInvalid: the count goes up before anything is looked at.
Acquire(r) ==
    /\ ref[r] = "none"
    /\ \E i \in Known : want' = [want EXCEPT ![r] = i]
    /\ refCnt' = refCnt + 1
    /\ ref' = [ref EXCEPT ![r] = "inc"]
    /\ UNCHANGED <<sessionID, relFlag, joined, slotVars>>

Accepts(r) == relFlag = 0 /\ want[r] = sessionID

\* SessionInvalid: the checks of RelFlag and of the ID.  They read two words;
\* with the count held RelFlag cannot rise between the two reads.
Validate(r) ==
    /\ ref[r] = "inc"
    /\ ref' = [ref EXCEPT ![r] = IF Accepts(r) THEN "ok" ELSE "fail"]
    /\ UNCHANGED <<sessionID, refCnt, relFlag, want, joined, slotVars>>

\* RecvPost and SendPost: a user takes a second reference, for the I/O.  It is
\* given back by the worker that handles the completion, or at once when the
\* call fails.
Fork(r, q) ==
    /\ ref[r] = "ok" /\ ref[q] = "none"
    /\ r = Acc => want[r] \in joined
    /\ refCnt' = refCnt + 1
    /\ ref' = [ref EXCEPT ![q] = "ok"]
    /\ want' = [want EXCEPT ![q] = want[r]]
    /\ UNCHANGED <<sessionID, relFlag, joined, slotVars>>

\* InterlockedDecrement64(&m_RefCnt), the argument of each Release call.
Drop(r) ==
    /\ ref[r] \in {"ok", "fail"}
    /\ r = Acc => want[r] \in joined
    /\ refCnt' = refCnt - 1
    /\ ref' = [ref EXCEPT ![r] = "try"]
    /\ UNCHANGED <<sessionID, relFlag, want, joined, slotVars>>

\* Release: InterlockedCompareExchange128 of (RefCnt, RelFlag) from (0, 0) to
\* (0, 1), and the en_RELEASE packet when it succeeds.
Release(r) ==
    /\ ref[r] = "try"
    /\ ref' = [ref EXCEPT ![r] = "none"]
    /\ IF refCnt = 0 /\ relFlag = 0
       THEN relFlag' = 1 /\ relMsgs' = relMsgs + 1
       ELSE UNCHANGED <<relFlag, relMsgs>>
    /\ UNCHANGED <<sessionID, refCnt, want, freeIdx, leaving, joined, left>>

-----------------------------------------------------------------------------
(* ReleaseProc, run by the worker that takes the en_RELEASE packet *)

\* Messages freed, OnClientLeave called, socket closed.
ReleaseLeave ==
    /\ relMsgs > 0
    /\ relMsgs' = relMsgs - 1
    /\ leaving' = leaving + 1
    /\ left' = [left EXCEPT ![sessionID] = @ + 1]
    /\ UNCHANGED <<sessionID, refCnt, relFlag, ref, want, freeIdx, joined>>

\* m_pSessionIdxStack->Push(index).
ReleasePush ==
    /\ leaving > 0
    /\ leaving' = leaving - 1
    /\ freeIdx' = freeIdx + 1
    /\ UNCHANGED <<sessionID, refCnt, relFlag, ref, want, relMsgs, joined, left>>

-----------------------------------------------------------------------------
Next ==
    \/ Pop \/ InitName \/ InitCount \/ InitOpen \/ Join \/ RegisterFails
    \/ \E r \in Refs : Acquire(r) \/ Validate(r)
    \/ \E r \in Tokens : \E q \in Refs : Fork(r, q)
    \/ \E r \in Tokens : Drop(r) \/ Release(r)
    \/ ReleaseLeave \/ ReleasePush

Spec == Init /\ [][Next]_vars

\* Threads run on: Init, a check, a give-back or a CAS once begun is finished,
\* and a worker takes the packets of the completion port.  That a user gives
\* its reference back is assumed here (NetServer says when it does).
Fairness ==
    /\ WF_vars(InitName) /\ WF_vars(InitCount) /\ WF_vars(InitOpen)
    /\ WF_vars(Join \/ RegisterFails)
    /\ WF_vars(ReleaseLeave) /\ WF_vars(ReleasePush)
    /\ \A r \in Tokens : WF_vars(Drop(r)) /\ WF_vars(Release(r))
    /\ \A r \in Refs : WF_vars(Validate(r))

FairSpec == Spec /\ Fairness

-----------------------------------------------------------------------------
(* Properties *)

Holding == {r \in Tokens : ref[r] \in {"counted", "inc", "ok", "fail", "dead"}}
Users == {r \in Tokens : ref[r] = "ok"}

\* m_RefCnt is the number of references held: every increment of the code has
\* its decrement, on every path.
RefCntExact == refCnt = Cardinality(Holding)

\* Whoever passed SessionInvalid works on the connection it asked for: the slot
\* is neither released nor given to another connection under it.
UsersSeeTheirSession ==
    \A r \in Users : relFlag = 0 /\ sessionID = want[r]

\* The connection is never left open without a reference: when the count of an
\* open session is 0 some thread has still to run its Release.
LastDropReleases ==
    joined # {} /\ relFlag = 0 /\ refCnt = 0 => \E r \in Tokens : ref[r] = "try"

\* A connection is released at most once: OnClientLeave is called at most once
\* for an ID, whoever gives its reference back last.
ReleasedOnce == \A i \in Ids : left[i] <= 1

\* No reference is taken any more from some moment on.
QuietDown == <>[][Holding' \subseteq Holding]_vars

\* When the traffic on a slot ends, its session ends: whatever the order of the
\* last give-backs, one of them finds the count 0, the session is released and
\* the index is back on the stack for good.  The slot AcceptThread gave up in
\* the middle of opening it is the one that never comes back.
SlotComesBack == QuietDown => <>[](freeIdx > 0 \/ ref[Acc] = "dead")

\* The slot as SessionLife sees it.
Stage ==
    IF relMsgs + leaving > 0 THEN "closing"
    ELSE IF ref[Acc] \in {"popped", "named", "counted"} THEN "opening"
    ELSE IF freeIdx > 0 THEN "free" ELSE "open"

Life == INSTANCE SessionLife WITH
    stage <- Stage,
    current <- IF ref[Acc] = "popped" THEN sessionID + 1 ELSE sessionID,
    users <- Users

\* The protocol implements the promise of SessionLife.
LifeSpec == Life!Spec
=============================================================================
