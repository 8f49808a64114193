-------------------------- MODULE SessionRefProofs --------------------------
(***************************************************************************)
(* Proofs about SessionRef for every set of references and every number of *)
(* connections, when no thread takes IDs out of the table (ScanTable is    *)
(* FALSE; with ScanTable the run SessionRefScan shows they fail).          *)
(***************************************************************************)
EXTENDS SessionRef, FiniteSetTheorems, TLAPS

-----------------------------------------------------------------------------
(* The inductive invariant *)

Opening == ref[Acc] \in {"popped", "named", "counted"}
Places == freeIdx + relMsgs + leaving

\* Each reference moves through the states of its kind only.
StatesFit ==
    /\ \A r \in Refs : ref[r] \in RefStates
    /\ ref[Acc] \in AccStates

\* Before the first OnClientJoin nobody but AcceptThread knows the slot.
UnknownUnused ==
    joined = {} =>
        /\ \A r \in Refs : ref[r] = "none"
        /\ relMsgs = 0 /\ leaving = 0
        /\ ref[Acc] # "try"
        /\ refCnt > 0 => ref[Acc] \in {"counted", "ok", "dead"}

\* While the slot is on the stack, in Init or in ReleaseProc the flag keeps
\* everybody out, unless nobody knows the slot yet.
ClosedUnlessOpen ==
    /\ Places <= 1
    /\ Places = 1 => ~Opening /\ ref[Acc] \notin {"ok", "dead"} /\ (relFlag = 1 \/ joined = {})
    /\ Opening => Places = 0 /\ (relFlag = 1 \/ joined = {})
    /\ relMsgs + leaving > 0 => relFlag = 1

\* The ID in the slot is new until its OnClientJoin, and no later ID exists.
IdsInOrder ==
    /\ \A i \in joined : i <= sessionID
    /\ ref[Acc] \in {"named", "counted"} =>
        sessionID # NoId /\ sessionID \notin joined /\ want[Acc] = sessionID
    /\ sessionID \notin joined =>
        \/ sessionID = NoId
        \/ ref[Acc] \in {"named", "counted", "ok", "dead"}
    /\ ref[Acc] = "try" => want[Acc] \in joined
    /\ ref[Acc] = "popped" => sessionID < MaxId
    /\ sessionID = NoId => joined = {} /\ ref[Acc] \in {"none", "popped"}

\* OnClientLeave has not run for the connection the slot is working on.
NotYetLeft ==
    /\ \A i \in Ids : i > sessionID => left[i] = 0
    /\ \A i \in Ids : left[i] = 1 => i \in joined
    /\ \A i \in Ids : left[i] <= 1
    /\ sessionID \in Ids /\ (relMsgs = 1 \/ relFlag = 0 \/ ref[Acc] \in {"named", "counted"})
        => left[sessionID] = 0

IInv ==
    /\ TypeOK
    /\ StatesFit
    /\ RefCntExact
    /\ UsersSeeTheirSession
    /\ LastDropReleases
    /\ UnknownUnused
    /\ ClosedUnlessOpen
    /\ IdsInOrder
    /\ NotYetLeft

NoScan == ScanTable = FALSE

\* The slot's index is in one place at a time: on the stack, with AcceptThread,
\* with an open session, or on its way back through ReleaseProc.
SlotIsInOnePlace == Places <= 1 /\ (Places = 1 => Users = {} /\ ~Opening)

\* OnClientLeave is never called for an ID before its OnClientJoin.
LeaveFollowsJoin == \A i \in Ids : left[i] > 0 => i \in joined

-----------------------------------------------------------------------------
(* The count of references *)

\* The references that hold the session are finitely many.
LEMMA HoldingFinite == IsFiniteSet(Holding)
<1>1. IsFiniteSet(Tokens)
  BY RefsFinite, FS_AddElement DEF Tokens
<1>2. Holding \subseteq Tokens
  BY DEF Holding
<1> QED
  BY <1>1, <1>2, FS_Subset

\* A new reference and one more in m_RefCnt keep the count exact.
LEMMA HoldingGrows ==
  ASSUME RefCntExact, NEW r \in Tokens, r \notin Holding,
         Holding' = Holding \cup {r}, refCnt' = refCnt + 1
  PROVE  RefCntExact'
<1>1. Cardinality(Holding \cup {r}) = Cardinality(Holding) + 1
  BY HoldingFinite, FS_AddElement
<1> QED
  BY <1>1 DEF RefCntExact

\* A reference given back and one less in m_RefCnt keep it exact, and the count
\* was above 0.
LEMMA HoldingShrinks ==
  ASSUME RefCntExact, NEW r \in Holding,
         Holding' = Holding \ {r}, refCnt' = refCnt - 1
  PROVE  RefCntExact' /\ refCnt' \in Nat
<1>1. /\ Cardinality(Holding \ {r}) = Cardinality(Holding) - 1
      /\ IsFiniteSet(Holding \ {r})
  BY HoldingFinite, FS_RemoveElement
<1>2. Cardinality(Holding \ {r}) \in Nat
  BY <1>1, FS_CardinalityType
<1> QED
  BY <1>1, <1>2 DEF RefCntExact

\* Nobody holds a session whose count is 0.
LEMMA ZeroMeansNobody ==
  ASSUME RefCntExact, refCnt = 0
  PROVE  Holding = {}
  BY HoldingFinite, FS_EmptySet DEF RefCntExact

\* Somebody who holds the session makes the count positive.
LEMMA HeldMeansPositive ==
  ASSUME RefCntExact, refCnt \in Nat, NEW r \in Holding
  PROVE  refCnt > 0
  BY ZeroMeansNobody

-----------------------------------------------------------------------------
(* The invariant is inductive *)

LEMMA InitIInv ==
  ASSUME Init PROVE IInv
<1> USE DEF Init
<1>1. TypeOK
  BY DEF TypeOK, NoId, RefStates
<1>2. RefCntExact
  <2>1. Holding = {}
    BY DEF Holding
  <2> QED
    BY <2>1, FS_EmptySet DEF RefCntExact
<1>3. StatesFit
  BY DEF StatesFit, RefStates, AccStates, Tokens
<1>4. UsersSeeTheirSession /\ LastDropReleases
  BY DEF UsersSeeTheirSession, LastDropReleases, Users
<1>5. UnknownUnused /\ ClosedUnlessOpen
  BY DEF UnknownUnused, ClosedUnlessOpen, Places, Opening, Tokens
<1>6. IdsInOrder /\ NotYetLeft
  BY DEF IdsInOrder, NotYetLeft, NoId, Ids, Tokens
<1> QED
  BY <1>1, <1>2, <1>3, <1>4, <1>5, <1>6 DEF IInv

LEMMA PopIInv ==
  ASSUME NoScan, IInv, Pop
  PROVE  IInv'
<1> USE DEF IInv, Pop, slotVars
<1>1. RefCntExact'
  <2>1. Holding' = Holding
    BY DEF Holding, TypeOK, Tokens
  <2> QED
    BY <2>1 DEF RefCntExact
<1>2. TypeOK'
  BY <1>1 DEF TypeOK, Tokens, Ids, NoId, RefStates, AccStates, Known, NoScan
<1>3. StatesFit'
  BY AccApart DEF StatesFit, TypeOK, RefStates, AccStates, Tokens
<1>4. UsersSeeTheirSession'
  BY AccApart DEF UsersSeeTheirSession, Users, TypeOK, Tokens, StatesFit, RefStates, AccStates, ClosedUnlessOpen, Opening, Places, IdsInOrder, UnknownUnused, Accepts
<1>5. LastDropReleases'
  BY AccApart DEF LastDropReleases, TypeOK, Tokens, StatesFit, ClosedUnlessOpen, Opening, Places, IdsInOrder, UnknownUnused
<1>6. UnknownUnused'
  BY AccApart DEF UnknownUnused, TypeOK, Tokens, StatesFit, ClosedUnlessOpen, Opening, Places, IdsInOrder, Known, NoScan
<1>7. ClosedUnlessOpen'
  BY AccApart DEF ClosedUnlessOpen, Opening, Places, TypeOK, Tokens, StatesFit, IdsInOrder, UnknownUnused, UsersSeeTheirSession, Users
<1>8. IdsInOrder'
  BY AccApart DEF IdsInOrder, TypeOK, Tokens, StatesFit, NoId, Ids, UsersSeeTheirSession, Users
<1>9. NotYetLeft'
  BY AccApart DEF NotYetLeft, TypeOK, Tokens, IdsInOrder, Ids, NoId, ClosedUnlessOpen, Places, UnknownUnused, StatesFit
<1> QED
  BY <1>1, <1>2, <1>3, <1>4, <1>5, <1>6, <1>7, <1>8, <1>9

LEMMA InitNameIInv ==
  ASSUME NoScan, IInv, InitName
  PROVE  IInv'
<1> USE DEF IInv, InitName, slotVars
<1>1. RefCntExact'
  <2>1. Holding' = Holding
    BY DEF Holding, TypeOK, Tokens
  <2> QED
    BY <2>1 DEF RefCntExact
<1>2. TypeOK'
  BY <1>1, MaxIdNat DEF TypeOK, Tokens, Ids, NoId, RefStates, AccStates, IdsInOrder
<1>3. StatesFit'
  BY AccApart DEF StatesFit, TypeOK, RefStates, AccStates, Tokens
<1>4. UsersSeeTheirSession'
  BY AccApart DEF UsersSeeTheirSession, Users, TypeOK, Tokens, StatesFit, RefStates, AccStates, ClosedUnlessOpen, Opening, Places, IdsInOrder, UnknownUnused, Accepts
<1>5. LastDropReleases'
  BY AccApart DEF LastDropReleases, TypeOK, Tokens, StatesFit, ClosedUnlessOpen, Opening, Places, IdsInOrder, UnknownUnused
<1>6. UnknownUnused'
  BY AccApart DEF UnknownUnused, TypeOK, Tokens, StatesFit, ClosedUnlessOpen, Opening, Places, IdsInOrder, Known, NoScan
<1>7. ClosedUnlessOpen'
  BY AccApart DEF ClosedUnlessOpen, Opening, Places, TypeOK, Tokens, StatesFit, IdsInOrder, UnknownUnused, UsersSeeTheirSession, Users
<1>8. IdsInOrder'
  BY AccApart DEF IdsInOrder, TypeOK, Tokens, StatesFit, NoId, Ids, UsersSeeTheirSession, Users
<1>9. NotYetLeft'
  BY AccApart DEF NotYetLeft, TypeOK, Tokens, IdsInOrder, Ids, NoId, ClosedUnlessOpen, Places, UnknownUnused, StatesFit
<1> QED
  BY <1>1, <1>2, <1>3, <1>4, <1>5, <1>6, <1>7, <1>8, <1>9

LEMMA InitCountIInv ==
  ASSUME NoScan, IInv, InitCount
  PROVE  IInv'
<1> USE DEF IInv, InitCount, slotVars
<1>1. RefCntExact'
  <2>1. Acc \in Tokens /\ Acc \notin Holding /\ Holding' = Holding \cup {Acc}
    BY DEF Holding, TypeOK, Tokens
  <2> QED
    BY <2>1, HoldingGrows
<1>2. TypeOK'
  BY <1>1 DEF TypeOK, Tokens, Ids, NoId, RefStates, AccStates, Known, NoScan
<1>3. StatesFit'
  BY AccApart DEF StatesFit, TypeOK, RefStates, AccStates, Tokens
<1>4. UsersSeeTheirSession'
  BY AccApart DEF UsersSeeTheirSession, Users, TypeOK, Tokens, StatesFit, RefStates, AccStates, ClosedUnlessOpen, Opening, Places, IdsInOrder, UnknownUnused, Accepts
<1>5. LastDropReleases'
  BY AccApart DEF LastDropReleases, TypeOK, Tokens, StatesFit, ClosedUnlessOpen, Opening, Places, IdsInOrder, UnknownUnused
<1>6. UnknownUnused'
  BY AccApart DEF UnknownUnused, TypeOK, Tokens, StatesFit, ClosedUnlessOpen, Opening, Places, IdsInOrder, Known, NoScan
<1>7. ClosedUnlessOpen'
  BY AccApart DEF ClosedUnlessOpen, Opening, Places, TypeOK, Tokens, StatesFit, IdsInOrder, UnknownUnused, UsersSeeTheirSession, Users
<1>8. IdsInOrder'
  BY AccApart DEF IdsInOrder, TypeOK, Tokens, StatesFit, NoId, Ids, UsersSeeTheirSession, Users
<1>9. NotYetLeft'
  BY AccApart DEF NotYetLeft, TypeOK, Tokens, IdsInOrder, Ids, NoId, ClosedUnlessOpen, Places, UnknownUnused, StatesFit
<1> QED
  BY <1>1, <1>2, <1>3, <1>4, <1>5, <1>6, <1>7, <1>8, <1>9

LEMMA InitOpenIInv ==
  ASSUME NoScan, IInv, InitOpen
  PROVE  IInv'
<1> USE DEF IInv, InitOpen, slotVars
<1>1. RefCntExact'
  <2>1. Holding' = Holding
    BY DEF Holding, TypeOK, Tokens
  <2> QED
    BY <2>1 DEF RefCntExact
<1>2. TypeOK'
  BY <1>1 DEF TypeOK, Tokens, Ids, NoId, RefStates, AccStates, Known, NoScan
<1>3. StatesFit'
  BY AccApart DEF StatesFit, TypeOK, RefStates, AccStates, Tokens
<1>4. UsersSeeTheirSession'
  BY AccApart DEF UsersSeeTheirSession, Users, TypeOK, Tokens, StatesFit, RefStates, AccStates, ClosedUnlessOpen, Opening, Places, IdsInOrder, UnknownUnused, Accepts
<1>5. LastDropReleases'
  <2>1. Acc \in Holding
    BY DEF Holding, Tokens
  <2>2. refCnt > 0
    BY <2>1, HeldMeansPositive DEF TypeOK
  <2> QED
    BY <2>2 DEF LastDropReleases
<1>6. UnknownUnused'
  BY AccApart DEF UnknownUnused, TypeOK, Tokens, StatesFit, ClosedUnlessOpen, Opening, Places, IdsInOrder, Known, NoScan
<1>7. ClosedUnlessOpen'
  BY AccApart DEF ClosedUnlessOpen, Opening, Places, TypeOK, Tokens, StatesFit, IdsInOrder, UnknownUnused, UsersSeeTheirSession, Users
<1>8. IdsInOrder'
  BY AccApart DEF IdsInOrder, TypeOK, Tokens, StatesFit, NoId, Ids, UsersSeeTheirSession, Users
<1>9. NotYetLeft'
  BY AccApart DEF NotYetLeft, TypeOK, Tokens, IdsInOrder, Ids, NoId, ClosedUnlessOpen, Places, UnknownUnused, StatesFit
<1> QED
  BY <1>1, <1>2, <1>3, <1>4, <1>5, <1>6, <1>7, <1>8, <1>9

LEMMA JoinIInv ==
  ASSUME NoScan, IInv, Join
  PROVE  IInv'
<1> USE DEF IInv, Join, slotVars
<1>1. RefCntExact'
  <2>1. Holding' = Holding
    BY DEF Holding, TypeOK, Tokens
  <2> QED
    BY <2>1 DEF RefCntExact
<1>2. TypeOK'
  <2>1. want[Acc] = sessionID /\ sessionID \in Ids
    BY DEF UsersSeeTheirSession, Users, Tokens, IdsInOrder, TypeOK
  <2> QED
    BY <2>1 DEF TypeOK, Tokens
<1>3. StatesFit'
  BY AccApart DEF StatesFit, TypeOK, RefStates, AccStates, Tokens
<1>4. UsersSeeTheirSession'
  BY AccApart DEF UsersSeeTheirSession, Users, TypeOK, Tokens, StatesFit, RefStates, AccStates, ClosedUnlessOpen, Opening, Places, IdsInOrder, UnknownUnused, Accepts
<1>5. LastDropReleases'
  <2>1. Acc \in Holding
    BY DEF Holding, Tokens
  <2>2. refCnt > 0
    BY <2>1, HeldMeansPositive DEF TypeOK
  <2> QED
    BY <2>2 DEF LastDropReleases
<1>6. UnknownUnused'
  BY AccApart DEF UnknownUnused, TypeOK, Tokens, StatesFit, ClosedUnlessOpen, Opening, Places, IdsInOrder, Known, NoScan
<1>7. ClosedUnlessOpen'
  BY AccApart DEF ClosedUnlessOpen, Opening, Places, TypeOK, Tokens, StatesFit, IdsInOrder, UnknownUnused, UsersSeeTheirSession, Users
<1>8. IdsInOrder'
  BY AccApart DEF IdsInOrder, TypeOK, Tokens, StatesFit, NoId, Ids, UsersSeeTheirSession, Users
<1>9. NotYetLeft'
  BY AccApart DEF NotYetLeft, TypeOK, Tokens, IdsInOrder, Ids, NoId, ClosedUnlessOpen, Places, UnknownUnused, StatesFit
<1> QED
  BY <1>1, <1>2, <1>3, <1>4, <1>5, <1>6, <1>7, <1>8, <1>9

LEMMA RegisterFailsIInv ==
  ASSUME NoScan, IInv, RegisterFails
  PROVE  IInv'
<1> USE DEF IInv, RegisterFails, slotVars
<1>1. RefCntExact'
  <2>1. Holding' = Holding
    BY DEF Holding, TypeOK, Tokens
  <2> QED
    BY <2>1 DEF RefCntExact
<1>2. TypeOK'
  BY DEF TypeOK, Tokens, AccStates
<1>3. StatesFit'
  BY AccApart DEF StatesFit, TypeOK, RefStates, AccStates, Tokens
<1>4. UsersSeeTheirSession'
  BY AccApart DEF UsersSeeTheirSession, Users, TypeOK, Tokens, StatesFit, RefStates, AccStates, ClosedUnlessOpen, Opening, Places, IdsInOrder, UnknownUnused, Accepts
<1>5. LastDropReleases'
  <2>1. Acc \in Holding
    BY DEF Holding, Tokens
  <2>2. refCnt > 0
    BY <2>1, HeldMeansPositive DEF TypeOK
  <2> QED
    BY <2>2 DEF LastDropReleases
<1>6. UnknownUnused'
  BY AccApart DEF UnknownUnused, TypeOK, Tokens, StatesFit, ClosedUnlessOpen, Opening, Places, IdsInOrder, Known, NoScan
<1>7. ClosedUnlessOpen'
  BY AccApart DEF ClosedUnlessOpen, Opening, Places, TypeOK, Tokens, StatesFit, IdsInOrder, UnknownUnused, UsersSeeTheirSession, Users
<1>8. IdsInOrder'
  BY AccApart DEF IdsInOrder, TypeOK, Tokens, StatesFit, NoId, Ids, UsersSeeTheirSession, Users
<1>9. NotYetLeft'
  BY AccApart DEF NotYetLeft, TypeOK, Tokens, IdsInOrder, Ids, NoId, ClosedUnlessOpen, Places, UnknownUnused, StatesFit
<1> QED
  BY <1>1, <1>2, <1>3, <1>4, <1>5, <1>6, <1>7, <1>8, <1>9

LEMMA AcquireIInv ==
  ASSUME NoScan, IInv, NEW r \in Refs, Acquire(r)
  PROVE  IInv'
<1> USE DEF IInv, Acquire, slotVars
<1>1. RefCntExact'
  <2>1. r \in Tokens /\ r \notin Holding /\ Holding' = Holding \cup {r}
    BY DEF Holding, TypeOK, Tokens
  <2> QED
    BY <2>1, HoldingGrows
<1>2. TypeOK'
  BY <1>1 DEF TypeOK, Tokens, Ids, NoId, RefStates, AccStates, Known, NoScan
<1>3. StatesFit'
  BY AccApart DEF StatesFit, TypeOK, RefStates, AccStates, Tokens
<1>4. UsersSeeTheirSession'
  BY AccApart DEF UsersSeeTheirSession, Users, TypeOK, Tokens, StatesFit, RefStates, AccStates, ClosedUnlessOpen, Opening, Places, IdsInOrder, UnknownUnused, Accepts
<1>5. LastDropReleases'
  BY AccApart DEF LastDropReleases, TypeOK, Tokens, StatesFit, ClosedUnlessOpen, Opening, Places, IdsInOrder, UnknownUnused
<1>6. UnknownUnused'
  BY AccApart DEF UnknownUnused, TypeOK, Tokens, StatesFit, ClosedUnlessOpen, Opening, Places, IdsInOrder, Known, NoScan
<1>7. ClosedUnlessOpen'
  BY AccApart DEF ClosedUnlessOpen, Opening, Places, TypeOK, Tokens, StatesFit, IdsInOrder, UnknownUnused, UsersSeeTheirSession, Users
<1>8. IdsInOrder'
  BY AccApart DEF IdsInOrder, TypeOK, Tokens, StatesFit, NoId, Ids, UsersSeeTheirSession, Users
<1>9. NotYetLeft'
  BY AccApart DEF NotYetLeft, TypeOK, Tokens, IdsInOrder, Ids, NoId, ClosedUnlessOpen, Places, UnknownUnused, StatesFit
<1> QED
  BY <1>1, <1>2, <1>3, <1>4, <1>5, <1>6, <1>7, <1>8, <1>9

LEMMA ValidateIInv ==
  ASSUME NoScan, IInv, NEW r \in Refs, Validate(r)
  PROVE  IInv'
<1> USE DEF IInv, Validate, slotVars
<1>1. RefCntExact'
  <2>1. Holding' = Holding
    BY DEF Holding, TypeOK, Tokens
  <2> QED
    BY <2>1 DEF RefCntExact
<1>2. TypeOK'
  BY <1>1 DEF TypeOK, Tokens, Ids, NoId, RefStates, AccStates, Known, NoScan
<1>3. StatesFit'
  BY AccApart DEF StatesFit, TypeOK, RefStates, AccStates, Tokens
<1>4. UsersSeeTheirSession'
  BY AccApart DEF UsersSeeTheirSession, Users, TypeOK, Tokens, StatesFit, RefStates, AccStates, ClosedUnlessOpen, Opening, Places, IdsInOrder, UnknownUnused, Accepts
<1>5. LastDropReleases'
  BY AccApart DEF LastDropReleases, TypeOK, Tokens, StatesFit, ClosedUnlessOpen, Opening, Places, IdsInOrder, UnknownUnused
<1>6. UnknownUnused'
  BY AccApart DEF UnknownUnused, TypeOK, Tokens, StatesFit, ClosedUnlessOpen, Opening, Places, IdsInOrder, Known, NoScan
<1>7. ClosedUnlessOpen'
  BY AccApart DEF ClosedUnlessOpen, Opening, Places, TypeOK, Tokens, StatesFit, IdsInOrder, UnknownUnused, UsersSeeTheirSession, Users
<1>8. IdsInOrder'
  BY AccApart DEF IdsInOrder, TypeOK, Tokens, StatesFit, NoId, Ids, UsersSeeTheirSession, Users
<1>9. NotYetLeft'
  BY AccApart DEF NotYetLeft, TypeOK, Tokens, IdsInOrder, Ids, NoId, ClosedUnlessOpen, Places, UnknownUnused, StatesFit
<1> QED
  BY <1>1, <1>2, <1>3, <1>4, <1>5, <1>6, <1>7, <1>8, <1>9

LEMMA ForkIInv ==
  ASSUME NoScan, IInv, NEW r \in Tokens, NEW q \in Refs, Fork(r, q)
  PROVE  IInv'
<1> USE DEF IInv, Fork, slotVars
<1>1. RefCntExact'
  <2>1. q \in Tokens /\ q \notin Holding /\ Holding' = Holding \cup {q}
    BY DEF Holding, TypeOK, Tokens
  <2> QED
    BY <2>1, HoldingGrows
<1>2. TypeOK'
  BY <1>1 DEF TypeOK, Tokens, Ids, NoId, RefStates, AccStates, Known, NoScan
<1>3. StatesFit'
  BY AccApart DEF StatesFit, TypeOK, RefStates, AccStates, Tokens
<1>4. UsersSeeTheirSession'
  BY AccApart DEF UsersSeeTheirSession, Users, TypeOK, Tokens, StatesFit, RefStates, AccStates, ClosedUnlessOpen, Opening, Places, IdsInOrder, UnknownUnused, Accepts
<1>5. LastDropReleases'
  BY AccApart DEF LastDropReleases, TypeOK, Tokens, StatesFit, ClosedUnlessOpen, Opening, Places, IdsInOrder, UnknownUnused
<1>6. UnknownUnused'
  BY AccApart DEF UnknownUnused, TypeOK, Tokens, StatesFit, ClosedUnlessOpen, Opening, Places, IdsInOrder, Known, NoScan
<1>7. ClosedUnlessOpen'
  BY AccApart DEF ClosedUnlessOpen, Opening, Places, TypeOK, Tokens, StatesFit, IdsInOrder, UnknownUnused, UsersSeeTheirSession, Users
<1>8. IdsInOrder'
  BY AccApart DEF IdsInOrder, TypeOK, Tokens, StatesFit, NoId, Ids, UsersSeeTheirSession, Users
<1>9. NotYetLeft'
  BY AccApart DEF NotYetLeft, TypeOK, Tokens, IdsInOrder, Ids, NoId, ClosedUnlessOpen, Places, UnknownUnused, StatesFit
<1> QED
  BY <1>1, <1>2, <1>3, <1>4, <1>5, <1>6, <1>7, <1>8, <1>9

LEMMA DropIInv ==
  ASSUME NoScan, IInv, NEW r \in Tokens, Drop(r)
  PROVE  IInv'
<1> USE DEF IInv, Drop, slotVars
<1>1. RefCntExact' /\ refCnt' \in Nat
  <2>1. r \in Holding /\ Holding' = Holding \ {r}
    BY DEF Holding, TypeOK, Tokens
  <2> QED
    BY <2>1, HoldingShrinks
<1>2. TypeOK'
  BY <1>1 DEF TypeOK, Tokens, Ids, NoId, RefStates, AccStates, Known, NoScan
<1>3. StatesFit'
  BY AccApart DEF StatesFit, TypeOK, RefStates, AccStates, Tokens
<1>4. UsersSeeTheirSession'
  BY AccApart DEF UsersSeeTheirSession, Users, TypeOK, Tokens, StatesFit, RefStates, AccStates, ClosedUnlessOpen, Opening, Places, IdsInOrder, UnknownUnused, Accepts
<1>5. LastDropReleases'
  BY AccApart DEF LastDropReleases, TypeOK, Tokens, StatesFit, ClosedUnlessOpen, Opening, Places, IdsInOrder, UnknownUnused
<1>6. UnknownUnused'
  BY AccApart DEF UnknownUnused, TypeOK, Tokens, StatesFit, ClosedUnlessOpen, Opening, Places, IdsInOrder, Known, NoScan
<1>7. ClosedUnlessOpen'
  BY AccApart DEF ClosedUnlessOpen, Opening, Places, TypeOK, Tokens, StatesFit, IdsInOrder, UnknownUnused, UsersSeeTheirSession, Users
<1>8. IdsInOrder'
  BY AccApart DEF IdsInOrder, TypeOK, Tokens, StatesFit, NoId, Ids, UsersSeeTheirSession, Users
<1>9. NotYetLeft'
  BY AccApart DEF NotYetLeft, TypeOK, Tokens, IdsInOrder, Ids, NoId, ClosedUnlessOpen, Places, UnknownUnused, StatesFit
<1> QED
  BY <1>1, <1>2, <1>3, <1>4, <1>5, <1>6, <1>7, <1>8, <1>9

LEMMA ReleaseIInv ==
  ASSUME NoScan, IInv, NEW r \in Tokens, Release(r)
  PROVE  IInv'
<1> USE DEF IInv, Release, slotVars
<1>0. refCnt = 0 => Users = {} /\ Holding = {}
  BY ZeroMeansNobody DEF Users, Holding
<1>1. RefCntExact'
  <2>1. Holding' = Holding
    BY DEF Holding, TypeOK, Tokens
  <2> QED
    BY <2>1 DEF RefCntExact
<1>2. TypeOK'
  BY <1>1 DEF TypeOK, Tokens, Ids, NoId, RefStates, AccStates, Known, NoScan
<1>3. StatesFit'
  BY AccApart DEF StatesFit, TypeOK, RefStates, AccStates, Tokens
<1>4. UsersSeeTheirSession'
  BY <1>0, AccApart DEF UsersSeeTheirSession, Users, TypeOK, Tokens, StatesFit, RefStates, AccStates, ClosedUnlessOpen, Opening, Places, IdsInOrder, UnknownUnused, Accepts
<1>5. LastDropReleases'
  BY AccApart DEF LastDropReleases, TypeOK, Tokens, StatesFit, ClosedUnlessOpen, Opening, Places, IdsInOrder, UnknownUnused
<1>6. UnknownUnused'
  BY AccApart DEF UnknownUnused, TypeOK, Tokens, StatesFit, ClosedUnlessOpen, Opening, Places, IdsInOrder, Known, NoScan
<1>7. ClosedUnlessOpen'
  <2>1. joined # {}
    BY AccApart DEF UnknownUnused, Tokens, IdsInOrder
  <2>2. CASE refCnt = 0 /\ relFlag = 0
    <3>1. ref[Acc] \notin {"counted", "ok", "dead"}
      BY <1>0, <2>2 DEF Holding, Tokens
    <3>2. Places = 0 /\ ~Opening
      BY <2>1, <2>2 DEF ClosedUnlessOpen, Places, Opening, TypeOK
    <3> QED
      BY <2>2, <3>1, <3>2 DEF ClosedUnlessOpen, Places, Opening, TypeOK, Tokens
  <2>3. CASE ~(refCnt = 0 /\ relFlag = 0)
    BY <2>3 DEF ClosedUnlessOpen, Places, Opening, TypeOK, Tokens
  <2> QED
    BY <2>2, <2>3
<1>8. IdsInOrder'
  BY AccApart DEF IdsInOrder, TypeOK, Tokens, StatesFit, NoId, Ids, UsersSeeTheirSession, Users
<1>9. NotYetLeft'
  BY AccApart DEF NotYetLeft, TypeOK, Tokens, IdsInOrder, Ids, NoId, ClosedUnlessOpen, Places, UnknownUnused, StatesFit
<1> QED
  BY <1>1, <1>2, <1>3, <1>4, <1>5, <1>6, <1>7, <1>8, <1>9

LEMMA ReleaseLeaveIInv ==
  ASSUME NoScan, IInv, ReleaseLeave
  PROVE  IInv'
<1> USE DEF IInv, ReleaseLeave, slotVars
<1>0. sessionID \in joined /\ sessionID \in Ids /\ relMsgs = 1 /\ relFlag = 1
  BY DEF UnknownUnused, ClosedUnlessOpen, Places, Opening, IdsInOrder, TypeOK
<1>1. RefCntExact'
  <2>1. Holding' = Holding
    BY DEF Holding, TypeOK, Tokens
  <2> QED
    BY <2>1 DEF RefCntExact
<1>2. TypeOK'
  BY <1>0 DEF TypeOK
<1>3. StatesFit'
  BY AccApart DEF StatesFit, TypeOK, RefStates, AccStates, Tokens
<1>4. UsersSeeTheirSession'
  BY AccApart DEF UsersSeeTheirSession, Users, TypeOK, Tokens, StatesFit, RefStates, AccStates, ClosedUnlessOpen, Opening, Places, IdsInOrder, UnknownUnused, Accepts
<1>5. LastDropReleases'
  BY AccApart DEF LastDropReleases, TypeOK, Tokens, StatesFit, ClosedUnlessOpen, Opening, Places, IdsInOrder, UnknownUnused
<1>6. UnknownUnused'
  BY AccApart DEF UnknownUnused, TypeOK, Tokens, StatesFit, ClosedUnlessOpen, Opening, Places, IdsInOrder, Known, NoScan
<1>7. ClosedUnlessOpen'
  BY AccApart DEF ClosedUnlessOpen, Opening, Places, TypeOK, Tokens, StatesFit, IdsInOrder, UnknownUnused, UsersSeeTheirSession, Users
<1>8. IdsInOrder'
  BY AccApart DEF IdsInOrder, TypeOK, Tokens, StatesFit, NoId, Ids, UsersSeeTheirSession, Users
<1>9. NotYetLeft'
  BY <1>0, AccApart DEF NotYetLeft, TypeOK, Tokens, IdsInOrder, Ids, NoId, ClosedUnlessOpen, Places, UnknownUnused, StatesFit
<1> QED
  BY <1>1, <1>2, <1>3, <1>4, <1>5, <1>6, <1>7, <1>8, <1>9

LEMMA ReleasePushIInv ==
  ASSUME NoScan, IInv, ReleasePush
  PROVE  IInv'
<1> USE DEF IInv, ReleasePush, slotVars
<1>1. RefCntExact'
  <2>1. Holding' = Holding
    BY DEF Holding, TypeOK, Tokens
  <2> QED
    BY <2>1 DEF RefCntExact
<1>2. TypeOK'
  BY <1>1 DEF TypeOK, Tokens, Ids, NoId, RefStates, AccStates, Known, NoScan
<1>3. StatesFit'
  BY AccApart DEF StatesFit, TypeOK, RefStates, AccStates, Tokens
<1>4. UsersSeeTheirSession'
  BY AccApart DEF UsersSeeTheirSession, Users, TypeOK, Tokens, StatesFit, RefStates, AccStates, ClosedUnlessOpen, Opening, Places, IdsInOrder, UnknownUnused, Accepts
<1>5. LastDropReleases'
  BY AccApart DEF LastDropReleases, TypeOK, Tokens, StatesFit, ClosedUnlessOpen, Opening, Places, IdsInOrder, UnknownUnused
<1>6. UnknownUnused'
  BY AccApart DEF UnknownUnused, TypeOK, Tokens, StatesFit, ClosedUnlessOpen, Opening, Places, IdsInOrder, Known, NoScan
<1>7. ClosedUnlessOpen'
  BY AccApart DEF ClosedUnlessOpen, Opening, Places, TypeOK, Tokens, StatesFit, IdsInOrder, UnknownUnused, UsersSeeTheirSession, Users
<1>8. IdsInOrder'
  BY AccApart DEF IdsInOrder, TypeOK, Tokens, StatesFit, NoId, Ids, UsersSeeTheirSession, Users
<1>9. NotYetLeft'
  BY AccApart DEF NotYetLeft, TypeOK, Tokens, IdsInOrder, Ids, NoId, ClosedUnlessOpen, Places, UnknownUnused, StatesFit
<1> QED
  BY <1>1, <1>2, <1>3, <1>4, <1>5, <1>6, <1>7, <1>8, <1>9

LEMMA NextIInv ==
  ASSUME NoScan, IInv, [Next]_vars
  PROVE  IInv'
<1>1. CASE UNCHANGED vars
  <2>1. Holding' = Holding
    BY <1>1 DEF Holding, vars
  <2> QED
    BY <1>1, <2>1 DEF vars, IInv, TypeOK, StatesFit, RefCntExact, UsersSeeTheirSession,
       Users, LastDropReleases, UnknownUnused, ClosedUnlessOpen, Places, Opening,
       IdsInOrder, NotYetLeft
<1>2. CASE Pop \/ InitName \/ InitCount \/ InitOpen \/ Join \/ RegisterFails
  BY <1>2, PopIInv, InitNameIInv, InitCountIInv, InitOpenIInv, JoinIInv, RegisterFailsIInv
<1>3. CASE \E r \in Refs : Acquire(r) \/ Validate(r)
  BY <1>3, AcquireIInv, ValidateIInv
<1>4. CASE \E r \in Tokens : \E q \in Refs : Fork(r, q)
  BY <1>4, ForkIInv
<1>5. CASE \E r \in Tokens : Drop(r) \/ Release(r)
  BY <1>5, DropIInv, ReleaseIInv
<1>6. CASE ReleaseLeave \/ ReleasePush
  BY <1>6, ReleaseLeaveIInv, ReleasePushIInv
<1> QED
  BY <1>1, <1>2, <1>3, <1>4, <1>5, <1>6 DEF Next

\* What IInv says of the properties SessionRef states.
LEMMA IInvImplies ==
  ASSUME IInv
  PROVE  /\ TypeOK /\ RefCntExact /\ UsersSeeTheirSession /\ LastDropReleases
         /\ SlotIsInOnePlace /\ ReleasedOnce /\ LeaveFollowsJoin
<1> USE DEF IInv
<1>1. SlotIsInOnePlace
  <2>1. ASSUME Places = 1 PROVE Users = {} /\ ~Opening
    <3>1. ~Opening /\ ref[Acc] # "ok" /\ (relFlag = 1 \/ joined = {})
      BY <2>1 DEF ClosedUnlessOpen
    <3>2. \A r \in Refs : ref[r] # "ok"
      BY <3>1, AccApart DEF UsersSeeTheirSession, Users, UnknownUnused, Tokens
    <3> QED
      BY <3>1, <3>2 DEF Users, Tokens
  <2> QED
    BY <2>1 DEF SlotIsInOnePlace, ClosedUnlessOpen, Places, Opening
<1>2. ReleasedOnce
  BY DEF ReleasedOnce, NotYetLeft
<1>3. LeaveFollowsJoin
  <2>1. SUFFICES ASSUME NEW i \in Ids, left[i] > 0
                 PROVE  i \in joined
    BY DEF LeaveFollowsJoin
  <2>2. left[i] \in Nat /\ left[i] <= 1
    BY <2>1 DEF TypeOK, NotYetLeft
  <2>3. left[i] = 1
    BY <2>1, <2>2
  <2> QED
    BY <2>1, <2>3 DEF NotYetLeft
<1> QED
  BY <1>1, <1>2, <1>3

-----------------------------------------------------------------------------
(* The theorems *)

LEMMA Invariance ==
  ASSUME NoScan
  PROVE  Spec => []IInv
<1>1. Init => IInv
  BY InitIInv
<1>2. IInv /\ [Next]_vars => IInv'
  BY NextIInv
<1> QED
  BY <1>1, <1>2, PTL DEF Spec

\* Every variable keeps its type; in particular m_RefCnt never goes negative.
THEOREM TypeCorrect ==
  ASSUME NoScan
  PROVE  Spec => []TypeOK
<1>1. IInv => TypeOK
  BY IInvImplies
<1> QED
  BY <1>1, Invariance, PTL

\* m_RefCnt is exactly the number of references held, on every path.
THEOREM CountIsExact ==
  ASSUME NoScan
  PROVE  Spec => []RefCntExact
<1>1. IInv => RefCntExact
  BY IInvImplies
<1> QED
  BY <1>1, Invariance, PTL

\* A caller that passed SessionInvalid keeps the session it asked for until it
\* gives its reference back.
THEOREM NoUseAfterRelease ==
  ASSUME NoScan
  PROVE  Spec => []UsersSeeTheirSession
<1>1. IInv => UsersSeeTheirSession
  BY IInvImplies
<1> QED
  BY <1>1, Invariance, PTL

\* The last reference is never given back without a Release to follow.
THEOREM NoOrphan ==
  ASSUME NoScan
  PROVE  Spec => []LastDropReleases
<1>1. IInv => LastDropReleases
  BY IInvImplies
<1> QED
  BY <1>1, Invariance, PTL

\* A connection leaves at most once and only after it joined, and its slot's
\* index is never in two places.
THEOREM NoDoubleRelease ==
  ASSUME NoScan
  PROVE  Spec => [](ReleasedOnce /\ LeaveFollowsJoin /\ SlotIsInOnePlace)
<1>1. IInv => ReleasedOnce /\ LeaveFollowsJoin /\ SlotIsInOnePlace
  BY IInvImplies
<1> QED
  BY <1>1, Invariance, PTL

-----------------------------------------------------------------------------
(* SessionRef implements SessionLife *)

\* The stage of the slot follows from where its index is.
LEMMA StageOf ==
  ASSUME IInv
  PROVE  /\ Opening => Stage = "opening" /\ Users = {}
         /\ relMsgs + leaving > 0 => Stage = "closing" /\ Users = {}
         /\ freeIdx > 0 => Stage = "free" /\ Users = {}
         /\ Users # {} => Stage = "open"
<1> USE DEF IInv
<1>0. freeIdx \in Nat /\ relMsgs \in Nat /\ leaving \in Nat
  BY DEF TypeOK
<1>1. \A r \in Refs : joined = {} => ref[r] # "ok"
  BY DEF UnknownUnused
<1>2. Opening => Users = {} /\ Places = 0
  BY <1>1, AccApart DEF Opening, Users, Tokens, UsersSeeTheirSession, ClosedUnlessOpen
<1>3. Places = 1 => Users = {} /\ ~Opening
  BY <1>1, AccApart DEF Opening, Users, Tokens, UsersSeeTheirSession, ClosedUnlessOpen
<1>4. Places \in {0, 1}
  BY <1>0 DEF ClosedUnlessOpen, Places
<1> QED
  BY <1>0, <1>2, <1>3, <1>4 DEF Stage, Places, Opening

LEMMA LifeInit ==
  ASSUME Init PROVE Life!Init
  BY DEF Init, Life!Init, Stage, Users, NoId, Tokens

LEMMA LifeStep ==
  ASSUME NoScan, IInv, IInv', [Next]_vars
  PROVE  [Life!Next]_(Life!vars)
<1>0. /\ freeIdx \in Nat /\ relMsgs \in Nat /\ leaving \in Nat
      /\ ref \in [Tokens -> RefStates \cup AccStates]
      /\ Places \in {0, 1} /\ (Opening => Places = 0)
      /\ (Places = 1 => ~Opening)
  BY DEF IInv, TypeOK, ClosedUnlessOpen, Places
<1> DEFINE cur == IF ref[Acc] = "popped" THEN sessionID + 1 ELSE sessionID
<1>a. ASSUME Stage' = Stage, cur' = cur, Users' = Users
      PROVE  UNCHANGED Life!vars
  BY <1>a DEF Life!vars
<1>1. CASE UNCHANGED vars
  BY <1>1, <1>a DEF vars, Stage, Users
<1>2. CASE Pop
  <2>1. Stage = "free" /\ Stage' = "opening" /\ Users' = Users /\ cur' = cur + 1
    BY <1>0, <1>2, StageOf DEF Pop, Stage, Users, Tokens, Places
  <2> QED
    BY <2>1 DEF Life!Next, Life!Open
<1>3. CASE InitName
  <2>1. Stage' = Stage /\ cur' = cur /\ Users' = Users
    BY <1>0, <1>3 DEF InitName, slotVars, Stage, Users, Tokens
  <2> QED
    BY <2>1, <1>a
<1>4. CASE InitCount
  <2>1. Stage' = Stage /\ cur' = cur /\ Users' = Users
    BY <1>0, <1>4 DEF InitCount, slotVars, Stage, Users, Tokens
  <2> QED
    BY <2>1, <1>a
<1>5. CASE InitOpen
  <2>1. Stage = "opening" /\ Users = {} /\ Places = 0
    BY <1>0, <1>5, StageOf DEF InitOpen, Opening
  <2>2. Stage' = "open" /\ cur' = cur /\ Users' = {Acc}
    BY <1>0, <1>5, <2>1 DEF InitOpen, slotVars, Stage, Users, Tokens, Places
  <2> QED
    BY <2>1, <2>2 DEF Life!Next, Life!Publish
<1>6. CASE Join
  BY <1>6, <1>a DEF Join, slotVars, Stage, Users
<1>7. ASSUME NEW r \in Refs, Acquire(r) PROVE UNCHANGED Life!vars
  <2>1. Stage' = Stage /\ cur' = cur /\ Users' = Users
    BY <1>0, <1>7, AccApart DEF Acquire, slotVars, Stage, Users, Tokens
  <2> QED
    BY <2>1, <1>a
<1>8. ASSUME NEW r \in Refs, Validate(r) PROVE [Life!Next]_(Life!vars)
  <2>1. Stage' = Stage /\ cur' = cur
    BY <1>0, <1>8, AccApart DEF Validate, slotVars, Stage, Tokens
  <2>2. CASE Accepts(r)
    <3>1. Users' = Users \cup {r}
      BY <1>0, <1>8, <2>2 DEF Validate, Users, Tokens
    <3>2. relFlag = 0 /\ joined # {}
      BY <1>8, <2>2 DEF Validate, Accepts, IInv, UnknownUnused
    <3>3. Places = 0 /\ ~Opening
      BY <1>0, <3>2 DEF IInv, ClosedUnlessOpen
    <3>4. Stage = "open"
      BY <1>0, <3>3 DEF Stage, Places, Opening
    <3> QED
      BY <2>1, <3>1, <3>4 DEF Life!Next, Life!Enter, Life!Users
  <2>3. CASE ~Accepts(r)
    <3>1. Users' = Users
      BY <1>0, <1>8, <2>3 DEF Validate, Users, Tokens
    <3> QED
      BY <2>1, <3>1, <1>a
  <2> QED
    BY <2>2, <2>3
<1>9. ASSUME NEW r \in Tokens, NEW q \in Refs, Fork(r, q) PROVE [Life!Next]_(Life!vars)
  <2>1. Stage' = Stage /\ cur' = cur /\ Users' = Users \cup {q}
    BY <1>0, <1>9, AccApart DEF Fork, slotVars, Stage, Users, Tokens
  <2>2. Stage = "open"
    BY <1>9, StageOf DEF Fork, Users
  <2> QED
    BY <2>1, <2>2 DEF Life!Next, Life!Enter, Life!Users
<1>10. ASSUME NEW r \in Tokens, Drop(r) PROVE [Life!Next]_(Life!vars)
  <2>1. Stage' = Stage /\ cur' = cur /\ Users' = Users \ {r}
    BY <1>0, <1>10 DEF Drop, slotVars, Stage, Users, Tokens
  <2> QED
    BY <2>1, <1>a DEF Life!Next, Life!Leave, Life!Users, Tokens
<1>11. ASSUME NEW r \in Tokens, Release(r) PROVE [Life!Next]_(Life!vars)
  <2>1. cur' = cur /\ Users' = Users
    BY <1>0, <1>11 DEF Release, Users, Tokens
  <2>2. CASE refCnt = 0 /\ relFlag = 0
    <3>1. Holding = {}
      BY <2>2, ZeroMeansNobody DEF IInv
    <3>2. Users = {} /\ ref[Acc] \notin {"counted", "ok", "dead"}
      BY <3>1 DEF Holding, Users, Tokens
    <3>3. joined # {}
      BY <1>11, AccApart DEF IInv, UnknownUnused, IdsInOrder, Release, Tokens
    <3>4. Places = 0 /\ ~Opening
      BY <1>0, <2>2, <3>3 DEF IInv, ClosedUnlessOpen
    <3>5. Stage = "open" /\ Stage' = "closing"
      BY <1>0, <1>11, <2>2, <3>4 DEF Release, Stage, Opening, Places
    <3> QED
      BY <2>1, <3>2, <3>5 DEF Life!Next, Life!Close
  <2>3. CASE ~(refCnt = 0 /\ relFlag = 0)
    <3>1. Stage' = Stage
      BY <1>0, <1>11, <2>3 DEF Release, Stage, Tokens
    <3> QED
      BY <2>1, <3>1, <1>a
  <2> QED
    BY <2>2, <2>3
<1>12. CASE ReleaseLeave
  <2>1. Stage' = Stage /\ cur' = cur /\ Users' = Users
    BY <1>0, <1>12 DEF ReleaseLeave, Stage, Users
  <2> QED
    BY <2>1, <1>a
<1>13. CASE ReleasePush
  <2>1. Stage = "closing" /\ Stage' = "free" /\ cur' = cur /\ Users' = Users
    BY <1>0, <1>13 DEF ReleasePush, Stage, Users, Places, Opening
  <2> QED
    BY <2>1 DEF Life!Next, Life!Recycle
<1>14. CASE RegisterFails
  <2>1. Stage' = Stage /\ cur' = cur /\ Users' = Users \ {Acc}
    BY <1>0, <1>14 DEF RegisterFails, slotVars, Stage, Users, Tokens
  <2>2. Acc \in Users
    BY <1>14 DEF RegisterFails, Users, Tokens
  <2> QED
    BY <2>1, <2>2 DEF Life!Next, Life!Leave, Life!Users
<1> HIDE DEF cur
<1> QED
  BY <1>1, <1>2, <1>3, <1>4, <1>5, <1>6, <1>7, <1>8, <1>9, <1>10, <1>11, <1>12,
     <1>13, <1>14 DEF Next

\* The reference protocol of the code keeps the promise of SessionLife: a slot
\* opens, is used, closes only without users and is recycled only after that.
THEOREM ImplementsLife ==
  ASSUME NoScan
  PROVE  Spec => LifeSpec
<1>1. Init => Life!Init
  BY LifeInit
<1>2. IInv /\ IInv' /\ [Next]_vars => [Life!Next]_(Life!vars)
  BY LifeStep
<1> QED
  BY <1>1, <1>2, Invariance, PTL DEF Spec, LifeSpec, Life!Spec
=============================================================================
