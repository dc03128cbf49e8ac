------------------------- MODULE MshmPoolLockProofs -------------------------
(***************************************************************************)
(* The theorems about the pool's lock and about what it protects: the lock *)
(* survives every crash and re-creation, it excludes as long as the        *)
(* segment is created once, and then no read call hands out a torn frame.  *)
(***************************************************************************)
EXTENDS MshmPoolProofs, FiniteSetTheorems

(* Every step is one of these as far as the lock goes. *)
Enters(p) == MShmLock(p) /\ p \notin Holders /\ Holders' = Holders \cup {p}
Leaves(p) == MShmUnLock(p) /\ p \in Holders /\ Holders' = Holders \ {p}
Dies(p)   == ExitUndo(p) /\ Holders' = Holders \ {p}

----------------------------------------------------------------------------
(* The processes whose death gives the lock back, and those whose death    *)
(* takes it: they gave back a lock that SETVAL had forced open meanwhile.  *)
GivesBack == {p \in Procs : adj[p] = 1}
TakesBack == {p \in Procs : adj[p] = -1}

(* A process outside the lock never has an adjustment that would open it,  *)
(* and the value accounts for all adjustments (more than accounts, when    *)
(* the kernel has cut an adjustment off at zero).                          *)
LockInv ==
  /\ \A p \in Procs : adj[p] \in (IF p \in Holders THEN {0, 1} ELSE {-1, 0})
  /\ starts > 0 => lock + Cardinality(GivesBack) >= 1 + Cardinality(TakesBack)

(* With one creation of the segment the value says who is inside. *)
ExclusionInv ==
  /\ \A p \in Procs : adj[p] = IF p \in Holders THEN 1 ELSE 0
  /\ starts = 0 => lock = 0 /\ Holders = {}
  /\ starts > 0 => \/ lock = 1 /\ Holders = {}
                   \/ lock = 0 /\ \E p \in Procs : Holders = {p}

(* What a reader has read of an element under the lock is still so. *)
CopyInv ==
  \A r \in Readers : rd[r].pc = "copy" =>
    rd[r].bblock = EleAt(rd[r].cur).bblock /\ rd[r].len = EleAt(rd[r].cur).len

(* An element that is not in the pool has no bytes to copy. *)
FreedEmpty == \A i \in EleNos : ~Live(i) => eles[i].len = 0

(* For a reader alone on its slot: asleep with nothing signalled, it has   *)
(* read all there is, or the producer is about to signal.                  *)
WakeupInv ==
  \A r \in Readers :
    (Owns(r) /\ rd[r].pc = "gpWait" /\ sem[rd[r].userno] = 0 /\ Running /\ ppc # "signal")
      => tail = head \/ Slot(r).curele = tail

LEMMA HoldersAre ==
  /\ \A r \in Readers : r \in Holders <=> rd[r].pc = "copy"
  /\ Producer \in Holders <=> ppc \notin {"down", "create", "idle"}
  /\ Holders \subseteq Procs
  BY PoolAssumption DEF Holders, Procs

(* A reader's step is about that reader alone. *)
LEMMA OwnLocalsOnly ==
  ASSUME TypeOK, NEW r \in Readers, ReaderStep(r) \/ ReaderCall(r)
  PROVE  \A q \in Readers : q # r => rd'[q] = rd[q]
PROOF
  <1> USE DEF TypeOK, ReadersTypeOK
  <1>1. CASE ReaderStep(r)
    BY <1>1 DEF ReaderStep, GetResourceLock, SaveEle2Buf, SaveEle2BufBegin, GetPacketTest, GetPacketSemReq,
       GetPacketSemZero, GetPacketReset, GetPacketClear, GetPacketLock, Goto
  <1>2. CASE ReaderCall(r)
    BY <1>2 DEF ReaderCall, MShmPoolReq, MShmPoolReqBusy, MShmPoolReqFree, GetResourceSemReq,
       GetPacketBegin, MShmPoolMvUsrPlace, MShmPoolMvNewPlace, Move, MShmPoolReActiveUsr,
       MShmPoolDelUsrByPid, ReaderCrash, Goto
  <1> QED BY <1>1, <1>2

(* A read call holds the lock from the step that finds the element to the  *)
(* step that has copied it, and no other call is cut in two.               *)
LEMMA ReaderLocks ==
  ASSUME TypeOK, NEW r \in Readers, ReaderStep(r) \/ ReaderCall(r)
  PROVE  \/ MShmLock(r) /\ rd[r].pc # "copy" /\ rd'[r].pc = "copy"
         \/ MShmUnLock(r) /\ rd[r].pc = "copy" /\ rd'[r].pc # "copy"
         \/ ExitUndo(r) /\ rd'[r].pc # "copy"
         \/ UNCHANGED lk /\ (rd'[r].pc = "copy" <=> rd[r].pc = "copy")
PROOF
  <1> USE DEF TypeOK, ReadersTypeOK, Rd
  <1>1. CASE GetResourceLock(r) \/ GetPacketLock(r)
    BY <1>1 DEF GetResourceLock, GetPacketLock, SaveEle2BufBegin
  <1>2. CASE SaveEle2Buf(r)
    <2>1. MShmUnLock(r) /\ rd[r].pc = "copy"
      BY <1>2 DEF SaveEle2Buf
    <2>2. rd'[r].pc = "idle"
      BY <1>2 DEF SaveEle2Buf, Between
    <2> QED BY <2>1, <2>2
  <1>3. CASE ReaderCrash(r)
    BY <1>3 DEF ReaderCrash, DetachedReader, Between
  <1>4. CASE MShmPoolReqBusy(r) \/ MShmPoolReActiveUsr(r) \/ MShmPoolDelUsrByPid(r)
             \/ \E place \in Places : MShmPoolMvUsrPlace(r, place) \/ MShmPoolMvNewPlace(r, place)
    BY <1>4 DEF MShmPoolReqBusy, MShmPoolReActiveUsr, MShmPoolDelUsrByPid, MShmPoolMvUsrPlace,
       MShmPoolMvNewPlace, Move, UnderLock
  <1>5. CASE MShmPoolReq(r) \/ MShmPoolReqFree(r)
    BY <1>5 DEF MShmPoolReq, MShmPoolReqFree, UnderLock, DetachedReader, AttachedReader, Between
  <1>6. CASE GetResourceSemReq(r) \/ GetPacketBegin(r) \/ GetPacketTest(r) \/ GetPacketSemReq(r)
             \/ GetPacketSemZero(r) \/ GetPacketReset(r) \/ GetPacketClear(r)
    BY <1>6 DEF GetResourceSemReq, GetPacketBegin, GetPacketTest, GetPacketSemReq,
       GetPacketSemZero, GetPacketReset, GetPacketClear, UnderLock, Goto
  <1> QED BY <1>1, <1>2, <1>3, <1>4, <1>5, <1>6 DEF ReaderStep, ReaderCall

(* What any step does to the lock and to the processes inside. *)
LEMMA LockCases ==
  ASSUME TypeOK, [Next]_vars
  PROVE  \/ MShmCoreCreate /\ Holders' = Holders
         \/ /\ starts' = starts
            /\ \/ \E p \in Procs : Enters(p) \/ Leaves(p) \/ Dies(p)
               \/ UNCHANGED lk /\ Holders' = Holders
PROOF
  <1> USE HoldersAre, ProducerIsProc
  <1>1. CASE MShmCoreCreate
    BY <1>1 DEF MShmCoreCreate, Holders
  <1>2. CASE \E n \in Needs : AddBegin(n)
    <2>1. /\ MShmLock(Producer) /\ ppc = "idle" /\ ppc' \in {"reserve", "free"}
          /\ rd' = rd /\ starts' = starts
      BY <1>2 DEF AddBegin
    <2>2. Holders' = Holders \cup {Producer} /\ Producer \notin Holders
      BY <2>1 DEF Holders
    <2> QED BY <2>1, <2>2 DEF Enters
  <1>3. CASE MShmPoolCreateLock
    <2>1. /\ MShmLock(Producer) /\ ppc = "create" /\ ppc' = "init"
          /\ rd' = rd /\ starts' = starts
      BY <1>3 DEF MShmPoolCreateLock
    <2>2. Holders' = Holders \cup {Producer} /\ Producer \notin Holders
      BY <2>1 DEF Holders
    <2> QED BY <2>1, <2>2 DEF Enters
  <1>4. CASE MShmPoolCreate \/ AddNoMem \/ SemAddAll
    <2>1. /\ MShmUnLock(Producer) /\ ppc \in {"init", "free", "signal"} /\ ppc' = "idle"
          /\ rd' = rd /\ starts' = starts
      BY <1>4 DEF MShmPoolCreate, AddNoMem, SemAddAll
    <2>2. Holders' = Holders \ {Producer} /\ Producer \in Holders
      BY <2>1, PoolAssumption DEF Holders
    <2> QED BY <2>1, <2>2 DEF Leaves
  <1>5. CASE FreeBlocks \/ FreeBlocksDone \/ AddReserve \/ InsertData2Ele \/ AddPublish
    <2>1. /\ UNCHANGED lk /\ ppc \notin {"down", "create", "idle"}
          /\ ppc' \notin {"down", "create", "idle"} /\ rd' = rd /\ starts' = starts
      BY <1>5 DEF FreeBlocks, FreeBlocksDone, AddReserve, InsertData2Ele, AddPublish, prod
    <2> QED BY <2>1 DEF Holders
  <1>6. CASE ProducerCrash
    <2>1. ExitUndo(Producer) /\ ppc' = "down" /\ rd' = rd /\ starts' = starts
      BY <1>6 DEF ProducerCrash
    <2>2. Holders' = Holders \ {Producer}
      BY <2>1, PoolAssumption DEF Holders
    <2> QED BY <2>1, <2>2 DEF Dies
  <1>7. CASE \E r \in Readers : ReaderStep(r) \/ ReaderCall(r)
    <2>1. PICK r \in Readers : ReaderStep(r) \/ ReaderCall(r)
      BY <1>7
    <2>2. ppc' = ppc /\ starts' = starts /\ r # Producer
      BY <2>1, ReaderLeavesRing, PoolAssumption DEF prod
    <2>3. \A q \in Readers : q # r => rd'[q] = rd[q]
      BY <2>1, OwnLocalsOnly
    <2>4. /\ rd'[r].pc = "copy" => Holders' = Holders \cup {r}
          /\ rd'[r].pc # "copy" => Holders' = Holders \ {r}
      BY <2>2, <2>3 DEF Holders
    <2>5. r \in Holders <=> rd[r].pc = "copy"
      OBVIOUS
    <2>6. CASE MShmLock(r) /\ rd[r].pc # "copy" /\ rd'[r].pc = "copy"
      BY <2>2, <2>4, <2>5, <2>6 DEF Enters
    <2>7. CASE MShmUnLock(r) /\ rd[r].pc = "copy" /\ rd'[r].pc # "copy"
      BY <2>2, <2>4, <2>5, <2>7 DEF Leaves
    <2>8. CASE ExitUndo(r) /\ rd'[r].pc # "copy"
      BY <2>2, <2>4, <2>8 DEF Dies
    <2>9. CASE UNCHANGED lk /\ (rd'[r].pc = "copy" <=> rd[r].pc = "copy")
      <3>1. Holders' = Holders
        BY <2>4, <2>5, <2>9
      <3> QED BY <2>2, <2>9, <3>1
    <2> QED BY <2>1, <2>6, <2>7, <2>8, <2>9, ReaderLocks
  <1>8. CASE UNCHANGED vars
    BY <1>8 DEF vars, prod, Holders
  <1> QED BY <1>1, <1>2, <1>3, <1>4, <1>5, <1>6, <1>7, <1>8 DEF Next, ProducerStep

----------------------------------------------------------------------------
LEMMA FiniteUndo ==
  /\ IsFiniteSet(Procs) /\ IsFiniteSet(GivesBack) /\ IsFiniteSet(TakesBack)
  /\ Cardinality(GivesBack) \in Nat /\ Cardinality(TakesBack) \in Nat
PROOF
  <1>1. IsFiniteSet(Procs)
    BY PoolAssumption, FS_AddElement DEF Procs
  <1>2. GivesBack \in SUBSET Procs /\ TakesBack \in SUBSET Procs
    BY DEF GivesBack, TakesBack
  <1>3. IsFiniteSet(GivesBack) /\ IsFiniteSet(TakesBack)
    BY <1>1, <1>2, FS_Subset
  <1> QED BY <1>1, <1>3, FS_CardinalityType

(* How the two sets change when one process's adjustment does. *)
LEMMA UndoCounts ==
  ASSUME adj \in [Procs -> Int], NEW p \in Procs, NEW v \in {-1, 0, 1},
         adj[p] \in {-1, 0, 1}, adj' = [adj EXCEPT ![p] = v]
  PROVE  /\ Cardinality(GivesBack)' = Cardinality(GivesBack)
                + (IF v = 1 THEN 1 ELSE 0) - (IF adj[p] = 1 THEN 1 ELSE 0)
         /\ Cardinality(TakesBack)' = Cardinality(TakesBack)
                + (IF v = -1 THEN 1 ELSE 0) - (IF adj[p] = -1 THEN 1 ELSE 0)
PROOF
  <1>1. GivesBack' = IF v = 1 THEN GivesBack \cup {p} ELSE GivesBack \ {p}
    BY DEF GivesBack
  <1>2. TakesBack' = IF v = -1 THEN TakesBack \cup {p} ELSE TakesBack \ {p}
    BY DEF TakesBack
  <1>3. (p \in GivesBack <=> adj[p] = 1) /\ (p \in TakesBack <=> adj[p] = -1)
    BY DEF GivesBack, TakesBack
  <1>4. /\ Cardinality(GivesBack \cup {p}) = IF p \in GivesBack THEN Cardinality(GivesBack)
                                             ELSE Cardinality(GivesBack) + 1
        /\ Cardinality(GivesBack \ {p}) = IF p \in GivesBack THEN Cardinality(GivesBack) - 1
                                          ELSE Cardinality(GivesBack)
    BY FiniteUndo, FS_AddElement, FS_RemoveElement
  <1>5. /\ Cardinality(TakesBack \cup {p}) = IF p \in TakesBack THEN Cardinality(TakesBack)
                                             ELSE Cardinality(TakesBack) + 1
        /\ Cardinality(TakesBack \ {p}) = IF p \in TakesBack THEN Cardinality(TakesBack) - 1
                                          ELSE Cardinality(TakesBack)
    BY FiniteUndo, FS_AddElement, FS_RemoveElement
  <1>6. Cardinality(GivesBack)' = Cardinality(GivesBack)
                + (IF v = 1 THEN 1 ELSE 0) - (IF adj[p] = 1 THEN 1 ELSE 0)
    BY <1>1, <1>3, <1>4, FiniteUndo
  <1>7. Cardinality(TakesBack)' = Cardinality(TakesBack)
                + (IF v = -1 THEN 1 ELSE 0) - (IF adj[p] = -1 THEN 1 ELSE 0)
    BY <1>2, <1>3, <1>5, FiniteUndo
  <1> QED BY <1>6, <1>7

LEMMA UndoArith ==
  ASSUME NEW l \in Nat, NEW m \in Nat, NEW g \in Nat, NEW t \in Nat,
         NEW a \in {-1, 0, 1}, NEW v \in {-1, 0, 1}, m - l >= a - v, l + g >= 1 + t
  PROVE  m + (g + (IF v = 1 THEN 1 ELSE 0) - (IF a = 1 THEN 1 ELSE 0))
           >= 1 + (t + (IF v = -1 THEN 1 ELSE 0) - (IF a = -1 THEN 1 ELSE 0))
  OBVIOUS

LEMMA LockInvInit == Init => LockInv
  BY HoldersAre DEF Init, LockInv, DetachedReader, Between

LEMMA LockInvStep == TypeOK /\ LockInv /\ [Next]_vars => LockInv'
PROOF
  <1> SUFFICES ASSUME TypeOK, LockInv, [Next]_vars
               PROVE  LockInv'
    OBVIOUS
  <1> DEFINE G == Cardinality(GivesBack)
             T == Cardinality(TakesBack)
  <1>0. lock \in Nat /\ adj \in [Procs -> Int] /\ G \in Nat /\ T \in Nat
    BY FiniteUndo DEF TypeOK, LockTypeOK
  <1>a. \A p \in Procs : adj[p] \in {-1, 0, 1}
    BY DEF LockInv
  <1>1. CASE MShmCoreCreate /\ Holders' = Holders
    <2>1. lock' = 1 /\ adj' = [p \in Procs |-> 0]
      BY <1>1 DEF MShmCoreCreate
    <2>2. GivesBack' = {} /\ TakesBack' = {}
      BY <2>1 DEF GivesBack, TakesBack
    <2>3. Cardinality(GivesBack)' = 0 /\ Cardinality(TakesBack)' = 0
      BY <2>2, FS_EmptySet
    <2> QED BY <2>1, <2>3 DEF LockInv
  <1>2. CASE starts' = starts /\ \E p \in Procs : Enters(p) \/ Leaves(p) \/ Dies(p)
    <2>1. PICK p \in Procs : Enters(p) \/ Leaves(p) \/ Dies(p)
      BY <1>2
    <2>2. PICK v \in {-1, 0, 1} :
            /\ adj' = [adj EXCEPT ![p] = v]
            /\ v \in (IF p \in Holders' THEN {0, 1} ELSE {-1, 0})
            /\ lock' \in Nat /\ lock' - lock >= adj[p] - v
      <3>1. CASE Enters(p)
        <4>1. adj[p] \in {-1, 0} /\ p \in Holders'
          BY <3>1 DEF Enters, LockInv
        <4>2. adj' = [adj EXCEPT ![p] = adj[p] + 1] /\ lock' = lock - 1 /\ lock > 0
          BY <3>1 DEF Enters, MShmLock
        <4> WITNESS adj[p] + 1 \in {-1, 0, 1}
        <4> QED BY <1>0, <4>1, <4>2
      <3>2. CASE Leaves(p)
        <4>1. adj[p] \in {0, 1} /\ p \notin Holders'
          BY <3>2 DEF Leaves, LockInv
        <4>2. adj' = [adj EXCEPT ![p] = adj[p] - 1] /\ lock' = lock + 1
          BY <3>2 DEF Leaves, MShmUnLock
        <4> WITNESS adj[p] - 1 \in {-1, 0, 1}
        <4> QED BY <1>0, <4>1, <4>2
      <3>3. CASE Dies(p)
        <4>1. adj' = [adj EXCEPT ![p] = 0] /\ p \notin Holders'
          BY <3>3 DEF Dies, ExitUndo
        <4>2. lock' = IF lock + adj[p] < 0 THEN 0 ELSE lock + adj[p]
          BY <3>3 DEF Dies, ExitUndo
        <4> WITNESS 0 \in {-1, 0, 1}
        <4> QED BY <1>0, <1>a, <4>1, <4>2
      <3> QED BY <2>1, <3>1, <3>2, <3>3
    <2>3. \A q \in Procs : q # p => (q \in Holders' <=> q \in Holders)
      BY <2>1 DEF Enters, Leaves, Dies
    <2>4. \A q \in Procs : adj'[q] \in (IF q \in Holders' THEN {0, 1} ELSE {-1, 0})
      BY <1>0, <2>2, <2>3 DEF LockInv
    <2>5. /\ Cardinality(GivesBack)' = G + (IF v = 1 THEN 1 ELSE 0) - (IF adj[p] = 1 THEN 1 ELSE 0)
          /\ Cardinality(TakesBack)' = T + (IF v = -1 THEN 1 ELSE 0) - (IF adj[p] = -1 THEN 1 ELSE 0)
      BY <1>0, <1>a, <2>2, UndoCounts
    <2>6. starts > 0 => lock + G >= 1 + T
      BY DEF LockInv
    <2>7. starts > 0 => lock' + Cardinality(GivesBack)' >= 1 + Cardinality(TakesBack)'
      <3> HIDE DEF G, T
      <3>1. adj[p] \in {-1, 0, 1}
        BY <1>a
      <3>2. starts > 0 =>
              lock' + (G + (IF v = 1 THEN 1 ELSE 0) - (IF adj[p] = 1 THEN 1 ELSE 0))
                >= 1 + (T + (IF v = -1 THEN 1 ELSE 0) - (IF adj[p] = -1 THEN 1 ELSE 0))
        <4>1. lock' - lock >= adj[p] - v /\ lock' \in Nat /\ v \in {-1, 0, 1}
          BY <2>2
        <4> DEFINE l == lock  m == lock'  a == adj[p]
        <4>2. l \in Nat /\ m \in Nat /\ G \in Nat /\ T \in Nat /\ a \in {-1, 0, 1}
              /\ m - l >= a - v /\ (starts > 0 => l + G >= 1 + T)
          BY <1>0, <2>6, <3>1, <4>1
        <4> HIDE DEF l, m, a
        <4>3. starts > 0 => m + (G + (IF v = 1 THEN 1 ELSE 0) - (IF a = 1 THEN 1 ELSE 0))
                >= 1 + (T + (IF v = -1 THEN 1 ELSE 0) - (IF a = -1 THEN 1 ELSE 0))
          BY <4>1, <4>2, UndoArith
        <4> QED BY <4>3 DEF l, m, a
      <3> QED BY <2>5, <3>2
    <2> QED BY <1>2, <2>4, <2>7 DEF LockInv
  <1>3. CASE starts' = starts /\ UNCHANGED lk /\ Holders' = Holders
    BY <1>3 DEF LockInv, lk, GivesBack, TakesBack
  <1> QED BY <1>1, <1>2, <1>3, LockCases

(* With nobody between MShmLock and MShmUnLock the lock can be taken,      *)
(* whatever mixture of crashes (SEM_UNDO, cut off at zero) and             *)
(* re-creations of the segment (SETVAL while readers are inside) came      *)
(* before: no reader and no producer is ever locked out for good.          *)
THEOREM LockSurvives == Spec => []LockNotLost
PROOF
  <1>1. TypeOK /\ LockInv => LockNotLost
    <2> SUFFICES ASSUME TypeOK, LockInv, starts > 0, Holders = {}
                 PROVE  lock > 0
      BY DEF LockNotLost
    <2>1. GivesBack = {}
      BY DEF LockInv, GivesBack
    <2>2. Cardinality(GivesBack) = 0
      BY <2>1, FS_EmptySet
    <2> QED BY <2>2, FiniteUndo DEF LockInv, TypeOK, LockTypeOK
  <1> QED BY <1>1, LockInvInit, LockInvStep, TypeCorrect, PTL DEF Spec

----------------------------------------------------------------------------
LEMMA ExclusionInit == Init => ExclusionInv
PROOF
  <1> SUFFICES ASSUME Init
               PROVE  ExclusionInv
    OBVIOUS
  <1>1. Holders = {}
    BY DEF Init, Holders, DetachedReader, Between
  <1> QED BY <1>1 DEF Init, ExclusionInv

LEMMA ExclusionStep ==
  ASSUME MaxStarts <= 1
  PROVE  TypeOK /\ ExclusionInv /\ [Next]_vars => ExclusionInv'
PROOF
  <1> SUFFICES ASSUME TypeOK, ExclusionInv, [Next]_vars
               PROVE  ExclusionInv'
    OBVIOUS
  <1>0. lock \in Nat /\ adj \in [Procs -> Int] /\ starts \in Nat
    BY PoolAssumption DEF TypeOK, LockTypeOK, ProducerTypeOK
  <1>1. CASE MShmCoreCreate /\ Holders' = Holders
    <2>1. lock' = 1 /\ adj' = [p \in Procs |-> 0] /\ starts < MaxStarts /\ starts' = starts + 1
      BY <1>1 DEF MShmCoreCreate
    <2>2. starts = 0
      BY <1>0, <2>1, PoolAssumption
    <2> QED BY <1>1, <2>1, <2>2 DEF ExclusionInv
  <1>2. CASE starts' = starts /\ \E p \in Procs : Enters(p) \/ Leaves(p) \/ Dies(p)
    <2>1. PICK p \in Procs : Enters(p) \/ Leaves(p) \/ Dies(p)
      BY <1>2
    <2>2. CASE Enters(p)
      <3>1. lock > 0 /\ lock' = lock - 1 /\ adj' = [adj EXCEPT ![p] = adj[p] + 1]
            /\ p \notin Holders /\ Holders' = Holders \cup {p}
        BY <2>2 DEF Enters, MShmLock
      <3>2. starts > 0 /\ lock = 1 /\ Holders = {}
        BY <1>0, <3>1 DEF ExclusionInv
      <3>3. Holders' = {p} /\ lock' = 0
        BY <3>1, <3>2
      <3>4. \A q \in Procs : adj'[q] = IF q \in Holders' THEN 1 ELSE 0
        BY <1>0, <3>1, <3>2, <3>3 DEF ExclusionInv
      <3> QED BY <1>2, <3>2, <3>3, <3>4 DEF ExclusionInv
    <2>3. CASE Leaves(p) \/ (Dies(p) /\ p \in Holders)
      <3>1. p \in Holders /\ Holders' = Holders \ {p}
        BY <2>3 DEF Leaves, Dies
      <3>2. starts > 0 /\ lock = 0 /\ Holders = {p} /\ adj[p] = 1
        BY <1>0, <3>1 DEF ExclusionInv
      <3>3. lock' = 1 /\ adj' = [adj EXCEPT ![p] = 0]
        BY <1>0, <2>3, <3>2 DEF Leaves, Dies, MShmUnLock, ExitUndo
      <3>4. Holders' = {}
        BY <3>1, <3>2
      <3> QED BY <1>0, <1>2, <3>2, <3>3, <3>4 DEF ExclusionInv
    <2>4. CASE Dies(p) /\ p \notin Holders
      <3>1. adj[p] = 0
        BY <2>4 DEF ExclusionInv
      <3>2. lock' = lock /\ adj' = adj /\ Holders' = Holders
        BY <1>0, <2>4, <3>1 DEF Dies, ExitUndo
      <3> QED BY <1>2, <3>2 DEF ExclusionInv
    <2> QED BY <2>1, <2>2, <2>3, <2>4 DEF Leaves
  <1>3. CASE starts' = starts /\ UNCHANGED lk /\ Holders' = Holders
    BY <1>3 DEF ExclusionInv, lk
  <1> QED BY <1>1, <1>2, <1>3, LockCases

(* As long as the segment is created once (MaxStarts <= 1: the producer    *)
(* may die, but is not started again) MShmLock excludes, for any number of *)
(* readers and with any process dying inside: the kernel gives back the    *)
(* lock of the dead and nobody else's.                                     *)
THEOREM LockExcludes ==
  ASSUME MaxStarts <= 1
  PROVE  Spec => []MutualExclusion
PROOF
  <1>1. TypeOK /\ ExclusionInv => MutualExclusion
    <2> SUFFICES ASSUME TypeOK, ExclusionInv
                 PROVE  Cardinality(Holders) <= 1
      BY DEF MutualExclusion
    <2>1. starts \in Nat
      BY PoolAssumption DEF TypeOK, ProducerTypeOK
    <2>2. Holders = {} \/ \E p \in Procs : Holders = {p}
      BY <2>1 DEF ExclusionInv
    <2>3. Cardinality(Holders) = 0 \/ Cardinality(Holders) = 1
      BY <2>2, FS_EmptySet, FS_Singleton
    <2> QED BY <2>3
  <1> QED BY <1>1, ExclusionInit, ExclusionStep, TypeCorrect, PTL DEF Spec

----------------------------------------------------------------------------
(* Which elements are in the pool after its oldest one has left. *)
LEMMA FreeHeadLive ==
  ASSUME RingType, count > 0, FreeHead, NEW i \in EleNos
  PROVE  /\ Live(i)' <=> (Live(i) /\ i # head)
         /\ i # head => Pos(i)' = Pos(i) - 1 /\ eles'[i] = eles[i]
         /\ Pos(i) \in 0 .. MaxEle - 1 /\ Pos(i)' \in 0 .. MaxEle - 1
PROOF
  <1> USE Sizes
  <1>1. /\ count \in 0 .. MaxEle /\ head \in 0 .. MaxEle - 1 /\ i \in 0 .. MaxEle - 1
    BY DEF RingType, EleNos
  <1>2. head' = (IF head + 1 >= MaxEle THEN 0 ELSE head + 1) /\ count' = count - 1
    BY DEF FreeHead, NewerEle
  <1>3. i # head => Pos(i)' = Pos(i) - 1
    BY <1>1, <1>2 DEF Pos
  <1>4. i = head => Pos(i)' = MaxEle - 1
    BY <1>1, <1>2 DEF Pos
  <1>5. Pos(i) \in 0 .. MaxEle - 1 /\ Pos(i)' \in 0 .. MaxEle - 1
    BY <1>1, <1>2 DEF Pos
  <1>6. i # head => eles'[i] = eles[i]
    BY DEF FreeHead, RingType
  <1> QED BY <1>1, <1>2, <1>3, <1>4, <1>5, <1>6 DEF Live

LEMMA FreedStutters == FreedEmpty /\ UNCHANGED ring => FreedEmpty'
  BY DEF FreedEmpty, ring, Live, Pos

LEMMA FreeHeadFreed ==
  ASSUME RingType, FreedEmpty, count > 0, FreeHead
  PROVE  FreedEmpty'
PROOF
  <1> SUFFICES ASSUME NEW i \in EleNos, ~(Live(i)')
               PROVE  eles'[i].len = 0
    BY DEF FreedEmpty
  <1>1. CASE i = head
    BY <1>1 DEF FreeHead, RingType, Emptied
  <1>2. CASE i # head
    BY <1>2, FreeHeadLive DEF FreedEmpty
  <1> QED BY <1>1, <1>2

LEMMA FreedInit == Init => FreedEmpty
  BY DEF Init, FreedEmpty, NoEle

LEMMA FreedStep == IInv /\ FreedEmpty /\ [Next]_vars => FreedEmpty'
PROOF
  <1> SUFFICES ASSUME TypeOK, RingInv, FreedEmpty, [Next]_vars
               PROVE  FreedEmpty'
    BY DEF IInv
  <1> USE Sizes
  <1>0. RingType
    BY TypeRing
  <1>1. CASE MShmPoolCreate
    BY <1>1 DEF MShmPoolCreate, FreedEmpty, NoEle
  <1>2. CASE FreeBlocks
    BY <1>0, <1>2, FreeHeadFreed DEF FreeBlocks
  <1>3. CASE AddReserve
    <2>1. /\ \A i \in EleNos : eles'[i].len = eles[i].len
          /\ count' = count /\ head' = head
      BY <1>0, <1>3 DEF AddReserve, RingType
    <2> QED BY <2>1 DEF FreedEmpty, Live, Pos
  <1>4. CASE InsertData2Ele
    <2>1. Pos(tail) = count /\ head' = head /\ count' = count + 1
      BY <1>4 DEF InsertData2Ele, RingInv, Running, WindowInv
    <2>2. \A i \in EleNos : i # tail => eles'[i] = eles[i]
      BY <1>0, <1>4 DEF InsertData2Ele, RingType
    <2>3. \A i \in EleNos : Live(i)' <=> Live(i) \/ i = tail
      BY <1>0, <2>1 DEF Live, Pos, RingType, EleNos
    <2> QED BY <2>2, <2>3 DEF FreedEmpty
  <1>5. CASE AddPublish
    <2>1. count > 0
      BY <1>0, <1>5 DEF AddPublish, RingInv, Running, WindowInv, Pos, RingType
    <2>2. CASE FreeHead
      BY <1>0, <2>1, <2>2, FreeHeadFreed
    <2>3. CASE UNCHANGED <<fblocks, count, eles, head>>
      BY <2>3 DEF FreedEmpty, Live, Pos
    <2> QED BY <1>5, <2>2, <2>3 DEF AddPublish
  <1>6. CASE MShmCoreCreate \/ (\E n \in Needs : AddBegin(n)) \/ MShmPoolCreateLock
             \/ FreeBlocksDone \/ AddNoMem \/ SemAddAll \/ ProducerCrash \/ UNCHANGED vars
    BY <1>6, FreedStutters DEF MShmCoreCreate, AddBegin, MShmPoolCreateLock, FreeBlocksDone,
       AddNoMem, SemAddAll, ProducerCrash, vars
  <1>7. CASE \E r \in Readers : ReaderStep(r) \/ ReaderCall(r)
    BY <1>7, ReaderLeavesRing, FreedStutters
  <1> QED BY <1>1, <1>2, <1>3, <1>4, <1>5, <1>6, <1>7 DEF Next, ProducerStep

(* Whatever element a read call finds, live, freed or never used, its      *)
(* bytes are those of its number.                                          *)
LEMMA ElesIntact ==
  ASSUME TypeOK, LiveDataIntact, FreedEmpty, NEW i \in -1 .. MaxEle - 1,
         NEW b \in BlocksOf(EleAt(i).bblock, EleAt(i).len)
  PROVE  data[b] = EleAt(i).num
PROOF
  <1>1. EleAt(i).len # 0
    BY DEF BlocksOf
  <1>2. i # -1
    BY <1>1 DEF EleAt, NoEle
  <1>3. i \in EleNos /\ EleAt(i) = eles[i]
    BY <1>2, Sizes DEF EleNos, EleAt
  <1>4. Live(i)
    BY <1>1, <1>3 DEF FreedEmpty
  <1> QED BY <1>3, <1>4 DEF LiveDataIntact

(* The rings change under the lock only. *)
LEMMA RingUnderLock ==
  ASSUME TypeOK, [Next]_vars, Producer \notin Holders
  PROVE  UNCHANGED ring
PROOF
  <1>1. ppc \in {"down", "create", "idle"}
    BY HoldersAre
  <1>2. CASE \E r \in Readers : ReaderStep(r) \/ ReaderCall(r)
    BY <1>2, ReaderLeavesRing
  <1>3. CASE MShmCoreCreate \/ (\E n \in Needs : AddBegin(n)) \/ ProducerStep \/ ProducerCrash
             \/ UNCHANGED vars
    BY <1>1, <1>3 DEF MShmCoreCreate, AddBegin, ProducerCrash, vars, ProducerStep,
       MShmPoolCreateLock, MShmPoolCreate, FreeBlocks, FreeBlocksDone, AddNoMem, AddReserve,
       InsertData2Ele, AddPublish, SemAddAll
  <1> QED BY <1>2, <1>3 DEF Next

(* A read call looks the element up once, and records nothing but what its *)
(* copy finds.                                                             *)
LEMMA ReadLocals ==
  ASSUME TypeOK, NEW r \in Readers, ReaderStep(r) \/ ReaderCall(r)
  PROVE  /\ rd'[r].pc = "copy" =>
              \/ rd' = rd
              \/ rd'[r].bblock = EleAt(rd'[r].cur).bblock /\ rd'[r].len = EleAt(rd'[r].cur).len
         /\ \/ rd'[r].torn = rd[r].torn
            \/ rd'[r].torn = FALSE
            \/ /\ rd[r].pc = "copy"
               /\ rd'[r].torn = \/ rd[r].torn
                                \/ \E b \in BlocksOf(rd[r].bblock, rd[r].len) :
                                     data[b] # EleAt(rd[r].cur).num
PROOF
  <1> USE DEF TypeOK, ReadersTypeOK, Rd
  <1>1. CASE GetResourceLock(r) \/ GetPacketLock(r)
    <2>1. PICK i : SaveEle2BufBegin(r, i)
      BY <1>1 DEF GetResourceLock, GetPacketLock
    <2>2. /\ rd'[r].cur = i /\ rd'[r].bblock = EleAt(i).bblock /\ rd'[r].len = EleAt(i).len
          /\ rd'[r].torn = rd[r].torn
      BY <2>1 DEF SaveEle2BufBegin
    <2> QED BY <2>2
  <1>2. CASE SaveEle2Buf(r)
    BY <1>2 DEF SaveEle2Buf, Between
  <1>3. CASE ReaderCrash(r)
    BY <1>3 DEF ReaderCrash, DetachedReader, Between
  <1>4. CASE MShmPoolReqBusy(r) \/ MShmPoolReActiveUsr(r) \/ MShmPoolDelUsrByPid(r)
             \/ \E place \in Places : MShmPoolMvUsrPlace(r, place) \/ MShmPoolMvNewPlace(r, place)
    BY <1>4 DEF MShmPoolReqBusy, MShmPoolReActiveUsr, MShmPoolDelUsrByPid, MShmPoolMvUsrPlace,
       MShmPoolMvNewPlace, Move, UnderLock
  <1>5. CASE MShmPoolReq(r) \/ MShmPoolReqFree(r)
    <2>1. rd'[r].torn = FALSE /\ rd'[r].pc # "copy"
      BY <1>5 DEF MShmPoolReq, MShmPoolReqFree, DetachedReader, AttachedReader, Between
    <2> QED BY <2>1
  <1>6. CASE GetResourceSemReq(r) \/ GetPacketBegin(r) \/ GetPacketTest(r) \/ GetPacketSemReq(r)
             \/ GetPacketSemZero(r) \/ GetPacketReset(r) \/ GetPacketClear(r)
    BY <1>6 DEF GetResourceSemReq, GetPacketBegin, GetPacketTest, GetPacketSemReq,
       GetPacketSemZero, GetPacketReset, GetPacketClear, UnderLock, Goto
  <1> QED BY <1>1, <1>2, <1>3, <1>4, <1>5, <1>6 DEF ReaderStep, ReaderCall

DeliveryInv == IInv /\ ExclusionInv /\ FreedEmpty /\ CopyInv /\ DeliveredIntact

LEMMA DeliveryInit == Init => DeliveryInv
  BY IInvInit, ExclusionInit, FreedInit
     DEF Init, DeliveryInv, CopyInv, DeliveredIntact, DetachedReader, Between

LEMMA DeliveryStep ==
  ASSUME MaxStarts <= 1
  PROVE  DeliveryInv /\ [Next]_vars => DeliveryInv'
PROOF
  <1> SUFFICES ASSUME DeliveryInv, [Next]_vars
               PROVE  DeliveryInv'
    OBVIOUS
  <1>0. TypeOK /\ LiveDataIntact /\ FreedEmpty /\ CopyInv /\ DeliveredIntact /\ ExclusionInv
    BY DEF DeliveryInv, IInv
  <1>1. IInv' /\ ExclusionInv' /\ FreedEmpty'
    BY IInvStep, ExclusionStep, FreedStep DEF DeliveryInv, IInv
  <1>2. CASE \E r \in Readers : ReaderStep(r) \/ ReaderCall(r)
    <2>1. PICK r \in Readers : ReaderStep(r) \/ ReaderCall(r)
      BY <1>2
    <2>2. UNCHANGED ring
      BY <2>1, ReaderLeavesRing
    <2>4. \A q \in Readers : q # r => rd'[q] = rd[q]
      BY <1>0, <2>1, OwnLocalsOnly
    <2>5. CopyInv'
      <3> SUFFICES ASSUME NEW q \in Readers, rd'[q].pc = "copy"
                   PROVE  /\ rd'[q].bblock = EleAt(rd'[q].cur).bblock
                          /\ rd'[q].len = EleAt(rd'[q].cur).len
        BY <2>2 DEF CopyInv, ring, EleAt
      <3>1. CASE q = r
        <4>1. rd' = rd \/ /\ rd'[r].bblock = EleAt(rd'[r].cur).bblock
                          /\ rd'[r].len = EleAt(rd'[r].cur).len
          BY <1>0, <2>1, <3>1, ReadLocals
        <4> QED BY <1>0, <3>1, <4>1 DEF CopyInv
      <3>2. CASE q # r
        BY <1>0, <2>4, <3>2 DEF CopyInv
      <3> QED BY <3>1, <3>2
    <2>6. ~(rd'[r].torn)
      <3>1. rd[r].torn = FALSE
        BY <1>0, RdType DEF DeliveredIntact, TypeOK
      <3>2. ASSUME rd[r].pc = "copy"
            PROVE  ~ \E b \in BlocksOf(rd[r].bblock, rd[r].len) : data[b] # EleAt(rd[r].cur).num
        <4>1. /\ rd[r].bblock = EleAt(rd[r].cur).bblock /\ rd[r].len = EleAt(rd[r].cur).len
              /\ rd[r].cur \in -1 .. MaxEle - 1
          BY <1>0, <3>2, RdType DEF CopyInv, TypeOK
        <4> QED BY <1>0, <4>1, ElesIntact
      <3> QED BY <1>0, <2>1, <3>1, <3>2, ReadLocals
    <2>7. DeliveredIntact'
      BY <1>0, <2>4, <2>6 DEF DeliveredIntact
    <2> QED BY <1>1, <2>5, <2>7 DEF DeliveryInv
  <1>3. CASE MShmCoreCreate \/ (\E n \in Needs : AddBegin(n)) \/ ProducerStep \/ ProducerCrash
             \/ UNCHANGED vars
    <2>1. rd' = rd
      BY <1>3 DEF MShmCoreCreate, AddBegin, ProducerCrash, vars, ProducerStep,
         MShmPoolCreateLock, MShmPoolCreate, FreeBlocks, FreeBlocksDone, AddNoMem, AddReserve,
         InsertData2Ele, AddPublish, SemAddAll
    <2>2. CopyInv'
      <3> SUFFICES ASSUME NEW r \in Readers, rd[r].pc = "copy"
                   PROVE  UNCHANGED ring
        BY <1>0, <2>1 DEF CopyInv, ring, EleAt
      <3>1. starts \in Nat
        BY <1>0, PoolAssumption DEF TypeOK, ProducerTypeOK
      <3>2. r \in Holders /\ r # Producer
        BY HoldersAre, PoolAssumption
      <3>3. Holders = {r}
        BY <1>0, <3>1, <3>2 DEF ExclusionInv
      <3> QED BY <1>0, <3>2, <3>3, RingUnderLock
    <2>3. DeliveredIntact'
      BY <1>0, <2>1 DEF DeliveredIntact
    <2> QED BY <1>1, <2>2, <2>3 DEF DeliveryInv
  <1> QED BY <1>2, <1>3 DEF Next

(* As long as the segment is created once, no read call hands its caller   *)
(* bytes of two frames: not when the element was freed, overwritten or     *)
(* lapped between the unlocked test of MShmPoolGetPacket and its copy, not *)
(* when the cursor is -1 or moved past the tail, and not after a producer  *)
(* has died in the middle of MShmPoolAddResource.                          *)
THEOREM FramesDeliveredWhole ==
  ASSUME MaxStarts <= 1
  PROVE  Spec => []DeliveredIntact
PROOF
  <1>1. DeliveryInv => DeliveredIntact
    BY DEF DeliveryInv
  <1> QED BY <1>1, DeliveryInit, DeliveryStep, PTL DEF Spec

----------------------------------------------------------------------------
(* In the loop of MShmPoolGetPacket the element number that is tested is   *)
(* the cursor in the slot.                                                 *)
CursorKnown ==
  \A r \in Readers : rd[r].pc \in {"gpTest", "gpWait"} => rd[r].cur = Slot(r).curele

OneReader == \A p, q \in Readers : p = q

(* How a reader comes to, or stays at, the loop test or its sleep.         *)
LEMMA WaitSteps ==
  ASSUME TypeOK, "ReActive" \notin Ops, NEW r \in Readers, ReaderStep(r) \/ ReaderCall(r),
         rd'[r].pc \in {"gpTest", "gpWait"}
  PROVE  \/ GetPacketTest(r)
         \/ /\ rd'[r].pc = "gpTest" /\ rd'[r].userno = rd[r].userno
            /\ rd'[r].cur = Slot(r).curele /\ users' = users
         \/ /\ rd' = rd /\ sem' = sem
            /\ \A u \in UserNos : /\ users'[u].curele = users[u].curele
                                  /\ users'[u].upid = users[u].upid
                                  /\ users'[u].valid => users[u].valid
PROOF
  <1> USE DEF TypeOK, ReadersTypeOK, Rd
  <1>1. CASE GetPacketBegin(r) \/ GetPacketSemZero(r) \/ GetPacketClear(r)
    <2>1. users' = users
      BY <1>1 DEF GetPacketBegin, GetPacketSemZero, GetPacketClear, slots
    <2>2. \/ rd'[r].pc = "gpReset"
          \/ rd'[r].pc = "gpTest" /\ rd'[r].userno = rd[r].userno /\ rd'[r].cur = Slot(r).curele
      BY <1>1 DEF GetPacketBegin, GetPacketSemZero, GetPacketClear
    <2> QED BY <2>1, <2>2
  <1>2. CASE GetPacketTest(r)
    BY <1>2
  <1>3. CASE MShmPoolDelUsrByPid(r)
    <2>1. PICK u \in UserNos : users' = [users EXCEPT ![u].valid = FALSE]
      BY <1>3 DEF MShmPoolDelUsrByPid
    <2>2. rd' = rd /\ sem' = sem
      BY <1>3 DEF MShmPoolDelUsrByPid
    <2>3. \A v \in UserNos : /\ users'[v].curele = users[v].curele
                             /\ users'[v].upid = users[v].upid
                             /\ users'[v].valid => users[v].valid
      BY <2>1 DEF SlotsTypeOK, User
    <2> QED BY <2>2, <2>3
  <1>4. CASE MShmPoolReActiveUsr(r)
    BY <1>4 DEF MShmPoolReActiveUsr
  <1>5. CASE MShmPoolReqBusy(r)
             \/ \E place \in Places : MShmPoolMvUsrPlace(r, place) \/ MShmPoolMvNewPlace(r, place)
    BY <1>5 DEF MShmPoolReqBusy, MShmPoolMvUsrPlace, MShmPoolMvNewPlace, Move
  <1>6. CASE MShmPoolReq(r) \/ MShmPoolReqFree(r) \/ SaveEle2Buf(r) \/ ReaderCrash(r)
    <2>1. \/ rd'[r].pc = "out"
          \/ rd'[r].pc = "idle"
      BY <1>6 DEF MShmPoolReq, MShmPoolReqFree, SaveEle2Buf, ReaderCrash, DetachedReader,
         AttachedReader, Between
    <2> QED BY <2>1
  <1>7. CASE GetResourceLock(r) \/ GetPacketLock(r)
    BY <1>7 DEF GetResourceLock, GetPacketLock, SaveEle2BufBegin
  <1>8. CASE GetResourceSemReq(r) \/ GetPacketSemReq(r) \/ GetPacketReset(r)
    BY <1>8 DEF GetResourceSemReq, GetPacketSemReq, GetPacketReset, Goto
  <1> QED BY <1>1, <1>2, <1>3, <1>4, <1>5, <1>6, <1>7, <1>8 DEF ReaderStep, ReaderCall

WakeInv == IInv /\ WakeupInv /\ CursorKnown

LEMMA WakeInit == Init => WakeInv
  BY IInvInit DEF Init, WakeInv, WakeupInv, CursorKnown, DetachedReader, Between

(* The producer's steps: the readers' locals and cursors stay, and a frame *)
(* that is published is signalled before the producer rests again.         *)
LEMMA WakeProducer ==
  ASSUME WakeInv,
         MShmCoreCreate \/ (\E n \in Needs : AddBegin(n)) \/ ProducerStep \/ ProducerCrash
  PROVE  WakeupInv' /\ CursorKnown'
PROOF
  <1>0. TypeOK /\ RingInv /\ RingType /\ SlotsTypeOK /\ ReadersTypeOK
    BY TypeRing DEF WakeInv, IInv, TypeOK
  <1>1. rd' = rd
    BY DEF MShmCoreCreate, AddBegin, ProducerCrash, ProducerStep,
       MShmPoolCreateLock, MShmPoolCreate, FreeBlocks, FreeBlocksDone, AddNoMem, AddReserve,
       InsertData2Ele, AddPublish, SemAddAll
  <1>2. CASE SemAddAll
    <2>1. \A u \in UserNos : /\ users'[u].curele = users[u].curele
                             /\ users'[u].valid => users[u].valid
                             /\ users[u].valid => sem'[u] # 0
      BY <1>0, <1>2 DEF SemAddAll, SlotsTypeOK, User
    <2>2. \A r \in Readers : rd[r].userno \in UserNos
      BY <1>0, RdType
    <2> QED BY <1>1, <2>1, <2>2 DEF WakeInv, WakeupInv, CursorKnown, Owns, Slot
  <1>3. CASE ~SemAddAll
    <2>1. users' = users
      BY <1>3 DEF MShmCoreCreate, AddBegin, ProducerCrash, ProducerStep,
         MShmPoolCreateLock, MShmPoolCreate, FreeBlocks, FreeBlocksDone, AddNoMem, AddReserve,
         InsertData2Ele, AddPublish, slots
    <2>2. CursorKnown'
      BY <1>1, <2>1 DEF WakeInv, CursorKnown, Slot
    <2>3. CASE MShmPoolCreate
      BY <2>2, <2>3 DEF MShmPoolCreate, WakeupInv
    <2>4. CASE MShmCoreCreate \/ MShmPoolCreateLock \/ ProducerCrash \/ AddPublish
      BY <2>2, <2>4 DEF MShmCoreCreate, MShmPoolCreateLock, ProducerCrash, AddPublish, WakeupInv, Running
    <2>5. CASE FreeBlocks
      <3>1. tail # head
        BY <1>0, <2>5 DEF FreeBlocks, RingInv, Running, WindowInv, Pos, RingType
      <3>2. tail' = tail /\ sem' = sem /\ Running /\ ppc # "signal"
        BY <2>5 DEF FreeBlocks, slots, Running
      <3> QED BY <1>1, <2>1, <2>2, <3>1, <3>2 DEF WakeInv, WakeupInv, Owns, Slot
    <2>6. CASE (\E n \in Needs : AddBegin(n)) \/ FreeBlocksDone \/ AddNoMem \/ AddReserve
               \/ InsertData2Ele
      <3>1. tail' = tail /\ head' = head /\ sem' = sem /\ Running /\ ppc # "signal"
        BY <2>6 DEF AddBegin, FreeBlocksDone, AddNoMem, AddReserve, InsertData2Ele, ring, slots, Running
      <3> QED BY <1>1, <2>1, <2>2, <3>1 DEF WakeInv, WakeupInv, Owns, Slot
    <2> QED BY <1>3, <2>2, <2>3, <2>4, <2>5, <2>6 DEF ProducerStep
  <1> QED BY <1>2, <1>3

LEMMA WakeStep ==
  ASSUME OneReader, "ReActive" \notin Ops
  PROVE  WakeInv /\ [Next]_vars => WakeInv'
PROOF
  <1> SUFFICES ASSUME WakeInv, [Next]_vars
               PROVE  WakeInv'
    OBVIOUS
  <1>0. IInv' /\ TypeOK /\ ReadersTypeOK /\ ReadersTypeOK'
    BY IInvStep DEF WakeInv, IInv, TypeOK
  <1>1. CASE MShmCoreCreate \/ (\E n \in Needs : AddBegin(n)) \/ ProducerStep \/ ProducerCrash
    BY <1>0, <1>1, WakeProducer DEF WakeInv
  <1>2. CASE \E r \in Readers : ReaderStep(r) \/ ReaderCall(r)
    <2>1. PICK r \in Readers : ReaderStep(r) \/ ReaderCall(r)
      BY <1>2
    <2>2. UNCHANGED <<ring, prod, ready, starts>>
      BY <2>1, ReaderLeavesRing
    <2>3. \A q \in Readers : q = r
      BY DEF OneReader
    <2>4. rd[r].userno \in UserNos /\ rd'[r].userno \in UserNos
      BY <1>0, RdType DEF ReadersTypeOK, Rd
    <2>5. CASE rd'[r].pc \notin {"gpTest", "gpWait"}
      BY <1>0, <2>3, <2>5 DEF WakeInv, WakeupInv, CursorKnown
    <2>6. CASE GetPacketTest(r)
      <3>1. /\ rd[r].pc = "gpTest" /\ users' = users /\ rd'[r].cur = rd[r].cur
            /\ rd'[r].userno = rd[r].userno
            /\ rd'[r].pc = "gpWait" => tail = head \/ rd[r].cur = tail
        BY <1>0, <2>6 DEF GetPacketTest, Goto, slots, ReadersTypeOK, Rd
      <3>2. rd[r].cur = Slot(r).curele
        BY <3>1 DEF WakeInv, CursorKnown
      <3>3. tail' = tail /\ head' = head
        BY <2>2 DEF ring
      <3> QED BY <1>0, <2>3, <3>1, <3>2, <3>3 DEF WakeInv, WakeupInv, CursorKnown, Slot
    <2>7. CASE /\ rd'[r].pc = "gpTest" /\ rd'[r].userno = rd[r].userno
               /\ rd'[r].cur = Slot(r).curele /\ users' = users
      BY <1>0, <2>3, <2>7 DEF WakeInv, WakeupInv, CursorKnown, Slot
    <2>8. CASE /\ rd' = rd /\ sem' = sem
               /\ \A u \in UserNos : /\ users'[u].curele = users[u].curele
                                     /\ users'[u].upid = users[u].upid
                                     /\ users'[u].valid => users[u].valid
      <3>1. tail' = tail /\ head' = head /\ ppc' = ppc
        BY <2>2 DEF ring, prod
      <3> QED BY <1>0, <2>3, <2>4, <2>8, <3>1
              DEF WakeInv, WakeupInv, CursorKnown, Owns, Slot, Running
    <2> QED BY <1>0, <2>1, <2>5, <2>6, <2>7, <2>8, WaitSteps
  <1>3. CASE UNCHANGED vars
    BY <1>0, <1>3 DEF vars, ring, slots, prod, WakeInv, WakeupInv, CursorKnown, Owns, Slot, Running
  <1> QED BY <1>1, <1>2, <1>3 DEF Next

(* A reader alone in the pool that reads with MShmPoolGetPacket never      *)
(* sleeps on a frame that is there while the producer rests: between       *)
(* SemSetVal(0), the unlocked test of the loop and the producer's signal   *)
(* no order loses the wake-up, across crashes and re-creations of the      *)
(* pool.  (MShmPoolReActiveUsr, which gives a reader back a slot that was  *)
(* not signalled meanwhile, is left out; with two readers, one that lost   *)
(* its slot still takes from the semaphore of the slot's next owner.)      *)
THEOREM WakeupsNotLost ==
  ASSUME OneReader, "ReActive" \notin Ops
  PROVE  Spec => []NoLostWakeup
PROOF
  <1>1. WakeInv => NoLostWakeup
    BY DEF WakeInv, WakeupInv, NoLostWakeup, AtRest, Running
  <1> QED BY <1>1, WakeInit, WakeStep, PTL DEF Spec
=============================================================================
