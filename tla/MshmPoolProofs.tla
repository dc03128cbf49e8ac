--------------------------- MODULE MshmPoolProofs ---------------------------
(***************************************************************************)
(* The theorems about the pool: type correctness, the consistency of the   *)
(* two rings and the integrity of every frame in the pool, for any number  *)
(* of readers, slots, elements, blocks and frames, with crashes of every   *)
(* process and any number of re-creations.                                 *)
(***************************************************************************)
EXTENDS MshmPoolRing

LEMMA Zeros ==
  /\ 0 \in -1 .. MaxEle - 1 /\ -1 \in -1 .. MaxEle - 1 /\ 0 \in EleNos
  /\ 0 \in BlockNos /\ 0 \in 0 .. TBlocks /\ 0 \in 0 .. MaxFrames /\ 0 \in UserNos
  BY PoolAssumption DEF BlockNos, UserNos, EleNos

LEMMA EleAtType ==
  ASSUME RingTypeOK, NEW i \in -1 .. MaxEle - 1
  PROVE  /\ EleAt(i).bblock \in BlockNos /\ EleAt(i).len \in 0 .. TBlocks
         /\ EleAt(i).num \in 0 .. MaxFrames
PROOF
  <1>1. CASE i = -1
    BY <1>1, Zeros DEF EleAt, NoEle
  <1>2. CASE i # -1
    <2>1. i \in EleNos /\ EleAt(i) = eles[i]
      BY <1>2, PoolAssumption DEF EleNos, EleAt
    <2>2. eles[i] \in Ele
      BY <2>1 DEF RingTypeOK
    <2> QED BY <2>1, <2>2 DEF Ele
  <1> QED BY <1>1, <1>2

LEMMA RdType ==
  ASSUME ReadersTypeOK, NEW r \in Readers
  PROVE  /\ rd[r].pc \in ReaderPcs /\ rd[r].userno \in UserNos
         /\ rd[r].cur \in -1 .. MaxEle - 1 /\ rd[r].bblock \in BlockNos
         /\ rd[r].len \in 0 .. TBlocks /\ rd[r].got \in 0 .. MaxFrames
         /\ rd[r].torn \in BOOLEAN
  BY DEF ReadersTypeOK, Rd

LEMMA BetweenType ==
  ASSUME NEW pc \in ReaderPcs, NEW u \in UserNos, NEW g \in 0 .. MaxFrames,
         NEW t \in BOOLEAN
  PROVE  Between(pc, u, g, t) \in Rd
  BY Zeros DEF Between, Rd

(* A reader's state is replaced as a whole. *)
LEMMA RdReplaced ==
  ASSUME ReadersTypeOK, NEW r \in Readers, NEW new \in Rd, rd' = [rd EXCEPT ![r] = new]
  PROVE  ReadersTypeOK'
  BY DEF ReadersTypeOK

LEMMA RdMoved ==
  ASSUME ReadersTypeOK, NEW r \in Readers, NEW pc \in ReaderPcs, NEW c \in -1 .. MaxEle - 1,
         \/ rd' = [rd EXCEPT ![r].pc = pc]
         \/ rd' = [rd EXCEPT ![r].pc = pc, ![r].cur = c]
  PROVE  ReadersTypeOK'
  BY DEF ReadersTypeOK, Rd

LEMMA CopyType ==
  ASSUME RingTypeOK, ReadersTypeOK, NEW r \in Readers, NEW i \in -1 .. MaxEle - 1,
         SaveEle2BufBegin(r, i)
  PROVE  ReadersTypeOK'
PROOF
  <1> DEFINE new == [pc |-> "copy", userno |-> rd[r].userno, cur |-> i,
                     bblock |-> EleAt(i).bblock, len |-> EleAt(i).len,
                     got |-> rd[r].got, torn |-> rd[r].torn]
  <1>1. new \in Rd
    BY EleAtType, RdType DEF Rd, ReaderPcs
  <1>2. rd' = [rd EXCEPT ![r] = new]
    BY DEF SaveEle2BufBegin
  <1> HIDE DEF new
  <1> QED BY <1>1, <1>2, RdReplaced

LEMMA LockType ==
  ASSUME LockTypeOK, NEW p \in Procs,
         MShmLock(p) \/ MShmUnLock(p) \/ ExitUndo(p) \/ UNCHANGED lk
  PROVE  LockTypeOK'
PROOF
  <1>1. lock \in Nat /\ adj[p] \in Int
    BY DEF LockTypeOK
  <1>2. lock' \in Nat
    BY <1>1 DEF MShmLock, MShmUnLock, ExitUndo, lk
  <1>3. adj' \in [Procs -> Int]
    BY <1>1 DEF LockTypeOK, MShmLock, MShmUnLock, ExitUndo, lk
  <1> QED BY <1>2, <1>3 DEF LockTypeOK

LEMMA CurEleType ==
  ASSUME SlotsTypeOK, NEW u \in UserNos, NEW c \in -1 .. MaxEle - 1,
         users' = [users EXCEPT ![u].curele = c]
  PROVE  users' \in [UserNos -> User]
  BY DEF SlotsTypeOK, User

LEMMA ValidType ==
  ASSUME SlotsTypeOK, NEW u \in UserNos, NEW b \in BOOLEAN,
         users' = [users EXCEPT ![u].valid = b]
  PROVE  users' \in [UserNos -> User]
  BY DEF SlotsTypeOK, User

LEMMA MovedType ==
  ASSUME RingTypeOK, NEW c \in -1 .. MaxEle - 1, NEW place \in Int
  PROVE  Moved(c, place) \in -1 .. MaxEle - 1
PROOF
  <1>1. MaxEle \in Nat \ {0} /\ head \in Int /\ tail \in Int
    BY Sizes DEF RingTypeOK, EleNos
  <1>2. WalkOlder(c, -place) \in 0 .. MaxEle - 1
    <2> DEFINE from == IF c < 0 THEN 0 ELSE c
               y    == from - head - 1
               d    == 1 + (y % MaxEle)
               n    == -place
               x    == from - (IF d < n THEN d ELSE n)
    <2>1. from \in Int /\ n \in Int /\ y \in Int
      BY <1>1
    <2>2. d \in Int
      <3> HIDE DEF y
      <3>1. y % MaxEle \in Int
        BY <1>1, <2>1, ModRange
      <3> QED BY <3>1
    <2>3. x \in Int
      <3> HIDE DEF from, d, n
      <3> QED BY <2>1, <2>2
    <2>4. x % MaxEle \in 0 .. MaxEle - 1
      <3> HIDE DEF x
      <3> QED BY <1>1, <2>3, ModRange
    <2> QED BY <2>4 DEF WalkOlder
  <1>3. WalkNewer(c, place) \in 0 .. MaxEle - 1
    <2> DEFINE y == tail - c - 1
               d == 1 + (y % MaxEle)
               x == c + (IF d < place THEN d ELSE place)
    <2>1. y \in Int
      BY <1>1
    <2>2. d \in Int
      <3> HIDE DEF y
      <3>1. y % MaxEle \in Int
        BY <1>1, <2>1, ModRange
      <3> QED BY <3>1
    <2>3. x \in Int
      <3> HIDE DEF d
      <3> QED BY <1>1, <2>2
    <2>4. x % MaxEle \in 0 .. MaxEle - 1
      <3> HIDE DEF x
      <3> QED BY <1>1, <2>3, ModRange
    <2> QED BY <2>4 DEF WalkNewer
  <1> QED BY <1>1, <1>2, <1>3 DEF Moved

----------------------------------------------------------------------------
(* The producer's steps keep the types; the bounds of the counters come    *)
(* from the consistency of the rings.                                      *)

LEMMA FreeHeadType ==
  ASSUME RingTypeOK, TilingInv, count > 0, FreeHead
  PROVE  /\ fblocks' \in 0 .. TBlocks /\ count' \in 0 .. MaxEle /\ head' \in EleNos
         /\ eles' \in [EleNos -> Ele]
PROOF
  <1> USE Sizes
  <1>1. /\ fblocks \in 0 .. TBlocks /\ count \in 0 .. MaxEle
        /\ head \in EleNos /\ head \in 0 .. MaxEle - 1
        /\ eles \in [EleNos -> Ele] /\ eles[head] \in Ele
    BY DEF RingTypeOK, EleNos
  <1>2. /\ eles[head].blocks \in 0 .. TBlocks /\ eles[head].bblock \in BlockNos
        /\ eles[head].num \in 0 .. MaxFrames /\ eles[head].eblock \in -1 .. TBlocks - 1
    BY <1>1 DEF Ele
  <1>3. Live(head) /\ Pos(head) = 0
    BY <1>1 DEF Live, Pos
  <1>4. Begins(head) = 0 /\ Ends(head) <= TBlocks - fblocks
    BY <1>1, <1>3 DEF TilingInv
  <1>5. eles[head].blocks <= TBlocks - fblocks
    BY <1>2, <1>4 DEF Ends
  <1>6. Emptied(eles[head]) \in Ele
    BY <1>2, Zeros DEF Emptied, Ele
  <1>7. eles' \in [EleNos -> Ele]
    BY <1>1, <1>6 DEF FreeHead
  <1>8. fblocks' \in 0 .. TBlocks
    BY <1>1, <1>2, <1>5 DEF FreeHead
  <1>9. count' \in 0 .. MaxEle /\ head' \in EleNos
    BY <1>1 DEF FreeHead, NewerEle, EleNos
  <1> QED BY <1>7, <1>8, <1>9

LEMMA RingTypeStep ==
  ASSUME RingTypeOK, ProducerTypeOK, RingInv,
         MShmPoolCreate \/ FreeBlocks \/ AddReserve \/ InsertData2Ele \/ AddPublish
  PROVE  RingTypeOK'
PROOF
  <1> USE Sizes
  <1>1. /\ fblocks \in 0 .. TBlocks /\ count \in 0 .. MaxEle /\ num \in 0 .. MaxFrames
        /\ fbstart \in 0 .. TBlocks - 1
        /\ head \in EleNos /\ tail \in EleNos /\ tail \in 0 .. MaxEle - 1
        /\ head \in 0 .. MaxEle - 1
        /\ eles \in [EleNos -> Ele] /\ eles[tail] \in Ele
        /\ data \in [BlockNos -> 0 .. MaxFrames]
    BY DEF RingTypeOK, EleNos, BlockNos
  <1>2. need \in Nat
    BY PoolAssumption DEF ProducerTypeOK
  <1>3. CASE MShmPoolCreate
    <2>1. NoEle \in Ele
      BY Zeros DEF NoEle, Ele, BlockNos
    <2> QED BY <1>3, <2>1, Zeros DEF MShmPoolCreate, RingTypeOK
  <1>4. CASE FreeBlocks
    <2>1. TilingInv /\ count > 0 /\ FreeHead
          /\ UNCHANGED <<num, fbstart, tail, data>>
      BY <1>4 DEF FreeBlocks, RingInv, Running
    <2> QED BY <2>1, FreeHeadType DEF RingTypeOK
  <1>5. CASE AddReserve
    <2>1. /\ num' = num + 1 /\ num < MaxFrames /\ need <= fblocks /\ need > 0
          /\ fbstart' = (fbstart + need) % TBlocks
          /\ UNCHANGED <<fblocks, count, head, tail, data>>
      BY <1>5 DEF AddReserve, RingInv, Running, AddInv
    <2>2. num + 1 \in 0 .. MaxFrames /\ need \in 0 .. TBlocks
      BY <1>1, <1>2, <2>1, PoolAssumption
    <2>3. fbstart' \in BlockNos
      <3>1. TBlocks \in Nat \ {0} /\ fbstart + need \in Int
        BY <1>1, <1>2
      <3> HIDE DEF BlockNos
      <3>2. (fbstart + need) % TBlocks \in 0 .. TBlocks - 1
        BY <3>1, ModRange
      <3> QED BY <2>1, <3>2 DEF BlockNos
    <2> DEFINE eb == IF fbstart + need >= TBlocks
                     THEN fbstart + need - 1 - TBlocks ELSE fbstart + need - 1
               e  == [num |-> num + 1, len |-> eles[tail].len, blocks |-> need,
                      bblock |-> fbstart, eblock |-> eb]
    <2>4. eb \in -1 .. TBlocks - 1
      BY <1>1, <2>1, <2>2
    <2>5. eles[tail].len \in 0 .. TBlocks /\ fbstart \in BlockNos
      BY <1>1 DEF Ele, BlockNos
    <2>6. e \in Ele
      <3> HIDE DEF eb
      <3> QED BY <2>2, <2>4, <2>5 DEF Ele
    <2>7. eles' = [eles EXCEPT ![tail] = e]
      BY <1>5 DEF AddReserve
    <2>8. eles' \in [EleNos -> Ele]
      <3> HIDE DEF e
      <3> QED BY <1>1, <2>6, <2>7
    <2> QED BY <1>1, <2>1, <2>2, <2>3, <2>8 DEF RingTypeOK
  <1>6. CASE InsertData2Ele
    <2>1. /\ Pos(tail) = count /\ eles[tail].blocks = need /\ need <= fblocks
          /\ UNCHANGED <<num, fbstart, head, tail>>
      BY <1>6 DEF InsertData2Ele, RingInv, Running, AddInv, WindowInv
    <2>2. count' = count + 1 /\ fblocks' = fblocks - need
      BY <1>6, <2>1 DEF InsertData2Ele
    <2>3. count < MaxEle
      BY <1>1, <2>1 DEF Pos
    <2>4. /\ eles[tail].num \in 0 .. MaxFrames /\ eles[tail].bblock \in BlockNos
          /\ eles[tail].eblock \in -1 .. TBlocks - 1 /\ eles[tail].blocks \in 0 .. TBlocks
      BY <1>1 DEF Ele
    <2>5. Holding(eles[tail], need) \in Ele
      BY <2>1, <2>4 DEF Holding, Ele
    <2>6. eles' \in [EleNos -> Ele]
      <3>1. eles' = [eles EXCEPT ![tail] = Holding(eles[tail], need)]
        BY <1>6 DEF InsertData2Ele
      <3> QED BY <3>1, <1>1, <2>5
    <2>7. data' \in [BlockNos -> 0 .. MaxFrames]
      BY <1>1, <1>6, <2>4 DEF InsertData2Ele
    <2>8. count' \in 0 .. MaxEle /\ fblocks' \in 0 .. TBlocks
      BY <1>1, <1>2, <2>1, <2>2, <2>3
    <2> QED BY <1>1, <2>1, <2>6, <2>7, <2>8 DEF RingTypeOK, BlockNos
  <1>7. CASE AddPublish
    <2>1. tail' \in EleNos /\ UNCHANGED <<num, fbstart, data>>
      BY <1>1, <1>7 DEF AddPublish, NewerEle, EleNos
    <2>2. TilingInv /\ Pos(tail) = count - 1
      BY <1>7 DEF AddPublish, RingInv, Running, WindowInv
    <2>3. count > 0
      BY <1>1, <2>2 DEF Pos
    <2>4. CASE FreeHead
      BY <2>1, <2>2, <2>3, <2>4, FreeHeadType DEF RingTypeOK
    <2>5. CASE UNCHANGED <<fblocks, count, eles, head>>
      BY <2>1, <2>5 DEF RingTypeOK
    <2> QED BY <1>7, <2>4, <2>5 DEF AddPublish
  <1> QED BY <1>3, <1>4, <1>5, <1>6, <1>7

LEMMA ProducerIsProc == Producer \in Procs /\ \A r \in Readers : r \in Procs
  BY DEF Procs

LEMMA ProducerStepType ==
  ASSUME TypeOK, RingInv,
         MShmCoreCreate \/ (\E n \in Needs : AddBegin(n)) \/ ProducerStep \/ ProducerCrash
  PROVE  TypeOK'
PROOF
  <1> USE DEF TypeOK
  <1>1. CASE MShmCoreCreate
    <2>1. starts' \in 0 .. MaxStarts
      BY <1>1, PoolAssumption DEF MShmCoreCreate, ProducerTypeOK
    <2> QED BY <1>1, <2>1 DEF MShmCoreCreate, ring, slots, RingTypeOK, SlotsTypeOK,
            ProducerTypeOK, LockTypeOK, ReadersTypeOK
  <1>2. CASE \E n \in Needs : AddBegin(n)
    <2>1. PICK n \in Needs : AddBegin(n)
      BY <1>2
    <2>2. LockTypeOK'
      BY <2>1, LockType, ProducerIsProc DEF AddBegin
    <2> QED BY <2>1, <2>2 DEF AddBegin, ring, slots, RingTypeOK, SlotsTypeOK,
            ProducerTypeOK, ReadersTypeOK
  <1>3. CASE MShmPoolCreateLock \/ AddNoMem \/ ProducerCrash
    <2>1. LockTypeOK'
      BY <1>3, LockType, ProducerIsProc DEF MShmPoolCreateLock, AddNoMem, ProducerCrash
    <2> QED BY <1>3, <2>1 DEF MShmPoolCreateLock, AddNoMem, ProducerCrash, ring, slots,
            RingTypeOK, SlotsTypeOK, ProducerTypeOK, ReadersTypeOK
  <1>4. CASE FreeBlocksDone
    BY <1>4 DEF FreeBlocksDone, ring, slots, lk, RingTypeOK, SlotsTypeOK,
       ProducerTypeOK, ReadersTypeOK, LockTypeOK
  <1>5. CASE MShmPoolCreate
    <2>1. RingTypeOK'
      BY <1>5, RingTypeStep
    <2>2. LockTypeOK'
      BY <1>5, LockType, ProducerIsProc DEF MShmPoolCreate
    <2>3. SlotsTypeOK'
      <3>1. /\ sem \in [UserNos -> Nat] /\ sem' = [sem EXCEPT ![0] = 0]
            /\ users' = users /\ users \in [UserNos -> User] /\ lastUsr' = -1
        BY <1>5 DEF MShmPoolCreate, SlotsTypeOK
      <3>2. -1 \in -1 .. MaxUsers - 1
        BY PoolAssumption
      <3> QED BY <3>1, <3>2 DEF SlotsTypeOK
    <2> QED BY <1>5, <2>1, <2>2, <2>3 DEF MShmPoolCreate, ProducerTypeOK, ReadersTypeOK
  <1>6. CASE FreeBlocks \/ AddReserve \/ InsertData2Ele \/ AddPublish
    <2>1. RingTypeOK'
      BY <1>6, RingTypeStep
    <2> QED BY <1>6, <2>1 DEF FreeBlocks, AddReserve, InsertData2Ele, AddPublish, slots,
            lk, prod, SlotsTypeOK, ProducerTypeOK, ReadersTypeOK, LockTypeOK
  <1>7. CASE SemAddAll
    <2>1. LockTypeOK'
      BY <1>7, LockType, ProducerIsProc DEF SemAddAll
    <2>2. sem' \in [UserNos -> Nat]
      BY <1>7 DEF SemAddAll, SlotsTypeOK
    <2>3. users' \in [UserNos -> User]
      BY <1>7 DEF SemAddAll, SlotsTypeOK, User
    <2> QED BY <1>7, <2>1, <2>2, <2>3 DEF SemAddAll, ring, RingTypeOK, SlotsTypeOK,
            ProducerTypeOK, ReadersTypeOK
  <1> QED BY <1>1, <1>2, <1>3, <1>4, <1>5, <1>6, <1>7 DEF ProducerStep

----------------------------------------------------------------------------
(* No step of a reader touches the rings or the producer.                  *)

LEMMA ReaderLeavesRing ==
  ASSUME NEW r \in Readers, ReaderStep(r) \/ ReaderCall(r)
  PROVE  UNCHANGED <<ring, prod, ready, starts>>
  BY DEF ReaderStep, ReaderCall, GetResourceLock, SaveEle2Buf, GetPacketTest,
     GetPacketSemReq, GetPacketSemZero, GetPacketReset, GetPacketClear, GetPacketLock, MShmPoolReq, MShmPoolReqBusy,
     MShmPoolReqFree, GetResourceSemReq, GetPacketBegin, MShmPoolMvUsrPlace,
     MShmPoolMvNewPlace, Move, MShmPoolReActiveUsr, MShmPoolDelUsrByPid, ReaderCrash

LEMMA ReaderTypeStep ==
  ASSUME TypeOK, NEW r \in Readers, ReaderStep(r) \/ ReaderCall(r)
  PROVE  SlotsTypeOK' /\ LockTypeOK' /\ ReadersTypeOK'
PROOF
  <1> DEFINE u == rd[r].userno
  <1>0. /\ RingTypeOK /\ SlotsTypeOK /\ LockTypeOK /\ ReadersTypeOK /\ r \in Procs
        /\ sem \in [UserNos -> Nat] /\ users \in [UserNos -> User]
        /\ lastUsr \in -1 .. MaxUsers - 1
    BY ProducerIsProc DEF TypeOK, SlotsTypeOK
  <1>u. u \in UserNos /\ rd[r].cur \in -1 .. MaxEle - 1
    BY <1>0, RdType
  <1>c. \A v \in UserNos : users[v].curele \in -1 .. MaxEle - 1
    BY <1>0 DEF User
  <1>t. tail \in 0 .. MaxEle - 1 /\ tail \in -1 .. MaxEle - 1 /\ tail - 1 \in -1 .. MaxEle - 1
    BY <1>0, Sizes DEF RingTypeOK, EleNos
  <1>d. DetachedReader \in Rd /\ \A v \in UserNos : AttachedReader(v) \in Rd
    BY Zeros, BetweenType DEF DetachedReader, AttachedReader, ReaderPcs
  <1>1. CASE MShmPoolReq(r)
    <2>1. PICK v \in UserNos :
            /\ lastUsr' = v /\ sem' = [sem EXCEPT ![v] = 0]
            /\ users' = [users EXCEPT ![v] = [valid |-> TRUE, curele |-> tail, upid |-> r]]
            /\ rd' = [rd EXCEPT ![r] = AttachedReader(v)] /\ UNCHANGED lk
      BY <1>1 DEF MShmPoolReq, UnderLock
    <2>2. [valid |-> TRUE, curele |-> tail, upid |-> r] \in User
      BY <1>0, <1>t DEF User
    <2>3. lastUsr' \in -1 .. MaxUsers - 1
      BY <2>1, PoolAssumption DEF UserNos
    <2>4. SlotsTypeOK'
      BY <1>0, <2>1, <2>2, <2>3 DEF SlotsTypeOK
    <2> QED BY <1>0, <1>d, <2>1, <2>4, LockType, RdReplaced
  <1>2. CASE MShmPoolReqBusy(r)
    <2>1. lastUsr' \in -1 .. MaxUsers - 1
      BY <1>0, <1>2, PoolAssumption DEF MShmPoolReqBusy, LastUsrNo
    <2>2. UNCHANGED <<users, sem, rd, lk>>
      BY <1>2 DEF MShmPoolReqBusy, UnderLock
    <2> QED BY <1>0, <2>1, <2>2 DEF lk, SlotsTypeOK, LockTypeOK, ReadersTypeOK
  <1>3. CASE MShmPoolReqFree(r)
    <2>1. /\ users' = [users EXCEPT ![u].valid = FALSE] /\ UNCHANGED <<lastUsr, sem, lk>>
          /\ rd' = [rd EXCEPT ![r] = DetachedReader]
      BY <1>3 DEF MShmPoolReqFree, UnderLock
    <2>2. users' \in [UserNos -> User]
      BY <1>0, <1>u, <2>1, ValidType
    <2> QED BY <1>0, <1>d, <2>1, <2>2, LockType, RdReplaced DEF SlotsTypeOK
  <1>4. CASE SaveEle2Buf(r)
    <2>1. PICK n \in 0 .. MaxFrames, t \in BOOLEAN :
            rd' = [rd EXCEPT ![r] = Between("idle", u, n, t)]
      <3> DEFINE n == EleAt(rd[r].cur).num
                 t == \E b \in BlocksOf(rd[r].bblock, rd[r].len) : data[b] # n
      <3>1. n \in 0 .. MaxFrames /\ rd[r].got \in 0 .. MaxFrames /\ rd[r].torn \in BOOLEAN
        BY <1>0, <1>u, RdType, EleAtType
      <3>2. rd' = [rd EXCEPT ![r] = IF rd[r].len <= BufBlocks
                                    THEN Between("idle", u, n, rd[r].torn \/ t)
                                    ELSE Between("idle", u, rd[r].got, rd[r].torn)]
        BY <1>4 DEF SaveEle2Buf
      <3> HIDE DEF n, t, u
      <3>3. (rd[r].torn \/ t) \in BOOLEAN
        OBVIOUS
      <3>4. CASE rd[r].len <= BufBlocks
        <4>1. rd' = [rd EXCEPT ![r] = Between("idle", u, n, rd[r].torn \/ t)]
          BY <3>2, <3>4
        <4> QED BY <4>1, <3>1, <3>3
      <3>5. CASE ~(rd[r].len <= BufBlocks)
        BY <3>1, <3>2, <3>5
      <3> QED BY <3>4, <3>5
    <2>2. Between("idle", u, n, t) \in Rd
      BY <1>u, BetweenType DEF ReaderPcs
    <2>3. NewerEle(rd[r].cur) \in -1 .. MaxEle - 1
      BY <1>u, Sizes DEF NewerEle
    <2>4. \/ users' = [users EXCEPT ![u].curele = NewerEle(rd[r].cur)]
          \/ users' = users
      BY <1>4 DEF SaveEle2Buf
    <2>5. users' \in [UserNos -> User]
      BY <1>0, <1>u, <2>3, <2>4, CurEleType
    <2>6. MShmUnLock(r) /\ UNCHANGED <<lastUsr, sem>>
      BY <1>4 DEF SaveEle2Buf
    <2> QED BY <1>0, <2>1, <2>2, <2>5, <2>6, LockType, RdReplaced DEF SlotsTypeOK
  <1>5. CASE GetResourceSemReq(r) \/ GetPacketTest(r) \/ GetPacketSemReq(r)
    <2>1. UNCHANGED <<lastUsr, users, lk>>
      BY <1>5 DEF GetResourceSemReq, GetPacketTest, GetPacketSemReq, slots
    <2>2. sem' \in [UserNos -> Nat]
      BY <1>0, <1>5, <1>u DEF GetResourceSemReq, GetPacketTest, GetPacketSemReq, slots
    <2>3. \E pc \in ReaderPcs : rd' = [rd EXCEPT ![r].pc = pc]
      BY <1>5 DEF GetResourceSemReq, GetPacketTest, GetPacketSemReq, Goto, ReaderPcs
    <2>4. ReadersTypeOK'
      BY <1>0, <2>3, Zeros, RdMoved
    <2> QED BY <1>0, <2>1, <2>2, <2>4, LockType DEF SlotsTypeOK
  <1>6. CASE GetResourceLock(r)
    <2>1. PICK c \in -1 .. MaxEle - 1 :
            /\ users' = [users EXCEPT ![u].curele = c] /\ SaveEle2BufBegin(r, c)
            /\ sem' = [sem EXCEPT ![u] = 0] \/ sem' = sem
            /\ lastUsr' = lastUsr /\ MShmLock(r)
      BY <1>6, <1>u, <1>c, <1>t DEF GetResourceLock
    <2>2. users' \in [UserNos -> User]
      BY <1>0, <1>u, <2>1, CurEleType
    <2>3. sem' \in [UserNos -> Nat]
      BY <1>0, <1>u, <2>1
    <2> QED BY <1>0, <2>1, <2>2, <2>3, LockType, CopyType DEF SlotsTypeOK
  <1>7. CASE GetPacketLock(r)
    <2>1. SaveEle2BufBegin(r, rd[r].cur) /\ MShmLock(r) /\ UNCHANGED slots
      BY <1>7 DEF GetPacketLock
    <2> QED BY <1>0, <1>u, <2>1, LockType, CopyType DEF SlotsTypeOK, slots
  <1>8. CASE GetPacketBegin(r) \/ GetPacketSemZero(r) \/ GetPacketClear(r)
    <2>1. UNCHANGED <<lastUsr, users, lk>>
      BY <1>8 DEF GetPacketBegin, GetPacketSemZero, GetPacketClear, slots
    <2>2. sem' \in [UserNos -> Nat]
      BY <1>0, <1>8, <1>u DEF GetPacketBegin, GetPacketSemZero, GetPacketClear, slots
    <2>3. \E pc \in ReaderPcs : \/ rd' = [rd EXCEPT ![r].pc = pc, ![r].cur = users[u].curele]
                               \/ rd' = [rd EXCEPT ![r].pc = pc]
      BY <1>8 DEF GetPacketBegin, GetPacketSemZero, GetPacketClear, Slot, ReaderPcs
    <2>4. users[u].curele \in -1 .. MaxEle - 1
      BY <1>u, <1>c
    <2>5. ReadersTypeOK'
      BY <1>0, <2>3, <2>4, RdMoved
    <2> QED BY <1>0, <2>1, <2>2, <2>5, LockType DEF SlotsTypeOK
  <1>9. CASE GetPacketReset(r)
    <2>1. /\ users' = [users EXCEPT ![u].curele = tail - 1] /\ UNCHANGED <<lastUsr, lk, sem>>
          /\ rd' = [rd EXCEPT ![r].pc = "gpClear"]
      BY <1>9 DEF GetPacketReset, UnderLock, Goto
    <2>2. users' \in [UserNos -> User]
      BY <1>0, <1>u, <1>t, <2>1, CurEleType
    <2>3. "gpClear" \in ReaderPcs
      BY DEF ReaderPcs
    <2>4. ReadersTypeOK'
      BY <1>0, <2>1, <2>3, Zeros, RdMoved
    <2> QED BY <1>0, <2>1, <2>2, <2>4, LockType DEF SlotsTypeOK
  <1>10. CASE \E place \in Places : MShmPoolMvUsrPlace(r, place) \/ MShmPoolMvNewPlace(r, place)
    <2>1. PICK place \in Places : Move(r, place)
      BY <1>10 DEF MShmPoolMvUsrPlace, MShmPoolMvNewPlace
    <2>2. /\ users' = [users EXCEPT ![u].curele = Moved(users[u].curele, place)]
          /\ UNCHANGED <<lastUsr, sem, lk, rd>>
      BY <1>0, <1>u, <2>1 DEF Move
    <2>3. Moved(users[u].curele, place) \in -1 .. MaxEle - 1
      BY <1>0, <1>u, <1>c, MovedType, PoolAssumption
    <2>4. users' \in [UserNos -> User]
      BY <1>0, <1>u, <2>2, <2>3, CurEleType
    <2> QED BY <1>0, <2>2, <2>4, LockType DEF SlotsTypeOK, ReadersTypeOK
  <1>11. CASE MShmPoolReActiveUsr(r) \/ MShmPoolDelUsrByPid(r)
    <2>1. UNCHANGED <<lastUsr, sem, lk, rd>>
      BY <1>11 DEF MShmPoolReActiveUsr, MShmPoolDelUsrByPid, UnderLock
    <2>2. \E v \in UserNos, b \in BOOLEAN : users' = [users EXCEPT ![v].valid = b]
      BY <1>11, <1>u DEF MShmPoolReActiveUsr, MShmPoolDelUsrByPid
    <2>3. users' \in [UserNos -> User]
      BY <1>0, <2>2, ValidType
    <2> QED BY <1>0, <2>1, <2>3, LockType DEF SlotsTypeOK, ReadersTypeOK
  <1>12. CASE ReaderCrash(r)
    <2>1. rd' = [rd EXCEPT ![r] = DetachedReader] /\ ExitUndo(r) /\ UNCHANGED slots
      BY <1>12 DEF ReaderCrash
    <2> QED BY <1>0, <1>d, <2>1, LockType, RdReplaced DEF SlotsTypeOK, slots
  <1> QED BY <1>1, <1>2, <1>3, <1>4, <1>5, <1>6, <1>7, <1>8, <1>9, <1>10, <1>11, <1>12
          DEF ReaderStep, ReaderCall

----------------------------------------------------------------------------
(* The inductive invariant: RingInv says nothing while the producer is     *)
(* down, so the integrity of the frames is carried across a crash by       *)
(* LiveDataIntact itself.                                                  *)
IInv == TypeOK /\ RingInv /\ LiveDataIntact

LEMMA IInvInit == Init => IInv
PROOF
  <1> SUFFICES ASSUME Init PROVE IInv
    OBVIOUS
  <1> USE DEF Init
  <1>1. RingTypeOK
    <2>1. NoEle \in Ele
      BY Zeros, Sizes DEF NoEle, Ele, BlockNos
    <2> QED BY <2>1, Zeros, Sizes DEF RingTypeOK, BlockNos
  <1>2. SlotsTypeOK
    <2>1. [valid |-> FALSE, curele |-> 0, upid |-> Producer] \in User
      BY Zeros, ProducerIsProc DEF User
    <2> QED BY <2>1, PoolAssumption DEF SlotsTypeOK
  <1>3. ProducerTypeOK
    <2>1. 0 \in 0 .. MaxStarts
      BY PoolAssumption
    <2> QED BY <2>1 DEF ProducerTypeOK
  <1>4. LockTypeOK
    BY DEF LockTypeOK
  <1>5. ReadersTypeOK
    BY Zeros, BetweenType DEF ReadersTypeOK, DetachedReader, ReaderPcs
  <1>6. RingInv
    BY DEF RingInv, Running
  <1>7. LiveDataIntact
    BY Sizes DEF LiveDataIntact, Live, Pos, EleNos
  <1> QED BY <1>1, <1>2, <1>3, <1>4, <1>5, <1>6, <1>7 DEF IInv, TypeOK

LEMMA IntactStutters == LiveDataIntact /\ UNCHANGED ring => LiveDataIntact'
  BY DEF LiveDataIntact, ring, Live, Pos

LEMMA IInvStep == IInv /\ [Next]_vars => IInv'
PROOF
  <1> SUFFICES ASSUME TypeOK, RingInv, LiveDataIntact, [Next]_vars PROVE IInv'
    BY DEF IInv
  <1>0. RingType
    BY TypeRing
  <1>1. CASE MShmPoolCreate \/ FreeBlocks \/ AddReserve \/ InsertData2Ele \/ AddPublish
    <2>1. TypeOK'
      BY <1>1, ProducerStepType DEF ProducerStep
    <2>2. RingInv'
      BY <1>0, <1>1, CreateRing, FreeBlocksRing, AddReserveRing, InsertDataRing, AddPublishRing
    <2>3. Running'
      BY <1>1 DEF MShmPoolCreate, FreeBlocks, AddReserve, InsertData2Ele, AddPublish,
         Running, prod
    <2>4. LiveDataIntact'
      BY <2>1, <2>2, <2>3, TypeRing, RingGivesIntact, PTL
    <2> QED BY <2>1, <2>2, <2>4 DEF IInv
  <1>2. CASE MShmCoreCreate \/ MShmPoolCreateLock \/ ProducerCrash
    <2>1. TypeOK'
      BY <1>2, ProducerStepType DEF ProducerStep
    <2>2. UNCHANGED ring /\ ~Running'
      BY <1>2 DEF MShmCoreCreate, MShmPoolCreateLock, ProducerCrash, Running
    <2> QED BY <2>1, <2>2, IntactStutters DEF IInv, RingInv
  <1>3. CASE (\E n \in Needs : AddBegin(n)) \/ FreeBlocksDone \/ AddNoMem \/ SemAddAll
    <2>1. TypeOK'
      BY <1>3, ProducerStepType DEF ProducerStep
    <2>2. /\ UNCHANGED ring /\ Running /\ Running'
          /\ ppc \notin {"fill", "publish"} /\ ppc' \notin {"fill", "publish"}
      BY <1>3 DEF AddBegin, FreeBlocksDone, AddNoMem, SemAddAll, Running
    <2>3. AddInv'
      <3>0. AddInv /\ fblocks \in Nat /\ fblocks' = fblocks /\ num' = num
        BY <1>0, <2>2, Sizes DEF RingInv, RingType, ring
      <3>1. CASE AddNoMem \/ SemAddAll
        BY <3>1 DEF AddNoMem, SemAddAll, AddInv
      <3>2. CASE FreeBlocksDone
        <4>1. /\ ppc = "free" /\ ppc' = "reserve" /\ need' = need /\ need \in Nat
              /\ fblocks >= 2 * need
          BY <1>0, <3>2 DEF FreeBlocksDone, RingType
        <4> QED BY <3>0, <4>1 DEF AddInv
      <3>3. CASE \E n \in Needs : AddBegin(n)
        <4>1. PICK n \in Needs : AddBegin(n)
          BY <3>3
        <4>2. /\ need' = n /\ n \in Nat /\ n > 0 /\ num < MaxFrames
              /\ ppc' \in {"reserve", "free"} /\ (ppc' = "reserve" => fblocks > n)
          BY <4>1, PoolAssumption DEF AddBegin
        <4> QED BY <3>0, <4>2 DEF AddInv
      <3> QED BY <1>3, <3>1, <3>2, <3>3
    <2>4. RingInv'
      BY <2>2, <2>3, RingKept
    <2> QED BY <2>1, <2>2, <2>4, IntactStutters DEF IInv
  <1>4. CASE \E r \in Readers : ReaderStep(r) \/ ReaderCall(r)
    <2>1. PICK r \in Readers : ReaderStep(r) \/ ReaderCall(r)
      BY <1>4
    <2>2. UNCHANGED <<ring, prod, ready, starts>>
      BY <2>1, ReaderLeavesRing
    <2>3. RingTypeOK' /\ ProducerTypeOK'
      BY <2>2 DEF TypeOK, RingTypeOK, ProducerTypeOK, ring, prod
    <2>4. TypeOK'
      BY <2>1, <2>3, ReaderTypeStep DEF TypeOK
    <2>5. RingInv'
      BY <2>2, RingStutters DEF prod
    <2> QED BY <2>2, <2>4, <2>5, IntactStutters DEF IInv
  <1>5. CASE UNCHANGED vars
    <2>1. UNCHANGED <<ring, slots, lk, prod, ready, rd, starts>>
      BY <1>5 DEF vars
    <2>2. TypeOK'
      BY <2>1 DEF TypeOK, RingTypeOK, SlotsTypeOK, ProducerTypeOK, LockTypeOK, ReadersTypeOK,
         ring, slots, lk, prod
    <2>3. RingInv'
      BY <2>1, RingStutters DEF prod
    <2> QED BY <2>1, <2>2, <2>3, IntactStutters DEF IInv
  <1> QED BY <1>1, <1>2, <1>3, <1>4, <1>5 DEF Next, ProducerStep

(* Every index and counter of the pool stays in range (TypeOK), whatever   *)
(* order the producer, the readers and their crashes act in.               *)
THEOREM TypeCorrect == Spec => []TypeOK
PROOF
  <1>1. IInv => TypeOK
    BY DEF IInv
  <1> QED BY <1>1, IInvInit, IInvStep, PTL DEF Spec

(* At every step of MShmPoolAddResource the live elements tile the block   *)
(* ring without overlap and the free blocks are the rest (RingInv).        *)
THEOREM RingConsistent == Spec => []RingInv
PROOF
  <1>1. IInv => RingInv
    BY DEF IInv
  <1> QED BY <1>1, IInvInit, IInvStep, PTL DEF Spec

(* MShmPoolReqBlocks and FreeBlocks never hand out a block of a frame that *)
(* is still in the pool, and a crash at any step leaves the frames of the  *)
(* pool whole (LiveDataIntact).                                            *)
THEOREM PoolDataIntact == Spec => []LiveDataIntact
PROOF
  <1>1. IInv => LiveDataIntact
    BY DEF IInv
  <1> QED BY <1>1, IInvInit, IInvStep, PTL DEF Spec
=============================================================================
