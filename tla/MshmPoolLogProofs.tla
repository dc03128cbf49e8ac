-------------------------- MODULE MshmPoolLogProofs --------------------------
(***************************************************************************)
(* The theorems about the pool as a log of frames: what it holds between   *)
(* two calls is an unbroken run of frames that ends with the newest, every *)
(* step is a step of FrameLog or none, and a reader of its own gets the    *)
(* frames in order.                                                        *)
(***************************************************************************)
EXTENDS MshmPoolLockProofs, MshmPoolLog, SequenceTheorems

(* The number of the newest frame whose bytes are in. *)
LastIn == IF ppc = "fill" THEN num - 1 ELSE num

(* The live elements are numbered one after the other up to the newest. *)
NumInv ==
  /\ ppc = "fill" => eles[tail].num = num /\ num > 0
  /\ \A i \in EleNos : Live(i) => eles[i].num = LastIn - (count - 1 - Pos(i))

(* Every block that is not free belongs to a live element. *)
CoverInv ==
  \A b \in BlockNos : Off(b) < TBlocks - fblocks =>
    \E i \in EleNos : Live(i) /\ Begins(i) <= Off(b) /\ Off(b) < Ends(i)

LogInv == Running => NumInv /\ CoverInv

LEMMA LogKept ==
  ASSUME LogInv, Running, Running', UNCHANGED ring, ppc # "fill", ppc' # "fill"
  PROVE  LogInv'
  BY DEF LogInv, NumInv, CoverInv, LastIn, ring, Live, Pos, Begins, Ends, Off, LiveStart, FreeStart

LEMMA LogFreeHead ==
  ASSUME RingType, TilingInv, NumInv, CoverInv, count > 0, FreeHead, fbstart' = fbstart,
         num' = num, ppc # "fill", ppc' # "fill"
  PROVE  LogInv'
PROOF
  <1> USE Sizes
  <1> DEFINE n == eles[head].blocks
  <1>1. /\ count \in Int /\ num \in Int /\ count' = count - 1 /\ fblocks \in 0 .. TBlocks
        /\ tail \in EleNos
    BY DEF RingType, FreeHead, EleNos
  <1>2. n \in Nat /\ n > 0 /\ n <= TBlocks - fblocks /\ fblocks' = fblocks + n /\ Ends(head) = n
    BY FreeHeadMoves
  <1>3. ASSUME NEW i \in EleNos
        PROVE  /\ Live(i)' <=> (Live(i) /\ i # head)
               /\ i # head => Pos(i)' = Pos(i) - 1
               /\ Pos(i) \in Int
    BY FreeHeadMoves
  <1>4. ASSUME NEW i \in EleNos, Live(i)'
        PROVE  /\ Begins(i)' = Begins(i) - n /\ Ends(i)' = Ends(i) - n
               /\ Begins(i) \in Int /\ Ends(i) \in Int /\ eles'[i] = eles[i]
    BY <1>4, FreeHeadMoves
  <1>5. NumInv'
    <2> SUFFICES ASSUME NEW i \in EleNos, Live(i)'
                 PROVE  eles'[i].num = num - (count - 2 - (Pos(i) - 1))
      BY <1>1, <1>3 DEF NumInv, LastIn
    <2>1. eles[i].num = num - (count - 1 - Pos(i))
      BY <1>3 DEF NumInv, LastIn
    <2> QED BY <1>1, <1>3, <1>4, <2>1
  <1>6. CoverInv'
    <2> SUFFICES ASSUME NEW b \in BlockNos, Off(b)' < TBlocks - (fblocks + n)
                 PROVE  \E i \in EleNos : Live(i)' /\ Begins(i)' <= Off(b)' /\ Off(b)' < Ends(i)'
      BY <1>2 DEF CoverInv
    <2>1. /\ Off(b) >= n => Off(b)' = Off(b) - n
          /\ Off(b) < n => Off(b)' = Off(b) - n + TBlocks
      BY FreeHeadMoves
    <2>2. Off(b) \in 0 .. TBlocks - 1
      BY <1>1, OffType DEF BlockNos
    <2>3. Off(b) >= n /\ Off(b)' = Off(b) - n /\ Off(b) < TBlocks - fblocks
      BY <1>1, <1>2, <2>1, <2>2
    <2>4. PICK i \in EleNos : Live(i) /\ Begins(i) <= Off(b) /\ Off(b) < Ends(i)
      BY <2>3 DEF CoverInv
    <2>5. i # head
      BY <1>2, <2>2, <2>3, <2>4
    <2>6. Live(i)'
      BY <1>3, <2>4, <2>5
    <2>7. Begins(i)' <= Off(b)' /\ Off(b)' < Ends(i)'
      BY <1>2, <1>4, <2>2, <2>3, <2>4, <2>6
    <2> QED BY <2>6, <2>7
  <1> QED BY <1>5, <1>6 DEF LogInv

LEMMA LogReserve ==
  ASSUME RingType, RingInv, NumInv, CoverInv, AddReserve
  PROVE  LogInv'
PROOF
  <1> USE Sizes
  <1>1. /\ ppc = "reserve" /\ ppc' = "fill" /\ WindowInv
        /\ fblocks' = fblocks /\ count' = count /\ head' = head /\ tail' = tail
        /\ num' = num + 1 /\ num \in Nat
    BY DEF AddReserve, RingInv, Running, RingType
  <1>2. /\ tail \in EleNos /\ eles'[tail].bblock = fbstart /\ eles'[tail].num = num + 1
        /\ \A i \in EleNos : i # tail => eles'[i] = eles[i]
    BY DEF AddReserve, RingType, EleNos
  <1>3. ~Live(tail)
    BY <1>1 DEF WindowInv, Live, RingType
  <1>4. LiveStart' = LiveStart
    BY <1>1, <1>2 DEF LiveStart, FreeStart
  <1>5. ASSUME NEW i \in EleNos
        PROVE  /\ Pos(i)' = Pos(i) /\ (Live(i)' <=> Live(i))
               /\ Live(i) => eles'[i] = eles[i] /\ Begins(i)' = Begins(i) /\ Ends(i)' = Ends(i)
    BY <1>1, <1>2, <1>3, <1>4 DEF Pos, Live, Begins, Ends, Off
  <1>6. NumInv'
    <2>1. LastIn' = LastIn
      BY <1>1 DEF LastIn
    <2> QED BY <1>1, <1>2, <1>5, <2>1 DEF NumInv
  <1>7. CoverInv'
    BY <1>1, <1>4, <1>5 DEF CoverInv, Off
  <1> QED BY <1>6, <1>7 DEF LogInv

LEMMA LogInsert ==
  ASSUME RingType, RingInv, NumInv, CoverInv, InsertData2Ele
  PROVE  LogInv'
PROOF
  <1> USE Sizes
  <1>1. /\ ppc = "fill" /\ ppc' = "publish" /\ WindowInv
        /\ count' = count + 1 /\ num' = num /\ tail' = tail
        /\ num \in Nat /\ count \in Nat /\ fblocks \in 0 .. TBlocks
    BY DEF InsertData2Ele, RingInv, Running, RingType
  <1>2. /\ tail \in EleNos /\ LiveStart' = LiveStart
        /\ LET i == tail IN Begins(i)' = TBlocks - fblocks /\ Ends(i)' = TBlocks - fblocks'
    BY InsertDataMoves
  <1>3. ASSUME NEW i \in EleNos
        PROVE  /\ Pos(i)' = Pos(i) /\ Pos(i) \in 0 .. MaxEle - 1
               /\ Live(i)' <=> (Live(i) \/ i = tail)
               /\ Live(i) => /\ eles'[i] = eles[i] /\ i # tail
                             /\ Begins(i)' = Begins(i) /\ Ends(i)' = Ends(i)
    BY InsertDataMoves
  <1>4. eles'[tail].num = eles[tail].num
    BY <1>2 DEF InsertData2Ele, RingType, Holding
  <1>5. NumInv'
    <2> SUFFICES ASSUME NEW i \in EleNos, Live(i)'
                 PROVE  eles'[i].num = num - (count - Pos(i))
      BY <1>1, <1>3 DEF NumInv, LastIn
    <2>1. CASE Live(i)
      <3>1. eles[i].num = (num - 1) - (count - 1 - Pos(i))
        BY <1>1, <2>1 DEF NumInv, LastIn
      <3> QED BY <1>1, <1>3, <2>1, <3>1
    <2>2. CASE i = tail
      <3>1. eles[tail].num = num /\ Pos(tail) = count
        BY <1>1 DEF NumInv, WindowInv
      <3> QED BY <1>1, <1>4, <2>2, <3>1
    <2> QED BY <1>3, <2>1, <2>2
  <1>6. CoverInv'
    <2> SUFFICES ASSUME NEW b \in BlockNos, Off(b) < TBlocks - fblocks'
                 PROVE  \E i \in EleNos : Live(i)' /\ Begins(i)' <= Off(b) /\ Off(b) < Ends(i)'
      BY <1>2 DEF CoverInv, Off
    <2>1. Off(b) \in 0 .. TBlocks - 1
      BY <1>2, OffType DEF BlockNos
    <2>2. CASE Off(b) < TBlocks - fblocks
      BY <1>3, <2>2 DEF CoverInv
    <2>3. CASE ~(Off(b) < TBlocks - fblocks)
      <3>1. TBlocks - fblocks <= Off(b)
        BY <1>1, <2>1, <2>3
      <3>2. Pos(tail)' = Pos(tail) /\ Pos(tail) = count
        BY <1>1, <1>2, <1>3 DEF WindowInv, InsertData2Ele, Pos
      <3>3. Live(tail)'
        BY <1>1, <3>2 DEF Live
      <3> QED BY <1>1, <1>2, <3>1, <3>3
    <2> QED BY <2>2, <2>3
  <1> QED BY <1>5, <1>6 DEF LogInv

LEMMA LogPublish ==
  ASSUME RingType, RingInv, NumInv, CoverInv, AddPublish
  PROVE  LogInv'
PROOF
  <1> USE Sizes
  <1>1. /\ ppc = "publish" /\ ppc' = "signal" /\ WindowInv /\ TilingInv
        /\ fbstart' = fbstart /\ num' = num
    BY DEF AddPublish, RingInv, Running
  <1>2. CASE NewerEle(tail) = head
    <2>1. FreeHead /\ count > 0
      BY <1>1, <1>2 DEF AddPublish, WindowInv, Pos, RingType
    <2> QED BY <1>1, <2>1, LogFreeHead
  <1>3. CASE NewerEle(tail) # head
    <2>1. UNCHANGED <<fblocks, count, eles, head>>
      BY <1>3 DEF AddPublish
    <2> QED BY <1>1, <2>1 DEF LogInv, NumInv, CoverInv, LastIn, Pos, Live, Begins, Ends, Off,
            LiveStart, FreeStart
  <1> QED BY <1>2, <1>3

LEMMA LogStep == IInv /\ LogInv /\ [Next]_vars => LogInv'
PROOF
  <1> SUFFICES ASSUME IInv, LogInv, [Next]_vars
               PROVE  LogInv'
    OBVIOUS
  <1>0. TypeOK /\ RingInv /\ RingType
    BY TypeRing DEF IInv
  <1>1. CASE FreeBlocks
    <2>1. /\ Running /\ TilingInv /\ FreeHead /\ count > 0 /\ fbstart' = fbstart /\ num' = num
          /\ ppc # "fill" /\ ppc' # "fill"
      BY <1>0, <1>1 DEF FreeBlocks, RingInv, Running, prod
    <2> QED BY <1>0, <2>1, LogFreeHead DEF LogInv
  <1>2. CASE AddReserve \/ InsertData2Ele \/ AddPublish
    <2>1. NumInv /\ CoverInv
      BY <1>2 DEF LogInv, Running, AddReserve, InsertData2Ele, AddPublish
    <2> QED BY <1>0, <1>2, <2>1, LogReserve, LogInsert, LogPublish
  <1>3. CASE MShmPoolCreate
    <2>1. ppc' = "idle" /\ fblocks' = TBlocks /\ count' = 0 /\ head' = 0
      BY <1>3 DEF MShmPoolCreate
    <2>2. \A i \in EleNos : ~(Live(i)')
      BY <2>1, Sizes DEF Live, Pos, EleNos
    <2>3. \A b \in BlockNos : Off(b)' \in 0 .. TBlocks - 1
      <3>1. TypeOK'
        BY <1>0, <1>3, ProducerStepType DEF ProducerStep
      <3>2. RingType' /\ (tail \in EleNos)'
        BY <3>1, TypeRing, PTL DEF RingType, EleNos
      <3> QED BY <2>1, <3>2, Sizes DEF Off, LiveStart, FreeStart, BlockNos, RingType
    <2> QED BY <2>1, <2>2, <2>3, Sizes DEF LogInv, NumInv, CoverInv
  <1>4. CASE MShmCoreCreate \/ MShmPoolCreateLock \/ ProducerCrash
    BY <1>4 DEF MShmCoreCreate, MShmPoolCreateLock, ProducerCrash, LogInv, Running
  <1>5. CASE (\E n \in Needs : AddBegin(n)) \/ FreeBlocksDone \/ AddNoMem \/ SemAddAll
    <2>1. UNCHANGED ring /\ Running /\ Running' /\ ppc # "fill" /\ ppc' # "fill"
      BY <1>5 DEF AddBegin, FreeBlocksDone, AddNoMem, SemAddAll, Running
    <2> QED BY <2>1, LogKept
  <1>6. CASE UNCHANGED <<ring, ppc>>
    BY <1>6 DEF LogInv, Running, NumInv, CoverInv, LastIn, ring, Live, Pos, Begins, Ends, Off,
       LiveStart, FreeStart
  <1>7. CASE UNCHANGED vars \/ \E r \in Readers : ReaderStep(r) \/ ReaderCall(r)
    BY <1>6, <1>7, ReaderLeavesRing DEF vars, prod
  <1> QED BY <1>1, <1>2, <1>3, <1>4, <1>5, <1>7 DEF Next, ProducerStep

LEMMA LogInit == Init => LogInv
  BY DEF Init, LogInv, Running

(* As many blocks lie below an offset as the offset says. *)
LEMMA BlocksBelow ==
  ASSUME RingType, NEW m \in 0 .. TBlocks
  PROVE  Cardinality({b \in BlockNos : Off(b) < m}) = m
PROOF
  <1> USE Sizes
  <1> DEFINE B == {b \in BlockNos : Off(b) < m}
             at == [k \in 0 .. m - 1 |-> IF LiveStart + k >= TBlocks
                                         THEN LiveStart + k - TBlocks ELSE LiveStart + k]
  <1>1. LiveStart \in 0 .. TBlocks - 1 /\ \A b \in BlockNos : Off(b) \in 0 .. TBlocks - 1
    BY OffType DEF RingType, BlockNos, EleNos
  <1>2. \A k \in 0 .. m - 1 : at[k] \in BlockNos /\ Off(at[k]) = k
    BY <1>1 DEF Off, BlockNos
  <1>3. \A b \in B : Off(b) \in 0 .. m - 1 /\ at[Off(b)] = b
    BY <1>1 DEF Off, BlockNos
  <1>4. at \in [0 .. m - 1 -> B]
    BY <1>2
  <1>5. at \in Bijection(0 .. m - 1, B)
    <2> HIDE DEF at, B
    <2>1. \A j, k \in 0 .. m - 1 : at[j] = at[k] => j = k
      BY <1>2
    <2>2. \A b \in B : \E k \in 0 .. m - 1 : at[k] = b
      BY <1>3
    <2>3. DOMAIN at = 0 .. m - 1
      BY <1>4
    <2> QED BY <1>4, <2>1, <2>2, <2>3 DEF Bijection, Injection, Surjection, IsInjective
  <1>6. IsFiniteSet(0 .. m - 1) /\ Cardinality(0 .. m - 1) = m
    <2>1. 0 \in Int /\ m - 1 \in Int
      OBVIOUS
    <2>2. IsFiniteSet(0 .. m - 1)
      BY <2>1, FS_Interval
    <2>3. Cardinality(0 .. m - 1) = IF 0 > m - 1 THEN 0 ELSE m - 1 - 0 + 1
      BY <2>1, FS_Interval
    <2>4. m = IF 0 > m - 1 THEN 0 ELSE m - 1 - 0 + 1
      OBVIOUS
    <2> QED BY <2>2, <2>3, <2>4
  <1>7. ExistsBijection(0 .. m - 1, B)
    <2> HIDE DEF at, B
    <2> QED BY <1>5 DEF ExistsBijection
  <1> HIDE DEF B
  <1>8. Cardinality(B) = Cardinality(0 .. m - 1)
    BY <1>6, <1>7, FS_Bijection
  <1>9. Cardinality(B) = m
    BY <1>6, <1>8
  <1> QED BY <1>9 DEF B

(* The blocks of the live elements are those below the free ones. *)
LEMMA LiveBlocks ==
  ASSUME RingType, RingInv, CoverInv, Running
  PROVE  UNION {BlocksOf(eles[i].bblock, eles[i].blocks) : i \in {j \in EleNos : Live(j)}}
           = {b \in BlockNos : Off(b) < TBlocks - fblocks}
PROOF
  <1> USE Sizes
  <1>1. tail \in EleNos /\ fblocks \in 0 .. TBlocks
    BY DEF RingType, EleNos
  <1>2. ASSUME NEW i \in EleNos, Live(i)
        PROVE  /\ BlocksOf(eles[i].bblock, eles[i].blocks)
                    = {b \in BlockNos : Begins(i) <= Off(b) /\ Off(b) < Ends(i)}
               /\ Begins(i) \in Nat /\ Ends(i) \in Nat /\ Ends(i) <= TBlocks - fblocks
    <2>1. Ends(i) <= TBlocks - fblocks
      BY <1>2 DEF RingInv, TilingInv
    <2>2. eles[i].bblock \in BlockNos /\ eles[i].blocks \in Nat
      BY DEF RingType, BlockNos
    <2>3. Off(eles[i].bblock) \in 0 .. TBlocks - 1
      BY <1>1, <2>2, OffType DEF BlockNos
    <2>4. /\ Begins(i) = Off(eles[i].bblock)
          /\ Ends(i) = Off(eles[i].bblock) + eles[i].blocks
      BY DEF Begins, Ends
    <2>5. Off(eles[i].bblock) + eles[i].blocks <= TBlocks
      BY <1>1, <2>1, <2>2, <2>3, <2>4
    <2> QED BY <1>1, <2>1, <2>2, <2>3, <2>4, <2>5, BlocksOfRun
  <1>3. \A b \in BlockNos : Off(b) \in Nat
    BY <1>1, OffType DEF BlockNos
  <1>4. ASSUME NEW i \in EleNos, Live(i), NEW b \in BlocksOf(eles[i].bblock, eles[i].blocks)
        PROVE  b \in BlockNos /\ Off(b) < TBlocks - fblocks
    BY <1>1, <1>2, <1>3, <1>4
  <1>5. ASSUME NEW b \in BlockNos, Off(b) < TBlocks - fblocks
        PROVE  \E i \in EleNos : Live(i) /\ b \in BlocksOf(eles[i].bblock, eles[i].blocks)
    BY <1>2, <1>5 DEF CoverInv
  <1> QED BY <1>4, <1>5

LEMMA LogGivesWindow == IInv /\ LogInv => WindowIsNewestFrames
PROOF
  <1> SUFFICES ASSUME IInv, LogInv, AtRest
               PROVE  WindowIsNewestFrames
    BY DEF WindowIsNewestFrames
  <1> DEFINE held == UNION {BlocksOf(eles[i].bblock, eles[i].blocks) :
                              i \in {j \in EleNos : Live(j)}}
  <1>0. RingType /\ RingInv /\ Running /\ ppc = "idle" /\ NumInv /\ CoverInv
    BY TypeRing DEF IInv, LogInv, AtRest, Running
  <1>1. count = Pos(tail)
    BY <1>0 DEF RingInv, WindowInv
  <1>2. ASSUME NEW i \in EleNos, Live(i)
        PROVE  /\ eles[i].num = num - (count - 1 - Pos(i))
               /\ eles[i].len = eles[i].blocks /\ eles[i].len > 0
    BY <1>0, <1>2 DEF NumInv, LastIn, RingInv, TilingInv
  <1>3. fblocks \in 0 .. TBlocks /\ TBlocks - fblocks \in 0 .. TBlocks
    BY <1>0, Sizes DEF RingType
  <1>4. Cardinality({b \in BlockNos : Off(b) < TBlocks - fblocks}) = TBlocks - fblocks
    BY <1>0, <1>3, BlocksBelow
  <1>5. held = {b \in BlockNos : Off(b) < TBlocks - fblocks}
    BY <1>0, LiveBlocks
  <1> HIDE DEF held
  <1>6. Cardinality(held) = TBlocks - fblocks
    BY <1>4, <1>5
  <1>7. fblocks + Cardinality(held) = TBlocks
    BY <1>3, <1>6, Sizes
  <1> QED BY <1>1, <1>2, <1>7 DEF WindowIsNewestFrames, held

(* Between two calls the pool holds an unbroken run of frames that ends    *)
(* with the newest, and the blocks of these frames and the free ones make  *)
(* up the block ring: no call of MShmPoolAddResource, whether it frees,    *)
(* drops the oldest, wraps or fails with -ENOMEM, leaks a block or leaves  *)
(* a gap, for any sizes and after any crash and re-creation.               *)
THEOREM NewestFramesKept == Spec => []WindowIsNewestFrames
PROOF
  <1>1. Init => IInv /\ LogInv
    BY IInvInit, LogInit
  <1>2. IInv /\ LogInv /\ [Next]_vars => (IInv /\ LogInv)'
    BY IInvStep, LogStep
  <1> QED BY <1>1, <1>2, LogGivesWindow, PTL DEF Spec

----------------------------------------------------------------------------
(* The refinement.  While the producer runs, the log is known from the     *)
(* number of the last frame in and the count.                              *)
LogOf(n, c) == [k \in 1 .. c |-> Log!Frame(n - c + k)]
PoolLog     == [k \in 1 .. count |-> LoggedFrame(k)]

LEMMA LogOfSeq ==
  ASSUME NEW n \in Int, NEW c \in Nat
  PROVE  LogOf(n, c) \in Seq([seq : Int, bytes : SUBSET Int]) /\ Len(LogOf(n, c)) = c
PROOF
  <1> DEFINE F == [seq : Int, bytes : SUBSET Int]
  <1>1. \A k \in 1 .. c : Log!Frame(n - c + k) \in F
    BY DEF Log!Frame
  <1>2. LogOf(n, c) \in [1 .. c -> F]
    BY <1>1 DEF LogOf
  <1> HIDE DEF F
  <1>3. LogOf(n, c) \in Seq(F) /\ Len(LogOf(n, c)) = c
    BY <1>2
  <1> QED BY <1>3 DEF F

LEMMA LogDrop ==
  ASSUME NEW n \in Int, NEW c \in Nat, c > 0
  PROVE  LogOf(n, c) # <<>> /\ Tail(LogOf(n, c)) = LogOf(n, c - 1)
PROOF
  <1> DEFINE F == [seq : Int, bytes : SUBSET Int]
             s == LogOf(n, c)
             t == LogOf(n, c - 1)
  <1>1. s \in Seq(F) /\ Len(s) = c
    BY LogOfSeq
  <1>2. t \in Seq(F) /\ Len(t) = c - 1
    BY LogOfSeq
  <1>3. \A k \in 1 .. c - 1 : t[k] = s[k + 1]
    BY DEF LogOf
  <1> HIDE DEF F, s, t
  <1>4. s # <<>>
    BY <1>1
  <1>5. Tail(s) \in Seq(F) /\ Len(Tail(s)) = c - 1 /\ \A k \in 1 .. c - 1 : Tail(s)[k] = s[k + 1]
    BY <1>1, <1>4
  <1>6. Tail(s) = t
    BY <1>2, <1>3, <1>5, SeqEqual
  <1> QED BY <1>4, <1>6 DEF s, t

LEMMA LogPush ==
  ASSUME NEW n \in Int, NEW c \in Nat
  PROVE  /\ Append(LogOf(n, c), Log!Frame(n + 1)) = LogOf(n + 1, c + 1)
         /\ LogOf(n, c) # <<>> => LogOf(n, c)[Len(LogOf(n, c))].seq = n
PROOF
  <1> DEFINE F == [seq : Int, bytes : SUBSET Int]
             s == LogOf(n, c)
             t == LogOf(n + 1, c + 1)
             e == Log!Frame(n + 1)
  <1>1. s \in Seq(F) /\ Len(s) = c
    BY LogOfSeq
  <1>2. t \in Seq(F) /\ Len(t) = c + 1
    BY LogOfSeq
  <1>3. (\A k \in 1 .. c : t[k] = s[k]) /\ t[c + 1] = e
    BY DEF LogOf
  <1>4. e \in F
    BY DEF Log!Frame
  <1>5. c > 0 => s[c].seq = n
    BY DEF LogOf, Log!Frame
  <1> HIDE DEF F, s, t, e
  <1>6. /\ Append(s, e) \in Seq(F) /\ Len(Append(s, e)) = c + 1
        /\ \A k \in 1 .. c : Append(s, e)[k] = s[k]
        /\ Append(s, e)[c + 1] = e
    BY <1>1, <1>4, AppendProperties
  <1>7. \A k \in 1 .. c + 1 : Append(s, e)[k] = t[k]
    BY <1>3, <1>6
  <1>8. Append(s, e) = t
    BY <1>2, <1>6, <1>7, SeqEqual
  <1>9. s # <<>> => c > 0
    BY <1>1
  <1> QED BY <1>1, <1>5, <1>8, <1>9 DEF s, t, e

LEMMA RunningLog ==
  ASSUME IInv, LogInv, Running
  PROVE  PoolLog = LogOf(LastIn, count) /\ count \in Nat /\ LastIn \in Int
PROOF
  <1> USE Sizes
  <1>0. RingType /\ RingInv /\ LiveDataIntact /\ NumInv
    BY TypeRing DEF IInv, LogInv
  <1>1. count \in 0 .. MaxEle /\ head \in 0 .. MaxEle - 1 /\ LastIn \in Int
    BY <1>0 DEF RingType, LastIn
  <1>2. ASSUME NEW k \in 1 .. count
        PROVE  LoggedFrame(k) = Log!Frame(LastIn - count + k)
    <2> DEFINE i == (head + k - 1) % MaxEle
               e == eles[i]
    <2>1. i = IF head + (k - 1) >= MaxEle THEN head + (k - 1) - MaxEle ELSE head + (k - 1)
      <3>1. head + k - 1 = head + (k - 1) /\ k - 1 \in 0 .. MaxEle /\ MaxEle \in Nat \ {0}
        BY <1>1
      <3>2. (head + (k - 1)) % MaxEle
              = IF head + (k - 1) >= MaxEle THEN head + (k - 1) - MaxEle ELSE head + (k - 1)
        BY <1>1, <3>1, ModWrap
      <3> QED BY <3>1, <3>2
    <2>2. i \in EleNos /\ Pos(i) = k - 1
      <3> HIDE DEF i
      <3> QED BY <1>1, <2>1 DEF EleNos, Pos
    <2>3. Live(i)
      <3> HIDE DEF i
      <3> QED BY <1>1, <2>2 DEF Live
    <2>4. e.num = LastIn - (count - 1 - (k - 1))
      <3> HIDE DEF i
      <3> QED BY <1>0, <2>2, <2>3 DEF NumInv
    <2>5. e.num = LastIn - count + k
      <3> HIDE DEF e
      <3> QED BY <1>1, <2>4
    <2>6. e.len > 0 /\ e.len \in Nat /\ \A b \in BlocksOf(e.bblock, e.len) : data[b] = e.num
      <3> HIDE DEF i
      <3> QED BY <1>0, <2>2, <2>3 DEF RingInv, TilingInv, RingType, LiveDataIntact
    <2>7. BlocksOf(e.bblock, e.len) # {}
      <3> HIDE DEF e
      <3>1. 0 \in 0 .. e.len - 1
        BY <2>6
      <3> QED BY <3>1 DEF BlocksOf
    <2>8. {data[b] : b \in BlocksOf(e.bblock, e.len)} = {e.num}
      <3> HIDE DEF e
      <3> QED BY <2>6, <2>7
    <2> HIDE DEF e
    <2>9. LoggedFrame(k) = [seq |-> e.num, bytes |-> {data[b] : b \in BlocksOf(e.bblock, e.len)}]
      BY DEF LoggedFrame, e
    <2> QED BY <2>5, <2>8, <2>9 DEF Log!Frame
  <1>3. PoolLog = LogOf(LastIn, count)
    BY <1>2 DEF PoolLog, LogOf
  <1> QED BY <1>1, <1>3

LEMMA RunningLogNext == (IInv /\ LogInv /\ Running)' => (PoolLog = LogOf(LastIn, count))'
PROOF
  <1>1. IInv /\ LogInv /\ Running => PoolLog = LogOf(LastIn, count)
    BY RunningLog
  <1> QED BY <1>1, PTL

Opening == ppc \in {"create", "init"}

(* A step that leaves the rings alone leaves the log alone. *)
LEMMA LogUnchanged == UNCHANGED ring => PoolLog' = PoolLog
  BY DEF ring, PoolLog, LoggedFrame

(* The actions of the frame log, in the terms of the mapping. *)
LEMMA LogActions ==
  /\ \A s : Log!Push(s) <=>
       /\ ~Opening /\ Len(PoolLog) < MaxEle
       /\ PoolLog # <<>> => s = PoolLog[Len(PoolLog)].seq + 1
       /\ PoolLog' = Append(PoolLog, Log!Frame(s)) /\ Opening' = Opening
  /\ Log!DropOldest <=> ~Opening /\ PoolLog # <<>> /\ PoolLog' = Tail(PoolLog) /\ Opening' = Opening
  /\ Log!Open <=> ~Opening /\ Opening' = TRUE /\ PoolLog' = PoolLog
  /\ Log!Reset <=> Opening /\ Opening' = FALSE /\ PoolLog' = <<>>
  /\ Log!Abandon <=> Opening /\ Opening' = FALSE /\ PoolLog' = PoolLog
  BY DEF Log!Push, Log!DropOldest, Log!Open, Log!Reset, Log!Abandon, PoolLog, Opening

LEMMA LogRefinesStep ==
  ASSUME IInv, LogInv, IInv', LogInv', [Next]_vars
  PROVE  Log!Next \/ UNCHANGED <<PoolLog, Opening>>
PROOF
  <1> USE Sizes
  <1>0. RingType /\ RingInv /\ TypeOK
    BY TypeRing DEF IInv
  <1>1. Running => PoolLog = LogOf(LastIn, count) /\ count \in Nat /\ LastIn \in Int
    BY RunningLog
  <1>2. Running' => PoolLog' = LogOf(LastIn', count')
    <2>1. (PoolLog = LogOf(LastIn, count))' => PoolLog' = LogOf(LastIn', count')
      BY DEF LogOf
    <2> QED BY <2>1, RunningLogNext
  <1>3. CASE FreeBlocks \/ (AddPublish /\ FreeHead)
    <2>1. /\ Running /\ Running' /\ ~Opening /\ ~Opening' /\ count' = count - 1 /\ LastIn' = LastIn
      BY <1>3 DEF FreeBlocks, AddPublish, FreeHead, Running, Opening, LastIn, prod
    <2>2. count > 0
      BY <1>0, <1>3 DEF FreeBlocks, AddPublish, RingInv, Running, WindowInv, Pos, RingType
    <2>3. PoolLog # <<>> /\ PoolLog' = Tail(PoolLog)
      BY <1>1, <1>2, <2>1, <2>2, LogDrop
    <2>4. Log!DropOldest
      BY <2>1, <2>3, LogActions DEF Opening
    <2> QED BY <2>4 DEF Log!Next
  <1>4. CASE InsertData2Ele
    <2>1. /\ Running /\ Running' /\ ~Opening /\ ~Opening' /\ count' = count + 1
          /\ LastIn = num - 1 /\ LastIn' = num /\ WindowInv /\ NumInv
      BY <1>0, <1>4 DEF InsertData2Ele, Running, Opening, LastIn, RingInv, LogInv
    <2>2. count < MaxEle /\ num \in 1 .. MaxFrames
      <3>1. count < MaxEle
        BY <1>0, <1>4, <2>1 DEF InsertData2Ele, WindowInv, Pos, RingType
      <3>2. num \in 0 .. MaxFrames /\ num > 0
        BY <1>0, <1>4, <2>1 DEF InsertData2Ele, NumInv, TypeOK, RingTypeOK
      <3> QED BY <3>1, <3>2, PoolAssumption
    <2>3. num = LastIn + 1
      BY <2>1, <2>2
    <2>4. Len(PoolLog) = count
      BY <1>1, <2>1, LogOfSeq
    <2>5. PoolLog # <<>> => PoolLog[Len(PoolLog)].seq + 1 = num
      <3>1. PoolLog # <<>> => PoolLog[Len(PoolLog)].seq = LastIn
        BY <1>1, <2>1, LogPush
      <3> QED BY <2>3, <3>1
    <2>6. PoolLog' = Append(PoolLog, Log!Frame(num))
      <3>1. Append(LogOf(LastIn, count), Log!Frame(LastIn + 1)) = LogOf(LastIn + 1, count + 1)
        BY <1>1, <2>1, LogPush
      <3> QED BY <1>1, <1>2, <2>1, <2>3, <3>1
    <2>7. Log!Push(num)
      BY <2>1, <2>2, <2>4, <2>5, <2>6, LogActions DEF Opening
    <2> QED BY <2>2, <2>7 DEF Log!Next
  <1>5. CASE AddReserve \/ (AddPublish /\ ~FreeHead)
    <2>1. /\ Running /\ Running' /\ ~Opening /\ ~Opening' /\ count' = count /\ num \in Int
      BY <1>0, <1>5 DEF AddReserve, AddPublish, Running, Opening, RingType
    <2>2. LastIn' = LastIn
      BY <1>5, <2>1 DEF AddReserve, AddPublish, LastIn
    <2> QED BY <1>1, <1>2, <2>1, <2>2 DEF Opening
  <1>6. CASE MShmPoolCreate
    <2>1. Opening /\ ~Opening' /\ count' = 0
      BY <1>6 DEF MShmPoolCreate, Opening
    <2>2. PoolLog' = <<>>
      BY <2>1 DEF PoolLog
    <2>3. Log!Reset
      BY <2>1, <2>2, LogActions DEF Opening
    <2> QED BY <2>3 DEF Log!Next
  <1>7. CASE MShmCoreCreate
    <2>1. ~Opening /\ Opening' /\ UNCHANGED ring
      BY <1>7 DEF MShmCoreCreate, Opening
    <2>2. Log!Open
      BY <2>1, LogActions, LogUnchanged DEF Opening
    <2> QED BY <2>2 DEF Log!Next
  <1>8. CASE ProducerCrash
    <2>1. ~Opening' /\ UNCHANGED ring
      BY <1>8 DEF ProducerCrash, Opening
    <2>2. CASE Opening
      <3>1. Log!Abandon
        BY <2>1, <2>2, LogActions, LogUnchanged DEF Opening
      <3> QED BY <3>1 DEF Log!Next
    <2>3. CASE ~Opening
      BY <2>1, <2>3, LogUnchanged DEF Opening
    <2> QED BY <2>2, <2>3
  <1>9. CASE \/ MShmPoolCreateLock \/ FreeBlocksDone \/ AddNoMem \/ SemAddAll
             \/ \E n \in Needs : AddBegin(n)
    <2>1. UNCHANGED ring /\ Opening' = Opening
      BY <1>9 DEF MShmPoolCreateLock, FreeBlocksDone, AddNoMem, SemAddAll, AddBegin, Opening
    <2> QED BY <2>1, LogUnchanged
  <1>10. CASE UNCHANGED vars \/ \E r \in Readers : ReaderStep(r) \/ ReaderCall(r)
    <2>1. UNCHANGED <<ring, prod>>
      BY <1>10, ReaderLeavesRing DEF vars
    <2> QED BY <2>1, LogUnchanged DEF Opening, prod
  <1> QED BY <1>3, <1>4, <1>5, <1>6, <1>7, <1>8, <1>9, <1>10 DEF Next, ProducerStep

(* The pool implements the frame log: for any number of readers and any    *)
(* sizes, across crashes and re-creations, frames enter at the end with    *)
(* the next number and their own bytes (MShmPoolAddResource), leave oldest *)
(* first (FreeBlocks, FreeHeadEle) and never change in between.            *)
THEOREM PoolRefinesLog == Spec => ImplementsFrameLog
PROOF
  <1>1. Init => IInv /\ LogInv
    BY IInvInit, LogInit
  <1>2. IInv /\ LogInv /\ [Next]_vars => (IInv /\ LogInv)'
    BY IInvStep, LogStep
  <1>3. Init => Log!Init
    BY DEF Init, Log!Init
  <1>4. IInv /\ LogInv /\ (IInv /\ LogInv)' /\ [Next]_vars
          => [Log!Next]_<<[k \in 1 .. count |-> LoggedFrame(k)], ppc \in {"create", "init"}>>
    BY LogRefinesStep DEF PoolLog, Opening
  <1> QED BY <1>1, <1>2, <1>3, <1>4, PTL DEF Spec, ImplementsFrameLog, Log!Spec

----------------------------------------------------------------------------
(* A reader alone on its slots that reads with MShmPoolGetResource.  The   *)
(* semaphore counts the unread frames as long as a reader is taken for     *)
(* dead before the elements lap it (maxsem is 100, SHPOOL_MAX_ELE 5000)    *)
(* and the frames fit into its buffer (one that does not is counted as     *)
(* read and stays before the cursor, mshmpool.c:592).                      *)
PlainReader ==
  /\ OneReader /\ MaxStarts <= 1
  /\ Ops \subseteq {"GetResource", "ReqFree", "ReaderCrash"}
  /\ MaxSem + 2 < MaxEle
  /\ \A n \in Needs : n <= BufBlocks

Backlog(c) == (tail - c) % MaxEle

Pending(r) == (IF rd[r].pc \in {"grLock", "copy"} THEN 1 ELSE 0) + (IF ppc = "signal" THEN 1 ELSE 0)

(* The reader is in no call but MShmPoolGetResource, and only in a pool    *)
(* that has been created.                                                  *)
ReadingInv ==
  /\ ppc \in {"down", "create", "init"} => ~ready
  /\ \A r \in Readers : /\ rd[r].pc \in {"out", "idle", "grLock", "copy"}
                        /\ ~ready => rd[r].pc = "out"

(* No frame is too long for the reader. *)
FitsInv ==
  /\ \A i \in EleNos : eles[i].len <= BufBlocks
  /\ \A r \in Readers : rd[r].len <= BufBlocks

(* What is counted, what is pending and what is unread are the same, and   *)
(* the copy is of the element at the cursor.                               *)
BacklogInv ==
  \A r \in Readers : Owns(r) =>
    /\ Backlog(Slot(r).curele) = sem[rd[r].userno] + Pending(r)
    /\ sem[rd[r].userno] <= MaxSem
    /\ rd[r].pc = "copy" => rd[r].cur = Slot(r).curele

SemInv == IInv /\ ExclusionInv /\ ReadingInv /\ FitsInv /\ BacklogInv

(* The number of the frame just behind the tail. *)
Published == IF ppc \in {"fill", "publish"} THEN num - 1 ELSE num

(* The elements behind the tail keep their numbers, freed or not. *)
TrailInv ==
  Running => \A i \in EleNos : Backlog(i) \in 1 .. Published => eles[i].num = Published + 1 - Backlog(i)

(* A pool that has had a frame holds one between two calls. *)
NonEmptyInv == ppc \in {"idle", "publish", "signal"} /\ num > 0 => count > 0

(* The frame at the cursor is newer than the one read last. *)
OrderInv ==
  \A r \in Readers : Owns(r) =>
    Slot(r).curele >= 0 /\ rd[r].got + Backlog(Slot(r).curele) <= Published

LEMMA NewerIs ==
  ASSUME NEW c \in -1 .. MaxEle - 1
  PROVE  NewerEle(c) = (IF c + 1 >= MaxEle THEN 0 ELSE c + 1) /\ NewerEle(c) \in 0 .. MaxEle - 1
  BY Sizes DEF NewerEle

(* How far behind the tail t a cursor c is, and what moving either does. *)
LEMMA BacklogIs ==
  ASSUME NEW t \in 0 .. MaxEle - 1, NEW c \in -1 .. MaxEle - 1
  PROVE  (t - c) % MaxEle = IF t - c >= MaxEle THEN t - c - MaxEle
                            ELSE IF t - c < 0 THEN t - c + MaxEle ELSE t - c
  BY Sizes

LEMMA BacklogMoves ==
  ASSUME NEW t \in 0 .. MaxEle - 1, NEW c \in -1 .. MaxEle - 1
  PROVE  /\ (t - c) % MaxEle \in 0 .. MaxEle - 1
         /\ ((t - c) % MaxEle) + 1 < MaxEle => (NewerEle(t) - c) % MaxEle = ((t - c) % MaxEle) + 1
         /\ (t - c) % MaxEle >= 1 => (t - NewerEle(c)) % MaxEle = ((t - c) % MaxEle) - 1
         /\ (t - (t - 1)) % MaxEle = 1
         /\ (t - t) % MaxEle = 0
PROOF
  <1> USE Sizes
  <1>1. NewerEle(t) = (IF t + 1 >= MaxEle THEN 0 ELSE t + 1) /\ NewerEle(t) \in 0 .. MaxEle - 1
    BY NewerIs
  <1>2. NewerEle(c) = (IF c + 1 >= MaxEle THEN 0 ELSE c + 1) /\ NewerEle(c) \in 0 .. MaxEle - 1
    BY NewerIs
  <1>3. (t - c) % MaxEle = IF t - c >= MaxEle THEN t - c - MaxEle
                           ELSE IF t - c < 0 THEN t - c + MaxEle ELSE t - c
    BY BacklogIs
  <1> DEFINE n == NewerEle(t)
             m == NewerEle(c)
  <1>4. (n - c) % MaxEle = IF n - c >= MaxEle THEN n - c - MaxEle
                           ELSE IF n - c < 0 THEN n - c + MaxEle ELSE n - c
    BY <1>1, BacklogIs
  <1>5. (t - m) % MaxEle = IF t - m >= MaxEle THEN t - m - MaxEle
                           ELSE IF t - m < 0 THEN t - m + MaxEle ELSE t - m
    BY <1>2, BacklogIs
  <1>6. (t - (t - 1)) % MaxEle = 1 /\ (t - t) % MaxEle = 0
    BY BacklogIs
  <1> HIDE DEF n, m
  <1>7. ((t - c) % MaxEle) + 1 < MaxEle => (n - c) % MaxEle = ((t - c) % MaxEle) + 1
    BY <1>1, <1>3, <1>4 DEF n
  <1>8. (t - c) % MaxEle >= 1 => (t - m) % MaxEle = ((t - c) % MaxEle) - 1
    BY <1>2, <1>3, <1>5 DEF m
  <1> QED BY <1>3, <1>6, <1>7, <1>8 DEF n, m

(* The calls that such a reader makes. *)
LEMMA PlainSteps ==
  ASSUME PlainReader, ReadingInv, NEW r \in Readers, ReaderStep(r) \/ ReaderCall(r)
  PROVE  \/ MShmPoolReq(r) \/ MShmPoolReqBusy(r) \/ MShmPoolReqFree(r) \/ ReaderCrash(r)
         \/ GetResourceSemReq(r) \/ GetResourceLock(r) \/ SaveEle2Buf(r)
PROOF
  <1>1. rd[r].pc \in {"out", "idle", "grLock", "copy"}
    BY DEF ReadingInv
  <1>2. /\ "GetPacket" \notin Ops /\ "MvUsrPlace" \notin Ops /\ "MvNewPlace" \notin Ops
        /\ "ReActive" \notin Ops /\ "DelUsr" \notin Ops
    BY DEF PlainReader
  <1>3. ~GetPacketTest(r) /\ ~GetPacketSemReq(r) /\ ~GetPacketSemZero(r) /\ ~GetPacketReset(r)
        /\ ~GetPacketClear(r) /\ ~GetPacketLock(r)
    BY <1>1 DEF GetPacketTest, GetPacketSemReq, GetPacketSemZero, GetPacketReset, GetPacketClear,
       GetPacketLock
  <1>4. ~GetPacketBegin(r) /\ ~MShmPoolReActiveUsr(r) /\ ~MShmPoolDelUsrByPid(r)
        /\ \A place \in Places : ~MShmPoolMvUsrPlace(r, place) /\ ~MShmPoolMvNewPlace(r, place)
    BY <1>2 DEF GetPacketBegin, MShmPoolReActiveUsr, MShmPoolDelUsrByPid, MShmPoolMvUsrPlace,
       MShmPoolMvNewPlace
  <1> QED BY <1>3, <1>4 DEF ReaderStep, ReaderCall

LEMMA SemInit == ASSUME PlainReader PROVE Init => SemInv
PROOF
  <1> SUFFICES ASSUME Init PROVE SemInv
    OBVIOUS
  <1>1. \A r \in Readers : rd[r].pc = "out" /\ rd[r].len = 0
    BY DEF Init, DetachedReader, Between
  <1>2. \A i \in EleNos : eles[i].len = 0
    BY DEF Init, NoEle
  <1>3. 0 <= BufBlocks
    BY PoolAssumption
  <1> QED BY <1>1, <1>2, <1>3, IInvInit, ExclusionInit
          DEF Init, SemInv, ReadingInv, FitsInv, BacklogInv, Owns

LEMMA FitsProducer ==
  ASSUME PlainReader, SemInv,
         MShmCoreCreate \/ (\E n \in Needs : AddBegin(n)) \/ ProducerStep
  PROVE  \A i \in EleNos : eles'[i].len <= BufBlocks
PROOF
  <1>0. RingType /\ (\A i \in EleNos : eles[i].len <= BufBlocks) /\ 0 <= BufBlocks
    BY TypeRing, PoolAssumption DEF SemInv, IInv, FitsInv
  <1>1. ASSUME FreeHead
        PROVE  \A i \in EleNos : eles'[i].len <= BufBlocks
    BY <1>0, <1>1 DEF FreeHead, Emptied, RingType
  <1>2. need <= BufBlocks
    BY <1>0 DEF PlainReader, SemInv, IInv, TypeOK, ProducerTypeOK
  <1>3. CASE AddReserve
    BY <1>0, <1>3 DEF AddReserve, RingType
  <1>4. CASE InsertData2Ele
    BY <1>0, <1>2, <1>4 DEF InsertData2Ele, Holding, RingType
  <1>5. CASE MShmPoolCreate
    BY <1>0, <1>5 DEF MShmPoolCreate, NoEle
  <1>6. CASE FreeBlocks
    BY <1>1, <1>6 DEF FreeBlocks
  <1>7. CASE AddPublish
    BY <1>0, <1>1, <1>7 DEF AddPublish
  <1>8. CASE eles' = eles
    BY <1>0, <1>8
  <1> QED BY <1>3, <1>4, <1>5, <1>6, <1>7, <1>8
          DEF ProducerStep, MShmCoreCreate, AddBegin, MShmPoolCreateLock, FreeBlocksDone, AddNoMem,
              SemAddAll, ring

LEMMA ReadingProducer ==
  ASSUME SemInv, MShmCoreCreate \/ (\E n \in Needs : AddBegin(n)) \/ ProducerStep
  PROVE  rd' = rd /\ ReadingInv'
PROOF
  <1>1. rd' = rd
    BY DEF MShmCoreCreate, AddBegin, ProducerStep,
       MShmPoolCreateLock, MShmPoolCreate, FreeBlocks, FreeBlocksDone, AddNoMem, AddReserve,
       InsertData2Ele, AddPublish, SemAddAll
  <1>2. CASE MShmPoolCreate
    BY <1>1, <1>2 DEF MShmPoolCreate, ReadingInv, SemInv
  <1>3. CASE ~MShmPoolCreate
    <2>1. /\ ready' = ready
          /\ ppc' \in {"down", "create", "init"} => ppc \in {"down", "create", "init"}
      BY <1>3 DEF MShmCoreCreate, AddBegin, ProducerStep, MShmPoolCreateLock, FreeBlocks,
         FreeBlocksDone, AddNoMem, AddReserve, InsertData2Ele, AddPublish, SemAddAll, prod
    <2> QED BY <1>1, <2>1 DEF ReadingInv, SemInv
  <1> QED BY <1>1, <1>2, <1>3

LEMMA BacklogProducer ==
  ASSUME PlainReader, SemInv, MShmCoreCreate \/ (\E n \in Needs : AddBegin(n)) \/ ProducerStep
  PROVE  BacklogInv'
PROOF
  <1> SUFFICES ASSUME NEW r \in Readers, Owns(r)'
               PROVE  /\ Backlog(Slot(r).curele)' = sem'[rd'[r].userno] + Pending(r)'
                      /\ sem'[rd'[r].userno] <= MaxSem
                      /\ rd'[r].pc = "copy" => rd'[r].cur = Slot(r)'.curele
    BY DEF BacklogInv
  <1> DEFINE u == rd[r].userno
             c == users[u].curele
             g == IF rd[r].pc \in {"grLock", "copy"} THEN 1 ELSE 0
  <1>0. /\ TypeOK /\ RingType /\ SlotsTypeOK /\ u \in UserNos /\ rd' = rd /\ g \in 0 .. 1
        /\ tail \in 0 .. MaxEle - 1 /\ MaxSem \in Nat /\ MaxSem + 2 < MaxEle
    BY TypeRing, RdType, ReadingProducer, PoolAssumption
       DEF SemInv, IInv, TypeOK, RingType, PlainReader
  <1>1. c \in -1 .. MaxEle - 1 /\ sem[u] \in Nat
    BY <1>0 DEF SlotsTypeOK, User
  <1>2. CASE MShmPoolCreate
    <2>1. rd[r].pc = "out"
      BY <1>2 DEF MShmPoolCreate, SemInv, ReadingInv
    <2> QED BY <1>0, <2>1 DEF Owns
  <1>3. CASE SemAddAll
    <2>1. /\ users'[u].curele = c /\ users'[u].upid = users[u].upid
          /\ users'[u].valid => users[u].valid /\ sem[u] + 1 <= MaxSem
          /\ users[u].valid => sem'[u] = sem[u] + 1
          /\ tail' = tail /\ ppc = "signal" /\ ppc' = "idle"
      BY <1>0, <1>3 DEF SemAddAll, SlotsTypeOK, User, ring
    <2>2. Owns(r) /\ users'[u].valid
      BY <1>0, <2>1 DEF Owns, Slot
    <2>3. (tail - c) % MaxEle = sem[u] + (g + 1) /\ (rd[r].pc = "copy" => rd[r].cur = c)
      BY <2>1, <2>2 DEF SemInv, BacklogInv, Backlog, Slot, Pending
    <2>4. sem[u] + (g + 1) = (sem[u] + 1) + (g + 0)
      BY <1>0, <1>1
    <2>5. Pending(r)' = g + 0
      BY <1>0, <2>1 DEF Pending
    <2> HIDE DEF g
    <2> QED BY <1>0, <2>1, <2>2, <2>3, <2>4, <2>5 DEF Backlog, Slot
  <1>4. CASE ~MShmPoolCreate /\ ~SemAddAll
    <2>1. users' = users /\ sem' = sem /\ ppc # "signal"
          /\ (ppc' = "signal" <=> AddPublish)
          /\ (~AddPublish => tail' = tail)
      BY <1>4 DEF MShmCoreCreate, AddBegin, ProducerStep, MShmPoolCreateLock, FreeBlocks,
         FreeBlocksDone, AddNoMem, AddReserve, InsertData2Ele, AddPublish, slots, ring, prod
    <2>2. Owns(r)
      BY <1>0, <2>1 DEF Owns, Slot
    <2>3. (tail - c) % MaxEle = sem[u] + (g + 0) /\ (rd[r].pc = "copy" => rd[r].cur = c)
          /\ sem[u] <= MaxSem
      BY <2>1, <2>2 DEF SemInv, BacklogInv, Backlog, Slot, Pending
    <2>4. Pending(r)' = g + (IF AddPublish THEN 1 ELSE 0)
      BY <1>0, <2>1 DEF Pending
    <2> HIDE DEF g
    <2>5. CASE AddPublish
      <3>1. tail' = NewerEle(tail)
        BY <2>5 DEF AddPublish
      <3>2. ((tail - c) % MaxEle) + 1 < MaxEle
        <4> DEFINE d == (tail - c) % MaxEle
                   s == sem[u]
        <4>1. d = s + (g + 0) /\ s <= MaxSem /\ s \in Nat
          BY <1>1, <2>3
        <4> HIDE DEF d, s
        <4>2. d + 1 < MaxEle
          BY <1>0, <4>1, Sizes
        <4> QED BY <4>2 DEF d
      <3>3. (NewerEle(tail) - c) % MaxEle = ((tail - c) % MaxEle) + 1
        BY <1>0, <1>1, <3>2, BacklogMoves
      <3>4. (NewerEle(tail) - c) % MaxEle = sem[u] + (g + 1)
        BY <1>0, <1>1, <2>3, <3>3
      <3> QED BY <1>0, <2>1, <2>3, <2>4, <2>5, <3>1, <3>4 DEF Backlog, Slot
    <2>6. CASE ~AddPublish
      BY <1>0, <2>1, <2>3, <2>4, <2>6 DEF Backlog, Slot
    <2> QED BY <2>5, <2>6
  <1> QED BY <1>2, <1>3, <1>4

(* The step of a read that finds the element: nobody is adding a frame. *)
LEMMA LockedReader ==
  ASSUME SemInv, NEW r \in Readers, rd[r].pc # "out", lock > 0
  PROVE  ppc = "idle"
PROOF
  <1>1. Holders = {} \/ starts = 0
    BY PoolAssumption DEF SemInv, ExclusionInv, IInv, TypeOK, ProducerTypeOK
  <1>2. ppc \in {"down", "create", "idle"}
    BY <1>1, HoldersAre DEF SemInv, ExclusionInv
  <1> QED BY <1>2 DEF SemInv, ReadingInv

LEMMA BacklogReader ==
  ASSUME PlainReader, SemInv, NEW r \in Readers, ReaderStep(r) \/ ReaderCall(r)
  PROVE  ReadingInv' /\ FitsInv' /\ BacklogInv'
PROOF
  <1> DEFINE u == rd[r].userno
             c == users[u].curele
             p == IF ppc = "signal" THEN 1 ELSE 0
  <1>0. /\ TypeOK /\ RingTypeOK /\ RingType /\ SlotsTypeOK /\ ReadersTypeOK /\ u \in UserNos
        /\ tail \in 0 .. MaxEle - 1 /\ MaxSem \in Nat /\ p \in 0 .. 1 /\ 0 <= BufBlocks
    BY TypeRing, RdType, PoolAssumption DEF SemInv, IInv, TypeOK, RingType
  <1>1. c \in -1 .. MaxEle - 1 /\ sem[u] \in Nat /\ sem \in [UserNos -> Nat]
        /\ rd[r].cur \in -1 .. MaxEle - 1
    BY <1>0, RdType DEF SlotsTypeOK, User
  <1>2. /\ eles' = eles /\ tail' = tail /\ ppc' = ppc /\ ready' = ready
    BY ReaderLeavesRing DEF ring, prod
  <1>3. \A q \in Readers : q = r
    BY DEF PlainReader, OneReader
  <1>4. Owns(r) =>
          /\ (tail - c) % MaxEle = sem[u] + ((IF rd[r].pc \in {"grLock", "copy"} THEN 1 ELSE 0) + p)
          /\ sem[u] <= MaxSem
          /\ rd[r].pc = "copy" => rd[r].cur = c
    BY DEF SemInv, BacklogInv, Backlog, Slot, Pending
  <1>5. ASSUME rd'[r].pc \in {"out", "idle", "grLock", "copy"}, ready \/ rd'[r].pc = "out",
               rd'[r].len <= BufBlocks
        PROVE  ReadingInv' /\ FitsInv'
    BY <1>2, <1>3, <1>5 DEF ReadingInv, FitsInv, SemInv
  <1>6. ASSUME Owns(r)' =>
                 /\ (tail - users'[rd'[r].userno].curele) % MaxEle
                      = sem'[rd'[r].userno]
                          + ((IF rd'[r].pc \in {"grLock", "copy"} THEN 1 ELSE 0) + p)
                 /\ sem'[rd'[r].userno] <= MaxSem
                 /\ rd'[r].pc = "copy" => rd'[r].cur = users'[rd'[r].userno].curele
        PROVE  BacklogInv'
    BY <1>2, <1>3, <1>6 DEF BacklogInv, Backlog, Slot, Pending
  <1>7. rd[r].pc # "out" => ready
    BY DEF SemInv, ReadingInv
  <1>8. CASE MShmPoolReqFree(r) \/ ReaderCrash(r)
    <2>1. rd'[r].pc = "out" /\ rd'[r].len = 0
      BY <1>0, <1>8 DEF MShmPoolReqFree, ReaderCrash, DetachedReader, Between, ReadersTypeOK
    <2> QED BY <1>0, <1>5, <1>6, <2>1 DEF Owns
  <1>9. CASE MShmPoolReqBusy(r)
    <2>1. rd' = rd /\ rd[r].pc = "out"
      BY <1>9 DEF MShmPoolReqBusy
    <2>2. rd[r].len <= BufBlocks
      BY DEF SemInv, FitsInv
    <2> QED BY <1>5, <1>6, <2>1, <2>2 DEF Owns
  <1>10. CASE MShmPoolReq(r)
    <2>1. PICK v \in UserNos :
            /\ sem' = [sem EXCEPT ![v] = 0]
            /\ users' = [users EXCEPT ![v] = [valid |-> TRUE, curele |-> tail, upid |-> r]]
            /\ rd' = [rd EXCEPT ![r] = AttachedReader(v)]
      BY <1>10 DEF MShmPoolReq
    <2>2. rd'[r].pc = "idle" /\ rd'[r].userno = v /\ rd'[r].len = 0
      BY <1>0, <2>1 DEF AttachedReader, Between, ReadersTypeOK
    <2>3. sem'[v] = 0 /\ users'[v].curele = tail
      BY <1>0, <2>1 DEF SlotsTypeOK
    <2>4. ready /\ p = 0
      <3>1. ready /\ lock > 0
        BY <1>10 DEF MShmPoolReq, UnderLock
      <3>2. Holders = {} \/ starts = 0
        BY <1>0, <3>1, PoolAssumption DEF SemInv, ExclusionInv, TypeOK, ProducerTypeOK
      <3>3. ppc # "signal"
        BY <3>2, HoldersAre DEF SemInv, ExclusionInv
      <3> QED BY <3>1, <3>3
    <2>5. (tail - tail) % MaxEle = 0
      BY <1>0, BacklogMoves
    <2> HIDE DEF p
    <2>6. (tail - users'[v].curele) % MaxEle = sem'[v] + (0 + p)
      BY <2>3, <2>4, <2>5
    <2> QED BY <1>0, <1>5, <1>6, <2>2, <2>3, <2>4, <2>6
  <1>11. CASE GetResourceSemReq(r)
    <2>1. /\ rd[r].pc = "idle" /\ sem[u] > 0 /\ sem' = [sem EXCEPT ![u] = sem[u] - 1]
          /\ users' = users /\ rd' = [rd EXCEPT ![r].pc = "grLock"]
      BY <1>11 DEF GetResourceSemReq, Goto
    <2>2. rd'[r].pc = "grLock" /\ rd'[r].userno = u /\ rd'[r].len = rd[r].len
      BY <1>0, <2>1 DEF ReadersTypeOK, Rd
    <2>3. sem'[u] = sem[u] - 1
      BY <1>0, <1>1, <2>1
    <2>4. Owns(r)' => Owns(r)
      BY <2>1, <2>2 DEF Owns, Slot
    <2>5. sem[u] + (0 + p) = (sem[u] - 1) + (1 + p) /\ (sem[u] <= MaxSem => sem[u] - 1 <= MaxSem)
      BY <1>0, <1>1
    <2>6. rd[r].len <= BufBlocks
      BY DEF SemInv, FitsInv
    <2> HIDE DEF p
    <2> QED BY <1>4, <1>5, <1>6, <1>7, <2>1, <2>2, <2>3, <2>4, <2>5, <2>6
  <1>12. CASE GetResourceLock(r)
    <2> DEFINE lost == LooksReInitialised(c)
               cur  == IF lost THEN tail - 1 ELSE c
    <2>1. /\ rd[r].pc = "grLock" /\ SaveEle2BufBegin(r, cur) /\ lock > 0
          /\ users' = [users EXCEPT ![u].curele = cur]
          /\ sem' = IF lost THEN [sem EXCEPT ![u] = 0] ELSE sem
      BY <1>12 DEF GetResourceLock, MShmLock
    <2>2. /\ rd'[r].pc = "copy" /\ rd'[r].userno = u /\ rd'[r].cur = cur
          /\ rd'[r].len = EleAt(cur).len
      BY <1>0, <2>1 DEF SaveEle2BufBegin, ReadersTypeOK
    <2>3. /\ users'[u].curele = cur /\ users'[u].valid = users[u].valid
          /\ users'[u].upid = users[u].upid
      BY <1>0, <2>1 DEF SlotsTypeOK, User
    <2>4. cur \in -1 .. MaxEle - 1
      BY <1>0, <1>1, Sizes
    <2>5. EleAt(cur).len <= BufBlocks
      <3> HIDE DEF cur
      <3> QED BY <1>0, <2>4, Sizes DEF EleAt, NoEle, SemInv, FitsInv, EleNos
    <2>6. p = 0
      BY <2>1, LockedReader
    <2>7. Owns(r)' => Owns(r)
      BY <2>1, <2>2, <2>3 DEF Owns, Slot
    <2>8. (tail - (tail - 1)) % MaxEle = 1
      BY <1>0, BacklogMoves
    <2>9. CASE lost
      <3>1. sem'[u] = 0 /\ cur = tail - 1
        BY <1>0, <1>1, <2>1, <2>9
      <3>2. (tail - cur) % MaxEle = 0 + (1 + p) /\ 0 <= MaxSem
        BY <1>0, <2>6, <2>8, <3>1
      <3> HIDE DEF p, cur
      <3> QED BY <1>5, <1>6, <1>7, <2>1, <2>2, <2>3, <2>5, <3>1, <3>2
    <2>10. CASE ~lost
      <3>1. sem' = sem /\ cur = c
        BY <2>1, <2>10
      <3> HIDE DEF p, cur
      <3> QED BY <1>4, <1>5, <1>6, <1>7, <2>1, <2>2, <2>3, <2>5, <2>7, <3>1
    <2> QED BY <2>9, <2>10
  <1>13. CASE SaveEle2Buf(r)
    <2>1. rd[r].pc = "copy" /\ rd[r].len <= BufBlocks /\ sem' = sem
      BY <1>13 DEF SaveEle2Buf, SemInv, FitsInv
    <2>2. users' = [users EXCEPT ![u].curele = NewerEle(rd[r].cur)]
      BY <1>13, <2>1 DEF SaveEle2Buf
    <2>3. rd'[r].pc = "idle" /\ rd'[r].userno = u /\ rd'[r].len = 0
      BY <1>0, <1>13 DEF SaveEle2Buf, Between, ReadersTypeOK
    <2>4. /\ users'[u].curele = NewerEle(rd[r].cur) /\ users'[u].valid = users[u].valid
          /\ users'[u].upid = users[u].upid
      BY <1>0, <2>2 DEF SlotsTypeOK, User
    <2>5. Owns(r)' => Owns(r)
      BY <2>1, <2>3, <2>4 DEF Owns, Slot
    <2>6. ASSUME Owns(r)
          PROVE  /\ (tail - NewerEle(c)) % MaxEle = sem[u] + (0 + p) /\ rd[r].cur = c
                 /\ sem[u] <= MaxSem
      <3>1. (tail - c) % MaxEle = sem[u] + (1 + p) /\ rd[r].cur = c /\ sem[u] <= MaxSem
        BY <1>4, <2>1, <2>6
      <3>2. (tail - c) % MaxEle >= 1 => (tail - NewerEle(c)) % MaxEle = ((tail - c) % MaxEle) - 1
        BY <1>0, <1>1, BacklogMoves
      <3> DEFINE d == (tail - c) % MaxEle
                 e == (tail - NewerEle(c)) % MaxEle
      <3> HIDE DEF p, d, e
      <3>3. d = sem[u] + (1 + p) /\ (d >= 1 => e = d - 1)
        BY <3>1, <3>2 DEF d, e
      <3>4. e = sem[u] + (0 + p)
        BY <1>0, <1>1, <3>3
      <3> QED BY <3>1, <3>4 DEF e
    <2> HIDE DEF p
    <2> QED BY <1>0, <1>5, <1>6, <1>7, <2>1, <2>3, <2>4, <2>5, <2>6
  <1> QED BY <1>8, <1>9, <1>10, <1>11, <1>12, <1>13, PlainSteps DEF SemInv

LEMMA SemStep == ASSUME PlainReader PROVE SemInv /\ [Next]_vars => SemInv'
PROOF
  <1> SUFFICES ASSUME SemInv, [Next]_vars
               PROVE  SemInv'
    OBVIOUS
  <1>1. IInv' /\ ExclusionInv'
    BY IInvStep, ExclusionStep DEF SemInv, IInv, PlainReader
  <1>2. ~ProducerCrash
    BY DEF PlainReader, ProducerCrash
  <1>3. CASE MShmCoreCreate \/ (\E n \in Needs : AddBegin(n)) \/ ProducerStep
    <2>1. rd' = rd /\ ReadingInv' /\ BacklogInv' /\ \A i \in EleNos : eles'[i].len <= BufBlocks
      BY <1>3, ReadingProducer, BacklogProducer, FitsProducer
    <2> QED BY <1>1, <2>1 DEF SemInv, FitsInv
  <1>4. CASE \E r \in Readers : ReaderStep(r) \/ ReaderCall(r)
    BY <1>1, <1>4, BacklogReader DEF SemInv
  <1>5. CASE UNCHANGED vars
    BY <1>1, <1>5 DEF vars, ring, slots, prod, SemInv, ReadingInv, FitsInv, BacklogInv, Backlog, Owns,
       Slot, Pending
  <1> QED BY <1>2, <1>3, <1>4, <1>5 DEF Next

(* For a reader that owns its slot, which SemAddAll takes away before the  *)
(* elements can lap it, the semaphore of MShmPoolGetResource counts        *)
(* exactly the frames between its cursor and the tail: SemAddAll, SemReq,  *)
(* the cursor's steps and its reset on a pool that looks re-initialised    *)
(* stay in step under every interleaving, for any sizes.                   *)
THEOREM BacklogIsCounted ==
  ASSUME PlainReader
  PROVE  Spec => []SemCountsBacklog
PROOF
  <1>1. SemInv => SemCountsBacklog
    <2> SUFFICES ASSUME SemInv, NEW r \in Readers, Owns(r)
                 PROVE  (tail - Slot(r).curele) % MaxEle
                          = sem[rd[r].userno] + (IF rd[r].pc \in {"grLock", "copy"} THEN 1 ELSE 0)
                                              + (IF ppc = "signal" THEN 1 ELSE 0)
      BY DEF SemCountsBacklog
    <2>1. sem[rd[r].userno] \in Nat
      BY RdType DEF SemInv, IInv, TypeOK, SlotsTypeOK
    <2>2. (tail - Slot(r).curele) % MaxEle = sem[rd[r].userno] + Pending(r)
      BY DEF SemInv, BacklogInv, Backlog
    <2> QED BY <2>1, <2>2 DEF Pending
  <1> QED BY <1>1, SemInit, SemStep, PTL DEF Spec

----------------------------------------------------------------------------
(* The order of the frames.                                                *)

LEMMA BacklogEnds ==
  ASSUME NEW t \in 0 .. MaxEle - 1, NEW c \in 0 .. MaxEle - 1
  PROVE  /\ (t - c) % MaxEle = 0 => c = t
         /\ (t - c) % MaxEle = MaxEle - 1 => (NewerEle(t) - c) % MaxEle = 0
PROOF
  <1> USE Sizes
  <1> DEFINE n == NewerEle(t)
  <1>0. c \in -1 .. MaxEle - 1 /\ t \in -1 .. MaxEle - 1
    OBVIOUS
  <1>1. n = (IF t + 1 >= MaxEle THEN 0 ELSE t + 1) /\ n \in 0 .. MaxEle - 1
    BY <1>0, NewerIs
  <1>2. (t - c) % MaxEle = IF t - c >= MaxEle THEN t - c - MaxEle
                           ELSE IF t - c < 0 THEN t - c + MaxEle ELSE t - c
    BY <1>0, BacklogIs
  <1>3. (n - c) % MaxEle = IF n - c >= MaxEle THEN n - c - MaxEle
                           ELSE IF n - c < 0 THEN n - c + MaxEle ELSE n - c
    BY <1>0, <1>1, BacklogIs
  <1> HIDE DEF n
  <1>4. (t - c) % MaxEle = MaxEle - 1 => (n - c) % MaxEle = 0
    BY <1>1, <1>2, <1>3
  <1> QED BY <1>2, <1>4 DEF n

(* Freeing an element does not take its number away. *)
LEMMA FreeHeadNumbers ==
  ASSUME RingType, FreeHead
  PROVE  \A i \in EleNos : eles'[i].num = eles[i].num
  BY DEF FreeHead, Emptied, RingType

LEMMA TrailKept ==
  ASSUME TrailInv, Running, tail' = tail, Published' = Published,
         \A i \in EleNos : i # tail => eles'[i].num = eles[i].num, RingType
  PROVE  TrailInv'
PROOF
  <1>1. ASSUME NEW i \in EleNos
        PROVE  Backlog(i)' = Backlog(i) /\ (i = tail => Backlog(i) = 0)
    <2>1. tail \in 0 .. MaxEle - 1
      BY DEF RingType
    <2>2. (tail - tail) % MaxEle = 0
      BY <2>1, BacklogMoves, Sizes
    <2> QED BY <2>2 DEF Backlog
  <1> QED BY <1>1 DEF TrailInv

LEMMA TrailPublish ==
  ASSUME RingType, RingInv, NumInv, TrailInv, AddPublish
  PROVE  TrailInv'
PROOF
  <1> USE Sizes
  <1>1. /\ ppc = "publish" /\ ppc' = "signal" /\ Running /\ tail' = NewerEle(tail) /\ num' = num
        /\ num \in Nat /\ tail \in 0 .. MaxEle - 1 /\ tail \in EleNos
    BY DEF AddPublish, Running, RingType, EleNos
  <1>2. Published = num - 1 /\ Published' = num
    BY <1>1 DEF Published
  <1>3. \A i \in EleNos : eles'[i].num = eles[i].num
    BY FreeHeadNumbers DEF AddPublish
  <1>4. eles[tail].num = num
    <2>1. Pos(tail) = count - 1 /\ count \in Nat
      BY <1>1 DEF RingInv, WindowInv, RingType
    <2>2. Live(tail)
      BY <2>1 DEF Live
    <2>3. eles[tail].num = num - (count - 1 - (count - 1))
      BY <1>1, <2>1, <2>2 DEF NumInv, LastIn
    <2> QED BY <1>1, <2>1, <2>3
  <1>5. ASSUME NEW i \in EleNos, (NewerEle(tail) - i) % MaxEle \in 1 .. num
        PROVE  eles[i].num = num + 1 - ((NewerEle(tail) - i) % MaxEle)
    <2> DEFINE b == (tail - i) % MaxEle
               n == (NewerEle(tail) - i) % MaxEle
    <2>1. /\ b \in 0 .. MaxEle - 1 /\ (b + 1 < MaxEle => n = b + 1)
          /\ (b = 0 => i = tail) /\ (b = MaxEle - 1 => n = 0)
      BY <1>1, BacklogMoves, BacklogEnds DEF EleNos
    <2>2. b \in 1 .. num - 1 => eles[i].num = num - 1 + 1 - b
      BY <1>1, <1>2 DEF TrailInv, Backlog
    <2>3. n \in 1 .. num
      BY <1>5
    <2> HIDE DEF b, n
    <2>4. n = b + 1
      BY <2>1, <2>3
    <2>5. eles[i].num = num + 1 - n
      <3>1. CASE b = 0
        BY <1>1, <1>4, <2>1, <2>4, <3>1
      <3>2. CASE b # 0
        BY <1>1, <2>1, <2>2, <2>3, <2>4, <3>2
      <3> QED BY <3>1, <3>2
    <2> QED BY <2>5 DEF n
  <1> QED BY <1>1, <1>2, <1>3, <1>5 DEF TrailInv, Backlog

LEMMA TrailStep == IInv /\ LogInv /\ TrailInv /\ [Next]_vars => TrailInv'
PROOF
  <1> SUFFICES ASSUME IInv, LogInv, TrailInv, [Next]_vars
               PROVE  TrailInv'
    OBVIOUS
  <1>0. RingType /\ RingInv
    BY TypeRing DEF IInv
  <1>1. CASE FreeBlocks
    <2>1. Running /\ tail' = tail /\ Published' = Published /\ FreeHead
      BY <1>1 DEF FreeBlocks, Running, Published, prod
    <2> QED BY <1>0, <2>1, FreeHeadNumbers, TrailKept
  <1>2. CASE AddReserve
    <2>1. Running /\ tail' = tail /\ Published' = Published
      BY <1>0, <1>2 DEF AddReserve, Running, Published, RingType
    <2>2. \A i \in EleNos : i # tail => eles'[i] = eles[i]
      BY <1>0, <1>2 DEF AddReserve, RingType
    <2> QED BY <1>0, <2>1, <2>2, TrailKept
  <1>3. CASE InsertData2Ele
    <2>1. Running /\ tail' = tail /\ Published' = Published
      BY <1>3 DEF InsertData2Ele, Running, Published
    <2>2. \A i \in EleNos : i # tail => eles'[i] = eles[i]
      BY <1>0, <1>3 DEF InsertData2Ele, RingType
    <2> QED BY <1>0, <2>1, <2>2, TrailKept
  <1>4. CASE AddPublish
    <2>1. NumInv
      BY <1>4 DEF LogInv, Running, AddPublish
    <2> QED BY <1>0, <1>4, <2>1, TrailPublish
  <1>5. CASE MShmPoolCreate
    <2>1. Published' = 0
      BY <1>5 DEF MShmPoolCreate, Published
    <2> QED BY <2>1 DEF TrailInv
  <1>6. CASE MShmCoreCreate \/ MShmPoolCreateLock \/ ProducerCrash
    BY <1>6 DEF MShmCoreCreate, MShmPoolCreateLock, ProducerCrash, TrailInv, Running
  <1>7. CASE (\E n \in Needs : AddBegin(n)) \/ FreeBlocksDone \/ AddNoMem \/ SemAddAll
    <2>1. Running /\ tail' = tail /\ Published' = Published /\ eles' = eles
      BY <1>7 DEF AddBegin, FreeBlocksDone, AddNoMem, SemAddAll, Running, Published, ring
    <2> QED BY <1>0, <2>1, TrailKept
  <1>8. CASE UNCHANGED vars \/ \E r \in Readers : ReaderStep(r) \/ ReaderCall(r)
    <2>1. UNCHANGED <<ring, prod>>
      BY <1>8, ReaderLeavesRing DEF vars
    <2> QED BY <2>1 DEF ring, prod, TrailInv, Running, Backlog, Published
  <1> QED BY <1>1, <1>2, <1>3, <1>4, <1>5, <1>6, <1>7, <1>8 DEF Next, ProducerStep

(* Every frame fits into half of the pool, so that FreeBlocks(need*2) can  *)
(* succeed.  A larger one empties the pool without being added, and a      *)
(* reader with unread frames that then finds head and tail at 0 takes the  *)
(* pool for re-initialised and reads eles[-1], a frame numbered 0.         *)
HalfPoolFrames == \A n \in Needs : 2 * n <= TBlocks

FrameOrderInv == SemInv /\ LogInv /\ TrailInv /\ NonEmptyInv /\ OrderInv

LEMMA NonEmptyStep ==
  ASSUME HalfPoolFrames, SemInv, NonEmptyInv, [Next]_vars, ~ProducerCrash
  PROVE  NonEmptyInv'
PROOF
  <1> USE Sizes
  <1>0. RingType /\ RingInv /\ TypeOK
    BY TypeRing DEF SemInv, IInv
  <1>1. CASE AddNoMem
    <2>1. ppc = "free" /\ count = 0 /\ fblocks < 2 * need
      BY <1>1 DEF AddNoMem
    <2>2. fblocks = TBlocks
      BY <1>0, <2>1 DEF RingInv, Running, TilingInv
    <2>3. 2 * need <= TBlocks
      BY <1>0 DEF HalfPoolFrames, TypeOK, ProducerTypeOK
    <2>4. need \in Nat
      BY <1>0 DEF RingType
    <2> QED BY <2>1, <2>2, <2>3, <2>4
  <1>2. CASE InsertData2Ele
    BY <1>0, <1>2 DEF InsertData2Ele, NonEmptyInv, RingType
  <1>3. CASE AddPublish
    <2>1. ppc = "publish" /\ Pos(tail) = count - 1
      BY <1>0, <1>3 DEF AddPublish, RingInv, Running, WindowInv
    <2>2. CASE NewerEle(tail) = head
      <3>1. count' = count - 1
        BY <1>3, <2>2 DEF AddPublish, FreeHead
      <3>2. Pos(tail) = MaxEle - 1
        BY <1>0, <2>2 DEF Pos, NewerEle, RingType
      <3> QED BY <1>0, <2>1, <3>1, <3>2 DEF NonEmptyInv, RingType
    <2>3. CASE NewerEle(tail) # head
      <3>1. count' = count
        BY <1>3, <2>3 DEF AddPublish
      <3>2. Pos(tail) \in Nat
        BY <1>0 DEF Pos, RingType
      <3> QED BY <1>0, <2>1, <3>1, <3>2 DEF NonEmptyInv, RingType
    <2> QED BY <2>2, <2>3
  <1>4. CASE SemAddAll
    BY <1>4 DEF SemAddAll, NonEmptyInv, ring
  <1>5. CASE MShmPoolCreate
    BY <1>5 DEF MShmPoolCreate, NonEmptyInv
  <1>6. CASE MShmCoreCreate \/ MShmPoolCreateLock \/ FreeBlocks \/ FreeBlocksDone \/ AddReserve
             \/ \E n \in Needs : AddBegin(n)
    BY <1>6 DEF MShmCoreCreate, MShmPoolCreateLock, FreeBlocks, FreeBlocksDone, AddReserve, AddBegin,
       NonEmptyInv, prod
  <1>7. CASE UNCHANGED vars \/ \E r \in Readers : ReaderStep(r) \/ ReaderCall(r)
    <2>1. UNCHANGED <<ring, prod>>
      BY <1>7, ReaderLeavesRing DEF vars
    <2> QED BY <2>1 DEF ring, prod, NonEmptyInv
  <1> QED BY <1>1, <1>2, <1>3, <1>4, <1>5, <1>6, <1>7 DEF Next, ProducerStep

(* What a read call finds at the cursor of a reader that owns its slot. *)
LEMMA FrameAtCursor ==
  ASSUME SemInv, TrailInv, OrderInv, NEW r \in Readers, Owns(r), rd[r].pc \in {"grLock", "copy"}
  PROVE  LET c == Slot(r).curele
         IN  /\ c \in EleNos /\ Backlog(c) \in 1 .. Published
             /\ eles[c].num = Published + 1 - Backlog(c)
             /\ rd[r].got < eles[c].num
PROOF
  <1> USE Sizes
  <1> DEFINE u == rd[r].userno
             c == Slot(r).curele
             b == Backlog(c)
  <1>0. /\ TypeOK /\ RingType /\ SlotsTypeOK /\ u \in UserNos
        /\ rd[r].got \in 0 .. MaxFrames /\ MaxFrames \in Nat
    BY TypeRing, RdType, PoolAssumption DEF SemInv, IInv, TypeOK
  <1>1. c \in -1 .. MaxEle - 1 /\ sem[u] \in Nat
    BY <1>0 DEF SlotsTypeOK, User, Slot
  <1>2. c >= 0 /\ rd[r].got + b <= Published
    BY DEF OrderInv
  <1>3. c \in EleNos
    BY <1>1, <1>2 DEF EleNos
  <1>4. Running
    BY <1>0 DEF SemInv, ReadingInv, TypeOK, ProducerTypeOK, Running
  <1>5. b = sem[u] + (1 + (IF ppc = "signal" THEN 1 ELSE 0))
    BY DEF SemInv, BacklogInv, Pending
  <1>6. b \in Nat /\ b >= 1
    BY <1>1, <1>5
  <1>7. Published \in Int
    BY <1>0 DEF Published, RingType
  <1>8. b \in 1 .. Published
    <2> HIDE DEF b
    <2> QED BY <1>0, <1>2, <1>6, <1>7
  <1>9. eles[c].num = Published + 1 - b
    BY <1>3, <1>4, <1>8 DEF TrailInv
  <1>10. rd[r].got < Published + 1 - b
    <2> HIDE DEF b
    <2> QED BY <1>0, <1>2, <1>6, <1>7
  <1> QED BY <1>3, <1>8, <1>9, <1>10

LEMMA OrderProducer ==
  ASSUME PlainReader, SemInv, OrderInv,
         MShmCoreCreate \/ (\E n \in Needs : AddBegin(n)) \/ ProducerStep
  PROVE  OrderInv'
PROOF
  <1> SUFFICES ASSUME NEW r \in Readers, Owns(r)'
               PROVE  Slot(r)'.curele >= 0 /\ rd'[r].got + Backlog(Slot(r).curele)' <= Published'
    BY DEF OrderInv
  <1> DEFINE u == rd[r].userno
             c == users[u].curele
             b == (tail - c) % MaxEle
  <1>0. /\ RingType /\ SlotsTypeOK /\ u \in UserNos /\ rd' = rd /\ MaxSem \in Nat
        /\ tail \in 0 .. MaxEle - 1 /\ MaxSem + 2 < MaxEle /\ num \in Nat
        /\ rd[r].got \in 0 .. MaxFrames /\ MaxFrames \in Nat
    BY TypeRing, RdType, ReadingProducer, PoolAssumption
       DEF SemInv, IInv, TypeOK, RingType, PlainReader
  <1>1. c \in -1 .. MaxEle - 1 /\ sem[u] \in Nat
    BY <1>0 DEF SlotsTypeOK, User
  <1>2. CASE MShmPoolCreate
    <2>1. rd[r].pc = "out"
      BY <1>2 DEF MShmPoolCreate, SemInv, ReadingInv
    <2> QED BY <1>0, <2>1 DEF Owns
  <1>3. CASE ~MShmPoolCreate
    <2>1. /\ users'[u].curele = c /\ users'[u].upid = users[u].upid
          /\ users'[u].valid => users[u].valid
      <3>1. CASE SemAddAll
        BY <1>0, <3>1 DEF SemAddAll, SlotsTypeOK, User
      <3>2. CASE ~SemAddAll
        <4>1. users' = users
          BY <1>3, <3>2 DEF MShmCoreCreate, AddBegin, ProducerStep, MShmPoolCreateLock, FreeBlocks,
             FreeBlocksDone, AddNoMem, AddReserve, InsertData2Ele, AddPublish, slots
        <4> QED BY <4>1
      <3> QED BY <3>1, <3>2
    <2>2. Owns(r)
      BY <1>0, <2>1 DEF Owns, Slot
    <2>3. c >= 0 /\ rd[r].got + b <= Published
      BY <2>2 DEF OrderInv, Backlog, Slot
    <2>4. Backlog(Slot(r).curele)' = (tail' - c) % MaxEle /\ Slot(r)'.curele = c
      BY <1>0, <2>1 DEF Backlog, Slot
    <2>5. CASE AddPublish
      <3>1. tail' = NewerEle(tail) /\ Published = num - 1 /\ Published' = num /\ ppc # "signal"
        BY <2>5 DEF AddPublish, Published
      <3>2. b = sem[u] + Pending(r) /\ sem[u] <= MaxSem /\ Pending(r) \in 0 .. 1
        BY <2>2, <3>1 DEF SemInv, BacklogInv, Backlog, Slot, Pending
      <3>3. b + 1 < MaxEle => (tail' - c) % MaxEle = b + 1
        BY <1>0, <1>1, <3>1, BacklogMoves
      <3> DEFINE s == sem[u]
                 q == Pending(r)
                 n == (tail' - c) % MaxEle
      <3> HIDE DEF b, s, q, n
      <3>4. n = b + 1 /\ b \in Int
        <4>1. b = s + q /\ s <= MaxSem /\ q \in 0 .. 1 /\ s \in Nat
          BY <1>1, <3>2 DEF s, q
        <4>2. b + 1 < MaxEle => n = b + 1
          BY <3>3 DEF n
        <4> QED BY <1>0, <4>1, <4>2, Sizes
      <3>5. rd[r].got + n <= num
        BY <1>0, <2>3, <3>1, <3>4
      <3> QED BY <1>0, <2>3, <2>4, <3>1, <3>5 DEF n
    <2>6. CASE ~AddPublish
      <3>1. tail' = tail /\ Published' = Published
        BY <1>0, <1>3, <2>6 DEF MShmCoreCreate, AddBegin, ProducerStep, MShmPoolCreateLock,
           FreeBlocks, FreeBlocksDone, AddNoMem, AddReserve, InsertData2Ele, SemAddAll,
           Published, ring, prod
      <3> QED BY <1>0, <2>3, <2>4, <3>1
    <2> QED BY <2>5, <2>6
  <1> QED BY <1>2, <1>3

LEMMA OrderReader ==
  ASSUME PlainReader, FrameOrderInv, NEW r \in Readers, ReaderStep(r) \/ ReaderCall(r)
  PROVE  /\ OrderInv'
         /\ Owns(r) /\ rd[r].pc = "copy" /\ rd'[r].pc = "idle" => rd'[r].got > rd[r].got
PROOF
  <1> USE Sizes
  <1> DEFINE u == rd[r].userno
             c == users[u].curele
             b == (tail - c) % MaxEle
  <1>0. /\ SemInv /\ LogInv /\ TrailInv /\ NonEmptyInv /\ OrderInv
        /\ TypeOK /\ RingInv /\ RingType /\ SlotsTypeOK /\ ReadersTypeOK /\ u \in UserNos
        /\ tail \in 0 .. MaxEle - 1 /\ num \in Nat /\ Published \in Int
        /\ rd[r].got \in Nat /\ MaxFrames \in Nat
    BY TypeRing, RdType, PoolAssumption
       DEF FrameOrderInv, SemInv, IInv, TypeOK, RingType, Published
  <1>1. c \in -1 .. MaxEle - 1 /\ rd[r].cur \in -1 .. MaxEle - 1
    BY <1>0, RdType DEF SlotsTypeOK, User
  <1>2. tail' = tail /\ Published' = Published
    BY ReaderLeavesRing DEF ring, prod, Published
  <1>3. \A q \in Readers : q = r
    BY DEF PlainReader, OneReader
  <1>4. Owns(r) => c >= 0 /\ rd[r].got + b <= Published
    BY <1>0 DEF OrderInv, Slot, Backlog
  <1>5. ASSUME Owns(r)' =>
                 /\ users'[rd'[r].userno].curele >= 0
                 /\ rd'[r].got + ((tail - users'[rd'[r].userno].curele) % MaxEle) <= Published
        PROVE  OrderInv'
    BY <1>2, <1>3, <1>5 DEF OrderInv, Slot, Backlog
  <1>6. CASE MShmPoolReqFree(r) \/ ReaderCrash(r) \/ MShmPoolReqBusy(r)
    <2>1. rd'[r].pc = "out"
      BY <1>0, <1>6 DEF MShmPoolReqFree, ReaderCrash, MShmPoolReqBusy, DetachedReader, Between,
         ReadersTypeOK
    <2> QED BY <1>5, <2>1 DEF Owns
  <1>7. CASE MShmPoolReq(r)
    <2>1. PICK v \in UserNos :
            /\ users' = [users EXCEPT ![v] = [valid |-> TRUE, curele |-> tail, upid |-> r]]
            /\ rd' = [rd EXCEPT ![r] = AttachedReader(v)]
      BY <1>7 DEF MShmPoolReq
    <2>2. rd[r].pc = "out" /\ rd'[r].pc = "idle" /\ rd'[r].userno = v /\ rd'[r].got = 0
      BY <1>0, <1>7, <2>1 DEF AttachedReader, Between, ReadersTypeOK, MShmPoolReq
    <2>3. users'[v].curele = tail
      BY <1>0, <2>1 DEF SlotsTypeOK
    <2>4. (tail - tail) % MaxEle = 0
      BY <1>0, BacklogMoves
    <2>5. 0 <= Published
      <3>1. ppc \in {"fill", "publish"} => num > 0
        <4>1. Running => NumInv
          BY <1>0 DEF LogInv
        <4>2. ppc = "fill" => num > 0
          BY <4>1 DEF NumInv, Running
        <4>3. ~(ppc = "publish")
          <5>1. lock > 0 /\ ready
            BY <1>7 DEF MShmPoolReq, UnderLock
          <5>2. Holders = {} \/ starts = 0
            BY <1>0, <5>1, PoolAssumption DEF SemInv, ExclusionInv, TypeOK, ProducerTypeOK
          <5> QED BY <1>0, <5>2, HoldersAre DEF SemInv, ExclusionInv
        <4> QED BY <4>2, <4>3
      <3> QED BY <1>0, <3>1 DEF Published
    <2>6. 0 + ((tail - users'[v].curele) % MaxEle) <= Published /\ users'[v].curele >= 0
      BY <1>0, <2>3, <2>4, <2>5
    <2> QED BY <1>5, <2>2, <2>6
  <1>8. CASE GetResourceSemReq(r)
    <2>1. rd[r].pc = "idle" /\ users' = users /\ rd' = [rd EXCEPT ![r].pc = "grLock"]
      BY <1>8 DEF GetResourceSemReq, Goto
    <2>2. rd'[r].pc = "grLock" /\ rd'[r].userno = u /\ rd'[r].got = rd[r].got
      BY <1>0, <2>1 DEF ReadersTypeOK, Rd
    <2>3. Owns(r)' => Owns(r)
      BY <2>1, <2>2 DEF Owns, Slot
    <2> QED BY <1>4, <1>5, <2>1, <2>2, <2>3
  <1>9. CASE GetResourceLock(r)
    <2> DEFINE lost == LooksReInitialised(c)
               cur  == IF lost THEN tail - 1 ELSE c
    <2>1. /\ rd[r].pc = "grLock" /\ SaveEle2BufBegin(r, cur) /\ lock > 0
          /\ users' = [users EXCEPT ![u].curele = cur]
      BY <1>9 DEF GetResourceLock, MShmLock
    <2>2. /\ rd'[r].pc = "copy" /\ rd'[r].userno = u /\ rd'[r].got = rd[r].got
      BY <1>0, <2>1 DEF SaveEle2BufBegin, ReadersTypeOK
    <2>3. /\ users'[u].curele = cur /\ users'[u].valid = users[u].valid
          /\ users'[u].upid = users[u].upid
      BY <1>0, <2>1 DEF SlotsTypeOK, User
    <2>4. Owns(r)' => Owns(r)
      BY <2>1, <2>2, <2>3 DEF Owns, Slot
    <2>5. CASE ~lost
      <3>1. cur = c
        BY <2>5
      <3> HIDE DEF cur
      <3> QED BY <1>4, <1>5, <2>1, <2>2, <2>3, <2>4, <3>1
    <2>6. CASE lost
      <3> SUFFICES ASSUME Owns(r)
                   PROVE  /\ cur >= 0
                          /\ rd[r].got + ((tail - cur) % MaxEle) <= Published
        BY <1>5, <2>1, <2>2, <2>3, <2>4
      <3>1. b \in 1 .. Published /\ rd[r].got < eles[c].num /\ eles[c].num = Published + 1 - b
        BY <1>0, <2>1, FrameAtCursor DEF Slot, Backlog
      <3>2. ppc = "idle"
        BY <1>0, <2>1, LockedReader
      <3>3. Published = num /\ num > 0
        <4> HIDE DEF b
        <4> QED BY <1>0, <3>1, <3>2 DEF Published
      <3>4. count > 0 /\ head = 0 /\ Pos(tail) = count
        BY <1>0, <2>6, <3>2, <3>3 DEF NonEmptyInv, LooksReInitialised, RingInv, Running, WindowInv
      <3>5. tail > 0
        BY <1>0, <3>4 DEF Pos, RingType
      <3>6. (tail - (tail - 1)) % MaxEle = 1
        BY <1>0, BacklogMoves
      <3>7. rd[r].got + 1 <= Published
        <4> HIDE DEF b
        <4> QED BY <1>0, <3>1
      <3>8. cur = tail - 1
        BY <2>6
      <3> HIDE DEF cur
      <3> QED BY <1>0, <3>5, <3>6, <3>7, <3>8
    <2> QED BY <2>5, <2>6
  <1>10. CASE SaveEle2Buf(r)
    <2>1. rd[r].pc = "copy" /\ rd[r].len <= BufBlocks
      BY <1>0, <1>10 DEF SaveEle2Buf, SemInv, FitsInv
    <2>2. users' = [users EXCEPT ![u].curele = NewerEle(rd[r].cur)]
      BY <1>10, <2>1 DEF SaveEle2Buf
    <2>3. rd'[r].pc = "idle" /\ rd'[r].userno = u /\ rd'[r].got = EleAt(rd[r].cur).num
      BY <1>0, <1>10, <2>1 DEF SaveEle2Buf, Between, ReadersTypeOK
    <2>4. /\ users'[u].curele = NewerEle(rd[r].cur) /\ users'[u].valid = users[u].valid
          /\ users'[u].upid = users[u].upid
      BY <1>0, <2>2 DEF SlotsTypeOK, User
    <2>5. Owns(r)' => Owns(r)
      BY <2>1, <2>3, <2>4 DEF Owns, Slot
    <2>6. ASSUME Owns(r)
          PROVE  /\ rd'[r].got > rd[r].got
                 /\ NewerEle(rd[r].cur) >= 0
                 /\ rd'[r].got + ((tail - NewerEle(rd[r].cur)) % MaxEle) <= Published
      <3>1. /\ c \in EleNos /\ b \in 1 .. Published /\ rd[r].got < eles[c].num
            /\ eles[c].num = Published + 1 - b
        BY <1>0, <2>1, <2>6, FrameAtCursor DEF Slot, Backlog
      <3>2. rd[r].cur = c
        BY <1>0, <2>1, <2>6 DEF SemInv, BacklogInv, Slot
      <3>3. rd'[r].got = eles[c].num
        BY <2>3, <3>1, <3>2 DEF EleAt, EleNos
      <3>4. b >= 1 => (tail - NewerEle(c)) % MaxEle = b - 1
        BY <1>0, <1>1, BacklogMoves
      <3>5. NewerEle(c) >= 0
        BY <1>1, NewerIs
      <3> DEFINE e == (tail - NewerEle(c)) % MaxEle
      <3> HIDE DEF b, e
      <3>6. e = b - 1
        BY <1>0, <3>1, <3>4 DEF e
      <3>7. rd'[r].got + e <= Published /\ rd'[r].got > rd[r].got
        BY <1>0, <3>1, <3>3, <3>6
      <3> QED BY <3>2, <3>5, <3>7 DEF e
    <2> QED BY <1>5, <2>3, <2>4, <2>5, <2>6
  <1> QED BY <1>0, <1>6, <1>7, <1>8, <1>9, <1>10, PlainSteps DEF SemInv

LEMMA FrameOrderInit == ASSUME PlainReader PROVE Init => FrameOrderInv
PROOF
  <1> SUFFICES ASSUME Init PROVE FrameOrderInv
    OBVIOUS
  <1>1. \A r \in Readers : ~Owns(r)
    BY DEF Init, DetachedReader, Between, Owns
  <1> QED BY <1>1, SemInit, LogInit
          DEF FrameOrderInv, Init, TrailInv, NonEmptyInv, OrderInv, Running

LEMMA FrameOrderStep ==
  ASSUME PlainReader, HalfPoolFrames
  PROVE  FrameOrderInv /\ [Next]_vars => FrameOrderInv'
PROOF
  <1> SUFFICES ASSUME FrameOrderInv, [Next]_vars
               PROVE  FrameOrderInv'
    OBVIOUS
  <1>1. ~ProducerCrash
    BY DEF PlainReader, ProducerCrash
  <1>2. SemInv' /\ LogInv' /\ TrailInv' /\ NonEmptyInv'
    BY <1>1, SemStep, LogStep, TrailStep, NonEmptyStep DEF FrameOrderInv, SemInv
  <1>3. CASE MShmCoreCreate \/ (\E n \in Needs : AddBegin(n)) \/ ProducerStep
    BY <1>2, <1>3, OrderProducer DEF FrameOrderInv
  <1>4. CASE \E r \in Readers : ReaderStep(r) \/ ReaderCall(r)
    BY <1>2, <1>4, OrderReader DEF FrameOrderInv
  <1>5. CASE UNCHANGED vars
    BY <1>2, <1>5 DEF FrameOrderInv, OrderInv, vars, ring, slots, prod, Owns, Slot, Backlog, Published
  <1> QED BY <1>1, <1>3, <1>4, <1>5 DEF Next

(* A reader that owns its slot gets the frames from MShmPoolGetResource in *)
(* the order they were added, none twice, however far it lags: also when   *)
(* FreeBlocks has emptied the element at its cursor, when the element ring *)
(* has wrapped, and when the pool looks re-initialised though it is not.   *)
THEOREM FramesComeInOrder ==
  ASSUME PlainReader, HalfPoolFrames
  PROVE  Spec => FramesInOrder
PROOF
  <1> DEFINE Delivers(r) ==
               Owns(r) /\ rd[r].pc = "copy" /\ rd'[r].pc = "idle" => rd'[r].got > rd[r].got
  <1>1. FrameOrderInv /\ [Next]_vars => [\A r \in Readers : Delivers(r)]_vars
    <2> SUFFICES ASSUME FrameOrderInv, Next, NEW r \in Readers
                 PROVE  Delivers(r)
      OBVIOUS
    <2>1. CASE \E q \in Readers : ReaderStep(q) \/ ReaderCall(q)
      <3>1. PICK q \in Readers : ReaderStep(q) \/ ReaderCall(q)
        BY <2>1
      <3>2. q = r
        BY DEF PlainReader, OneReader
      <3> QED BY <3>1, <3>2, OrderReader
    <2>2. CASE MShmCoreCreate \/ (\E n \in Needs : AddBegin(n)) \/ ProducerStep
      BY <2>2, ReadingProducer DEF FrameOrderInv
    <2>3. ~ProducerCrash
      BY DEF PlainReader, ProducerCrash
    <2> QED BY <2>1, <2>2, <2>3 DEF Next
  <1> QED BY <1>1, FrameOrderInit, FrameOrderStep, PTL DEF Spec, FramesInOrder
=============================================================================
