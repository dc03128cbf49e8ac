---------------------------- MODULE MshmPoolRing ----------------------------
(***************************************************************************)
(* Why a frame in the pool is never overwritten: each step of              *)
(* MShmPoolAddResource keeps RingInv, the tiling of the block ring by the  *)
(* live elements and the free blocks.                                      *)
(***************************************************************************)
EXTENDS MshmPool, TLAPS

(* Wrapping once is what the code's "if beyond the end, subtract" does.    *)
LEMMA ModWrap ==
  ASSUME NEW n \in Nat \ {0}, NEW a \in 0 .. n - 1, NEW b \in 0 .. n
  PROVE  (a + b) % n = IF a + b >= n THEN a + b - n ELSE a + b
  OBVIOUS

LEMMA ModRange ==
  ASSUME NEW n \in Nat \ {0}, NEW a \in Int
  PROVE  a % n \in 0 .. n - 1
  OBVIOUS

LEMMA RingStutters == RingInv /\ UNCHANGED <<ring, ppc, need>> => RingInv'
  BY DEF RingInv, ring, Running, WindowInv, TilingInv, ContentInv, AddInv,
         Pos, Live, Begins, Ends, Off, LiveStart, FreeStart

(* Between two states of the same window only the program counter and the  *)
(* frame being added differ. *)
LEMMA RingKept ==
  ASSUME TypeOK, RingInv, Running, Running', UNCHANGED ring,
         ppc \notin {"fill", "publish"}, ppc' \notin {"fill", "publish"}, AddInv'
  PROVE  RingInv'
  BY DEF TypeOK, RingTypeOK, ProducerTypeOK, RingInv, ring, Running, WindowInv, TilingInv, ContentInv,
         Pos, Live, Begins, Ends, Off, LiveStart, FreeStart

LEMMA Sizes == MaxEle \in Nat /\ MaxEle > 1 /\ TBlocks \in Nat /\ TBlocks > 0
  BY PoolAssumption

(* The part of the type invariant that the rings are made of. *)
RingType ==
  /\ num \in Nat /\ fblocks \in 0 .. TBlocks /\ fbstart \in 0 .. TBlocks - 1
  /\ count \in 0 .. MaxEle /\ head \in 0 .. MaxEle - 1 /\ tail \in 0 .. MaxEle - 1
  /\ \A i \in EleNos : /\ eles[i].num \in Nat /\ eles[i].len \in 0 .. TBlocks
                        /\ eles[i].blocks \in 0 .. TBlocks
                        /\ eles[i].bblock \in 0 .. TBlocks - 1
  /\ EleNos = DOMAIN eles /\ BlockNos = DOMAIN data
  /\ need \in Nat

LEMMA TypeRing == TypeOK => RingType
PROOF
  <1> SUFFICES ASSUME TypeOK PROVE RingType
    OBVIOUS
  <1>1. /\ num \in 0 .. MaxFrames /\ fblocks \in 0 .. TBlocks /\ fbstart \in BlockNos
        /\ count \in 0 .. MaxEle /\ head \in EleNos /\ tail \in EleNos
        /\ need \in Needs \cup {0}
    BY DEF TypeOK, RingTypeOK, ProducerTypeOK, Ele
  <1>2. eles \in [EleNos -> [num : 0 .. MaxFrames, len : 0 .. TBlocks,
                             blocks : 0 .. TBlocks, bblock : BlockNos,
                             eblock : -1 .. TBlocks - 1]]
    BY DEF TypeOK, RingTypeOK, ProducerTypeOK, Ele
  <1>3. data \in [BlockNos -> 0 .. MaxFrames]
    BY DEF TypeOK, RingTypeOK, ProducerTypeOK, Ele
  <1>4. need \in Nat /\ num \in Nat
    BY <1>1, PoolAssumption
  <1>5. \A i \in EleNos : /\ eles[i].num \in Nat /\ eles[i].len \in 0 .. TBlocks
                          /\ eles[i].blocks \in 0 .. TBlocks
                          /\ eles[i].bblock \in 0 .. TBlocks - 1
    BY <1>2 DEF BlockNos
  <1> QED BY <1>1, <1>2, <1>3, <1>4, <1>5 DEF RingType, EleNos, BlockNos

LEMMA OffType ==
  ASSUME RingType, NEW b \in BlockNos, tail \in EleNos
  PROVE  LiveStart \in BlockNos /\ Off(b) \in BlockNos
PROOF
  <1> USE Sizes
  <1>1. /\ fblocks \in 0 .. TBlocks /\ FreeStart \in 0 .. TBlocks - 1
        /\ b \in 0 .. TBlocks - 1
    BY DEF RingType, FreeStart, BlockNos
  <1>2. LiveStart \in 0 .. TBlocks - 1
    BY <1>1 DEF LiveStart
  <1> QED BY <1>1, <1>2 DEF Off, BlockNos

(* k blocks on from a, counted with the wrap at TBlocks. *)
LEMMA OffShift ==
  ASSUME RingType, tail \in EleNos, NEW a \in BlockNos, NEW k \in Nat,
         Off(a) + k < TBlocks
  PROVE  /\ (a + k) % TBlocks \in BlockNos
         /\ Off((a + k) % TBlocks) = Off(a) + k
PROOF
  <1> USE Sizes
  <1>1. LiveStart \in 0 .. TBlocks - 1 /\ Off(a) \in 0 .. TBlocks - 1
        /\ a \in 0 .. TBlocks - 1
    BY OffType DEF BlockNos
  <1>2. k \in 0 .. TBlocks
    BY <1>1
  <1>3. (a + k) % TBlocks = IF a + k >= TBlocks THEN a + k - TBlocks ELSE a + k
    <2>1. TBlocks \in Nat \ {0}
      OBVIOUS
    <2> QED BY <1>1, <1>2, <2>1, ModWrap
  <1> QED BY <1>1, <1>2, <1>3 DEF Off, BlockNos

(* The blocks of a run that does not pass the end of the live blocks' ring. *)
LEMMA BlocksOfRun ==
  ASSUME RingType, tail \in EleNos, NEW a \in BlockNos, NEW n \in Nat, Off(a) + n <= TBlocks
  PROVE  BlocksOf(a, n) = {b \in BlockNos : Off(a) <= Off(b) /\ Off(b) < Off(a) + n}
PROOF
  <1> USE Sizes
  <1>1. LiveStart \in 0 .. TBlocks - 1 /\ \A b \in BlockNos : Off(b) \in 0 .. TBlocks - 1
    BY OffType DEF BlockNos
  <1>2. ASSUME NEW k \in 0 .. n - 1
        PROVE  Off((a + k) % TBlocks) = Off(a) + k /\ (a + k) % TBlocks \in BlockNos
    <2>1. k \in Nat /\ Off(a) + k < TBlocks
      BY <1>1
    <2> QED BY <2>1, OffShift
  <1>3. ASSUME NEW b \in BlocksOf(a, n)
        PROVE  b \in BlockNos /\ Off(a) <= Off(b) /\ Off(b) < Off(a) + n
    <2>1. PICK k \in 0 .. n - 1 : b = (a + k) % TBlocks
      BY <1>3 DEF BlocksOf
    <2> QED BY <2>1, <1>1, <1>2
  <1>4. ASSUME NEW b \in BlockNos, Off(a) <= Off(b), Off(b) < Off(a) + n
        PROVE  b \in BlocksOf(a, n)
    <2> DEFINE k == Off(b) - Off(a)
    <2>1. k \in 0 .. n - 1 /\ Off(b) = Off(a) + k
      BY <1>1, <1>4
    <2>2. Off((a + k) % TBlocks) = Off(b) /\ (a + k) % TBlocks \in BlockNos
      BY <1>2, <2>1
    <2>3. \A c, d \in BlockNos : Off(c) = Off(d) => c = d
      BY <1>1 DEF Off, BlockNos
    <2>4. (a + k) % TBlocks = b
      BY <2>2, <2>3
    <2> QED BY <2>1, <2>4 DEF BlocksOf
  <1> QED BY <1>3, <1>4

(* Giving the oldest element back takes one from every position and its    *)
(* blocks from every offset. *)
LEMMA FreeHeadMoves ==
  ASSUME RingType, TilingInv, count > 0, FreeHead, fbstart' = fbstart,
         ppc # "fill", ppc' # "fill", NEW n, n = eles[head].blocks
  PROVE  /\ head \in EleNos /\ Live(head) /\ Pos(head) = 0
         /\ n \in Nat /\ n > 0 /\ n <= TBlocks - fblocks /\ fblocks' = fblocks + n
         /\ Begins(head) = 0 /\ Ends(head) = n
         /\ \A i \in EleNos : /\ Live(i)' <=> (Live(i) /\ i # head)
                              /\ i # head => Pos(i)' = Pos(i) - 1
                              /\ Pos(i) \in Int /\ Pos(i)' \in Int
         /\ \A b \in BlockNos : /\ Off(b) >= n => Off(b)' = Off(b) - n
                                /\ Off(b) < n => Off(b)' = Off(b) - n + TBlocks
                                /\ Off(b) \in Int
         /\ \A i \in EleNos : Live(i)' =>
              /\ Begins(i) >= n /\ Begins(i)' = Begins(i) - n /\ Ends(i)' = Ends(i) - n
              /\ Begins(i) \in Int /\ Ends(i) \in Int /\ eles'[i] = eles[i]
PROOF
  <1> USE Sizes
  <1>t. /\ fblocks \in 0 .. TBlocks /\ fbstart \in 0 .. TBlocks - 1
        /\ count \in 0 .. MaxEle /\ head \in 0 .. MaxEle - 1 /\ tail \in 0 .. MaxEle - 1
    BY DEF RingType
  <1>2. /\ head \in EleNos /\ Live(head) /\ Pos(head) = 0 /\ n \in Nat /\ n > 0
    BY DEF RingType, Live, Pos, TilingInv, EleNos
  <1>2a. Begins(head) = 0 /\ Ends(head) = n /\ n <= TBlocks - fblocks
    BY <1>2 DEF TilingInv, Ends, RingType
  <1>3. /\ fblocks' = fblocks + n /\ count' = count - 1 /\ head' = NewerEle(head)
        /\ eles' = [eles EXCEPT ![head] = Emptied(@)]
    BY DEF FreeHead
  <1>4. ASSUME NEW i \in EleNos
        PROVE  /\ Live(i)' <=> (Live(i) /\ i # head)
               /\ i # head => Pos(i)' = Pos(i) - 1
               /\ Pos(i) \in Int /\ Pos(i)' \in Int
    <2>1. i \in 0 .. MaxEle - 1
      BY DEF EleNos
    <2>2. head' = IF head + 1 >= MaxEle THEN 0 ELSE head + 1
      BY <1>3 DEF NewerEle
    <2>3. i # head => Pos(i)' = Pos(i) - 1
      BY <1>t, <2>1, <2>2 DEF Pos
    <2>4. i = head => Pos(i)' = MaxEle - 1
      BY <1>t, <2>2 DEF Pos
    <2>5. Pos(i) \in Int /\ Pos(i)' \in Int
      BY <1>t, <2>1, <2>2 DEF Pos
    <2> QED BY <1>t, <1>3, <2>3, <2>4, <2>5 DEF Live
  <1>4a. \A i \in EleNos : i # head => eles'[i] = eles[i]
    BY <1>3 DEF RingType
  <1>5a. ASSUME NEW b \in BlockNos
         PROVE  /\ Off(b) >= n => Off(b)' = Off(b) - n
                /\ Off(b) < n => Off(b)' = Off(b) - n + TBlocks
                /\ Off(b) \in Int
    <2>1. b \in 0 .. TBlocks - 1 /\ FreeStart = fbstart /\ FreeStart' = fbstart
      BY DEF BlockNos, FreeStart
    <2> QED BY <1>t, <1>2, <1>2a, <1>3, <2>1 DEF Off, LiveStart
  <1>6. ASSUME NEW i \in EleNos, Live(i)'
        PROVE  Begins(i) >= n
    <2>1. Live(i) /\ i # head
      BY <1>4, <1>6
    <2>2. Pos(head) < Pos(i)
      BY <1>2, <2>1, <1>t DEF Pos, EleNos
    <2>3. Ends(head) <= Begins(i)
      BY <1>2, <2>1, <2>2 DEF TilingInv
    <2> QED BY <2>3, <1>2, <1>2a
  <1>6a. ASSUME NEW i \in EleNos, Live(i)'
         PROVE  /\ Begins(i)' = Begins(i) - n /\ Ends(i)' = Ends(i) - n
                /\ Begins(i) \in Int /\ Ends(i) \in Int /\ eles'[i] = eles[i]
    <2>1. eles'[i] = eles[i] /\ eles[i].bblock \in BlockNos /\ eles[i].blocks \in Int
      BY <1>4, <1>6a, <1>4a DEF RingType, BlockNos
    <2>2. Begins(i)' = Begins(i) - n
      BY <2>1, <1>6, <1>6a, <1>5a DEF Begins
    <2>3. Begins(i) \in Int
      BY <2>1, <1>5a DEF Begins
    <2> QED BY <2>1, <2>2, <2>3, <1>2 DEF Ends
  <1> QED BY <1>2, <1>2a, <1>3, <1>4, <1>5a, <1>6, <1>6a

(* Giving the oldest element back keeps the others in place. *)
LEMMA FreeHeadRing ==
  ASSUME RingType, TilingInv, ContentInv, count > 0, FreeHead,
         fbstart' = fbstart, data' = data, ppc # "fill", ppc' # "fill"
  PROVE  TilingInv' /\ ContentInv'
PROOF
  <1> USE Sizes
  <1> DEFINE n == eles[head].blocks
  <1>t. /\ fblocks \in 0 .. TBlocks /\ fbstart \in 0 .. TBlocks - 1
        /\ count \in 0 .. MaxEle /\ head \in 0 .. MaxEle - 1 /\ tail \in 0 .. MaxEle - 1
    BY DEF RingType
  <1>2. /\ head \in EleNos /\ Live(head) /\ Pos(head) = 0 /\ n \in Nat /\ n > 0
    BY FreeHeadMoves
  <1>2a. Begins(head) = 0 /\ Ends(head) = n /\ n <= TBlocks - fblocks
    BY FreeHeadMoves
  <1>3. fblocks' = fblocks + n /\ count' = count - 1
    BY DEF FreeHead
  <1>4. ASSUME NEW i \in EleNos
        PROVE  /\ Live(i)' <=> (Live(i) /\ i # head)
               /\ i # head => Pos(i)' = Pos(i) - 1
               /\ Pos(i) \in Int /\ Pos(i)' \in Int
    BY FreeHeadMoves
  <1>5a. ASSUME NEW b \in BlockNos
         PROVE  /\ Off(b) >= n => Off(b)' = Off(b) - n
                /\ Off(b) < n => Off(b)' = Off(b) - n + TBlocks
                /\ Off(b) \in Int
    BY FreeHeadMoves
  <1>6. ASSUME NEW i \in EleNos, Live(i)'
        PROVE  /\ Begins(i)' = Begins(i) - n /\ Ends(i)' = Ends(i) - n
               /\ Begins(i) \in Int /\ Ends(i) \in Int /\ eles'[i] = eles[i]
               /\ Begins(i) >= n
    BY <1>6, FreeHeadMoves
  <1>8. TilingInv'
    <2>1. count' = 0 => fblocks' = TBlocks
      BY <1>2, <1>2a, <1>3, <1>t DEF TilingInv
    <2>2. ASSUME NEW i \in EleNos, Live(i)'
          PROVE  /\ eles'[i].blocks > 0 /\ eles'[i].len = eles'[i].blocks
                 /\ Ends(i)' <= TBlocks - fblocks'
                 /\ Pos(i)' = 0 => Begins(i)' = 0
                 /\ Pos(i)' = count' - 1 => Ends(i)' = TBlocks - fblocks'
      <3>1. Live(i) /\ i # head
        BY <1>4, <2>2
      <3>2. /\ eles[i].blocks > 0 /\ eles[i].len = eles[i].blocks
            /\ Ends(i) <= TBlocks - fblocks
            /\ Pos(i) = count - 1 => Ends(i) = TBlocks - fblocks
            /\ Pos(i) = 1 => Begins(i) = Ends(head)
        BY <3>1, <1>2 DEF TilingInv
      <3> QED BY <3>1, <3>2, <2>2, <1>t, <1>2, <1>2a, <1>3, <1>4, <1>6
    <2>3. ASSUME NEW i \in EleNos, NEW j \in EleNos, Live(i)', Live(j)'
          PROVE  /\ Pos(j)' = Pos(i)' + 1 => Begins(j)' = Ends(i)'
                 /\ Pos(i)' < Pos(j)' => Ends(i)' <= Begins(j)'
      <3>1. Live(i) /\ i # head /\ Live(j) /\ j # head
        BY <1>4, <2>3
      <3>2. /\ Pos(j) = Pos(i) + 1 => Begins(j) = Ends(i)
            /\ Pos(i) < Pos(j) => Ends(i) <= Begins(j)
        BY <3>1 DEF TilingInv
      <3> QED BY <3>1, <3>2, <2>3, <1>2, <1>4, <1>6
    <2> QED BY <2>1, <2>2, <2>3 DEF TilingInv
  <1>9. ContentInv'
    <2> SUFFICES ASSUME NEW i \in EleNos, Live(i)', NEW b \in BlockNos,
                        Begins(i)' <= Off(b)', Off(b)' < Ends(i)'
                 PROVE  data'[b] = eles'[i].num
      BY DEF ContentInv
    <2>1. Live(i) /\ Ends(i) <= TBlocks - fblocks
      BY <1>4 DEF TilingInv
    <2>2. Begins(i) <= Off(b) /\ Off(b) < Ends(i)
      BY <2>1, <1>5a, <1>6, <1>2, <1>t, OffType DEF BlockNos, EleNos
    <2> QED BY <2>1, <2>2, <1>6 DEF ContentInv
  <1> QED BY <1>8, <1>9

LEMMA FreeBlocksRing ==
  ASSUME RingType, RingInv, FreeBlocks
  PROVE  RingInv'
PROOF
  <1> USE Sizes
  <1>1. /\ ppc = "free" /\ ppc' = "free" /\ count > 0 /\ FreeHead
        /\ WindowInv /\ TilingInv /\ ContentInv /\ AddInv
        /\ fbstart' = fbstart /\ tail' = tail /\ num' = num /\ data' = data /\ need' = need
    BY DEF FreeBlocks, RingInv, Running, prod
  <1>2. TilingInv' /\ ContentInv'
    BY <1>1, FreeHeadRing
  <1>3. WindowInv'
    BY <1>1 DEF RingType, WindowInv, Pos, NewerEle, FreeHead
  <1>4. AddInv'
    BY <1>1 DEF AddInv
  <1> QED BY <1>2, <1>3, <1>4 DEF RingInv

LEMMA AddReserveRing ==
  ASSUME RingType, RingInv, AddReserve
  PROVE  RingInv'
PROOF
  <1> USE Sizes
  <1>1. /\ ppc = "reserve" /\ ppc' = "fill"
        /\ WindowInv /\ TilingInv /\ ContentInv /\ AddInv
        /\ fblocks' = fblocks /\ count' = count /\ head' = head /\ tail' = tail
        /\ data' = data /\ need' = need /\ num' = num + 1
        /\ fbstart' = (fbstart + need) % TBlocks
    BY DEF AddReserve, RingInv, Running
  <1>2. /\ tail \in EleNos
        /\ eles'[tail].bblock = fbstart /\ eles'[tail].blocks = need
        /\ \A i \in EleNos : i # tail => eles'[i] = eles[i]
    BY DEF AddReserve, RingType, EleNos
  <1>3. ~Live(tail)
    BY <1>1 DEF WindowInv, Live, RingType
  <1>4. FreeStart = fbstart /\ FreeStart' = fbstart
    BY <1>1, <1>2 DEF FreeStart
  <1>5. LiveStart' = LiveStart
    BY <1>1, <1>4 DEF LiveStart
  <1>6. ASSUME NEW b PROVE Off(b)' = Off(b)
    BY <1>5 DEF Off
  <1>7. ASSUME NEW i \in EleNos
        PROVE  /\ Pos(i)' = Pos(i) /\ (Live(i)' <=> Live(i))
               /\ Live(i) => eles'[i] = eles[i] /\ Begins(i)' = Begins(i) /\ Ends(i)' = Ends(i)
    BY <1>1, <1>2, <1>3, <1>6 DEF Pos, Live, Begins, Ends
  <1>8. WindowInv'
    BY <1>1 DEF WindowInv, Pos
  <1>9. TilingInv'
    BY <1>1, <1>7 DEF TilingInv
  <1>10. ContentInv'
    BY <1>1, <1>6, <1>7 DEF ContentInv
  <1>11. AddInv'
    BY <1>1, <1>2 DEF AddInv
  <1> QED BY <1>8, <1>9, <1>10, <1>11 DEF RingInv

(* A filled element takes the first free blocks and the next position; the *)
(* others stay where they are. *)
LEMMA InsertDataMoves ==
  ASSUME RingType, RingInv, InsertData2Ele
  PROVE  /\ tail \in EleNos /\ LiveStart' = LiveStart
         /\ eles[tail].bblock \in BlockNos /\ Off(eles[tail].bblock) = TBlocks - fblocks
         /\ \A i \in EleNos : /\ Pos(i)' = Pos(i) /\ Pos(i) \in 0 .. MaxEle - 1
                              /\ Live(i)' <=> (Live(i) \/ i = tail)
                              /\ Live(i) => i # tail
         /\ \A i \in EleNos : Live(i) =>
              /\ eles'[i] = eles[i] /\ Begins(i)' = Begins(i) /\ Ends(i)' = Ends(i)
              /\ Begins(i) \in Int /\ Ends(i) \in Int
         /\ LET i == tail IN Begins(i)' = TBlocks - fblocks /\ Ends(i)' = TBlocks - fblocks'
PROOF
  <1> USE Sizes
  <1> DEFINE a == eles[tail].bblock
  <1>1. /\ ppc = "fill" /\ ppc' = "publish"
        /\ WindowInv /\ TilingInv /\ ContentInv /\ AddInv
        /\ head' = head /\ tail' = tail /\ fbstart' = fbstart /\ num' = num /\ need' = need
        /\ count' = count + 1 /\ fblocks' = fblocks - eles[tail].blocks
    BY DEF InsertData2Ele, RingInv, Running
  <1>2. /\ tail \in EleNos /\ a \in 0 .. TBlocks - 1 /\ need \in Nat
        /\ fblocks \in 0 .. TBlocks /\ count \in 0 .. MaxEle
        /\ head \in 0 .. MaxEle - 1 /\ tail \in 0 .. MaxEle - 1
    BY DEF RingType, EleNos
  <1>3. need > 0 /\ need <= fblocks /\ eles[tail].blocks = need
        /\ fbstart = (a + need) % TBlocks
    BY <1>1 DEF AddInv
  <1>4. /\ eles'[tail].num = eles[tail].num /\ eles'[tail].bblock = a
        /\ eles'[tail].blocks = need /\ eles'[tail].len = need
        /\ \A i \in EleNos : i # tail => eles'[i] = eles[i]
    BY <1>2, <1>3 DEF InsertData2Ele, RingType, Holding
  <1>5. \A b \in BlockNos :
          data'[b] = IF b \in BlocksOf(a, need) THEN eles[tail].num ELSE data[b]
    BY <1>2 DEF InsertData2Ele
  <1>6. FreeStart = a /\ FreeStart' = fbstart
    BY <1>1 DEF FreeStart
  <1>7. fbstart = IF a + need >= TBlocks THEN a + need - TBlocks ELSE a + need
    <2>1. TBlocks \in Nat \ {0} /\ need \in 0 .. TBlocks
      BY <1>2, <1>3
    <2> QED BY <1>2, <1>3, <2>1, ModWrap
  <1>8. LiveStart' = LiveStart /\ LiveStart \in 0 .. TBlocks - 1
    <2>1. need > 0 /\ need <= fblocks /\ fblocks' = fblocks - need
      BY <1>1, <1>3
    <2>2. fbstart \in 0 .. TBlocks - 1
      BY DEF RingType
    <2> HIDE DEF a
    <2> QED BY <1>2, <1>6, <1>7, <2>1, <2>2 DEF LiveStart
  <1>9. ASSUME NEW b PROVE Off(b)' = Off(b)
    BY <1>8 DEF Off
  <1>10. Off(a) = TBlocks - fblocks
    BY <1>2, <1>3, <1>6 DEF Off, LiveStart
  <1>11. ASSUME NEW i \in EleNos
         PROVE  /\ Pos(i)' = Pos(i) /\ Pos(i) \in 0 .. MaxEle - 1
                /\ Live(i)' <=> (Live(i) \/ i = tail)
                /\ Live(i) => i # tail
    <2>1. Pos(i)' = Pos(i) /\ Pos(i) \in 0 .. MaxEle - 1 /\ Pos(tail) = count
          /\ (Pos(i) = count => i = tail)
      BY <1>1, <1>2 DEF Pos, WindowInv, EleNos
    <2> QED BY <2>1, <1>1, <1>2 DEF Live
  <1>12. ASSUME NEW i \in EleNos, Live(i)
         PROVE  /\ eles'[i] = eles[i] /\ Begins(i)' = Begins(i) /\ Ends(i)' = Ends(i)
                /\ Begins(i) \in Int /\ Ends(i) \in Int
    <2>1. eles'[i] = eles[i]
      BY <1>4, <1>11, <1>12
    <2>2. Begins(i)' = Begins(i)
      BY <2>1, <1>9 DEF Begins
    <2>3. eles[i].bblock \in BlockNos /\ eles[i].blocks \in Int
      BY DEF RingType, BlockNos
    <2>4. Begins(i) \in Int
      BY <2>3, <1>2, OffType DEF Begins, BlockNos
    <2> QED BY <2>1, <2>2, <2>3, <2>4 DEF Ends
  <1>13. LET i == tail IN Begins(i)' = TBlocks - fblocks /\ Ends(i)' = TBlocks - fblocks'
    <2>1. Begins(tail)' = TBlocks - fblocks
      BY <1>1, <1>4, <1>9, <1>10 DEF Begins
    <2> QED BY <1>1, <1>2, <1>3, <1>4, <2>1 DEF Ends
  <1> QED BY <1>2, <1>8, <1>10, <1>11, <1>12, <1>13 DEF BlockNos

LEMMA InsertDataRing ==
  ASSUME RingType, RingInv, InsertData2Ele
  PROVE  RingInv'
PROOF
  <1> USE Sizes
  <1> DEFINE a == eles[tail].bblock
  <1>1. /\ ppc = "fill" /\ ppc' = "publish"
        /\ WindowInv /\ TilingInv /\ ContentInv /\ AddInv
        /\ head' = head /\ tail' = tail /\ fbstart' = fbstart /\ num' = num /\ need' = need
        /\ count' = count + 1 /\ fblocks' = fblocks - eles[tail].blocks
    BY DEF InsertData2Ele, RingInv, Running
  <1>2. /\ tail \in EleNos /\ a \in 0 .. TBlocks - 1 /\ need \in Nat
        /\ fblocks \in 0 .. TBlocks /\ count \in 0 .. MaxEle
        /\ head \in 0 .. MaxEle - 1 /\ tail \in 0 .. MaxEle - 1
    BY DEF RingType, EleNos
  <1>3. need > 0 /\ need <= fblocks /\ eles[tail].blocks = need
        /\ fbstart = (a + need) % TBlocks
    BY <1>1 DEF AddInv
  <1>4. /\ eles'[tail].num = eles[tail].num /\ eles'[tail].bblock = a
        /\ eles'[tail].blocks = need /\ eles'[tail].len = need
        /\ \A i \in EleNos : i # tail => eles'[i] = eles[i]
    BY <1>2, <1>3 DEF InsertData2Ele, RingType, Holding
  <1>5. \A b \in BlockNos :
          data'[b] = IF b \in BlocksOf(a, need) THEN eles[tail].num ELSE data[b]
    BY <1>2 DEF InsertData2Ele
  <1>8. LiveStart' = LiveStart
    BY InsertDataMoves
  <1>9. ASSUME NEW b PROVE Off(b)' = Off(b)
    BY <1>8 DEF Off
  <1>10. Off(a) = TBlocks - fblocks
    BY InsertDataMoves
  <1>11. ASSUME NEW i \in EleNos
         PROVE  /\ Pos(i)' = Pos(i) /\ Pos(i) \in 0 .. MaxEle - 1
                /\ Live(i)' <=> (Live(i) \/ i = tail)
                /\ Live(i) => i # tail
    BY InsertDataMoves
  <1>12. ASSUME NEW i \in EleNos, Live(i)
         PROVE  /\ eles'[i] = eles[i] /\ Begins(i)' = Begins(i) /\ Ends(i)' = Ends(i)
                /\ Begins(i) \in Int /\ Ends(i) \in Int
    BY <1>12, InsertDataMoves
  <1>13. LET i == tail IN Begins(i)' = TBlocks - fblocks /\ Ends(i)' = TBlocks - fblocks'
    BY InsertDataMoves
  <1>14. ASSUME NEW b \in BlockNos
         PROVE  b \in BlocksOf(a, need) <=> (Off(a) <= Off(b) /\ Off(b) < Off(a) + need)
    <2>1. a \in BlockNos /\ Off(a) + need <= TBlocks
      BY <1>2, <1>3, <1>10 DEF BlockNos
    <2> QED BY <1>2, <2>1, BlocksOfRun
  <1>15. WindowInv'
    BY <1>1, <1>2 DEF WindowInv, Pos
  <1>16. TilingInv'
    <2>1. count' # 0
      BY <1>1, <1>2
    <2>2. ASSUME NEW i \in EleNos, Live(i)'
          PROVE  /\ eles'[i].blocks > 0 /\ eles'[i].len = eles'[i].blocks
                 /\ Ends(i)' <= TBlocks - fblocks'
                 /\ Pos(i)' = 0 => Begins(i)' = 0
                 /\ Pos(i)' = count' - 1 => Ends(i)' = TBlocks - fblocks'
      <3>1. CASE Live(i)
        <4>1. /\ eles[i].blocks > 0 /\ eles[i].len = eles[i].blocks
              /\ Ends(i) <= TBlocks - fblocks
              /\ Pos(i) = 0 => Begins(i) = 0
          BY <3>1, <1>1 DEF TilingInv
        <4>2. Pos(i) < count /\ Pos(i)' = Pos(i) /\ Pos(i) \in Int
          BY <3>1, <1>11 DEF Live
        <4>3. /\ eles'[i] = eles[i] /\ Begins(i)' = Begins(i) /\ Ends(i)' = Ends(i)
              /\ Begins(i) \in Int /\ Ends(i) \in Int
          BY <3>1, <1>12
        <4>4. /\ fblocks' = fblocks - need /\ need > 0 /\ need \in Nat /\ fblocks \in Int
              /\ count' = count + 1 /\ count \in Int
          BY <1>1, <1>2, <1>3
        <4>5. eles'[i].blocks > 0 /\ eles'[i].len = eles'[i].blocks
          BY <4>1, <4>3
        <4>6. Ends(i)' <= TBlocks - fblocks'
          BY <4>1, <4>3, <4>4
        <4>7. Pos(i)' = 0 => Begins(i)' = 0
          BY <4>1, <4>2, <4>3
        <4>8. Pos(i)' # count' - 1
          BY <4>2, <4>4
        <4> QED BY <4>5, <4>6, <4>7, <4>8
      <3>2. CASE i = tail
        <4>1. Pos(i) = count /\ (count = 0 => fblocks = TBlocks)
          BY <3>2, <1>1 DEF WindowInv, TilingInv
        <4>2. Begins(i)' = TBlocks - fblocks /\ Ends(i)' = TBlocks - fblocks'
          BY <3>2, <1>1, <1>13
        <4>3. eles'[i].blocks = need /\ eles'[i].len = need /\ need > 0
          BY <3>2, <1>3, <1>4
        <4>4. Pos(i)' = count
          BY <4>1, <1>11
        <4>5. Pos(i)' = 0 => Begins(i)' = 0
          BY <4>1, <4>2, <4>4, <1>2
        <4>6. fblocks' \in Int
          BY <1>1, <1>2, <1>3
        <4>7. Ends(i)' <= TBlocks - fblocks'
          <5>1. \A m, n \in Int : m = n => m <= n
            OBVIOUS
          <5>2. TBlocks - fblocks' \in Int
            BY <4>6
          <5> QED BY <4>2, <5>1, <5>2
        <4> QED BY <4>2, <4>3, <4>5, <4>7
      <3> QED BY <3>1, <3>2, <2>2, <1>11
    <2>3. ASSUME NEW i \in EleNos, NEW j \in EleNos, Live(i)', Live(j)'
          PROVE  /\ Pos(j)' = Pos(i)' + 1 => Begins(j)' = Ends(i)'
                 /\ Pos(i)' < Pos(j)' => Ends(i)' <= Begins(j)'
      <3>1. CASE Live(i) /\ Live(j)
        BY <3>1, <1>1, <1>11, <1>12 DEF TilingInv
      <3>2. CASE Live(i) /\ j = tail
        <4>1. Pos(j) = count /\ Pos(i) < count
          BY <3>2, <1>1 DEF WindowInv, Live
        <4>2. Ends(i) <= TBlocks - fblocks /\ (Pos(i) = count - 1 => Ends(i) = TBlocks - fblocks)
          BY <3>2, <1>1 DEF TilingInv
        <4>3. Begins(j)' = TBlocks - fblocks
          BY <3>2, <1>1, <1>13
        <4> QED BY <4>1, <4>2, <4>3, <3>2, <1>2, <1>11, <1>12
      <3>3. CASE i = tail
        <4>1. Pos(i) = count /\ (j # tail => Pos(j) < count)
          BY <3>3, <2>3, <1>1, <1>11 DEF WindowInv, Live
        <4> QED BY <4>1, <3>3, <1>2, <1>11
      <3> QED BY <3>1, <3>2, <3>3, <2>3, <1>11
    <2> QED BY <2>1, <2>2, <2>3 DEF TilingInv
  <1>17. ContentInv'
    <2> SUFFICES ASSUME NEW i \in EleNos, Live(i)', NEW b \in BlockNos,
                        Begins(i)' <= Off(b)', Off(b)' < Ends(i)'
                 PROVE  data'[b] = eles'[i].num
      BY DEF ContentInv
    <2>1. CASE Live(i)
      <3>1. Begins(i) <= Off(b) /\ Off(b) < Ends(i) /\ Ends(i) <= TBlocks - fblocks
        BY <2>1, <1>1, <1>9, <1>12 DEF TilingInv
      <3>2. Off(b) \in Int
        BY <1>2, OffType DEF BlockNos
      <3>3. b \notin BlocksOf(a, need)
        BY <3>1, <3>2, <2>1, <1>2, <1>10, <1>12, <1>14
      <3> QED BY <3>1, <3>3, <2>1, <1>1, <1>5, <1>12 DEF ContentInv
    <2>2. CASE i = tail
      <3>1. Begins(i)' = TBlocks - fblocks /\ Ends(i)' = TBlocks - fblocks'
        BY <2>2, <1>1, <1>13
      <3>2. b \in BlocksOf(a, need)
        BY <3>1, <1>1, <1>2, <1>3, <1>9, <1>10, <1>14
      <3> QED BY <3>2, <2>2, <1>4, <1>5
    <2> QED BY <2>1, <2>2, <1>11
  <1>18. AddInv'
    BY <1>1 DEF AddInv
  <1> QED BY <1>15, <1>16, <1>17, <1>18 DEF RingInv

LEMMA AddPublishRing ==
  ASSUME RingType, RingInv, AddPublish
  PROVE  RingInv'
PROOF
  <1> USE Sizes
  <1>1. /\ ppc = "publish" /\ ppc' = "signal"
        /\ WindowInv /\ TilingInv /\ ContentInv
        /\ tail' = NewerEle(tail) /\ fbstart' = fbstart /\ num' = num /\ data' = data
    BY DEF AddPublish, RingInv, Running
  <1>2. /\ count \in 0 .. MaxEle /\ head \in 0 .. MaxEle - 1 /\ tail \in 0 .. MaxEle - 1
    BY DEF RingType
  <1>3. Pos(tail) = count - 1 /\ count > 0
    BY <1>1, <1>2 DEF WindowInv, Pos
  <1>4. AddInv'
    BY <1>1 DEF AddInv
  <1>5. CASE NewerEle(tail) = head
    <2>1. FreeHead
      BY <1>5 DEF AddPublish
    <2>2. TilingInv' /\ ContentInv'
      BY <1>1, <1>3, <2>1, FreeHeadRing
    <2>3. WindowInv'
      BY <1>1, <1>2, <1>3, <1>5, <2>1 DEF WindowInv, Pos, NewerEle, FreeHead
    <2> QED BY <1>4, <2>2, <2>3 DEF RingInv
  <1>6. CASE NewerEle(tail) # head
    <2>1. UNCHANGED <<fblocks, count, eles, head>>
      BY <1>6 DEF AddPublish
    <2>2. WindowInv'
      BY <1>1, <1>2, <1>3, <1>6, <2>1 DEF WindowInv, Pos, NewerEle
    <2>3. TilingInv' /\ ContentInv'
      BY <1>1, <2>1 DEF TilingInv, ContentInv, Pos, Live, Begins, Ends, Off, LiveStart,
         FreeStart, EleNos, BlockNos
    <2> QED BY <1>4, <2>2, <2>3 DEF RingInv
  <1> QED BY <1>5, <1>6

LEMMA CreateRing ==
  ASSUME MShmPoolCreate
  PROVE  RingInv'
PROOF
  <1> USE Sizes
  <1>1. /\ ppc' = "idle" /\ fblocks' = TBlocks /\ count' = 0 /\ head' = 0 /\ tail' = 0
    BY DEF MShmPoolCreate
  <1>2. \A i \in EleNos : ~(Live(i)')
    BY <1>1 DEF Live, Pos, EleNos
  <1> QED BY <1>1, <1>2 DEF RingInv, WindowInv, TilingInv, ContentInv, AddInv, Pos

(* The producer never stores a frame over one that is still in the pool.   *)
LEMMA RingGivesIntact == RingType /\ RingInv /\ Running => LiveDataIntact
PROOF
  <1> USE Sizes
  <1> SUFFICES ASSUME RingType, RingInv, Running, NEW i \in EleNos, Live(i),
                      NEW b \in BlocksOf(eles[i].bblock, eles[i].len)
               PROVE  data[b] = eles[i].num
    BY DEF LiveDataIntact
  <1> DEFINE a == eles[i].bblock
  <1>1. /\ eles[i].len = eles[i].blocks /\ Ends(i) <= TBlocks - fblocks /\ ContentInv
    BY DEF RingInv, TilingInv
  <1>3. /\ a \in BlockNos /\ eles[i].len \in 0 .. TBlocks /\ fblocks \in 0 .. TBlocks
        /\ tail \in EleNos
    BY DEF RingType, BlockNos, EleNos
  <1>4. Off(a) \in 0 .. TBlocks - 1 /\ Ends(i) = Off(a) + eles[i].len
    BY <1>1, <1>3, OffType DEF Ends, Begins, BlockNos
  <1>5. eles[i].len \in Nat /\ Off(a) + eles[i].len <= TBlocks
    BY <1>1, <1>3, <1>4
  <1>6. b \in BlockNos /\ Begins(i) <= Off(b) /\ Off(b) < Ends(i)
    BY <1>3, <1>4, <1>5, BlocksOfRun DEF Begins
  <1> QED BY <1>1, <1>6 DEF ContentInv
=============================================================================
