---------------------------- MODULE AvSendProofs ----------------------------
(***************************************************************************)
(* Theorems about AvSend, for any size of the map, any thresholds and any  *)
(* socket.  The first two, that the ring never fills up and that no P      *)
(* frame comes before an I frame that is owed, need nothing of the bytes;  *)
(* the last two, the types and that the map stands for what the socket     *)
(* holds, are about the sum of the sizes, which is defined by recursion.   *)
(***************************************************************************)
EXTENDS AvSend, FiniteSetTheorems, SequenceTheorems, WellFoundedInduction, TLAPS

\* m is a sequence of elements of which each is audio or is not.
IsMap(m) == /\ \E S : m \in Seq(S)
            /\ \A i \in 1..Len(m) : m[i].audio \in BOOLEAN

\* The counters count the ring's elements, and there is room for the next;
\* before the head is sent there is room for the head and a frame.
MapInv ==
    /\ IsMap(map)
    /\ v_frames \in Int /\ a_frames \in Int
    /\ v_frames + a_frames = Len(map)
    /\ Len(map) < MapFrames
    /\ ~send_ack_flag => Len(map) + 1 < MapFrames

-----------------------------------------------------------------------------
(* Bringing the map up to date *)

\* The numbers up to n are finitely many, and n.
LEMMA IntervalSize ==
    ASSUME NEW n \in Nat
    PROVE  IsFiniteSet(1..n) /\ Cardinality(1..n) = n
PROOF
<1>1. /\ IsFiniteSet(1..n)
      /\ Cardinality(1..n) = IF 1 > n THEN 0 ELSE n - 1 + 1
  <2>1. 1 \in Int /\ n \in Int
    OBVIOUS
  <2>. QED
    BY <2>1, FS_Interval
<1>. QED
  BY <1>1

\* del_ele_from_map takes no more elements than there are.
LEMMA DeletedBound ==
    ASSUME NEW m, Len(m) \in Nat, NEW bytes
    PROVE  Deleted(m, bytes) \in 0..Len(m)
PROOF
<1>. DEFINE P == {k \in 1..Len(m) : Bytes(m, k) <= bytes}
<1>1. IsFiniteSet(1..Len(m)) /\ Cardinality(1..Len(m)) = Len(m)
  BY IntervalSize
<1>2. P \subseteq 1..Len(m)
  OBVIOUS
<1>3. IsFiniteSet(P) /\ Cardinality(P) <= Len(m)
  BY <1>1, <1>2, FS_Subset
<1>4. Cardinality(P) \in Nat
  BY <1>3, FS_CardinalityType
<1>5. Deleted(m, bytes) = 0 \/ Deleted(m, bytes) = Cardinality(P)
  BY DEF Deleted
<1>. HIDE DEF P
<1>. QED
  BY <1>3, <1>4, <1>5

\* What it leaves is the rest of the ring.
LEMMA ShortenedMap ==
    ASSUME NEW m, IsMap(m), NEW bytes
    PROVE  /\ IsMap(Shortened(m, bytes))
           /\ Len(Shortened(m, bytes)) = Len(m) - Deleted(m, bytes)
PROOF
<1>. DEFINE k == Deleted(m, bytes)
            rest == bytes - Bytes(m, k)
            tail == SubSeq(m, k + 1, Len(m))
            first == [audio |-> tail[1].audio, size |-> tail[1].size - rest]
<1>1. PICK S : m \in Seq(S)
  BY DEF IsMap
<1>2. Len(m) \in Nat /\ k \in 0..Len(m)
  BY <1>1, DeletedBound
<1>. HIDE DEF k
<1>3. /\ tail \in Seq(S) /\ Len(tail) = Len(m) - k
      /\ \A i \in 1..Len(tail) : tail[i] = m[k + i]
  BY <1>1, <1>2
<1>. HIDE DEF tail
<1>4. IsMap(tail)
  <2>1. \A i \in 1..Len(tail) : k + i \in 1..Len(m)
    BY <1>2, <1>3
  <2>2. \A i \in 1..Len(tail) : tail[i].audio \in BOOLEAN
    BY <1>3, <2>1, Zenon DEF IsMap
  <2>. QED
    BY <1>3, <2>2 DEF IsMap
<1>5. Shortened(m, bytes) = tail
        \/ (tail # <<>> /\ Shortened(m, bytes) = [tail EXCEPT ![1] = first])
  BY DEF Shortened, tail, k
<1>6. CASE tail # <<>> /\ Shortened(m, bytes) = [tail EXCEPT ![1] = first]
  <2>1. 1 \in 1..Len(tail)
    BY <1>3, <1>6
  <2>2. first.audio = tail[1].audio
    OBVIOUS
  <2>. HIDE DEF first
  <2>3. tail \in Seq(S \union {first})
    BY <1>3
  <2>4. /\ [tail EXCEPT ![1] = first] \in Seq(S \union {first})
        /\ Len([tail EXCEPT ![1] = first]) = Len(tail)
    BY <2>1, <2>3
  <2>5. \A i \in 1..Len(tail) : [tail EXCEPT ![1] = first][i].audio \in BOOLEAN
    BY <1>3, <1>4, <2>1, <2>2 DEF IsMap
  <2>. QED
    BY <1>3, <1>6, <2>4, <2>5 DEF IsMap, k
<1>. QED
  BY <1>3, <1>4, <1>5, <1>6 DEF k

\* An element is audio or video, so both counters together go down by the
\* number of elements taken.
LEMMA TakenSum ==
    ASSUME NEW m, IsMap(m), NEW k \in 0..Len(m)
    PROVE  /\ Taken(m, k, FALSE) \in Nat /\ Taken(m, k, TRUE) \in Nat
           /\ Taken(m, k, FALSE) + Taken(m, k, TRUE) = k
PROOF
<1>. DEFINE VS == {i \in 1..k : m[i].audio = FALSE}
            AS == {i \in 1..k : m[i].audio = TRUE}
<1>0. Len(m) \in Nat
  BY DEF IsMap
<1>1. IsFiniteSet(1..k) /\ Cardinality(1..k) = k
  BY <1>0, IntervalSize
<1>2. IsFiniteSet(VS) /\ IsFiniteSet(AS)
  BY <1>1, FS_Subset
<1>3. Cardinality(VS) \in Nat /\ Cardinality(AS) \in Nat
  BY <1>2, FS_CardinalityType
<1>4. VS \cap AS = {}
  OBVIOUS
<1>5. VS \cup AS = 1..k
  BY <1>0 DEF IsMap
<1>6. Cardinality(VS \cup AS) = Cardinality(VS) + Cardinality(AS)
  <2>. HIDE DEF VS, AS
  <2>1. Cardinality(VS \cup AS)
          = Cardinality(VS) + Cardinality(AS) - Cardinality(VS \cap AS)
    BY <1>2, FS_Union
  <2>2. Cardinality(VS \cap AS) = 0
    BY <1>4, FS_EmptySet
  <2>. QED
    BY <1>3, <2>1, <2>2
<1>. QED
  BY <1>1, <1>3, <1>5, <1>6 DEF Taken

\* The first half of every call keeps the counters right.
LEMMA Synced ==
    ASSUME MapInv
    PROVE  /\ IsMap(SyncedMap) /\ Len(SyncedMap) \in Nat
           /\ V \in Int /\ A \in Int
           /\ V + A = Len(SyncedMap) /\ Len(SyncedMap) <= Len(map)
PROOF
<1>. DEFINE k == Deleted(map, Gone)
<1>1. Len(map) \in Nat
  BY DEF MapInv, IsMap
<1>2. k \in 0..Len(map)
  BY <1>1, DeletedBound
<1>3. IsMap(SyncedMap) /\ Len(SyncedMap) = Len(map) - k
  BY ShortenedMap DEF SyncedMap, MapInv
<1>4. /\ Taken(map, k, FALSE) \in Nat /\ Taken(map, k, TRUE) \in Nat
      /\ Taken(map, k, FALSE) + Taken(map, k, TRUE) = k
  BY <1>2, TakenSum DEF MapInv
<1>5. V = v_frames - Taken(map, k, FALSE) /\ A = a_frames - Taken(map, k, TRUE)
  BY DEF V, A
<1>6. v_frames \in Int /\ a_frames \in Int /\ v_frames + a_frames = Len(map)
  BY DEF MapInv
<1>. HIDE DEF k
<1>7. V \in Int /\ A \in Int /\ V + A = Len(map) - k
  <2>. DEFINE tv == Taken(map, k, FALSE)
              ta == Taken(map, k, TRUE)
  <2>1. tv \in Nat /\ ta \in Nat /\ tv + ta = k
    BY <1>4
  <2>2. V = v_frames - tv /\ A = a_frames - ta
    BY <1>5
  <2>. HIDE DEF tv, ta
  <2>. QED
    BY <1>1, <1>2, <1>6, <2>1, <2>2
<1>. QED
  BY <1>1, <1>2, <1>3, <1>7

\* add_ele2map keeps them right if there is room for one element more.
LEMMA Added ==
    ASSUME MapInv, NEW e, e.audio \in BOOLEAN, NEW m, IsMap(m)
    PROVE  IsMap(Append(m, e)) /\ Len(Append(m, e)) = Len(m) + 1
PROOF
<1>1. PICK S : m \in Seq(S)
  BY DEF IsMap
<1>2. m \in Seq(S \union {e})
  BY <1>1
<1>3. /\ Append(m, e) \in Seq(S \union {e}) /\ Len(Append(m, e)) = Len(m) + 1
      /\ \A i \in 1..Len(m) : Append(m, e)[i] = m[i]
      /\ Append(m, e)[Len(m) + 1] = e
  BY <1>2
<1>4. \A i \in 1..Len(m) + 1 : i \in 1..Len(m) \/ i = Len(m) + 1
  BY <1>1
<1>5. \A i \in 1..Len(m) + 1 : Append(m, e)[i].audio \in BOOLEAN
  BY <1>3, <1>4 DEF IsMap
<1>. QED
  BY <1>3, <1>5 DEF IsMap

\* A frame that is not sent, or whose write fails.
LEMMA NotAddedKeeps ==
    ASSUME MapInv, NotSent \/ WriteFails, send_ack_flag' = send_ack_flag
    PROVE  MapInv'
PROOF
<1>1. map' = SyncedMap /\ v_frames' = V /\ a_frames' = A
  BY DEF NotSent, WriteFails
<1>2. Len(map) \in Nat
  BY DEF MapInv, IsMap
<1>. QED
  BY <1>1, <1>2, Synced, SendAssumption DEF MapInv

\* A frame that is sent, after the test that leaves at least one element free.
LEMMA SentKeeps ==
    ASSUME MapInv, NEW flag, NEW n, NEW ret, Sent(flag, n, ret),
           send_ack_flag' = send_ack_flag,
           V + A + 2 <= MapFrames,
           ~send_ack_flag => V + A + 3 <= MapFrames
    PROVE  MapInv'
PROOF
<1>. DEFINE e == [audio |-> flag = "PCM", size |-> ret]
<1>1. e.audio \in BOOLEAN
  OBVIOUS
<1>2. map' = Append(SyncedMap, e)
  BY DEF Sent
<1>. HIDE DEF e
<1>3. IsMap(map') /\ Len(map') = Len(SyncedMap) + 1
  BY <1>1, <1>2, Added, Synced
<1>4. v_frames' \in Int /\ a_frames' \in Int /\ v_frames' + a_frames' = V + A + 1
  BY Synced DEF Sent
<1>5. Len(map') = V + A + 1 /\ Len(map') \in Nat
  BY <1>3, Synced
<1>6. Len(map') < MapFrames /\ (~send_ack_flag => Len(map') + 1 < MapFrames)
  BY <1>5, Synced, SendAssumption
<1>. QED
  BY <1>3, <1>4, <1>5, <1>6 DEF MapInv

-----------------------------------------------------------------------------
(* The calls *)

\* Every step keeps the ring from filling up.
LEMMA MapStep == MapInv /\ [Next]_vars => MapInv'
PROOF
<1>. SUFFICES ASSUME MapInv, [Next]_vars PROVE MapInv'
  OBVIOUS
<1>1. CASE SendAck
  <2>. DEFINE e == [audio |-> FALSE, size |-> out']
  <2>1. e.audio \in BOOLEAN
    OBVIOUS
  <2>2. map' = Append(map, e) /\ v_frames' = v_frames + 1 /\ a_frames' = a_frames
    BY <1>1 DEF SendAck
  <2>3. IsMap(map) /\ Len(map) \in Nat
    BY DEF MapInv, IsMap
  <2>. HIDE DEF e
  <2>4. IsMap(map') /\ Len(map') = Len(map) + 1
    BY <2>1, <2>2, <2>3, Added
  <2>5. ~send_ack_flag /\ send_ack_flag'
    BY <1>1 DEF SendAck
  <2>6. Len(map') < MapFrames
    BY <2>3, <2>4, <2>5 DEF MapInv
  <2>. QED
    BY <2>2, <2>3, <2>4, <2>5, <2>6 DEF MapInv
<1>2. ASSUME NEW flag \in {"I", "P"}, NEW slow \in BOOLEAN, VideoFrame(flag, slow)
      PROVE  MapInv'
  <2>1. send_ack_flag' = send_ack_flag
    BY <1>2 DEF VideoFrame, DropVideo, StayDropped, DropP, SendVideo, BeginVideo
  <2>2. CASE NotSent
    BY <2>1, <2>2, NotAddedKeeps
  <2>3. CASE SendVideo(flag, slow)
    <3>1. V + A + 3 <= MapFrames
      <4>1. ~(V + A + ReserveVideo > MapFrames)
        BY <2>3 DEF SendVideo, NoRoom
      <4>. QED
        BY <4>1, Synced, SendAssumption
    <3>2. V + A + 2 <= MapFrames
      BY <3>1, Synced, SendAssumption
    <3>3. CASE WriteFails
      BY <2>1, <3>3, NotAddedKeeps
    <3>4. CASE \E n, ret : Sent(flag, n, ret)
      BY <2>1, <3>1, <3>2, <3>4, SentKeeps
    <3>. QED
      BY <2>3, <3>3, <3>4 DEF SendVideo
  <2>. QED
    BY <1>2, <2>2, <2>3 DEF VideoFrame, DropVideo, StayDropped, DropP
<1>3. CASE DropAudio
  BY <1>3, NotAddedKeeps DEF DropAudio
<1>4. CASE SendAudio
  <2>1. send_ack_flag' = send_ack_flag /\ send_ack_flag
    BY <1>4 DEF SendAudio
  <2>2. V + A + 2 <= MapFrames
    <3>1. V + A + ReserveAudio <= MapFrames
      BY <1>4 DEF SendAudio
    <3>. QED
      BY <3>1, Synced, SendAssumption
  <2>3. CASE NotSent \/ WriteFails
    BY <2>1, <2>3, NotAddedKeeps
  <2>4. CASE Sent("PCM", 1, 1)
    BY <2>1, <2>2, <2>4, SentKeeps
  <2>. QED
    BY <1>4, <2>3, <2>4 DEF SendAudio
<1>5. CASE WaitForI \/ PoolGap \/ SwitchPool \/ Resubscribe
  BY <1>5 DEF WaitForI, PoolGap, SwitchPool, Resubscribe, MapInv, flags
<1>6. CASE SwitchFirst
  BY <1>6 DEF SwitchFirst, MapInv
<1>7. ASSUME NEW left, Drain(left)
      PROVE  MapInv'
  BY <1>7 DEF Drain, MapInv, flags
<1>8. CASE UNCHANGED vars
  BY <1>8 DEF vars, flags, MapInv
<1>. QED
  BY <1>1, <1>2, <1>3, <1>4, <1>5, <1>6, <1>7, <1>8 DEF Next

\* The ring of send_info.map never fills up, whatever its size, the
\* thresholds and the socket, and its two counters never lose track of it:
\* the reserve of a video frame and that of an audio frame are enough for
\* two threads that take turns, and for a head that is sent late.
THEOREM MapNeverFull == Spec => []MapNotFull
PROOF
<1>1. Init => MapInv
  <2>. SUFFICES ASSUME Init PROVE MapInv
    OBVIOUS
  <2>1. map \in Seq({}) /\ Len(map) = 0
    BY DEF Init
  <2>. QED
    BY <2>1, SendAssumption DEF Init, MapInv, IsMap
<1>2. MapInv => MapNotFull
  BY DEF MapInv, MapNotFull
<1>. QED
  BY <1>1, <1>2, MapStep, PTL DEF Spec

-----------------------------------------------------------------------------
(* P frames and their I frame *)

\* While the server owes the viewer an I frame, send_i_flag or first_flag keeps
\* P frames from it, and send_i_flag is down while all video is dropped.
PictureInv ==
    /\ drop_v_flag => ~send_i_flag
    /\ picture = "owed" => ~send_i_flag \/ (send_ack_flag /\ first_flag)
    /\ "owed" \notin seen

\* A call for a video frame.
LEMMA PictureVideo ==
    ASSUME PictureInv, NEW flag \in {"I", "P"}, NEW slow \in BOOLEAN,
           VideoFrame(flag, slow)
    PROVE  PictureInv'
PROOF
<1>0. send_ack_flag /\ first_flag => flag = "I"
  BY DEF VideoFrame, DropVideo, StayDropped, DropP, SendVideo, BeginVideo
<1>1. CASE DropVideo(flag, slow)
  BY <1>1 DEF DropVideo, LeftOut, PictureInv
<1>2. CASE StayDropped(flag, slow)
  <2>1. /\ drop_v_flag /\ seen' = seen
        /\ send_i_flag' = (send_i_flag /\ ~(drop_p_flag /\ V >= Resume))
    BY <1>2 DEF StayDropped, StillDropped, LeftOut
  <2>2. ~send_i_flag'
    BY <2>1 DEF PictureInv
  <2>. QED
    BY <2>1, <2>2 DEF PictureInv
<1>3. CASE DropP(slow)
  BY <1>3 DEF DropP, LeftOut, PictureInv
<1>4. CASE SendVideo(flag, slow)
  <2>0. /\ ~drop_v_flag'
        /\ flag = "P" => send_i_flag
    BY <1>4 DEF SendVideo
  <2>1. CASE Unwritten
    BY <2>0, <2>1 DEF Unwritten, PictureInv
  <2>2. CASE Shown(flag)
    <3>1. flag = "P" => picture # "owed"
      BY <1>0, <2>0 DEF PictureInv
    <3>2. picture' # "owed" /\ "owed" \notin seen'
      BY <2>2, <3>1 DEF Shown, PictureInv
    <3>. QED
      BY <2>0, <3>2 DEF PictureInv
  <2>. QED
    BY <1>4, <2>1, <2>2 DEF SendVideo
<1>. QED
  BY <1>1, <1>2, <1>3, <1>4 DEF VideoFrame

\* Every step keeps the invariant.
LEMMA PictureStep == PictureInv /\ [Next]_vars => PictureInv'
PROOF
<1>. SUFFICES ASSUME PictureInv, [Next]_vars PROVE PictureInv'
  OBVIOUS
<1>1. CASE SendAck
  BY <1>1 DEF SendAck, LeftOut, PictureInv
<1>2. CASE WaitForI
  BY <1>2 DEF WaitForI, LeftOut, PictureInv, flags
<1>3. CASE PoolGap
  BY <1>3 DEF PoolGap, Missed, PictureInv, flags
<1>4. CASE DropAudio
  BY <1>4 DEF DropAudio, PictureInv, viewer
<1>5. CASE SendAudio
  BY <1>5 DEF SendAudio, PictureInv, viewer
<1>6. ASSUME NEW left, Drain(left)
      PROVE  PictureInv'
  BY <1>6 DEF Drain, PictureInv, flags, viewer
<1>7. CASE SwitchPool
  BY <1>7 DEF SwitchPool, Missed, PictureInv, flags
<1>8. CASE SwitchFirst
  BY <1>8 DEF SwitchFirst, PictureInv
<1>9. CASE Resubscribe
  BY <1>9 DEF Resubscribe, Missed, PictureInv, flags
<1>10. CASE UNCHANGED vars
  BY <1>10 DEF vars, flags, viewer, PictureInv
<1>. QED
  BY <1>1, <1>2, <1>3, <1>4, <1>5, <1>6, <1>7, <1>8, <1>9, <1>10, PictureVideo
     DEF Next

\* send_i_flag and first_flag keep their promise: with any thresholds and any
\* drops, failed writes, switches and re-subscriptions, a user for whom
\* send_media_frame2usr has left out a video frame, or whom play_back.c has
\* marked, is sent no P frame before an I frame has been written to it.
THEOREM PFrameAfterItsIFrame == Spec => []PAfterI
PROOF
<1>1. Init => PictureInv
  BY DEF Init, PictureInv
<1>2. PictureInv => PAfterI
  BY DEF PictureInv, PAfterI
<1>. QED
  BY <1>1, <1>2, PictureStep, PTL DEF Spec

-----------------------------------------------------------------------------
(* Induction.  The library's induction theorems take the statement as an   *)
(* operator; here it is the set of the numbers it holds of, and the proof  *)
(* is by the least number outside it.                                      *)

\* Every set of natural numbers has a least one.
LEMMA LeastNumber ==
    ASSUME NEW T, T \subseteq Nat, T # {}
    PROVE  \E x \in T : \A y \in T : ~(y < x)
PROOF
<1>. DEFINE R == {ss \in Nat \X Nat : ss[1] < ss[2]}
<1>1. IsWellFoundedOn(R, Nat)
  BY NatLessThanWellFounded DEF OpToRel
<1>. HIDE DEF R
<1>2. \E x \in T : \A y \in T : ~(<<y, x>> \in R)
  BY <1>1, WFMin
<1>. QED
  BY <1>2 DEF R

\* A set that holds 0 and, up to n, the successor of each of its numbers.
LEMMA UpTo ==
    ASSUME NEW n \in Nat, NEW S, 0 \in S,
           \A k \in 1..n : k - 1 \in S => k \in S
    PROVE  \A k \in 0..n : k \in S
PROOF
<1>. DEFINE T == (0..n) \ S
<1>1. SUFFICES ASSUME T # {} PROVE FALSE
  OBVIOUS
<1>2. T \subseteq Nat
  OBVIOUS
<1>3. PICK k \in T : \A j \in T : ~(j < k)
  <2>. HIDE DEF T
  <2>. QED
    BY <1>1, <1>2, LeastNumber
<1>4. k \in 0..n /\ k \notin S /\ k # 0
  OBVIOUS
<1>5. k \in 1..n /\ k - 1 \in 0..n /\ k - 1 < k
  BY <1>4
<1>6. k - 1 \in S
  BY <1>3, <1>5
<1>. QED
  BY <1>4, <1>5, <1>6

-----------------------------------------------------------------------------
(* The bytes the map stands for *)

Element == [audio : BOOLEAN, size : Nat]

\* f gives the sums of the first sizes of m, up to n of them.
IsSum(f, m, n) == /\ f \in [0..n -> Nat] /\ f[0] = 0
                  /\ \A i \in 1..n : f[i] = f[i - 1] + m[i].size

\* An element has a size.
LEMMA SizeTyped ==
    ASSUME NEW m \in Seq(Element)
    PROVE  /\ Len(m) \in Nat
           /\ \A i \in 1..Len(m) : m[i] \in Element /\ m[i].size \in Nat
                                   /\ m[i].audio \in BOOLEAN
PROOF
<1>1. \A i \in 1..Len(m) : m[i] \in Element
  OBVIOUS
<1>2. \A e \in Element : e.size \in Nat /\ e.audio \in BOOLEAN
  BY DEF Element
<1>. QED
  BY <1>1, <1>2

\* There is such a function: one more size is added to the last sum.
LEMMA SumExists ==
    ASSUME NEW m \in Seq(Element)
    PROVE  \A n \in 0..Len(m) : \E f : IsSum(f, m, n)
PROOF
<1>. DEFINE S == {n \in 0..Len(m) : \E f : IsSum(f, m, n)}
<1>0. Len(m) \in Nat
  OBVIOUS
<1>1. 0 \in S
  <2>1. IsSum([i \in 0..0 |-> 0], m, 0)
    BY DEF IsSum
  <2>. QED
    BY <1>0, <2>1
<1>2. ASSUME NEW k \in 1..Len(m), k - 1 \in S
      PROVE  k \in S
  <2>1. PICK f : IsSum(f, m, k - 1)
    BY <1>2
  <2>. DEFINE g == [i \in 0..k |-> IF i = k THEN f[k - 1] + m[k].size ELSE f[i]]
  <2>2. k \in Nat /\ \A i \in 0..k : i # k => i \in 0..k - 1
    OBVIOUS
  <2>3. f \in [0..k - 1 -> Nat] /\ f[0] = 0
    BY <2>1 DEF IsSum
  <2>4. f[k - 1] \in Nat /\ m[k].size \in Nat
    BY <2>2, <2>3, SizeTyped
  <2>5. g \in [0..k -> Nat] /\ g[0] = 0
    BY <2>2, <2>3, <2>4
  <2>6. ASSUME NEW i \in 1..k
        PROVE  g[i] = g[i - 1] + m[i].size
    <3>1. g[i - 1] = f[i - 1]
      BY <2>2
    <3>2. i # k => f[i] = f[i - 1] + m[i].size
      BY <2>1, <2>2 DEF IsSum
    <3>. QED
      BY <2>2, <3>1, <3>2
  <2>. HIDE DEF g
  <2>7. IsSum(g, m, k)
    BY <2>5, <2>6 DEF IsSum
  <2>. QED
    BY <2>7
<1>. HIDE DEF S
<1>3. \A k \in 0..Len(m) : k \in S
  BY <1>0, <1>1, <1>2, UpTo
<1>. QED
  BY <1>3 DEF S

\* So the recursive definition of Bytes has the meaning one reads in it.
LEMMA BytesSum ==
    ASSUME NEW m \in Seq(Element)
    PROVE  /\ Bytes(m, 0) = 0
           /\ \A k \in 0..Len(m) : Bytes(m, k) \in Nat
           /\ \A k \in 1..Len(m) : Bytes(m, k) = Bytes(m, k - 1) + m[k].size
PROOF
<1>. DEFINE Eq(f) == f = [i \in 0..Len(m) |->
                             IF i = 0 THEN 0 ELSE f[i - 1] + m[i].size]
            sum == CHOOSE f : Eq(f)
<1>0. Len(m) \in Nat /\ Len(m) \in 0..Len(m)
  OBVIOUS
<1>1. PICK f : IsSum(f, m, Len(m))
  BY <1>0, SumExists
<1>2. Eq(f)
  <2>1. f \in [0..Len(m) -> Nat]
    BY <1>1 DEF IsSum
  <2>2. \A i \in 0..Len(m) : f[i] = IF i = 0 THEN 0 ELSE f[i - 1] + m[i].size
    BY <1>0, <1>1 DEF IsSum
  <2>. QED
    BY <2>1, <2>2
<1>3. Eq(sum)
  <2>. HIDE DEF Eq
  <2>. QED
    BY <1>2
<1>4. \A k : Bytes(m, k) = sum[k]
  BY DEF Bytes
<1>. HIDE DEF sum
<1>5. \A k \in 0..Len(m) : sum[k] = IF k = 0 THEN 0 ELSE sum[k - 1] + m[k].size
  BY <1>3
<1>6. \A k \in 0..Len(m) : sum[k] \in Nat
  <2>. DEFINE S == {k \in 0..Len(m) : sum[k] \in Nat}
  <2>1. 0 \in S
    BY <1>0, <1>5
  <2>2. ASSUME NEW k \in 1..Len(m), k - 1 \in S
        PROVE  k \in S
    <3>1. k \in 0..Len(m) /\ k # 0 /\ sum[k - 1] \in Nat /\ m[k].size \in Nat
      BY <2>2, SizeTyped
    <3>2. sum[k] = sum[k - 1] + m[k].size
      BY <1>5, <3>1
    <3>. QED
      BY <3>1, <3>2
  <2>. HIDE DEF S
  <2>3. \A k \in 0..Len(m) : k \in S
    BY <1>0, <2>1, <2>2, UpTo
  <2>. QED
    BY <2>3 DEF S
<1>. QED
  BY <1>0, <1>4, <1>5, <1>6

\* The sums only grow.
LEMMA BytesGrow ==
    ASSUME NEW m \in Seq(Element), NEW i \in 0..Len(m)
    PROVE  \A j \in i..Len(m) : Bytes(m, i) <= Bytes(m, j)
PROOF
<1>. DEFINE B(k) == Bytes(m, k)
            S == {j \in 0..Len(m) : i <= j => B(i) <= B(j)}
<1>0. Len(m) \in Nat /\ i \in Nat
  OBVIOUS
<1>1. /\ \A k \in 0..Len(m) : B(k) \in Nat
      /\ \A k \in 1..Len(m) : B(k) = B(k - 1) + m[k].size /\ m[k].size \in Nat
  BY BytesSum, SizeTyped
<1>. HIDE DEF B
<1>2. 0 \in S
  BY <1>0, <1>1
<1>3. ASSUME NEW k \in 1..Len(m), k - 1 \in S
      PROVE  k \in S
  <2>1. i <= k - 1 => B(i) <= B(k - 1)
    BY <1>3
  <2>2. B(k) = B(k - 1) + m[k].size /\ m[k].size \in Nat
    BY <1>1
  <2>3. B(i) \in Nat /\ B(k - 1) \in Nat /\ B(k) \in Nat /\ k \in Nat
    BY <1>0, <1>1
  <2>4. i <= k => i <= k - 1 \/ i = k
    BY <1>0
  <2>5. i <= k - 1 => B(i) <= B(k)
    BY <2>1, <2>2, <2>3
  <2>. QED
    BY <1>0, <2>3, <2>4, <2>5
<1>. HIDE DEF S
<1>4. \A j \in 0..Len(m) : j \in S
  BY <1>0, <1>2, <1>3, UpTo
<1>5. \A j \in i..Len(m) : j \in 0..Len(m) /\ i <= j
  BY <1>0
<1>. QED
  BY <1>4, <1>5 DEF S, B

\* Two maps of which one has the sizes of the other from a place on: their
\* sums go on with the same difference.
LEMMA SameSizes ==
    ASSUME NEW m \in Seq(Element), NEW p \in Seq(Element),
           NEW c \in Nat, NEW d \in Int, NEW i \in Nat, NEW n \in Nat,
           i <= n, n <= Len(p), n + c <= Len(m),
           Bytes(p, i) = Bytes(m, i + c) - d,
           \A j \in i + 1..n : p[j].size = m[j + c].size
    PROVE  Bytes(p, n) = Bytes(m, n + c) - d
PROOF
<1>. DEFINE P(k) == Bytes(p, k)
            M(k) == Bytes(m, k)
            S == {k \in 0..n : i <= k => P(k) = M(k + c) - d}
<1>0. Len(m) \in Nat /\ Len(p) \in Nat
  OBVIOUS
<1>1. ASSUME NEW k \in 1..n
      PROVE  /\ P(k) = P(k - 1) + p[k].size
             /\ M(k + c) = M(k + c - 1) + m[k + c].size
             /\ P(k - 1) \in Nat /\ M(k + c - 1) \in Nat
             /\ m[k + c].size \in Nat
  <2>. DEFINE x == k + c
  <2>1. /\ k \in 1..Len(p) /\ k - 1 \in 0..Len(p)
        /\ x \in 1..Len(m) /\ x - 1 \in 0..Len(m)
    BY <1>0
  <2>. HIDE DEF x
  <2>2. P(k) = P(k - 1) + p[k].size /\ P(k - 1) \in Nat
    BY <2>1, BytesSum
  <2>3. M(x) = M(x - 1) + m[x].size /\ M(x - 1) \in Nat
    BY <2>1, BytesSum
  <2>4. m[x].size \in Nat
    BY <2>1, SizeTyped
  <2>. QED
    BY <2>2, <2>3, <2>4 DEF x
<1>2. P(i) = M(i + c) - d
  OBVIOUS
<1>. HIDE DEF P, M
<1>3. 0 \in S
  BY <1>2
<1>4. ASSUME NEW k \in 1..n, k - 1 \in S
      PROVE  k \in S
  <2>1. CASE i = k
    BY <1>2, <2>1
  <2>2. CASE i <= k - 1
    <3>1. P(k - 1) = M(k - 1 + c) - d
      BY <1>4, <2>2
    <3>2. k - 1 + c = k + c - 1 /\ k \in i + 1..n
      BY <2>2
    <3>3. P(k - 1) = M(k + c - 1) - d
      BY <3>1, <3>2
    <3>4. p[k].size = m[k + c].size
      BY <3>2
    <3>5. P(k) = M(k + c) - d
      <4>. DEFINE a == P(k - 1)
                  b == M(k + c - 1)
                  z == m[k + c].size
      <4>1. a \in Nat /\ b \in Nat /\ z \in Nat /\ a = b - d
        BY <1>1, <3>3
      <4>2. P(k) = a + z /\ M(k + c) = b + z
        BY <1>1, <3>4
      <4>. HIDE DEF a, b, z
      <4>. QED
        BY <4>1, <4>2
    <3>. QED
      BY <3>5
  <2>3. CASE ~(i <= k)
    BY <2>3
  <2>. QED
    BY <2>1, <2>2, <2>3
<1>. HIDE DEF S
<1>5. \A k \in 0..n : k \in S
  BY <1>3, <1>4, UpTo
<1>6. n \in S
  BY <1>5
<1>. QED
  BY <1>6 DEF S, P, M

\* add_ele2map adds the size of the element.
LEMMA BytesAppend ==
    ASSUME NEW m \in Seq(Element), NEW e \in Element
    PROVE  /\ Append(m, e) \in Seq(Element) /\ Len(Append(m, e)) = Len(m) + 1
           /\ Bytes(Append(m, e), Len(m) + 1) = Bytes(m, Len(m)) + e.size
PROOF
<1>. DEFINE p == Append(m, e)
            n == Len(m)
<1>1. /\ p \in Seq(Element) /\ Len(p) = n + 1 /\ n \in Nat
      /\ \A i \in 1..n : p[i] = m[i]
      /\ p[n + 1] = e
  OBVIOUS
<1>2. n = Len(m)
  OBVIOUS
<1>. HIDE DEF p, n
<1>3. Bytes(p, 0) = 0 /\ Bytes(m, 0) = 0 /\ 0 + 0 = 0
  BY <1>1, BytesSum
<1>4. Bytes(p, 0) = Bytes(m, 0 + 0) - 0
  BY <1>3
<1>5. Bytes(p, n) = Bytes(m, n + 0) - 0
  <2>1. \A j \in 0 + 1..n : p[j].size = m[j + 0].size
    BY <1>1
  <2>2. 0 <= n /\ n <= Len(p) /\ n + 0 <= Len(m)
    BY <1>1, <1>2
  <2>. QED
    BY <1>1, <1>4, <2>1, <2>2, SameSizes
<1>6. Bytes(m, n) \in Nat /\ n + 0 = n
  BY <1>1, <1>2, BytesSum
<1>7. Bytes(p, n + 1) = Bytes(p, n) + e.size
  <2>1. n + 1 \in 1..Len(p) /\ (n + 1) - 1 = n
    BY <1>1
  <2>. QED
    BY <1>1, <2>1, BytesSum
<1>8. Bytes(p, n) = Bytes(m, n)
  BY <1>5, <1>6
<1>. QED
  BY <1>1, <1>2, <1>7, <1>8 DEF p, n

\* del_ele_from_map takes the elements that fit in the bytes, and no more.
LEMMA DeletedFits ==
    ASSUME NEW m \in Seq(Element), NEW bytes \in Int, bytes > 0
    PROVE  LET k == Deleted(m, bytes)
           IN  /\ k \in 0..Len(m) /\ Bytes(m, k) <= bytes
               /\ k < Len(m) => Bytes(m, k + 1) > bytes
PROOF
<1>. DEFINE n == Len(m)
            P == {k \in 1..n : Bytes(m, k) <= bytes}
            T == {k \in 0..n : k = n \/ Bytes(m, k + 1) > bytes}
<1>0. n \in Nat
  OBVIOUS
<1>1. PICK k \in T : \A j \in T : ~(j < k)
  <2>1. T \subseteq Nat /\ n \in T
    BY <1>0
  <2>. HIDE DEF T
  <2>. QED
    BY <2>1, LeastNumber
<1>2. k \in 0..n /\ (k < n => Bytes(m, k + 1) > bytes)
  OBVIOUS
<1>3. \A j \in 0..n : Bytes(m, j) \in Nat
  BY BytesSum
<1>4. \A j \in 1..k : Bytes(m, j) <= bytes
  <2>. SUFFICES ASSUME NEW j \in 1..k PROVE Bytes(m, j) <= bytes
    OBVIOUS
  <2>1. j - 1 \in 0..n /\ j - 1 < k /\ j - 1 # n /\ (j - 1) + 1 = j /\ j \in 0..n
    BY <1>0, <1>2
  <2>2. j - 1 \notin T
    BY <1>1, <2>1
  <2>3. ~(Bytes(m, (j - 1) + 1) > bytes)
    BY <2>1, <2>2
  <2>4. Bytes(m, j) \in Nat /\ ~(Bytes(m, j) > bytes)
    BY <1>3, <2>1, <2>3
  <2>. QED
    BY <2>4
<1>5. P = 1..k
  <2>1. 1..k \subseteq P
    BY <1>0, <1>2, <1>4
  <2>2. ASSUME NEW j \in P PROVE j \in 1..k
    <3>1. j \in 1..n /\ Bytes(m, j) <= bytes
      OBVIOUS
    <3>2. SUFFICES ASSUME j > k PROVE FALSE
      BY <1>2, <3>1
    <3>3. k < n /\ k + 1 \in 0..n /\ j \in k + 1..n /\ j \in 0..n
      BY <1>0, <1>2, <3>1, <3>2
    <3>4. Bytes(m, k + 1) <= Bytes(m, j)
      BY <3>3, BytesGrow
    <3>5. Bytes(m, k + 1) > bytes
      BY <1>2, <3>3
    <3>6. Bytes(m, k + 1) \in Nat /\ Bytes(m, j) \in Nat
      BY <1>3, <3>3
    <3>. QED
      BY <3>1, <3>4, <3>5, <3>6
  <2>. QED
    BY <2>1, <2>2
<1>6. Cardinality(1..k) = k
  <2>1. k \in Nat
    BY <1>0, <1>2
  <2>. QED
    BY <2>1, IntervalSize
<1>7. Deleted(m, bytes) = k
  <2>1. Deleted(m, bytes) = Cardinality(P)
    BY DEF Deleted
  <2>. HIDE DEF P
  <2>. QED
    BY <1>5, <1>6, <2>1
<1>8. Bytes(m, k) <= bytes
  <2>1. k = 0 \/ k \in 1..k
    BY <1>0, <1>2
  <2>. QED
    BY <1>4, <2>1, BytesSum
<1>. QED
  BY <1>2, <1>7, <1>8

\* What it leaves: the rest of the elements, the first of them shortened, and
\* the bytes that are left.
LEMMA ShortenedElements ==
    ASSUME NEW m \in Seq(Element), NEW bytes \in Int
    PROVE  LET k == Deleted(m, bytes)
               p == Shortened(m, bytes)
           IN  /\ k \in 0..Len(m)
               /\ p \in Seq(Element) /\ Len(p) = Len(m) - k
               /\ \A i \in 1..Len(p) : p[i].audio = m[k + i].audio
               /\ bytes \in 0..Bytes(m, Len(m)) =>
                     Bytes(p, Len(p)) = Bytes(m, Len(m)) - bytes
PROOF
<1>. DEFINE n == Len(m)
            k == Deleted(m, bytes)
            tail == SubSeq(m, k + 1, Len(m))
            p == Shortened(m, bytes)
<1>0. n \in Nat /\ n = Len(m)
  OBVIOUS
<1>1. k \in 0..n
  BY <1>0, DeletedBound
<1>2. /\ bytes <= 0 => k = 0 /\ p = tail
      /\ tail = <<>> => p = tail
      /\ bytes > 0 /\ tail # <<>> =>
           p = [tail EXCEPT ![1] = [audio |-> tail[1].audio,
                                    size |-> tail[1].size - (bytes - Bytes(m, k))]]
  <2>1. bytes <= 0 => k = 0
    BY DEF Deleted
  <2>2. p = IF tail = <<>> \/ bytes <= 0 THEN tail
            ELSE [tail EXCEPT ![1] = [audio |-> @.audio,
                                      size |-> @.size - (bytes - Bytes(m, k))]]
    BY DEF Shortened
  <2>. HIDE DEF p, k, tail
  <2>. QED
    BY <2>1, <2>2
<1>3. /\ bytes > 0 => /\ Bytes(m, k) <= bytes
                      /\ k < n => Bytes(m, k + 1) > bytes
  BY DeletedFits
<1>. HIDE DEF p, k
<1>4. /\ tail \in Seq(Element) /\ Len(tail) = n - k
      /\ \A i \in 1..Len(tail) : tail[i] = m[k + i]
  BY <1>0, <1>1
<1>. HIDE DEF tail, n
<1>5. /\ \A j \in 0..n : Bytes(m, j) \in Nat
      /\ Bytes(m, n) \in Nat /\ Bytes(m, k) \in Nat /\ Bytes(m, 0) = 0
      /\ k < n => /\ Bytes(m, k + 1) \in Nat
                  /\ Bytes(m, k + 1) = Bytes(m, k) + m[k + 1].size
                  /\ m[k + 1].size \in Nat
  <2>1. k < n => k + 1 \in 1..n /\ (k + 1) - 1 = k
    BY <1>0, <1>1
  <2>. QED
    BY <1>0, <1>1, <2>1, BytesSum, SizeTyped
<1>6. CASE bytes <= 0
  <2>1. p = tail /\ k = 0
    BY <1>2, <1>6
  <2>2. Len(p) = n
    BY <1>0, <1>4, <2>1
  <2>3. \A i \in 1..n : p[i] = m[i]
    BY <1>0, <1>4, <2>1
  <2>4. Bytes(p, n) = Bytes(m, n)
    <3>1. \A j \in 0 + 1..n : p[j].size = m[j + 0].size
      BY <1>0, <2>3
    <3>2. Bytes(p, 0) = Bytes(m, 0 + 0) - 0
      BY <1>4, <2>1, BytesSum
    <3>3. Bytes(p, n) = Bytes(m, n + 0) - 0
      <4>1. /\ p \in Seq(Element) /\ 0 <= n /\ n <= Len(p) /\ n + 0 <= Len(m)
            /\ 0 \in Nat /\ 0 \in Int
        BY <1>0, <1>4, <2>1, <2>2
      <4>. QED
        BY <1>0, <3>1, <3>2, <4>1, SameSizes
    <3>4. n + 0 = n /\ Bytes(m, n) - 0 = Bytes(m, n)
      BY <1>0, <1>5
    <3>. QED
      BY <3>3, <3>4
  <2>5. bytes \in 0..Bytes(m, n) => Bytes(m, n) - bytes = Bytes(m, n)
    BY <1>5, <1>6
  <2>. QED
    BY <1>0, <1>1, <1>4, <2>1, <2>2, <2>3, <2>4, <2>5 DEF p, k
<1>7. CASE bytes > 0 /\ tail = <<>>
  <2>1. p = <<>> /\ Len(p) = 0 /\ p \in Seq(Element) /\ k = n
    BY <1>0, <1>1, <1>2, <1>4, <1>7
  <2>2. Bytes(p, 0) = 0
    BY <2>1, BytesSum
  <2>3. bytes \in 0..Bytes(m, n) => Bytes(m, n) - bytes = 0
    BY <1>3, <1>5, <1>7, <2>1
  <2>. QED
    BY <1>0, <1>1, <2>1, <2>2, <2>3 DEF p, k
<1>8. CASE bytes > 0 /\ tail # <<>>
  <2>. DEFINE size == tail[1].size - (bytes - Bytes(m, k))
              first == [audio |-> tail[1].audio, size |-> size]
  <2>1. k < n /\ 1 \in 1..Len(tail)
    BY <1>0, <1>1, <1>4, <1>8
  <2>2. tail[1] = m[k + 1] /\ tail[1] \in Element /\ tail[1].audio \in BOOLEAN
    BY <1>4, <2>1, SizeTyped
  <2>3. size \in Nat /\ size = Bytes(m, k + 1) - bytes
    BY <1>3, <1>5, <1>8, <2>1, <2>2
  <2>4. p = [tail EXCEPT ![1] = first]
    BY <1>2, <1>8
  <2>. HIDE DEF size
  <2>5. first \in Element /\ first.size = size /\ first.audio = tail[1].audio
    BY <2>2, <2>3 DEF Element
  <2>. HIDE DEF first
  <2>6. /\ p \in Seq(Element) /\ Len(p) = n - k /\ p[1] = first
        /\ \A i \in 2..Len(p) : p[i] = m[k + i]
    BY <1>0, <1>1, <1>4, <2>1, <2>4, <2>5
  <2>7. \A i \in 1..Len(p) : p[i].audio = m[k + i].audio
    <3>1. \A i \in 1..Len(p) : i = 1 \/ i \in 2..Len(p)
      BY <1>0, <1>1, <2>6
    <3>. QED
      BY <2>2, <2>5, <2>6, <3>1
  <2>8. Bytes(p, n - k) = Bytes(m, n) - bytes
    <3>. DEFINE l == n - k
    <3>1. l \in Nat /\ 1 <= l /\ l <= Len(p) /\ l + k = n /\ Len(p) = l
      BY <1>0, <1>1, <2>1, <2>6
    <3>2. Bytes(p, 1) = size
      <4>1. Bytes(p, 1) = Bytes(p, 1 - 1) + p[1].size /\ Bytes(p, 0) = 0
        BY <2>6, <3>1, BytesSum
      <4>2. 1 - 1 = 0
        OBVIOUS
      <4>. QED
        BY <2>3, <2>5, <2>6, <4>1, <4>2
    <3>3. Bytes(p, 1) = Bytes(m, 1 + k) - bytes
      <4>1. 1 + k = k + 1
        BY <1>1
      <4>. QED
        BY <2>3, <3>2, <4>1
    <3>. HIDE DEF l
    <3>4. \A j \in 1 + 1..l : p[j].size = m[j + k].size
      <4>1. \A j \in 1 + 1..l : j \in 2..Len(p) /\ j + k = k + j
        BY <1>0, <1>1, <3>1
      <4>. QED
        BY <2>6, <4>1
    <3>5. l + k <= Len(m) /\ k \in Nat
      BY <1>0, <1>1, <3>1
    <3>6. Bytes(p, l) = Bytes(m, l + k) - bytes
      BY <2>6, <3>1, <3>3, <3>4, <3>5, SameSizes
    <3>. QED
      BY <3>1, <3>6 DEF l
  <2>. QED
    BY <1>0, <1>1, <2>6, <2>7, <2>8 DEF p, k
<1>. QED
  BY <1>6, <1>7, <1>8

-----------------------------------------------------------------------------
(* The counters, one by one *)

\* What is left of a map after k elements holds the rest of each kind.
LEMMA TakenRest ==
    ASSUME NEW m \in Seq(Element), NEW p \in Seq(Element), NEW k \in 0..Len(m),
           Len(p) = Len(m) - k,
           \A i \in 1..Len(p) : p[i].audio = m[k + i].audio,
           NEW audio \in BOOLEAN
    PROVE  /\ Taken(m, k, audio) \in Nat /\ Taken(p, Len(p), audio) \in Nat
           /\ Taken(m, Len(m), audio)
                = Taken(m, k, audio) + Taken(p, Len(p), audio)
PROOF
<1>. DEFINE n == Len(m)
            l == Len(p)
            All == {i \in 1..n : m[i].audio = audio}
            Old == {i \in 1..k : m[i].audio = audio}
            Rest == {i \in k + 1..n : m[i].audio = audio}
            Left == {i \in 1..l : p[i].audio = audio}
            f == [i \in Left |-> k + i]
<1>0. n \in Nat /\ l \in Nat /\ k \in 0..n /\ l = n - k
  OBVIOUS
<1>1. /\ \A i \in 1..l : p[i].audio = m[k + i].audio
      /\ Taken(m, Len(m), audio) = Cardinality(All)
      /\ Taken(m, k, audio) = Cardinality(Old)
      /\ Taken(p, Len(p), audio) = Cardinality(Left)
  BY DEF Taken
<1>. HIDE DEF n, l
<1>2. All = Old \union Rest /\ Old \intersect Rest = {}
  <2>1. 1..n = (1..k) \union (k + 1..n) /\ (1..k) \intersect (k + 1..n) = {}
    BY <1>0
  <2>. QED
    BY <2>1
<1>3. IsFiniteSet(Old) /\ IsFiniteSet(Left) /\ IsFiniteSet(Rest)
  <2>1. 1 \in Int /\ k \in Int /\ l \in Int /\ k + 1 \in Int /\ n \in Int
    BY <1>0
  <2>2. IsFiniteSet(1..k) /\ IsFiniteSet(1..l) /\ IsFiniteSet(k + 1..n)
    BY <2>1, FS_Interval
  <2>. QED
    BY <2>2, FS_Subset
<1>4. f \in Bijection(Left, Rest)
  <2>1. f \in [Left -> Rest]
    <3>1. ASSUME NEW i \in Left PROVE k + i \in Rest
      <4>1. i \in 1..l /\ k + i \in k + 1..n
        BY <1>0
      <4>. QED
        BY <1>1, <4>1
    <3>. QED
      BY <3>1
  <2>2. \A i, j \in Left : f[i] = f[j] => i = j
    BY <1>0
  <2>3. ASSUME NEW j \in Rest PROVE \E i \in Left : f[i] = j
    <3>1. j - k \in 1..l /\ k + (j - k) = j
      BY <1>0
    <3>2. j - k \in Left
      BY <1>1, <3>1
    <3>. QED
      BY <3>1, <3>2
  <2>. HIDE DEF f, Left, Rest
  <2>. QED
    BY <2>1, <2>2, <2>3 DEF Bijection, Injection, Surjection, IsInjective
<1>. HIDE DEF All, Old, Rest, Left, f
<1>5. Cardinality(Rest) = Cardinality(Left)
  <2>1. ExistsBijection(Left, Rest)
    BY <1>4 DEF ExistsBijection
  <2>. QED
    BY <1>3, <2>1, FS_Bijection
<1>6. Cardinality(All)
        = Cardinality(Old) + Cardinality(Rest) - Cardinality(Old \intersect Rest)
  BY <1>2, <1>3, FS_Union
<1>7. /\ Cardinality(Old) \in Nat /\ Cardinality(Rest) \in Nat
      /\ Cardinality(Old \intersect Rest) = 0
  BY <1>2, <1>3, FS_CardinalityType, FS_EmptySet
<1>. QED
  BY <1>1, <1>5, <1>6, <1>7

\* add_ele2map adds one element of its kind.
LEMMA TakenAppend ==
    ASSUME NEW m \in Seq(Element), NEW e \in Element, NEW audio \in BOOLEAN
    PROVE  Taken(Append(m, e), Len(m) + 1, audio)
             = IF e.audio = audio THEN Taken(m, Len(m), audio) + 1
                                  ELSE Taken(m, Len(m), audio)
PROOF
<1>. DEFINE n == Len(m)
            p == Append(m, e)
            Now == {i \in 1..n : m[i].audio = audio}
            Then == {i \in 1..n + 1 : p[i].audio = audio}
<1>0. /\ n \in Nat /\ p[n + 1] = e
      /\ \A i \in 1..n : p[i] = m[i]
  OBVIOUS
<1>1. /\ Taken(m, Len(m), audio) = Cardinality(Now)
      /\ Taken(Append(m, e), Len(m) + 1, audio) = Cardinality(Then)
  BY DEF Taken
<1>. HIDE DEF n, p
<1>2. /\ 1..n + 1 = (1..n) \union {n + 1} /\ n + 1 \notin 1..n
  BY <1>0
<1>3. Then = IF e.audio = audio THEN Now \union {n + 1} ELSE Now
  BY <1>0, <1>2
<1>4. n + 1 \notin Now
  BY <1>2
<1>5. IsFiniteSet(Now)
  <2>1. 1 \in Int /\ n \in Int
    BY <1>0
  <2>2. IsFiniteSet(1..n)
    BY <2>1, FS_Interval
  <2>. QED
    BY <2>2, FS_Subset
<1>. HIDE DEF Now, Then
<1>6. Cardinality(Now \union {n + 1}) = Cardinality(Now) + 1
  BY <1>4, <1>5, FS_AddElement
<1>. QED
  BY <1>1, <1>3, <1>6

\* Each counter counts the elements of its kind.
Counted == /\ v_frames = Taken(map, Len(map), FALSE)
           /\ a_frames = Taken(map, Len(map), TRUE)

\* While nothing has gone wrong the socket never holds more than the server
\* last saw in it, the map stands for just that, and it is empty until the
\* head is sent, whose element stands for all the socket holds.
Socket == faults = 0 => /\ out <= send_buffers
                        /\ Bytes(map, Len(map)) = send_buffers
                        /\ ~send_ack_flag => map = <<>>

SendInv == TypeOK /\ Counted /\ Socket

\* What a step does to the socket and the map, without the flags.
Numbers == /\ out \in Nat /\ send_buffers \in Nat
           /\ map \in Seq([audio : BOOLEAN, size : Nat])
           /\ v_frames \in Nat /\ a_frames \in Nat

\* The first half of every call: the elements, the counters and the bytes
\* that are left.
LEMMA SyncedCounts ==
    ASSUME SendInv
    PROVE  /\ SyncedMap \in Seq(Element) /\ V \in Nat /\ A \in Nat
           /\ V = Taken(SyncedMap, Len(SyncedMap), FALSE)
           /\ A = Taken(SyncedMap, Len(SyncedMap), TRUE)
           /\ faults = 0 => Bytes(SyncedMap, Len(SyncedMap)) = out
PROOF
<1>. DEFINE k == Deleted(map, Gone)
            p == Shortened(map, Gone)
<1>0. /\ map \in Seq(Element) /\ out \in Nat /\ send_buffers \in Nat
      /\ v_frames \in Nat /\ a_frames \in Nat
  BY DEF SendInv, TypeOK, Element
<1>1. Gone \in Int /\ Gone = send_buffers - out
  BY <1>0 DEF Gone
<1>2. /\ k \in 0..Len(map) /\ p \in Seq(Element) /\ Len(p) = Len(map) - k
      /\ \A i \in 1..Len(p) : p[i].audio = map[k + i].audio
      /\ Gone \in 0..Bytes(map, Len(map)) =>
            Bytes(p, Len(p)) = Bytes(map, Len(map)) - Gone
  BY <1>0, <1>1, ShortenedElements
<1>3. /\ SyncedMap = p
      /\ V = v_frames - Taken(map, k, FALSE) /\ A = a_frames - Taken(map, k, TRUE)
  BY DEF SyncedMap, V, A
<1>. HIDE DEF k, p
<1>4. \A audio \in BOOLEAN :
         /\ Taken(map, k, audio) \in Nat /\ Taken(p, Len(p), audio) \in Nat
         /\ Taken(map, Len(map), audio)
              = Taken(map, k, audio) + Taken(p, Len(p), audio)
  BY <1>0, <1>2, TakenRest
<1>5. /\ v_frames = Taken(map, k, FALSE) + Taken(p, Len(p), FALSE)
      /\ a_frames = Taken(map, k, TRUE) + Taken(p, Len(p), TRUE)
      /\ Taken(map, k, FALSE) \in Nat /\ Taken(p, Len(p), FALSE) \in Nat
      /\ Taken(map, k, TRUE) \in Nat /\ Taken(p, Len(p), TRUE) \in Nat
  BY <1>4 DEF SendInv, Counted
<1>6. ASSUME faults = 0
      PROVE  Bytes(p, Len(p)) = out
  <2>1. out <= send_buffers /\ Bytes(map, Len(map)) = send_buffers
    BY <1>6 DEF SendInv, Socket
  <2>2. Gone \in 0..Bytes(map, Len(map))
    BY <1>0, <1>1, <2>1
  <2>. QED
    BY <1>0, <1>1, <1>2, <2>1, <2>2
<1>7. /\ V \in Nat /\ V = Taken(p, Len(p), FALSE)
      /\ A \in Nat /\ A = Taken(p, Len(p), TRUE)
  <2>. DEFINE tv == Taken(map, k, FALSE)
              ta == Taken(map, k, TRUE)
              rv == Taken(p, Len(p), FALSE)
              ra == Taken(p, Len(p), TRUE)
  <2>1. /\ tv \in Nat /\ ta \in Nat /\ rv \in Nat /\ ra \in Nat
        /\ v_frames = tv + rv /\ a_frames = ta + ra
        /\ V = v_frames - tv /\ A = a_frames - ta
    BY <1>3, <1>5
  <2>. HIDE DEF tv, ta, rv, ra
  <2>2. V \in Nat /\ V = rv /\ A \in Nat /\ A = ra
    BY <2>1
  <2>. QED
    BY <2>2 DEF rv, ra
<1>. QED
  BY <1>2, <1>3, <1>6, <1>7

\* A frame that is not sent, or whose write fails.
LEMMA NotSentSocket ==
    ASSUME SendInv,
           NotSent \/ (WriteFails /\ faults' # 0),
           faults' = 0 => faults = 0 /\ send_ack_flag'
    PROVE  Numbers' /\ Counted' /\ Socket'
PROOF
<1>1. map' = SyncedMap /\ v_frames' = V /\ a_frames' = A /\ send_buffers' = out
  BY DEF NotSent, WriteFails
<1>2. out \in Nat
  BY DEF SendInv, TypeOK
<1>3. out' \in Nat /\ (faults' = 0 => out' = out)
  BY <1>2, SendAssumption DEF NotSent, WriteFails
<1>4. Numbers'
  BY <1>1, <1>2, <1>3, SyncedCounts DEF Numbers, Element
<1>5. Counted'
  BY <1>1, SyncedCounts DEF Counted
<1>6. ASSUME faults' = 0
      PROVE  /\ out' <= send_buffers' /\ Bytes(map', Len(map')) = send_buffers'
             /\ ~send_ack_flag' => map' = <<>>
  <2>1. out' = out /\ send_buffers' = out /\ faults = 0
    BY <1>1, <1>3, <1>6
  <2>2. Bytes(map', Len(map')) = out
    BY <1>1, <2>1, SyncedCounts
  <2>. QED
    BY <1>2, <1>6, <2>1, <2>2
<1>. QED
  BY <1>4, <1>5, <1>6 DEF Socket

\* A frame that is sent: the map grows by the bytes that go into the socket,
\* unless they are counted wrongly, which is a fault.
LEMMA SentSocket ==
    ASSUME SendInv, NEW flag, NEW n \in Nat, NEW ret \in Nat,
           Sent(flag, n, ret),
           faults' = 0 => faults = 0 /\ send_ack_flag' /\ n = ret
    PROVE  Numbers' /\ Counted' /\ Socket'
PROOF
<1>. DEFINE e == [audio |-> flag = "PCM", size |-> ret]
<1>1. /\ map' = Append(SyncedMap, e)
      /\ v_frames' = IF e.audio THEN V ELSE V + 1
      /\ a_frames' = IF e.audio THEN A + 1 ELSE A
      /\ out' = out + n /\ send_buffers' = out + ret
  BY DEF Sent
<1>2. e \in Element /\ e.size = ret
  <2>1. (flag = "PCM") \in BOOLEAN
    OBVIOUS
  <2>. QED
    BY <2>1 DEF Element
<1>. HIDE DEF e
<1>3. e.audio \in BOOLEAN
  BY <1>2 DEF Element
<1>4. out \in Nat /\ out' \in Nat /\ send_buffers' \in Nat
  BY <1>1 DEF SendInv, TypeOK
<1>. DEFINE m == SyncedMap
<1>5. m \in Seq(Element) /\ Len(m) \in Nat
  BY SyncedCounts
<1>6. /\ map' \in Seq(Element) /\ Len(map') = Len(m) + 1
      /\ Bytes(map', Len(map')) = Bytes(m, Len(m)) + ret
  <2>. HIDE DEF m
  <2>1. map' = Append(m, e)
    BY <1>1 DEF m
  <2>. QED
    BY <1>2, <1>5, <2>1, BytesAppend
<1>7. \A audio \in BOOLEAN :
         Taken(map', Len(map'), audio)
           = IF e.audio = audio THEN Taken(m, Len(m), audio) + 1
                                ELSE Taken(m, Len(m), audio)
  <2>. HIDE DEF m
  <2>1. map' = Append(m, e)
    BY <1>1 DEF m
  <2>. QED
    BY <1>2, <1>5, <1>6, <2>1, TakenAppend
<1>8. Numbers'
  <2>0. V \in Nat /\ A \in Nat
    BY SyncedCounts
  <2>1. v_frames' \in Nat /\ a_frames' \in Nat
    <3>1. CASE e.audio
      BY <1>1, <2>0, <3>1
    <3>2. CASE ~e.audio
      BY <1>1, <2>0, <3>2
    <3>. QED
      BY <3>1, <3>2
  <2>. QED
    BY <1>4, <1>6, <2>1 DEF Numbers, Element
<1>9. Counted'
  <2>1. /\ Taken(map', Len(map'), FALSE) = IF e.audio = FALSE THEN V + 1 ELSE V
        /\ Taken(map', Len(map'), TRUE) = IF e.audio = TRUE THEN A + 1 ELSE A
    BY <1>7, SyncedCounts
  <2>. QED
    BY <1>1, <1>3, <2>1 DEF Counted
<1>10. ASSUME faults' = 0
       PROVE  /\ out' <= send_buffers' /\ Bytes(map', Len(map')) = send_buffers'
              /\ ~send_ack_flag' => map' = <<>>
  <2>1. Bytes(m, Len(m)) = out
    BY <1>10, SyncedCounts
  <2>. HIDE DEF m
  <2>. QED
    BY <1>1, <1>4, <1>6, <1>10, <2>1
<1>. QED
  BY <1>8, <1>9, <1>10 DEF Socket

\* The flags and the two counts of what has happened.
FlagsTyped ==
    /\ switches \in 0..MaxSwitches /\ faults \in 0..MaxFaults
    /\ send_ack_flag \in BOOLEAN /\ first_flag \in BOOLEAN
    /\ send_i_flag \in BOOLEAN /\ drop_v_flag \in BOOLEAN
    /\ drop_p_flag \in BOOLEAN /\ drop_a_flag \in BOOLEAN
    /\ switching \in BOOLEAN /\ picture \in {"whole", "owed", "lost"}
    /\ seen \subseteq {"whole", "owed", "lost"}

\* The type invariant in its two halves.
LEMMA TypeHalves == TypeOK <=> Numbers /\ FlagsTyped
PROOF BY DEF TypeOK, Numbers, FlagsTyped

\* What a call adds to the faults keeps within their bound.
LEMMA FaultsBound ==
    ASSUME FlagsTyped, NEW n \in {0, 1}, Faults(n)
    PROVE  /\ faults' \in 0..MaxFaults
           /\ faults' = 0 => faults = 0 /\ send_ack_flag /\ n = 0
PROOF
<1>1. /\ faults \in 0..MaxFaults /\ faults' <= MaxFaults
      /\ faults' = faults + n + (IF send_ack_flag THEN 0 ELSE 1)
  BY DEF FlagsTyped, Faults
<1>2. CASE send_ack_flag
  BY <1>1, <1>2, SendAssumption
<1>3. CASE ~send_ack_flag
  BY <1>1, <1>3, SendAssumption
<1>. QED
  BY <1>2, <1>3

\* A call for a video frame sets its flags to TRUE or FALSE.
LEMMA VideoFlags ==
    ASSUME FlagsTyped, NEW flag \in {"I", "P"}, NEW slow \in BOOLEAN,
           VideoFrame(flag, slow)
    PROVE  FlagsTyped'
PROOF
<1>1. /\ send_ack_flag' = send_ack_flag /\ drop_a_flag' = drop_a_flag
      /\ switching' = switching /\ switches' = switches
      /\ first_flag' \in BOOLEAN
  BY DEF VideoFrame, DropVideo, StayDropped, DropP, SendVideo, BeginVideo, pool
<1>2. \E n \in {0, 1} : Faults(n)
  BY DEF VideoFrame, DropVideo, StayDropped, DropP, SendVideo
<1>3. faults' \in 0..MaxFaults
  BY <1>2, FaultsBound
<1>4. /\ picture' \in {"whole", "owed", "lost"}
      /\ seen' \subseteq {"whole", "owed", "lost"}
  <2>1. CASE LeftOut \/ Unwritten
    BY <2>1 DEF LeftOut, Unwritten, FlagsTyped
  <2>2. CASE Shown(flag)
    BY <2>2 DEF Shown, FlagsTyped
  <2>. QED
    BY <2>1, <2>2 DEF VideoFrame, DropVideo, StayDropped, DropP, SendVideo
<1>5. /\ drop_v_flag' \in BOOLEAN /\ send_i_flag' \in BOOLEAN
      /\ drop_p_flag' \in BOOLEAN
  <2>0. OverThreshold \in BOOLEAN
    <3>1. (V + Resume >= ThDropP) \in BOOLEAN /\ (V >= ThDropP) \in BOOLEAN
      OBVIOUS
    <3>2. CASE drop_p_flag
      BY <3>1, <3>2, Zenon DEF OverThreshold
    <3>3. CASE ~drop_p_flag
      BY <3>1, <3>3, Zenon DEF OverThreshold
    <3>. QED
      BY <3>2, <3>3
  <2>1. CASE DropVideo(flag, slow)
    BY <2>1 DEF DropVideo, FlagsTyped
  <2>2. CASE StayDropped(flag, slow)
    BY <2>2 DEF StayDropped, FlagsTyped
  <2>3. CASE DropP(slow)
    BY <2>0, <2>3 DEF DropP
  <2>4. CASE SendVideo(flag, slow)
    BY <2>4 DEF SendVideo
  <2>. QED
    BY <2>1, <2>2, <2>3, <2>4 DEF VideoFrame
<1>. QED
  BY <1>1, <1>3, <1>4, <1>5 DEF FlagsTyped

\* Every step keeps the types of the flags.
LEMMA FlagsStep ==
    ASSUME FlagsTyped, Next
    PROVE  FlagsTyped'
PROOF
<1>1. CASE SendAck
  BY <1>1 DEF SendAck, LeftOut, FlagsTyped, pool
<1>2. CASE WaitForI
  BY <1>2 DEF WaitForI, LeftOut, FlagsTyped, flags, pool
<1>3. CASE PoolGap
  <2>1. faults' \in 0..MaxFaults
    BY <1>3, SendAssumption DEF PoolGap, FlagsTyped
  <2>. QED
    BY <1>3, <2>1 DEF PoolGap, Missed, FlagsTyped, flags, pool
<1>4. CASE DropAudio
  BY <1>4 DEF DropAudio, FlagsTyped, pool, viewer
<1>5. CASE SendAudio
  <2>1. faults' = faults \/ Faults(1)
    BY <1>5 DEF SendAudio
  <2>2. faults' \in 0..MaxFaults
    BY <2>1, FaultsBound DEF FlagsTyped
  <2>3. drop_a_flag' \in BOOLEAN
    BY <1>5 DEF SendAudio, FlagsTyped
  <2>. QED
    BY <1>5, <2>2, <2>3 DEF SendAudio, FlagsTyped, pool, viewer
<1>6. ASSUME NEW left, Drain(left)
      PROVE  FlagsTyped'
  BY <1>6 DEF Drain, FlagsTyped, flags, pool, viewer
<1>7. CASE SwitchPool
  <2>1. switches' \in 0..MaxSwitches
    BY <1>7, SendAssumption DEF SwitchPool, FlagsTyped
  <2>. QED
    BY <1>7, <2>1 DEF SwitchPool, Missed, FlagsTyped, flags
<1>8. CASE SwitchFirst
  BY <1>8 DEF SwitchFirst, FlagsTyped
<1>9. CASE Resubscribe
  <2>1. switches' \in 0..MaxSwitches
    BY <1>9, SendAssumption DEF Resubscribe, FlagsTyped
  <2>. QED
    BY <1>9, <2>1 DEF Resubscribe, Missed, FlagsTyped, flags
<1>. QED
  BY <1>1, <1>2, <1>3, <1>4, <1>5, <1>6, <1>7, <1>8, <1>9, VideoFlags DEF Next

\* The head is sent into an empty socket, or after a fault.
LEMMA SendAckSocket ==
    ASSUME SendInv, SendAck
    PROVE  Numbers' /\ Counted' /\ Socket'
PROOF
<1>. DEFINE e == [audio |-> FALSE, size |-> out']
<1>1. /\ map' = Append(map, e) /\ send_buffers' = out'
      /\ v_frames' = v_frames + 1 /\ a_frames' = a_frames
      /\ faults' = faults /\ ~send_ack_flag /\ send_ack_flag'
      /\ out' \in out..SockBuf
  BY DEF SendAck
<1>2. map \in Seq(Element) /\ out \in Nat /\ v_frames \in Nat /\ a_frames \in Nat
  BY DEF SendInv, TypeOK, Element
<1>3. out' \in Nat
  BY <1>1, <1>2, SendAssumption
<1>4. e \in Element /\ e.size = out' /\ e.audio = FALSE
  BY <1>3 DEF Element
<1>. HIDE DEF e
<1>5. /\ map' \in Seq(Element) /\ Len(map') = Len(map) + 1
      /\ Bytes(map', Len(map')) = Bytes(map, Len(map)) + out'
  BY <1>1, <1>2, <1>4, BytesAppend
<1>6. \A audio \in BOOLEAN :
         Taken(map', Len(map'), audio)
           = IF e.audio = audio THEN Taken(map, Len(map), audio) + 1
                                ELSE Taken(map, Len(map), audio)
  BY <1>1, <1>2, <1>4, <1>5, TakenAppend
<1>7. /\ Taken(map', Len(map'), FALSE) = v_frames + 1
      /\ Taken(map', Len(map'), TRUE) = a_frames
  BY <1>4, <1>6 DEF SendInv, Counted
<1>8. Counted'
  BY <1>1, <1>7 DEF Counted
<1>9. Numbers'
  BY <1>1, <1>2, <1>3, <1>5 DEF Numbers, Element
<1>10. faults = 0 => Bytes(map, Len(map)) = 0
  <2>1. faults = 0 => map = <<>>
    BY <1>1 DEF SendInv, Socket
  <2>2. map = <<>> => Len(map) = 0
    OBVIOUS
  <2>3. Bytes(map, 0) = 0
    BY <1>2, BytesSum
  <2>. QED
    BY <2>1, <2>2, <2>3
<1>11. Socket'
  <2>1. faults' = 0 => Bytes(map', Len(map')) = send_buffers'
    BY <1>1, <1>3, <1>5, <1>10
  <2>2. out' <= send_buffers'
    BY <1>1, <1>3
  <2>. QED
    BY <1>1, <2>1, <2>2 DEF Socket
<1>. QED
  BY <1>8, <1>9, <1>11

\* A call for a video frame.
LEMMA VideoSocket ==
    ASSUME SendInv, FlagsTyped, NEW flag \in {"I", "P"}, NEW slow \in BOOLEAN,
           VideoFrame(flag, slow)
    PROVE  Numbers' /\ Counted' /\ Socket'
PROOF
<1>1. send_ack_flag' = send_ack_flag
  BY DEF VideoFrame, DropVideo, StayDropped, DropP, SendVideo, BeginVideo
<1>2. CASE NotSent /\ Faults(0)
  <2>1. faults' = 0 => faults = 0 /\ send_ack_flag'
    BY <1>1, <1>2, FaultsBound
  <2>. QED
    BY <1>2, <2>1, NotSentSocket
<1>3. CASE WriteFails /\ Faults(1)
  <2>1. faults' # 0
    BY <1>3, FaultsBound
  <2>. QED
    BY <1>3, <2>1, NotSentSocket
<1>4. CASE Sent(flag, 1, 1) /\ Faults(1)
  <2>1. faults' # 0
    BY <1>4, FaultsBound
  <2>. QED
    BY <1>4, <2>1, SentSocket
<1>5. ASSUME NEW ret \in 1..Size(flag), Sent(flag, Size(flag), ret),
             Faults(IF ret < Size(flag) THEN 1 ELSE 0)
      PROVE  Numbers' /\ Counted' /\ Socket'
  <2>1. Size(flag) \in Nat /\ ret \in Nat /\ ret <= Size(flag)
    BY SendAssumption DEF Size
  <2>2. CASE ret < Size(flag)
    <3>1. Faults(1)
      BY <1>5, <2>2
    <3>2. faults' # 0
      BY <3>1, FaultsBound
    <3>. QED
      BY <1>5, <2>1, <3>2, SentSocket
  <2>3. CASE ~(ret < Size(flag))
    <3>1. Faults(0) /\ Size(flag) = ret
      BY <1>5, <2>1, <2>3
    <3>2. faults' = 0 => faults = 0 /\ send_ack_flag'
      BY <1>1, <3>1, FaultsBound
    <3>. QED
      BY <1>5, <2>1, <3>1, <3>2, SentSocket
  <2>. QED
    BY <2>2, <2>3
<1>. QED
  BY <1>2, <1>3, <1>4, <1>5 DEF VideoFrame, DropVideo, StayDropped, DropP, SendVideo

\* A call for an audio frame.
LEMMA AudioSocket ==
    ASSUME SendInv, FlagsTyped, DropAudio \/ SendAudio
    PROVE  Numbers' /\ Counted' /\ Socket'
PROOF
<1>1. send_ack_flag' = send_ack_flag /\ send_ack_flag
  BY DEF DropAudio, SendAudio
<1>2. CASE NotSent /\ faults' = faults
  BY <1>1, <1>2, NotSentSocket
<1>3. CASE WriteFails /\ Faults(1)
  <2>1. faults' # 0
    BY <1>3, FaultsBound
  <2>. QED
    BY <1>3, <2>1, NotSentSocket
<1>4. CASE Sent("PCM", 1, 1) /\ faults' = faults
  BY <1>1, <1>4, SentSocket
<1>. QED
  BY <1>2, <1>3, <1>4 DEF DropAudio, SendAudio

\* Every step keeps the invariant.
LEMMA SendStep == SendInv /\ [Next]_vars => SendInv'
PROOF
<1>. SUFFICES ASSUME SendInv, [Next]_vars PROVE SendInv'
  OBVIOUS
<1>0. Numbers /\ FlagsTyped
  BY TypeHalves DEF SendInv
<1>1. CASE UNCHANGED vars
  BY <1>1 DEF vars, flags, viewer, pool, SendInv, TypeOK, Counted, Socket
<1>2. CASE Next
  <2>1. FlagsTyped'
    BY <1>0, <1>2, FlagsStep
  <2>2. Numbers' /\ Counted' /\ Socket'
    <3>1. ASSUME UNCHANGED <<out, send_buffers, map, v_frames, a_frames>>,
                 send_ack_flag' = send_ack_flag, faults' = 0 => faults = 0
          PROVE  Numbers' /\ Counted' /\ Socket'
      BY <1>0, <3>1 DEF Numbers, Counted, Socket, SendInv
    <3>2. CASE \/ WaitForI \/ PoolGap \/ SwitchPool \/ SwitchFirst
             \/ Resubscribe
      <4>1. faults \in Nat
        BY <1>0 DEF FlagsTyped
      <4>2. /\ UNCHANGED <<out, send_buffers, map, v_frames, a_frames>>
            /\ send_ack_flag' = send_ack_flag
            /\ faults' = faults \/ faults' = faults + 1
        BY <3>2 DEF WaitForI, PoolGap, SwitchPool, SwitchFirst, Resubscribe, flags
      <4>3. faults' = 0 => faults = 0
        BY <4>1, <4>2
      <4>. QED
        BY <3>1, <4>2, <4>3
    <3>3. ASSUME NEW left \in 0..out, Drain(left)
          PROVE  Numbers' /\ Counted' /\ Socket'
      <4>1. /\ UNCHANGED <<send_buffers, map, v_frames, a_frames>>
            /\ send_ack_flag' = send_ack_flag /\ faults' = faults
            /\ out' = left /\ left < out
        BY <3>3 DEF Drain, flags
      <4>2. out \in Nat /\ send_buffers \in Nat /\ left \in Nat
        BY <1>0 DEF Numbers
      <4>3. Numbers' /\ Counted'
        BY <1>0, <4>1, <4>2 DEF Numbers, Counted, SendInv
      <4>4. out <= send_buffers => out' <= send_buffers'
        BY <4>1, <4>2
      <4>. QED
        BY <4>1, <4>3, <4>4 DEF Socket, SendInv
    <3>. QED
      BY <1>0, <1>2, <3>2, <3>3, SendAckSocket, VideoSocket, AudioSocket DEF Next
  <2>3. TypeOK'
    <3>1. (Numbers /\ FlagsTyped => TypeOK)'
      BY TypeHalves, PTL
    <3>. QED
      BY <2>1, <2>2, <3>1
  <2>. QED
    BY <2>2, <2>3 DEF SendInv
<1>. QED
  BY <1>1, <1>2

\* The invariant holds of every behaviour.
LEMMA SendInvariant == Spec => []SendInv
PROOF
<1>1. Init => SendInv
  <2>. SUFFICES ASSUME Init PROVE SendInv
    OBVIOUS
  <2>1. map = <<>> /\ map \in Seq(Element) /\ Len(map) = 0
    BY DEF Init
  <2>2. TypeOK
    <3>1. Numbers
      BY <2>1 DEF Init, Numbers, Element
    <3>2. FlagsTyped
      <4>1. switches \in 0..MaxSwitches /\ faults \in 0..MaxFaults
        BY SendAssumption DEF Init
      <4>. QED
        BY <4>1, Zenon DEF Init, FlagsTyped
    <3>. QED
      BY <3>1, <3>2, TypeHalves
  <2>3. Counted
    <3>1. \A audio : Taken(map, 0, audio) = 0
      <4>1. \A audio : {i \in 1..0 : map[i].audio = audio} = {}
        OBVIOUS
      <4>2. Cardinality({}) = 0
        BY FS_EmptySet
      <4>. QED
        BY <4>1, <4>2 DEF Taken
    <3>. QED
      BY <2>1, <3>1 DEF Init, Counted
  <2>4. Bytes(map, Len(map)) = 0
    BY <2>1, BytesSum
  <2>5. Socket
    BY <2>1, <2>4 DEF Init, Socket
  <2>. QED
    BY <2>2, <2>3, <2>5 DEF SendInv
<1>. QED
  BY <1>1, SendStep, PTL DEF Spec

\* Every variable keeps its type, whatever is sent and drained: no counter of
\* the map goes below zero and no element is left with a negative length,
\* though del_ele_from_map subtracts from both.
THEOREM SendTypeCorrect == Spec => []TypeOK
PROOF
<1>1. SendInv => TypeOK
  BY DEF SendInv
<1>. QED
  BY <1>1, SendInvariant, PTL

\* As long as no write fails or is cut up, the map stands for exactly the
\* bytes last seen in the socket, however add_ele2map and del_ele_from_map
\* alternate and wherever in a frame the socket has drained to.
THEOREM MapIsTheSocket == Spec => []MapMatchesSocket
PROOF
<1>1. SendInv => MapMatchesSocket
  BY DEF SendInv, Socket, MapMatchesSocket
<1>. QED
  BY <1>1, SendInvariant, PTL
=============================================================================
