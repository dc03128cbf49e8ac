------------------------------- MODULE AvSend -------------------------------
(***************************************************************************)
(* What rtimage sends to one subscriber, and what it drops when the        *)
(* network is slow: send_media_frame2usr of src/rtimage/avserver.c, called *)
(* under the user's u_mutex by the video and the audio thread of an        *)
(* encoder, while the kernel drains the socket, play_back.c switches the   *)
(* user between the live and the playback pool, and the user's own thread  *)
(* may subscribe it to another channel.                                    *)
(*                                                                         *)
(* The map is the server's picture of the socket: one element per frame it *)
(* has written, with the bytes of it still unsent.  It is a ring of        *)
(* MAX_MAP_BUF_FRAMES elements, empty when head = tail; here it is the     *)
(* sequence of its elements.  Bytes are counted in units.                  *)
(***************************************************************************)
EXTENDS Integers, Sequences, FiniteSets

CONSTANTS
    MapFrames,    \* MAX_MAP_BUF_FRAMES: 600
    ReserveVideo, \* elements a video frame must leave free: 10
    ReserveAudio, \* elements an audio frame must leave free: 2
    MaxAudio,     \* audio frames the map may hold: 40
    Resume,       \* the 10 of the conditions that end the dropping
    ThDropP,      \* th_drop_p: P frames are dropped from here; 30, settable
    ThDropV,      \* th_drop_v: th_drop_p + 10
    SizeI,        \* the size of an I frame; P and audio frames have size 1
    SlowRoom,     \* bytes a socket on a slow network may hold
    SockBuf,      \* bytes any socket may hold
    MaxSwitches,  \* times a behaviour may switch the pool or the channel
    MaxFaults     \* faults a behaviour may see

ASSUME SendAssumption ==
    /\ MapFrames \in Nat \ {0} /\ ReserveVideo \in Nat /\ ReserveVideo > 2
    /\ ReserveAudio \in Nat /\ ReserveAudio > 1
    /\ MapFrames > 2
    /\ MaxAudio \in Nat /\ Resume \in Nat /\ ThDropP \in Nat /\ ThDropV \in Nat
    /\ SizeI \in Nat \ {0} /\ SlowRoom \in Nat /\ SockBuf \in Nat
    /\ MaxSwitches \in Nat /\ MaxFaults \in Nat

Size(flag) == IF flag = "I" THEN SizeI ELSE 1

VARIABLES
    out,           \* bytes in the socket, get_fd_out_buffer_num
    send_buffers,  \* sock_attr.send_buffers: the bytes last seen there
    map,           \* send_info.map: elements [audio, size], oldest first
    v_frames, a_frames,
    send_ack_flag, first_flag, send_i_flag,
    drop_v_flag, drop_p_flag, drop_a_flag,
    switching,     \* play_back.c has changed the pool, not yet first_flag
    switches,
    picture,       \* history: what the viewer has of the stream it gets now.
                   \* "whole": an I frame and every frame since;
                   \* "owed": the server has itself passed over a frame, or
                   \* marked the viewer, so that it owes it an I frame;
                   \* "lost": a frame is missing for any other reason
    seen,          \* history: the pictures to which a P frame was sent
    faults         \* history: writes that failed or were cut up, frames
                   \* that the pool lost

flags == <<send_ack_flag, first_flag, send_i_flag, drop_v_flag, drop_p_flag,
           drop_a_flag>>
viewer == <<picture, seen>>
pool == <<switching, switches>>
vars == <<out, send_buffers, map, v_frames, a_frames, flags, pool, viewer, faults>>

-----------------------------------------------------------------------------
(* The map *)

\* the bytes of the first k elements
Bytes(m, k) ==
    LET sum[i \in 0..Len(m)] == IF i = 0 THEN 0 ELSE sum[i - 1] + m[i].size
    IN  sum[k]

\* how many elements del_ele_from_map takes away for the given number of
\* bytes: all that fit in them, from the oldest on, none when no byte has gone
Deleted(m, bytes) ==
    IF bytes <= 0 THEN 0
    ELSE Cardinality({k \in 1..Len(m) : Bytes(m, k) <= bytes})

\* ... and what it leaves: the first element that stays loses the rest
Shortened(m, bytes) ==
    LET k == Deleted(m, bytes)
        rest == bytes - Bytes(m, k)
        tail == SubSeq(m, k + 1, Len(m))
    IN  IF tail = <<>> \/ bytes <= 0 THEN tail
        ELSE [tail EXCEPT ![1] = [audio |-> @.audio, size |-> @.size - rest]]

\* Mutant: both counters go down, whatever the element's kind.
TakenBoth(m, k, audio) == k

\* how many of them are audio, or video, frames
Taken(m, k, audio) == Cardinality({i \in 1..k : m[i].audio = audio})

-----------------------------------------------------------------------------
(* A call first brings the map up to date with the socket *)

Gone == send_buffers - out
SyncedMap == Shortened(map, Gone)
V == v_frames - Taken(map, Deleted(map, Gone), FALSE)
A == a_frames - Taken(map, Deleted(map, Gone), TRUE)

\* the frame is not sent
NotSent ==
    /\ map' = SyncedMap /\ v_frames' = V /\ a_frames' = A
    /\ send_buffers' = out
    /\ UNCHANGED out

\* Mutant: the bytes last seen in the socket are not brought up to date.
SentNotCounted(flag, n, ret) ==
    /\ map' = Append(SyncedMap, [audio |-> flag = "PCM", size |-> ret])
    /\ v_frames' = IF flag = "PCM" THEN V ELSE V + 1
    /\ a_frames' = IF flag = "PCM" THEN A + 1 ELSE A
    /\ out + n <= SockBuf
    /\ out' = out + n
    /\ send_buffers' = out

\* write_frame_data2trans and add_ele2map.  n bytes go into the socket and ret
\* is what fd_write_buf returns: the length of its last write.
Sent(flag, n, ret) ==
    /\ map' = Append(SyncedMap, [audio |-> flag = "PCM", size |-> ret])
    /\ v_frames' = IF flag = "PCM" THEN V ELSE V + 1
    /\ a_frames' = IF flag = "PCM" THEN A + 1 ELSE A
    /\ out + n <= SockBuf
    /\ out' = out + n
    /\ send_buffers' = out + ret

\* The write fails after none or some of the frame: the peer has gone, or the
\* socket, which does not block, is full.  Nothing is entered.
WriteFails ==
    /\ map' = SyncedMap /\ v_frames' = V /\ a_frames' = A
    /\ send_buffers' = out
    /\ out' \in out..SockBuf /\ out' <= out + 1

\* what the viewer makes of a video frame that is sent, of one that the server
\* leaves out, of one it failed to write, and of one that never came to it
Shown(flag) ==
    /\ picture' = IF flag = "I" THEN "whole" ELSE picture
    /\ seen' = IF flag = "P" THEN seen \union {picture} ELSE seen
LeftOut   == picture' = "owed" /\ UNCHANGED seen
Unwritten == picture' = "lost" /\ UNCHANGED seen
Missed == /\ picture' = IF picture = "whole" THEN "lost" ELSE picture
          /\ UNCHANGED seen

-----------------------------------------------------------------------------
(* The video thread: send_media_frame2usr for a video frame *)

\* the first call sends the AVI head and no frame
SendAck ==
    /\ ~send_ack_flag
    /\ out' \in out..SockBuf /\ out' <= out + 1
    /\ send_buffers' = out'
    /\ map' = Append(map, [audio |-> FALSE, size |-> out'])
    /\ v_frames' = v_frames + 1
    /\ send_ack_flag' = TRUE /\ first_flag' = TRUE
    /\ LeftOut
    /\ UNCHANGED <<a_frames, send_i_flag, drop_v_flag, drop_p_flag,
                   drop_a_flag, pool, faults>>

\* a P frame is passed over until an I frame of the pool has come
WaitForI ==
    /\ send_ack_flag /\ first_flag
    /\ LeftOut
    /\ UNCHANGED <<out, send_buffers, map, v_frames, a_frames, flags,
                   pool, faults>>

\* Mutant: only the video frames are counted against the map's size.
NoRoomVideoOnly(slow) == \/ V + ReserveVideo > MapFrames
                         \/ slow /\ out > SlowRoom

\* no room in the map, or in the socket while the network is slow
NoRoom(slow) == \/ V + A + ReserveVideo > MapFrames
                \/ slow /\ out > SlowRoom

\* Mutant: the bound of the hysteresis is on the wrong side.
StillDroppedSwapped == /\ drop_v_flag
                       /\ (drop_p_flag /\ V >= Resume) \/ V + ThDropV >= Resume

\* video stays dropped: the map has not emptied enough yet
StillDropped == /\ drop_v_flag
                /\ (drop_p_flag /\ V >= Resume) \/ V + Resume >= ThDropV

\* Mutant: the two bounds of the hysteresis are swapped.
OverThresholdSwapped == IF drop_p_flag THEN V + ThDropP >= Resume ELSE V >= ThDropP

\* P frames are over the threshold, with hysteresis
OverThreshold == IF drop_p_flag THEN V + Resume >= ThDropP ELSE V >= ThDropP

\* n faults in this call, and one more if the head could not be sent
Faults(n) == /\ faults' = faults + n + (IF send_ack_flag THEN 0 ELSE 1)
             /\ faults' <= MaxFaults

\* The frame passes first_flag.  When the head could not be sent the call
\* goes on with the frame, and first_flag is not looked at.
BeginVideo(flag) ==
    /\ send_ack_flag /\ first_flag => flag = "I"
    /\ first_flag' = (first_flag /\ ~send_ack_flag)
    /\ UNCHANGED <<send_ack_flag, drop_a_flag, pool>>

\* all video is dropped from here on
DropVideo(flag, slow) ==
    /\ BeginVideo(flag) /\ NoRoom(slow)
    /\ drop_v_flag' = TRUE /\ send_i_flag' = FALSE
    /\ NotSent /\ LeftOut /\ Faults(0)
    /\ UNCHANGED drop_p_flag

StayDropped(flag, slow) ==
    /\ BeginVideo(flag) /\ ~NoRoom(slow) /\ StillDropped
    /\ drop_v_flag' = ~(drop_p_flag /\ V < Resume)
    /\ send_i_flag' = (send_i_flag /\ ~(drop_p_flag /\ V >= Resume))
    /\ NotSent /\ LeftOut /\ Faults(0)
    /\ UNCHANGED drop_p_flag

\* Mutant: send_i_flag is not reset when a P frame is dropped.
DropPKeepsI(slow) ==
    /\ BeginVideo("P") /\ ~NoRoom(slow) /\ ~StillDropped
    /\ OverThreshold \/ ~send_i_flag
    /\ drop_p_flag' = OverThreshold
    /\ drop_v_flag' = FALSE
    /\ NotSent /\ LeftOut /\ Faults(0)
    /\ UNCHANGED send_i_flag

\* a P frame is dropped, over the threshold or for want of its I frame
DropP(slow) ==
    /\ BeginVideo("P") /\ ~NoRoom(slow) /\ ~StillDropped
    /\ OverThreshold \/ ~send_i_flag
    /\ drop_p_flag' = OverThreshold
    /\ drop_v_flag' = FALSE /\ send_i_flag' = FALSE
    /\ NotSent /\ LeftOut /\ Faults(0)

\* The frame is written to the socket.  The write may fail, and a frame that
\* took several writes is entered with the bytes of the last; if its head
\* took several, the rest of the frame is not sent at all.
SendVideo(flag, slow) ==
    /\ BeginVideo(flag) /\ ~NoRoom(slow) /\ ~StillDropped
    /\ flag = "P" => ~OverThreshold /\ send_i_flag
    /\ drop_p_flag' = (drop_p_flag /\ flag = "I")
    /\ drop_v_flag' = FALSE /\ send_i_flag' = TRUE
    /\ \/ \E ret \in 1..Size(flag) :
             /\ Sent(flag, Size(flag), ret) /\ Shown(flag)
             /\ Faults(IF ret < Size(flag) THEN 1 ELSE 0)
       \/ Sent(flag, 1, 1) /\ Unwritten /\ Faults(1)
       \/ WriteFails /\ Unwritten /\ Faults(1)

VideoFrame(flag, slow) == \/ DropVideo(flag, slow)
                          \/ StayDropped(flag, slow)
                          \/ flag = "P" /\ DropP(slow)
                          \/ SendVideo(flag, slow)

\* venc_server_thread: the pool has run ahead, this frame is thrown away
PoolGap ==
    /\ faults < MaxFaults /\ faults' = faults + 1
    /\ Missed
    /\ UNCHANGED <<out, send_buffers, map, v_frames, a_frames, flags,
                   pool>>

-----------------------------------------------------------------------------
(* The audio thread: send_media_frame2usr for an audio frame *)

DropAudio ==
    /\ send_ack_flag
    /\ \/ A > MaxAudio
       \/ V + A + ReserveAudio > MapFrames
       \/ out > SlowRoom          \* the socket has no room for the frame
    /\ drop_a_flag' = TRUE
    /\ NotSent
    /\ UNCHANGED <<send_ack_flag, first_flag, send_i_flag, drop_v_flag,
                   drop_p_flag, pool, viewer, faults>>

\* audio is sent again once few of its frames are left in the map
SendAudio ==
    /\ send_ack_flag
    /\ A <= MaxAudio /\ V + A + ReserveAudio <= MapFrames
    /\ \/ /\ drop_a_flag /\ A >= Resume
          /\ NotSent
          /\ UNCHANGED <<drop_a_flag, faults>>
       \/ /\ drop_a_flag => A < Resume
          /\ drop_a_flag' = FALSE
          /\ \/ Sent("PCM", 1, 1) /\ UNCHANGED faults
             \/ WriteFails /\ Faults(1)
    /\ UNCHANGED <<send_ack_flag, first_flag, send_i_flag, drop_v_flag,
                   drop_p_flag, pool, viewer>>

-----------------------------------------------------------------------------
(* The kernel, and play_back.c *)

Drain(left) ==
    /\ left < out
    /\ out' = left
    /\ UNCHANGED <<send_buffers, map, v_frames, a_frames, flags, pool, viewer,
                   faults>>

\* set_playback_stat: from here on the frames come from the other pool
SwitchPool ==
    /\ ~switching /\ switches < MaxSwitches
    /\ switching' = TRUE /\ switches' = switches + 1
    /\ Missed
    /\ UNCHANGED <<out, send_buffers, map, v_frames, a_frames, flags, faults>>

\* ... and then the first user found on the channel is made to wait for an I
\* frame, this one or another
SwitchFirst ==
    /\ switching /\ switching' = FALSE
    /\ \E marked \in BOOLEAN :
          /\ first_flag' = (first_flag \/ marked)
          /\ picture' = IF marked /\ send_ack_flag THEN "owed" ELSE picture
    /\ UNCHANGED <<out, send_buffers, map, v_frames, a_frames, send_ack_flag,
                   send_i_flag, drop_v_flag, drop_p_flag, drop_a_flag,
                   switches, seen, faults>>

\* proc_video_subscrib_cmd of a user that is being served: it gets the frames of
\* another encoder from here on, and no flag is reset
Resubscribe ==
    /\ switches < MaxSwitches /\ switches' = switches + 1
    /\ Missed
    /\ UNCHANGED <<out, send_buffers, map, v_frames, a_frames, flags,
                   switching, faults>>

-----------------------------------------------------------------------------
Init ==
    /\ out = 0 /\ send_buffers = 0
    /\ map = <<>> /\ v_frames = 0 /\ a_frames = 0
    /\ send_ack_flag = FALSE /\ first_flag = FALSE /\ send_i_flag = FALSE
    /\ drop_v_flag = FALSE /\ drop_p_flag = FALSE /\ drop_a_flag = FALSE
    /\ switching = FALSE /\ switches = 0 /\ picture = "owed" /\ seen = {}
    /\ faults = 0

Next == \/ SendAck
        \/ WaitForI
        \/ \E flag \in {"I", "P"}, slow \in BOOLEAN : VideoFrame(flag, slow)
        \/ PoolGap
        \/ DropAudio
        \/ SendAudio
        \/ \E left \in 0..out : Drain(left)
        \/ SwitchPool
        \/ SwitchFirst
        \/ Resubscribe

Spec == Init /\ [][Next]_vars

\* The network recovers: again and again it takes everything the socket
\* holds, and both an I frame and a P frame then find the socket drained.
Fairness ==
    /\ WF_vars(SendAck) /\ WF_vars(Drain(0)) /\ WF_vars(SwitchFirst)
    /\ SF_vars(out = 0 /\ VideoFrame("I", FALSE))
    /\ SF_vars(out = 0 /\ VideoFrame("P", FALSE))

FairSpec == Spec /\ Fairness

-----------------------------------------------------------------------------
(* Properties *)

\* Every variable has its type.
TypeOK ==
    /\ out \in Nat /\ send_buffers \in Nat
    /\ map \in Seq([audio : BOOLEAN, size : Nat])
    /\ v_frames \in Nat /\ a_frames \in Nat /\ switches \in 0..MaxSwitches
    /\ faults \in 0..MaxFaults
    /\ \A b \in {send_ack_flag, first_flag, send_i_flag, drop_v_flag,
                  drop_p_flag, drop_a_flag, switching} : b \in BOOLEAN
    /\ picture \in {"whole", "owed", "lost"}
    /\ seen \subseteq {"whole", "owed", "lost"}

\* The two counters count the elements of the ring, and the ring, which two
\* threads fill with different reserves, never fills up: head = tail would
\* then read as empty (add_ele2map calls showbug).
MapNotFull == /\ v_frames + a_frames = Len(map)
              /\ Len(map) < MapFrames

\* The map accounts for every byte last seen in the socket, so its counters
\* fall when the socket drains and the thresholds mean what they say.
MapMatchesSocket == faults = 0 => Bytes(map, Len(map)) = send_buffers

\* Once the server has left out a video frame, by whichever of its rules, or
\* has marked a user after a switch of the pool, it sends that user no P frame
\* before an I frame: through six flags set by two threads with different
\* thresholds, heads sent late, failed writes, switches and re-subscriptions.
PAfterI == "owed" \notin seen

\* The map holds bytes that were never in the socket.  Only a head that is
\* sent after frames does this: its element stands for all the socket holds.
Overcounted == Bytes(map, Len(map)) > send_buffers

\* Dropping ends: once the network recovers P frames flow again, even after a
\* write that failed or was cut short, unless the map was overcounted.
VideoResumes ==
    (drop_v_flag \/ drop_p_flag)
       ~> ((~drop_v_flag /\ ~drop_p_flag) \/ Overcounted)

\* No flag is reset when a write fails, the pool runs ahead or the pool or the
\* channel is changed under a user, and P frames then go out without their I
\* frame.  It does not last: once the network recovers the viewer has a whole
\* picture again and again, with the same exception.
PictureRecovers == []<>(picture = "whole" \/ Overcounted)
=============================================================================
