# Verification of the IP1004 video server

The repository is the firmware of an embedded video server (IP1004/GTVS, hi3520D):
a handful of Linux programs that exchange media frames through shared-memory pools,
talk to each other over message queues and local sockets, and register with a remote
gateway. This directory holds TLA+ models of its core protocols, the TLC
configurations that check them on small instances, and TLAPS proofs for every size.

## 1. Inventory

| part | state | operations | who uses it |
|---|---|---|---|
| **gtipcs media pool** (`libsrc/gtipcs`) | shared segment: element ring, block ring, user slots; one lock semaphore (SEM_UNDO); one semaphore per user | create, attach, add frame, read (two calls), move, re-activate, free, delete by pid | every producer and consumer of video and audio |
| **media_api_m** (`libsrc/media_api_m`) | per-connection handle | connect with `pre_sec`, read, reconnect | rtimage, recording, playback |
| **gateway connection** (`src/ipmain/gate_connect.c`) | list of six gates (mutex, descriptor, address), message queue, id of the receiving thread, registration flags | queue a packet, find or make a connection, receive, tear down, change an address | every thread of ipmain that reports to the gateway |
| **ipmain commands** (`netcmdproc.c`, `mainnetproc.c`) | parameters, device state | one function per network command | gateway, operators |
| **rtimage** (`net_avstream.c`, `avserver.c`, `play_back.c`) | slots of users with their counters; per user a map of the frames in its socket and six flags | accept, subscribe, unsubscribe, connect to a viewer of the SDK, send or drop a frame, switch to playback | network clients, the gateway |
| **recording** (`mp_hdmodule_m`, `mp_diskman_m`, `libsrc/fileindex`) | files of a partition, a sqlite index with a row per file, the file being written, rounds the disk was full | create, close, lock and unlock by time, remove the oldest, repair after a restart | each other, ipmain, recordplay |
| **recordplay** | playback sessions | commands over local multicast | viewers |
| **watch_process** | lock file per program, thread counts | start, restart | supervises all programs |
| **modcom, modsocket** | SysV queue, UDP multicast socket | non-blocking send, receive, filters | all programs |
| **onviflib** | RTSP/ONVIF client, queues, buffer stacks | | encbox |

Everything else under `libsrc/`, `tools/` and `include/` is vendored (openssl, sqlite3, zlib,
libupnp, live555, boa, ppp, ssh, parsers) or drives hardware; it is not modelled.

How the parts interact: a producer process creates a pool and adds frames; up to eight
readers in other processes attach to it and are woken by their own semaphore. The producer
never waits for a reader: it frees the oldest frames and throws out readers whose semaphore
has grown too high. ipmain's threads never write to the gateway themselves; they queue
packets for `gate_connect_thread`, which connects on demand and creates
`recv_gate_ack_thread` for the connection. rtimage is a reader of the pools: one thread per encoder
reads frames and writes each to every subscriber's socket, one thread per slot talks to its
client. The recorder writes files and enters them in an index which the disk manager, another
process, selects from, deletes from and renames in; only sqlite's locks and the
order of statements keep the two apart.

What is hard: processes that die or restart with the pool's lock taken; cursors and
descriptors read under a lock and used after it; signals that are thrown away; two rings
that wrap at different moments; threads that keep a descriptor number across a close; pauses
and time-outs that overlap with new connections; index and disk changed by separate statements of
two processes that may die in between; a picture of a socket kept up to date by differences; a session
that several threads may end. `PROJECT.json` lists the hazards at their lines.

## 2. Modules

| module | what it is |
|---|---|
| `MshmPool` | the pool: producer, readers, slots, lock, semaphores, crashes; properties; the inductive invariant `RingInv` |
| `MCPool` | values for `MshmPool`'s constants that a cfg cannot write, symmetry |
| `FrameLog` | what a pool promises: a log of frames with consecutive numbers |
| `MshmPoolLog` | the refinement mapping from the pool to the log |
| `MshmPoolRing` | lemmas about positions, tiling and wrap-around of the two rings, and preservation of `RingInv` |
| `MshmPoolProofs` | typing lemmas and the pool's theorems about types and rings |
| `MshmPoolLockProofs` | the pool's lock, exclusion, whole delivery, wake-ups |
| `MshmPoolLogProofs` | newest frames kept, the refinement, the backlog, the order of frames |
| `GateConnect` | the gateway connection: sending thread, receiving thread, address changes, descriptor numbers; properties |
| `GateConnectProofs` | theorems about the gateway connection |
| `RecordLibrary` | a partition of recordings and its index: recorder, repair, disk manager, lock commands, crashes; properties |
| `RecordLibraryProofs` | its theorems |
| `AvSession` | rtimage's slots, counters, accepting threads and senders; properties |
| `AvSessionProofs` | its theorems |
| `AvSessionSdk` | `AvSession` with the sessions of the net SDK |
| `AvSend` | what one subscriber is sent: the send map, the drop rules, the pool switch; properties |
| `AvSendProofs` | its theorems |

### MshmPool and the code

State: `num fblocks fbstart count head tail eles` are the fields of `SHPOOL_HEAD`; `data[b]` is
the number of the frame whose bytes block `b` holds (0: none); `users`, `sem`, `lastUsr` the user
slots, their semaphores and `last_usr_no`; `lock` and `adj` the segment's lock semaphore and every
process's SEM_UNDO adjustment; `ppc`, `need` the producer's place in its call and the blocks it
needs; `rd[r]` a reader's place, its `userno` and the locals of the call it is in. `got` and `torn`
record what a reader was given.

A call that holds the lock throughout and whose intermediate states nobody can see without the
lock is one step (`UnderLock`). Calls that other processes, or a crash, can cut in two are split:

* `MShmPoolAddResource` = `AddBegin`, `FreeHead`*, `FreeBlocks`*, `AddReserve`, `InsertData2Ele`,
  `AddPublish`, `SemAddAll`; the producer may die between any two.
* `MShmPoolGetPacket` = `GetPacketBegin` (cursor read without the lock), `GetPacketTest`,
  `GetPacketSemReq`, `GetPacketSemZero`, `GetPacketReset`, `GetPacketClear`, `GetPacketLock`,
  `SaveEle2Buf`.
* `MShmPoolGetResource` = `GetResourceSemReq`, `GetResourceLock`, `SaveEle2Buf`.
* `MShmPoolCreate` = `MShmCoreCreate`, `MShmPoolCreateLock`, `MShmPoolCreate`.

Abstractions. A block holds the number of its frame in place of 512 bytes. Frame numbers do not
wrap (the code's do after 2^32 frames). `SemAddAll` is one step: it runs under the lock, and a
reader that passes `SemReq` between the increment and the read of the value is in the same state
as one that passed just before. Initialisation of the head's fields is one step under the lock.
The walk of `MShmPoolMvNewPlace`, which the code does without the lock, is one step (it reads the
head and the tail once). Attach and slot allocation of `MShmPoolReq` are one step. `maxsem` is a
constant. `eles[-1]` reads as zeros: it lies in the unused end of `pinfo[512]`.

Bounds: `MaxFrames` (frames added) and `MaxStarts` (starts of the producer) cut off unbounded
behaviour, and are why the cfgs do not check deadlock: a model at its bound stops.
`MaxEle`, `TBlocks`, `MaxUsers`, `MaxSem`, `ReInitWin` (the 5 of mshmpool.c:490) are sizes of the
code's own.

### GateConnect and the code

State: `gfd`, `addr`, `mutex` are the list of gates; `fdt` is the process's descriptor table, with
`to[n]` the gate that socket `n` was made for and `dropped` the sockets the peer has closed; `queue`
is the SysV queue (targets only: -1 any gate, -2 alarm server first, a number an open
connection); `snd` and `ack` are the two threads; `regist` and `linked` the flags in `devstat.c`.
`ack.pc = "none"` means `recv_gate_ack_id = -1`.

Descriptor numbers are handed out lowest first and reused, by gate sockets and by other threads'
files, so that a number kept across a close can name something else; this is what the list,
the receiving thread and the queue are exposed to. Numbers start at 1 in the model; in the code the
first three are taken. `connect_timeout` holds the gate's mutex for up to six seconds: beginning
and end of a connect are separate steps. `PostPkt` is every thread that reports; `Ops` selects
which of the outside events an instance has. `socket()` fails when the bound `MaxConns` or the table
is exhausted, a path the code has. `MaxQueue` is the queue's limit: the send does not wait, a packet
without room is lost. `gate->period` is written and never read, and is left out.

### RecordLibrary and the code

State: `disk` and `rows` are the names on the partition and in the index. A name is the recording, its
kind (`.ING`, `.AVI`, `_OLD.AVI`, repaired) and its lock sign; the index holds nothing that is not in
the name (`hdutil_filename2finfo`), so a row is a name. `work` is the index as the transaction of a
repair sees it. `pc`, `todo`, `old`, `new` are the place, the selected names and the arguments of the
`fileindex_rename` of the three actors: "rec" (mp_hdmodule_m), "man" (the space loop of
mp_diskman_m) and "cmd" (its command thread). `raced`, `torn` and `failed` are history: two operations on the
index have overlapped; a repair was undone after it had renamed files; which call failed on which recording.

Every sqlite statement and every system call on a file is a step of its own, because the other process
runs in between: `fileindex_rename` = `RenameAccess` (or `RenameMissing`), `RenameAdd`,
`RenameFile`, `RenameDel`; `fileindex_del_oldest` = `DelSelect`, `DelRemove`* and `DelSelectEnd`, `DelRows`; the
repair = `RepairSelect`, per file `RepairMissing`, `RepairRenameFails` or `RepairRename` and then `RepairFix`,
`RepairFixFails` or `RepairKeep`, then `RepairCommit` or `RepairBusy`. Each insert, rename and removal may fail (at most
`MaxFaults` of them), and the code goes on as it does: `fileindex_rename` overwrites the result of `rename` and deletes the old row
all the same, `del_file_callback` leaves the file and the second statement deletes its row, nobody looks at what
`fileindex_add` returns, and only `convert_ing_file` has a branch for a rename that fails. When `remove` fails `fix_disk`
may end the process; that is `CrashDiskman`. Of sqlite 3.5.5 the model takes what the module's head says; nobody
else writes while a select with a callback is open, and what its callback writes is committed or rolled
back with it. Abstractions: one partition and one channel; all files are of one size; a
row that exists is not entered twice; deleting a row does not fail (when it does, a row is left whose file
has gone, as after a crash at that place); repairing the file system, unmounting and formatting are left
out. `lock_recent_file` locks the closed files of some last recordings, however many `pre_rec` seconds reach back.

### AvSession and the code

State: `used fd serv_stat addr` are the fields of `av_usr_t`, per slot; `accept_fd` and `pc` the local
variable and the place of the slot's thread; `l_mutex` who accepts; `lan_usrs`, `wan_usrs` the
counters; `snd` the slot a sender has chosen without the lock. A descriptor is the connection it
stands for, so that "the right descriptor" can be said.

Steps under `s_mutex` or `u_mutex` are one step. `Listen` merges the test of `used` with
`pthread_mutex_trylock` (a thread that loses the race tries again a second later). The second's sleep
before the test is nothing to rely on: a slot may change hands while a sender that chose it for
its last client has not yet written. What is then written to the new client is the AVI head from the video
thread, as its `send_ack_flag` is down, and after that perhaps one frame from the audio thread; `stray` and `again` record
it, without telling head and frame apart. `AvSessionSdk` adds
`rtnet_av_connect2gate` and `rtnet_av_close_connect` with its three callers; its encoder is in
order and its stream id is sent.

### AvSend and the code

State: `map` is the ring `send_info.map` as a sequence of elements [audio, size], `v_frames` and
`a_frames` its counters, `out` the bytes in the socket, `send_buffers` the bytes last seen there, and the
six flags of `send_info` under their names. `picture` watches the viewer: "whole", it has an I frame of its stream and
everything since; "owed", the server has left out a frame itself or has marked the user, and so knows that it owes an I
frame; "lost", a frame is missing for another reason: its write failed, the pool ran ahead, the pool or the
channel was changed. `seen` collects the pictures to which a P frame was sent. `faults`
counts writes that failed or were cut up and frames that the pool lost. The model begins with the subscription. Each call of
`send_media_frame2usr`, which holds `u_mutex`, is one step: `SendAck`, `WaitForI`, `DropVideo`,
`StayDropped`, `DropP`, `SendVideo` for video, `DropAudio`, `SendAudio` for audio. `Drain` is the
kernel, `SwitchPool` and `SwitchFirst` the two halves of play_back.c's switch, of which the second marks the first user
it finds on the channel, this one or another. `Resubscribe` is a second subscription to another channel: it changes
`venc_no` and resets no flag. Sizes are units:
P and audio frames 1, I frames `SizeI`. Whether the network counts as slow (`net_pkts_sta`) is an
input; resizing the socket's buffer shows only in `SlowRoom`.

## 3. Runs

Each passing run has at least one mutant per property: a plausible bug in the code which the property
must catch.

| run | instance | what it shows |
|---|---|---|
| `pool_ring` | 1 reader, 3 elements, 5 blocks, frames of 1-3 blocks, 4 frames, crashes | `LiveDataIntact`, `WindowIsNewestFrames`, `DeliveredIntact`, `MutualExclusion`, `NoLostWakeup`: both rings wrap, frames too large for the pool are refused, producer and reader die at every step |
| `pool_refines` | 2 starts of the producer | the pool implements `FrameLog`; `RingInv` |
| `pool_backlog` | one reader of GetResource, never thrown out | `SemCountsBacklog`, `FramesInOrder` |
| `pool_users` | 2 interchangeable readers, 2 slots, every slot operation | `LockNotLost` |
| `pool_live` | 2 readers, strong fairness of their steps | `ReadReturns` |
| `gate_all` | 3 gates, 2 descriptors, address changes, drops, alarms | `TypeOK`, `OneConnection` |
| `gate_links` | 2 gates, 2 descriptors, weak fairness, no address changes | `GateFdOwned`, `NoFdLeak`, `ReconnectWaits`, `LostLinkReleased` |
| `lib_all` | 2 recordings, room for 2, batches of 1, 1 lock command, 1 crash, 1 failing call, weak fairness | `IngIndexed`, `NoStaleIng`, `OneFilePerRecording`, `OnlyUnlockedRemoved` in every interleaving, the first two but for the recording whose own call failed; `FilesIndexed` and `SpaceRecovered` while no two operations have overlapped |
| `session_all` | 1 user allowed, 2 slots, 3 clients, 1 of them of the class nobody is let in from, 1 accept error, weak fairness | `UsersCounted`, `FdOwned`, `StrayOnce`; `ClientAnswered` as long as `accept` does not fail |
| `av_send` | map of 5, thresholds 2 and 3, I frames of size 2, 1 fault, 1 switch of the pool or the channel | `MapNotFull`, `PAfterI`, `MapMatchesSocket`, `VideoResumes`, `PictureRecovers` |

Two runs find violated what the code asserts or says of itself; the findings in `PROJECT.json` quote
the lines. `gate_v_receiver`: a gateway connection made while the last receiving thread ends is
never received on again. `session_v_count`: a sender whose write fails and the gate's stop command
end the same SDK session, and the counter that `showbug()` guards falls below zero; in its instance the SDK's
viewer is the only client, so that no other cause mixes in.

Disagreements met while modelling that have no run of their own. In the pool: a producer that restarts sets
the lock of the existing segment to 1 and so forces it open under a reader (mshm.c:149); `MShmPoolGetPacket`
takes a young pool whose frames have all been read for a re-initialised one and reads the newest frame
again (mshmpool.c:488-491); with the tail at 0 the read calls set the cursor to -1 (mshmpool.c:584, against
:27); `eblock` is -1 for a frame that ends at
the pool's last block (mshmpool.c:651, against mshmpool.h:48); creating a pool resets one user's
semaphore, not all (mshmpool.c:803-804); `SemAddAll` frees the slot of a reader that still uses
it (mshmpool.c:142), so that two readers can share a slot; moving back further than the pool goes
can leave the cursor outside of it (mshmpool.c:896, against venc_read.c:148); `MShmPoolSetMaxNum`
always fails (mshmpool.c:687); a frame larger than half of the pool empties it and is not added
(mshmpool.c:319 asks for twice its blocks), and a reader with unread frames can then take the pool for a re-initialised
one and be given a frame numbered 0; the alarm server is tried before the gates and not after them
(gate_connect.c:418, against :443); "nobody else modifies gate->fd" (gate_connect.c:870) is not so, because
of `set_gate_ip`, after which a connection can also be made within the twenty seconds of pause
(:1050); `gate->period` is never counted down (gate_connect.h:11). In rtimage: the I frame's
`send_i_flag` is set before the write whose failure is ignored, so P frames can follow an I frame that was
never sent (avserver.c:857, against :900); nor is `send_i_flag` reset when the stream under a user changes, so P frames of the new
stream go out without their I frame after a switch of the pool to all users but the first of the channel
(play_back.c:94-104), to that one before it is marked, and after a subscription to another channel (net_avstream.c:429-432, flags are
reset at :486-498 only for a user that is not being served), all against the same :900; video is never dropped as a whole on reaching `th_drop_v`
(against serv_info.h:61); a head sent late makes the map count bytes twice (avserver.c:680); a failed
`accept` loses its slot (net_avstream.c:812); after `accept` the slot's `used` is cleared (net_avstream.c:175, called at :818), so that
`get_free_usr` (:119) gives the slot of a client that is being served to an SDK session, whose end or whose client's
then counts down a user of the other class (a second way to the negative counter of `session_v_count`). In recording: a rename that fails is
reported as done (fileindex.c:575, the result is that of the next statement, against "成功返回0,否则返回负值" for its caller
at :535) and its file is left without a row; the counter of full rounds is not reset when
space was freed (diskmanager.c:771, against :29); lock commands work for channel 0 only
(diskmanager.c:292, against :258); fileindex_del_oldest removes the files of one query and the rows of a
second, so that an unlucky command in between leaves a file without a row (fileindex.c:510-517, against :477);
a repair that is rolled back leaves renamed files without rows. The models do what the code does in each case.

Why the bounds are enough: the pool's rings need `MaxEle` + 1 frames and frames of different
sizes to wrap at different moments, which 3 elements, 5 blocks and 4 frames give; the proofs remove
these bounds for the safety of the rings. The gateway runs need one more connection than
descriptors can be held at once, so that a number is reused. `lib_all` needs a full partition, more files than
a batch, a lock command, a crash and a failing call of each kind. `session_all` needs more clients than users
are allowed and a slot that is used again. `av_send` needs a map that both threads can fill
to their reserves, both thresholds within it, and an I frame larger than one write. What is
proved holds for all sizes.

`MutualExclusion` and `DeliveredIntact` are checked with one start of the producer: with
a second one they are false. `GateFdOwned`, `NoFdLeak`, `ReconnectWaits` and `LostLinkReleased`
are checked without `set_gate_ip`, for the same reason.

Fairness. `pool_live`: strong fairness of every reader's own steps once a call has begun, because a reader that waits
for the lock waits in a blocking `semop`, which the kernel serves in turn although the lock is taken again and again; weak fairness
of the producer's steps inside a call; dying, calling and adding a frame are not fair. `gate_links`:
weak fairness of each of the two threads; both are endless loops, and every wait in them is bounded
(one second in `select`, six in `connect_timeout`, twenty asleep). Peers and other threads are
not fair. `lib_all`: weak fairness of each process inside an operation and of the disk manager's loop,
which begins a round every ten seconds; recording, commands and crashes are not fair. `session_all`: weak
fairness of every slot's thread and of a sender that has chosen a slot; clients owe nothing.
`av_send`: the hypothesis is a network that recovers. Weak fairness of the head, of the kernel draining the
socket and of the end of a switch; strong fairness of an I frame and of a P frame finding the
socket drained, because an encoder produces both for ever and draining recurs.

## 4. Proofs

Every invariant that a passing run checks, the two action properties `OnlyUnlockedRemoved` and `FramesInOrder`
and the refinement of `FrameLog` are theorems. Where a theorem has a hypothesis on the
instance, it names a behaviour of the code that breaks the property or the argument; the reason is given with it.

`MshmPoolProofs`, for all constants that satisfy `PoolAssumption` (sizes are positive, the readers are
finitely many and the producer is none of them):

* `TypeCorrect`: `Spec => []TypeOK`.
* `RingConsistent`: `Spec => []RingInv`.
* `PoolDataIntact`: `Spec => []LiveDataIntact`.

`LiveDataIntact` (each frame in the pool still has its bytes) is not inductive: it follows for an insertion
only if the blocks taken are free, and that only if the elements' blocks and the free blocks tile
the ring. The inductive invariant is `IInv == TypeOK /\ RingInv /\ LiveDataIntact`, where `RingInv` says,
while the producer is inside or between insertions: `WindowInv` (tail is count elements after head),
`TilingInv` (in offsets from the oldest block, the elements follow each other without gap and end
where the free blocks begin), `ContentInv` (frame numbers are consecutive), `AddInv` (what the place
in the insertion adds). `RingInv` says nothing of a dead or starting producer: a re-creation
establishes it anew, whatever it finds. `MshmPoolRing` has the arithmetic of positions: stated once for
the rings, without `%` wherever an IF says the same.

`MshmPoolLockProofs`, under `PoolAssumption`:

* `LockSurvives`: `Spec => []LockNotLost`, whoever dies and however often the producer starts. `LockInv`: a
  process inside the lock has an adjustment of 0 or 1, one outside -1 or 0, and the semaphore's
  value and the adjustments to come add up to at least one. A restart's SETVAL clears the adjustments of
  processes that are inside (mshm.c:149), which is why neither is an equation.
* `LockExcludes`: `MutualExclusion` for `MaxStarts <= 1`. A second start opens the lock under its
  holder. `ExclusionInv`: the adjustments name the holder, and the lock is free exactly when there is none.
* `FramesDeliveredWhole`: `DeliveredIntact` for `MaxStarts <= 1`. Needs `IInv` (the element's blocks hold its
  frame), `ExclusionInv` (nobody changes them during the copy), `FreedEmpty` (an element that has been freed has
  length 0, so a stale cursor copies nothing) and `CopyInv` (what the reader has read of the element is
  still so).
* `WakeupsNotLost`: `NoLostWakeup` for one reader and without `MShmPoolReActiveUsr`. Two readers
  can share the slot of one that was thrown out, and the one takes the other's signal; re-activation moves
  the cursor without the semaphore. TLC finds a behaviour for each. `CursorKnown` is the part that is missing from the property: in the loop of
  `MShmPoolGetPacket` the element under test is the slot's cursor.

`MshmPoolLogProofs`, under `PoolAssumption`:

* `NewestFramesKept`: `Spec => []WindowIsNewestFrames`. `LogInv` adds the numbers (`NumInv`: the
  live elements are numbered up to the newest without gap) and the converse of the tiling
  (`CoverInv`: every block that is not free lies in a live element).
* `PoolRefinesLog`: `Spec => ImplementsFrameLog`, with restarts and crashes. While the producer runs, the mapped
  log is the `count` numbers up to the newest whose bytes are in; freeing takes its oldest, the copy
  of the bytes (`InsertData2Ele`) appends the next, a re-creation empties it, and every other
  step leaves the mapped state alone.
* `BacklogIsCounted`: `SemCountsBacklog` for a `PlainReader`: one reader, alone on its slot; one start; the
  calls `MShmPoolGetResource` and free, and crashes; `MaxSem + 2 < MaxEle` (the code has 100 and
  5000), so that a reader is thrown out before the elements lap it; no frame longer than the
  reader's buffer, since one that is too long is counted as read and stays before the cursor (mshmpool.c:592).
  The invariant (`BacklogInv`) has what is counted plus what is under way on both sides, a
  signal not yet given and a frame taken off the semaphore and not yet copied, equal to the
  distance from the cursor to the tail modulo `MaxEle`.
* `FramesComeInOrder`: `Spec => FramesInOrder` for a `PlainReader` and `HalfPoolFrames` (no frame larger than half of the pool).
  Without the latter TLC finds the counterexample described in section 3. `TrailInv`: elements behind the
  tail keep their numbers when they are freed, so that a reader who is behind the window still finds a later
  number; `NonEmptyInv`: a pool that has had a frame holds one between two calls; `OrderInv`: the frame at
  the cursor is newer than the last one read.

`GateConnectProofs`, for all constants that satisfy `GateAssumption`:

* `GateTypeCorrect`: `Spec => []TypeOK`; the only existence argument, that the kernel can name a
  lowest free descriptor, rests on the well-foundedness of `<` on `Nat`.
* `NeverTwoConnections`: `Spec => []OneConnection`, with `ScanSound`: the gates that
  `find_active_gate` has passed stay without a descriptor, because only the scanning thread enters one.
* `GateFdIsOwn`, `NoSocketLeaks`, `PauseIsKept`: `GateFdOwned`, `NoFdLeak` and `ReconnectWaits`, for
  instances without `set_gate_ip`, which closes a descriptor under the two threads that use it.
  They hold together or not at all: `LinkInv` says that no connection has two descriptors
  (`ConnsDistinct`), that a socket not yet in the list is the one being connected, under its gate's mutex
  (`ConnectingOwned`), that the receiving thread's number is its gate's (`AckOwned`) and that every
  socket is in the list or being connected (`SocketsKnown`). So a number that is closed and given out
  again is in nobody's hands.

`RecordLibraryProofs`, for all constants that satisfy `LibraryAssumption`:

* `LibraryTypeCorrect`, `RecordingsRecoverable` (`IngIndexed`), `RepairIsComplete` (`NoStaleIng`),
  `OneNameOnDisk` (`OneFilePerRecording`), `LockedRecordingsKept` (`OnlyUnlockedRemoved`, an action property). They hold with
  any number of failing calls; the first and second except the recordings whose own insert or rename failed, and no other.
* `EveryFileIndexed` (`FilesIndexed`: as long as no two operations on the index have overlapped and no repair was undone).

The inductive invariant `LibInv` has five parts: `TypeOK`; `Arguments` (a rename in
progress keeps its recording and never makes an `.ING` name); `Selected` (only a repair
handles unfinished files, and what the disk manager removes is unlocked); `Recordings` (every name on the
disk belongs to a recording that has begun, and each recording has one); `Written` (the file
being written, its row, and what a repair has still to do: an `.ING` file found by its
select is in its list and in its transaction until it is renamed). `OneFilePerRecording` needs
`Arguments`: a rename takes its old name off the disk in the step that adds the new one of the same
recording. `EveryFileIndexed` needs `IndexInv` besides: one operation at a time (`Alone`); what an operation
has done so far (`Halfway`: the new name's row is there before the rename and the old one's goes after it, and the
second query of `fileindex_del_oldest` finds the rows of the files removed after the first);
every file in the index that counts, the transaction's during a repair (`Indexed`). A failing call puts its recording into
`failed`, for good, and all these parts speak of the other recordings only.

`AvSessionProofs`, for all constants that satisfy `SessionAssumption`:

* `SessionTypeCorrect`, `UserCountsExact`, `SlotFdOwned`, `StrayFrameOnce`.

`SessInv` adds to `TypeOK` and `UsersCounted`: `Connected` (what each place of a thread says of its
connection, and that no connection has two threads), `SlotOwned` (the slot's address and descriptor
are the thread's), `SenderSafe` (a sender that has sent to a client which had not subscribed chooses its slot again only
once it has: a new client comes with an empty `serv_stat` and has been sent nothing).

`AvSendProofs`, for all constants that satisfy `SendAssumption`:

* `MapNeverFull` and `PFrameAfterItsIFrame`. `MapInv` says that a place is left for the head while it has not
  been sent; `PictureInv` that while the viewer is owed an I frame `send_i_flag` is down or `first_flag` up, and that
  `send_i_flag` is down while all video is dropped. It holds whatever fails or is switched.
* `SendTypeCorrect` (`TypeOK`) and `MapIsTheSocket` (`MapMatchesSocket`). `SendInv` adds to the types that each
  counter counts the elements of its kind (`Counted`) and that, without faults, the map's sizes sum up to
  the bytes last seen in the socket, which are no fewer than the bytes in it (`Socket`).

The sum of the sizes is a recursive function, so the last two need induction. The library's induction theorems take an
operator as parameter, which the provers cannot instantiate. `LeastNumber` (a non-empty set of naturals has
a least element, from the well-foundedness of `<`) and `UpTo` (a set that has 0, and with each number the next, has them
all) speak of sets instead. With them `SumExists` shows that a function with the recursive equation
exists, `BytesSum` that the definition's CHOOSE therefore satisfies it, and `BytesGrow`, `SameSizes` and
`BytesAppend` what updating the map does to the sum.

Only model-checked: the liveness properties `ReadReturns`, `LostLinkReleased`, `SpaceRecovered`,
`VideoResumes`, `PictureRecovers` and `ClientAnswered`. Liveness under fairness, and ENABLED, are outside of the
prover's reach. `AvSessionSdk` has no theorem: what its run states is violated, as is `ConnectionHasReceiver`.

### Hazards beyond the list

`PROJECT.json` lists the forty hazards that matter most. The others met in the code, none of them behind a
property, by line:

* `mshmpool.c`: stale semaphores after a restart (804), throwing out of a reader that never sleeps (135),
  re-activation without a reset (1237), the unlocked move (941), a frame larger than the caller's buffer (392),
  the guess of a re-initialisation (488), cursor -1 (584), the walk back (896).
* `gate_connect.c`: a descriptor used after the unlock (391), the thread id tested as signed (747), the lost
  allocation (307), the unused countdown (316).
* `fileindex.c`: the list of names never closed (663). `diskmanager.c`: the flag shared by all partitions (777), the sum that is never reset
  (716), channels other than 0 (292), the counter (771). `hdmod.c`: the recording thread that ends when
  space is short (3891), the mutex unlocked without a lock (2415).
* `avserver.c`: the pool gap that does not wait for an I frame (1181), the late head (680), the unsigned
  comparison (929). `rtimg_para2.c`: thresholds below the margin never resume (164).
* `net_avstream.c`: `used` cleared after accept (175), what a failed SDK connection keeps (643, 678), the
  mutex initialised again (157), two virtual devices overrun the slots (55). `tcprt_usr_info.h`: idle
  clients are never timed out (88).
* `watch_process.c`: probing holds the lock of the program it probes (244), slow starts (324).

## 5. Not modelled

* `watch_process`: whether a slow program is restarted in a loop, or an exiting one found running, turns on
  seconds of wall time; an untimed model would let either happen.
* When to record (schedules, triggers, pre-recording) and the recording threads of several channels; playback
  sessions of recordplay; the downward audio of `net_aplay.c`.
* media_api_m: its calls are the readers' actions of `MshmPool`; its own handle is a single thread's.
* ipmain's command dispatcher, parameters, logging: a function per command without protocol state.
* modsocket: a UDP multicast without answers; its users are modelled where a message matters
  (`GateStops`, `LockCommand`).
* onviflib, drivers, codecs, web pages, formatters and parsers.
* Vendored software. The repository has about 1.37 million lines, nearly all of them sqlite3, openssl,
  libiconv, ppp, libupnp, live555, boa and the like, some in several versions, and board SDK headers. The
  firmware's own programs and libraries are a few per cent of it; the map covers the protocols
  among them, so its share of all lines stays far below one per cent whatever is added.

## 6. Plan

1. Done: the pool with its refinement; the gateway connection; the recordings and their index; rtimage's
   sessions and sending; every invariant that a run checks, as a theorem.
2. Next: weaker hypotheses where the code allows them, above all several readers with a slot each in
   `WakeupsNotLost` and `BacklogIsCounted`.
3. Compositions worth stating: a streaming reader (`AvSend` over `FrameLog`) whose pool runs ahead of it;
   the recording threads over several partitions with the disk manager's loop.
