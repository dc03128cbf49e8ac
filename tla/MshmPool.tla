------------------------------ MODULE MshmPool ------------------------------
(***************************************************************************)
(* The shared-memory media pool of libsrc/gtipcs (mshmpool.c, mshm.c and   *)
(* include/msem.h): one producer process appends encoded frames to a ring  *)
(* of elements whose bytes live in a ring of 512-byte blocks, and up to    *)
(* SHPOOL_MAX_USERS reader processes follow it, each with a slot that      *)
(* holds its cursor (curele) and a semaphore that counts unread frames.    *)
(*                                                                         *)
(* A frame's bytes are abstracted to its sequence number: data[b] is the   *)
(* sequence number of the frame whose bytes block b holds.  Lengths are    *)
(* counted in blocks.  What a process does under MShmLock is cut into the  *)
(* steps that a crash, or a reader that looks without the lock, can tell   *)
(* apart; the lock is the SysV semaphore with its SEM_UNDO adjustments.    *)
(***************************************************************************)
EXTENDS Integers, FiniteSets

CONSTANTS
  Readers,     \* the reader processes
  Producer,    \* the process that created the pool
  MaxUsers,    \* SHPOOL_MAX_USERS
  MaxEle,      \* SHPOOL_MAX_ELE
  TBlocks,     \* ph->tblocks
  MaxSem,      \* ph->maxsem, unread frames after which a reader is kicked
  ReInitWin,   \* the literal 5 of the "pool was re-initialised" test
  BufBlocks,   \* blocks that fit into a reader's buffer
  Needs,       \* block counts of the frames the producer writes
  Places,      \* distances a reader moves its cursor by (place, not 0)
  Ops,         \* the calls and crashes of this instance
  MaxFrames,   \* bound: frames added after one creation of the pool
  MaxStarts    \* bound: starts of the producer

ASSUME PoolAssumption ==
  /\ IsFiniteSet(Readers) /\ Producer \notin Readers
  /\ MaxUsers \in Nat \ {0}
  /\ MaxEle \in Nat /\ MaxEle > 1
  /\ TBlocks \in Nat \ {0}
  /\ MaxSem \in Nat /\ ReInitWin \in Nat /\ BufBlocks \in Nat
  /\ Needs \subseteq Nat \ {0}
  /\ Places \subseteq Int \ {0}
  /\ MaxFrames \in Nat /\ MaxStarts \in Nat
  /\ Ops \subseteq {"GetResource", "GetPacket", "MvUsrPlace", "MvNewPlace",
                    "ReActive", "ReqFree", "DelUsr", "ReaderCrash",
                    "ProducerCrash"}

VARIABLES
  num, fblocks, fbstart, count, head, tail,  \* SHPOOL_HEAD, the two rings
  eles, data,                                \* the elements and their blocks
  lastUsr, users, sem,                       \* reader slots and semaphores
  ready,       \* boffset # 0: the pool has been initialised once
  lock, adj,   \* value of the lock semaphore, SEM_UNDO of each process
  ppc, need,   \* where the producer is, blocks of the frame it adds
  rd,          \* the readers: MSHM_POOL handles and their locals
  starts       \* starts of the producer so far

ring  == <<num, fblocks, fbstart, count, head, tail, eles, data>>
slots == <<lastUsr, users, sem>>
lk    == <<lock, adj>>
prod  == <<ppc, need>>
vars  == <<ring, slots, lk, prod, ready, rd, starts>>

Procs    == Readers \cup {Producer}
EleNos   == 0 .. MaxEle - 1
BlockNos == 0 .. TBlocks - 1
UserNos  == 0 .. MaxUsers - 1

----------------------------------------------------------------------------
(* Positions in the element ring.                                          *)

NewerEle(cur) == IF cur + 1 >= MaxEle THEN 0 ELSE cur + 1

Abs(n) == IF n < 0 THEN -n ELSE n

(* The code's distance from the oldest element, wrapped part included. *)
DistHead(i) == IF i >= head THEN i - head ELSE MaxEle - i + head

MShmDistanceEle(a, b) == IF a = b THEN 0 ELSE DistHead(b) - DistHead(a)

(* "The producer has re-initialised the pool", as both read calls guess it. *)
LooksReInitialised(cur) ==
  /\ head = 0
  /\ Abs(MShmDistanceEle(head, tail)) < ReInitWin
  /\ cur >= tail

(* Walk place elements from cur, stopping when a step lands on stop; the   *)
(* test comes after the step, so a walk that starts on stop runs past it.  *)
WalkOlder(cur, n) ==
  LET from == IF cur < 0 THEN 0 ELSE cur
      d    == 1 + ((from - head - 1) % MaxEle)
  IN  (from - (IF d < n THEN d ELSE n)) % MaxEle

WalkNewer(cur, n) ==
  LET d == 1 + ((tail - cur - 1) % MaxEle)
  IN  (cur + (IF d < n THEN d ELSE n)) % MaxEle

Moved(cur, place) ==
  IF place < 0 THEN WalkOlder(cur, -place) ELSE WalkNewer(cur, place)

----------------------------------------------------------------------------
(* The lock: semaphore 0 of the segment, taken and given with SEM_UNDO.    *)

MShmLock(p) ==
  /\ lock > 0
  /\ lock' = lock - 1
  /\ adj' = [adj EXCEPT ![p] = @ + 1]

MShmUnLock(p) ==
  /\ lock' = lock + 1
  /\ adj' = [adj EXCEPT ![p] = @ - 1]

(* A call that takes and gives the lock in one model step. *)
UnderLock == lock > 0 /\ UNCHANGED lk

(* Mutant of ExitUndo: the lock taken without SEM_UNDO. *)
ExitKeepsLock(p) == lock' = lock /\ adj' = [adj EXCEPT ![p] = 0]

(* The kernel applies the adjustments of a process that exits. *)
ExitUndo(p) ==
  /\ lock' = IF lock + adj[p] < 0 THEN 0 ELSE lock + adj[p]
  /\ adj' = [adj EXCEPT ![p] = 0]

----------------------------------------------------------------------------
NoEle == [num |-> 0, len |-> 0, blocks |-> 0, bblock |-> 0, eblock |-> 0]

(* eles[-1] lies in the unused, zeroed end of pinfo[512]. *)
EleAt(i) == IF i = -1 THEN NoEle ELSE eles[i]

(* Mutants of Emptied: the whole element zeroed; its length left behind. *)
Zeroed(e) == NoEle
LengthKept(e) ==
  [num |-> e.num, len |-> e.len, blocks |-> 0, bblock |-> e.bblock, eblock |-> e.eblock]

(* A freed element keeps its number and its place. *)
Emptied(e) ==
  [num |-> e.num, len |-> 0, blocks |-> 0, bblock |-> e.bblock, eblock |-> e.eblock]

Holding(e, len) ==
  [num |-> e.num, len |-> len, blocks |-> e.blocks, bblock |-> e.bblock, eblock |-> e.eblock]

BlocksOf(bblock, len) == {(bblock + k) % TBlocks : k \in 0 .. len - 1}

(* cur, bblock and len are the locals of a read call (0 outside of one);   *)
(* got, the number of the last frame it returned, and torn, whether the    *)
(* bytes of some frame were not that frame's, record what was returned.    *)
Between(pc, u, got, torn) ==
  [pc |-> pc, userno |-> u, cur |-> 0, bblock |-> 0, len |-> 0,
   got |-> got, torn |-> torn]

DetachedReader    == Between("out", 0, 0, FALSE)
AttachedReader(u) == Between("idle", u, 0, FALSE)

Init ==
  /\ num = 0 /\ fblocks = 0 /\ fbstart = 0 /\ count = 0 /\ head = 0 /\ tail = 0
  /\ eles = [i \in EleNos |-> NoEle]
  /\ data = [b \in BlockNos |-> 0]
  /\ lastUsr = 0
  /\ users = [u \in UserNos |-> [valid |-> FALSE, curele |-> 0, upid |-> Producer]]
  /\ sem = [u \in UserNos |-> 0]
  /\ ready = FALSE
  /\ lock = 0
  /\ adj = [p \in Procs |-> 0]
  /\ ppc = "down" /\ need = 0
  /\ rd = [r \in Readers |-> DetachedReader]
  /\ starts = 0

----------------------------------------------------------------------------
(* The producer.                                                           *)

(* The segment exists from the first start on; SETVAL on its semaphore     *)
(* forces the lock open and drops every process's adjustment.              *)
MShmCoreCreate ==
  /\ ppc = "down"
  /\ starts < MaxStarts
  /\ starts' = starts + 1
  /\ lock' = 1
  /\ adj' = [p \in Procs |-> 0]
  /\ ppc' = "create"
  /\ UNCHANGED <<ring, slots, ready, need, rd>>

MShmPoolCreateLock ==
  /\ ppc = "create"
  /\ MShmLock(Producer)
  /\ ppc' = "init"
  /\ UNCHANGED <<ring, slots, ready, need, rd, starts>>

(* users[] keeps what the previous run left, and of the semaphores only    *)
(* number 0 is set to zero.                                                *)
MShmPoolCreate ==
  /\ ppc = "init"
  /\ num' = 0 /\ fbstart' = 0 /\ count' = 0 /\ head' = 0 /\ tail' = 0
  /\ fblocks' = TBlocks
  /\ lastUsr' = -1
  /\ sem' = [sem EXCEPT ![0] = 0]
  /\ eles' = [i \in EleNos |-> NoEle]
  /\ data' = [b \in BlockNos |-> 0]
  /\ ready' = TRUE
  /\ MShmUnLock(Producer)
  /\ ppc' = "idle"
  /\ UNCHANGED <<users, need, rd, starts>>

(* MShmPoolAddResource up to the test of MShmPoolReqBlocks. *)
AddBegin(n) ==
  /\ ppc = "idle"
  /\ num < MaxFrames
  /\ MShmLock(Producer)
  /\ need' = n
  /\ ppc' = IF fblocks > n THEN "reserve" ELSE "free"
  /\ UNCHANGED <<ring, slots, ready, rd, starts>>

(* Mutant of FreeHead: the element is freed and still counted. *)
FreeHeadKeepsCount ==
  /\ fblocks' = fblocks + eles[head].blocks
  /\ eles' = [eles EXCEPT ![head] = Emptied(@)]
  /\ head' = NewerEle(head)
  /\ UNCHANGED count

(* Give the oldest element's blocks back. *)
FreeHead ==
  /\ fblocks' = fblocks + eles[head].blocks
  /\ count' = count - 1
  /\ eles' = [eles EXCEPT ![head] = Emptied(@)]
  /\ head' = NewerEle(head)

(* Mutant of FreeBlocks: the loop does not stop on an empty pool. *)
FreeBlocksPastEmpty ==
  /\ ppc = "free"
  /\ fblocks < 2 * need
  /\ FreeHead
  /\ UNCHANGED <<num, fbstart, tail, data, slots, lk, prod, ready, rd, starts>>

(* One round of the loop in FreeBlocks(need*2). *)
FreeBlocks ==
  /\ ppc = "free"
  /\ fblocks < 2 * need
  /\ count > 0
  /\ FreeHead
  /\ UNCHANGED <<num, fbstart, tail, data, slots, lk, prod, ready, rd, starts>>

FreeBlocksDone ==
  /\ ppc = "free"
  /\ fblocks >= 2 * need
  /\ ppc' = "reserve"
  /\ UNCHANGED <<ring, slots, lk, need, ready, rd, starts>>

(* -ENOMEM: everything has been freed and the frame is not added. *)
AddNoMem ==
  /\ ppc = "free"
  /\ fblocks < 2 * need
  /\ count = 0
  /\ MShmUnLock(Producer)
  /\ ppc' = "idle"
  /\ UNCHANGED <<ring, slots, need, ready, rd, starts>>

(* Mutant of AddReserve: the free blocks begin one block early. *)
AddReserveShort ==
  /\ ppc = "reserve"
  /\ fbstart' = (fbstart + need - 1) % TBlocks
  /\ num' = num + 1
  /\ eles' = [eles EXCEPT ![tail] =
                [num |-> num + 1, len |-> @.len, blocks |-> need, bblock |-> fbstart,
                 eblock |-> (fbstart + need - 1) % TBlocks]]
  /\ ppc' = "fill"
  /\ UNCHANGED <<fblocks, count, head, tail, data, slots, lk, need, ready, rd, starts>>

(* Mutant of AddReserve: the element gets its number before the increment. *)
AddReserveOldNum ==
  /\ ppc = "reserve"
  /\ fbstart' = (fbstart + need) % TBlocks
  /\ num' = num + 1
  /\ eles' = [eles EXCEPT ![tail] =
                [num |-> num, len |-> @.len, blocks |-> need, bblock |-> fbstart,
                 eblock |-> (fbstart + need - 1) % TBlocks]]
  /\ ppc' = "fill"
  /\ UNCHANGED <<fblocks, count, head, tail, data, slots, lk, need, ready, rd, starts>>

(* MShmPoolReqBlocks takes the blocks, the tail element is described. *)
AddReserve ==
  /\ ppc = "reserve"
  /\ fbstart' = (fbstart + need) % TBlocks
  /\ num' = num + 1
  /\ eles' = [eles EXCEPT ![tail] =
                [num |-> num + 1, len |-> @.len, blocks |-> need,
                 bblock |-> fbstart,
                 eblock |-> IF fbstart + need >= TBlocks
                            THEN fbstart + need - 1 - TBlocks
                            ELSE fbstart + need - 1]]
  /\ ppc' = "fill"
  /\ UNCHANGED <<fblocks, count, head, tail, data, slots, lk, need, ready, rd, starts>>

(* InsertData2Ele: the bytes go to the blocks from bblock on, the rest     *)
(* beyond the last block to the blocks from 0 on.                          *)
InsertData2Ele ==
  /\ ppc = "fill"
  /\ LET e == eles[tail]
     IN  /\ data' = [b \in BlockNos |->
                       IF b \in BlocksOf(e.bblock, need) THEN e.num ELSE data[b]]
         /\ eles' = [eles EXCEPT ![tail] = Holding(e, need)]
         /\ count' = count + 1
         /\ fblocks' = fblocks - e.blocks
  /\ ppc' = "publish"
  /\ UNCHANGED <<num, fbstart, head, tail, slots, lk, need, ready, rd, starts>>

(* The tail moves on; a full element ring drops its oldest element. *)
AddPublish ==
  /\ ppc = "publish"
  /\ tail' = NewerEle(tail)
  /\ IF NewerEle(tail) = head
     THEN FreeHead
     ELSE UNCHANGED <<fblocks, count, eles, head>>
  /\ ppc' = "signal"
  /\ UNCHANGED <<num, fbstart, data, slots, lk, need, ready, rd, starts>>

(* Mutant of SemAddAll: the loop ends one slot early. *)
SemAddAllButLast ==
  /\ ppc = "signal"
  /\ sem' = [u \in UserNos |-> IF users[u].valid /\ u < MaxUsers - 1
                               THEN sem[u] + 1 ELSE sem[u]]
  /\ MShmUnLock(Producer)
  /\ ppc' = "idle"
  /\ UNCHANGED <<ring, lastUsr, users, need, ready, rd, starts>>

(* One more unread frame for every valid user; who has more than maxsem is *)
(* taken for dead and loses its slot.                                      *)
SemAddAll ==
  /\ ppc = "signal"
  /\ sem' = [u \in UserNos |-> IF users[u].valid THEN sem[u] + 1 ELSE sem[u]]
  /\ users' = [u \in UserNos |->
                 [users[u] EXCEPT !.valid = @ /\ sem[u] + 1 <= MaxSem]]
  /\ MShmUnLock(Producer)
  /\ ppc' = "idle"
  /\ UNCHANGED <<ring, lastUsr, need, ready, rd, starts>>

(* The producer dies anywhere; nothing in the segment is rolled back. *)
ProducerCrash ==
  /\ "ProducerCrash" \in Ops
  /\ ppc # "down"
  /\ ppc' = "down"
  /\ ExitUndo(Producer)
  /\ UNCHANGED <<ring, slots, need, ready, rd, starts>>

ProducerStep ==
  \/ MShmPoolCreateLock \/ MShmPoolCreate
  \/ FreeBlocks \/ FreeBlocksDone \/ AddNoMem
  \/ AddReserve \/ InsertData2Ele \/ AddPublish \/ SemAddAll

----------------------------------------------------------------------------
(* The readers.                                                            *)

Slot(r)     == users[rd[r].userno]
Goto(r, pc) == rd' = [rd EXCEPT ![r].pc = pc]

LastUsrNo == IF lastUsr < 0 THEN 0 ELSE lastUsr

(* u is the first free slot after the one handed out last. *)
GetAFreeUsrNo(u) ==
  LET Turn(v) == (v - LastUsrNo - 1) % MaxUsers
  IN  /\ ~users[u].valid
      /\ \A v \in UserNos : ~users[v].valid => Turn(u) <= Turn(v)

MShmPoolReq(r) ==
  /\ rd[r].pc = "out"
  /\ ready
  /\ UnderLock
  /\ \E u \in UserNos :
       /\ GetAFreeUsrNo(u)
       /\ lastUsr' = u
       /\ sem' = [sem EXCEPT ![u] = 0]
       /\ users' = [users EXCEPT ![u] =
                      [valid |-> TRUE, curele |-> tail, upid |-> r]]
       /\ rd' = [rd EXCEPT ![r] = AttachedReader(u)]
  /\ UNCHANGED <<ring, prod, ready, starts>>

(* -EBUSY: all slots are taken. *)
MShmPoolReqBusy(r) ==
  /\ rd[r].pc = "out"
  /\ ready
  /\ UnderLock
  /\ \A u \in UserNos : users[u].valid
  /\ lastUsr < 0
  /\ lastUsr' = LastUsrNo
  /\ UNCHANGED <<ring, users, sem, prod, ready, rd, starts>>

MShmPoolReqFree(r) ==
  /\ "ReqFree" \in Ops
  /\ rd[r].pc = "idle"
  /\ UnderLock
  /\ users' = [users EXCEPT ![rd[r].userno].valid = FALSE]
  /\ rd' = [rd EXCEPT ![r] = DetachedReader]
  /\ UNCHANGED <<ring, lastUsr, sem, prod, ready, starts>>

(* SaveEle2Buf reads where the element is, then (in a step of its own, so  *)
(* that a broken lock shows) its bytes and its number.                     *)
SaveEle2BufBegin(r, i) ==
  rd' = [rd EXCEPT ![r] =
           [pc |-> "copy", userno |-> @.userno, cur |-> i, bblock |-> EleAt(i).bblock,
            len |-> EleAt(i).len, got |-> @.got, torn |-> @.torn]]

(* A frame that does not fit leaves the cursor where it is. *)
SaveEle2Buf(r) ==
  LET me   == rd[r]
      fits == me.len <= BufBlocks
      n    == EleAt(me.cur).num
      torn == \E b \in BlocksOf(me.bblock, me.len) : data[b] # n
  IN  /\ me.pc = "copy"
      /\ rd' = [rd EXCEPT ![r] = IF fits
                                THEN Between("idle", @.userno, n, @.torn \/ torn)
                                ELSE Between("idle", @.userno, @.got, @.torn)]
      /\ users' = IF fits
                  THEN [users EXCEPT ![me.userno].curele = NewerEle(me.cur)]
                  ELSE users
      /\ MShmUnLock(r)
      /\ UNCHANGED <<ring, lastUsr, sem, prod, ready, starts>>

(* Mutant of GetResourceSemReq: the semaphore is cleared, as GetPacket does. *)
GetResourceSemClear(r) ==
  /\ "GetResource" \in Ops
  /\ rd[r].pc = "idle"
  /\ sem[rd[r].userno] > 0
  /\ sem' = [sem EXCEPT ![rd[r].userno] = 0]
  /\ Goto(r, "grLock")
  /\ UNCHANGED <<ring, lastUsr, users, lk, prod, ready, starts>>

(* MShmPoolGetResource: SemReq, lock, find the element, copy. *)
GetResourceSemReq(r) ==
  /\ "GetResource" \in Ops
  /\ rd[r].pc = "idle"
  /\ sem[rd[r].userno] > 0
  /\ sem' = [sem EXCEPT ![rd[r].userno] = @ - 1]
  /\ Goto(r, "grLock")
  /\ UNCHANGED <<ring, lastUsr, users, lk, prod, ready, starts>>

GetResourceLock(r) ==
  /\ rd[r].pc = "grLock"
  /\ MShmLock(r)
  /\ LET u    == rd[r].userno
         lost == LooksReInitialised(users[u].curele)
         cur  == IF lost THEN tail - 1 ELSE users[u].curele
     IN  /\ SaveEle2BufBegin(r, cur)
         /\ users' = [users EXCEPT ![u].curele = cur]
         /\ sem' = IF lost THEN [sem EXCEPT ![u] = 0] ELSE sem
  /\ UNCHANGED <<ring, lastUsr, prod, ready, starts>>

(* MShmPoolGetPacket: the loop condition is read without the lock, the     *)
(* element number it is about is used under the lock later.                *)
GetPacketBegin(r) ==
  /\ "GetPacket" \in Ops
  /\ rd[r].pc = "idle"
  /\ rd' = [rd EXCEPT ![r].pc = "gpTest", ![r].cur = Slot(r).curele]
  /\ UNCHANGED <<ring, slots, lk, prod, ready, starts>>

GetPacketTest(r) ==
  /\ rd[r].pc = "gpTest"
  /\ Goto(r, IF tail = head \/ rd[r].cur = tail THEN "gpWait" ELSE "gpLock")
  /\ UNCHANGED <<ring, slots, lk, prod, ready, starts>>

GetPacketSemReq(r) ==
  /\ rd[r].pc = "gpWait"
  /\ sem[rd[r].userno] > 0
  /\ sem' = [sem EXCEPT ![rd[r].userno] = @ - 1]
  /\ Goto(r, "gpZero")
  /\ UNCHANGED <<ring, lastUsr, users, lk, prod, ready, starts>>

(* SemSetVal drops what the producer has signalled since; then the cursor  *)
(* and the window are looked at again, without the lock.                   *)
GetPacketSemZero(r) ==
  /\ rd[r].pc = "gpZero"
  /\ sem' = [sem EXCEPT ![rd[r].userno] = 0]
  /\ rd' = IF LooksReInitialised(Slot(r).curele)
           THEN [rd EXCEPT ![r].pc = "gpReset"]
           ELSE [rd EXCEPT ![r].pc = "gpTest", ![r].cur = Slot(r).curele]
  /\ UNCHANGED <<ring, lastUsr, users, lk, prod, ready, starts>>

(* The cursor is reset under the lock, the semaphore after it. *)
GetPacketReset(r) ==
  /\ rd[r].pc = "gpReset"
  /\ UnderLock
  /\ users' = [users EXCEPT ![rd[r].userno].curele = tail - 1]
  /\ Goto(r, "gpClear")
  /\ UNCHANGED <<ring, lastUsr, sem, prod, ready, starts>>

GetPacketClear(r) ==
  /\ rd[r].pc = "gpClear"
  /\ sem' = [sem EXCEPT ![rd[r].userno] = 0]
  /\ rd' = [rd EXCEPT ![r].pc = "gpTest", ![r].cur = Slot(r).curele]
  /\ UNCHANGED <<ring, lastUsr, users, lk, prod, ready, starts>>

(* Mutant of GetPacketLock: the copy begins without the lock. *)
GetPacketNoLock(r) ==
  /\ rd[r].pc = "gpLock"
  /\ SaveEle2BufBegin(r, rd[r].cur)
  /\ UNCHANGED <<ring, slots, lk, prod, ready, starts>>

GetPacketLock(r) ==
  /\ rd[r].pc = "gpLock"
  /\ MShmLock(r)
  /\ SaveEle2BufBegin(r, rd[r].cur)
  /\ UNCHANGED <<ring, slots, prod, ready, starts>>

Move(r, place) ==
  /\ rd[r].pc = "idle"
  /\ users' = [users EXCEPT ![rd[r].userno].curele = Moved(@, place)]
  /\ UNCHANGED <<ring, lastUsr, sem, lk, prod, ready, rd, starts>>

MShmPoolMvUsrPlace(r, place) == "MvUsrPlace" \in Ops /\ lock > 0 /\ Move(r, place)

(* The same without taking the lock. *)
MShmPoolMvNewPlace(r, place) == "MvNewPlace" \in Ops /\ Move(r, place)

(* Called by a thread of the reader's process that watches its slot. *)
MShmPoolReActiveUsr(r) ==
  /\ "ReActive" \in Ops
  /\ rd[r].pc # "out"
  /\ ~Slot(r).valid
  /\ UnderLock
  /\ users' = [users EXCEPT ![rd[r].userno].valid = TRUE]
  /\ UNCHANGED <<ring, lastUsr, sem, prod, ready, rd, starts>>

(* A monitor frees the first slot that carries a process id. *)
MShmPoolDelUsrByPid(r) ==
  /\ "DelUsr" \in Ops
  /\ ready
  /\ \E u \in UserNos :
       /\ users[u].upid = r
       /\ \A v \in 0 .. u - 1 : users[v].upid # r
       /\ users' = [users EXCEPT ![u].valid = FALSE]
  /\ UNCHANGED <<ring, lastUsr, sem, lk, prod, ready, rd, starts>>

(* A reader process dies; its slot stays valid. *)
ReaderCrash(r) ==
  /\ "ReaderCrash" \in Ops
  /\ rd[r].pc # "out"
  /\ rd' = [rd EXCEPT ![r] = DetachedReader]
  /\ ExitUndo(r)
  /\ UNCHANGED <<ring, slots, prod, ready, starts>>

(* The steps of a read call that has begun. *)
ReaderStep(r) ==
  \/ GetResourceLock(r) \/ SaveEle2Buf(r)
  \/ GetPacketTest(r) \/ GetPacketSemReq(r) \/ GetPacketSemZero(r)
  \/ GetPacketReset(r) \/ GetPacketClear(r) \/ GetPacketLock(r)

ReaderCall(r) ==
  \/ MShmPoolReq(r) \/ MShmPoolReqBusy(r) \/ MShmPoolReqFree(r)
  \/ GetResourceSemReq(r) \/ GetPacketBegin(r)
  \/ \E place \in Places : MShmPoolMvUsrPlace(r, place) \/ MShmPoolMvNewPlace(r, place)
  \/ MShmPoolReActiveUsr(r) \/ MShmPoolDelUsrByPid(r) \/ ReaderCrash(r)

----------------------------------------------------------------------------
Next ==
  \/ MShmCoreCreate
  \/ \E n \in Needs : AddBegin(n)
  \/ ProducerStep
  \/ ProducerCrash
  \/ \E r \in Readers : ReaderStep(r) \/ ReaderCall(r)

Spec == Init /\ [][Next]_vars

(* A process in the pool's code goes on; semop serves the processes that   *)
(* wait for a semaphore in turn, so one that is free again and again is    *)
(* got in the end.  No call, crash or new frame is ever owed.              *)
Fairness ==
  /\ WF_vars(ProducerStep)
  /\ \A r \in Readers : SF_vars(ReaderStep(r))

FairSpec == Spec /\ Fairness

----------------------------------------------------------------------------
(* What makes the pool correct.                                            *)

ReaderPcs == {"out", "idle", "grLock", "gpTest", "gpWait", "gpZero", "gpReset", "gpClear",
              "gpLock", "copy"}

Ele  == [num : 0 .. MaxFrames, len : 0 .. TBlocks, blocks : 0 .. TBlocks,
         bblock : BlockNos, eblock : -1 .. TBlocks - 1]
User == [valid : BOOLEAN, curele : -1 .. MaxEle - 1, upid : Procs]
Rd   == [pc : ReaderPcs, userno : UserNos, cur : -1 .. MaxEle - 1,
         bblock : BlockNos, len : 0 .. TBlocks, got : 0 .. MaxFrames, torn : BOOLEAN]

RingTypeOK ==
  /\ num \in 0 .. MaxFrames
  /\ fblocks \in 0 .. TBlocks /\ fbstart \in BlockNos
  /\ count \in 0 .. MaxEle /\ head \in EleNos /\ tail \in EleNos
  /\ eles \in [EleNos -> Ele]
  /\ data \in [BlockNos -> 0 .. MaxFrames]

SlotsTypeOK ==
  /\ lastUsr \in -1 .. MaxUsers - 1
  /\ users \in [UserNos -> User]
  /\ sem \in [UserNos -> Nat]

ProducerTypeOK ==
  /\ ppc \in {"down", "create", "init", "idle", "free", "reserve", "fill",
              "publish", "signal"}
  /\ need \in Needs \cup {0}
  /\ ready \in BOOLEAN
  /\ starts \in 0 .. MaxStarts

LockTypeOK    == lock \in Nat /\ adj \in [Procs -> Int]
ReadersTypeOK == rd \in [Readers -> Rd]

(* Every counter and index stays in its array's range through freeing,     *)
(* wrapping and re-creation: no element, block or slot number out of the   *)
(* arrays of SHPOOL_HEAD, except a cursor of -1, which a reset on an empty *)
(* pool produces (mshmpool.c:504, 584), and an eblock of -1 (651).         *)
TypeOK ==
  RingTypeOK /\ SlotsTypeOK /\ ProducerTypeOK /\ LockTypeOK /\ ReadersTypeOK

(* Element i is Pos(i) elements newer than the oldest one. *)
Pos(i)  == IF i >= head THEN i - head ELSE i - head + MaxEle
Live(i) == Pos(i) < count

(* The producer is somewhere between two calls (or has died there). *)
AtRest == ready /\ ppc = "idle"

(* The bytes of every frame that is still in the pool are that frame's: the *)
(* block ring is never handed out over a live element (MShmPoolReqBlocks,  *)
(* FreeBlocks), at every step of an AddResource and after a crash in one.  *)
LiveDataIntact ==
  \A i \in EleNos : Live(i) =>
    \A b \in BlocksOf(eles[i].bblock, eles[i].len) : data[b] = eles[i].num

(* Between two calls the live elements and the free blocks make up the     *)
(* whole block ring, and the element ring holds an unbroken run of frames  *)
(* that ends with the newest (FreeBlocks, FreeHeadEle, InsertData2Ele).    *)
WindowIsNewestFrames ==
  AtRest =>
    /\ count = Pos(tail)
    /\ \A i \in EleNos : Live(i) =>
         /\ eles[i].num = num - (count - 1 - Pos(i))
         /\ eles[i].len = eles[i].blocks /\ eles[i].len > 0
    /\ fblocks + Cardinality(UNION {BlocksOf(eles[i].bblock, eles[i].blocks) :
                                     i \in {j \in EleNos : Live(j)}}) = TBlocks

(* What a read call hands to its caller is one frame, never bytes of two,  *)
(* although the element may be freed, overwritten or lapped between the    *)
(* unlocked test of MShmPoolGetPacket and the copy.                        *)
DeliveredIntact == \A r \in Readers : ~rd[r].torn

(* The processes between MShmLock and MShmUnLock. *)
Holders ==
  {r \in Readers : rd[r].pc = "copy"} \cup
  {p \in {Producer} : ppc \notin {"down", "create", "idle"}}

(* MShmLock excludes: at most one process works on the segment under it.   *)
MutualExclusion == Cardinality(Holders) <= 1

(* The lock is never lost: with no process inside it can be taken again,   *)
(* whatever crashes (SEM_UNDO) and re-creations (SETVAL) came before.      *)
LockNotLost == starts > 0 /\ Holders = {} => lock > 0

(* r owns its slot: nobody took it for dead since it asked for it. *)
Owns(r) == rd[r].pc # "out" /\ Slot(r).valid /\ Slot(r).upid = r

(* A reader never sleeps in MShmPoolGetPacket on a frame that is there:    *)
(* SemSetVal(0) and the unlocked loop test lose no wake-up.                *)
NoLostWakeup ==
  \A r \in Readers :
    (Owns(r) /\ rd[r].pc = "gpWait" /\ sem[rd[r].userno] = 0 /\ AtRest)
      => tail = head \/ Slot(r).curele = tail

(* For a reader that uses MShmPoolGetResource the semaphore counts exactly *)
(* the frames between its cursor and the tail, so it neither blocks on a   *)
(* frame that is there nor reads past the newest.                          *)
SemCountsBacklog ==
  \A r \in Readers : Owns(r) =>
    (tail - Slot(r).curele) % MaxEle
      = sem[rd[r].userno] + (IF rd[r].pc \in {"grLock", "copy"} THEN 1 ELSE 0)
                          + (IF ppc = "signal" THEN 1 ELSE 0)

(* The frames a reader that owns its slot gets from MShmPoolGetResource    *)
(* come in the order the producer added them, none twice: lagging, being   *)
(* overtaken by FreeBlocks and the wrap of the element ring included.      *)
FramesInOrder ==
  [][\A r \in Readers :
       Owns(r) /\ rd[r].pc = "copy" /\ rd'[r].pc = "idle" => rd'[r].got > rd[r].got]_vars

(* A call of MShmPoolGetPacket that sleeps while an unread frame is in the *)
(* pool returns, whatever process dies and whoever has the lock, unless    *)
(* the pool is emptied or the reader is taken for dead meanwhile.          *)
ReadReturns ==
  \A r \in Readers :
    (Owns(r) /\ AtRest /\ rd[r].pc = "gpWait" /\ tail # head /\ Slot(r).curele # tail)
      ~> (rd[r].pc \in {"idle", "out"} \/ tail = head \/ ~Owns(r))

----------------------------------------------------------------------------
(* The invariant behind LiveDataIntact: the live elements lie one after    *)
(* the other in the block ring, oldest first, and the free blocks follow   *)
(* the newest.  Distances are measured from the oldest live block.         *)

Running == ppc \in {"idle", "free", "reserve", "fill", "publish", "signal"}

(* Start of the free blocks: fbstart, which AddReserve has moved already   *)
(* while the frame is being filled in.                                     *)
FreeStart == IF ppc = "fill" THEN eles[tail].bblock ELSE fbstart

LiveStart == IF FreeStart + fblocks >= TBlocks
             THEN FreeStart + fblocks - TBlocks ELSE FreeStart + fblocks

Off(b) == IF b >= LiveStart THEN b - LiveStart ELSE b - LiveStart + TBlocks

Begins(i) == Off(eles[i].bblock)
Ends(i)   == Begins(i) + eles[i].blocks

(* head, tail and count agree; the newest element is not yet behind tail   *)
(* while it is published.                                                  *)
WindowInv == Pos(tail) = (IF ppc = "publish" THEN count - 1 ELSE count)

TilingInv ==
  /\ count = 0 => fblocks = TBlocks
  /\ \A i \in EleNos : Live(i) =>
       /\ eles[i].blocks > 0 /\ eles[i].len = eles[i].blocks
       /\ Ends(i) <= TBlocks - fblocks
       /\ Pos(i) = 0 => Begins(i) = 0
       /\ Pos(i) = count - 1 => Ends(i) = TBlocks - fblocks
  /\ \A i, j \in EleNos : Live(i) /\ Live(j) =>
       /\ Pos(j) = Pos(i) + 1 => Begins(j) = Ends(i)
       /\ Pos(i) < Pos(j) => Ends(i) <= Begins(j)

ContentInv ==
  \A i \in EleNos : Live(i) =>
    \A b \in BlockNos : Begins(i) <= Off(b) /\ Off(b) < Ends(i) => data[b] = eles[i].num

(* What the producer knows about the frame it is adding. *)
AddInv ==
  /\ ppc \in {"free", "reserve", "fill"} => need > 0
  /\ ppc \in {"free", "reserve"} => num < MaxFrames
  /\ ppc \in {"reserve", "fill"} => need <= fblocks
  /\ ppc = "fill" => eles[tail].blocks = need /\ fbstart = (eles[tail].bblock + need) % TBlocks

(* While the producer runs, the two rings are consistent at every step of  *)
(* MShmPoolAddResource (MShmPoolReqBlocks, FreeBlocks, InsertData2Ele).    *)
RingInv == Running => WindowInv /\ TilingInv /\ ContentInv /\ AddInv
=============================================================================
