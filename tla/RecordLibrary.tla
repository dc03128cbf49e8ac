---------------------------- MODULE RecordLibrary ----------------------------
(***************************************************************************)
(* One partition of recorded files and its sqlite index, as two processes  *)
(* share them: mp_hdmodule_m (actor "rec": it records, closes and, after a *)
(* restart, repairs) and mp_diskman_m (actor "man": the thread that frees  *)
(* space; actor "cmd": the thread that runs the lock commands).  Sources:  *)
(* libsrc/fileindex/fileindex.c, src/mp_hdmodule_m/hdmod.c,                *)
(* src/mp_diskman_m/diskmanager.c, process_modcmd.c.                       *)
(*                                                                         *)
(* A file name is [rec, kind, lock]: rec is the recording, numbered in the *)
(* order of its start time; kind says which of the names of a recording it *)
(* is ("ing" while it is written, "avi" once it is closed, "old" and "fix" *)
(* for the two names the repair gives it); lock is the '@' of the name.    *)
(* Everything the index knows of a file (hdutil_filename2finfo) is in its  *)
(* name, so a row of the index is a name, and the index is a set of names. *)
(*                                                                         *)
(* sqlite is version 3.5.5 (libsrc/sqlite3/VERSION).  Of its locking three *)
(* facts matter.  A statement is atomic, and other processes cannot write  *)
(* while a select is open.  A select whose callback runs is open until the *)
(* last callback returns.  What a callback writes through the same handle  *)
(* is committed when the select ends (vdbeaux.c:1502 commits when the last *)
(* statement halts), and if another process reads at that moment the       *)
(* commit is refused and everything is rolled back.                        *)
(***************************************************************************)
EXTENDS Integers, FiniteSets

CONSTANTS
    MaxRecs,     \* recordings a behaviour may start
    DelBatch,    \* files one fileindex_del_oldest takes: 10 in the code
    Capacity,    \* files the partition holds
    MinVal,      \* get_hd_minval: no new file below this free space
    RmVal,       \* get_hd_rmval: the disk manager frees space below it
    RmStop,      \* HD_RM_STOP: it stops freeing at this much
    AutoUnlock,  \* auto_unlock_time / DISK_MAN_LOOP: rounds until unlocking
    MaxCmds,     \* lock commands a behaviour may run
    MaxCrashes,  \* restarts of a process a behaviour may see
    MaxFaults    \* calls on recordings that a behaviour may see fail

ASSUME LibraryAssumption ==
    /\ MaxRecs \in Nat /\ DelBatch \in Nat \ {0} /\ Capacity \in Nat
    /\ MinVal \in Nat /\ RmVal \in Nat /\ RmStop \in Nat
    /\ AutoUnlock \in Nat \ {0} /\ MaxCmds \in Nat /\ MaxCrashes \in Nat
    /\ MaxFaults \in Nat

Actors == {"rec", "man", "cmd"}
Recs == 1..MaxRecs
Names == [rec : Recs, kind : {"ing", "avi", "old", "fix"}, lock : BOOLEAN]

\* what may fail: fileindex_add, the rename(2) of fileindex_rename, those of
\* convert_ing_file, and the remove() of del_file_callback
Calls == {"add", "rename", "repair", "remove"}
NoName == [rec |-> 0, kind |-> "none", lock |-> FALSE]

FileName(r, k, l) == [rec |-> r, kind |-> k, lock |-> l]

VARIABLES
    disk,     \* the names of the files on the partition
    rows,     \* the names in the index, as committed
    work,     \* the index as the open transaction of a repair sees it
    cur,      \* hd->filename of the file being written, or NoName
    next,     \* the number the next recording gets
    pc,       \* where each actor is
    todo,     \* the names an actor has selected and not yet handled
    old, new, \* the arguments of the fileindex_rename an actor is in
    occupied, \* remove_oldest_from_partition's last free space
    counter,  \* diskfull_counter
    full,     \* diskman_state.disk_full
    cmds, crashes,
    failed,   \* history: <<call, recording>> of the calls that have failed
    raced,    \* history: two operations on the index have overlapped
    torn      \* history: a repair was rolled back after it renamed files

recVars  == <<cur, next>>
manVars  == <<occupied, counter, full>>
histVars == <<cmds, crashes>>
vars == <<disk, rows, work, cur, next, pc, todo, old, new, occupied, counter,
          full, cmds, crashes, failed, raced, torn>>

-----------------------------------------------------------------------------
(* Free space, the queries and the database's locks *)

Free == Capacity - Cardinality(disk)

\* Mutant: "where ing = 0", the lock is not looked at.
DeletableLocked(rs) == {n \in rs : n.kind # "ing"}

\* where lock = 0 and ing = 0
Deletable(rs) == {n \in rs : n.kind # "ing" /\ ~n.lock}

\* the order in which the names of one recording enter the index
KindRank == [ing |-> 0, avi |-> 1, old |-> 2, fix |-> 3]

\* ... order by start: rows of one start time come as they were entered
Before(m, n) == \/ m.rec < n.rec
                \/ m.rec = n.rec /\ KindRank[m.kind] < KindRank[n.kind]

\* ... limit DelBatch
Oldest(rs) == LET D == Deletable(rs)
              IN  {n \in D : Cardinality({m \in D : Before(m, n)}) < DelBatch}

\* Mutant: "where lock = flag".
LockQuerySame(flag, lo, hi) ==
    {n \in rows : n.kind # "ing" /\ n.lock = flag /\ n.rec \in lo..hi}

\* where lock = 1 - flag and ing = 0 and the times overlap lo..hi
LockQuery(flag, lo, hi) ==
    {n \in rows : n.kind # "ing" /\ n.lock = ~flag /\ n.rec \in lo..hi}

Repairing == pc["rec"] \in {"repair", "fix"}

\* the select of fileindex_del_oldest is open while it removes the files
Removing == pc["man"] = "remove"

\* exec_sqlcmd tries again while sqlite reports that the database is busy
CanRead(a)  == a = "cmd" => ~Removing
CanWrite(a) == /\ a # "man" => ~Removing
               /\ a # "rec" => ~Repairing

\* A call on a recording fails.  Nothing the code does undoes what that left.
Fails(call, r) == /\ failed' = failed \union {<<call, r>>}
                  /\ Cardinality(failed') <= MaxFaults

Ends(ok, call, r) == IF ok THEN UNCHANGED failed ELSE Fails(call, r)

\* an operation on the index begins: does it overlap another's?
Begins(a) == raced' = (raced \/ \E b \in Actors \ {a} : pc[b] # "idle")

-----------------------------------------------------------------------------
(* fileindex_rename: the caller has set old and new *)

\* access(oldname): the file is there
RenameAccess(a) ==
    /\ pc[a] = "access" /\ old[a] \in disk
    /\ pc' = [pc EXCEPT ![a] = "add"]
    /\ UNCHANGED <<disk, rows, work, recVars, todo, old, new, manVars,
                   histVars, failed, raced, torn>>

\* what follows a rename: the next name of the list, or the end
AfterRename(a) == IF todo[a] = {} THEN "idle" ELSE "lock"

EndRename(a) == /\ old' = [old EXCEPT ![a] = NoName]
                /\ new' = [new EXCEPT ![a] = NoName]

\* access(oldname) fails: its row goes and the rename is refused.
\* close_record_file then leaves hd->filename behind with no open file.
RenameMissing(a) ==
    /\ pc[a] = "access" /\ old[a] \notin disk /\ CanWrite(a)
    /\ rows' = rows \ {old[a]}
    /\ pc' = [pc EXCEPT ![a] = AfterRename(a)]
    /\ cur' = IF old[a] = cur THEN NoName ELSE cur
    /\ EndRename(a)
    /\ UNCHANGED <<disk, work, next, todo, manVars, histVars, failed, raced,
                   torn>>

\* Mutant: the row of the old name is replaced before the file is renamed.
RenameAddReplaces(a) ==
    /\ pc[a] = "add" /\ CanWrite(a)
    /\ rows' = (rows \ {old[a]}) \union {new[a]}
    /\ pc' = [pc EXCEPT ![a] = "rename"]
    /\ UNCHANGED <<disk, work, recVars, todo, old, new, manVars, histVars,
                   failed, raced, torn>>

\* fileindex_add of the new name; when it fails the rename goes on
RenameAdd(a) ==
    /\ pc[a] = "add" /\ CanWrite(a)
    /\ \E ok \in BOOLEAN :
          /\ Ends(ok, "add", new[a].rec)
          /\ rows' = IF ok THEN rows \union {new[a]} ELSE rows
    /\ pc' = [pc EXCEPT ![a] = "rename"]
    /\ UNCHANGED <<disk, work, recVars, todo, old, new, manVars, histVars,
                   raced, torn>>

\* Mutant: the file is copied, and the old one is not removed.
RenameFileCopies(a) ==
    /\ pc[a] = "rename"
    /\ disk' = IF old[a] \in disk THEN disk \union {new[a]} ELSE disk
    /\ pc' = [pc EXCEPT ![a] = "del"]
    /\ UNCHANGED <<rows, work, recVars, todo, old, new, manVars, histVars,
                   failed, raced, torn>>

\* rename(2): its result is overwritten, so that a file that has gone, or a
\* rename that fails and leaves the file, is no error
RenameFile(a) ==
    /\ pc[a] = "rename"
    /\ \E ok \in BOOLEAN :
          /\ Ends(ok, "rename", old[a].rec)
          /\ disk' = IF ok /\ old[a] \in disk
                     THEN (disk \ {old[a]}) \union {new[a]} ELSE disk
    /\ pc' = [pc EXCEPT ![a] = "del"]
    /\ UNCHANGED <<rows, work, recVars, todo, old, new, manVars, histVars,
                   raced, torn>>

\* fileindex_del_file of the old name; a recording that is closed is done
RenameDel(a) ==
    /\ pc[a] = "del" /\ CanWrite(a)
    /\ rows' = rows \ {old[a]}
    /\ pc' = [pc EXCEPT ![a] = AfterRename(a)]
    /\ cur' = IF old[a] = cur THEN NoName ELSE cur
    /\ EndRename(a)
    /\ UNCHANGED <<disk, work, next, todo, manVars, histVars, failed, raced,
                   torn>>

-----------------------------------------------------------------------------
(* fileindex_lock_by_time: the names are written to a list by one select,  *)
(* then each is renamed to the name with the other lock flag               *)

StartLock(a, flag, lo, hi) ==
    /\ CanRead(a)
    /\ todo' = [todo EXCEPT ![a] = LockQuery(flag, lo, hi)]
    /\ pc' = [pc EXCEPT ![a] = IF todo'[a] = {} THEN "idle" ELSE "lock"]

LockNext(a) ==
    /\ pc[a] = "lock"
    /\ \E n \in todo[a] :
          /\ todo' = [todo EXCEPT ![a] = @ \ {n}]
          /\ old' = [old EXCEPT ![a] = n]
          /\ new' = [new EXCEPT ![a] = FileName(n.rec, n.kind, ~n.lock)]
    /\ pc' = [pc EXCEPT ![a] = "access"]
    /\ UNCHANGED <<disk, rows, work, recVars, manVars, histVars, failed, raced,
                   torn>>

\* usr_lock_file_time and UNLOCK_FILE, on the command thread of mp_diskman_m
LockCommand ==
    /\ pc["cmd"] = "idle" /\ cmds < MaxCmds
    /\ \E flag \in BOOLEAN, lo, hi \in Recs : StartLock("cmd", flag, lo, hi)
    /\ cmds' = cmds + 1
    /\ Begins("cmd")
    /\ UNCHANGED <<disk, rows, work, recVars, old, new, manVars, crashes,
                   failed, torn>>

\* lock_recent_file, when recording is triggered: every closed file of the
\* last pre_rec seconds, whether or not another is being written
LockRecentFile ==
    /\ pc["rec"] = "idle" /\ cmds < MaxCmds
    /\ \E lo \in 1..next - 1 : StartLock("rec", TRUE, lo, next - 1)
    /\ cmds' = cmds + 1
    /\ Begins("rec")
    /\ UNCHANGED <<disk, rows, work, recVars, old, new, manVars, crashes,
                   failed, torn>>

-----------------------------------------------------------------------------
(* mp_hdmodule_m: a file is entered in the index, created, and closed *)

\* the result of fileindex_add is not looked at: the file is created anyway
CreateIndexRow ==
    /\ pc["rec"] = "idle" /\ cur = NoName /\ next <= MaxRecs
    /\ Free >= MinVal
    /\ CanWrite("rec")
    /\ \E ok \in BOOLEAN :
          /\ Ends(ok, "add", next)
          /\ rows' = IF ok THEN rows \union {FileName(next, "ing", FALSE)}
                           ELSE rows
    /\ next' = next + 1
    /\ pc' = [pc EXCEPT !["rec"] = "open"]
    /\ Begins("rec")
    /\ UNCHANGED <<disk, work, cur, todo, old, new, manVars, histVars, torn>>

\* AVI_open_output_file: the file exists from here on, or cannot be created
CreateOpen ==
    /\ pc["rec"] = "open"
    /\ LET n == FileName(next - 1, "ing", FALSE)
       IN  \/ /\ Free > 0
              /\ disk' = disk \union {n} /\ cur' = n
           \/ UNCHANGED <<disk, cur>>
    /\ pc' = [pc EXCEPT !["rec"] = "idle"]
    /\ UNCHANGED <<rows, work, next, todo, old, new, manVars, histVars, failed,
                   raced, torn>>

\* close_record_file: a triggered recording is closed under a locked name
CloseRecordFile ==
    /\ pc["rec"] = "idle" /\ cur # NoName
    /\ old' = [old EXCEPT !["rec"] = cur]
    /\ \E lock \in BOOLEAN :
          new' = [new EXCEPT !["rec"] = FileName(cur.rec, "avi", lock)]
    /\ pc' = [pc EXCEPT !["rec"] = "access"]
    /\ Begins("rec")
    /\ UNCHANGED <<disk, rows, work, recVars, todo, manVars, histVars, failed,
                   torn>>

-----------------------------------------------------------------------------
(* fileindex_convert_ing: the repair mp_hdmodule_m runs when it starts     *)

\* a repair under way has given files names that only its transaction knows
Renamed == Repairing /\ ~(work \subseteq rows)

\* Mutant: "where ing = 0".
RepairSelectClosed ==
    /\ pc["rec"] = "start"
    /\ todo' = [todo EXCEPT !["rec"] = {n \in rows : n.kind # "ing"}]
    /\ work' = rows
    /\ pc' = [pc EXCEPT !["rec"] = "repair"]
    /\ Begins("rec")
    /\ UNCHANGED <<disk, rows, recVars, old, new, manVars, histVars, failed,
                   torn>>

\* select * where ing = 1; the rows it changes stay in its transaction
RepairSelect ==
    /\ pc["rec"] = "start"
    /\ todo' = [todo EXCEPT !["rec"] = {n \in rows : n.kind = "ing"}]
    /\ work' = rows
    /\ pc' = [pc EXCEPT !["rec"] = "repair"]
    /\ Begins("rec")
    /\ UNCHANGED <<disk, rows, recVars, old, new, manVars, histVars, failed,
                   torn>>

\* the ing file of the row does not exist any more
RepairMissing ==
    /\ pc["rec"] = "repair"
    /\ \E n \in todo["rec"] \ disk :
          /\ work' = work \ {n}
          /\ todo' = [todo EXCEPT !["rec"] = @ \ {n}]
    /\ UNCHANGED <<disk, rows, recVars, pc, old, new, manVars, histVars,
                   failed, raced, torn>>

\* xxx.ING becomes xxx_OLD.AVI, on the disk and in the index
RepairRename ==
    /\ pc["rec"] = "repair"
    /\ \E n \in todo["rec"] \intersect disk, ok \in BOOLEAN :
          LET o == FileName(n.rec, "old", FALSE)
          IN  /\ Ends(ok, "add", n.rec)
              /\ disk' = (disk \ {n}) \union {o}
              /\ work' = (work \ {n}) \union (IF ok THEN {o} ELSE {})
              /\ old' = [old EXCEPT !["rec"] = o]
              /\ todo' = [todo EXCEPT !["rec"] = @ \ {n}]
    /\ pc' = [pc EXCEPT !["rec"] = "fix"]
    /\ UNCHANGED <<rows, recVars, new, manVars, histVars, raced, torn>>

\* the rename fails: the row of _OLD.AVI goes, xxx.ING and its row stay
RepairRenameFails ==
    /\ pc["rec"] = "repair"
    /\ \E n \in todo["rec"] \intersect disk :
          /\ Fails("repair", n.rec)
          /\ work' = work \ {FileName(n.rec, "old", FALSE)}
          /\ todo' = [todo EXCEPT !["rec"] = @ \ {n}]
    /\ UNCHANGED <<disk, rows, recVars, pc, old, new, manVars, histVars, raced,
                   torn>>

\* too little space to repair it, or the repair fails: it stays _OLD.AVI
RepairKeep ==
    /\ pc["rec"] = "fix"
    /\ pc' = [pc EXCEPT !["rec"] = "repair"]
    /\ EndRename("rec")
    /\ UNCHANGED <<disk, rows, work, recVars, todo, manVars, histVars, failed,
                   raced, torn>>

\* xxx_OLD.AVI, repaired, gets its final name with its real length
RepairFix ==
    /\ pc["rec"] = "fix" /\ old["rec"] \in disk /\ Free > 0
    /\ \E ok \in BOOLEAN :
          LET o == old["rec"]
              f == FileName(o.rec, "fix", FALSE)
          IN  /\ Ends(ok, "add", o.rec)
              /\ disk' = (disk \ {o}) \union {f}
              /\ work' = (work \ {o}) \union (IF ok THEN {f} ELSE {})
    /\ pc' = [pc EXCEPT !["rec"] = "repair"]
    /\ EndRename("rec")
    /\ UNCHANGED <<rows, recVars, todo, manVars, histVars, raced, torn>>

\* this rename fails, as the file has gone or on its own: the row of the
\* final name goes, _OLD.AVI and its row stay
RepairFixFails ==
    /\ pc["rec"] = "fix"
    /\ Ends(old["rec"] \notin disk, "repair", old["rec"].rec)
    /\ work' = work \ {FileName(old["rec"].rec, "fix", FALSE)}
    /\ pc' = [pc EXCEPT !["rec"] = "repair"]
    /\ EndRename("rec")
    /\ UNCHANGED <<disk, rows, recVars, todo, manVars, histVars, raced, torn>>

\* the select has returned its last row: its end commits the changes
RepairCommit ==
    /\ pc["rec"] = "repair" /\ todo["rec"] = {}
    /\ ~Removing \/ work = rows
    /\ rows' = work /\ work' = {}
    /\ pc' = [pc EXCEPT !["rec"] = "idle"]
    /\ UNCHANGED <<disk, recVars, todo, old, new, manVars, histVars, failed,
                   raced, torn>>

\* ... unless mp_diskman_m has a select open: sqlite rolls the changes back
\* and exec_sqlcmd runs the select once more
RepairBusy ==
    /\ pc["rec"] = "repair" /\ todo["rec"] = {} /\ Removing /\ work # rows
    /\ pc' = [pc EXCEPT !["rec"] = "start"]
    /\ work' = {}
    /\ torn' = (torn \/ Renamed)
    /\ UNCHANGED <<disk, rows, recVars, todo, old, new, manVars, histVars,
                   failed, raced>>

-----------------------------------------------------------------------------
(* mp_diskman_m: diskman_thread and remove_oldest_from_partition *)

\* a round of the loop that finds enough space
ScanEnough ==
    /\ pc["man"] = "idle" /\ Free >= RmVal
    /\ full' = FALSE /\ counter' = 0
    /\ UNCHANGED <<disk, rows, work, recVars, pc, todo, old, new, occupied,
                   histVars, failed, raced, torn>>

ScanLow ==
    /\ pc["man"] = "idle" /\ Free < RmVal
    /\ occupied' = Free
    /\ pc' = [pc EXCEPT !["man"] = "select"]
    /\ Begins("man")
    /\ UNCHANGED <<disk, rows, work, recVars, todo, old, new, counter, full,
                   histVars, failed, torn>>

\* fileindex_del_oldest, first statement: select the oldest unlocked names
DelSelect ==
    /\ pc["man"] = "select"
    /\ todo' = [todo EXCEPT !["man"] = Oldest(rows)]
    /\ pc' = [pc EXCEPT !["man"] = "remove"]
    /\ UNCHANGED <<disk, rows, work, recVars, old, new, manVars, histVars,
                   failed, raced, torn>>

\* ... del_file_callback removes the file of each, if it exists; when remove()
\* fails it goes on (or fix_disk ends the process: CrashDiskman)
DelRemove ==
    /\ pc["man"] = "remove"
    /\ \E n \in todo["man"] :
          /\ todo' = [todo EXCEPT !["man"] = @ \ {n}]
          /\ \/ disk' = disk \ {n} /\ UNCHANGED failed
             \/ n \in disk /\ Fails("remove", n.rec) /\ UNCHANGED disk
    /\ UNCHANGED <<rows, work, recVars, pc, old, new, manVars, histVars, raced,
                   torn>>

\* ... and the select ends
DelSelectEnd ==
    /\ pc["man"] = "remove" /\ todo["man"] = {}
    /\ pc' = [pc EXCEPT !["man"] = "delete"]
    /\ UNCHANGED <<disk, rows, work, recVars, todo, old, new, manVars,
                   histVars, failed, raced, torn>>

\* Mutant: the second statement has no limit.
DelRowsAll ==
    /\ pc["man"] = "delete" /\ CanWrite("man")
    /\ rows' = rows \ Deletable(rows)
    /\ pc' = [pc EXCEPT !["man"] = "check"]
    /\ UNCHANGED <<disk, work, recVars, todo, old, new, manVars, histVars,
                   failed, raced, torn>>

\* second statement: delete the rows the same query finds now
DelRows ==
    /\ pc["man"] = "delete" /\ CanWrite("man")
    /\ rows' = rows \ Oldest(rows)
    /\ pc' = [pc EXCEPT !["man"] = "check"]
    /\ UNCHANGED <<disk, work, recVars, todo, old, new, manVars, histVars,
                   failed, raced, torn>>

\* nothing more was freed, or enough: the loop ends
DelDone == Free = occupied \/ Free >= RmStop

DelAgain ==
    /\ pc["man"] = "check" /\ ~DelDone
    /\ occupied' = Free
    /\ pc' = [pc EXCEPT !["man"] = "select"]
    /\ UNCHANGED <<disk, rows, work, recVars, todo, old, new, counter, full,
                   histVars, failed, raced, torn>>

\* enough was freed: the flag is cleared and the counter stays as it is
DelEnough ==
    /\ pc["man"] = "check" /\ Free >= RmStop
    /\ full' = FALSE /\ occupied' = 0
    /\ pc' = [pc EXCEPT !["man"] = "idle"]
    /\ UNCHANGED <<disk, rows, work, recVars, todo, old, new, counter,
                   histVars, failed, raced, torn>>

\* Mutant: the counter is not reset when the files are unlocked.
DiskFullKeepsCounter ==
    /\ pc["man"] = "check" /\ DelDone /\ Free < RmStop
    /\ full' = TRUE /\ occupied' = 0
    /\ counter' = counter + 1
    /\ \/ /\ counter' < AutoUnlock
          /\ pc' = [pc EXCEPT !["man"] = "idle"]
          /\ UNCHANGED todo
       \/ counter' >= AutoUnlock /\ StartLock("man", FALSE, 1, MaxRecs)
    /\ UNCHANGED <<disk, rows, work, recVars, old, new, histVars, failed,
                   raced, torn>>

\* disk_full: too little could be removed
DiskFull ==
    /\ pc["man"] = "check" /\ DelDone /\ Free < RmStop
    /\ full' = TRUE /\ occupied' = 0
    /\ \/ /\ counter + 1 < AutoUnlock
          /\ counter' = counter + 1
          /\ pc' = [pc EXCEPT !["man"] = "idle"]
          /\ UNCHANGED todo
       \/ /\ counter + 1 >= AutoUnlock
          /\ counter' = 0
          /\ StartLock("man", FALSE, 1, MaxRecs)
    /\ UNCHANGED <<disk, rows, work, recVars, old, new, histVars, failed,
                   raced, torn>>

-----------------------------------------------------------------------------
(* A process is killed and started again.  Statements that have ended are  *)
(* in the index, the transaction of a repair is not.                       *)

CrashHdmodule ==
    /\ crashes < MaxCrashes
    /\ crashes' = crashes + 1
    /\ pc' = [pc EXCEPT !["rec"] = "start"]
    /\ todo' = [todo EXCEPT !["rec"] = {}]
    /\ cur' = NoName /\ work' = {}
    /\ EndRename("rec")
    /\ torn' = (torn \/ Renamed)
    /\ UNCHANGED <<disk, rows, next, manVars, cmds, failed, raced>>

CrashDiskman ==
    /\ crashes < MaxCrashes
    /\ crashes' = crashes + 1
    /\ pc' = [a \in Actors |-> IF a = "rec" THEN pc[a] ELSE "idle"]
    /\ todo' = [a \in Actors |-> IF a = "rec" THEN todo[a] ELSE {}]
    /\ old' = [a \in Actors |-> IF a = "rec" THEN old[a] ELSE NoName]
    /\ new' = [a \in Actors |-> IF a = "rec" THEN new[a] ELSE NoName]
    /\ occupied' = 0 /\ counter' = 0 /\ full' = FALSE
    /\ UNCHANGED <<disk, rows, work, recVars, cmds, failed, raced, torn>>

-----------------------------------------------------------------------------
Init ==
    /\ disk = {} /\ rows = {} /\ work = {}
    /\ cur = NoName /\ next = 1
    /\ pc = [a \in Actors |-> IF a = "rec" THEN "start" ELSE "idle"]
    /\ todo = [a \in Actors |-> {}]
    /\ old = [a \in Actors |-> NoName] /\ new = [a \in Actors |-> NoName]
    /\ occupied = 0 /\ counter = 0 /\ full = FALSE
    /\ cmds = 0 /\ crashes = 0
    /\ failed = {} /\ raced = FALSE /\ torn = FALSE

RenameStep(a) == \/ RenameAccess(a)
                 \/ RenameMissing(a)
                 \/ RenameAdd(a)
                 \/ RenameFile(a)
                 \/ RenameDel(a)
                 \/ LockNext(a)

Recorder == \/ CreateIndexRow
            \/ CreateOpen
            \/ CloseRecordFile
            \/ LockRecentFile

Repair == \/ RepairSelect
          \/ RepairMissing
          \/ RepairRename
          \/ RepairRenameFails
          \/ RepairKeep
          \/ RepairFix
          \/ RepairFixFails
          \/ RepairCommit
          \/ RepairBusy

DiskManager == \/ ScanEnough
               \/ ScanLow
               \/ DelSelect
               \/ DelRemove
               \/ DelSelectEnd
               \/ DelRows
               \/ DelAgain
               \/ DelEnough
               \/ DiskFull

Next == \/ \E a \in Actors : RenameStep(a)
        \/ Recorder
        \/ Repair
        \/ LockCommand
        \/ DiskManager
        \/ CrashHdmodule
        \/ CrashDiskman

Spec == Init /\ [][Next]_vars

\* Every process goes on with the operation it is in, and diskman_thread
\* begins another round ten seconds after the last.
Fairness == /\ \A a \in Actors : WF_vars(RenameStep(a))
            /\ WF_vars(CreateOpen) /\ WF_vars(Repair) /\ WF_vars(DiskManager)

FairSpec == Spec /\ Fairness

-----------------------------------------------------------------------------
(* Properties *)

RenamePcs == {"idle", "lock", "access", "add", "rename", "del"}

\* Every variable has its type.
TypeOK ==
    /\ disk \subseteq Names /\ rows \subseteq Names /\ work \subseteq Names
    /\ cur \in Names \union {NoName} /\ next \in 1..MaxRecs + 1
    /\ pc \in [Actors -> RenamePcs \union
                 {"start", "repair", "fix", "open",
                  "select", "remove", "delete", "check"}]
    /\ todo \in [Actors -> SUBSET Names]
    /\ old \in [Actors -> Names \union {NoName}]
    /\ new \in [Actors -> Names \union {NoName}]
    /\ occupied \in Int /\ counter \in 0..AutoUnlock /\ full \in BOOLEAN
    /\ cmds \in 0..MaxCmds /\ crashes \in 0..MaxCrashes
    /\ failed \subseteq Calls \X Recs
    /\ raced \in BOOLEAN /\ torn \in BOOLEAN

\* the recordings for which one of these calls has failed
Failed(calls) == {r \in Recs : \E c \in calls : <<c, r>> \in failed}

\* A file that was being written when its process died is found by the
\* repair: whatever interleaves, every .ING file has its row in the index.
\* Two ignored failures lose it: that of the insert of the row, and that of
\* the rename at the close, after which the row is deleted all the same.  A
\* rename of the repair that fails leaves the row for the next repair.
IngIndexed ==
    \A n \in disk : n.kind = "ing"
       => n \in rows \/ n.rec \in Failed({"add", "rename"})

\* Once the repair is over, no .ING file is left but the one being written
\* and those whose own insert or rename has failed: a failure at one file
\* does not keep the repair from the others.
NoStaleIng ==
    pc["rec"] \notin {"start", "repair", "fix"}
       => \A n \in disk : n.kind = "ing"
             => n = cur \/ n.rec \in Failed({"add", "rename", "repair"})

\* A recording is on the disk under one name at a time: no rename loses it
\* to another's and none leaves two copies.
OneFilePerRecording ==
    \A m, n \in disk : m.rec = n.rec => m = n

OnDisk(r) == {n \in disk : n.rec = r}

\* A recording leaves the disk only while it is finished and unlocked, even
\* when the list it is removed by was selected before it was locked.
OnlyUnlockedRemoved ==
    [][\A r \in Recs : OnDisk(r) # {} /\ OnDisk(r)' = {}
          => \A n \in OnDisk(r) : n.kind # "ing" /\ ~n.lock]_vars

\* While no two operations on the index have overlapped and no repair was
\* interrupted, every file has its row, through any crash: it can be found,
\* locked and, in the end, removed.  Only a failed insert, rename or removal
\* loses a file to the index, the file of its own recording and no other.
FilesIndexed ==
    ~raced /\ ~torn =>
       \A n \in disk : \/ n \in (IF Repairing THEN work ELSE rows)
                       \/ n.rec \in Failed({"add", "rename", "remove"})

\* Under the same condition, and if no call fails, the disk manager gets the
\* space back, if it must by unlocking every file.
SpaceRecovered ==
    [](Free < RmVal => <>(Free >= RmVal \/ raced \/ torn \/ failed # {}))
=============================================================================
