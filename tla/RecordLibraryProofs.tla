------------------------ MODULE RecordLibraryProofs ------------------------
(***************************************************************************)
(* Theorems about RecordLibrary, for any number of recordings, any sizes   *)
(* any number of crashes and any number of failed calls.                   *)
(***************************************************************************)
EXTENDS RecordLibrary, FiniteSetTheorems, TLAPS

RenamingPcs == {"access", "add", "rename", "del"}

\* The arguments of a rename are two names of one recording.
Arguments ==
    \A a \in Actors : pc[a] \in RenamingPcs =>
        /\ old[a] \in Names /\ new[a] \in Names
        /\ new[a].rec = old[a].rec /\ new[a].kind # "ing"

\* What the actors have selected: only a repair handles the file that was
\* being written, and what is removed is unlocked.
Selected ==
    /\ \A a \in {"man", "cmd"} :
          old[a].kind # "ing" /\ \A n \in todo[a] : n.kind # "ing"
    /\ pc["rec"] \notin {"repair", "fix"}
          => \A n \in todo["rec"] : n.kind # "ing"
    /\ pc["rec"] \in {"repair", "fix"}
          => \A n \in todo["rec"] : n.kind = "ing"
    /\ pc["rec"] = "fix" => old["rec"].kind = "old"
    /\ pc["man"] = "remove" => \A n \in todo["man"] : ~n.lock

\* Every recording on the disk has begun, and has one file.
Recordings ==
    /\ \A n \in disk : n.rec < next
    /\ pc["rec"] = "open" => next > 1 /\ \A n \in disk : n.rec # next - 1
    /\ pc["rec"] = "fix" => old["rec"] \in Names
    /\ OneFilePerRecording

\* The recordings whose file may have lost its row, those an .ING file of
\* which may be without one, and those the repair may leave as they are.
Unindexed == Failed({"add", "rename", "remove"})
Unfound   == Failed({"add", "rename"})
Unrepaired == Failed({"add", "rename", "repair"})

\* The file being written, its row, and what a repair makes of them.
Written ==
    /\ cur = NoName \/ cur.kind = "ing"
    /\ pc["rec"] = "open" =>
          /\ cur = NoName
          /\ \/ FileName(next - 1, "ing", FALSE) \in rows
             \/ next - 1 \in Unfound
    /\ pc["rec"] = "del" /\ old["rec"].kind = "ing"
          => old["rec"] \notin disk \/ old["rec"].rec \in Unfound
    /\ pc["rec"] \in {"repair", "fix"} =>
          \A n \in disk : n.kind = "ing" =>
             /\ n \in work \/ n.rec \in Unfound
             /\ n \in todo["rec"] \/ n.rec \in Unrepaired
    /\ IngIndexed
    /\ NoStaleIng

LibInv == TypeOK /\ Arguments /\ Selected /\ Recordings /\ Written

-----------------------------------------------------------------------------
(* Names *)

\* A name of the given parts, as hdutil_filename2finfo takes it apart.
LEMMA NameParts ==
    \A r, k, l : /\ FileName(r, k, l).rec = r
                 /\ FileName(r, k, l).kind = k
                 /\ FileName(r, k, l).lock = l
PROOF BY DEF FileName

\* Names of recordings are Names.
LEMMA NameTyped ==
    \A r \in Recs, k \in {"ing", "avi", "old", "fix"}, l \in BOOLEAN :
        FileName(r, k, l) \in Names
PROOF BY DEF FileName, Names

\* The parts of a name have their types, and NoName is no name of a file.
LEMMA NameFields ==
    /\ \A n \in Names : /\ n.rec \in Recs /\ n.lock \in BOOLEAN
                        /\ n.kind \in {"ing", "avi", "old", "fix"}
    /\ NoName \notin Names /\ NoName.kind # "ing" /\ NoName.kind = "none"
PROOF
<1>1. \A n \in Names : /\ n.rec \in Recs /\ n.lock \in BOOLEAN
                       /\ n.kind \in {"ing", "avi", "old", "fix"}
  BY DEF Names
<1>2. NoName.kind = "none"
  BY DEF NoName
<1>. QED
  BY <1>1, <1>2

-----------------------------------------------------------------------------
(* Calls that fail *)

\* A call that ends, in whichever way, is about a recording, adds at most
\* itself to the history, and is in it if it failed.
LEMMA CallEnds ==
    ASSUME TypeOK, NEW ok, NEW call \in Calls, NEW r \in Recs,
           Ends(ok, call, r)
    PROVE  /\ failed' \subseteq Calls \X Recs
           /\ failed \subseteq failed'
           /\ ok \/ <<call, r>> \in failed'
PROOF BY DEF Ends, Fails, TypeOK

\* The same of a call that has failed.
LEMMA CallFails ==
    ASSUME TypeOK, NEW call \in Calls, NEW r \in Recs, Fails(call, r)
    PROVE  /\ failed' \subseteq Calls \X Recs
           /\ failed \subseteq failed'
           /\ <<call, r>> \in failed'
PROOF BY DEF Fails, TypeOK

\* What has failed stays in the history.
LEMMA FailedGrows ==
    ASSUME failed \subseteq failed'
    PROVE  /\ Unindexed \subseteq Unindexed'
           /\ Unfound \subseteq Unfound'
           /\ Unrepaired \subseteq Unrepaired'
PROOF BY DEF Unindexed, Unfound, Unrepaired, Failed

\* What each failed call excuses.
LEMMA FailedExcuses ==
    ASSUME NEW r \in Recs
    PROVE  /\ <<"add", r>> \in failed =>
                 r \in Unindexed /\ r \in Unfound /\ r \in Unrepaired
           /\ <<"rename", r>> \in failed =>
                 r \in Unindexed /\ r \in Unfound /\ r \in Unrepaired
           /\ <<"repair", r>> \in failed => r \in Unrepaired
           /\ <<"remove", r>> \in failed => r \in Unindexed
           /\ Unfound \subseteq Unrepaired
PROOF BY DEF Unindexed, Unfound, Unrepaired, Failed

\* No step takes a failed call out of the history.
LEMMA HistoryKept ==
    ASSUME Next
    PROVE  failed \subseteq failed'
PROOF
<1>. USE DEF Ends, Fails
<1>1. ASSUME NEW a \in Actors, RenameStep(a)
      PROVE  failed \subseteq failed'
  BY <1>1 DEF RenameStep, RenameAccess, RenameMissing, RenameAdd, RenameFile,
              RenameDel, LockNext
<1>2. ASSUME Recorder
      PROVE  failed \subseteq failed'
  BY <1>2 DEF Recorder, CreateIndexRow, CreateOpen, CloseRecordFile,
              LockRecentFile
<1>3. ASSUME Repair
      PROVE  failed \subseteq failed'
  BY <1>3 DEF Repair, RepairSelect, RepairMissing, RepairRename,
              RepairRenameFails, RepairKeep, RepairFix, RepairFixFails,
              RepairCommit, RepairBusy
<1>4. ASSUME DiskManager
      PROVE  failed \subseteq failed'
  BY <1>4 DEF DiskManager, ScanEnough, ScanLow, DelSelect, DelRemove,
              DelSelectEnd, DelRows, DelAgain, DelEnough, DiskFull
<1>5. ASSUME LockCommand \/ CrashHdmodule \/ CrashDiskman
      PROVE  failed \subseteq failed'
  BY <1>5 DEF LockCommand, CrashHdmodule, CrashDiskman
<1>. QED
  BY <1>1, <1>2, <1>3, <1>4, <1>5 DEF Next

-----------------------------------------------------------------------------
(* Types *)

\* A rename, the six steps of it for one actor, keeps the types.
LEMMA RenameTyped ==
    ASSUME TypeOK, Arguments, NEW a \in Actors, RenameStep(a)
    PROVE  TypeOK'
PROOF
<1>. USE LibraryAssumption
<1>a. CASE RenameAccess(a)
  BY <1>a DEF RenameAccess, TypeOK, RenamePcs, recVars, manVars, histVars
<1>b. CASE RenameMissing(a)
  BY <1>b DEF RenameMissing, EndRename, AfterRename, TypeOK, RenamePcs, manVars, histVars
<1>c. CASE RenameAdd(a)
  <2>1. failed' \subseteq Calls \X Recs
    BY <1>c, CallEnds, NameFields DEF RenameAdd, Arguments, RenamingPcs, Calls
  <2>. QED
    BY <1>c, <2>1 DEF RenameAdd, Arguments, RenamingPcs, TypeOK, RenamePcs,
                      recVars, manVars, histVars
<1>d. CASE RenameFile(a)
  <2>1. failed' \subseteq Calls \X Recs
    BY <1>d, CallEnds, NameFields DEF RenameFile, Arguments, RenamingPcs, Calls
  <2>. QED
    BY <1>d, <2>1 DEF RenameFile, Arguments, RenamingPcs, TypeOK, RenamePcs,
                      recVars, manVars, histVars
<1>e. CASE RenameDel(a)
  BY <1>e DEF RenameDel, EndRename, AfterRename, TypeOK, RenamePcs, manVars, histVars
<1>f. CASE LockNext(a)
  <2>1. PICK n \in todo[a] :
           /\ todo' = [todo EXCEPT ![a] = @ \ {n}]
           /\ old' = [old EXCEPT ![a] = n]
           /\ new' = [new EXCEPT ![a] = FileName(n.rec, n.kind, ~n.lock)]
    BY <1>f DEF LockNext
  <2>2. n \in Names
    BY DEF TypeOK
  <2>3. FileName(n.rec, n.kind, ~n.lock) \in Names
    <3>1. (~n.lock) \in BOOLEAN
      OBVIOUS
    <3>. QED
      BY <2>2, <3>1, NameTyped, NameFields
  <2>. HIDE DEF FileName, Names
  <2>. QED
    BY <1>f, <2>1, <2>2, <2>3
       DEF LockNext, TypeOK, RenamePcs, recVars, manVars, histVars
<1>. QED
  BY <1>a, <1>b, <1>c, <1>d, <1>e, <1>f DEF RenameStep

\* The steps of the recorder keep the types.
LEMMA RecorderTyped ==
    ASSUME TypeOK, Recordings, Recorder
    PROVE  TypeOK'
PROOF
<1>. USE LibraryAssumption
<1>a. CASE CreateIndexRow
  <2>0. next \in Recs
    BY <1>a DEF CreateIndexRow, TypeOK, Recs
  <2>1. FileName(next, "ing", FALSE) \in Names
    BY <2>0, NameTyped
  <2>2. rows' \subseteq Names
    BY <1>a, <2>1 DEF CreateIndexRow, TypeOK
  <2>3. next' \in 1..MaxRecs + 1
    BY <1>a, <2>0 DEF CreateIndexRow, Recs
  <2>4. raced' \in BOOLEAN
    BY <1>a DEF CreateIndexRow, Begins
  <2>5. failed' \subseteq Calls \X Recs
    BY <1>a, <2>0, CallEnds DEF CreateIndexRow, Calls
  <2>. QED
    BY <1>a, <2>2, <2>3, <2>4, <2>5 DEF CreateIndexRow, TypeOK, Actors, manVars, histVars
<1>b. CASE CreateOpen
  <2>0. next - 1 \in Recs
    BY <1>b DEF CreateOpen, TypeOK, Recs, Recordings
  <2>1. FileName(next - 1, "ing", FALSE) \in Names
    BY <2>0, NameTyped
  <2>. QED
    BY <1>b, <2>1 DEF CreateOpen, TypeOK, RenamePcs, Actors, manVars, histVars
<1>c. CASE CloseRecordFile
  <2>1. PICK lock \in BOOLEAN :
           new' = [new EXCEPT !["rec"] = FileName(cur.rec, "avi", lock)]
    BY <1>c DEF CloseRecordFile
  <2>2. FileName(cur.rec, "avi", lock) \in Names
    BY <1>c, NameTyped, NameFields DEF CloseRecordFile, TypeOK
  <2>. QED
    BY <1>c, <2>1, <2>2
       DEF CloseRecordFile, Begins, TypeOK, RenamePcs, Actors, recVars, manVars, histVars
<1>d. CASE LockRecentFile
  BY <1>d DEF LockRecentFile, StartLock, LockQuery, Begins, TypeOK, RenamePcs,
              Actors, recVars, manVars
<1>. QED
  BY <1>a, <1>b, <1>c, <1>d DEF Recorder

\* The steps of a repair keep the types.
LEMMA RepairTyped ==
    ASSUME TypeOK, Recordings, Repair
    PROVE  TypeOK'
PROOF
<1>. USE LibraryAssumption
<1>a. CASE RepairSelect
  BY <1>a DEF RepairSelect, Begins, TypeOK, Actors, recVars, manVars, histVars
<1>b. CASE RepairMissing
  BY <1>b DEF RepairMissing, TypeOK, Actors, recVars, manVars, histVars
<1>c. CASE RepairRename
  <2>1. PICK n \in todo["rec"] \intersect disk, ok \in BOOLEAN :
           /\ Ends(ok, "add", n.rec)
           /\ disk' = (disk \ {n}) \union {FileName(n.rec, "old", FALSE)}
           /\ work' \subseteq work \union {FileName(n.rec, "old", FALSE)}
           /\ old' = [old EXCEPT !["rec"] = FileName(n.rec, "old", FALSE)]
           /\ todo' = [todo EXCEPT !["rec"] = @ \ {n}]
    BY <1>c DEF RepairRename
  <2>2. FileName(n.rec, "old", FALSE) \in Names
    BY NameTyped, NameFields DEF TypeOK
  <2>3. failed' \subseteq Calls \X Recs
    BY <2>1, CallEnds, NameFields DEF TypeOK, Calls
  <2>. QED
    BY <1>c, <2>1, <2>2, <2>3 DEF RepairRename, TypeOK, Actors, recVars, manVars, histVars
<1>d. CASE RepairKeep
  BY <1>d DEF RepairKeep, EndRename, TypeOK, Actors, recVars, manVars, histVars
<1>e. CASE RepairFix
  <2>1. FileName(old["rec"].rec, "fix", FALSE) \in Names
    BY <1>e, NameTyped, NameFields DEF RepairFix, Recordings
  <2>2. failed' \subseteq Calls \X Recs
    BY <1>e, CallEnds, NameFields DEF RepairFix, Recordings, Calls
  <2>. QED
    BY <1>e, <2>1, <2>2
       DEF RepairFix, EndRename, TypeOK, Actors, recVars, manVars, histVars
<1>h. CASE RepairRenameFails
  <2>1. failed' \subseteq Calls \X Recs
    BY <1>h, CallFails, NameFields DEF RepairRenameFails, TypeOK, Calls
  <2>. QED
    BY <1>h, <2>1
       DEF RepairRenameFails, TypeOK, Actors, recVars, manVars, histVars
<1>i. CASE RepairFixFails
  <2>1. failed' \subseteq Calls \X Recs
    BY <1>i, CallEnds, NameFields DEF RepairFixFails, Recordings, Calls
  <2>. QED
    BY <1>i, <2>1
       DEF RepairFixFails, EndRename, TypeOK, Actors, recVars, manVars, histVars
<1>f. CASE RepairCommit
  BY <1>f DEF RepairCommit, TypeOK, RenamePcs, Actors, recVars, manVars, histVars
<1>g. CASE RepairBusy
  BY <1>g DEF RepairBusy, TypeOK, Actors, recVars, manVars, histVars
<1>. QED
  BY <1>a, <1>b, <1>c, <1>d, <1>e, <1>f, <1>g, <1>h, <1>i DEF Repair

\* The steps of the disk manager keep the types.
LEMMA ManagerTyped ==
    ASSUME TypeOK, DiskManager, Free \in Int
    PROVE  TypeOK'
PROOF
<1>. USE LibraryAssumption
<1>. HIDE DEF Free
<1>a. CASE ScanEnough
  <2>1. full' \in BOOLEAN
    BY <1>a DEF ScanEnough
  <2>2. counter' \in 0..AutoUnlock
    BY <1>a DEF ScanEnough
  <2>. QED
    BY <1>a, <2>1, <2>2 DEF ScanEnough, TypeOK, recVars, manVars, histVars
<1>b. CASE ScanLow
  BY <1>b DEF ScanLow, Begins, TypeOK, Actors, recVars, manVars, histVars
<1>c. CASE DelSelect
  BY <1>c DEF DelSelect, Oldest, Deletable, TypeOK, Actors, recVars, manVars, histVars
<1>d. CASE DelRemove
  <2>1. PICK n \in todo["man"] :
           /\ todo' = [todo EXCEPT !["man"] = @ \ {n}]
           /\ \/ disk' = disk \ {n} /\ UNCHANGED failed
              \/ n \in disk /\ Fails("remove", n.rec) /\ UNCHANGED disk
    BY <1>d DEF DelRemove
  <2>2. failed' \subseteq Calls \X Recs /\ disk' \subseteq disk
    BY <2>1, CallFails, NameFields DEF TypeOK, Calls
  <2>. QED
    BY <1>d, <2>1, <2>2 DEF DelRemove, TypeOK, Actors, recVars, manVars, histVars
<1>i. CASE DelSelectEnd
  BY <1>i DEF DelSelectEnd, TypeOK, Actors, recVars, manVars, histVars
<1>e. CASE DelRows
  BY <1>e DEF DelRows, TypeOK, Actors, recVars, manVars, histVars
<1>f. CASE DelAgain
  BY <1>f DEF DelAgain, TypeOK, Actors, recVars, manVars, histVars
<1>g. CASE DelEnough
  <2>1. full' \in BOOLEAN
    BY <1>g DEF DelEnough
  <2>. QED
    BY <1>g, <2>1 DEF DelEnough, TypeOK, RenamePcs, Actors, recVars, manVars, histVars
<1>h. CASE DiskFull
  BY <1>h DEF DiskFull, StartLock, LockQuery, TypeOK, RenamePcs, Actors, recVars, histVars
<1>. QED
  BY <1>a, <1>b, <1>c, <1>d, <1>e, <1>f, <1>g, <1>h, <1>i DEF DiskManager

\* Starting, a command and the crashes: the other steps keep the types.
LEMMA OtherTyped ==
    ASSUME TypeOK, LockCommand \/ CrashHdmodule \/ CrashDiskman
    PROVE  TypeOK'
PROOF
<1>. USE LibraryAssumption
<1>a. CASE LockCommand
  BY <1>a DEF LockCommand, StartLock, LockQuery, Begins, TypeOK, RenamePcs,
              Actors, recVars, manVars
<1>b. CASE CrashHdmodule
  BY <1>b DEF CrashHdmodule, EndRename, TypeOK, Actors, manVars
<1>c. CASE CrashDiskman
  <2>1. full' \in BOOLEAN
    BY <1>c DEF CrashDiskman
  <2>. QED
    BY <1>c, <2>1 DEF CrashDiskman, TypeOK, RenamePcs, Actors, recVars
<1>. QED
  BY <1>a, <1>b, <1>c

\* The disk holds finitely many files, so that the free space is a number.
LEMMA FreeTyped ==
    ASSUME TypeOK
    PROVE  Free \in Int
PROOF
<1>1. IsFiniteSet(Names)
  <2>1. IsFiniteSet(Recs)
    BY LibraryAssumption, FS_Interval DEF Recs
  <2>. DEFINE Kinds == {"ing", "avi", "old", "fix"}
              Parts == (Recs \X Kinds) \X BOOLEAN
              name(p) == FileName(p[1][1], p[1][2], p[2])
  <2>2. IsFiniteSet(Kinds) /\ IsFiniteSet(BOOLEAN)
    <3>1. Kinds = (({"ing"} \union {"avi"}) \union {"old"}) \union {"fix"}
      OBVIOUS
    <3>2. BOOLEAN = {TRUE} \union {FALSE}
      OBVIOUS
    <3>3. \A x : IsFiniteSet({x})
      BY FS_Singleton
    <3>4. \A S, T : IsFiniteSet(S) /\ IsFiniteSet(T) => IsFiniteSet(S \union T)
      BY FS_Union
    <3>5. IsFiniteSet(BOOLEAN)
      <4>1. IsFiniteSet({TRUE}) /\ IsFiniteSet({FALSE})
        BY <3>3, Zenon
      <4>2. IsFiniteSet({TRUE} \union {FALSE})
        BY <4>1, <3>4, Zenon
      <4>. QED
        BY <4>2, <3>2, Zenon
    <3>6. IsFiniteSet({"ing"} \union {"avi"})
      BY <3>3, <3>4
    <3>7. IsFiniteSet(({"ing"} \union {"avi"}) \union {"old"})
      BY <3>3, <3>4, <3>6
    <3>8. IsFiniteSet((({"ing"} \union {"avi"}) \union {"old"}) \union {"fix"})
      BY <3>3, <3>4, <3>7
    <3>. QED
      BY <3>1, <3>5, <3>8
  <2>3. IsFiniteSet(Parts)
    <3>1. IsFiniteSet(Recs \X Kinds)
      BY <2>1, <2>2, FS_Product
    <3>. QED
      BY <3>1, <2>2, FS_Product
  <2>4. Names \subseteq {name(p) : p \in Parts}
    <3>1. SUFFICES ASSUME NEW n \in Names
                   PROVE  \E p \in Parts : n = name(p)
      OBVIOUS
    <3>2. <<<<n.rec, n.kind>>, n.lock>> \in Parts
      BY NameFields
    <3>3. n = name(<<<<n.rec, n.kind>>, n.lock>>)
      BY DEF FileName, Names
    <3>. QED
      BY <3>2, <3>3
  <2>5. IsFiniteSet({name(p) : p \in Parts})
    <3>. HIDE DEF Parts, name
    <3>. DEFINE f == [p \in Parts |-> name(p)]
    <3>1. {name(p) : p \in Parts} = {f[p] : p \in Parts}
      OBVIOUS
    <3>2. f \in [Parts -> {name(p) : p \in Parts}]
      OBVIOUS
    <3>3. f \in Surjection(Parts, {name(p) : p \in Parts})
      BY <3>2 DEF Surjection
    <3>. QED
      BY <3>3, <2>3, FS_Surjection
  <2>. QED
    BY <2>4, <2>5, FS_Subset
<1>. QED
  BY <1>1, FS_Subset, FS_CardinalityType, LibraryAssumption DEF TypeOK, Free

-----------------------------------------------------------------------------
(* The arguments of a rename *)

\* A rename is begun with two names of one recording, and goes on with them.
LEMMA ArgumentsKept ==
    ASSUME TypeOK, Arguments, Selected, Written, Next
    PROVE  Arguments'
PROOF
<1>. SUFFICES ASSUME NEW a \in Actors, pc'[a] \in RenamingPcs
              PROVE  /\ old'[a] \in Names /\ new'[a] \in Names
                     /\ new'[a].rec = old'[a].rec /\ new'[a].kind # "ing"
  BY DEF Arguments
<1>. DEFINE Same == /\ pc[a] \in RenamingPcs
                    /\ old'[a] = old[a] /\ new'[a] = new[a]
<1>1. ASSUME NEW b \in Actors, RenameStep(b)
      PROVE  Same \/ LockNext(a)
  BY <1>1 DEF RenameStep, RenameAccess, RenameMissing, RenameAdd, RenameFile,
              RenameDel, EndRename, AfterRename, LockNext, TypeOK, RenamingPcs
<1>2. ASSUME Recorder
      PROVE  Same \/ (a = "rec" /\ CloseRecordFile)
  BY <1>2 DEF Recorder, CreateIndexRow, CreateOpen, CloseRecordFile,
              LockRecentFile, StartLock, TypeOK, RenamingPcs, Actors
<1>3. ASSUME Repair
      PROVE  Same
  BY <1>3 DEF Repair, RepairSelect, RepairMissing, RepairRename, RepairRenameFails, RepairKeep,
              RepairFix, RepairFixFails, RepairCommit, RepairBusy, EndRename, TypeOK,
              RenamingPcs, Actors
<1>4. ASSUME DiskManager
      PROVE  Same
  BY <1>4 DEF DiskManager, ScanEnough, ScanLow, DelSelect, DelRemove, DelSelectEnd, DelRows,
              DelAgain, DelEnough, DiskFull, StartLock, TypeOK,
              RenamingPcs, Actors
<1>5. ASSUME LockCommand \/ CrashHdmodule \/ CrashDiskman
      PROVE  Same
  BY <1>5 DEF LockCommand, StartLock, CrashHdmodule, CrashDiskman, EndRename,
              TypeOK, RenamingPcs, Actors
<1>6. CASE Same
  BY <1>6 DEF Arguments
<1>7. CASE LockNext(a)
  <2>1. PICK n \in todo[a] :
           /\ old' = [old EXCEPT ![a] = n]
           /\ new' = [new EXCEPT ![a] = FileName(n.rec, n.kind, ~n.lock)]
    BY <1>7 DEF LockNext
  <2>2. n \in Names /\ n.kind # "ing"
    BY <1>7 DEF LockNext, TypeOK, Selected, Actors
  <2>3. old'[a] = n /\ new'[a] = FileName(n.rec, n.kind, ~n.lock)
    BY <2>1 DEF TypeOK
  <2>4. new' \in [Actors -> Names \union {NoName}]
    BY <1>7, RenameTyped DEF RenameStep, TypeOK
  <2>5. new'[a].rec = n.rec /\ new'[a].kind = n.kind
    BY <2>3, NameParts
  <2>6. new'[a] \in Names
    BY <2>2, <2>4, <2>5, NameFields
  <2>. QED
    BY <2>2, <2>3, <2>5, <2>6
<1>8. CASE a = "rec" /\ CloseRecordFile
  <2>1. PICK lock \in BOOLEAN :
           new' = [new EXCEPT !["rec"] = FileName(cur.rec, "avi", lock)]
    BY <1>8 DEF CloseRecordFile
  <2>2. cur \in Names /\ old'[a] = cur
    BY <1>8 DEF CloseRecordFile, TypeOK
  <2>3. new'[a] = FileName(cur.rec, "avi", lock)
    BY <1>8, <2>1 DEF TypeOK
  <2>4. FileName(cur.rec, "avi", lock) \in Names
    BY <2>2, NameTyped, NameFields
  <2>. QED
    BY <2>2, <2>3, <2>4, NameParts
<1>. QED
  BY <1>1, <1>2, <1>3, <1>4, <1>5, <1>6, <1>7, <1>8 DEF Next

-----------------------------------------------------------------------------
(* What the actors have selected *)

\* Only closed files are selected for a lock or for removal.
LEMMA SelectedKept ==
    ASSUME TypeOK, Selected, Next
    PROVE  Selected'
PROOF
<1>0. NoName.kind # "ing"
  BY NameFields
<1>1. ASSUME NEW b \in Actors, RenameStep(b)
      PROVE  Selected'
  <2>1. CASE LockNext(b)
    BY <1>1, <2>1 DEF LockNext, Selected, TypeOK, Actors
  <2>. QED
    BY <1>0, <1>1, <2>1
       DEF RenameStep, RenameAccess, RenameMissing, RenameAdd, RenameFile,
           RenameDel, EndRename, AfterRename, Selected, TypeOK, Actors
<1>2. ASSUME Recorder
      PROVE  Selected'
  <2>1. CASE CreateIndexRow
    BY <2>1 DEF CreateIndexRow, Selected, TypeOK, Actors
  <2>2. CASE CreateOpen
    BY <2>2 DEF CreateOpen, Selected, TypeOK, Actors
  <2>3. CASE CloseRecordFile
    BY <2>3 DEF CloseRecordFile, Selected, TypeOK, Actors
  <2>4. CASE LockRecentFile
    BY <2>4 DEF LockRecentFile, StartLock, LockQuery, Selected, TypeOK, Actors
  <2>. QED
    BY <1>2, <2>1, <2>2, <2>3, <2>4 DEF Recorder
<1>3. ASSUME Repair
      PROVE  Selected'
  <2>1. /\ pc'["man"] = pc["man"]
        /\ \A a \in {"man", "cmd"} : old'[a] = old[a] /\ todo'[a] = todo[a]
    BY <1>3
       DEF Repair, RepairSelect, RepairMissing, RepairRename,
           RepairRenameFails, RepairKeep, RepairFix, RepairFixFails,
           RepairCommit, RepairBusy, EndRename, TypeOK, Actors
  <2>2. \/ pc'["rec"] \in {"repair", "fix"}
        \/ pc'["rec"] \in {"idle", "start"} /\ todo'["rec"] = {}
    BY <1>3
       DEF Repair, RepairSelect, RepairMissing, RepairRename,
           RepairRenameFails, RepairKeep, RepairFix, RepairFixFails,
           RepairCommit, RepairBusy, TypeOK, Actors
  <2>3. /\ pc'["rec"] \in {"repair", "fix"} =>
             \A n \in todo'["rec"] : n.kind = "ing"
        /\ pc'["rec"] = "fix" => old'["rec"].kind = "old"
    <3>1. CASE RepairSelect
      BY <3>1 DEF RepairSelect, TypeOK, Actors
    <3>2. CASE RepairRename
      <4>1. PICK n \in todo["rec"] :
               /\ old' = [old EXCEPT !["rec"] = FileName(n.rec, "old", FALSE)]
               /\ todo' = [todo EXCEPT !["rec"] = @ \ {n}]
        BY <3>2 DEF RepairRename
      <4>2. FileName(n.rec, "old", FALSE).kind = "old"
        BY DEF FileName
      <4>3. /\ old'["rec"] = FileName(n.rec, "old", FALSE)
            /\ todo'["rec"] \subseteq todo["rec"] /\ pc["rec"] = "repair"
        BY <3>2, <4>1 DEF RepairRename, TypeOK, Actors
      <4>. QED
        BY <4>2, <4>3 DEF Selected
    <3>3. CASE ~RepairSelect /\ ~RepairRename
      <4>1. /\ pc["rec"] \in {"repair", "fix"} /\ pc'["rec"] # "fix"
            /\ todo'["rec"] \subseteq todo["rec"]
        BY <1>3, <3>3
           DEF Repair, RepairMissing, RepairRenameFails, RepairKeep, RepairFix,
               RepairFixFails, RepairCommit, RepairBusy, TypeOK, Actors
      <4>. QED
        BY <4>1 DEF Selected
    <3>. QED
      BY <3>1, <3>2, <3>3
  <2>. QED
    BY <2>1, <2>2, <2>3 DEF Selected
<1>4. ASSUME DiskManager
      PROVE  Selected'
  <2>1. CASE DelSelect
    BY <2>1 DEF DelSelect, Oldest, Deletable, Selected, TypeOK, Actors
  <2>2. CASE DiskFull
    BY <2>2 DEF DiskFull, StartLock, LockQuery, Selected, TypeOK, Actors
  <2>. QED
    BY <1>4, <2>1, <2>2
       DEF DiskManager, ScanEnough, ScanLow, DelRemove, DelSelectEnd, DelRows, DelAgain,
           DelEnough, Selected, TypeOK, Actors
<1>5. ASSUME LockCommand \/ CrashHdmodule \/ CrashDiskman
      PROVE  Selected'
  BY <1>0, <1>5 DEF LockCommand, StartLock, LockQuery, CrashHdmodule,
              CrashDiskman, EndRename, Selected, TypeOK, Actors
<1>. QED
  BY <1>1, <1>2, <1>3, <1>4, <1>5 DEF Next

-----------------------------------------------------------------------------
(* One file per recording *)

\* A file that is replaced by another name of its recording: what is on the
\* disk has still begun, and each recording still has one file.
LEMMA Replaced ==
    ASSUME TypeOK, Recordings, NEW o \in disk, NEW f,
           f.rec = o.rec, disk' = (disk \ {o}) \union {f}
    PROVE  /\ OneFilePerRecording'
           /\ \A n \in disk' : \E m \in disk : n.rec = m.rec
PROOF BY DEF Recordings, OneFilePerRecording

\* Every recording on the disk keeps one file.
LEMMA RecordingsKept ==
    ASSUME TypeOK, Arguments, Recordings, Next
    PROVE  Recordings'
PROOF
<1>. USE LibraryAssumption
<1>0. /\ \A n \in disk : n.rec \in Int
      /\ next \in Int
  BY NameFields DEF TypeOK, Recs
<1>1. ASSUME NEW b \in Actors, RenameStep(b)
      PROVE  Recordings'
  <2>1. CASE RenameFile(b)
    <3>1. CASE old[b] \in disk
      <4>1. /\ OneFilePerRecording'
            /\ \A n \in disk' : \E m \in disk : n.rec = m.rec
        BY <2>1, <3>1, Replaced DEF RenameFile, Arguments, RenamingPcs
      <4>2. next' = next /\ (pc'["rec"] \in {"open", "fix"} =>
                               pc'["rec"] = pc["rec"] /\ old' = old)
        BY <2>1 DEF RenameFile, TypeOK, Actors, recVars
      <4>. QED
        BY <4>1, <4>2 DEF Recordings
    <3>2. CASE old[b] \notin disk
      BY <2>1, <3>2 DEF RenameFile, Recordings, OneFilePerRecording, TypeOK, Actors, recVars
    <3>. QED
      BY <3>1, <3>2
  <2>2. CASE ~RenameFile(b)
    <3>1. disk' = disk /\ next' = next
      BY <1>1, <2>2 DEF RenameStep, RenameAccess, RenameMissing, RenameAdd,
                        RenameDel, LockNext, recVars
    <3>2. pc'["rec"] \in {"open", "fix"} =>
            pc'["rec"] = pc["rec"] /\ old'["rec"] = old["rec"]
      BY <1>1, <2>2 DEF RenameStep, RenameAccess, RenameMissing, RenameAdd,
                        RenameDel, EndRename, AfterRename, LockNext, TypeOK,
                        Actors
    <3>. QED
      BY <3>1, <3>2 DEF Recordings, OneFilePerRecording
  <2>. QED
    BY <2>1, <2>2
<1>2. ASSUME Recorder
      PROVE  Recordings'
  <2>1. CASE CreateIndexRow
    BY <1>0, <2>1 DEF CreateIndexRow, Recordings, OneFilePerRecording, TypeOK, Actors
  <2>2. CASE CreateOpen
    <3>. DEFINE f == FileName(next - 1, "ing", FALSE)
    <3>1. f.rec = next - 1
      BY NameParts
    <3>2. pc["rec"] = "open" /\ next' = next /\ pc'["rec"] = "idle"
      BY <2>2 DEF CreateOpen, TypeOK, Actors
    <3>3. disk' = disk \/ disk' = disk \union {f}
      BY <2>2 DEF CreateOpen
    <3>. HIDE DEF f
    <3>. QED
      BY <1>0, <3>1, <3>2, <3>3 DEF Recordings, OneFilePerRecording
  <2>3. CASE CloseRecordFile
    BY <2>3 DEF CloseRecordFile, Recordings, OneFilePerRecording, TypeOK, Actors, recVars
  <2>4. CASE LockRecentFile
    BY <2>4 DEF LockRecentFile, StartLock, Recordings, OneFilePerRecording, TypeOK,
                Actors, recVars
  <2>. QED
    BY <1>2, <2>1, <2>2, <2>3, <2>4 DEF Recorder
<1>3. ASSUME Repair
      PROVE  Recordings'
  <2>0. next' = next
    BY <1>3 DEF Repair, RepairSelect, RepairMissing, RepairRename, RepairRenameFails, RepairKeep,
                RepairFix, RepairFixFails, RepairCommit, RepairBusy, recVars
  <2>1. CASE RepairRename
    <3>1. PICK n \in todo["rec"] \intersect disk :
             /\ disk' = (disk \ {n}) \union {FileName(n.rec, "old", FALSE)}
             /\ old' = [old EXCEPT !["rec"] = FileName(n.rec, "old", FALSE)]
      BY <2>1 DEF RepairRename
    <3>2. /\ OneFilePerRecording'
          /\ \A m \in disk' : \E k \in disk : m.rec = k.rec
      <4>. DEFINE f == FileName(n.rec, "old", FALSE)
      <4>1. f.rec = n.rec
        BY NameParts
      <4>. HIDE DEF f
      <4>. QED
        BY <3>1, <4>1, Replaced DEF f
    <3>3. old'["rec"] \in Names
      BY <3>1, NameTyped, NameFields DEF TypeOK, Actors
    <3>4. pc'["rec"] = "fix"
      BY <2>1 DEF RepairRename, TypeOK, Actors
    <3>. QED
      BY <2>0, <3>2, <3>3, <3>4 DEF Recordings
  <2>2. CASE RepairFix
    <3>. DEFINE o == old["rec"]
                f == FileName(o.rec, "fix", FALSE)
    <3>1. disk' = disk \/ (o \in disk /\ disk' = (disk \ {o}) \union {f})
      BY <2>2 DEF RepairFix
    <3>2. f.rec = o.rec
      BY NameParts
    <3>3. pc'["rec"] = "repair"
      BY <2>2 DEF RepairFix, TypeOK, Actors
    <3>4. /\ OneFilePerRecording'
          /\ \A m \in disk' : \E k \in disk : m.rec = k.rec
      <4>1. CASE disk' = disk
        BY <4>1 DEF Recordings, OneFilePerRecording
      <4>. QED
        BY <3>1, <3>2, <4>1, Replaced
    <3>. QED
      BY <2>0, <3>3, <3>4 DEF Recordings
  <2>. QED
    BY <1>3, <2>0, <2>1, <2>2
       DEF Repair, RepairSelect, RepairMissing, RepairRenameFails, RepairKeep, RepairFixFails, RepairCommit,
           RepairBusy, Recordings, OneFilePerRecording, TypeOK, Actors
<1>4. ASSUME DiskManager
      PROVE  Recordings'
  <2>1. disk' \subseteq disk /\ next' = next /\ old' = old
    BY <1>4 DEF DiskManager, ScanEnough, ScanLow, DelSelect, DelRemove, DelSelectEnd,
                DelRows, DelAgain, DelEnough, DiskFull, recVars
  <2>2. pc'["rec"] = pc["rec"]
    BY <1>4 DEF DiskManager, ScanEnough, ScanLow, DelSelect, DelRemove, DelSelectEnd,
                DelRows, DelAgain, DelEnough, DiskFull, StartLock, TypeOK, Actors
  <2>. QED
    BY <2>1, <2>2 DEF Recordings, OneFilePerRecording
<1>5. ASSUME LockCommand \/ CrashHdmodule \/ CrashDiskman
      PROVE  Recordings'
  BY <1>5 DEF LockCommand, StartLock, CrashHdmodule, CrashDiskman, EndRename,
              Recordings, OneFilePerRecording, TypeOK, Actors, recVars
<1>. QED
  BY <1>1, <1>2, <1>3, <1>4, <1>5 DEF Next

-----------------------------------------------------------------------------
(* The file being written and the repair *)

\* The parts of the invariant in terms of the recordings they except.
LEMMA WrittenParts ==
    /\ IngIndexed = (\A n \in disk : n.kind = "ing"
                        => n \in rows \/ n.rec \in Unfound)
    /\ NoStaleIng = (pc["rec"] \notin {"start", "repair", "fix"}
                        => \A n \in disk : n.kind = "ing"
                              => n = cur \/ n.rec \in Unrepaired)
PROOF BY DEF IngIndexed, NoStaleIng, Unfound, Unrepaired

\* The same of the next state.
LEMMA WrittenPartsNext ==
    /\ IngIndexed' = (\A n \in disk' : n.kind = "ing"
                        => n \in rows' \/ n.rec \in Unfound')
    /\ NoStaleIng' = (pc'["rec"] \notin {"start", "repair", "fix"}
                        => \A n \in disk' : n.kind = "ing"
                              => n = cur' \/ n.rec \in Unrepaired')
PROOF BY DEF IngIndexed, NoStaleIng, Unfound, Unrepaired

\* A step that leaves the recorder's place and file alone, takes from the
\* index no row of a file being written and puts no such file on the disk.
LEMMA WrittenFrame ==
    ASSUME Written, failed \subseteq failed',
           pc'["rec"] = pc["rec"], cur' = cur, next' = next, work' = work,
           old'["rec"] = old["rec"], todo'["rec"] = todo["rec"],
           \A n \in disk' : n.kind = "ing" => n \in disk,
           \A n \in rows : n.kind = "ing" => n \in rows'
    PROVE  Written'
PROOF
<1>1. FileName(next - 1, "ing", FALSE).kind = "ing"
  BY DEF FileName
<1>2. Unfound \subseteq Unfound' /\ Unrepaired \subseteq Unrepaired'
  BY FailedGrows
<1>. QED
  BY <1>1, <1>2, WrittenParts, WrittenPartsNext DEF Written

\* The recorder's own renames: closing a file, and locking recent ones.
LEMMA WrittenRename ==
    ASSUME TypeOK, Arguments, Written, failed \subseteq failed',
           RenameStep("rec")
    PROVE  Written'
PROOF
<1>. USE WrittenParts, WrittenPartsNext DEF Written
<1>0. "rec" \in Actors
  BY DEF Actors
<1>g. Unfound \subseteq Unfound' /\ Unrepaired \subseteq Unrepaired'
  BY FailedGrows
<1>u. Unfound \subseteq Unrepaired
  BY DEF Unfound, Unrepaired, Failed
<1>1. CASE RenameAccess("rec")
  BY <1>0, <1>g, <1>1 DEF RenameAccess, TypeOK, recVars
<1>2. CASE RenameMissing("rec")
  BY <1>0, <1>g, <1>2 DEF RenameMissing, AfterRename, TypeOK
<1>3. CASE RenameAdd("rec")
  <2>1. rows \subseteq rows'
    BY <1>3 DEF RenameAdd
  <2>. QED
    BY <1>0, <1>g, <1>3, <2>1 DEF RenameAdd, TypeOK, recVars
<1>4. CASE RenameFile("rec")
  <2>2. PICK ok \in BOOLEAN :
           /\ Ends(ok, "rename", old["rec"].rec)
           /\ disk' = IF ok /\ old["rec"] \in disk
                      THEN (disk \ {old["rec"]}) \union {new["rec"]} ELSE disk
    BY <1>4 DEF RenameFile
  <2>3. old["rec"].rec \in Recs /\ new["rec"].kind # "ing"
    BY <1>0, <1>4, NameFields DEF RenameFile, Arguments, RenamingPcs
  <2>4. ~ok => old["rec"].rec \in Unfound'
    BY <2>2, <2>3, CallEnds DEF Calls, Unfound, Failed
  <2>5. \A n \in disk' : n.kind = "ing" => n \in disk
    BY <2>2, <2>3
  <2>6. old["rec"].kind = "ing" =>
          old["rec"] \notin disk' \/ old["rec"].rec \in Unfound'
    BY <2>2, <2>3, <2>4
  <2>7. /\ pc'["rec"] = "del" /\ pc["rec"] = "rename" /\ old' = old
        /\ cur' = cur /\ rows' = rows
    BY <1>0, <1>4 DEF RenameFile, TypeOK, recVars
  <2>. QED
    BY <1>g, <2>5, <2>6, <2>7
<1>5. CASE RenameDel("rec")
  BY <1>0, <1>g, <1>u, <1>5 DEF RenameDel, AfterRename, TypeOK
<1>6. CASE LockNext("rec")
  BY <1>0, <1>g, <1>6 DEF LockNext, TypeOK, recVars
<1>. QED
  BY <1>1, <1>2, <1>3, <1>4, <1>5, <1>6 DEF RenameStep

\* A rename by the disk manager or a command touches no file being written.
LEMMA WrittenOthersRename ==
    ASSUME TypeOK, Arguments, Selected, Written, failed \subseteq failed',
           NEW b \in {"man", "cmd"}, RenameStep(b)
    PROVE  Written'
PROOF
<1>1. old[b].kind # "ing" /\ b \in Actors /\ b # "rec"
  BY DEF Selected, Actors
<1>2. /\ pc'["rec"] = pc["rec"] /\ old'["rec"] = old["rec"]
      /\ todo'["rec"] = todo["rec"] /\ next' = next /\ work' = work
  BY <1>1 DEF RenameStep, RenameAccess, RenameMissing, RenameAdd, RenameFile,
              RenameDel, EndRename, LockNext, TypeOK, Actors, recVars
<1>3. cur' = cur
  <2>1. old[b] = cur => cur = NoName
    BY <1>1 DEF Written
  <2>. QED
    BY <2>1 DEF RenameStep, RenameAccess, RenameMissing, RenameAdd, RenameFile,
                RenameDel, LockNext, recVars
<1>4. \A n \in disk' : n.kind = "ing" => n \in disk
  <2>1. CASE RenameFile(b)
    <3>1. new[b].kind # "ing"
      BY <1>1, <2>1 DEF RenameFile, Arguments, RenamingPcs
    <3>. QED
      BY <2>1, <3>1 DEF RenameFile
  <2>. QED
    BY <2>1 DEF RenameStep, RenameAccess, RenameMissing, RenameAdd, RenameDel,
                LockNext
<1>5. \A n \in rows : n.kind = "ing" => n \in rows'
  BY <1>1 DEF RenameStep, RenameAccess, RenameMissing, RenameAdd, RenameFile,
              RenameDel, LockNext
<1>. QED
  BY <1>2, <1>3, <1>4, <1>5, WrittenFrame

\* The row comes before the file, and the file is the only one.
LEMMA WrittenRecorder ==
    ASSUME TypeOK, Written, failed \subseteq failed', Recorder
    PROVE  Written'
PROOF
<1>. USE WrittenParts, WrittenPartsNext DEF Written
<1>0. "rec" \in Actors
  BY DEF Actors
<1>g. Unfound \subseteq Unfound' /\ Unrepaired \subseteq Unrepaired'
  BY FailedGrows
<1>u. Unfound \subseteq Unrepaired
  BY DEF Unfound, Unrepaired, Failed
<1>1. CASE CreateIndexRow
  <2>1. next' - 1 = next /\ next \in Recs
    BY <1>1, LibraryAssumption DEF CreateIndexRow, TypeOK, Recs
  <2>2. /\ pc["rec"] = "idle" /\ pc'["rec"] = "open"
        /\ cur' = cur /\ cur = NoName /\ disk' = disk /\ rows \subseteq rows'
    BY <1>0, <1>1 DEF CreateIndexRow, TypeOK
  <2>3. FileName(next, "ing", FALSE) \in rows' \/ next \in Unfound'
    <3>1. PICK ok \in BOOLEAN :
             /\ Ends(ok, "add", next)
             /\ rows' = IF ok THEN rows \union {FileName(next, "ing", FALSE)}
                              ELSE rows
      BY <1>1 DEF CreateIndexRow
    <3>2. ~ok => next \in Unfound'
      BY <2>1, <3>1, CallEnds DEF Calls, Unfound, Failed
    <3>. QED
      BY <3>1, <3>2
  <2>. QED
    BY <1>g, <2>1, <2>2, <2>3
<1>2. CASE CreateOpen
  <2>. DEFINE f == FileName(next - 1, "ing", FALSE)
  <2>1. f.kind = "ing" /\ f.rec = next - 1
    BY DEF FileName
  <2>2. /\ pc["rec"] = "open" /\ pc'["rec"] = "idle" /\ rows' = rows
        /\ \/ disk' = disk \union {f} /\ cur' = f
           \/ disk' = disk /\ cur' = cur
    BY <1>0, <1>2 DEF CreateOpen, TypeOK
  <2>3. cur = NoName /\ (f \in rows \/ next - 1 \in Unfound)
    BY <2>2
  <2>4. \A n \in disk : n.kind = "ing" => n.rec \in Unrepaired
    BY <2>2, <2>3, NameFields
  <2>. HIDE DEF f
  <2>. QED
    BY <1>g, <2>1, <2>2, <2>3, <2>4
<1>3. CASE CloseRecordFile
  BY <1>0, <1>g, <1>3 DEF CloseRecordFile, TypeOK, recVars
<1>4. CASE LockRecentFile
  BY <1>0, <1>g, <1>4 DEF LockRecentFile, StartLock, TypeOK, recVars
<1>. QED
  BY <1>1, <1>2, <1>3, <1>4 DEF Recorder

\* A repair handles every file that was being written, and its changes to
\* the index go with the ones on the disk; a file it cannot rename keeps its
\* row.
LEMMA WrittenRepair ==
    ASSUME TypeOK, Recordings, Written, failed \subseteq failed', Repair
    PROVE  Written'
PROOF
<1>. USE WrittenParts, WrittenPartsNext DEF Written
<1>0. "rec" \in Actors
  BY DEF Actors
<1>g. Unfound \subseteq Unfound' /\ Unrepaired \subseteq Unrepaired'
  BY FailedGrows
<1>u. Unfound \subseteq Unrepaired
  BY DEF Unfound, Unrepaired, Failed
<1>1. CASE RepairSelect
  BY <1>0, <1>g, <1>u, <1>1 DEF RepairSelect, TypeOK, recVars
<1>2. CASE RepairMissing
  BY <1>0, <1>g, <1>2 DEF RepairMissing, TypeOK, recVars
<1>3. CASE RepairRename
  <2>1. PICK n \in todo["rec"] \intersect disk :
           /\ disk' = (disk \ {n}) \union {FileName(n.rec, "old", FALSE)}
           /\ work \ {n} \subseteq work'
           /\ todo' = [todo EXCEPT !["rec"] = @ \ {n}]
    BY <1>3 DEF RepairRename
  <2>2. FileName(n.rec, "old", FALSE).kind = "old"
    BY DEF FileName
  <2>3. /\ pc["rec"] = "repair" /\ pc'["rec"] = "fix"
        /\ cur' = cur /\ rows' = rows
    BY <1>0, <1>3 DEF RepairRename, TypeOK, recVars
  <2>4. todo'["rec"] = todo["rec"] \ {n}
    BY <1>0, <2>1 DEF TypeOK
  <2>. QED
    BY <1>g, <2>1, <2>2, <2>3, <2>4
<1>4. CASE RepairKeep
  BY <1>0, <1>g, <1>4 DEF RepairKeep, TypeOK, recVars
<1>5. CASE RepairFix
  <2>. DEFINE f == FileName(old["rec"].rec, "fix", FALSE)
  <2>1. f.kind = "fix"
    BY DEF FileName
  <2>2. /\ disk' = (disk \ {old["rec"]}) \union {f}
        /\ work \ {old["rec"]} \subseteq work'
    BY <1>5 DEF RepairFix
  <2>. HIDE DEF f
  <2>. QED
    BY <1>0, <1>g, <1>5, <2>1, <2>2 DEF RepairFix, TypeOK, recVars
<1>6. CASE RepairCommit
  BY <1>0, <1>g, <1>6 DEF RepairCommit, TypeOK, recVars
<1>7. CASE RepairBusy
  BY <1>0, <1>g, <1>7 DEF RepairBusy, TypeOK, recVars
<1>8. CASE RepairRenameFails
  <2>1. PICK n \in todo["rec"] \intersect disk :
           /\ Fails("repair", n.rec)
           /\ work' = work \ {FileName(n.rec, "old", FALSE)}
           /\ todo' = [todo EXCEPT !["rec"] = @ \ {n}]
    BY <1>8 DEF RepairRenameFails
  <2>2. FileName(n.rec, "old", FALSE).kind = "old"
    BY DEF FileName
  <2>3. n.rec \in Unrepaired'
    <3>1. n.rec \in Recs
      BY NameFields DEF TypeOK
    <3>. QED
      BY <2>1, <3>1, CallFails DEF Calls, Unrepaired, Failed
  <2>. QED
    BY <1>0, <1>g, <1>8, <2>1, <2>2, <2>3 DEF RepairRenameFails, TypeOK, recVars
<1>9. CASE RepairFixFails
  <2>. DEFINE f == FileName(old["rec"].rec, "fix", FALSE)
  <2>1. f.kind = "fix"
    BY DEF FileName
  <2>2. work' = work \ {f}
    BY <1>9 DEF RepairFixFails
  <2>. HIDE DEF f
  <2>. QED
    BY <1>0, <1>g, <1>9, <2>1, <2>2 DEF RepairFixFails, TypeOK, recVars
<1>. QED
  BY <1>1, <1>2, <1>3, <1>4, <1>5, <1>6, <1>7, <1>8, <1>9 DEF Repair

\* The other steps.
LEMMA WrittenOther ==
    ASSUME TypeOK, Written, Selected, failed \subseteq failed',
           DiskManager \/ LockCommand \/ CrashHdmodule \/ CrashDiskman
    PROVE  Written'
PROOF
<1>1. CASE DiskManager
  <2>1. /\ pc'["rec"] = pc["rec"] /\ old' = old /\ todo'["rec"] = todo["rec"]
    BY <1>1 DEF DiskManager, ScanEnough, ScanLow, DelSelect, DelRemove, DelSelectEnd,
                DelRows, DelAgain, DelEnough, DiskFull, StartLock, TypeOK, Actors
  <2>2. /\ disk' \subseteq disk /\ cur' = cur /\ next' = next /\ work' = work
        /\ \A n \in rows : n.kind = "ing" => n \in rows'
    BY <1>1 DEF DiskManager, ScanEnough, ScanLow, DelSelect, DelRemove, DelSelectEnd,
                DelRows, DelAgain, DelEnough, DiskFull, Oldest, Deletable, recVars
  <2>. QED
    BY <2>1, <2>2, WrittenFrame
<1>2. CASE LockCommand
  <2>1. /\ pc'["rec"] = pc["rec"] /\ old' = old /\ todo'["rec"] = todo["rec"]
        /\ disk' = disk /\ cur' = cur /\ next' = next /\ work' = work
        /\ rows' = rows
    BY <1>2 DEF LockCommand, StartLock, TypeOK, Actors, recVars
  <2>. QED
    BY <2>1, WrittenFrame
<1>3. CASE CrashHdmodule
  <2>1. /\ pc'["rec"] = "start" /\ cur' = NoName /\ disk' = disk /\ rows' = rows
    BY <1>3 DEF CrashHdmodule, TypeOK, Actors
  <2>2. Unfound \subseteq Unfound'
    BY FailedGrows
  <2>. QED
    BY <2>1, <2>2, WrittenParts, WrittenPartsNext DEF Written
<1>4. CASE CrashDiskman
  <2>1. /\ pc'["rec"] = pc["rec"] /\ old'["rec"] = old["rec"]
        /\ todo'["rec"] = todo["rec"]
        /\ disk' = disk /\ cur' = cur /\ next' = next /\ work' = work
        /\ rows' = rows
    BY <1>4 DEF CrashDiskman, TypeOK, Actors, recVars
  <2>. QED
    BY <2>1, WrittenFrame
<1>. QED
  BY <1>1, <1>2, <1>3, <1>4

-----------------------------------------------------------------------------
(* The theorems *)

\* The first state, with an empty partition.
LEMMA LibInit == Init => LibInv
PROOF
<1>. SUFFICES ASSUME Init PROVE LibInv
  OBVIOUS
<1>1. TypeOK
  <2>1. full \in BOOLEAN /\ raced \in BOOLEAN /\ torn \in BOOLEAN
    BY DEF Init
  <2>2. /\ next \in 1..MaxRecs + 1 /\ occupied \in Int
        /\ counter \in 0..AutoUnlock /\ cmds \in 0..MaxCmds
        /\ crashes \in 0..MaxCrashes
    BY LibraryAssumption DEF Init
  <2>. QED
    BY <2>1, <2>2 DEF Init, TypeOK, RenamePcs, Actors
<1>2. Arguments /\ Selected
  BY NameFields DEF Init, Arguments, RenamingPcs, Selected, Actors
<1>3. Recordings /\ Written
  BY DEF Init, Recordings, OneFilePerRecording, Written, IngIndexed,
         NoStaleIng, Actors
<1>. QED
  BY <1>1, <1>2, <1>3 DEF LibInv

\* A step of any process keeps the invariant.
LEMMA LibStep == LibInv /\ [Next]_vars => LibInv'
PROOF
<1>. SUFFICES ASSUME LibInv, [Next]_vars PROVE LibInv'
  OBVIOUS
<1>. USE DEF LibInv
<1>1. CASE Next
  <2>1. TypeOK'
    BY <1>1, RenameTyped, RecorderTyped, RepairTyped, FreeTyped, ManagerTyped,
       OtherTyped DEF Next
  <2>2. Arguments'
    BY <1>1, ArgumentsKept
  <2>3. Selected'
    BY <1>1, SelectedKept
  <2>4. Recordings'
    BY <1>1, RecordingsKept
  <2>5. Written'
    <3>1. \A a \in Actors : a = "rec" \/ a \in {"man", "cmd"}
      BY DEF Actors
    <3>2. failed \subseteq failed'
      BY <1>1, HistoryKept
    <3>. QED
      BY <1>1, <3>1, <3>2, WrittenRename, WrittenOthersRename, WrittenRecorder,
         WrittenRepair, WrittenOther DEF Next
  <2>. QED
    BY <2>1, <2>2, <2>3, <2>4, <2>5
<1>2. CASE UNCHANGED vars
  <2>1. TypeOK'
    BY <1>2 DEF vars, TypeOK
  <2>2. Arguments' /\ Selected'
    BY <1>2 DEF vars, Arguments, Selected
  <2>3. Recordings'
    BY <1>2 DEF vars, Recordings, OneFilePerRecording
  <2>4. Written'
    BY <1>2 DEF vars, Written, IngIndexed, NoStaleIng, Unfound, Unrepaired,
                Failed
  <2>. QED
    BY <2>1, <2>2, <2>3, <2>4
<1>. QED
  BY <1>1, <1>2

\* The invariant holds of every behaviour of the two processes.
LEMMA LibraryInvariant == Spec => []LibInv
PROOF BY LibInit, LibStep, PTL DEF Spec

\* Every variable keeps its type, whatever the number of recordings.
THEOREM LibraryTypeCorrect == Spec => []TypeOK
PROOF BY LibraryInvariant, PTL DEF LibInv

\* create_record_file enters a file in the index before it creates it, and
\* nothing takes the row away while the file has that name, not even a repair
\* that fails to rename it: a file that was being written when the process
\* died is found by the repair, unless its own insert (hdmod.c:2648) or the
\* rename at its close (fileindex.c:575) had failed.
THEOREM RecordingsRecoverable == Spec => []IngIndexed
PROOF
<1>1. LibInv => IngIndexed
  BY DEF LibInv, Written
<1>. QED
  BY <1>1, LibraryInvariant, PTL

\* Once fileindex_convert_ing has ended, through any number of crashes, the
\* only files with an .ING name are the one being written and those on which
\* a call had failed: at the insert of the row, at the close, or in the repair
\* (fileindex.c:875-882).
THEOREM RepairIsComplete == Spec => []NoStaleIng
PROOF
<1>1. LibInv => NoStaleIng
  BY DEF LibInv, Written
<1>. QED
  BY <1>1, LibraryInvariant, PTL

\* However renames, repairs and removals interleave, a recording has at most
\* one file.
THEOREM OneNameOnDisk == Spec => []OneFilePerRecording
PROOF
<1>1. LibInv => OneFilePerRecording
  BY DEF LibInv, Recordings
<1>. QED
  BY <1>1, LibraryInvariant, PTL

\* Only the removal by the disk manager takes a recording from the disk: a
\* rename, whoever does it, leaves it there under its other name.
LEMMA OnlyDelRemoves ==
    ASSUME LibInv, Next, ~DelRemove, NEW n \in disk
    PROVE  \E m \in disk' : m.rec = n.rec
PROOF
<1>. USE DEF LibInv
<1>1. ASSUME NEW b \in Actors, RenameStep(b)
      PROVE  \E m \in disk' : m.rec = n.rec
  <2>1. CASE RenameFile(b)
    <3>1. new[b].rec = old[b].rec
      BY <2>1 DEF RenameFile, Arguments, RenamingPcs
    <3>. QED
      BY <2>1, <3>1 DEF RenameFile
  <2>. QED
    BY <1>1, <2>1 DEF RenameStep, RenameAccess, RenameMissing, RenameAdd,
                      RenameDel, LockNext
<1>2. ASSUME Recorder
      PROVE  \E m \in disk' : m.rec = n.rec
  <2>1. disk \subseteq disk'
    BY <1>2 DEF Recorder, CreateIndexRow, CreateOpen, CloseRecordFile,
                LockRecentFile
  <2>. QED
    BY <2>1
<1>3. ASSUME Repair
      PROVE  \E m \in disk' : m.rec = n.rec
  <2>1. CASE RepairRename
    <3>1. PICK k \in todo["rec"] \intersect disk :
             disk' = (disk \ {k}) \union {FileName(k.rec, "old", FALSE)}
      BY <2>1 DEF RepairRename
    <3>2. FileName(k.rec, "old", FALSE).rec = k.rec
      BY DEF FileName
    <3>. QED
      BY <3>1, <3>2
  <2>2. CASE RepairFix
    <3>. DEFINE o == old["rec"]
                f == FileName(o.rec, "fix", FALSE)
    <3>1. o \in disk /\ disk' = (disk \ {o}) \union {f}
      BY <2>2 DEF RepairFix
    <3>2. f.rec = o.rec
      BY DEF FileName
    <3>. HIDE DEF f, o
    <3>. QED
      BY <3>1, <3>2
  <2>. QED
    BY <1>3, <2>1, <2>2 DEF Repair, RepairSelect, RepairMissing, RepairRenameFails, RepairKeep, RepairFixFails,
                            RepairCommit, RepairBusy
<1>4. ASSUME DiskManager
      PROVE  \E m \in disk' : m.rec = n.rec
  BY <1>4 DEF DiskManager, ScanEnough, ScanLow, DelSelect, DelSelectEnd,
              DelRows, DelAgain, DelEnough, DiskFull
<1>5. ASSUME LockCommand \/ CrashHdmodule \/ CrashDiskman
      PROVE  \E m \in disk' : m.rec = n.rec
  BY <1>5 DEF LockCommand, CrashHdmodule, CrashDiskman
<1>. QED
  BY <1>1, <1>2, <1>3, <1>4, <1>5 DEF Next

\* fileindex_del_oldest removes finished, unlocked recordings only: the names
\* it has selected are those of unlocked files, and a file that was locked
\* since then has another name.
THEOREM LockedRecordingsKept == Spec => OnlyUnlockedRemoved
PROOF
<1>1. ASSUME LibInv, Next,
             NEW r \in Recs, OnDisk(r) # {}, OnDisk(r)' = {},
             NEW n \in OnDisk(r)
      PROVE  n.kind # "ing" /\ ~n.lock
  <2>1. n \in disk /\ n.rec = r
    BY DEF OnDisk
  <2>2. \A m \in disk' : m.rec # r
    BY <1>1 DEF OnDisk
  <2>3. DelRemove
    BY <1>1, <2>1, <2>2, OnlyDelRemoves
  <2>4. n \in todo["man"] /\ pc["man"] = "remove"
    BY <2>1, <2>2, <2>3 DEF DelRemove
  <2>. QED
    BY <1>1, <2>4 DEF LibInv, Selected
<1>2. LibInv /\ [Next]_vars =>
        [\A r \in Recs : OnDisk(r) # {} /\ OnDisk(r)' = {}
            => \A n \in OnDisk(r) : n.kind # "ing" /\ ~n.lock]_vars
  BY <1>1
<1>. QED
  BY <1>2, LibraryInvariant, PTL DEF Spec, OnlyUnlockedRemoved

-----------------------------------------------------------------------------
(* Every file has its row *)

\* A rename gives the file another name.
NewDiffers == \A a \in Actors : pc[a] \in RenamingPcs => new[a] # old[a]

\* One operation at a time; a recorder that has just been started again waits
\* with its repair.
Alone == \A a, b \in Actors :
            a # b => pc[a] \in {"idle", "start"} \/ pc[b] \in {"idle", "start"}

\* What an operation has done so far: the row of the new name is there before
\* the file has that name, the row of the old one goes after it, and the rows
\* the second statement of fileindex_del_oldest finds are those of the files
\* the first one removed; all this but for the recordings a call failed on.
Halfway ==
    /\ \A a \in Actors :
          /\ pc[a] = "rename" => new[a] \in rows \/ new[a].rec \in Unindexed
          /\ pc[a] = "del" => old[a] \notin disk \/ old[a].rec \in Unindexed
    /\ pc["man"] = "remove" =>
          \A n \in Oldest(rows) \intersect disk :
             n \in todo["man"] \/ n.rec \in Unindexed
    /\ pc["man"] = "delete" =>
          \A n \in Oldest(rows) \intersect disk : n.rec \in Unindexed
    /\ pc["rec"] = "fix" => old["rec"] \in disk

\* The files that an index of these rows does not miss for no reason.
IndexedBy(index) == \A n \in disk : n \in index \/ n.rec \in Unindexed

\* Every file has its row, in the transaction of the repair if there is one.
Indexed == IF Repairing THEN IndexedBy(work) ELSE IndexedBy(rows)

IndexInv == /\ NewDiffers
            /\ ~raced /\ ~torn => Alone /\ Halfway /\ Indexed

\* The names of a rename differ: a lock turns the '@' of the name over, and a
\* file that is closed loses its .ING.
LEMMA NewDiffersKept ==
    ASSUME TypeOK, Written, NewDiffers, Next
    PROVE  NewDiffers'
PROOF
<1>. SUFFICES ASSUME NEW a \in Actors, pc'[a] \in RenamingPcs
              PROVE  new'[a] # old'[a]
  BY DEF NewDiffers
<1>. DEFINE Same == /\ pc[a] \in RenamingPcs
                    /\ old'[a] = old[a] /\ new'[a] = new[a]
<1>1. ASSUME NEW b \in Actors, RenameStep(b)
      PROVE  Same \/ LockNext(a)
  BY <1>1 DEF RenameStep, RenameAccess, RenameMissing, RenameAdd, RenameFile,
              RenameDel, EndRename, AfterRename, LockNext, TypeOK, RenamingPcs
<1>2. ASSUME Recorder
      PROVE  Same \/ (a = "rec" /\ CloseRecordFile)
  BY <1>2 DEF Recorder, CreateIndexRow, CreateOpen, CloseRecordFile,
              LockRecentFile, StartLock, TypeOK, RenamingPcs, Actors
<1>3. ASSUME Repair
      PROVE  Same
  BY <1>3 DEF Repair, RepairSelect, RepairMissing, RepairRename, RepairRenameFails, RepairKeep,
              RepairFix, RepairFixFails, RepairCommit, RepairBusy, EndRename, TypeOK,
              RenamingPcs, Actors
<1>4. ASSUME DiskManager
      PROVE  Same
  BY <1>4 DEF DiskManager, ScanEnough, ScanLow, DelSelect, DelRemove, DelSelectEnd, DelRows,
              DelAgain, DelEnough, DiskFull, StartLock, TypeOK,
              RenamingPcs, Actors
<1>5. ASSUME LockCommand \/ CrashHdmodule \/ CrashDiskman
      PROVE  Same
  BY <1>5 DEF LockCommand, StartLock, CrashHdmodule, CrashDiskman, EndRename,
              TypeOK, RenamingPcs, Actors
<1>6. CASE Same
  BY <1>6 DEF NewDiffers
<1>7. CASE LockNext(a)
  <2>1. PICK n \in todo[a] :
           /\ old' = [old EXCEPT ![a] = n]
           /\ new' = [new EXCEPT ![a] = FileName(n.rec, n.kind, ~n.lock)]
    BY <1>7 DEF LockNext
  <2>2. old'[a] = n /\ new'[a] = FileName(n.rec, n.kind, ~n.lock)
    BY <2>1 DEF TypeOK
  <2>3. FileName(n.rec, n.kind, ~n.lock).lock = (~n.lock)
    BY NameParts
  <2>. HIDE DEF FileName
  <2>4. n.lock \in BOOLEAN
    BY NameFields DEF TypeOK
  <2>5. FileName(n.rec, n.kind, ~n.lock).lock # n.lock
    BY <2>3, <2>4
  <2>. QED
    BY <2>2, <2>5
<1>8. CASE a = "rec" /\ CloseRecordFile
  <2>1. PICK lock \in BOOLEAN :
           new' = [new EXCEPT !["rec"] = FileName(cur.rec, "avi", lock)]
    BY <1>8 DEF CloseRecordFile
  <2>2. old'[a] = cur /\ new'[a] = FileName(cur.rec, "avi", lock)
    BY <1>8, <2>1 DEF CloseRecordFile, TypeOK
  <2>3. cur.kind = "ing"
    BY <1>8 DEF CloseRecordFile, Written
  <2>4. FileName(cur.rec, "avi", lock).kind = "avi"
    BY NameParts
  <2>. QED
    BY <2>2, <2>3, <2>4
<1>. QED
  BY <1>1, <1>2, <1>3, <1>4, <1>5, <1>6, <1>7, <1>8 DEF Next

\* What a step does to the places of the actors: nobody becomes busy, or one
\* does, having found the others idle (or else the step is a race).
LEMMA BusySteps ==
    ASSUME TypeOK, Next, ~raced'
    PROVE  /\ ~raced
           /\ \/ \A b \in Actors : \/ pc[b] \notin {"idle", "start"}
                                   \/ pc'[b] \in {"idle", "start"}
              \/ \E a \in Actors : \A b \in Actors \ {a} :
                    pc[b] = "idle" /\ pc'[b] = "idle"
PROOF
<1>. USE DEF TypeOK
<1>1. ASSUME NEW a \in Actors, RenameStep(a)
      PROVE  /\ raced' = raced
             /\ \A b \in Actors : pc[b] \notin {"idle", "start"}
                                  \/ pc'[b] \in {"idle", "start"}
  BY <1>1 DEF RenameStep, RenameAccess, RenameMissing, RenameAdd, RenameFile,
              RenameDel, LockNext
<1>2. ASSUME NEW a \in Actors, Begins(a),
             \A b \in Actors \ {a} : pc'[b] = pc[b]
      PROVE  /\ ~raced
             /\ \A b \in Actors \ {a} : pc[b] = "idle" /\ pc'[b] = "idle"
  BY <1>2 DEF Begins
<1>3. ASSUME Recorder
      PROVE  \/ /\ raced' = raced
                /\ \A b \in Actors : pc[b] \notin {"idle", "start"}
                                     \/ pc'[b] \in {"idle", "start"}
             \/ Begins("rec") /\ \A b \in Actors \ {"rec"} : pc'[b] = pc[b]
  BY <1>3 DEF Recorder, CreateIndexRow, CreateOpen, CloseRecordFile,
              LockRecentFile, StartLock, Actors
<1>4. ASSUME Repair
      PROVE  \/ /\ raced' = raced
                /\ \A b \in Actors : pc[b] \notin {"idle", "start"}
                                     \/ pc'[b] \in {"idle", "start"}
             \/ Begins("rec") /\ \A b \in Actors \ {"rec"} : pc'[b] = pc[b]
  BY <1>4 DEF Repair, RepairSelect, RepairMissing, RepairRename, RepairRenameFails, RepairKeep,
              RepairFix, RepairFixFails, RepairCommit, RepairBusy, Actors
<1>5. ASSUME DiskManager
      PROVE  \/ /\ raced' = raced
                /\ \A b \in Actors : pc[b] \notin {"idle", "start"}
                                     \/ pc'[b] \in {"idle", "start"}
             \/ Begins("man") /\ \A b \in Actors \ {"man"} : pc'[b] = pc[b]
  BY <1>5 DEF DiskManager, ScanEnough, ScanLow, DelSelect, DelRemove, DelSelectEnd, DelRows,
              DelAgain, DelEnough, DiskFull, StartLock, Actors
<1>6. ASSUME LockCommand
      PROVE  Begins("cmd") /\ \A b \in Actors \ {"cmd"} : pc'[b] = pc[b]
  BY <1>6 DEF LockCommand, StartLock, Actors
<1>7. ASSUME CrashHdmodule \/ CrashDiskman
      PROVE  /\ raced' = raced
             /\ \A b \in Actors : pc[b] \notin {"idle", "start"}
                                  \/ pc'[b] \in {"idle", "start"}
  BY <1>7 DEF CrashHdmodule, CrashDiskman, Actors
<1>8. "rec" \in Actors /\ "man" \in Actors /\ "cmd" \in Actors
  BY DEF Actors
<1>. HIDE DEF TypeOK
<1>. QED
  BY <1>1, <1>2, <1>3, <1>4, <1>5, <1>6, <1>7, <1>8 DEF Next

\* While nothing has raced, one operation runs at a time.
LEMMA AloneKept ==
    ASSUME TypeOK, Next, ~raced', Alone
    PROVE  Alone'
PROOF BY BusySteps DEF Alone

\* The actor of a step that is not a beginning is the only one at work.
LEMMA OthersRest ==
    ASSUME Alone, NEW a \in Actors, pc[a] \notin {"idle", "start"}
    PROVE  \A b \in Actors \ {a} : pc[b] \in {"idle", "start"}
PROOF BY DEF Alone

\* The steps of a rename: the row of the new name comes first, the row of the
\* old name goes last.
LEMMA RenameIndexed ==
    ASSUME TypeOK, Arguments, NewDiffers, Alone, Halfway, Indexed,
           failed \subseteq failed', NEW a \in Actors, RenameStep(a)
    PROVE  Halfway' /\ Indexed'
PROOF
<1>. USE DEF TypeOK
<1>1. pc[a] \in RenamingPcs \union {"lock"}
  BY DEF RenameStep, RenameAccess, RenameMissing, RenameAdd, RenameFile,
         RenameDel, LockNext, RenamingPcs
<1>2. \A b \in Actors \ {a} : pc[b] \in {"idle", "start"}
  BY <1>1, OthersRest DEF RenamingPcs
<1>3. /\ pc'[a] \in RenamingPcs \union {"lock", "idle"}
      /\ \A b \in Actors \ {a} : pc'[b] = pc[b]
  BY DEF RenameStep, RenameAccess, RenameMissing, RenameAdd, RenameFile,
         RenameDel, LockNext, AfterRename, RenamingPcs
<1>4. "man" \in Actors /\ "rec" \in Actors
  BY DEF Actors
<1>5. ~Repairing /\ ~Repairing'
  BY <1>1, <1>2, <1>3, <1>4 DEF Repairing, RenamingPcs
<1>6. pc'["man"] \notin {"remove", "delete"}
  BY <1>2, <1>3, <1>4 DEF RenamingPcs
<1>g. Unindexed \subseteq Unindexed'
  BY FailedGrows
<1>7. SUFFICES
        /\ pc'[a] = "rename" => new'[a] \in rows' \/ new'[a].rec \in Unindexed'
        /\ pc'[a] = "del" => old'[a] \notin disk' \/ old'[a].rec \in Unindexed'
        /\ \A n \in disk' : n \in rows' \/ n.rec \in Unindexed'
  BY <1>2, <1>3, <1>4, <1>5, <1>6 DEF Halfway, Indexed, IndexedBy, RenamingPcs
<1>8. \A n \in disk : n \in rows \/ n.rec \in Unindexed'
  BY <1>5, <1>g DEF Indexed, IndexedBy
<1>9. pc[a] \in RenamingPcs => /\ new[a].rec = old[a].rec
                              /\ old[a].rec \in Recs
  BY NameFields DEF Arguments
<1>a. CASE RenameAccess(a)
  BY <1>a, <1>8 DEF RenameAccess
<1>b. CASE RenameMissing(a)
  BY <1>b, <1>8 DEF RenameMissing, AfterRename
<1>c. CASE RenameAdd(a)
  <2>1. PICK ok \in BOOLEAN :
           /\ Ends(ok, "add", new[a].rec)
           /\ rows' = IF ok THEN rows \union {new[a]} ELSE rows
    BY <1>c DEF RenameAdd
  <2>2. ~ok => new[a].rec \in Unindexed'
    BY <1>c, <1>9, <2>1, CallEnds
       DEF RenameAdd, RenamingPcs, Calls, Unindexed, Failed
  <2>3. /\ disk' = disk /\ new' = new /\ pc'[a] = "rename"
    BY <1>c DEF RenameAdd
  <2>. QED
    BY <1>8, <2>1, <2>2, <2>3
<1>d. CASE RenameFile(a)
  <2>1. new[a] # old[a] /\ (new[a] \in rows \/ new[a].rec \in Unindexed')
    BY <1>d, <1>g DEF RenameFile, Halfway, NewDiffers, RenamingPcs
  <2>2. PICK ok \in BOOLEAN :
           /\ Ends(ok, "rename", old[a].rec)
           /\ disk' = IF ok /\ old[a] \in disk
                      THEN (disk \ {old[a]}) \union {new[a]} ELSE disk
    BY <1>d DEF RenameFile
  <2>3. ~ok => old[a].rec \in Unindexed'
    BY <1>d, <1>9, <2>2, CallEnds
       DEF RenameFile, RenamingPcs, Calls, Unindexed, Failed
  <2>4. /\ rows' = rows /\ old' = old /\ pc'[a] = "del"
    BY <1>d DEF RenameFile
  <2>. QED
    BY <1>8, <2>1, <2>2, <2>3, <2>4
<1>e. CASE RenameDel(a)
  <2>1. old[a] \notin disk \/ old[a].rec \in Unindexed'
    BY <1>e, <1>g DEF RenameDel, Halfway
  <2>. QED
    BY <1>e, <1>8, <2>1 DEF RenameDel, AfterRename
<1>f. CASE LockNext(a)
  BY <1>f, <1>8 DEF LockNext
<1>. QED
  BY <1>a, <1>b, <1>c, <1>d, <1>e, <1>f DEF RenameStep

\* The recorder: the row of a file is entered before the file is created.
LEMMA RecorderIndexed ==
    ASSUME TypeOK, Written, Alone, Halfway, Indexed,
           failed \subseteq failed', ~raced', Recorder
    PROVE  Halfway' /\ Indexed'
PROOF
<1>. USE DEF TypeOK
<1>0. "man" \in Actors /\ "rec" \in Actors
  BY DEF Actors
<1>1. pc["rec"] \in {"idle", "open"} /\ pc'["rec"] \in {"idle", "open", "access", "lock"}
  BY <1>0 DEF Recorder, CreateIndexRow, CreateOpen, CloseRecordFile,
         LockRecentFile, StartLock
<1>2. \A b \in Actors \ {"rec"} :
         pc'[b] = pc[b] /\ todo'[b] = todo[b] /\ old'[b] = old[b] /\ new'[b] = new[b]
  BY DEF Recorder, CreateIndexRow, CreateOpen, CloseRecordFile,
         LockRecentFile, StartLock, Actors
<1>g. Unindexed \subseteq Unindexed'
  BY FailedGrows
<1>3. \A n \in disk : n \in rows \/ n.rec \in Unindexed'
  BY <1>1, <1>g DEF Indexed, IndexedBy, Repairing
<1>4. \A n \in disk' : n \in rows' \/ n.rec \in Unindexed'
  <2>1. CASE CreateOpen
    <3>. DEFINE f == FileName(next - 1, "ing", FALSE)
    <3>1. f.rec = next - 1
      BY NameParts
    <3>2. Unfound \subseteq Unindexed
      BY DEF Unfound, Unindexed, Failed
    <3>3. f \in rows \/ f.rec \in Unindexed'
      BY <1>g, <2>1, <3>1, <3>2 DEF CreateOpen, Written
    <3>4. rows' = rows /\ (disk' = disk \/ disk' = disk \union {f})
      BY <2>1 DEF CreateOpen
    <3>. QED
      BY <1>3, <3>3, <3>4
  <2>2. CASE ~CreateOpen
    <3>1. disk' = disk /\ rows \subseteq rows'
      BY <2>2 DEF Recorder, CreateIndexRow, CloseRecordFile, LockRecentFile
    <3>. QED
      BY <1>3, <3>1
  <2>. QED
    BY <2>1, <2>2
<1>5. \/ rows' = rows /\ disk' = disk
      \/ \A b \in Actors \ {"rec"} : pc[b] \in {"idle", "start"}
  <2>1. CASE CreateIndexRow
    BY <2>1 DEF CreateIndexRow, Begins
  <2>2. CASE CreateOpen
    BY <1>0, <2>2, OthersRest DEF CreateOpen
  <2>. QED
    BY <2>1, <2>2 DEF Recorder, CloseRecordFile, LockRecentFile
<1>6. Halfway'
  <2>1. CASE rows' = rows /\ disk' = disk
    <3>1. Oldest(rows') = Oldest(rows)
      BY <2>1
    <3>. QED
      BY <1>0, <1>1, <1>2, <1>g, <2>1, <3>1 DEF Halfway
  <2>2. CASE \A b \in Actors \ {"rec"} : pc[b] \in {"idle", "start"}
    BY <1>0, <1>1, <1>2, <2>2 DEF Halfway
  <2>. QED
    BY <1>5, <2>1, <2>2
<1>. QED
  BY <1>1, <1>4, <1>6 DEF Indexed, IndexedBy, Repairing

\* The repair: what it renames on the disk it renames in its transaction, and
\* a transaction that is rolled back has renamed nothing (or it is torn).
LEMMA RepairIndexed ==
    ASSUME TypeOK, Selected, Recordings, Alone, Halfway, Indexed,
           failed \subseteq failed', ~raced', ~torn', Repair
    PROVE  Halfway' /\ Indexed'
PROOF
<1>. USE DEF TypeOK
<1>0. "man" \in Actors /\ "rec" \in Actors
  BY DEF Actors
<1>1. \A b \in Actors \ {"rec"} : pc[b] \in {"idle", "start"}
  <2>1. CASE RepairSelect
    BY <2>1 DEF RepairSelect, Begins
  <2>. QED
    BY <1>0, <2>1, OthersRest
       DEF Repair, RepairMissing, RepairRename, RepairRenameFails, RepairKeep,
           RepairFix, RepairFixFails, RepairCommit, RepairBusy
<1>2. \A b \in Actors \ {"rec"} : pc'[b] = pc[b]
  BY DEF Repair, RepairSelect, RepairMissing, RepairRename, RepairRenameFails,
         RepairKeep, RepairFix, RepairFixFails, RepairCommit, RepairBusy
<1>3. pc'["rec"] \in {"repair", "fix", "idle", "start"}
  BY <1>0 DEF Repair, RepairSelect, RepairMissing, RepairRename,
              RepairRenameFails, RepairKeep, RepairFix, RepairFixFails,
              RepairCommit, RepairBusy
<1>4. Halfway'
  <2>1. pc'["rec"] = "fix" => old'["rec"] \in disk'
    <3>1. pc'["rec"] = "fix" => RepairRename
      BY <1>0 DEF Repair, RepairSelect, RepairMissing, RepairRenameFails,
                  RepairKeep, RepairFix, RepairFixFails, RepairCommit,
                  RepairBusy
    <3>2. RepairRename => old'["rec"] \in disk'
      BY <1>0 DEF RepairRename
    <3>. QED
      BY <3>1, <3>2
  <2>. QED
    BY <1>0, <1>1, <1>2, <1>3, <2>1 DEF Halfway
<1>g. Unindexed \subseteq Unindexed'
  BY FailedGrows
<1>5. Indexed'
  <2>. USE DEF Indexed, IndexedBy, Repairing
  <2>1. CASE RepairSelect
    BY <1>0, <1>g, <2>1 DEF RepairSelect
  <2>2. CASE RepairMissing
    BY <1>0, <1>g, <2>2 DEF RepairMissing
  <2>3. CASE RepairRename
    <3>1. PICK n \in todo["rec"] \intersect disk, ok \in BOOLEAN :
             /\ Ends(ok, "add", n.rec)
             /\ disk' = (disk \ {n}) \union {FileName(n.rec, "old", FALSE)}
             /\ work' = (work \ {n}) \union
                        (IF ok THEN {FileName(n.rec, "old", FALSE)} ELSE {})
      BY <2>3 DEF RepairRename
    <3>2. /\ \A m \in disk : m \in work \/ m.rec \in Unindexed'
          /\ pc'["rec"] = "fix"
      BY <1>0, <1>g, <2>3 DEF RepairRename
    <3>. DEFINE o == FileName(n.rec, "old", FALSE)
    <3>3. o.rec = n.rec /\ n.rec \in Recs
      BY NameFields DEF FileName
    <3>4. ok \/ o.rec \in Unindexed'
      BY <3>1, <3>3, CallEnds DEF Calls, Unindexed, Failed
    <3>. HIDE DEF o
    <3>5. /\ disk' = (disk \ {n}) \union {o}
          /\ work' = (work \ {n}) \union (IF ok THEN {o} ELSE {})
      BY <3>1 DEF o
    <3>. QED
      BY <3>2, <3>4, <3>5
  <2>4. CASE RepairKeep
    BY <1>0, <1>g, <2>4 DEF RepairKeep
  <2>5. CASE RepairFix
    <3>. DEFINE f == FileName(old["rec"].rec, "fix", FALSE)
    <3>1. PICK ok \in BOOLEAN :
             /\ Ends(ok, "add", old["rec"].rec)
             /\ disk' = (disk \ {old["rec"]}) \union {f}
             /\ work' = (work \ {old["rec"]}) \union (IF ok THEN {f} ELSE {})
      BY <2>5 DEF RepairFix
    <3>2. /\ \A m \in disk : m \in work \/ m.rec \in Unindexed'
          /\ pc'["rec"] = "repair"
      BY <1>0, <1>g, <2>5 DEF RepairFix
    <3>3. f.rec = old["rec"].rec /\ old["rec"].rec \in Recs
      BY <2>5, NameFields DEF FileName, RepairFix, Recordings
    <3>4. ok \/ f.rec \in Unindexed'
      BY <3>1, <3>3, CallEnds DEF Calls, Unindexed, Failed
    <3>. HIDE DEF f
    <3>. QED
      BY <3>1, <3>2, <3>4
  <2>6. CASE RepairCommit
    BY <1>0, <1>g, <2>6 DEF RepairCommit
  <2>7. CASE RepairBusy
    BY <1>0, <1>g, <2>7 DEF RepairBusy, Renamed
  <2>8. CASE RepairRenameFails
    <3>1. PICK n \in todo["rec"] \intersect disk :
             work' = work \ {FileName(n.rec, "old", FALSE)}
      BY <2>8 DEF RepairRenameFails
    <3>. DEFINE o == FileName(n.rec, "old", FALSE)
    <3>2. o.rec = n.rec /\ o.kind = "old"
      BY DEF FileName
    <3>3. o \notin disk
      <4>1. n.kind = "ing"
        BY <2>8 DEF RepairRenameFails, Selected
      <4>. QED
        BY <3>2, <4>1 DEF Recordings, OneFilePerRecording
    <3>4. /\ \A m \in disk : m \in work \/ m.rec \in Unindexed'
          /\ pc'["rec"] = "repair" /\ disk' = disk
      BY <1>0, <1>g, <2>8 DEF RepairRenameFails
    <3>. HIDE DEF o
    <3>. QED
      BY <3>1, <3>3, <3>4 DEF o
  <2>9. CASE RepairFixFails
    <3>. DEFINE o == old["rec"]
                f == FileName(o.rec, "fix", FALSE)
    <3>1. work' = work \ {f} /\ disk' = disk /\ pc'["rec"] = "repair"
      BY <1>0, <2>9 DEF RepairFixFails
    <3>2. f.rec = o.rec /\ f.kind = "fix"
      BY DEF FileName
    <3>3. o.kind = "old" /\ o \in disk
      BY <2>9 DEF RepairFixFails, Selected, Halfway
    <3>. HIDE DEF f
    <3>4. f \notin disk
      BY <3>2, <3>3 DEF Recordings, OneFilePerRecording
    <3>5. \A m \in disk : m \in work \/ m.rec \in Unindexed'
      BY <1>g, <2>9 DEF RepairFixFails
    <3>. QED
      BY <3>1, <3>4, <3>5
  <2>. QED
    BY <2>1, <2>2, <2>3, <2>4, <2>5, <2>6, <2>7, <2>8, <2>9 DEF Repair
<1>. QED
  BY <1>4, <1>5

\* The disk manager: the rows its second statement deletes are those of the
\* files its first one removed, as nothing has changed the index since.
LEMMA ManagerIndexed ==
    ASSUME TypeOK, Alone, Halfway, Indexed, failed \subseteq failed',
           DiskManager
    PROVE  Halfway' /\ Indexed'
PROOF
<1>. USE DEF TypeOK
<1>. HIDE DEF Oldest, Free
<1>0. "man" \in Actors /\ "rec" \in Actors
  BY DEF Actors
<1>1. /\ old' = old /\ new' = new /\ work' = work
      /\ \A b \in Actors \ {"man"} : pc'[b] = pc[b]
  BY DEF DiskManager, ScanEnough, ScanLow, DelSelect, DelRemove, DelSelectEnd, DelRows,
         DelAgain, DelEnough, DiskFull, StartLock
<1>2. /\ pc'["man"] \notin {"rename", "del"} \/ pc'["man"] = pc["man"]
      /\ Repairing' = Repairing
  BY <1>0, <1>1 DEF DiskManager, ScanEnough, ScanLow, DelSelect, DelRemove, DelSelectEnd, DelRows,
         DelAgain, DelEnough, DiskFull, StartLock, Repairing
<1>g. Unindexed \subseteq Unindexed'
  BY FailedGrows
<1>3. CASE DelSelect \/ DelRemove \/ DelSelectEnd \/ DelRows
  <2>1. pc["man"] \in {"select", "remove", "delete"}
    BY <1>3 DEF DelSelect, DelRemove, DelSelectEnd, DelRows
  <2>2. \A b \in Actors \ {"man"} : pc[b] \in {"idle", "start"}
    BY <1>0, <2>1, OthersRest
  <2>3. ~Repairing /\ \A n \in disk : n \in rows \/ n.rec \in Unindexed'
    BY <1>0, <1>g, <2>2 DEF Repairing, Indexed, IndexedBy
  <2>4. SUFFICES
          /\ pc'["man"] = "remove" =>
                \A n \in Oldest(rows') \intersect disk' :
                   n \in todo'["man"] \/ n.rec \in Unindexed'
          /\ pc'["man"] = "delete" =>
                \A n \in Oldest(rows') \intersect disk' : n.rec \in Unindexed'
          /\ pc'["man"] \notin {"rename", "del"}
          /\ \A n \in disk' : n \in rows' \/ n.rec \in Unindexed'
    BY <1>0, <1>1, <1>2, <2>2, <2>3 DEF Halfway, Indexed, IndexedBy
  <2>5. CASE DelSelect
    <3>1. /\ rows' = rows /\ disk' = disk /\ pc'["man"] = "remove"
          /\ todo'["man"] = Oldest(rows)
      BY <1>0, <2>5 DEF DelSelect
    <3>2. Oldest(rows') = Oldest(rows)
      BY <3>1
    <3>. QED
      BY <2>3, <3>1, <3>2
  <2>6. CASE DelRemove
    <3>1. PICK n \in todo["man"] :
             /\ todo' = [todo EXCEPT !["man"] = @ \ {n}]
             /\ \/ disk' = disk \ {n} /\ UNCHANGED failed
                \/ n \in disk /\ Fails("remove", n.rec) /\ UNCHANGED disk
      BY <2>6 DEF DelRemove
    <3>2. /\ rows' = rows /\ pc'["man"] = "remove" /\ pc["man"] = "remove"
          /\ disk' \subseteq disk /\ todo'["man"] = todo["man"] \ {n}
      BY <1>0, <2>6, <3>1 DEF DelRemove
    <3>3. Oldest(rows') = Oldest(rows)
      BY <3>2
    <3>4. n \notin disk' \/ n.rec \in Unindexed'
      <4>1. n.rec \in Recs
        BY <1>0, NameFields
      <4>. QED
        BY <3>1, <4>1, CallFails DEF Calls, Unindexed, Failed
    <3>. QED
      BY <1>g, <2>3, <3>2, <3>3, <3>4 DEF Halfway
  <2>7. CASE DelRows
    <3>1. \A n \in Oldest(rows) \intersect disk : n.rec \in Unindexed'
      BY <1>g, <2>7 DEF DelRows, Halfway
    <3>. QED
      BY <1>0, <2>3, <2>7, <3>1 DEF DelRows
  <2>8. CASE DelSelectEnd
    <3>1. /\ rows' = rows /\ disk' = disk /\ pc'["man"] = "delete"
          /\ todo["man"] = {} /\ pc["man"] = "remove"
      BY <1>0, <2>8 DEF DelSelectEnd
    <3>2. Oldest(rows') = Oldest(rows)
      BY <3>1
    <3>. QED
      BY <1>g, <2>3, <3>1, <3>2 DEF Halfway
  <2>. QED
    BY <1>3, <2>5, <2>6, <2>7, <2>8
<1>4. CASE ~(DelSelect \/ DelRemove \/ DelSelectEnd \/ DelRows)
  <2>1. rows' = rows /\ disk' = disk
    BY <1>4 DEF DiskManager, ScanEnough, ScanLow, DelAgain, DelEnough, DiskFull
  <2>2. pc'["man"] \in {"select", "idle", "lock"}
    <3>1. CASE ScanEnough
      BY <3>1 DEF ScanEnough
    <3>. QED
      BY <1>0, <1>4, <3>1 DEF DiskManager, ScanLow, DelAgain, DelEnough, DiskFull, StartLock
  <2>. QED
    BY <1>0, <1>1, <1>2, <1>g, <2>1, <2>2 DEF Halfway, Indexed, IndexedBy
<1>. QED
  BY <1>3, <1>4

\* A command begins, or a process is killed: what it had done stays true.
LEMMA OtherIndexed ==
    ASSUME TypeOK, Halfway, Indexed, failed \subseteq failed', ~torn',
           LockCommand \/ CrashHdmodule \/ CrashDiskman
    PROVE  Halfway' /\ Indexed'
PROOF
<1>. USE DEF TypeOK
<1>. HIDE DEF Oldest
<1>0. /\ "man" \in Actors /\ "rec" \in Actors /\ "cmd" \in Actors
      /\ rows' = rows /\ disk' = disk
  BY DEF Actors, LockCommand, CrashHdmodule, CrashDiskman
<1>1. Oldest(rows') = Oldest(rows)
  BY <1>0
<1>2. \A b \in Actors :
         \/ pc'[b] \in {"idle", "start", "lock"}
         \/ /\ pc'[b] = pc[b] /\ todo'[b] = todo[b]
            /\ old'[b] = old[b] /\ new'[b] = new[b]
  BY DEF LockCommand, StartLock, CrashHdmodule, CrashDiskman, EndRename
<1>g. Unindexed \subseteq Unindexed'
  BY FailedGrows
<1>3. Halfway'
  BY <1>0, <1>1, <1>2, <1>g DEF Halfway
<1>4. Indexed'
  <2>1. CASE CrashHdmodule
    BY <1>0, <1>g, <2>1 DEF CrashHdmodule, Indexed, IndexedBy, Repairing, Renamed
  <2>2. CASE LockCommand \/ CrashDiskman
    <3>1. work' = work /\ pc'["rec"] = pc["rec"]
      BY <1>0, <2>2 DEF LockCommand, StartLock, CrashDiskman
    <3>. QED
      BY <1>0, <1>g, <3>1 DEF Indexed, IndexedBy, Repairing
  <2>. QED
    BY <2>1, <2>2
<1>. QED
  BY <1>3, <1>4

\* A step of any process keeps the invariant.
LEMMA IndexStep == LibInv /\ IndexInv /\ [Next]_vars => IndexInv'
PROOF
<1>. SUFFICES ASSUME LibInv, IndexInv, [Next]_vars PROVE IndexInv'
  OBVIOUS
<1>1. CASE Next
  <2>1. NewDiffers'
    BY <1>1, NewDiffersKept DEF LibInv, IndexInv
  <2>2. ASSUME ~raced', ~torn'
        PROVE  Alone' /\ Halfway' /\ Indexed'
    <3>1. ~raced
      BY <1>1, <2>2, BusySteps DEF LibInv
    <3>2. ~torn
      BY <1>1, <2>2 DEF Next, RenameStep, RenameAccess, RenameMissing, RenameAdd,
           RenameFile, RenameDel, LockNext, Recorder, CreateIndexRow, CreateOpen,
           CloseRecordFile, LockRecentFile, Repair, RepairSelect, RepairMissing,
           RepairRename, RepairRenameFails, RepairKeep, RepairFix, RepairFixFails, RepairCommit, RepairBusy,
           DiskManager, ScanEnough, ScanLow, DelSelect, DelRemove, DelSelectEnd, DelRows,
           DelAgain, DelEnough, DiskFull, LockCommand, CrashHdmodule, CrashDiskman
    <3>3. /\ Alone /\ Halfway /\ Indexed /\ TypeOK /\ NewDiffers
          /\ Arguments /\ Selected /\ Recordings /\ Written
      BY <3>1, <3>2 DEF IndexInv, LibInv
    <3>5. failed \subseteq failed'
      BY <1>1, HistoryKept
    <3>4. Alone'
      BY <1>1, <2>2, <3>3, AloneKept
    <3>. QED
      BY <1>1, <2>2, <3>3, <3>4, <3>5, RenameIndexed, RecorderIndexed, RepairIndexed,
         ManagerIndexed, OtherIndexed DEF Next
  <2>. QED
    BY <2>1, <2>2 DEF IndexInv
<1>2. CASE UNCHANGED vars
  BY <1>2 DEF vars, IndexInv, NewDiffers, Alone, Halfway, Indexed, IndexedBy,
              Repairing, Unindexed, Failed
<1>. QED
  BY <1>1, <1>2

\* fileindex_rename and the repair write the index and the disk in an order
\* that keeps every file findable: while one operation runs at a time and no
\* repair is rolled back, every file has its row, wherever a process is killed,
\* but for the recordings whose own insert, rename or remove() has failed.
THEOREM EveryFileIndexed == Spec => []FilesIndexed
PROOF
<1>1. Init => IndexInv
  <2>1. ASSUME Init PROVE NewDiffers /\ Alone /\ Halfway /\ Indexed
    <3>1. /\ disk = {}
          /\ \A a \in Actors : pc[a] \in {"idle", "start"}
      BY <2>1 DEF Init
    <3>2. "man" \in Actors /\ "rec" \in Actors
      BY DEF Actors
    <3>. QED
      BY <3>1, <3>2
         DEF NewDiffers, RenamingPcs, Alone, Halfway, Indexed, IndexedBy
  <2>. QED
    BY <2>1 DEF IndexInv
<1>2. IndexInv => FilesIndexed
  BY DEF IndexInv, Indexed, IndexedBy, FilesIndexed, Unindexed
<1>. QED
  BY <1>1, <1>2, IndexStep, LibraryInvariant, PTL DEF Spec
=============================================================================
