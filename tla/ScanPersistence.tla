--------------------------- MODULE ScanPersistence ---------------------------
(***************************************************************************)
(* What survives a run of "zetgrep scan": the bucket "files" of the state  *)
(* database (--incremental, pkg/state/db.go) and the resume file           *)
(* (--resume), as the producer loop of RunScan (pkg/scanner/service.go)    *)
(* reads and writes them over several runs, with kills of the process at   *)
(* any point and files that change, vanish and come back under it.         *)
(*                                                                         *)
(* A file's content is its version, 0 before there ever was such a file;   *)
(* size and modification time identify the version.  A record is           *)
(* <<f, v, r>>: the r-th record of file f, with the content of version v.  *)
(***************************************************************************)
EXTENDS Naturals, Sequences, FiniteSets

CONSTANTS
  Modes,        \* the options the runs may have: a subset of Options
  Tree,         \* every file that may come to exist, in filepath.Walk order
  NumRecords,   \* records of each file: [File -> Nat \ {0}]
  Initially,    \* files that exist before the first run
  Stdin,        \* targets "stdin" and "-": read, but never a file
  Unreadable,   \* files os.Open refuses although they are there
  Mapped,       \* files that --mmap tries to map
  SaveEvery,    \* records between two saves (10000 in the code)
  QueueCap,     \* records in recordChan and in the workers' hands
  MaxRuns, MaxCrashes, MaxVersion  \* bounds of the model

File == {Tree[k] : k \in DOMAIN Tree}

(* --incremental with a state database, --resume with a file. *)
Options == [Incremental: BOOLEAN, Resume: BOOLEAN]

ASSUME ModesAssumption == Modes \subseteq Options
ASSUME TreeAssumption == /\ Tree \in Seq(File)
                         /\ \A j, k \in DOMAIN Tree : j # k => Tree[j] # Tree[k]
                         /\ NumRecords \in [File -> Nat \ {0}]
                         /\ Stdin \subseteq File
                         /\ Initially \cup Unreadable \cup Mapped \subseteq File \ Stdin
ASSUME BoundAssumption == {SaveEvery, QueueCap, MaxRuns, MaxVersion} \subseteq Nat \ {0}
                          /\ MaxCrashes \in Nat

Record == UNION {{f} \X (1 .. MaxVersion) \X (1 .. NumRecords[f]) : f \in File}
NoRecord == <<>>

(* The resume file: not there, emptied by os.WriteFile and not yet         *)
(* written, or a ResumeConfig.                                             *)
Absent == [saved |-> "absent"]
Torn == [saved |-> "torn"]
Saved(resume) == [saved |-> "yes", resume |-> resume]
Start == [FileIndex |-> 0, LineIndex |-> 0]
ResumeConfig == [FileIndex: Nat, LineIndex: Nat]

VARIABLES
  opts,        \* the options, the same for every run
  version,     \* content of each file
  present,     \* the files that are there
  marked,      \* bucket "files": the version recorded for each path, 0 if none
  resumeFile,
  up,          \* the process is running
  hasDB,       \* and has opened the database: opts.StateDB # nil
  targets,     \* resolveTargets: the files the run goes through
  resume,      \* s.Resume
  loaded,      \* s.Resume as LoadResumeState left it
  pos,         \* the target the producer is at
  phase,       \* and what it is about to do with it
  stamp,       \* info: the version os.Stat saw, 0 if it failed
  opened,      \* the version of the file when it was opened
  mapped,      \* it is read through mmap
  line,        \* records of this target read by this run
  cur,         \* the record the producer holds
  pending,     \* records sent on recordChan that no worker has finished
  sent, done,  \* records ever sent on recordChan, ever finished by a worker
  runs, crashes,
  panicked,    \* some run died of a nil info
  listed,      \* for the properties: the targets resumeFile is an index into,
  moved,       \* whether some run applied it to another list,
  refused      \* and the files os.Open has refused some run

worldVars == <<version, present>>
diskVars == <<marked, resumeFile>>
targetVars == <<stamp, opened, mapped, line, cur>>
loopVars == <<targets, pos, targetVars, loaded>>
workVars == <<pending, sent, done>>
runVars == <<runs, crashes, hasDB, moved, panicked>>
vars == <<opts, worldVars, diskVars, up, resume, loopVars, phase, workVars, runVars,
          listed, refused>>

TypeOK ==
  /\ opts \in Options
  /\ version \in [File -> 0 .. MaxVersion]
  /\ present \subseteq File \ Stdin /\ refused \subseteq File
  /\ marked \in [File -> 0 .. MaxVersion]
  /\ \/ resumeFile \in {Absent, Torn}
     \/ resumeFile \in [saved: {"yes"}, resume: ResumeConfig]
  /\ resume \in ResumeConfig /\ loaded \in ResumeConfig
  /\ up \in BOOLEAN /\ hasDB \in BOOLEAN /\ mapped \in BOOLEAN
  /\ moved \in BOOLEAN /\ panicked \in BOOLEAN
  /\ hasDB => opts.Incremental
  /\ targets \in Seq(File) /\ listed \in Seq(File)
  /\ pos \in 1 .. Len(targets) + 1
  /\ phase \in {"next", "stat", "map", "open", "read", "truncate", "write", "send", "mark"}
  /\ phase # "next" => pos <= Len(targets)
  /\ stamp \in 0 .. MaxVersion /\ opened \in 0 .. MaxVersion
  /\ line \in Nat
  /\ cur \in Record \cup {NoRecord}
  /\ pending \subseteq sent /\ done \subseteq sent /\ sent \subseteq Record
  /\ runs \in 0 .. MaxRuns /\ crashes \in 0 .. MaxCrashes

(* The variables of a run, and of one turn of its loop, start afresh. *)
FreshTarget == stamp' = 0 /\ opened' = 0 /\ mapped' = FALSE /\ line' = 0 /\ cur' = NoRecord

Init ==
  /\ opts \in Modes
  /\ version = [f \in File |-> IF f \in Initially \cup Stdin THEN 1 ELSE 0]
  /\ present = Initially
  /\ marked = [f \in File |-> 0]
  /\ resumeFile = Absent
  /\ up = FALSE /\ hasDB = FALSE /\ targets = <<>> /\ resume = Start /\ loaded = Start
  /\ pos = 1 /\ phase = "next"
  /\ stamp = 0 /\ opened = 0 /\ mapped = FALSE /\ line = 0 /\ cur = NoRecord
  /\ pending = {} /\ sent = {} /\ done = {}
  /\ runs = 0 /\ crashes = 0 /\ panicked = FALSE
  /\ listed = <<>> /\ moved = FALSE /\ refused = {}

-----------------------------------------------------------------------------
(* The world outside the process. *)

processVars == <<opts, diskVars, up, resume, loopVars, phase, workVars, runVars, listed, refused>>

(* A file is created or rewritten, whatever the process is doing. *)
Modify(f) ==
  /\ f \notin Stdin /\ version[f] < MaxVersion
  /\ version' = [version EXCEPT ![f] = @ + 1]
  /\ present' = present \cup {f}
  /\ UNCHANGED processVars

(* A file is removed or moved away, and may come back as it was. *)
Vanish(f) ==
  /\ f \in present
  /\ present' = present \ {f}
  /\ UNCHANGED <<version, processVars>>

Return(f) ==
  /\ f \notin present \cup Stdin /\ version[f] > 0
  /\ present' = present \cup {f}
  /\ UNCHANGED <<version, processVars>>

(* The process is gone, and with it its variables, and the records that    *)
(* are in recordChan or in the hands of the workers.                       *)
Exit ==
  /\ up' = FALSE /\ hasDB' = FALSE
  /\ resume' = Start /\ loaded' = Start
  /\ targets' = <<>> /\ pos' = 1 /\ phase' = "next" /\ FreshTarget
  /\ pending' = {}
  /\ UNCHANGED <<opts, worldVars, diskVars, sent, done, runs, moved, listed, refused>>

(* Ctrl+C, a kill or a power failure. *)
Crash ==
  /\ up /\ crashes < MaxCrashes
  /\ crashes' = crashes + 1
  /\ Exit
  /\ UNCHANGED panicked

-----------------------------------------------------------------------------
(* The start of a run. *)

(* LoadResumeState: no file means the zero state; a torn file fails in     *)
(* json.Unmarshal, which leaves s.Resume at zero, and the scan goes on.    *)
LoadResumeState == IF opts.Resume /\ resumeFile.saved = "yes"
                   THEN resumeFile.resume ELSE Start

(* resolveTargets: "stdin", "-" and the files that os.Stat finds, in the   *)
(* order of the tree.                                                      *)
Found == {k \in DOMAIN Tree : Tree[k] \in Stdin \cup present}
InOrder == {p \in [1 .. Cardinality(Found) -> Found] : \A j, k \in DOMAIN p : j < k => p[j] < p[k]}
ResolveTargets == {[k \in DOMAIN p |-> Tree[p[k]]] : p \in InOrder}

(* The first n targets are those the resume file was written for. *)
SameList(list, n) == \A j \in (1 .. n) \cap DOMAIN listed :
                       j \in DOMAIN list /\ list[j] = listed[j]

(* state.Open waits one second for another process to release the lock of  *)
(* the database; without it the scan goes on with no state.                *)
StartRun ==
  /\ ~up /\ runs < MaxRuns
  /\ runs' = runs + 1
  /\ up' = TRUE
  /\ hasDB' \in (IF opts.Incremental THEN BOOLEAN ELSE {FALSE})
  /\ resume' = LoadResumeState /\ loaded' = LoadResumeState
  /\ targets' \in ResolveTargets
  /\ pos' = 1 /\ phase' = "next" /\ FreshTarget
  /\ moved' = (moved \/ ~SameList(targets', resume'.FileIndex))
  /\ UNCHANGED <<opts, worldVars, diskVars, workVars, crashes, panicked, listed, refused>>

-----------------------------------------------------------------------------
(* The producer loop. *)

Path == targets[pos]
Goto(label) == phase' = label /\ UNCHANGED loopVars
NextTarget == /\ phase' = "next" /\ pos' = pos + 1 /\ FreshTarget
              /\ UNCHANGED <<targets, loaded>>
lookVars == <<opts, worldVars, diskVars, up, resume, workVars, runVars, listed>>

MutSkipResumed ==
  /\ up /\ phase = "next"
  /\ IF opts.Resume /\ pos - 1 < resume.FileIndex THEN NextTarget ELSE Goto("stat")
  /\ UNCHANGED <<lookVars, refused>>

(* i < s.Resume.FileIndex, with i = pos - 1. *)
SkipResumed ==
  /\ up /\ phase = "next" /\ pos <= Len(targets)
  /\ IF opts.Resume /\ pos - 1 < resume.FileIndex THEN NextTarget ELSE Goto("stat")
  /\ UNCHANGED <<lookVars, refused>>

(* os.Stat: the size and time of the file, or an error and a nil info. *)
Info == IF Path \in present THEN version[Path] ELSE 0

LookAt(known) ==
  /\ up /\ phase = "stat"
  /\ \/ known /\ NextTarget
     \/ /\ ~known
        /\ stamp' = Info
        /\ phase' = IF Path \in Mapped THEN "map" ELSE "open"
        /\ UNCHANGED <<targets, pos, opened, mapped, line, cur, loaded>>
  /\ UNCHANGED <<lookVars, refused>>

MutStatFile == LookAt(hasDB /\ Path \notin Mapped /\ Info > 0 /\ marked[Path] = Info)

(* ShouldScan compares with what the last MarkScanned recorded; without an *)
(* info it is not asked, and the loop goes on.                             *)
StatFile == LookAt(hasDB /\ Info > 0 /\ marked[Path] = Info)

CanOpen == Path \in Stdin \cup (present \ Unreadable)
Open(byMmap) ==
  /\ CanOpen
  /\ phase' = "read" /\ opened' = version[Path] /\ mapped' = byMmap /\ line' = 0
  /\ UNCHANGED <<targets, pos, stamp, cur, loaded>>

(* --mmap: when os.Open or mmap.Map fails (an empty file, a file that is   *)
(* gone) the file is opened again as a stream.                             *)
MapFile ==
  /\ up /\ phase = "map"
  /\ Open(TRUE) \/ Goto("open")
  /\ UNCHANGED <<lookVars, refused>>

OpenFile ==
  /\ up /\ phase = "open"
  /\ \/ Open(FALSE) /\ UNCHANGED refused
     \/ ~CanOpen /\ NextTarget /\ refused' = refused \cup {Path}
  /\ UNCHANGED lookVars

Saves == opts.Resume /\ ~mapped
readVars == <<opts, worldVars, diskVars, up, targets, pos, stamp, opened, mapped, loaded,
              workVars, runVars, listed, refused>>

(* The next record of the parser; every SaveEvery records the position is  *)
(* saved first, in the loop of the stream reader only.  What it reads may  *)
(* be the file as it was opened, or as somebody has since rewritten it.    *)
ReadRecord ==
  /\ up /\ phase = "read" /\ line < NumRecords[Path]
  /\ line' = line + 1
  /\ \E v \in opened .. version[Path] : cur' = <<Path, v, line + 1>>
  /\ IF Saves /\ (line + 1) % SaveEvery = 0
     THEN /\ resume' = [FileIndex |-> pos - 1, LineIndex |-> line + 1]
          /\ phase' = "truncate"
     ELSE phase' = "send" /\ UNCHANGED resume
  /\ UNCHANGED readVars

EndOfFileAt(next) ==
  /\ up /\ phase = "read" /\ line = NumRecords[Path]
  /\ cur' = NoRecord
  /\ IF Saves
     THEN /\ resume' = [FileIndex |-> next, LineIndex |-> 0]
          /\ phase' = "truncate"
     ELSE phase' = "mark" /\ UNCHANGED resume
  /\ UNCHANGED <<line, readVars>>

MutEndOfFile == EndOfFileAt(pos + 1)

(* The parser's channel is closed: s.Resume.FileIndex = i + 1. *)
EndOfFile == EndOfFileAt(pos)

(* SaveResumeState: os.WriteFile empties the file, then writes it.  Either *)
(* may fail, and the loop goes on.                                         *)
AfterSave == Goto(IF cur = NoRecord THEN "mark" ELSE "send")
saveVars == <<opts, worldVars, marked, up, resume, workVars, runVars, refused>>

TruncateResume ==
  /\ up /\ phase = "truncate"
  /\ \/ resumeFile' = Torn /\ Goto("write")
     \/ UNCHANGED resumeFile /\ AfterSave
  /\ UNCHANGED <<listed, saveVars>>

WriteResume ==
  /\ up /\ phase = "write"
  /\ \/ resumeFile' = Saved(resume) /\ listed' = targets
     \/ UNCHANGED <<resumeFile, listed>>
  /\ AfterSave
  /\ UNCHANGED saveVars

SendRecord ==
  /\ up /\ phase = "send"
  /\ Cardinality(pending) < QueueCap
  /\ pending' = pending \cup {cur} /\ sent' = sent \cup {cur}
  /\ Goto("read")
  /\ UNCHANGED <<opts, worldVars, diskVars, up, resume, done, runVars, listed, refused>>

Mark(v) ==
  /\ up /\ phase = "mark" /\ (hasDB => stamp > 0)
  /\ marked' \in (IF hasDB THEN {marked, [marked EXCEPT ![Path] = v]} ELSE {marked})
  /\ NextTarget
  /\ UNCHANGED <<opts, worldVars, resumeFile, up, resume, workVars, runVars, listed, refused>>

MutMarkScanned == Mark(version[Path])

(* MarkScanned records what os.Stat saw before the file was read; an error *)
(* of the database is dropped.                                             *)
MarkScanned == Mark(stamp)

(* err is that of GetRecords by now: after a failed os.Stat info is nil,   *)
(* and info.Size() is a panic that ends the process.                       *)
MarkPanics ==
  /\ up /\ phase = "mark" /\ hasDB /\ stamp = 0
  /\ panicked' = TRUE
  /\ Exit
  /\ UNCHANGED crashes

MutEndRun ==
  /\ up /\ phase = "next" /\ pos > Len(targets)
  /\ Exit /\ UNCHANGED <<crashes, panicked>>

(* close(recordChan), wg.Wait, and the exit of the process. *)
EndRun ==
  /\ up /\ phase = "next" /\ pos > Len(targets) /\ pending = {}
  /\ Exit /\ UNCHANGED <<crashes, panicked>>

-----------------------------------------------------------------------------
(* The workers: a record is finished, in whatever order they manage. *)
FinishRecord(x) ==
  /\ up
  /\ pending' = pending \ {x} /\ done' = done \cup {x}
  /\ UNCHANGED <<opts, worldVars, diskVars, up, resume, loopVars, phase, sent, runVars,
                 listed, refused>>

-----------------------------------------------------------------------------
Producer == \/ SkipResumed \/ StatFile \/ MapFile \/ OpenFile \/ ReadRecord \/ EndOfFile
            \/ TruncateResume \/ WriteResume \/ SendRecord \/ MarkScanned \/ MarkPanics
            \/ EndRun

World == \E f \in File : Modify(f) \/ Vanish(f) \/ Return(f)

Over == ~up /\ runs = MaxRuns /\ UNCHANGED vars

Next == \/ World
        \/ Crash \/ StartRun \/ Producer
        \/ \E x \in pending : FinishRecord(x)
        \/ Over

Spec == Init /\ [][Next]_vars

-----------------------------------------------------------------------------
(* Safety. *)

Records(f, v) == {<<f, v, r>> : r \in 1 .. NumRecords[f]}
UpToDate(f) == version[f] > 0 /\ marked[f] = version[f]

(* A file that --incremental would skip now has been read whole at its     *)
(* present content, even when it changed between os.Stat, the reads and    *)
(* MarkScanned, and across crashes: the stamp is taken before the reads.   *)
MarkedWasRead == \A f \in File : UpToDate(f) => Records(f, version[f]) \subseteq sent

(* Every record of the files the next run would skip has been finished by  *)
(* a worker.                                                               *)
SkippedWasScanned ==
  ~up => \A f \in File : UpToDate(f) => Records(f, version[f]) \subseteq done

(* A run that is neither killed nor dies of a nil info leaves no file      *)
(* marked with records that no worker finished: the process waits for its  *)
(* workers after the last mark.                                            *)
CleanExitScanned == crashes = 0 /\ ~panicked => SkippedWasScanned

(* The files in front of the saved FileIndex were all read to their end,   *)
(* whatever was torn, killed or restarted in between - but for those that  *)
(* os.Open refused, for good or because they were away at the time, and    *)
(* unless the list that FileIndex is an index into has shifted.            *)
WasRead(f) == \A r \in 1 .. NumRecords[f] :
                \E v \in 1 .. MaxVersion : <<f, v, r>> \in sent
ResumeSkipsRead ==
  up /\ opts.Resume /\ ~moved =>
    \A k \in 1 .. Len(targets) :
      k <= loaded.FileIndex /\ targets[k] \notin refused => WasRead(targets[k])

(* A run that has the database, and could ask it about the file, works on  *)
(* no file that the database knows at its present content, although runs   *)
(* without it, kills and rewritten or vanished files lie in between.       *)
ReadsOnlyChanged ==
  up /\ hasDB /\ phase \notin {"next", "stat"} /\ stamp > 0 => ~UpToDate(Path)

(* What docs/EXAMPLES.md:23 says, "--incremental: Skips files already      *)
(* scanned", also after a kill or a panic: what is skipped was scanned.    *)
RestartSkipsScanned == opts.Incremental => SkippedWasScanned
=============================================================================
