------------------------ MODULE ScanPersistenceProofs ------------------------
(***************************************************************************)
(* Proofs about ScanPersistence: any files and records, any number of      *)
(* runs, kills and modifications.                                          *)
(***************************************************************************)
EXTENDS ScanPersistence, FiniteSetTheorems, TLAPS

-----------------------------------------------------------------------------
(* Types. *)

(* The targets are files that have existed; the producer has opened the    *)
(* one it reads, and holds the record it read last while it saves its      *)
(* position or sends.                                                      *)
Reading == {"read", "truncate", "write", "send", "mark"}
WorkInv ==
  /\ \A f \in present \cup Stdin : version[f] > 0
  /\ \A k \in DOMAIN targets : version[targets[k]] > 0
  /\ phase \in Reading =>
       line <= NumRecords[Path] /\ opened > 0 /\ opened <= version[Path]
  /\ phase = "send" => cur # NoRecord
  /\ phase = "mark" \/ (phase \in {"truncate", "write"} /\ cur = NoRecord) =>
       line = NumRecords[Path]

LEMMA FilesAre == /\ \A k \in DOMAIN Tree : Tree[k] \in File
                  /\ Len(Tree) \in Nat
BY TreeAssumption DEF File

(* The target at which the producer is. *)
LEMMA PathIsFile ==
  ASSUME TypeOK, phase # "next"
  PROVE  /\ pos \in DOMAIN targets /\ pos \in 1 .. Len(targets)
         /\ Path \in File /\ NumRecords[Path] \in Nat \ {0}
BY TreeAssumption DEF TypeOK, Path

LEMMA Numbers ==
  ASSUME TypeOK
  PROVE  line \in Nat /\ pos \in Nat /\ line + 1 \in Nat /\ pos - 1 \in Nat
BY SMTT(60) DEF TypeOK

LEMMA RecordIs ==
  ASSUME NEW f \in File, NEW v \in 1 .. MaxVersion, NEW r \in 1 .. NumRecords[f]
  PROVE  <<f, v, r>> \in Record
BY DEF Record

LEMMA ResolvedIsSeq ==
  ASSUME WorkInv, NEW list \in ResolveTargets
  PROVE  list \in Seq(File) /\ \A k \in DOMAIN list : version[list[k]] > 0
<1>1. Cardinality(Found) \in Nat
  <2>1. DOMAIN Tree = 1 .. Len(Tree) /\ Len(Tree) \in Int
    BY FilesAre, TreeAssumption
  <2>2. IsFiniteSet(1 .. Len(Tree))
    BY <2>1, FS_Interval
  <2>3. Found \subseteq 1 .. Len(Tree)
    BY <2>1 DEF Found
  <2>4. IsFiniteSet(Found)
    BY <2>2, <2>3, FS_Subset
  <2> QED
    BY <2>4, FS_CardinalityType
<1>2. PICK p \in InOrder : list = [k \in DOMAIN p |-> Tree[p[k]]]
  BY DEF ResolveTargets
<1> DEFINE n == Cardinality(Found)
<1>3. p \in [1 .. n -> Found] /\ DOMAIN p = 1 .. n
  BY <1>2 DEF InOrder
<1>4. n \in Nat
  BY <1>1
<1> HIDE DEF n
<1>5. DOMAIN list = 1 .. n
      /\ \A k \in 1 .. n : list[k] = Tree[p[k]] /\ p[k] \in DOMAIN Tree /\ version[Tree[p[k]]] > 0
  BY <1>2, <1>3 DEF Found, WorkInv
<1>6. list \in [1 .. n -> File]
  BY <1>2, <1>3, <1>5, FilesAre
<1> QED
  BY <1>4, <1>5, <1>6

(* The world and the workers. *)
LEMMA WorldKeepsTypes ==
  ASSUME TypeOK, WorkInv, World \/ (\E x \in pending : FinishRecord(x))
  PROVE  TypeOK' /\ WorkInv'
<1>1. ASSUME NEW f \in File, Modify(f) \/ Vanish(f) \/ Return(f) PROVE TypeOK' /\ WorkInv'
  <2>1. /\ \/ version' = version
           \/ version' = [version EXCEPT ![f] = version[f] + 1] /\ version[f] < MaxVersion
        /\ \/ present' \subseteq present
           \/ present' = present \cup {f} /\ f \notin Stdin /\ version'[f] > 0
        /\ UNCHANGED processVars
    BY <1>1, BoundAssumption DEF Modify, Vanish, Return, TypeOK
  <2>2. UNCHANGED <<opts, marked, resumeFile, up, resume, targets, pos, stamp, opened, mapped,
                    line, cur, loaded, phase, pending, sent, done, runs, crashes, hasDB, moved,
                    panicked, listed, refused>>
    BY <2>1 DEF processVars, diskVars, loopVars, targetVars, workVars, runVars
  <2>3. version' \in [File -> 0 .. MaxVersion] /\ \A g \in File : version'[g] >= version[g]
    <3>1. version \in [File -> 0 .. MaxVersion] /\ MaxVersion \in Nat
      BY BoundAssumption DEF TypeOK
    <3> QED
      BY <2>1, <3>1
  <2>4. present' \subseteq File \ Stdin
    BY <2>1 DEF TypeOK
  <2>5. TypeOK'
    BY <2>2, <2>3, <2>4, SMTT(60) DEF TypeOK
  <2>6. (\A k \in DOMAIN targets : targets[k] \in File) /\ present \cup Stdin \subseteq File
    BY TreeAssumption DEF TypeOK
  <2>7. \A g \in (present \cup Stdin)' : version'[g] > 0
    <3>1. ASSUME NEW g \in present \cup Stdin PROVE version'[g] > 0
      <4>1. g \in File /\ version[g] > 0
        BY <2>6 DEF WorkInv
      <4>2. version[g] \in Int /\ version'[g] \in Int /\ version'[g] >= version[g]
        BY <2>3, <4>1 DEF TypeOK
      <4> QED
        BY <4>1, <4>2
    <3> QED
      BY <2>1, <3>1
  <2>8. phase \in Reading => opened <= version'[Path]
    <3> SUFFICES ASSUME phase \in Reading PROVE opened <= version'[Path]
      OBVIOUS
    <3>1. Path \in File /\ opened <= version[Path]
      BY PathIsFile DEF Reading, WorkInv
    <3>2. /\ opened \in Int /\ version[Path] \in Int /\ version'[Path] \in Int
          /\ version'[Path] >= version[Path]
      BY <2>3, <3>1 DEF TypeOK
    <3> QED
      BY <3>1, <3>2
  <2>9. WorkInv'
    <3>1. Path' = Path /\ UNCHANGED <<targets, phase, cur, line, opened>>
      BY <2>2 DEF Path
    <3>2. ASSUME NEW k \in DOMAIN targets PROVE version'[targets[k]] > 0
      <4>1. /\ targets[k] \in File /\ version[targets[k]] > 0
            /\ version[targets[k]] \in Int /\ version'[targets[k]] \in Int
        BY <2>3, <2>6 DEF WorkInv, TypeOK
      <4> QED
        BY <2>3, <4>1
    <3> QED
      BY <2>7, <2>8, <3>1, <3>2 DEF WorkInv
  <2> QED
    BY <2>5, <2>9
<1>2. ASSUME NEW x \in pending, FinishRecord(x) PROVE TypeOK' /\ WorkInv'
  <2>1. TypeOK'
    BY <1>2 DEF FinishRecord, TypeOK, worldVars, diskVars, loopVars, targetVars, runVars
  <2> QED
    BY <1>2, <2>1 DEF FinishRecord, WorkInv, Path, worldVars, diskVars, loopVars, targetVars
<1> QED
  BY <1>1, <1>2 DEF World

(* The process goes, however it does. *)
LEMMA ExitKeepsTypes ==
  ASSUME TypeOK, WorkInv, Exit, crashes' \in 0 .. MaxCrashes, panicked' \in BOOLEAN
  PROVE  TypeOK' /\ WorkInv'
<1>1. /\ UNCHANGED <<opts, version, present, marked, resumeFile, sent, done, runs, moved,
                     listed, refused>>
      /\ up' = FALSE /\ hasDB' = FALSE /\ pending' = {}
      /\ resume' = Start /\ loaded' = Start /\ targets' = <<>> /\ pos' = 1 /\ phase' = "next"
      /\ stamp' = 0 /\ opened' = 0 /\ mapped' = FALSE /\ line' = 0 /\ cur' = NoRecord
  BY DEF Exit, FreshTarget, worldVars, diskVars
<1>2. Start \in ResumeConfig
  BY DEF Start, ResumeConfig
<1>3. /\ targets' \in Seq(File) /\ pos' \in 1 .. Len(targets') + 1
      /\ stamp' \in 0 .. MaxVersion /\ opened' \in 0 .. MaxVersion
  BY <1>1, BoundAssumption
<1>4. TypeOK'
  BY <1>1, <1>2, <1>3 DEF TypeOK
<1> QED
  BY <1>1, <1>4 DEF WorkInv, Reading

LEMMA ExitStep ==
  ASSUME TypeOK, Crash \/ EndRun \/ MarkPanics
  PROVE  Exit /\ crashes' \in 0 .. MaxCrashes /\ panicked' \in BOOLEAN
<1>1. crashes \in 0 .. MaxCrashes /\ panicked \in BOOLEAN /\ MaxCrashes \in Nat
  BY BoundAssumption DEF TypeOK
<1> QED
  <2>1. Exit /\ panicked' \in BOOLEAN
    BY <1>1 DEF Crash, EndRun, MarkPanics
  <2>2. crashes' = crashes \/ (crashes' = crashes + 1 /\ crashes < MaxCrashes)
    BY DEF Crash, EndRun, MarkPanics
  <2> QED
    BY <1>1, <2>1, <2>2

LEMMA StartKeepsTypes ==
  ASSUME TypeOK, WorkInv, StartRun
  PROVE  TypeOK' /\ WorkInv'
<1>1. /\ runs' = runs + 1 /\ runs < MaxRuns /\ up' = TRUE
      /\ hasDB' \in BOOLEAN /\ (hasDB' => opts.Incremental)
      /\ resume' = LoadResumeState /\ loaded' = LoadResumeState
      /\ targets' \in ResolveTargets /\ pos' = 1 /\ phase' = "next"
      /\ stamp' = 0 /\ opened' = 0 /\ mapped' = FALSE /\ line' = 0 /\ cur' = NoRecord
      /\ UNCHANGED <<opts, version, present, marked, resumeFile, pending, sent, done, crashes,
                     panicked, listed, refused>>
  BY DEF StartRun, FreshTarget, worldVars, diskVars, workVars
<1>2. moved' \in BOOLEAN
  BY DEF StartRun
<1>3. LoadResumeState \in ResumeConfig
  BY DEF TypeOK, LoadResumeState, Start, ResumeConfig, Absent, Torn
<1>4. targets' \in Seq(File) /\ \A k \in DOMAIN targets' : version[targets'[k]] > 0
  BY <1>1, ResolvedIsSeq
<1>5. TypeOK'
  <2>1. /\ runs' \in 0 .. MaxRuns /\ pos' \in 1 .. Len(targets') + 1
        /\ stamp' \in 0 .. MaxVersion /\ opened' \in 0 .. MaxVersion
    BY <1>1, <1>4, BoundAssumption DEF TypeOK
  <2> QED
    BY <1>1, <1>2, <1>3, <1>4, <2>1 DEF TypeOK
<1> QED
  BY <1>1, <1>4, <1>5 DEF WorkInv, Reading

(* The loop over the targets. *)
LEMMA NextKeepsTypes ==
  ASSUME TypeOK, WorkInv, NextTarget, phase # "next" \/ pos <= Len(targets),
         marked' \in [File -> 0 .. MaxVersion], refused' \subseteq File,
         UNCHANGED <<opts, version, present, resumeFile, up, resume, pending, sent, done, runs,
                     crashes, hasDB, moved, panicked, listed>>
  PROVE  TypeOK' /\ WorkInv'
<1>1. /\ phase' = "next" /\ pos' = pos + 1 /\ UNCHANGED <<targets, loaded>>
      /\ stamp' = 0 /\ opened' = 0 /\ mapped' = FALSE /\ line' = 0 /\ cur' = NoRecord
  BY DEF NextTarget, FreshTarget
<1>2. pos \in 1 .. Len(targets)
  BY PathIsFile DEF TypeOK
<1>3. pos' \in 1 .. Len(targets') + 1 /\ stamp' \in 0 .. MaxVersion /\ opened' \in 0 .. MaxVersion
  BY <1>1, <1>2, BoundAssumption
<1>4. TypeOK'
  BY <1>1, <1>3 DEF TypeOK
<1> QED
  BY <1>1, <1>4 DEF WorkInv, Reading

(* A target that can be opened has had some content. *)
LEMMA OpenedIs ==
  ASSUME TypeOK, WorkInv, phase # "next", CanOpen
  PROVE  version[Path] \in 1 .. MaxVersion
<1>1. Path \in File /\ Path \in present \cup Stdin
  BY PathIsFile DEF CanOpen
<1>2. version[Path] > 0 /\ version[Path] \in 0 .. MaxVersion
  BY <1>1 DEF WorkInv, TypeOK
<1> QED
  BY <1>2

LEMMA LookKeepsTypes ==
  ASSUME TypeOK, WorkInv, SkipResumed \/ StatFile \/ MapFile \/ OpenFile
  PROVE  TypeOK' /\ WorkInv'
<1>1. /\ pos \in 1 .. Len(targets) /\ phase \in {"next", "stat", "map", "open"}
      /\ UNCHANGED <<opts, version, present, marked, resumeFile, up, resume,
                     pending, sent, done, runs, crashes, hasDB, moved, panicked, listed>>
  <2>1. pos \in 1 .. Len(targets)
    <3>1. CASE SkipResumed
      BY <3>1 DEF SkipResumed, TypeOK
    <3>2. CASE StatFile \/ MapFile \/ OpenFile
      BY <3>2, PathIsFile DEF StatFile, LookAt, MapFile, OpenFile
    <3> QED
      BY <3>1, <3>2
  <2>2. phase \in {"next", "stat", "map", "open"} /\ UNCHANGED lookVars
    BY DEF SkipResumed, StatFile, LookAt, MapFile, OpenFile
  <2> QED
    BY <2>1, <2>2 DEF lookVars, worldVars, diskVars, workVars, runVars
<1>2. refused' \subseteq File /\ (phase # "next" => Path \in File)
  BY PathIsFile DEF SkipResumed, StatFile, LookAt, MapFile, OpenFile, TypeOK
<1>3. \/ NextTarget
      \/ phase' \in {"stat", "open"} /\ UNCHANGED loopVars
      \/ /\ phase = "stat" /\ phase' \in {"map", "open"} /\ stamp' = Info
         /\ UNCHANGED <<targets, pos, opened, mapped, line, cur, loaded>>
      \/ phase # "next" /\ \E b \in BOOLEAN : Open(b)
  BY DEF SkipResumed, StatFile, LookAt, MapFile, OpenFile, Goto
<1>4. CASE NextTarget
  <2>1. marked' \in [File -> 0 .. MaxVersion] /\ (phase # "next" \/ pos <= Len(targets))
    BY <1>1 DEF TypeOK
  <2> QED
    BY <1>1, <1>2, <1>4, <2>1, NextKeepsTypes
<1>5. CASE phase' \in {"stat", "open"} /\ UNCHANGED loopVars
  <2>1. UNCHANGED <<targets, pos, stamp, opened, mapped, line, cur, loaded>>
    BY <1>5 DEF loopVars, targetVars
  <2>2. TypeOK'
    BY <1>1, <1>2, <1>5, <2>1, SMTT(60) DEF TypeOK
  <2> QED
    BY <1>1, <1>5, <2>1, <2>2 DEF WorkInv, Reading
<1>6. CASE /\ phase = "stat" /\ phase' \in {"map", "open"} /\ stamp' = Info
           /\ UNCHANGED <<targets, pos, opened, mapped, line, cur, loaded>>
  <2>1. stamp' \in 0 .. MaxVersion
    BY <1>2, <1>6, BoundAssumption DEF Info, TypeOK
  <2>2. TypeOK'
    BY <1>1, <1>2, <1>6, <2>1 DEF TypeOK
  <2> QED
    BY <1>1, <1>6, <2>2 DEF WorkInv, Reading
<1>7. ASSUME phase # "next", NEW b \in BOOLEAN, Open(b) PROVE TypeOK' /\ WorkInv'
  <2>1. /\ phase' = "read" /\ opened' = version[Path] /\ mapped' = b /\ line' = 0
        /\ UNCHANGED <<targets, pos, stamp, cur, loaded>>
        /\ version[Path] \in 1 .. MaxVersion
    BY <1>7, OpenedIs DEF Open
  <2>2. Path' = Path /\ NumRecords[Path] \in Nat
    BY <1>7, <2>1, PathIsFile DEF Path
  <2>3. /\ line' \in Nat /\ line' <= NumRecords[Path] /\ opened' \in 0 .. MaxVersion
        /\ opened' > 0 /\ opened' <= version'[Path]
    BY <1>1, <2>1, <2>2
  <2>4. TypeOK'
    <3>1. /\ phase' = "read" /\ (phase' # "next" => pos' <= Len(targets'))
          /\ mapped' \in BOOLEAN /\ pos' \in 1 .. Len(targets') + 1
      BY <1>1, <1>7, <2>1, Numbers DEF TypeOK
    <3> QED
      BY <1>1, <1>2, <2>1, <2>3, <3>1 DEF TypeOK
  <2> QED
    BY <1>1, <2>1, <2>2, <2>3, <2>4 DEF WorkInv
<1> QED
  BY <1>3, <1>4, <1>5, <1>6, <1>7

(* The parser's records. *)
LEMMA ReadKeepsTypes ==
  ASSUME TypeOK, WorkInv, ReadRecord \/ EndOfFile
  PROVE  TypeOK' /\ WorkInv'
<1>1. /\ phase = "read" /\ pos \in 1 .. Len(targets) /\ Path \in File
      /\ NumRecords[Path] \in Nat
      /\ UNCHANGED <<opts, version, present, marked, resumeFile, up, targets, pos, stamp, opened,
                     mapped, loaded, pending, sent, done, runs, crashes, hasDB, moved, panicked,
                     listed, refused>>
  BY PathIsFile DEF ReadRecord, EndOfFile, EndOfFileAt, readVars, worldVars, diskVars, workVars,
     runVars
<1>2. Path' = Path
  BY <1>1 DEF Path
<1>3. resume' \in ResumeConfig
  <2>1. pos \in Nat /\ pos - 1 \in Nat /\ line + 1 \in Nat /\ resume \in ResumeConfig
    BY Numbers DEF TypeOK
  <2>2. \/ resume' = resume
        \/ resume' = [FileIndex |-> pos - 1, LineIndex |-> line + 1]
        \/ resume' = [FileIndex |-> pos, LineIndex |-> 0]
    BY DEF ReadRecord, EndOfFile, EndOfFileAt
  <2> QED
    BY <2>1, <2>2 DEF ResumeConfig
<1>4. CASE ReadRecord
  <2>1. /\ line' = line + 1 /\ line < NumRecords[Path] /\ phase' \in {"truncate", "send"}
    BY <1>4 DEF ReadRecord
  <2>2. PICK v \in opened .. version[Path] : cur' = <<Path, v, line + 1>>
    BY <1>4 DEF ReadRecord
  <2>3. v \in 1 .. MaxVersion
    <3>1. opened > 0 /\ opened <= version[Path]
      BY <1>1 DEF WorkInv, Reading
    <3>2. opened \in 0 .. MaxVersion /\ version[Path] \in 0 .. MaxVersion
      BY <1>1 DEF TypeOK
    <3> QED
      BY <2>2, <3>1, <3>2, BoundAssumption
  <2>4. line + 1 \in 1 .. NumRecords[Path] /\ line' \in Nat /\ line' <= NumRecords[Path]
    BY <1>1, <2>1, Numbers
  <2>5. cur' \in Record
    BY <1>1, <2>2, <2>3, <2>4, RecordIs
  <2>6. cur' # NoRecord
    BY <2>2 DEF NoRecord
  <2>7. phase' \in {"truncate", "send"}
    BY <2>1
  <2>8. TypeOK'
    BY <1>1, <1>3, <2>4, <2>5, <2>7 DEF TypeOK
  <2>9. opened' > 0 /\ opened' <= version'[Path]
    BY <1>1 DEF WorkInv, Reading
  <2> QED
    BY <1>1, <1>2, <2>4, <2>6, <2>7, <2>8, <2>9 DEF WorkInv
<1>5. CASE EndOfFile
  <2>1. /\ line' = line /\ line = NumRecords[Path] /\ cur' = NoRecord
        /\ phase' \in {"truncate", "mark"}
    BY <1>5 DEF EndOfFile, EndOfFileAt
  <2>2. TypeOK'
    BY <1>1, <1>3, <2>1 DEF TypeOK
  <2>3. opened' > 0 /\ opened' <= version'[Path] /\ line' <= NumRecords[Path]
    BY <1>1, <2>1 DEF WorkInv, Reading
  <2> QED
    BY <1>1, <1>2, <2>1, <2>2, <2>3 DEF WorkInv
<1> QED
  BY <1>4, <1>5

(* The resume file, the send and the mark. *)
LEMMA WriteKeepsTypes ==
  ASSUME TypeOK, WorkInv, TruncateResume \/ WriteResume \/ SendRecord \/ MarkScanned
  PROVE  TypeOK' /\ WorkInv'
<1>1. /\ pos \in 1 .. Len(targets) /\ Path \in File
      /\ UNCHANGED <<opts, version, present, up, resume, done, runs, crashes, hasDB, moved,
                     panicked, refused>>
  BY PathIsFile DEF TruncateResume, WriteResume, SendRecord, MarkScanned, Mark, saveVars,
     worldVars, diskVars, workVars, runVars
<1>2. CASE TruncateResume \/ WriteResume
  <2>1. /\ UNCHANGED <<marked, pending, sent>> /\ UNCHANGED loopVars
        /\ resumeFile' \in {resumeFile, Torn, Saved(resume)} /\ listed' \in {listed, targets}
        /\ phase \in {"truncate", "write"}
        /\ phase' \in {"write", IF cur = NoRecord THEN "mark" ELSE "send"}
    BY <1>2 DEF TruncateResume, WriteResume, AfterSave, Goto, saveVars, workVars
  <2>2. UNCHANGED <<targets, pos, stamp, opened, mapped, line, cur, loaded>>
    BY <2>1 DEF loopVars, targetVars
  <2>3. Path' = Path
    BY <2>2 DEF Path
  <2>4. resumeFile' \in {Absent, Torn} \/ resumeFile' \in [saved: {"yes"}, resume: ResumeConfig]
    BY <2>1 DEF TypeOK, Saved
  <2>5. listed' \in Seq(File) /\ phase' \in {"write", "mark", "send"}
    BY <1>1, <2>1 DEF TypeOK
  <2>6. UNCHANGED <<marked, pending, sent>>
    BY <2>1
  <2>7. TypeOK'
    BY <1>1, <2>2, <2>4, <2>5, <2>6, SMTT(60) DEF TypeOK
  <2>8. /\ phase \in Reading
        /\ line' <= NumRecords[Path] /\ opened' > 0 /\ opened' <= version'[Path]
    BY <1>1, <2>1, <2>2 DEF WorkInv, Reading
  <2> QED
    BY <1>1, <2>1, <2>2, <2>3, <2>7, <2>8 DEF WorkInv, Reading
<1>3. CASE SendRecord
  <2>1. /\ phase = "send" /\ phase' = "read" /\ UNCHANGED <<marked, resumeFile, listed>>
        /\ UNCHANGED <<targets, pos, stamp, opened, mapped, line, cur, loaded>>
        /\ pending' = pending \cup {cur} /\ sent' = sent \cup {cur}
    BY <1>3 DEF SendRecord, Goto, diskVars, loopVars, targetVars
  <2>2. Path' = Path
    BY <2>1 DEF Path
  <2>3. TypeOK'
    BY <1>1, <2>1 DEF TypeOK, WorkInv
  <2> QED
    BY <1>1, <2>1, <2>2, <2>3 DEF WorkInv, Reading
<1>4. CASE MarkScanned
  <2>1. /\ phase = "mark" /\ NextTarget
        /\ marked' \in {marked, [marked EXCEPT ![Path] = stamp]}
        /\ UNCHANGED <<resumeFile, pending, sent, listed>>
    BY <1>4 DEF MarkScanned, Mark, workVars
  <2>2. marked' \in [File -> 0 .. MaxVersion] /\ refused' \subseteq File
    BY <1>1, <2>1 DEF TypeOK
  <2> QED
    BY <1>1, <2>1, <2>2, NextKeepsTypes
<1> QED
  BY <1>2, <1>3, <1>4

LEMMA TypeStep == TypeOK /\ WorkInv /\ [Next]_vars => TypeOK' /\ WorkInv'
<1> SUFFICES ASSUME TypeOK, WorkInv, [Next]_vars PROVE TypeOK' /\ WorkInv'
  OBVIOUS
<1>1. CASE UNCHANGED vars
  <2>1. UNCHANGED <<opts, version, present, marked, resumeFile, up, resume, targets, pos, stamp,
                    opened, mapped, line, cur, loaded, phase, pending, sent, done, runs, crashes,
                    hasDB, moved, panicked, listed, refused>>
    BY <1>1 DEF vars, worldVars, diskVars, loopVars, targetVars, workVars, runVars
  <2>2. TypeOK'
    BY <2>1 DEF TypeOK
  <2> QED
    BY <2>1, <2>2 DEF WorkInv, Path
<1>2. CASE Crash \/ EndRun \/ MarkPanics
  BY <1>2, ExitStep, ExitKeepsTypes
<1>3. CASE Producer
  BY <1>2, <1>3, LookKeepsTypes, ReadKeepsTypes, WriteKeepsTypes DEF Producer
<1> QED
  BY <1>1, <1>2, <1>3, WorldKeepsTypes, StartKeepsTypes DEF Next, Over

LEMMA TypesHold == Spec => [](TypeOK /\ WorkInv)
<1>1. Init => TypeOK /\ WorkInv
  <2> SUFFICES ASSUME Init PROVE TypeOK /\ WorkInv
    OBVIOUS
  <2>1. version \in [File -> 0 .. MaxVersion] /\ marked \in [File -> 0 .. MaxVersion]
    BY BoundAssumption DEF Init
  <2>2. Start \in ResumeConfig
    BY DEF Start, ResumeConfig
  <2>3. /\ opts \in Options /\ resumeFile = Absent /\ up = FALSE /\ hasDB = FALSE
        /\ targets = <<>> /\ listed = <<>> /\ moved = FALSE /\ panicked = FALSE
        /\ resume = Start /\ loaded = Start /\ pos = 1 /\ phase = "next"
        /\ stamp = 0 /\ opened = 0 /\ mapped = FALSE /\ line = 0 /\ cur = NoRecord
        /\ pending = {} /\ sent = {} /\ done = {} /\ runs = 0 /\ crashes = 0 /\ refused = {}
    BY ModesAssumption DEF Init
  <2>4. targets \in Seq(File) /\ Len(targets) = 0
    BY <2>3
  <2>5. /\ stamp \in 0 .. MaxVersion /\ opened \in 0 .. MaxVersion
        /\ runs \in 0 .. MaxRuns /\ crashes \in 0 .. MaxCrashes
        /\ listed \in Seq(File) /\ pos \in 1 .. Len(targets) + 1
    BY <2>3, <2>4, BoundAssumption
  <2>6. present \subseteq File \ Stdin
    BY TreeAssumption DEF Init
  <2>7. TypeOK
    BY <2>1, <2>2, <2>3, <2>4, <2>5, <2>6 DEF TypeOK
  <2>8. \A f \in present \cup Stdin : version[f] > 0
    BY TreeAssumption DEF Init
  <2> QED
    BY <2>3, <2>4, <2>7, <2>8 DEF WorkInv, Reading
<1> QED
  BY <1>1, TypeStep, PTL DEF Spec

(* The types hold: the producer's index stays within the list of targets   *)
(* of its run, whatever list that is, and what it sends are records of     *)
(* files that existed.                                                      *)
THEOREM TypeCorrect == Spec => []TypeOK
BY TypesHold, PTL

-----------------------------------------------------------------------------
(* Versions only grow; a stamp is a version the file has had, and no later *)
(* than the one that was opened.                                           *)
StampInv ==
  /\ version \in [File -> Nat] /\ marked \in [File -> Nat]
  /\ \A f \in File : marked[f] <= version[f]
  /\ phase \notin {"next", "stat"} /\ Path \in File =>
       stamp \in Nat /\ stamp <= version[Path]
  /\ phase \in Reading /\ Path \in File => opened \in Nat /\ stamp <= opened

(* As long as the file is the one os.Stat saw, what has been read of it    *)
(* has been read from that version: sent, or still in the producer's hand. *)
ReadInv ==
  /\ line \in Nat
  /\ phase = "mark" \/ (phase \in {"truncate", "write"} /\ cur = NoRecord) =>
       line = NumRecords[Path]
  /\ phase \in Reading /\ Path \in File /\ stamp = version[Path] =>
       \A r \in 1 .. line :
         \/ <<Path, stamp, r>> \in sent
         \/ phase \in {"truncate", "write", "send"} /\ cur = <<Path, stamp, r>>

MarkInv == StampInv /\ ReadInv /\ MarkedWasRead

(* A file changes, vanishes or returns under the scan. *)
LEMMA WorldKeepsMark ==
  ASSUME MarkInv, NEW f \in File, Modify(f) \/ Vanish(f) \/ Return(f)
  PROVE  MarkInv'
<1>1. UNCHANGED <<marked, phase, pos, targets, stamp, opened, line, cur, sent>>
  BY DEF Modify, Vanish, Return, processVars, diskVars, loopVars, targetVars, workVars
<1>2. Path' = Path
  BY <1>1 DEF Path
<1>3. CASE Modify(f)
  <2>1. /\ \A g \in File : g # f => version'[g] = version[g]
        /\ version'[f] = version[f] + 1 /\ version[f] \in Nat
        /\ version' \in [File -> Nat]
    BY <1>3 DEF Modify, MarkInv, StampInv
  <2>2. StampInv'
    BY <1>1, <1>2, <2>1 DEF MarkInv, StampInv, Reading
  <2>3. ReadInv'
    <3>1. phase \notin {"next", "stat"} /\ Path \in File /\ stamp = version'[Path] =>
            stamp = version[Path]
      BY <2>1 DEF MarkInv, StampInv
    <3> QED
      BY <1>1, <1>2, <3>1 DEF MarkInv, ReadInv, Reading
  <2>4. MarkedWasRead'
    BY <1>1, <2>1 DEF MarkInv, StampInv, MarkedWasRead, UpToDate, Records
  <2> QED
    BY <2>2, <2>3, <2>4 DEF MarkInv
<1>4. CASE Vanish(f) \/ Return(f)
  <2>1. version' = version
    BY <1>4 DEF Vanish, Return
  <2> QED
    BY <1>1, <1>2, <2>1 DEF MarkInv, StampInv, ReadInv, MarkedWasRead, UpToDate, Records
<1> QED
  BY <1>3, <1>4

(* A target is left behind, unread or marked. *)
LEMMA NextKeepsMark ==
  ASSUME MarkInv, NextTarget, UNCHANGED <<version, sent>>, MarkedWasRead',
         marked' \in [File -> Nat], \A f \in File : marked'[f] <= version[f]
  PROVE  MarkInv'
<1>1. phase' = "next" /\ line' = 0
  BY DEF NextTarget, FreshTarget
<1> QED
  BY <1>1 DEF MarkInv, StampInv, ReadInv, Reading

(* The steps of the producer between "next" and "read". *)
LEMMA LookKeepsMark ==
  ASSUME MarkInv, SkipResumed \/ StatFile \/ MapFile \/ OpenFile
  PROVE  MarkInv'
<1>1. UNCHANGED <<version, marked, sent>>
  BY DEF SkipResumed, StatFile, LookAt, MapFile, OpenFile, lookVars, worldVars, diskVars, workVars
<1>2. MarkedWasRead'
  BY <1>1 DEF MarkInv, MarkedWasRead, UpToDate, Records
<1>3. CASE NextTarget
  BY <1>1, <1>2, <1>3, NextKeepsMark DEF MarkInv, StampInv
<1>4. CASE Goto("stat") \/ (Goto("open") /\ phase = "map")
  <2>1. /\ UNCHANGED <<targets, pos, stamp, line>>
        /\ phase' = "stat" \/ (phase' = "open" /\ phase = "map")
    BY <1>4 DEF Goto, loopVars, targetVars
  <2>2. Path' = Path
    BY <2>1 DEF Path
  <2> QED
    BY <1>1, <1>2, <2>1, <2>2 DEF MarkInv, StampInv, ReadInv, Reading
<1>5. CASE /\ stamp' = Info /\ phase' \in {"map", "open"}
           /\ UNCHANGED <<targets, pos, opened, mapped, line, cur, loaded>>
  <2>1. Path' = Path
    BY <1>5 DEF Path
  <2>2. Path \in File => Info \in Nat /\ Info <= version[Path]
    BY DEF Info, MarkInv, StampInv
  <2> QED
    BY <1>1, <1>2, <1>5, <2>1, <2>2 DEF MarkInv, StampInv, ReadInv, Reading
<1>6. ASSUME NEW b \in BOOLEAN, Open(b), phase \in {"map", "open"} PROVE MarkInv'
  <2>1. /\ phase' = "read" /\ opened' = version[Path] /\ line' = 0
        /\ UNCHANGED <<targets, pos, stamp>>
    BY <1>6 DEF Open
  <2>2. Path' = Path
    BY <2>1 DEF Path
  <2> QED
    BY <1>1, <1>2, <1>6, <2>1, <2>2 DEF MarkInv, StampInv, ReadInv
<1> QED
  BY <1>3, <1>4, <1>5, <1>6 DEF SkipResumed, StatFile, LookAt, MapFile, OpenFile

(* The steps of the producer while it has the file open. *)
LEMMA ReadKeepsMark ==
  ASSUME MarkInv, ReadRecord \/ EndOfFile \/ TruncateResume \/ WriteResume
  PROVE  MarkInv'
<1>1. /\ UNCHANGED <<version, marked, sent, targets, pos, stamp, opened>>
      /\ phase \in {"read", "truncate", "write"}
  BY DEF ReadRecord, EndOfFile, EndOfFileAt, TruncateResume, WriteResume, AfterSave, Goto,
     readVars, saveVars, worldVars, diskVars, loopVars, targetVars, workVars
<1>2. Path' = Path /\ MarkedWasRead'
  BY <1>1 DEF MarkInv, MarkedWasRead, UpToDate, Records, Path
<1>3. StampInv'
  BY <1>1, <1>2 DEF MarkInv, StampInv, Reading
<1>4. CASE ReadRecord
  <2>1. /\ line' = line + 1 /\ phase' \in {"truncate", "send"} /\ line \in Nat
        /\ phase = "read"
    BY <1>4 DEF ReadRecord, MarkInv, ReadInv
  <2>2. PICK v \in opened .. version[Path] : cur' = <<Path, v, line + 1>>
    BY <1>4 DEF ReadRecord
  <2>3. cur' # NoRecord
    BY <2>2 DEF NoRecord
  <2>4. ASSUME Path \in File, stamp = version[Path], NEW r \in 1 .. line + 1
        PROVE  <<Path, stamp, r>> \in sent \/ cur' = <<Path, stamp, r>>
    <3>1. CASE r = line + 1
      <4>1. opened \in Nat /\ version[Path] \in Nat /\ version[Path] <= opened
        BY <1>1, <2>4 DEF MarkInv, StampInv, Reading
      <4>2. v = stamp
        BY <2>2, <2>4, <4>1
      <4> QED
        BY <2>2, <3>1, <4>2
    <3>2. CASE r # line + 1
      <4>1. r \in 1 .. line
        BY <2>1, <3>2
      <4> QED
        BY <2>1, <2>4, <4>1 DEF MarkInv, ReadInv, Reading
    <3> QED
      BY <3>1, <3>2
  <2>5. ReadInv'
    BY <1>1, <1>2, <2>1, <2>3, <2>4 DEF ReadInv
  <2> QED
    BY <1>2, <1>3, <2>5 DEF MarkInv
<1>5. CASE EndOfFile
  <2>1. /\ line' = line /\ line = NumRecords[Path] /\ phase' \in {"truncate", "mark"}
        /\ phase = "read"
    BY <1>5 DEF EndOfFile, EndOfFileAt
  <2>2. ReadInv'
    BY <1>1, <1>2, <2>1 DEF MarkInv, ReadInv, Reading
  <2> QED
    BY <1>2, <1>3, <2>2 DEF MarkInv
<1>6. CASE TruncateResume \/ WriteResume
  <2>1. /\ line' = line /\ cur' = cur /\ phase \in {"truncate", "write"}
        /\ \/ phase' = "write"
           \/ phase' = IF cur = NoRecord THEN "mark" ELSE "send"
    BY <1>6 DEF TruncateResume, WriteResume, AfterSave, Goto, loopVars, targetVars
  <2>2. \A a, b, c : <<a, b, c>> # NoRecord
    BY DEF NoRecord
  <2>3. ReadInv'
    BY <1>1, <1>2, <2>1, <2>2 DEF MarkInv, ReadInv, Reading
  <2> QED
    BY <1>2, <1>3, <2>3 DEF MarkInv
<1> QED
  BY <1>4, <1>5, <1>6

(* A record leaves the producer. *)
LEMMA SendKeepsMark ==
  ASSUME MarkInv, SendRecord
  PROVE  MarkInv'
<1>1. /\ phase = "send" /\ phase' = "read" /\ sent' = sent \cup {cur}
      /\ UNCHANGED <<version, marked, targets, pos, stamp, opened, line, cur>>
  BY DEF SendRecord, Goto, worldVars, diskVars, loopVars, targetVars
<1>2. Path' = Path
  BY <1>1 DEF Path
<1>3. MarkedWasRead'
  BY <1>1 DEF MarkInv, MarkedWasRead, UpToDate, Records
<1>4. StampInv' /\ ReadInv'
  BY <1>1, <1>2 DEF MarkInv, StampInv, ReadInv, Reading
<1> QED
  BY <1>3, <1>4 DEF MarkInv

(* MarkScanned: the stamp it records is that of a file read to its end. *)
LEMMA MarkKeepsMark ==
  ASSUME MarkInv, MarkScanned
  PROVE  MarkInv'
<1>1. /\ phase = "mark" /\ NextTarget
      /\ marked' = marked \/ marked' = [marked EXCEPT ![Path] = stamp]
      /\ UNCHANGED <<version, sent>>
  BY DEF MarkScanned, Mark, worldVars, workVars
<1>2. /\ \A f \in File : f # Path => marked'[f] = marked[f]
      /\ Path \in File => marked'[Path] \in {marked[Path], stamp}
      /\ marked' \in [File -> Nat]
  <2>1. CASE Path \in File
    BY <1>1, <2>1 DEF MarkInv, StampInv
  <2>2. CASE Path \notin File
    BY <1>1, <2>2 DEF MarkInv, StampInv
  <2> QED
    BY <2>1, <2>2
<1>3. \A f \in File : marked'[f] <= version[f]
  BY <1>1, <1>2 DEF MarkInv, StampInv
<1>4. ASSUME NEW f \in File, UpToDate(f)' PROVE Records(f, version[f]) \subseteq sent
  <2>1. CASE marked'[f] = marked[f]
    BY <1>1, <1>4, <2>1 DEF MarkInv, MarkedWasRead, UpToDate
  <2>2. CASE f = Path /\ marked'[f] = stamp
    <3>1. /\ stamp = version[Path] /\ line = NumRecords[Path]
          /\ \A r \in 1 .. line : <<Path, stamp, r>> \in sent
      BY <1>1, <1>4, <2>2 DEF UpToDate, MarkInv, ReadInv, Reading
    <3> QED
      BY <2>2, <3>1 DEF Records
  <2> QED
    BY <1>2, <2>1, <2>2
<1>5. MarkedWasRead'
  BY <1>1, <1>4 DEF MarkedWasRead, Records
<1> QED
  BY <1>1, <1>2, <1>3, <1>5, NextKeepsMark

LEMMA MarkStep == MarkInv /\ [Next]_vars => MarkInv'
<1> SUFFICES ASSUME MarkInv, [Next]_vars PROVE MarkInv'
  OBVIOUS
<1>1. ASSUME UNCHANGED <<version, marked, loopVars, phase, sent>> PROVE MarkInv'
  <2>1. UNCHANGED <<targets, pos, stamp, opened, line, cur>> /\ Path' = Path
    BY <1>1 DEF loopVars, targetVars, Path
  <2> QED
    BY <1>1, <2>1 DEF MarkInv, StampInv, ReadInv, MarkedWasRead, UpToDate, Records
<1>2. CASE World
  BY <1>2, WorldKeepsMark DEF World
<1>3. CASE Crash \/ EndRun \/ MarkPanics \/ StartRun
  <2>1. /\ phase' = "next" /\ line' = 0 /\ UNCHANGED <<version, marked, sent>>
    BY <1>3 DEF Crash, EndRun, MarkPanics, Exit, StartRun, FreshTarget, worldVars, diskVars, workVars
  <2> QED
    BY <2>1 DEF MarkInv, StampInv, ReadInv, Reading, MarkedWasRead, UpToDate, Records
<1>4. CASE UNCHANGED vars
  BY <1>1, <1>4 DEF vars, worldVars, diskVars, workVars
<1>5. ASSUME NEW x \in pending, FinishRecord(x) PROVE MarkInv'
  BY <1>1, <1>5 DEF FinishRecord, worldVars, diskVars
<1>6. CASE Producer
  BY <1>3, <1>6, LookKeepsMark, ReadKeepsMark, SendKeepsMark, MarkKeepsMark DEF Producer
<1> QED
  BY <1>2, <1>3, <1>4, <1>5, <1>6 DEF Next, Over

LEMMA MarkHolds == Spec => []MarkInv
<1>1. Init => MarkInv
  BY TreeAssumption DEF Init, MarkInv, StampInv, ReadInv, Reading, MarkedWasRead, UpToDate
<1> QED
  BY <1>1, MarkStep, PTL DEF Spec

(* Whatever is killed, restarted, rewritten, moved away or brought back, a *)
(* file that --incremental would skip at its present content has been read *)
(* whole at that content: MarkScanned stores what os.Stat saw before the   *)
(* first read.                                                             *)
THEOREM MarkedWasReadHolds == Spec => []MarkedWasRead
<1>1. MarkInv => MarkedWasRead
  BY DEF MarkInv
<1> QED
  BY <1>1, MarkHolds, PTL

-----------------------------------------------------------------------------
(* Without a kill or a panic every record read reaches a worker that       *)
(* finishes it.                                                            *)
DrainInv ==
  /\ crashes \in Nat
  /\ ~up => pending = {}
  /\ crashes = 0 /\ ~panicked => sent \subseteq done \cup pending

LEMMA DrainStep == DrainInv /\ [Next]_vars => DrainInv'
<1> SUFFICES ASSUME DrainInv, [Next]_vars PROVE DrainInv'
  OBVIOUS
<1> USE DEF DrainInv
<1>1. ASSUME UNCHANGED <<up, workVars, crashes, panicked>> PROVE DrainInv'
  BY <1>1 DEF workVars
<1>2. CASE World
  BY <1>1, <1>2 DEF World, Modify, Vanish, Return, processVars, runVars
<1>3. CASE Crash \/ MarkPanics
  BY <1>3 DEF Crash, MarkPanics, Exit
<1>4. CASE StartRun
  BY <1>4 DEF StartRun, workVars
<1>5. CASE SkipResumed \/ StatFile \/ MapFile \/ OpenFile
  BY <1>1, <1>5 DEF SkipResumed, StatFile, LookAt, MapFile, OpenFile, lookVars, runVars
<1>6. CASE ReadRecord \/ EndOfFile
  BY <1>1, <1>6 DEF ReadRecord, EndOfFile, EndOfFileAt, readVars, runVars
<1>7. CASE TruncateResume \/ WriteResume \/ MarkScanned
  BY <1>1, <1>7 DEF TruncateResume, WriteResume, MarkScanned, Mark, saveVars, runVars
<1>8. CASE SendRecord
  BY <1>8 DEF SendRecord, runVars
<1>9. CASE EndRun
  BY <1>9 DEF EndRun, Exit
<1>10. ASSUME NEW x \in pending, FinishRecord(x) PROVE DrainInv'
  BY <1>10 DEF FinishRecord, runVars
<1>11. CASE UNCHANGED vars
  BY <1>1, <1>11 DEF vars, runVars
<1> QED
  BY <1>2, <1>3, <1>4, <1>5, <1>6, <1>7, <1>8, <1>9, <1>10, <1>11 DEF Next, Producer, Over

(* As long as no run is killed or dies of a nil info, every file the next  *)
(* run would skip has been scanned whole by the workers when a run ends:   *)
(* RunScan waits for them after the last MarkScanned.                      *)
THEOREM CleanExitHolds == Spec => []CleanExitScanned
<1>1. Init => DrainInv
  BY DEF Init, DrainInv
<1>2. DrainInv /\ MarkedWasRead => CleanExitScanned
  BY DEF DrainInv, MarkedWasRead, CleanExitScanned, SkippedWasScanned
<1> QED
  BY <1>1, <1>2, DrainStep, MarkedWasReadHolds, PTL DEF Spec
-----------------------------------------------------------------------------
(* A run that has the database works on changed files only: a file that is *)
(* rewritten meanwhile is further from what the database knows, not nearer.*)
LEMMA ChangedStep ==
  TypeOK /\ StampInv /\ ReadsOnlyChanged /\ [Next]_vars => ReadsOnlyChanged'
<1> SUFFICES ASSUME TypeOK, StampInv, ReadsOnlyChanged, [Next]_vars,
                    up', hasDB', phase' \notin {"next", "stat"}, stamp' > 0
             PROVE  ~UpToDate(Path)'
  BY DEF ReadsOnlyChanged
<1> USE DEF ReadsOnlyChanged
<1>1. ASSUME UNCHANGED <<version, marked, targets, pos, hasDB, stamp>>,
             up, phase \notin {"next", "stat"}
      PROVE  ~UpToDate(Path)'
  BY <1>1 DEF UpToDate, Path
<1>2. ASSUME NEW f \in File, Modify(f) \/ Vanish(f) \/ Return(f) PROVE ~UpToDate(Path)'
  <2>1. /\ \A g \in File : version'[g] \in {version[g], version[g] + 1}
        /\ UNCHANGED <<marked, targets, pos, hasDB, up, phase, stamp>>
    BY <1>2 DEF Modify, Vanish, Return, processVars, diskVars, loopVars, targetVars, runVars, StampInv
  <2>2. Path' = Path /\ Path \in File /\ ~UpToDate(Path)
    BY <2>1, PathIsFile DEF Path
  <2>3. marked[Path] <= version[Path] /\ version[Path] \in Nat /\ marked[Path] \in Nat
    BY <2>2 DEF StampInv
  <2>4. version'[Path] \in {version[Path], version[Path] + 1} /\ marked'[Path] = marked[Path]
    BY <2>1, <2>2
  <2>5. ~(version'[Path] > 0 /\ marked'[Path] = version'[Path])
    BY <2>2, <2>3, <2>4 DEF UpToDate
  <2> QED
    BY <2>2, <2>5 DEF UpToDate
<1>3. CASE StatFile
  <2>1. /\ UNCHANGED <<version, marked, targets, pos, hasDB>> /\ stamp' = Info
        /\ ~(hasDB /\ Info > 0 /\ marked[Path] = Info)
    BY <1>3 DEF StatFile, LookAt, NextTarget, lookVars, worldVars, diskVars, runVars
  <2>2. Info = version[Path]
    BY <2>1 DEF Info
  <2> QED
    BY <2>1, <2>2 DEF UpToDate, Path
<1>4. CASE SkipResumed \/ MapFile \/ OpenFile
  <2>1. /\ UNCHANGED <<version, marked, targets, pos, hasDB, stamp, up>>
        /\ phase \notin {"next", "stat"}
    BY <1>4 DEF SkipResumed, MapFile, OpenFile, Open, NextTarget, Goto, lookVars, worldVars,
       diskVars, loopVars, targetVars, runVars
  <2> QED
    BY <1>1, <1>4, <2>1 DEF SkipResumed, MapFile, OpenFile
<1>5. CASE ReadRecord \/ EndOfFile
  BY <1>1, <1>5 DEF ReadRecord, EndOfFile, EndOfFileAt, readVars, worldVars, diskVars, runVars
<1>6. CASE TruncateResume \/ WriteResume \/ SendRecord
  BY <1>1, <1>6 DEF TruncateResume, WriteResume, SendRecord, AfterSave, Goto, saveVars,
     worldVars, diskVars, loopVars, targetVars, runVars
<1>7. ASSUME NEW x \in pending, FinishRecord(x) PROVE ~UpToDate(Path)'
  BY <1>1, <1>7 DEF FinishRecord, worldVars, diskVars, loopVars, targetVars, runVars
<1>8. CASE Crash \/ StartRun \/ MarkScanned \/ EndRun \/ MarkPanics
  BY <1>8 DEF Crash, StartRun, MarkScanned, Mark, EndRun, MarkPanics, Exit, NextTarget
<1>9. CASE UNCHANGED vars
  BY <1>1, <1>9 DEF vars, worldVars, diskVars, loopVars, targetVars, runVars
<1> QED
  BY <1>2, <1>3, <1>4, <1>5, <1>6, <1>7, <1>8, <1>9 DEF Next, World, Producer, Over

(* With the database open, no run works on a file whose present content    *)
(* the database knows if os.Stat found the file, whichever runs without    *)
(* it, kills and rewritten files lie in between: StatFile decides on a     *)
(* mark that only grows stale.                                             *)
THEOREM ReadsOnlyChangedHolds == Spec => []ReadsOnlyChanged
<1>1. Init => ReadsOnlyChanged
  BY DEF Init, ReadsOnlyChanged
<1> QED
  BY <1>1, ChangedStep, TypesHold, MarkHolds, PTL DEF Spec, MarkInv

-----------------------------------------------------------------------------
(* The resume file. *)

(* Of the target it has open, what the producer has gone through has been  *)
(* sent, but for the record in its hand.                                   *)
SentBefore(r) == \E v \in 1 .. MaxVersion : <<Path, v, r>> \in sent
InHand(r) == \E v \in 1 .. MaxVersion : cur = <<Path, v, r>>
BeginningRead ==
  phase \in Reading =>
    \A r \in 1 .. line : SentBefore(r) \/ (phase \in {"truncate", "write", "send"} /\ InHand(r))

(* s.Resume is what was loaded until the run sets it, and then never runs  *)
(* ahead of the target the producer is at.                                 *)
PositionInv ==
  /\ resume # loaded =>
       \/ resume.FileIndex < pos
       \/ resume.FileIndex = pos /\ phase \in Reading
  /\ phase \in {"truncate", "write"} =>
       /\ opts.Resume
       /\ \/ resume.FileIndex = pos - 1
          \/ resume.FileIndex = pos /\ cur = NoRecord

(* The first n files of a list have been read, but for those refused. *)
AllRead(list, n) ==
  \A k \in DOMAIN list : k <= n /\ list[k] \notin refused => WasRead(list[k])

(* What the saved position lies behind has been read, and so has what the  *)
(* position the run started from, and the one it is at, lie behind.        *)
ResumeInv ==
  opts.Resume /\ ~moved =>
    /\ resumeFile.saved = "yes" => /\ resumeFile.resume.FileIndex <= Len(listed)
                                   /\ AllRead(listed, resumeFile.resume.FileIndex)
    /\ up => AllRead(targets, loaded.FileIndex) /\ AllRead(targets, pos - 1)

SkipInv == BeginningRead /\ PositionInv /\ ResumeInv

(* The target in hand has been read once its parser has come to the end. *)
LEMMA TargetRead ==
  ASSUME TypeOK, BeginningRead, phase \in {"truncate", "write", "mark"},
         line = NumRecords[Path], phase = "mark" \/ cur = NoRecord
  PROVE  WasRead(Path)
<1>1. \A v, r : cur = <<Path, v, r>> => cur # NoRecord
  BY DEF NoRecord
<1> QED
  BY <1>1 DEF BeginningRead, SentBefore, InHand, WasRead, Reading

(* One more target. *)
LEMMA OneMoreRead ==
  ASSUME TypeOK, phase # "next" \/ pos <= Len(targets), AllRead(targets, pos - 1),
         Path \in refused \/ WasRead(Path)
  PROVE  AllRead(targets, pos)
<1>1. pos \in Nat
  BY Numbers
<1>2. \A k \in DOMAIN targets : k \in Nat
  <2>1. targets \in Seq(File)
    BY DEF TypeOK
  <2> QED
    BY <2>1
<1>3. \A k \in DOMAIN targets : k <= pos => k <= pos - 1 \/ k = pos
  BY <1>1, <1>2
<1> QED
  BY <1>3 DEF AllRead, Path

(* Steps that leave the producer and the resume file alone. *)
LEMMA RestKeepsSkip ==
  ASSUME SkipInv, sent \subseteq sent', up' => up,
         UNCHANGED <<opts, resumeFile, resume, targets, pos, line, cur, loaded, phase,
                     moved, listed, refused>>
  PROVE  SkipInv'
<1>1. BeginningRead'
  BY DEF SkipInv, BeginningRead, SentBefore, InHand, Path
<1>2. PositionInv'
  BY DEF SkipInv, PositionInv
<1>3. ResumeInv'
  BY DEF SkipInv, ResumeInv, AllRead, WasRead
<1> QED
  BY <1>1, <1>2, <1>3 DEF SkipInv

(* The process goes: what it had in hand is lost, what it has saved stays. *)
LEMMA ExitKeepsSkip ==
  ASSUME SkipInv, Exit
  PROVE  SkipInv'
<1>1. /\ up' = FALSE /\ phase' = "next" /\ resume' = loaded'
      /\ UNCHANGED <<opts, resumeFile, sent, moved, listed, refused>>
  BY DEF Exit, diskVars
<1>2. BeginningRead' /\ PositionInv'
  BY <1>1 DEF BeginningRead, PositionInv, Reading
<1>3. ResumeInv'
  BY <1>1 DEF SkipInv, ResumeInv, AllRead, WasRead
<1> QED
  BY <1>2, <1>3 DEF SkipInv

(* A run starts from what the file says about the same list of targets. *)
LEMMA StartKeepsSkip ==
  ASSUME TypeOK, TypeOK', SkipInv, StartRun
  PROVE  SkipInv'
<1>1. /\ loaded' = LoadResumeState /\ resume' = loaded' /\ pos' = 1 /\ phase' = "next"
      /\ moved' = (moved \/ ~SameList(targets', resume'.FileIndex))
      /\ UNCHANGED <<opts, resumeFile, sent, listed, refused>>
  BY DEF StartRun, diskVars, workVars
<1> targets' \in Seq(File) /\ listed \in Seq(File)
  BY DEF TypeOK
<1>0. /\ DOMAIN targets' = 1 .. Len(targets') /\ Len(targets') \in Nat
      /\ DOMAIN listed = 1 .. Len(listed) /\ Len(listed) \in Nat
  OBVIOUS
<1>2. BeginningRead' /\ PositionInv'
  BY <1>1 DEF BeginningRead, PositionInv, Reading
<1>3. ASSUME opts.Resume, ~moved' PROVE AllRead(targets, loaded.FileIndex)'
  <2>1. CASE resumeFile.saved = "yes"
    <3>1. /\ loaded' = resumeFile.resume /\ loaded'.FileIndex \in Nat
          /\ loaded'.FileIndex <= Len(listed) /\ AllRead(listed, loaded'.FileIndex)
      BY <1>1, <1>3, <2>1 DEF LoadResumeState, SkipInv, ResumeInv, TypeOK, ResumeConfig
    <3>2. ASSUME NEW k \in DOMAIN targets', k <= loaded'.FileIndex
          PROVE  k \in DOMAIN listed /\ targets'[k] = listed[k]
      <4>1. k \in 1 .. loaded'.FileIndex /\ k \in DOMAIN listed
        BY <1>0, <3>1, <3>2
      <4> QED
        BY <1>1, <1>3, <4>1 DEF SameList
    <3> QED
      BY <1>1, <3>1, <3>2 DEF AllRead, WasRead
  <2>2. CASE resumeFile.saved # "yes"
    <3>1. loaded'.FileIndex = 0 /\ \A k \in DOMAIN targets' : k \in Nat /\ k > 0
      BY <1>1, <1>0, <2>2 DEF LoadResumeState, Start
    <3> QED
      BY <3>1 DEF AllRead
  <2> QED
    BY <2>1, <2>2
<1>4. AllRead(targets, pos - 1)'
  <2>1. pos' - 1 = 0 /\ \A k \in DOMAIN targets' : k \in Nat /\ k > 0
    BY <1>1, <1>0
  <2> QED
    BY <2>1 DEF AllRead
<1>5. ResumeInv'
  BY <1>1, <1>3, <1>4 DEF SkipInv, ResumeInv, AllRead, WasRead
<1> QED
  BY <1>2, <1>5 DEF SkipInv

(* A target is left behind. *)
LEMMA NextKeepsSkip ==
  ASSUME TypeOK, SkipInv, NextTarget, phase # "next" \/ pos <= Len(targets),
         opts.Resume /\ ~moved /\ up => Path \in refused' \/ WasRead(Path),
         refused \subseteq refused',
         UNCHANGED <<opts, resumeFile, up, resume, sent, moved, listed>>
  PROVE  SkipInv'
<1>1. /\ phase' = "next" /\ pos' = pos + 1 /\ pos \in Nat
      /\ UNCHANGED <<targets, loaded>>
  BY DEF NextTarget, TypeOK
<1>2. BeginningRead'
  BY <1>1 DEF BeginningRead, Reading
<1>3. PositionInv'
  BY <1>1 DEF SkipInv, PositionInv, TypeOK, ResumeConfig
<1>4. ASSUME opts.Resume, ~moved, up PROVE AllRead(targets, pos - 1)'
  <2>1. \A k \in DOMAIN targets : k \in Nat
    <3>1. targets \in Seq(File)
      BY DEF TypeOK
    <3> QED
      BY <3>1
  <2>2. \A k \in DOMAIN targets : k <= pos' - 1 => k <= pos - 1 \/ k = pos
    BY <1>1, <2>1
  <2>3. AllRead(targets, pos - 1)
    BY <1>4 DEF SkipInv, ResumeInv
  <2> QED
    BY <1>1, <1>4, <2>2, <2>3 DEF AllRead, WasRead, Path
<1>5. ResumeInv'
  BY <1>1, <1>4 DEF SkipInv, ResumeInv, AllRead, WasRead
<1> QED
  BY <1>2, <1>3, <1>5 DEF SkipInv

(* The targets that are passed over: resumed, known to the database, or    *)
(* refused by os.Open.                                                     *)
LEMMA LookKeepsSkip ==
  ASSUME TypeOK, WorkInv, MarkedWasRead, SkipInv,
         SkipResumed \/ StatFile \/ MapFile \/ OpenFile
  PROVE  SkipInv'
<1>1. /\ up /\ pos \in 1 .. Len(targets) /\ phase \in {"next", "stat", "map", "open"}
      /\ UNCHANGED <<opts, resumeFile, up, resume, sent, moved, listed>>
      /\ refused \subseteq refused'
  <2>1. pos \in 1 .. Len(targets)
    <3>1. CASE SkipResumed
      BY <3>1 DEF SkipResumed, TypeOK
    <3>2. CASE StatFile \/ MapFile \/ OpenFile
      BY <3>2, PathIsFile DEF StatFile, LookAt, MapFile, OpenFile
    <3> QED
      BY <3>1, <3>2
  <2>2. /\ up /\ phase \in {"next", "stat", "map", "open"} /\ UNCHANGED lookVars
        /\ refused \subseteq refused'
    BY DEF SkipResumed, StatFile, LookAt, MapFile, OpenFile
  <2> QED
    BY <2>1, <2>2 DEF lookVars, diskVars, workVars, runVars
<1>2. Path \in File
  BY <1>1 DEF TypeOK, Path
<1>3. CASE NextTarget
  <2>1. ASSUME opts.Resume, ~moved PROVE Path \in refused' \/ WasRead(Path)
    <3>1. CASE SkipResumed
      <4>1. phase = "next" /\ pos - 1 < resume.FileIndex
        <5>1. phase = "next" /\ (Goto("stat") \/ pos - 1 < resume.FileIndex)
          BY <3>1 DEF SkipResumed
        <5> QED
          BY <1>3, <5>1 DEF Goto, NextTarget
      <4>2. resume = loaded /\ pos <= loaded.FileIndex
        <5>1. resume.FileIndex \in Nat
          BY DEF TypeOK, ResumeConfig
        <5>2. pos \in Nat
          BY Numbers
        <5>3. ~(resume.FileIndex < pos) /\ pos <= resume.FileIndex
          BY <4>1, <5>1, <5>2
        <5> QED
          BY <4>1, <5>3 DEF SkipInv, PositionInv, Reading
      <4> QED
        BY <1>1, <2>1, <4>2 DEF SkipInv, ResumeInv, AllRead, Path, TypeOK
    <3>2. CASE StatFile
      <4>1. Info > 0 /\ marked[Path] = Info
        BY <1>3, <3>2 DEF StatFile, LookAt, NextTarget
      <4>2. Info = version[Path] /\ version[Path] > 0 /\ version[Path] \in 1 .. MaxVersion
        BY <1>1, <1>2, <4>1 DEF TypeOK, Info
      <4>3. Records(Path, version[Path]) \subseteq sent
        BY <1>2, <4>1, <4>2 DEF MarkedWasRead, UpToDate
      <4> QED
        BY <4>2, <4>3 DEF WasRead, Records
    <3>3. CASE MapFile
      BY <1>3, <3>3 DEF MapFile, Open, Goto, NextTarget
    <3>4. CASE OpenFile
      BY <1>3, <3>4 DEF OpenFile, Open, NextTarget
    <3> QED
      BY <3>1, <3>2, <3>3, <3>4
  <2> QED
    BY <1>1, <1>3, <2>1, NextKeepsSkip
<1>4. CASE ~NextTarget
  <2>1. /\ UNCHANGED <<targets, pos, cur, loaded, refused>>
        /\ \/ phase' \in {"stat", "map", "open"}
           \/ phase' = "read" /\ line' = 0
    BY <1>4 DEF SkipResumed, StatFile, LookAt, MapFile, OpenFile, Open, Goto, loopVars, targetVars
  <2>2. BeginningRead'
    BY <2>1 DEF BeginningRead, Reading
  <2>3. PositionInv'
    BY <1>1, <2>1 DEF SkipInv, PositionInv, Reading
  <2>4. ResumeInv'
    BY <1>1, <2>1 DEF SkipInv, ResumeInv, AllRead, WasRead
  <2> QED
    BY <2>2, <2>3, <2>4 DEF SkipInv
<1> QED
  BY <1>3, <1>4

(* The parser's records. *)
LEMMA ReadKeepsSkip ==
  ASSUME TypeOK, WorkInv, SkipInv, ReadRecord \/ EndOfFile
  PROVE  SkipInv'
<1>1. /\ phase = "read" /\ pos \in 1 .. Len(targets) /\ Path \in File
      /\ UNCHANGED <<opts, resumeFile, up, targets, pos, loaded, sent, moved, listed, refused>>
  BY PathIsFile DEF ReadRecord, EndOfFile, EndOfFileAt, readVars, diskVars, workVars, runVars
<1>2. Path' = Path
  BY <1>1 DEF Path
<1>3. \A r \in 1 .. line : SentBefore(r)
  BY <1>1 DEF SkipInv, BeginningRead, Reading
<1>4. ResumeInv'
  BY <1>1 DEF SkipInv, ResumeInv, AllRead, WasRead
<1>5. CASE ReadRecord
  <2>1. line' = line + 1 /\ phase' \in {"truncate", "send"}
    BY <1>5 DEF ReadRecord
  <2>2. PICK v \in 1 .. MaxVersion : cur' = <<Path, v, line + 1>>
    <3>1. PICK v \in opened .. version[Path] : cur' = <<Path, v, line + 1>>
      BY <1>5 DEF ReadRecord
    <3>2. opened > 0 /\ opened \in 0 .. MaxVersion /\ version[Path] \in 0 .. MaxVersion
      BY <1>1 DEF WorkInv, TypeOK, Reading
    <3>3. v \in 1 .. MaxVersion
      BY <3>2, BoundAssumption
    <3> QED
      BY <3>1, <3>3
  <2>3. ASSUME NEW r \in 1 .. line' PROVE SentBefore(r)' \/ InHand(r)'
    <3>1. CASE r = line + 1
      BY <1>2, <2>1, <2>2, <3>1 DEF InHand
    <3>2. CASE r # line + 1
      <4>1. r \in 1 .. line
        BY <2>1, <3>2, Numbers
      <4> QED
        BY <1>1, <1>2, <1>3, <4>1 DEF SentBefore
    <3> QED
      BY <3>1, <3>2
  <2>4. BeginningRead'
    BY <2>1, <2>3 DEF BeginningRead, Reading
  <2>5. \/ resume' = resume /\ phase' = "send"
        \/ resume'.FileIndex = pos - 1 /\ opts.Resume
    BY <1>5 DEF ReadRecord, Saves
  <2>6. PositionInv'
    BY <1>1, <2>1, <2>5, Numbers DEF SkipInv, PositionInv, Reading
  <2> QED
    BY <1>4, <2>4, <2>6 DEF SkipInv
<1>6. CASE EndOfFile
  <2>1. /\ line' = line /\ cur' = NoRecord /\ phase' \in {"truncate", "mark"}
        /\ \/ resume' = resume /\ phase' = "mark"
           \/ resume'.FileIndex = pos /\ opts.Resume
    BY <1>6 DEF EndOfFile, EndOfFileAt, Saves
  <2>2. BeginningRead'
    BY <1>1, <1>2, <1>3, <2>1 DEF BeginningRead, SentBefore, Reading
  <2>3. PositionInv'
    BY <1>1, <2>1, Numbers DEF SkipInv, PositionInv, Reading
  <2> QED
    BY <1>4, <2>2, <2>3 DEF SkipInv
<1> QED
  BY <1>5, <1>6

(* The resume file is emptied, then written, or neither: the position in   *)
(* it is behind what has been sent.                                        *)
LEMMA WriteKeepsSkip ==
  ASSUME TypeOK, WorkInv, SkipInv, TruncateResume \/ WriteResume
  PROVE  SkipInv'
<1>1. /\ up /\ phase \in {"truncate", "write"} /\ pos \in 1 .. Len(targets)
      /\ UNCHANGED <<opts, up, resume, targets, pos, line, cur, loaded, sent, moved, refused>>
  BY PathIsFile DEF TruncateResume, WriteResume, AfterSave, Goto, saveVars, loopVars, targetVars,
     workVars, runVars
<1>2. Path' = Path
  BY <1>1 DEF Path
<1>3. phase' = "write" \/ phase' = IF cur = NoRecord THEN "mark" ELSE "send"
  BY DEF TruncateResume, WriteResume, AfterSave, Goto
<1>4. PositionInv'
  BY <1>1, <1>3 DEF SkipInv, PositionInv, Reading
<1>5. BeginningRead'
  <2>1. \A v, r : cur = <<Path, v, r>> => cur # NoRecord
    BY DEF NoRecord
  <2> QED
    BY <1>1, <1>2, <1>3, <2>1 DEF SkipInv, BeginningRead, SentBefore, InHand, Reading
<1>6. CASE resumeFile' = Torn /\ listed' = listed
  <2>1. resumeFile'.saved = "torn"
    BY <1>6 DEF Torn
  <2>2. ResumeInv'
    BY <1>1, <1>6, <2>1 DEF SkipInv, ResumeInv, AllRead, WasRead
  <2> QED
    BY <1>4, <1>5, <2>2 DEF SkipInv
<1>7. CASE UNCHANGED <<resumeFile, listed>>
  <2>1. ResumeInv'
    BY <1>1, <1>7 DEF SkipInv, ResumeInv, AllRead, WasRead
  <2> QED
    BY <1>4, <1>5, <2>1 DEF SkipInv
<1>8. CASE resumeFile' = Saved(resume) /\ listed' = targets
  <2>1. resumeFile'.resume = resume /\ listed' = targets
    BY <1>8 DEF Saved
  <2>2. ASSUME opts.Resume, ~moved PROVE AllRead(targets, resume.FileIndex)
    <3>1. AllRead(targets, pos - 1)
      BY <1>1, <2>2 DEF SkipInv, ResumeInv
    <3>2. CASE resume.FileIndex = pos - 1
      BY <3>1, <3>2
    <3>3. CASE resume.FileIndex = pos /\ cur = NoRecord
      <4>1. WasRead(Path)
        BY <1>1, <3>3, TargetRead DEF SkipInv, WorkInv
      <4> QED
        BY <1>1, <3>1, <3>3, <4>1, OneMoreRead
    <3> QED
      BY <1>1, <3>2, <3>3 DEF SkipInv, PositionInv
  <2>3. resume.FileIndex <= Len(targets)
    <3>1. resume.FileIndex \in {pos - 1, pos}
      BY <1>1 DEF SkipInv, PositionInv
    <3> QED
      BY <1>1, <3>1
  <2>4. ResumeInv'
    BY <1>1, <2>1, <2>2, <2>3 DEF SkipInv, ResumeInv, AllRead, WasRead
  <2> QED
    BY <1>4, <1>5, <2>4 DEF SkipInv
<1> QED
  BY <1>6, <1>7, <1>8 DEF TruncateResume, WriteResume

(* The record in hand is sent. *)
LEMMA SendKeepsSkip ==
  ASSUME TypeOK, WorkInv, SkipInv, SendRecord
  PROVE  SkipInv'
<1>1. /\ phase = "send" /\ phase' = "read" /\ sent' = sent \cup {cur}
      /\ UNCHANGED <<opts, resumeFile, up, resume, targets, pos, line, cur, loaded,
                     moved, listed, refused>>
  BY DEF SendRecord, Goto, diskVars, loopVars, targetVars, runVars
<1>2. Path' = Path
  BY <1>1 DEF Path
<1>3. ASSUME NEW r \in 1 .. line PROVE SentBefore(r)'
  BY <1>1, <1>2, <1>3 DEF SkipInv, BeginningRead, SentBefore, InHand, Reading
<1>4. BeginningRead'
  BY <1>1, <1>3 DEF BeginningRead, Reading
<1>5. PositionInv'
  BY <1>1 DEF SkipInv, PositionInv, Reading
<1>6. ResumeInv'
  BY <1>1 DEF SkipInv, ResumeInv, AllRead, WasRead
<1> QED
  BY <1>4, <1>5, <1>6 DEF SkipInv

(* MarkScanned: the target has been read. *)
LEMMA MarkKeepsSkip ==
  ASSUME TypeOK, WorkInv, SkipInv, MarkScanned
  PROVE  SkipInv'
<1>1. /\ phase = "mark" /\ NextTarget
      /\ UNCHANGED <<opts, resumeFile, up, resume, sent, moved, listed, refused>>
  BY DEF MarkScanned, Mark, workVars, runVars
<1>2. WasRead(Path)
  BY <1>1, TargetRead DEF SkipInv, WorkInv
<1> QED
  BY <1>1, <1>2, NextKeepsSkip

LEMMA SkipStep ==
  TypeOK /\ TypeOK' /\ WorkInv /\ MarkedWasRead /\ SkipInv /\ [Next]_vars => SkipInv'
<1> SUFFICES ASSUME TypeOK, TypeOK', WorkInv, MarkedWasRead, SkipInv, [Next]_vars
             PROVE  SkipInv'
  OBVIOUS
<1>1. ASSUME UNCHANGED <<processVars>> PROVE SkipInv'
  BY <1>1, RestKeepsSkip DEF processVars, diskVars, loopVars, targetVars, workVars, runVars
<1>2. CASE World
  BY <1>1, <1>2 DEF World, Modify, Vanish, Return
<1>3. CASE Crash \/ EndRun \/ MarkPanics
  BY <1>3, ExitKeepsSkip DEF Crash, EndRun, MarkPanics
<1>4. CASE Producer
  BY <1>3, <1>4, LookKeepsSkip, ReadKeepsSkip, WriteKeepsSkip, SendKeepsSkip, MarkKeepsSkip
     DEF Producer
<1>5. ASSUME NEW x \in pending, FinishRecord(x) PROVE SkipInv'
  BY <1>5, RestKeepsSkip DEF FinishRecord, diskVars, loopVars, targetVars, runVars
<1>6. CASE UNCHANGED vars
  BY <1>1, <1>6 DEF vars, processVars
<1> QED
  BY <1>2, <1>3, <1>4, <1>5, <1>6, StartKeepsSkip DEF Next, Over

(* The targets that --resume skips have been read to their end, but for    *)
(* those that os.Open has refused, whatever was torn, killed or restarted, *)
(* and whichever files changed, vanished or returned, as long as the saved *)
(* index is applied to the list it was saved for: SaveResumeState writes a *)
(* position only when everything in front of it has been sent or refused.  *)
THEOREM ResumeHolds == Spec => []ResumeSkipsRead
<1>1. Init => SkipInv
  BY DEF Init, SkipInv, BeginningRead, PositionInv, ResumeInv, Absent, Reading
<1>2. TypeOK /\ SkipInv => ResumeSkipsRead
  <2> SUFFICES ASSUME TypeOK, SkipInv PROVE ResumeSkipsRead
    OBVIOUS
  <2>1. DOMAIN targets = 1 .. Len(targets)
    BY DEF TypeOK
  <2> QED
    BY <2>1 DEF SkipInv, ResumeInv, AllRead, ResumeSkipsRead
<1> QED
  BY <1>1, <1>2, SkipStep, TypesHold, MarkedWasReadHolds, PTL DEF Spec
=============================================================================
