----------------------------- MODULE OutputFiles -----------------------------
(***************************************************************************)
(* Commands run one after the other on the same directory: the root        *)
(* command starts (root.go), outputResults writes its results to up to     *)
(* four places (output.go), --process reads a results file back            *)
(* (ProcessResults, service.go), and any of them may be killed.            *)
(*                                                                         *)
(* A document is a sequence of the pieces written: a result, or one of     *)
(* "begin", "comma" and "end" (of a JSON array), "title" (of a report) and *)
(* "header" (of a table).                                                  *)
(* ResultPool has the other side of outputResults, the objects it prints;  *)
(* names that both would use are Files... here.                            *)
(***************************************************************************)
EXTENDS RootCommand, FiniteSets

CONSTANTS
  Findings,   \* what a scan finds, in the order resultChan delivers it
  Path,       \* the files that outputs go to
  Zst,        \* those whose name ends in .zst
  Creatable,  \* those os.Create accepts
  Commands,   \* the command lines that may be run, by turn
  MaxKills    \* bound of the model

OutputFields == {"oJ", "oT", "o"}
Given(c) == {c[f] : f \in OutputFields} \ {NoWord}

Result == ToSet(Findings)
Piece == Result \cup {"begin", "comma", "end", "title", "header"}

(* A result is never one of the pieces that hold an array together.        *)
ASSUME FindingAssumption == /\ Findings \in Seq(Result)
                            /\ Result \cap {"begin", "comma", "end"} = {}
ASSUME PathAssumption == /\ Zst \cup Creatable \subseteq Path /\ NoWord \notin Path
                         /\ MaxKills \in Nat

Command == [args: Seq(STRING), pattern: STRING, all: BOOLEAN, tags: BOOLEAN,
            stdin: BOOLEAN, list: BOOLEAN, process: Path \cup {NoWord}, dryRun: BOOLEAN,
            oJ: Path \cup {NoWord}, oT: Path \cup {NoWord}, o: Path \cup {NoWord},
            report: BOOLEAN, json: BOOLEAN, format: STRING, template: BOOLEAN,
            discard: BOOLEAN, stdout: Path]

(* Two outputs of one command never share a file, and a JSON stream is not *)
(* asked for together with a table, which would follow it on its stream.   *)
ASSUME CommandAssumption ==
  /\ Commands \in Seq(SUBSET Command)
  /\ \A k \in DOMAIN Commands : \A c \in Commands[k] :
       /\ c.stdout \notin Given(c)
       /\ \A f, g \in OutputFields : c[f] = c[g] => f = g \/ c[f] = NoWord
       /\ ~(c.json /\ c.format = "table")

VARIABLES
  turn,      \* commands started so far
  command,   \* the command line of the one running
  phase,     \* where it is; "ready" between two commands
  outcome,   \* how it ended
  delivered, \* what resultChan delivers
  taken,     \* results the loop has taken
  todo,      \* the writes up to the next result: pairs <<path, piece>>
  held,      \* pieces in the buffers of a csv.Writer, a table or zstd
  disk,      \* the content of each file
  origin,    \* for the properties: who wrote it (see Origin)
  source,    \* and that of the file --process has read
  kills

ioVars == <<todo, held, disk>>
filesVars == <<turn, command, phase, outcome, delivered, taken, ioVars, origin, source, kills>>

(* The results that a file was written for, as what, and whether the       *)
(* command that wrote it came to its end.                                  *)
Origin == [of: Seq(Result), json: BOOLEAN, whole: BOOLEAN]
NoOrigin == [of |-> <<>>, json |-> FALSE, whole |-> FALSE]

-----------------------------------------------------------------------------
(* Where the output of a command goes. *)

Opens(c, p) == p # NoWord /\ p \in Creatable
IsJson(c) == c.json \/ c.format = "json"

(* legacyDataOut: -o, unless it is the report or cannot be created; else   *)
(* standard output, discarded by -q on a terminal.                         *)
DataPath(c) == CASE Opens(c, c.o) /\ ~c.report -> c.o
                 [] ~(Opens(c, c.o) /\ ~c.report) /\ ~c.discard -> c.stdout
                 [] OTHER -> NoWord
ReportPath(c) == IF c.report /\ Opens(c, c.o) THEN c.o ELSE NoWord
JsonPath(c) == IF Opens(c, c.oJ) THEN c.oJ ELSE NoWord
TextPath(c) == IF Opens(c, c.oT) THEN c.oT ELSE NoWord

Streams(c) == {DataPath(c), ReportPath(c), JsonPath(c), TextPath(c)} \ {NoWord}

(* A row is kept back by the csv.Writer and the table, and anything by the *)
(* zstd encoder; os.File has no buffer, and the report is never compressed.*)
Rows(c, p) == p = DataPath(c) /\ ~IsJson(c) /\ c.format \in {"csv", "table"}
Held(c, p) == Rows(c, p) \/ (p \in Zst /\ p \notin {ReportPath(c), c.stdout})

ShowsData(c) == IsJson(c) \/ c.format \in {"text", "csv", "table"} \/ c.template

To(p, pieces) == IF p = NoWord THEN <<>>
                 ELSE [k \in DOMAIN pieces |-> <<p, pieces[k]>>]

(* The writes of outputResults before, in and after its loop, in order.    *)
Opening(c) ==
  To(ReportPath(c), <<"title">>)
    \o (IF IsJson(c) THEN To(DataPath(c), <<"begin">>) ELSE <<>>)
    \o To(JsonPath(c), <<"begin">>)

MutElement(r) == <<r>>

Element(r) == IF taken = 0 THEN <<r>> ELSE <<"comma", r>>

ForResult(c, r) ==
  To(TextPath(c), <<r>>)
    \o To(JsonPath(c), Element(r))
    \o To(ReportPath(c), <<r>>)
    \o CASE IsJson(c) -> To(DataPath(c), Element(r))
         [] ~IsJson(c) /\ ShowsData(c) -> To(DataPath(c), <<r>>)
         [] OTHER -> <<>>

Closing(c) ==
  (IF IsJson(c) THEN To(DataPath(c), <<"end">>) ELSE <<>>)
    \o To(JsonPath(c), <<"end">>)

-----------------------------------------------------------------------------
(* JSON documents. *)
Inner(rs, n) == [k \in 1 .. (IF n = 0 THEN 0 ELSE 2 * n - 1) |->
                   IF k % 2 = 1 THEN rs[(k + 1) \div 2] ELSE "comma"]
JsonOf(rs) == <<"begin">> \o Inner(rs, Len(rs)) \o <<"end">>
Elements(doc) == [k \in 1 .. (Len(doc) - 1) \div 2 |-> doc[2 * k]]

MutUnmarshals(p) == p \notin Zst /\ Len(disk[p]) >= 2 /\ Head(disk[p]) = "begin"

(* json.Unmarshal in ProcessResults: all or nothing; a compressed file is  *)
(* read as it is.                                                          *)
Unmarshals(p) == p \notin Zst /\ Len(disk[p]) >= 2 /\ disk[p] = JsonOf(Elements(disk[p]))

-----------------------------------------------------------------------------
FilesTypeOK ==
  /\ turn \in 0 .. Len(Commands)
  /\ phase \in {"ready", "start", "open", "run", "close"}
  /\ outcome \in {"none", "help", "exit-1", "dry-run", "done", "killed"}
  /\ turn > 0 => command \in Commands[turn]
  /\ delivered \in Seq(Result) /\ taken \in 0 .. Len(delivered)
  /\ todo \in Seq(Path \X Piece)
  /\ \A k \in DOMAIN todo : todo[k][1] \in Streams(command)
  /\ held \in [Path -> Seq(Piece)] /\ disk \in [Path -> Seq(Piece)]
  /\ origin \in [Path -> Origin] /\ source \in Origin
  /\ \A p \in Path : held[p] # <<>> => phase \in {"run", "close"} /\ Held(command, p)
  /\ kills \in 0 .. MaxKills

Nowhere == [p \in Path |-> <<>>]

FilesInit ==
  /\ turn = 0 /\ command = NoWord /\ phase = "ready" /\ outcome = "none"
  /\ delivered = <<>> /\ taken = 0
  /\ todo = <<>> /\ held = Nowhere /\ disk = Nowhere
  /\ origin = [p \in Path |-> NoOrigin] /\ source = NoOrigin
  /\ kills = 0

(* The shell opens standard output, and the command line is parsed. *)
StartCommand ==
  /\ phase = "ready" /\ turn < Len(Commands)
  /\ turn' = turn + 1
  /\ \E c \in Commands[turn'] :
       /\ command' = c
       /\ disk' = [disk EXCEPT ![c.stdout] = <<>>]
       /\ origin' = [origin EXCEPT ![c.stdout] = NoOrigin]
  /\ phase' = "start" /\ outcome' = "none" /\ delivered' = <<>> /\ taken' = 0
  /\ source' = NoOrigin
  /\ UNCHANGED <<todo, held, kills>>

(* Every return and os.Exit of the root command in front of outputResults. *)
Leave(how) ==
  /\ phase = "start"
  /\ phase' = "ready" /\ outcome' = how
  /\ UNCHANGED <<turn, command, delivered, taken, ioVars, origin, kills>>

ShowHelp == Leave("help") /\ GivesHelp(command) /\ UNCHANGED source
ConfigFails == Leave("exit-1") /\ ~GivesHelp(command) /\ UNCHANGED source
DryRun == /\ Leave("dry-run") /\ ~GivesHelp(command) /\ command.dryRun
          /\ UNCHANGED source

Proceeds == phase = "start" /\ ~GivesHelp(command) /\ ~command.dryRun

(* RunScan: --process is not given. *)
BeginScan ==
  /\ Proceeds /\ ~Processes(command)
  /\ \E n \in 0 .. Len(Findings) : delivered' = SubSeq(Findings, 1, n)
  /\ phase' = "open"
  /\ UNCHANGED <<turn, command, outcome, taken, ioVars, origin, source, kills>>

(* ProcessResults: the whole file is read before any output is created.    *)
BeginProcess ==
  /\ Proceeds /\ Processes(command)
  /\ Unmarshals(command.process)
  /\ delivered' = Elements(disk[command.process])
  /\ source' = origin[command.process]
  /\ phase' = "open"
  /\ UNCHANGED <<turn, command, outcome, taken, ioVars, origin, kills>>

ProcessFails ==
  /\ Proceeds /\ Processes(command)
  /\ ~Unmarshals(command.process)
  /\ source' = origin[command.process]
  /\ Leave("exit-1")

(* newSmartWriter and os.Create empty the files; the opening pieces.       *)
OpenOutputs ==
  /\ phase = "open"
  /\ LET opened == {p \in Given(command) : Opens(command, p)}
         written == Streams(command)
     IN  /\ disk' = [p \in Path |-> IF p \in opened THEN <<>> ELSE disk[p]]
         /\ origin' = [p \in Path |->
              IF p \in written
              THEN [of |-> delivered, whole |-> FALSE,
                    json |-> p = JsonPath(command) \/ (p = DataPath(command) /\ IsJson(command))]
              ELSE IF p \in opened THEN NoOrigin ELSE origin[p]]
  /\ todo' = Opening(command)
  /\ phase' = "run"
  /\ UNCHANGED <<turn, command, outcome, delivered, taken, held, source, kills>>

-----------------------------------------------------------------------------
(* One write: to the file, or to the buffer in front of it. *)
Write ==
  /\ phase \in {"run", "close"} /\ todo # <<>>
  /\ LET p == Head(todo)[1]
         piece == Head(todo)[2]
     IN  IF Held(command, p)
         THEN held' = [held EXCEPT ![p] = Append(@, piece)] /\ UNCHANGED disk
         ELSE disk' = [disk EXCEPT ![p] = Append(@, piece)] /\ UNCHANGED held
  /\ todo' = Tail(todo)
  /\ UNCHANGED <<turn, command, phase, outcome, delivered, taken, origin, source, kills>>

(* The buffer of a csv.Writer or of zstd is full; a table keeps all rows.  *)
Spill(p) ==
  /\ phase \in {"run", "close"} /\ held[p] # <<>>
  /\ ~(Rows(command, p) /\ command.format = "table")
  /\ disk' = [disk EXCEPT ![p] = Append(@, Head(held[p]))]
  /\ held' = [held EXCEPT ![p] = Tail(@)]
  /\ UNCHANGED <<turn, command, phase, outcome, delivered, taken, todo, origin,
                 source, kills>>

TakeResult ==
  /\ phase = "run" /\ todo = <<>> /\ taken < Len(delivered)
  /\ taken' = taken + 1
  /\ todo' = ForResult(command, delivered[taken + 1])
  /\ UNCHANGED <<turn, command, phase, outcome, delivered, held, disk, origin,
                 source, kills>>

(* resultChan is closed. *)
EndLoop ==
  /\ phase = "run" /\ todo = <<>> /\ taken = Len(delivered)
  /\ todo' = Closing(command)
  /\ phase' = "close"
  /\ UNCHANGED <<turn, command, outcome, delivered, taken, held, disk, origin,
                 source, kills>>

Title(p) == IF Rows(command, p) /\ command.format = "table" THEN <<"header">> ELSE <<>>

MutFinish ==
  /\ phase = "close" /\ todo = <<>>
  /\ origin' = [p \in Path |-> IF p \in Streams(command)
                               THEN [origin[p] EXCEPT !.whole = TRUE] ELSE origin[p]]
  /\ phase' = "ready" /\ outcome' = "done"
  /\ UNCHANGED <<turn, command, delivered, taken, ioVars, source, kills>>

(* Flush, Render and the calls of Close; the process exits. *)
Finish ==
  /\ phase = "close" /\ todo = <<>>
  /\ disk' = [p \in Path |-> IF p \in Streams(command)
                             THEN disk[p] \o Title(p) \o held[p] ELSE disk[p]]
  /\ held' = Nowhere
  /\ origin' = [p \in Path |-> IF p \in Streams(command)
                               THEN [origin[p] EXCEPT !.whole = TRUE] ELSE origin[p]]
  /\ phase' = "ready" /\ outcome' = "done"
  /\ UNCHANGED <<turn, command, delivered, taken, todo, source, kills>>

(* Ctrl+C, a kill: what no Write or Spill has put in a file is lost.       *)
Kill ==
  /\ phase # "ready" /\ kills < MaxKills
  /\ kills' = kills + 1
  /\ phase' = "ready" /\ outcome' = "killed"
  /\ todo' = <<>> /\ held' = Nowhere
  /\ UNCHANGED <<turn, command, delivered, taken, disk, origin, source>>

AllRun == phase = "ready" /\ turn = Len(Commands) /\ UNCHANGED filesVars

FilesNext ==
  \/ StartCommand
  \/ ShowHelp \/ ConfigFails \/ DryRun
  \/ BeginScan \/ BeginProcess \/ ProcessFails
  \/ OpenOutputs \/ Write \/ TakeResult \/ EndLoop \/ Finish
  \/ \E p \in Path : Spill(p)
  \/ Kill
  \/ AllRun

FilesSpec == FilesInit /\ [][FilesNext]_filesVars

-----------------------------------------------------------------------------
(* A scan whose targets come from the arguments uses each argument exactly *)
(* once, as its pattern or as a target; and the pattern it takes from them *)
(* is the name of an existing file only when the last argument is one too. *)
Times(x, s) == Cardinality({k \in DOMAIN s : s[k] = x})
FromArguments(c) == IF Guesses(c) THEN Patterns(c) \o TargetArgs(c) ELSE TargetArgs(c)
ArgumentsUsedOnce ==
  phase = "open" /\ ~Processes(command) /\ ~command.stdin /\ ~command.list =>
    /\ \A x \in ToSet(command.args) :
         Times(x, FromArguments(command)) = Times(x, command.args)
    /\ Guesses(command) /\ Head(Patterns(command)) \in Existing =>
         Last(command.args) \in Existing

(* What each output file holds is, at every moment and after a kill at any *)
(* moment, a beginning of its whole document; once the command has ended   *)
(* it is the whole: the results in their order, in well-formed JSON where  *)
(* JSON was asked for, with nothing left in a buffer.                      *)
Document(c, p) ==
  CASE p = JsonPath(c) -> JsonOf(delivered)
    [] p = TextPath(c) -> delivered
    [] p = ReportPath(c) -> <<"title">> \o delivered
    [] p = DataPath(c) /\ IsJson(c) -> JsonOf(delivered)
    [] p = DataPath(c) /\ ~IsJson(c) /\ c.format = "table" -> <<"header">> \o delivered
    [] p = DataPath(c) /\ ~IsJson(c) /\ c.format # "table" ->
         IF ShowsData(c) THEN delivered ELSE <<>>
StreamsWhole ==
  \A p \in IF turn > 0 THEN Streams(command) ELSE {} :
    /\ phase \in {"run", "close"} => IsPrefix(disk[p], Document(command, p))
    /\ outcome = "done" => disk[p] = Document(command, p)

(* --process works on exactly the results of the command that wrote its    *)
(* file, when that command came to its end, also when an output goes to    *)
(* the same file.  It refuses the file only if that command was killed, or *)
(* the file is compressed or was not written as JSON.                      *)
ProcessReadsWhole ==
  turn > 0 /\ Processes(command) =>
    /\ phase \in {"open", "run", "close"} => source.json /\ delivered = source.of
    /\ phase = "ready" /\ outcome = "exit-1" /\ source # NoOrigin =>
         ~source.whole \/ ~source.json \/ command.process \in Zst
=============================================================================
