----------------------------- MODULE StreamRead -----------------------------
(***************************************************************************)
(* One target on the stream path of RunScan (pkg/scanner/service.go): the  *)
(* source, the pre-processing command (--pre-process) between it and the   *)
(* parser, GetRecords of the text, JSON and CSV parsers                    *)
(* (pkg/scanner/parser.go, parser_fast.go), and the producer, which marks  *)
(* the target as scanned in the end.                                       *)
(*                                                                         *)
(* Rows (lines) are numbered; lineNum <= fetched <= source says how far    *)
(* the parser, its buffer and the command's output have come.  A record is *)
(* [row, col, whole]: col is the target, 0 for the whole line.             *)
(***************************************************************************)
EXTENDS Naturals, Sequences, SequencesExt

CONSTANTS
  Inputs,    \* what the parser is given, or what the command makes of it
  Options,
  PipeCap,   \* rows the command's pipe holds
  OutCap     \* capacity of the parser's channel (500 in the code)

ASSUME StreamAssumption ==
  /\ Inputs \subseteq Seq([cells: Seq({"", "x"}), bad: BOOLEAN, passes: BOOLEAN])
  /\ PipeCap \in Nat \ {0} /\ OutCap \in Nat \ {0}
  /\ Options \subseteq [Format: {"text", "jsonl", "csv"}, HasHeader: BOOLEAN,
                        Targets: Seq(Nat \ {0}),  \* fields, or columns from 1; <<>> for all
                        PreProcess: BOOLEAN, Incremental: BOOLEAN,
                        Stat: BOOLEAN,            \* os.Stat succeeds: not stdin
                        Cancellable: BOOLEAN]

VARIABLES
  opts, input, ctxDone,
  broken,    \* reading the source has failed
  command,   \* "none", "running", "exited", "waited": go cmd.Wait() has returned
  source,    \* rows the command has written
  stub,      \* and the beginning of the next one: it ended in the middle of it
  fetched, half,  \* rows in the parser's hands, and the beginning of one more
  parser,    \* "reading" or "closed"
  lineNum,   \* rows the parser has been through
  todo,      \* records of the row it is at, to be sent
  out,       \* the parser's channel
  producer,  \* "loop", "mark", "done", "returned" or "crashed"
  sent,      \* records sent on recordChan
  marked     \* MarkScanned has run

cmdVars == <<broken, command, source, stub>>
bufVars == <<fetched, half>>
parseVars == <<parser, lineNum, todo>>
prodVars == <<producer, sent, marked>>
vars == <<opts, input, ctxDone, cmdVars, bufVars, parseVars, out, prodVars>>

(* A row with something in it, which can be cut in two. *)
Breakable(n) == n \in DOMAIN input /\ input[n].cells # <<>>

TypeOK ==
  /\ opts \in Options /\ input \in Inputs
  /\ command \in {"none", "running", "exited", "waited"}
  /\ lineNum <= fetched /\ fetched <= source /\ source <= Len(input)
  /\ half => Breakable(fetched + 1) /\ (fetched < source \/ stub)
  /\ stub => Breakable(source + 1) /\ command \in {"exited", "waited"}
  /\ parser \in {"reading", "closed"}
  /\ Len(out) <= OutCap
  /\ producer \in {"loop", "mark", "done", "returned", "crashed"}
  /\ {ctxDone, broken, stub, half, marked} \subseteq BOOLEAN

(* If the command does not start, its reader is the file itself. *)
Init ==
  /\ opts \in Options /\ input \in Inputs
  /\ ctxDone = FALSE /\ broken = FALSE
  /\ command \in IF opts.PreProcess THEN {"none", "running"} ELSE {"none"}
  /\ source = IF command = "none" THEN Len(input) ELSE 0
  /\ stub = FALSE /\ fetched = 0 /\ half = FALSE
  /\ parser = "reading" /\ lineNum = 0 /\ todo = <<>> /\ out = <<>>
  /\ producer = "loop" /\ sent = <<>> /\ marked = FALSE

-----------------------------------------------------------------------------
(* The world: the caller, the disk, the command. *)

CancelCtx ==
  /\ opts.Cancellable /\ ~ctxDone /\ ctxDone' = TRUE
  /\ UNCHANGED <<opts, input, cmdVars, bufVars, parseVars, out, prodVars>>

SourceFails ==
  /\ ~broken /\ parser = "reading" /\ broken' = TRUE
  /\ UNCHANGED <<opts, input, ctxDone, command, source, stub, bufVars, parseVars, out, prodVars>>

CommandWrites ==
  /\ command = "running" /\ source < Len(input) /\ source - fetched < PipeCap
  /\ source' = source + 1
  /\ UNCHANGED <<opts, input, ctxDone, broken, command, stub, bufVars, parseVars, out, prodVars>>

Exit ==
  /\ command = "running" /\ command' = "exited"
  /\ stub' \in {FALSE, Breakable(source + 1)}
  /\ UNCHANGED <<opts, input, ctxDone, broken, source, bufVars, parseVars, out, prodVars>>

(* The command has read everything, or nobody reads it any more, or        *)
(* exec.CommandContext kills it.                                           *)
CommandExits ==
  /\ source = Len(input) \/ broken \/ ctxDone \/ producer # "loop"
  /\ Exit

(* Or it just ends: "head -n 1", an error, a signal. *)
CommandDies == Exit

(* go cmd.Wait() closes the read end of StdoutPipe, read or not. *)
WaitReturns ==
  /\ command = "exited" /\ command' = "waited"
  /\ UNCHANGED <<opts, input, ctxDone, broken, source, stub, bufVars, parseVars, out, prodVars>>

-----------------------------------------------------------------------------
(* The parser goroutine. *)

(* The row that CSV counts the cells of: empty lines are passed over. *)
First == Min({n \in DOMAIN input : input[n].cells # <<>>})

Bad(n) == \/ input[n].bad   \* over 100 MB, or malformed CSV
          \/ /\ opts.Format = "csv" /\ input[n].cells # <<>>
             /\ Len(input[n].cells) # Len(input[First].cells)

(* An empty list stands for the whole line (text, and JSON "$") or, in     *)
(* CSV, for the columns of the first row.                                  *)
Columns == IF opts.Format = "text" THEN <<0>>
           ELSE IF opts.Targets # <<>> THEN opts.Targets
           ELSE IF opts.Format = "csv" THEN [i \in DOMAIN input[First].cells |-> i]
           ELSE <<0>>

NotEmpty(n, col) == IF col = 0 THEN opts.Format = "text" \/ input[n].cells # <<>>
                    ELSE col \in DOMAIN input[n].cells /\ input[n].cells[col] # ""

(* An empty CSV line, the CSV header, a JSON object the filters refuse. *)
Skipped(n) == \/ opts.Format = "csv" /\ (input[n].cells = <<>> \/ (opts.HasHeader /\ n = First))
              \/ opts.Format = "jsonl" /\ ~input[n].passes

(* The records of row n: those of its targets that are not empty. *)
RecordOf(n, col) ==
  IF NotEmpty(n, col) THEN <<[row |-> n, col |-> col, whole |-> TRUE]>> ELSE <<>>
RecordsOf(n) ==
  IF Skipped(n) THEN <<>>
  ELSE FlattenSeq([i \in DOMAIN Columns |-> RecordOf(n, Columns[i])])

ReadFails == command = "none" /\ broken

(* A block of the stream, which may end in the middle of a row. *)
Fetch ==
  /\ parser = "reading" /\ todo = <<>> /\ lineNum = fetched
  /\ command # "waited" /\ ~ReadFails
  /\ \E n \in fetched .. source : \E cut \in BOOLEAN :
       /\ n > fetched \/ (cut /\ ~half)
       /\ cut => Breakable(n + 1) /\ (n < source \/ stub)
       /\ fetched' = n /\ half' = cut
  /\ UNCHANGED <<opts, input, ctxDone, cmdVars, parseVars, out, prodVars>>

MutNextRowKeepsOpen ==
  /\ parser = "reading" /\ todo = <<>> /\ lineNum < fetched /\ ~Bad(lineNum + 1)
  /\ lineNum' = lineNum + 1
  /\ todo' = RecordsOf(lineNum + 1)
  /\ UNCHANGED <<opts, input, ctxDone, cmdVars, bufVars, parser, out, prodVars>>

(* scanner.Scan() or csvReader.Read(): a row that fails ends the file. *)
NextRow ==
  /\ parser = "reading" /\ todo = <<>> /\ lineNum < fetched
  /\ IF Bad(lineNum + 1)
     THEN parser' = "closed" /\ UNCHANGED <<lineNum, todo>>
     ELSE /\ lineNum' = lineNum + 1
          /\ todo' = RecordsOf(lineNum + 1)
          /\ UNCHANGED parser
  /\ UNCHANGED <<opts, input, ctxDone, cmdVars, bufVars, out, prodVars>>

(* End of file, or an error that nobody looks at. *)
AtEOF == command \in {"none", "exited"} /\ fetched = source /\ (stub => half)
Ended == command = "waited" \/ ReadFails \/ AtEOF

(* What the beginning of row n can give: of every target the whole value,  *)
(* a part of it, or nothing.                                               *)
PieceOf(n, col, got) ==
  CASE got = "whole" -> RecordOf(n, col)
    [] got = "part" -> <<[row |-> n, col |-> col, whole |-> FALSE]>>
    [] OTHER -> <<>>
CutRecords(n) ==
  {FlattenSeq([i \in DOMAIN Columns |-> PieceOf(n, Columns[i], got[i])]) :
     got \in [DOMAIN Columns -> {"whole", "part", "nothing"}]}

(* bufio.Scanner takes what is left in its buffer for a last line, and the *)
(* filters judge it as it is; csv.Reader does so at the end of the file    *)
(* only.                                                                   *)
LastLine(n) ==
  CASE opts.Format = "text" ->
         {t \in CutRecords(n) : IF Bad(n) THEN t # RecordsOf(n) ELSE t # <<>>}
    [] opts.Format = "csv" ->
         IF AtEOF /\ ~Skipped(n) THEN CutRecords(n) ELSE {<<>>}
    [] OTHER -> CutRecords(n)

CutRow ==
  /\ parser = "reading" /\ todo = <<>> /\ lineNum = fetched /\ Ended /\ half
  /\ half' = FALSE /\ stub' = FALSE
  /\ todo' \in LastLine(fetched + 1)
  /\ UNCHANGED <<opts, input, ctxDone, broken, command, source, fetched, parser, lineNum, out, prodVars>>

EndOfStream ==
  /\ parser = "reading" /\ todo = <<>> /\ lineNum = fetched /\ Ended /\ ~half
  /\ parser' = "closed"
  /\ UNCHANGED <<opts, input, ctxDone, cmdVars, bufVars, lineNum, todo, out, prodVars>>

MutSendRecord ==
  /\ parser = "reading" /\ todo # <<>>
  /\ out' = Append(out, Head(todo)) /\ todo' = Tail(todo)
  /\ UNCHANGED <<opts, input, ctxDone, cmdVars, bufVars, parser, lineNum, prodVars>>

SendRecord ==
  /\ parser = "reading" /\ todo # <<>> /\ Len(out) < OutCap
  /\ out' = Append(out, Head(todo)) /\ todo' = Tail(todo)
  /\ UNCHANGED <<opts, input, ctxDone, cmdVars, bufVars, parser, lineNum, prodVars>>

MutParserCancelled ==
  /\ parser = "reading" /\ todo # <<>> /\ ctxDone
  /\ todo' = <<>>
  /\ UNCHANGED <<opts, input, ctxDone, cmdVars, bufVars, parser, lineNum, out, prodVars>>

ParserCancelled ==
  /\ parser = "reading" /\ todo # <<>> /\ ctxDone
  /\ parser' = "closed" /\ todo' = <<>>
  /\ UNCHANGED <<opts, input, ctxDone, cmdVars, bufVars, lineNum, out, prodVars>>

-----------------------------------------------------------------------------
(* The producer. *)

ForwardRecord ==
  /\ producer = "loop" /\ out # <<>>
  /\ sent' = Append(sent, Head(out)) /\ out' = Tail(out)
  /\ UNCHANGED <<opts, input, ctxDone, cmdVars, bufVars, parseVars, producer, marked>>

ProducerCancelled ==
  /\ producer = "loop" /\ out # <<>> /\ ctxDone
  /\ producer' = "returned" /\ out' = Tail(out)
  /\ UNCHANGED <<opts, input, ctxDone, cmdVars, bufVars, parseVars, sent, marked>>

MutFinishTarget ==
  /\ producer = "loop" /\ out = <<>>
  /\ producer' = "mark"
  /\ UNCHANGED <<opts, input, ctxDone, cmdVars, bufVars, parseVars, out, sent, marked>>

(* The parser's channel is closed and empty: both readers are closed. *)
FinishTarget ==
  /\ producer = "loop" /\ out = <<>> /\ parser = "closed"
  /\ producer' = "mark"
  /\ UNCHANGED <<opts, input, ctxDone, cmdVars, bufVars, parseVars, out, sent, marked>>

(* err is that of GetRecords, always nil; the info of a target that        *)
(* os.Stat refused is nil as well, and info.Size() panics.                 *)
MarkScanned ==
  /\ producer = "mark"
  /\ producer' = IF opts.Incremental /\ ~opts.Stat THEN "crashed" ELSE "done"
  /\ marked' = (opts.Incremental /\ opts.Stat)
  /\ UNCHANGED <<opts, input, ctxDone, cmdVars, bufVars, parseVars, out, sent>>

-----------------------------------------------------------------------------
Command == CommandWrites \/ CommandExits \/ WaitReturns  \* what it must do in time
Parser == Fetch \/ NextRow \/ CutRow \/ EndOfStream \/ SendRecord \/ ParserCancelled
Producer == ForwardRecord \/ ProducerCancelled \/ FinishTarget \/ MarkScanned
Over == producer \in {"done", "returned", "crashed"} /\ UNCHANGED vars

Next == CancelCtx \/ SourceFails \/ CommandDies \/ Command \/ Parser \/ Producer \/ Over

(* The goroutines run; the command reads its input and ends. *)
Fairness == WF_vars(Command) /\ WF_vars(Parser) /\ WF_vars(Producer)
Spec == Init /\ [][Next]_vars /\ Fairness

-----------------------------------------------------------------------------
(* The records of the rows in front of the first bad one, as a reader of   *)
(* the whole stream would list them.                                       *)
Limit == IF \E n \in DOMAIN input : Bad(n)
         THEN CHOOSE n \in DOMAIN input : Bad(n) /\ \A m \in 1 .. n - 1 : ~Bad(m)
         ELSE Len(input) + 1
Listed(n) == FlattenSeq([m \in 1 .. n |-> RecordsOf(m)])
Expected == Listed(Limit - 1)

(* The stream ended early: a read error, a pipe closed by cmd.Wait, or a   *)
(* command that ended in the middle of its output.                         *)
BrokeOff ==
  \/ ReadFails \/ command = "waited"
  \/ command = "exited" /\ source < Len(input)

(* The workers get the records of the stream in order, none skipped, none  *)
(* twice and each one whole, however it was cut into blocks; only a stream *)
(* that broke off can end, after all the rows in front, in what the        *)
(* beginning of one row gives, whatever its targets.                       *)
InOrderAndWhole ==
  \/ IsPrefix(sent, Expected)
  \/ /\ BrokeOff
     /\ \E n \in DOMAIN input : \E t \in CutRecords(n) :
          n <= Limit /\ IsPrefix(sent, Listed(n - 1) \o t)

(* A target is marked as scanned with records missing only for one of five *)
(* reasons, none of which the code looks at: a bad row, a read error, a    *)
(* cancellation, a command that ended early, and a pipe that cmd.Wait      *)
(* closed on unread output.                                                *)
MarkedUnreadExplained ==
  marked => \/ sent = Expected /\ Limit > Len(input)
            \/ Limit <= Len(input)
            \/ broken \/ ctxDone
            \/ command \in {"exited", "waited"} /\ source < Len(input)
            \/ command = "waited" /\ fetched < source

(* Whatever the command, the parser and the disk do, the scan gets past    *)
(* this target: a parser that stops early does not leave the producer or a *)
(* full pipe waiting, and only a target without os.Stat information can    *)
(* take the process down.                                                  *)
GetsPast == <>(producer \in {"done", "returned"} \/ (producer = "crashed" /\ ~opts.Stat))
=============================================================================
