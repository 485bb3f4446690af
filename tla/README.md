# TLA+ models of ZetGrep

These modules model ZetGrep (`src/`, Go): a scanner that runs named patterns over
files, streams or a results file with a pool of workers, filters and enriches the
matches, and prints, stores, posts and displays them. The modules are checked with
TLC on small instances; what holds for every value of the constants is proved with
TLAPS. `PROJECT.json` lists the runs, the lines of code each definition stands for,
the hazards and the theorems.

## 1. The system

| Part | State it keeps | Operations | Talks to |
|---|---|---|---|
| `RunScan` (`pkg/scanner/service.go`) | `recordChan` (5000), `resultChan` (10000), wait group, hit counter, `seenMatches` | one producer goroutine over the targets, `2*NumCPU` workers, `handleMatch` | parsers, state database, tools, dashboard, webhooks, `outputResults` |
| Parsers (`parser.go`, `parser_fast.go`) | a file or a mapping; chunk bounds | `GetRecords` (stream), `GetRecordsParallel` (mmap, on by default) | the producer, by a channel |
| Matchers (`matcher.go`) | keyword Bloom filter, literal automaton, compiled regexes | `MayMatch`, `Match` | workers |
| State database (`pkg/state/db.go`) | bbolt buckets `files` and `hits` | `ShouldScan`, `MarkScanned`, `IsDuplicate`, `MarkHit` | producer, workers; survives the process |
| Resume file (`service.go`) | `FileIndex`, `LineIndex` in JSON | `LoadResumeState`, `SaveResumeState` | producer; survives the process |
| Result pool (`scanner.go`) | `sync.Pool` of `*Result` | `GetResult`, `PutResult` | workers, `outputResults` |
| Dashboard (`pkg/api/server.go`) | map of client channels (100 each) | `Broadcast`, `handleSSE` | workers, browsers |
| Output (`cmd/zetgrep/cmd/output.go`) | open files, `htmlResults` | `outputResults` | `resultChan`, result pool |
| Watchdogs (`thermal.go`, `service.go`) | `isPaused`, `isThrottled` | `MonitorThermal`, the memory goroutine | workers poll the flags |
| Tools (`models.go`, `service.go`) | `processSem`, `ToolData` of a result | `getActiveTools`, `executeToolWithLimit`, `Tool.Execute`, `ProcessResults` | workers, shell commands |
| Command line (`root.go`) | flags | opens the database and resume file, resolves arguments, starts the rest | all |
| Small parts | - | classifier, entropy, progress and notifications, delta, diagnose, HTML report, list, update | - |

What is hard here is concurrency and failure: workers that race for one finding,
two channels that can both be full, cancellation against a closing channel, a
process killed between a write and the work it vouches for, pointers that return
to a pool while others hold them, two monitors that store one flag, and semaphore
slots held by commands that fail. The `hazards` of `PROJECT.json` list each at its
line with the properties that watch it, or with the reason why none does.

## 2. The modules

`MC*` modules give values to the constants. `ChunkSplit` takes only numbers and is
run directly.

**ScanPipeline** - producer, workers, `handleMatch` and the reader of `resultChan`.
A match is `<<record, index>>` with a key (pattern and content). One action per
point at which another goroutine can see or change something: the send on and
receive from each channel, `LoadOrStore`, `IsDuplicate`, `MarkHit`, the counter,
the closes, and the process's death by a send on a closed channel. The filters are
verdicts on a match (`Interesting`, `Entropic`). `MarkHit` may fail (`DbReliable`).
`emitted` is the history of `resultChan` and `read` how far the reader has come.
Tools, dashboard and webhook calls of `handleMatch` do not touch this state and
are in `ToolWorkflow` and `ResultPool`.

**HitReport** - the abstract specification: wanted matches arrive one at a time,
none twice; the end comes after all of them or after a cancellation, and it comes.
`ScanPipeline` implements it, with `reported` the part of `emitted` already read.

**ScanPersistence** - the `files` bucket and the resume file over several runs: the
producer's loop (skip by index, `os.Stat`, `ShouldScan`, open or map, records,
save, `MarkScanned`), records on their way to the workers, and crashes between any
two steps, also between the truncation and the write of the resume file. Files are
created, rewritten, vanish and come back with the same content at any step
(`Modify`, `Vanish`, `Return`), so `os.Stat`, `mmap.Map` and `os.Open` may fail for
any file, besides those that are there and cannot be opened (`Unreadable`); so may
the write of the resume file and of a mark. `stdin` and `-` are targets that are
read but that `os.Stat` never finds. A target that was read whole without an
`info` ends the process in `MarkScanned` (`panicked`). Each run resolves its
targets anew, so the index it loads may point into another list, and it may find
the database locked by another process (`hasDB`). A file's content is a version,
which its size and modification time identify; standard input has version 1.

**ResultPool** - who holds a `*Result`. An object is a pointer, `content` what it
describes; `sync.Pool` hands out any object it holds or a new one. The worker
fills it, broadcasts it, starts the webhook, sends it; the printer prints it and
puts it back; a browser connects, reads, leaves and has its channel closed.

**PauseControl** - `MonitorThermal` with its own `isPaused`, the memory goroutine,
the shared flag, and workers that poll it before each record. Each monitor reads
the hardware in one step and stores the flag in a later one; `thermalSaw` and
`ramSaw` say on which reading it acts. The options are chosen in the
initial state, so one run covers one monitor, the other, and both.

**ChunkSplit** - `GetRecordsParallel` on a file known by its length and the offsets
of its newlines: the two loops that move a chunk's bounds, the lines sent, the
index panic of tiny files, and `Unmap` by the producer at the end or on a
cancellation. The lines that give no record (`refused`: in JSON an empty line, one
the filters refuse, one without any target) are any set of lines; a line that is
sent stands for the records of its targets.

**StreamRead** - one target on the stream path: the source, the pre-processing
command and its pipe (which `go cmd.Wait()` closes), the parser's buffer, which may
end in the middle of a row, `GetRecords` of the text, JSON and CSV parsers with
their headers, filters, targets and empty cells, and the producer up to
`MarkScanned`. The command may end by itself at any point, with or without an
error, which nobody looks at (`CommandDies`), also behind half a row it has
written. The beginning of a row gives what its parser makes of it (`CutRecords`):
the JSON parser tries every target on the cut line, so each gives its whole value,
a piece of it, or nothing. Rows are numbered; a row is a list of cells, empty or not, and may
be one the parser refuses.

**PreFilter** - `NewPreFilter` and `MayMatch` as operators on short texts; a Bloom
filter is a set that may also answer yes for anything else. `Lower` maps word
characters to word characters, as `bytesToLower` does on ASCII; that `(?i)` also
lets a few non-ASCII letters stand for ASCII ones is left out.

**RecordMatch** - a worker on one record: pre-filter, decoding, post-processing,
the literal matcher and the compiled patterns. `EnterMatch`, `Count`, `Walk` and
`Stamp` are the library's `Match`: the counter of the matcher is read and written
without a lock, and a node is reported when its own counter differs. Regular
expressions are literals with a dot and a flag for case.

**ToolWorkflow** - the tool loop that `handleMatch` and `ProcessResults` share. In
scan mode every worker takes matches; with `--process` one goroutine takes the
results of a file, which may hold tool data of an earlier run. A tool waits for a
slot of `processSem`, is skipped (`extract`), or its command starts with its
placeholder filled, then prints, fails (error, no output, 15-second timeout) or
hangs for ever (a grandchild that outlives the timeout and keeps the pipe open).
What a tool prints is remembered with its match and run, so that a value in the
wrong place is visible. That printed values may themselves contain placeholders is
left out.

**RootCommand** - operators: when the root command shows its help, which argument
it takes for the pattern and which for targets. With `--stdin` or `--list-file` the
arguments behind the pattern are dropped; `ArgumentsUsedOnce` is about commands
without these two flags.

**OutputFiles** - commands one after the other on the same files. Each starts with
`RootCommand`, may return or exit before it opens an output, then runs
`outputResults`: every write to every stream in order, buffered or not, the flushes
and closes; it may be killed at any step, and a later `--process` reads what is on
the disk. A document is a sequence of pieces: a result, a comma, the beginning or
the end of a JSON array, a title, a header. A write that fails is not modelled. Left out, by `CommandAssumption`: two
outputs of one command in one file, and `--json` together with `--format table`,
which renders an empty table behind the array. Names that `ResultPool` has too are
called `Files...` here (`FilesSpec`, `FilesTypeOK`), because `OutputProofs` extends
both.

**ScanPipelineProofs**, **ScanPersistenceProofs**, **PauseControlProofs**,
**ChunkSplitProofs**, **StreamReadProofs**, **RecordMatchProofs**,
**ToolWorkflowProofs** - theorems about the module in their name; **OutputProofs** -
theorems about the two sides of the output, `ResultPool` and `OutputFiles`
(section 5).

Composition: the components meet in `handleMatch`. `ScanPipeline` models its
control in full; `ResultPool` and `ToolWorkflow` each refine one stretch of it
(`Broadcast` to `PutResult`; the tool loop) with a state the pipeline does not
need; `PauseControl` refines the step in which a worker receives a record,
`ChunkSplit` and `StreamRead` what happens before it, `RecordMatch` the search for
matches, and `OutputFiles` the reader of `resultChan`. `RecordMatch` extends
`PreFilter`, `OutputFiles` extends `RootCommand`.

## 3. The runs

| Run | Bounds | What it shows |
|---|---|---|
| `pipeline` | 2 workers, 3 records, 6 matches with 4 keys, both channels of capacity 1, cancellation at any step | `--unique`, `--global-dedupe` and `--smart` with a database write that may fail: types, no match or key twice, exact counter; a send on the closed channel needs a cancellation, and nothing wanted is missing without one; the refinement of `HitReport`, whose liveness makes the scan end |
| `dedupe_race` | the same, `--global-dedupe` only | *violated*: two workers report one finding |
| `persistence` | 2 files that change, vanish and come back at any step (one with 2 records, one mapped that appears later), `--incremental` or `--resume`, save after every record, queue of 1, 2 runs, 1 kill, 2 versions | a file that would be skipped has been read at its present content; without a kill or a panic it has been scanned; resume skips only what was read, but for files `os.Open` refused and unless the list of targets has moved; with the database a run reads only what changed |
| `restart_loses` | an unreadable file, one of 2 records and standard input, `--incremental`, 2 runs, 1 kill, 1 version | *violated*: what a run skips after a kill need not have been scanned |
| `result_pool` | 2 workers, 2 hits, 3 objects, 1 browser, channels of 1 | one owner for each object, no broadcast to a closed channel, no browser holds up the scan |
| `result_alias` | the same | *violated*: dashboard, webhook and report rows show an object that has been reset or reused |
| `pause` | 2 workers, levels 0..3, thresholds 3, 1 (below its margin) or none, margins 2 and 1, both values of `AutoScale` | with one monitor the pause holds; whichever monitor lifts a pause has seen its own safe level; on a calm machine the scan goes on, unless a threshold whose safe level is unreachable has paused it for good |
| `chunks` | every file of 1..6 bytes with newlines anywhere, any of its lines refused, 1..3 goroutines, cancellation | whole lines, each once, none lost but those refused; the two faults only where explained |
| `stream` | text, JSON and CSV inputs of up to 4 rows with good, empty, filtered and bad rows; a pipe of 2 rows, a channel of 1 record; read errors, a command that ends by itself, also within a row, cancellation | the records arrive in order, each once and whole, but for what the beginning of one row gives where the stream broke off; a target is marked as scanned unread only for five reasons; the scan gets past it |
| `matching` | 2 workers, 3 records, texts of up to 5 characters over six, selections of up to 3 patterns | a literal is reported at most once and where it occurs; it is missed only after two workers were in the matcher together, and is reported under its own name unless a later pattern has the same text; the pre-filter keeps whole words in either case |
| `tools` | 2 goroutines (or `--process`), 2 matches, 1 slot, 3 tools chained by ID and by a shared label, one unknown ID | no slot is lost or exceeded; a placeholder gets the first output of its own match; every output is kept in order; the loops end, but for those a hung command holds |
| `session` | 2 commands: a scan with every shape of arguments or choice of outputs (compressed, refused or shared with the report), then `--process`; 2 results, 1 kill | each argument is used once; an output file is at every moment a beginning of its document and in the end the whole; `--process` works on exactly what a finished command wrote and refuses the rest |

Why these bounds: a channel of capacity one makes both sides block; two workers are
enough for each race listed, since each involves one look-up and one update of a
single entry; three records let one worker finish while another is in the middle
and the producer waits, and a lost update of the matcher's counter be met by a later
call. Six bytes and three chunks hold a chunk without newline, a
line over three chunks, a bound on and behind a newline, and a file shorter than
the number of goroutines. One crash and two runs allow a save or a mark that a kill
cuts off and a run that sees what it left; more of both are covered by the proofs,
which have no bound. Two files are enough there, since the properties relate one
file to a position in the list, which the other moves; standard input is left to
`restart_loses` and to the proofs. Two matches per goroutine are
needed to see data of one match in the next; two results, to see a comma between
them and none before. The bounds of the model are
`MaxRuns`, `MaxCrashes`, `MaxVersion`, `NumRecords`, `NumHits`, `MaxSize`,
`MaxChunks`, `MaxRecords`, `MaxKills` and `Top`.

Deadlock is checked in every run; a finished scan stutters in the action `Over`
or `Done`.

The violated properties restate what a document says; `findings` quotes each and
adds the disagreements met while reading that have no run of their own, among them: `--mmap` is
on by default and its path never saves a resume position; `LineIndex` is never
read; the line number of a mapped record is its byte offset; a mapped file with
fewer bytes than goroutines makes the parser panic; a second monitor clears the
thermal pause, and a threshold below its margin never lifts one; of two patterns
with the same text only the later is reported; the resume file counts records that
no worker has scanned; `MarkHit` comes before the filters; the pre-filter drops records in
which a keyword is part of a longer word, and those that only decoding would match;
`--stdin --incremental` panics at its end; running an interrupted command again
empties the outputs it had saved. `--incremental` likewise panics for a file that
comes back between `os.Stat` and `os.Open`.

## 4. Fairness

* `ScanPipeline`: weak fairness for the producer, each worker and the reader. A
  goroutine that can run is run by the Go scheduler, and a channel operation that
  stays possible is eventually done. The pause flag is taken to be off (its effect
  is in `PauseControl`), and tools to end (in `ToolWorkflow`). Cancellation is
  never forced.
* `ResultPool`: the same for workers and printer. A browser or a webhook owes
  nothing.
* `PauseControl`: both monitors are loops with a sleep and no exit, so each keeps
  taking its turn; the workers always have another record. Sensors can be read.
* `StreamRead`: weak fairness for the parser, the producer and the pre-processing
  command, which reads what it is given and ends; a command that never ends is
  outside the model. Nothing makes the source fail, the command die early or the
  caller cancel.
* `ToolWorkflow`: weak fairness for each goroutine's own steps and for the end of a
  command, which its timeout enforces or which hangs; strong fairness for taking a
  slot, because goroutines blocked in a send on a channel are served first in,
  first out.
* The other modules state safety only.

## 5. Proofs

Everything proved holds for all values of the constants that satisfy the named
assumptions of the module (`PoolAssumption`, `InputAssumption`, ...), which TLC
evaluates on its instance. Every safety invariant that a passing run checks is
proved. Each proof has the shape `Init => Inv`,
`Inv /\ [Next]_vars => Inv'` with one step per action, and a last step by `PTL`.
What is proved is seldom inductive by itself; the invariants below say what is
missing.

`ScanPipelineProofs` - any workers, records, matches, capacities and options:

* `TypeCorrect`: `Spec => []TypeOK`.
* `PanicSafe`: `Spec => []PanicNeedsCancel`. That nobody sends once `resultChan` is
  closed needs the stages of the producer. `CloseInv` adds them: `resultChan` is
  closed exactly when the producer has returned, and without a cancellation it
  returns only when every worker has exited (`wg.Wait`, after `recordChan` was
  closed).
* `AtMostOnceHolds`: `Spec => []AtMostOnce`. `OnceInv` says where a match can be:
  each record taken is in the hands of at most one worker, and the matches of that
  record already emitted lie before the one the worker is at. `OwnerInv` adds, for
  `--unique`, that a worker past `LoadOrStore` holds a key that is in
  `seenMatches`, that no other worker holds and that has not been emitted.

And, in the same module, about what the caller gets:

* `HitCountHolds`: `Spec => []HitCountExact`. `CountInv`: without a cancellation the
  counter is ahead of `resultChan` by exactly the workers about to send, counted
  with `FS_AddElement` and `FS_RemoveElement`.
* `ReportedMarkedHolds`: `Spec => []ReportedIsMarked`, for a database whose writes
  succeed. No run checks it, because the write may fail in `pipeline`.
* `CompleteHolds`: `Spec => []CompleteWhenClosed`. `SettledInv` follows each wanted
  match of a record that has been taken: it lies ahead of a worker, or a match of
  its key is in the hands of one, or reported; and a key found in `seenMatches` or
  in the `hits` bucket is one that its owner still reports. `EndInv` ties the ends
  of the two channels to what is left in them.
* `ImplementsReportSafely`: every initial state of `ScanPipeline` is one of
  `HitReport`, and every step is a step of `HitReport` or one its caller does not
  see. `WantedInv` (only wanted matches pass the filters) and `EndInv` say that the
  reader's steps are `Receive` and `Finish`.

The last two have a hypothesis, `FilterByKey`: where matches are dropped as
duplicates by their key, the entropy filter gives all matches of a key one
verdict. It is needed: `LoadOrStore` and `MarkHit` come before the filters
(`service.go:287-310`), and the entropy of a literal match is that of its whole
record (`:463`), so a key first seen in a record of low entropy is suppressed for
good, also where it occurs in a record that would pass. Without `--entropy`, or
without `--unique` and `--global-dedupe`, the hypothesis holds trivially; the
smart filter looks at the content, which is part of the key, and needs none.

`ScanPersistenceProofs` - any files, trees, records, versions, runs and kills:

* `TypeCorrect`: `Spec => []TypeOK`. The producer's index and record stay within the
  list and the file of its run; `WorkInv` says in which phases there is one.
* `MarkedWasReadHolds`: `Spec => []MarkedWasRead`. A mark is made from a stamp taken
  before the first read, so `ReadInv` relates the two: as long as the file is the
  one `os.Stat` saw, every record up to the producer's line was read from that
  version and is sent or in its hand. `StampInv` says that versions only grow, so
  that a file that was modified meanwhile has a stamp nobody will see again, and
  that what was opened is no older than the stamp.
* `CleanExitHolds`: `Spec => []CleanExitScanned`. `DrainInv`: without a kill or a
  panic every record sent is with the workers or finished by one.
* `ReadsOnlyChangedHolds`: `Spec => []ReadsOnlyChanged`. What `ShouldScan` answered
  can only change from "up to date" to "changed" while the producer holds the file,
  which `StampInv` gives: a mark may grow stale, never fresh, until `MarkScanned`.
* `ResumeHolds`: `Spec => []ResumeSkipsRead`. `SkipInv` has three parts. Of the open
  target, every record up to the line has been sent or is in hand (`BeginningRead`).
  The position in memory never runs ahead of the target, and names its end only
  when nothing of it is in hand (`PositionInv`). Everything in front of the saved
  index, of the index the run was started with, and of the target in hand has been
  read (`ResumeInv`). The last has the hypothesis `~moved`, as the property does,
  and "read" excepts the files `os.Open` refused in some run (`refused`): the
  producer goes on to the next target, and the index it saves there passes over
  them, whether or not they come back.

`OutputProofs` - of `ResultPool`, any workers, hits, objects, browsers and
capacities:

* `TypeCorrect` and `OneOwnerHolds`: `OwnerInv` lists the places an object can be
  (a worker, a place of `resultChan`, the output loop) and says that it is in one
  of them only, has been allocated and is not in the pool. `TypeOK` rests on it,
  since only an allocated object may be put back.
* `RegisteredOpen`: `Spec => []RegisteredIsOpen`. The deferred function of
  `handleSSE` deletes the client before it closes the channel.

And, of `OutputFiles` with `RootCommand`, any findings, files, suffixes, command
lines and number of commands and kills. The assumptions are that a result is none
of the pieces that hold an array together (`FindingAssumption`), that no file has
the empty name (`PathAssumption`), and what section 2 says of `CommandAssumption`.

* `FilesTypeCorrect`: `FilesSpec => []FilesTypeOK`. The types rest on the invariant
  too: what `--process` delivers is a sequence of results only because of what is
  known of the file it reads (`FileInv`).
* `StreamsHold`: `FilesSpec => []StreamsWhole`. A document is spread over the file,
  the buffer in front of it and the writes still to be made, and the writes of all
  streams are in one list. `Owes(todo, p, ps)` says that those of `p` lie side by
  side in it and are `ps`; `StreamInv`, that file, buffer and `ps`, one behind the
  other, are exactly what the loop has written to `p` after `taken` results
  (`Written`), that a buffer holds pieces of a stream of this command only, and that
  nothing of a table is in its file before `Render`. `Write` and `Spill` move a
  piece across a border and leave the whole as it is (`Move`, `MoveBehind`);
  `TakeResult`, `EndLoop` and `OpenOutputs` come when nothing is owed
  (`NothingOwed`) and add what one result, the end or the opening adds
  (`ForResultOwes`, `ClosingOwes`, `OpeningOwes`), where the comma depends on
  `taken`. The streams of a command are different files (`Places`). `PhaseInv` says
  what each phase may rely on: between commands nothing is held or owed, and
  standard output is empty until the outputs are opened. `DoneInv` keeps what
  `Finish` has made until the next command starts.
* `ProcessHolds`: `FilesSpec => []ProcessReadsWhole`. `FileInv` is about every file,
  whoever wrote it and however that ended: one written as JSON is a beginning of the
  array it was to be, the whole if its command came to its end, and any other does
  not begin like an array. `WholeJson`: a beginning of an array that is an array
  itself is all of it, because the closing bracket stands at its end only
  (`OnlyLastCloses`). So `json.Unmarshal` never accepts a file that a kill cut
  short, unless the cut came behind its last piece.
* `ArgumentsHold`: `FilesSpec => []ArgumentsUsedOnce`, from the types and `PhaseInv`
  (a command without arguments shows its help). Where the pattern is the last
  argument, the arguments it makes are a permutation of those given (`TimesMoved`,
  by `FS_Bijection`).

`PauseControlProofs` - any levels, thresholds and margins:

* `TypeCorrect`, `PauseStands` (`Spec => []PauseHolds`) and `ResumesOnlyWhenSafe`
  (`Spec => ResumesWhenSafe`, an action property about both monitors). A monitor
  reads in one step and stores in a later one, so `WatchdogInv` says what each
  monitor about to store has seen, and that with the thermal watchdog alone the
  memory goroutine never stores.

`ChunkSplitProofs` - files of any size with newlines anywhere, any number of
goroutines:

* `TypeCorrect`: `Spec => []TypeOK`.
* `WholeLinesHold`: `Spec => []WholeLinesOnce`. `LinesInv`: a bound that has been
  moved stands on the first line start behind it, and everything sent is a line
  between the bounds of its chunk. `Disjoint` shows that one chunk ends before the
  next begins, although each goroutine moves its bounds on its own.
* `NoLineLostHolds`: `Spec => []NoLineLost`. `PassedInv`: every line start a
  goroutine has passed was sent or refused; `ChunkOfByte` gives for each line the chunk in
  which it starts.
* `FaultsHold`: `Spec => []FaultsExplained`. `FaultInv`: without a cancellation
  `Unmap` comes after the last goroutine; `EmptyChunk` says that a chunk that ends
  at 0 takes fewer bytes than goroutines.

`StreamReadProofs` - any inputs, formats, targets and capacities:

* `TypeCorrect`: `Spec => []TypeOK`.
* `InOrderHolds`: `Spec => []InOrderAndWhole`. `OrderInv`: what was sent, what is in
  the channel and what the parser has still to send are together exactly the
  records of the rows it has passed, none of them bad, or those and what the
  beginning of the next row gives (`WithPiece`: any of the `CutRecords` of that
  row, whatever its targets), and then the stream has broken off and nothing more
  will be fetched.
* `MarkedUnreadHolds`: `Spec => []MarkedUnreadExplained`. `EndInv`: a parser that has
  closed its channel has had every row, or one of the five reasons holds: a bad
  row, a read error, a cancellation, a command that ended early, a pipe closed on
  unread output.

`RecordMatchProofs` - any workers, selections of patterns, texts and alphabet:

* `TypeCorrect`: `Spec => []TypeOK`. The counter of the shared matcher is read by
  several workers before one of them writes it, so its bound needs `CountInv`: no
  counter, neither the matcher's, a worker's copy nor a node's, exceeds the number
  of records less those workers that have still to write it.
* `LiteralsOnceHolds`: `Spec => []LiteralsOnce`. `CallInv`: whatever the counters
  say, a call only appends what ends somewhere in its own record, and the `seen`
  map of `LiteralMatcher.Match` (`Once`) keeps each of them once.
* `MissesHold`: `Spec => []MissNeedsRace`. `AloneInv`, as long as no two workers have
  been in the matcher together: one worker is in it at most, no node is ahead of
  the counter, and a node level with it has been reported in this call; so what is
  left of the record and what has been reported cover all that occurs. `NameStands`:
  the map from text to name keeps a pattern's own name unless a later pattern of
  the selection has the same text.
* `KeepsWordsHolds`: `Spec => []KeepsWords`. `FilterInv`: a record that was dropped is
  one `MayMatch` may refuse. The rest is a lemma about texts: a literal that stands
  between non-word characters is a maximal run of word characters of the record,
  hence one of its tokens, and in lower case a keyword of the filter.

`ToolWorkflowProofs` - any finite set of goroutines, matches, workflow and capacity:

* `SlotsHold`: `Spec => []SlotPerTool`. Each step that takes or returns a slot moves
  exactly one goroutine into or out of `Execute`.
* `TypesHold`, `FilledFromOwn` and `OutputsSent`: `TypeOK`, `FilledFromOwnMatch` and
  `SentWithOutputs`. `OutputInv` holds them together: a busy goroutine works alone
  on a match that has been taken and not sent (`HitsInv`); the tools in front of its
  position have ended, the others have given nothing, and its data are what the
  result came with and the outputs so far, in order (`ToolsInv`); and what a match
  came with, or a tool printed for it, carries its number (`OwnInv`).

What a recursive function computes (`FlattenSeq` over the targets of a row, `Once`)
needs an induction. The induction theorems of the library take an operator as
parameter, which the provers here cannot instantiate; the least-number principle
`WFMin` with `NatLessThanWellFounded` needs only a set, so `NatInd` states induction
for a set of numbers, and the lemmas about the two functions rest on it.

Model-checked only:

* every liveness property, and with it the liveness of the refinement: they need
  fairness and `ENABLED`, which the prover does not have;
* `EveryoneSeesItsHit`, `RestartSkipsScanned` and `SameFindingNeverTwice`, which
  are false.

## 6. Not modelled

* Progress, notifications and cooldown: a percentage, a message and a sleep, which
  delay the producer; every model lets it wait at any step.
* How configuration files and flags are merged, and the format guessed from the
  first target: options of the models.
* Delta and diagnose: functions of one or two files, without state.
* Classifier and entropy (scores over words and floating point): a verdict.
* Writes to outputs that fail (a full disk): `outputResults` looks at none of them.
* No run shows as violated that a resumed scan passes over a file `os.Open` had
  refused: no document promises otherwise, so `ResumeSkipsRead` excepts it.
* Text of the outputs, HTML, embedded page, logging, list, update, file formats of
  patterns and tools: input and output without state of their own.
* `WorkStealer`, `LineIterator`, `OpenMmap`, `AutoScaleMonitor`, `SendWebhook` in
  `utils`: no code uses them.
* bbolt, `sync.Pool`, `mmap`, the Bloom library and the regular expressions:
  modelled by what their callers rely on.
