---------------------------- MODULE ToolWorkflow ----------------------------
(***************************************************************************)
(* The external tools of --workflow: getActiveTools, the tool loop of      *)
(* handleMatch and of ProcessResults, executeToolWithLimit with its        *)
(* semaphore processSem (service.go), and Tool.Execute with its            *)
(* {{tool:ID}} placeholders (models.go).                                   *)
(*                                                                         *)
(* A tool is [id, field, ref]: ref is the name its command or NoRef.       *)
(* What a tool prints is an [hit, tool, run] record: whose match it was    *)
(* run on, and in this run of zetgrep ("now") or in the one that wrote the *)
(* results file ("before").                                                *)
(***************************************************************************)
EXTENDS Naturals, Sequences, FiniteSets, SequencesExt

CONSTANTS
  Worker,    \* goroutines that find matches
  NumHits,   \* matches found, or results in the file of --process
  Tools,     \* the tools of the tools directory, in order
  ToolIDs,   \* the list given to --workflow
  NoRef,     \* the ref of a command with no {{tool:...}} placeholder
  MaxProc    \* capacity of processSem

ASSUME LimitAssumption == MaxProc \in Nat \ {0} /\ NumHits \in Nat
ASSUME WorkerAssumption == IsFiniteSet(Worker) /\ Worker # {}

Tool == {Tools[k] : k \in DOMAIN Tools}
ASSUME ToolAssumption == /\ Tools \in Seq(Tool)
                         /\ ToolIDs \in Seq({ToolIDs[i] : i \in DOMAIN ToolIDs})

Hit == 1 .. NumHits
Nothing == [hit |-> 0, tool |-> NoRef, run |-> "none"]  \* an error or no output
Raw == [hit |-> 0, tool |-> NoRef, run |-> "raw"]       \* the placeholder itself
Pending == [hit |-> 0, tool |-> NoRef, run |-> "pending"]

(* Every ID in the order given, with each tool of that ID. *)
ActiveTools ==
  FlattenSeq([i \in DOMAIN ToolIDs |->
    FlattenSeq([k \in DOMAIN Tools |-> IF Tools[k].id = ToolIDs[i] THEN <<Tools[k]>> ELSE <<>>])])

Position == DOMAIN ActiveTools
Printed(h, i, run) == [hit |-> h, tool |-> ActiveTools[i].id, run |-> run]
Output(i, v) == [id |-> ActiveTools[i].id, label |-> ActiveTools[i].field, value |-> v]
Names(out) == {out.id, out.label}

VARIABLES
  mode,       \* RunScan or ProcessResults
  saved,      \* tool_data that each result of the file came with
  next,       \* the next match or result
  step,       \* where each goroutine is
  hit,        \* the match it works on
  pos,        \* the tool of the workflow it is at
  data,       \* res.ToolData
  sem,        \* tokens in processSem
  cancelled,  \* ctx is done
  given,      \* what the command of each tool got for its placeholder
  gave,       \* what each tool printed for each match
  sent        \* the tool data of the results sent to resultChan

taskVars == <<step, hit, pos, data>>
vars == <<mode, saved, next, taskVars, sem, cancelled, given, gave, sent>>

Outcome == {"now", "before", "none", "raw", "pending"}
OutputOK(d) ==
  \A k \in DOMAIN d : d[k].value.run \in {"now", "before"} /\ d[k].value.hit \in Hit

TypeOK ==
  /\ mode \in {"scan", "process"}
  /\ next \in 1 .. NumHits + 1
  /\ step \in [Worker -> {"idle", "slot", "execute", "command", "hung", "send", "end"}]
  /\ hit \in [Worker -> 0 .. NumHits]
  /\ pos \in [Worker -> 1 .. Len(ActiveTools) + 1]
  /\ DOMAIN data = Worker /\ \A w \in Worker : OutputOK(data[w])
  /\ sem \in 0 .. MaxProc
  /\ cancelled \in BOOLEAN
  /\ \A h \in Hit, i \in Position :
       given[h][i].run \in Outcome /\ gave[h][i].run \in {"now", "none", "pending"}
  /\ DOMAIN sent \subseteq Hit /\ \A h \in DOMAIN sent : OutputOK(sent[h])

(* ProcessResults runs in one goroutine; the file may hold the outputs of  *)
(* the first tool, from the run that wrote it.                             *)
Earlier(h) == <<Output(1, Printed(h, 1, "before"))>>
Processor == CHOOSE w \in Worker : TRUE

Init ==
  /\ mode \in {"scan", "process"}
  /\ \E old \in IF mode = "scan" \/ Position = {} THEN {{}} ELSE SUBSET Hit :
       saved = [h \in Hit |-> IF h \in old THEN Earlier(h) ELSE <<>>]
  /\ next = 1
  /\ step = [w \in Worker |->
               IF mode = "scan" \/ w = Processor THEN "idle" ELSE "end"]
  /\ hit = [w \in Worker |-> 0] /\ pos = [w \in Worker |-> 1]
  /\ data = [w \in Worker |-> <<>>]
  /\ sem = 0 /\ cancelled = FALSE
  /\ given = [h \in Hit |-> [i \in Position |-> Pending]]
  /\ gave = [h \in Hit |-> [i \in Position |-> Pending]]
  /\ sent = << >>

-----------------------------------------------------------------------------
(* The loop over the matches. *)

MutTakeHit(w) ==
  /\ step[w] = "idle" /\ next <= NumHits
  /\ hit' = [hit EXCEPT ![w] = next] /\ next' = next + 1
  /\ pos' = [pos EXCEPT ![w] = 1]
  /\ data' = [data EXCEPT ![w] = @ \o saved[next]]
  /\ step' = [step EXCEPT ![w] = "slot"]
  /\ UNCHANGED <<mode, saved, sem, cancelled, given, gave, sent>>

(* A match found in the scan starts from a Reset result, one of the file   *)
(* with the tool data it was saved with.                                   *)
TakeHit(w) ==
  /\ step[w] = "idle" /\ next <= NumHits
  /\ hit' = [hit EXCEPT ![w] = next] /\ next' = next + 1
  /\ pos' = [pos EXCEPT ![w] = 1]
  /\ data' = [data EXCEPT ![w] = saved[next]]
  /\ step' = [step EXCEPT ![w] = "slot"]
  /\ UNCHANGED <<mode, saved, sem, cancelled, given, gave, sent>>

FinishLoop(w) ==
  /\ step[w] = "idle" /\ next > NumHits
  /\ step' = [step EXCEPT ![w] = "end"]
  /\ UNCHANGED <<mode, saved, next, hit, pos, data, sem, cancelled, given, gave, sent>>

ToolsDone(w) ==
  /\ step[w] = "slot" /\ pos[w] > Len(ActiveTools)
  /\ step' = [step EXCEPT ![w] = "send"]
  /\ UNCHANGED <<mode, saved, next, hit, pos, data, sem, cancelled, given, gave, sent>>

SendResult(w) ==
  /\ step[w] = "send"
  /\ sent' = [h \in DOMAIN sent \cup {hit[w]} |-> IF h = hit[w] THEN data[w] ELSE sent[h]]
  /\ step' = [step EXCEPT ![w] = "idle"]
  /\ UNCHANGED <<mode, saved, next, hit, pos, data, sem, cancelled, given, gave>>

(* handleMatch drops the result; ProcessResults stops. *)
AbandonResult(w) ==
  /\ step[w] = "send" /\ cancelled
  /\ step' = [step EXCEPT ![w] = IF mode = "scan" THEN "idle" ELSE "end"]
  /\ UNCHANGED <<mode, saved, next, hit, pos, data, sem, cancelled, given, gave, sent>>

CancelCtx ==
  /\ ~cancelled /\ cancelled' = TRUE
  /\ UNCHANGED <<mode, saved, next, taskVars, sem, given, gave, sent>>

-----------------------------------------------------------------------------
(* executeToolWithLimit and Tool.Execute. *)

MutAcquireSlot(w) ==
  /\ step[w] = "slot" /\ pos[w] <= Len(ActiveTools)
  /\ sem <= MaxProc
  /\ sem' = sem + 1
  /\ step' = [step EXCEPT ![w] = "execute"]
  /\ UNCHANGED <<mode, saved, next, hit, pos, data, cancelled, given, gave, sent>>

AcquireSlot(w) ==
  /\ step[w] = "slot" /\ pos[w] <= Len(ActiveTools)
  /\ sem < MaxProc
  /\ sem' = sem + 1
  /\ step' = [step EXCEPT ![w] = "execute"]
  /\ UNCHANGED <<mode, saved, next, hit, pos, data, cancelled, given, gave, sent>>

MutFill(d, ref) ==
  LET named == {k \in DOMAIN d : ref \in Names(d[k])}
  IN  IF named = {} THEN Raw ELSE d[Max(named)].value

(* Execute replaces {{tool:ID}} and {{tool:label}} one output after the    *)
(* other: the first output of that name wins, and with none the            *)
(* placeholder stays in the command.                                       *)
Fill(d, ref) ==
  LET named == {k \in DOMAIN d : ref \in Names(d[k])}
  IN  IF named = {} THEN Raw ELSE d[Min(named)].value

StartCommand(w) ==
  LET i == pos[w]
  IN  /\ step[w] = "execute"
      /\ given' = [given EXCEPT ![hit[w]][i] =
                     IF ActiveTools[i].ref = NoRef THEN Nothing
                     ELSE Fill(data[w], ActiveTools[i].ref)]
      /\ step' = [step EXCEPT ![w] = "command"]
      /\ UNCHANGED <<mode, saved, next, hit, pos, data, sem, cancelled, gave, sent>>

(* The deferred receive frees the slot; an output is appended. *)
Return(w, v) ==
  /\ sem' = sem - 1
  /\ gave' = [gave EXCEPT ![hit[w]][pos[w]] = v]
  /\ data' = [data EXCEPT ![w] = IF v = Nothing THEN @ ELSE Append(@, Output(pos[w], v))]
  /\ pos' = [pos EXCEPT ![w] = @ + 1]
  /\ step' = [step EXCEPT ![w] = "slot"]
  /\ UNCHANGED <<mode, saved, next, hit, cancelled, given, sent>>

(* Extract does not compile or does not match: no command is run. *)
SkipCommand(w) == step[w] = "execute" /\ Return(w, Nothing)

CommandPrints(w) ==
  /\ step[w] = "command"
  /\ Return(w, Printed(hit[w], pos[w], "now"))

MutCommandFails(w) ==
  /\ step[w] = "command"
  /\ gave' = [gave EXCEPT ![hit[w]][pos[w]] = Nothing]
  /\ pos' = [pos EXCEPT ![w] = @ + 1]
  /\ step' = [step EXCEPT ![w] = "slot"]
  /\ UNCHANGED <<mode, saved, next, hit, data, sem, cancelled, given, sent>>

(* It exits with an error, prints nothing, or is killed after 15 seconds. *)
CommandFails(w) == step[w] = "command" /\ Return(w, Nothing)

(* The timeout kills the process Execute started and nothing else:         *)
(* CombinedOutput goes on waiting for a grandchild that keeps its pipe.    *)
CommandHangs(w) ==
  /\ step[w] = "command"
  /\ step' = [step EXCEPT ![w] = "hung"]
  /\ UNCHANGED <<mode, saved, next, hit, pos, data, sem, cancelled, given, gave, sent>>

-----------------------------------------------------------------------------
Execute(w) == SkipCommand(w) \/ StartCommand(w)
EndCommand(w) == CommandPrints(w) \/ CommandFails(w) \/ CommandHangs(w)
Loop(w) == TakeHit(w) \/ FinishLoop(w) \/ ToolsDone(w) \/ SendResult(w) \/ AbandonResult(w)
Hung == {w \in Worker : step[w] = "hung"}

(* Nothing goes on: the loops have ended, are hung, or wait for a slot     *)
(* that hung commands will not give back.                                  *)
Over == \A w \in Worker : \/ step[w] \in {"end", "hung"}
                          \/ step[w] = "slot" /\ Cardinality(Hung) = MaxProc
Done == Over /\ UNCHANGED vars

Next ==
  \/ \E w \in Worker : Loop(w) \/ AcquireSlot(w) \/ Execute(w) \/ EndCommand(w)
  \/ CancelCtx
  \/ Done

(* Goroutines waiting to send on a channel are served in the order they    *)
(* came, so a slot freed again and again is not withheld from one of them; *)
(* a command ends by itself, is killed by its timeout, or hangs.           *)
Fairness ==
  \A w \in Worker :
    WF_vars(Loop(w)) /\ SF_vars(AcquireSlot(w)) /\ WF_vars(Execute(w)) /\ WF_vars(EndCommand(w))

Spec == Init /\ [][Next]_vars /\ Fairness

-----------------------------------------------------------------------------
(* executeToolWithLimit: as many slots are taken as there are goroutines   *)
(* in Execute, whether the tool before printed, failed or was skipped, so  *)
(* at most MaxProc tools run and no slot is lost.                          *)
InExecute == {w \in Worker : step[w] \in {"execute", "command", "hung"}}
SlotPerTool == sem = Cardinality(InExecute) /\ Cardinality(InExecute) <= MaxProc

(* Execute: a command gets for {{tool:x}} the first output named x of its  *)
(* own match - the one the results file came with, or else the one of the  *)
(* first earlier tool named x that printed something in this run - and the *)
(* bare placeholder only if there is no such output.                       *)
Sources(h, ref, i) ==
  {j \in 1 .. i - 1 : /\ ref \in {ActiveTools[j].id, ActiveTools[j].field}
                      /\ gave[h][j] # Nothing}
Expected(h, ref, i) ==
  IF \E k \in DOMAIN saved[h] : ref \in Names(saved[h][k])
  THEN Printed(h, 1, "before")
  ELSE IF Sources(h, ref, i) = {} THEN Raw ELSE gave[h][Min(Sources(h, ref, i))]
FilledFromOwnMatch ==
  \A h \in Hit, i \in Position :
    given[h][i] \notin {Pending, Nothing} =>
      given[h][i] = Expected(h, ActiveTools[i].ref, i)

(* d is what a result came with and then, in the order of the workflow,    *)
(* every output that one of the first n tools printed for it.              *)
HasOutputs(d, came, printed, n) ==
  \E at \in UNION {[1 .. m -> 1 .. n] : m \in 0 .. n} :
    /\ \A j, k \in DOMAIN at : j < k => at[j] < at[k]
    /\ {at[k] : k \in DOMAIN at} = {i \in 1 .. n : printed[i] # Nothing}
    /\ d = came \o [k \in DOMAIN at |-> Output(at[k], printed[at[k]])]

(* handleMatch, ProcessResults: a result that is sent carries the tool     *)
(* data it came with and the outputs of all tools, in their order: a       *)
(* failing tool costs no other tool its output.                            *)
SentWithOutputs ==
  \A h \in DOMAIN sent : HasOutputs(sent[h], saved[h], gave[h], Len(ActiveTools))

(* handleMatch, ProcessResults: every loop whose own command does not hang *)
(* ends, however many goroutines compete for the slots and whatever the    *)
(* tools do, unless hung commands have come to hold all the slots.         *)
WorkflowEnds == <>Over
=============================================================================
