---------------------------- MODULE ScanPipeline ----------------------------
(***************************************************************************)
(* One call of RunScan (pkg/scanner/service.go) and the loop of            *)
(* outputResults (cmd/zetgrep/cmd/output.go) that drains it: a producer    *)
(* goroutine feeding recordChan, numWorkers worker goroutines running      *)
(* handleMatch on every match of every record, and the consumer of         *)
(* resultChan.                                                             *)
(*                                                                         *)
(* Records are numbered in the order in which the producer receives them   *)
(* from the parser, so that recordChan is the interval taken+1 .. queued.  *)
(* A hit <<r, j>> is the j-th match the matchers find in record r.         *)
(* resultChan is kept as the history of everything sent on it and the      *)
(* number of results already received.                                     *)
(***************************************************************************)
EXTENDS Naturals, Sequences, FiniteSets

CONSTANTS
  Worker,        \* the goroutines of the worker pool
  NumRecords,    \* records the parsers yield over all targets
  NumMatches,    \* [1..NumRecords -> Nat]: matches found in each record
  Keys,          \* values of Pattern + ":" + Content
  KeyOf,         \* [Hits -> Keys]
  Interesting,   \* keys the classifier calls "high-interest"
  Entropic,      \* hits whose Entropy field is at least 3.5
  KnownKeys,     \* keys in the bucket "hits" when the scan starts
  RecordCap,     \* capacity of recordChan (5000 in the code)
  ResultCap,     \* capacity of resultChan (10000 in the code)
  Unique, GlobalDedupe, SmartMode, EntropyMode,  \* ScannerOptions
  DbReliable,    \* FALSE: MarkHit may fail, its error is ignored
  Cancellable    \* TRUE: the caller may cancel ctx

Record == 1 .. NumRecords
Hits == UNION {{r} \X (1 .. NumMatches[r]) : r \in Record}

ASSUME PoolAssumption == /\ IsFiniteSet(Worker)
                         /\ Worker # {}
ASSUME InputAssumption == /\ NumRecords \in Nat
                          /\ NumMatches \in [Record -> Nat]
                          /\ KeyOf \in [Hits -> Keys]
                          /\ KnownKeys \subseteq Keys
ASSUME CapAssumption == /\ RecordCap \in Nat \ {0}
                        /\ ResultCap \in Nat \ {0}
ASSUME OptionAssumption == {Unique, GlobalDedupe, SmartMode, EntropyMode,
                            DbReliable, Cancellable} \subseteq BOOLEAN

VARIABLES
  ctxDone,       \* ctx has been cancelled
  producer,      \* "feed", "drain" (in wg.Wait) or "returned"
  queued,        \* records sent on recordChan so far
  taken,         \* records received from recordChan so far
  recordClosed,  \* close(recordChan) has run
  pc,            \* where each worker is
  rec, idx,      \* the record a worker holds, the match it is at
  seenMatches,   \* keys stored in s.seenMatches
  dbHits,        \* keys stored in the bucket "hits" of the state database
  hitCount,      \* hitCounter.count
  emitted,       \* every result sent on resultChan, in order
  read,          \* results received from resultChan so far
  resultClosed,  \* close(resultChan) has run
  consumer,      \* "reading" or "exited"
  panicked       \* a goroutine panicked: the process is gone

chanVars == <<queued, taken, recordClosed>>
workVars == <<pc, rec, idx>>
storeVars == <<seenMatches, dbHits, hitCount>>
outVars == <<emitted, read, resultClosed, consumer>>
vars == <<ctxDone, producer, chanVars, workVars, storeVars, outVars, panicked>>

InHandle == {"isdup", "mark", "filter", "send"}
Busy == InHandle \cup {"scan"}

TypeOK ==
  /\ ctxDone \in BOOLEAN
  /\ producer \in {"feed", "drain", "returned"}
  /\ queued \in 0 .. NumRecords
  /\ taken \in 0 .. queued
  /\ recordClosed \in BOOLEAN
  /\ pc \in [Worker -> Busy \cup {"recv", "exited"}]
  /\ rec \in [Worker -> Record \cup {0}]
  /\ idx \in [Worker -> Nat \ {0}]
  /\ \A w \in Worker : pc[w] \in Busy => rec[w] # 0
  /\ \A w \in Worker : pc[w] \in InHandle => <<rec[w], idx[w]>> \in Hits
  /\ seenMatches \subseteq Keys
  /\ dbHits \subseteq Keys
  /\ hitCount \in Nat
  /\ emitted \in Seq(Hits)
  /\ read \in 0 .. Len(emitted)
  /\ resultClosed \in BOOLEAN
  /\ consumer \in {"reading", "exited"}
  /\ panicked \in BOOLEAN

Init ==
  /\ ctxDone = FALSE
  /\ producer = "feed"
  /\ queued = 0 /\ taken = 0 /\ recordClosed = FALSE
  /\ pc = [w \in Worker |-> "recv"]
  /\ rec = [w \in Worker |-> 0]
  /\ idx = [w \in Worker |-> 1]
  /\ seenMatches = {} /\ dbHits = KnownKeys /\ hitCount = 0
  /\ emitted = <<>> /\ read = 0 /\ resultClosed = FALSE
  /\ consumer = "reading"
  /\ panicked = FALSE

-----------------------------------------------------------------------------
(* The caller of RunScan. *)

CancelCtx ==
  /\ Cancellable /\ ~ctxDone
  /\ ctxDone' = TRUE
  /\ UNCHANGED <<producer, chanVars, workVars, storeVars, outVars, panicked>>

-----------------------------------------------------------------------------
(* The producer goroutine. *)

SendRecord ==
  /\ producer = "feed" /\ queued < NumRecords
  /\ queued - taken < RecordCap
  /\ queued' = queued + 1
  /\ UNCHANGED <<ctxDone, producer, taken, recordClosed, workVars, storeVars,
                 outVars, panicked>>

(* The select of the producer takes ctx.Done: it returns at once, its      *)
(* deferred close(resultChan) runs, recordChan stays open.                 *)
AbortFeed ==
  /\ producer = "feed" /\ queued < NumRecords /\ ctxDone
  /\ producer' = "returned"
  /\ resultClosed' = TRUE
  /\ UNCHANGED <<ctxDone, chanVars, workVars, storeVars, emitted, read,
                 consumer, panicked>>

(* Every target has been read; after a cancellation the parsers close      *)
(* their channel early and the remaining records never arrive.             *)
CloseRecords ==
  /\ producer = "feed" /\ (queued = NumRecords \/ ctxDone)
  /\ producer' = "drain"
  /\ recordClosed' = TRUE
  /\ UNCHANGED <<ctxDone, queued, taken, workVars, storeVars, outVars, panicked>>

MutCloseResultsEarly ==
  /\ producer = "drain"
  /\ producer' = "returned"
  /\ resultClosed' = TRUE
  /\ UNCHANGED <<ctxDone, chanVars, workVars, storeVars, emitted, read,
                 consumer, panicked>>

(* wg.Wait returns, the deferred close(resultChan) runs. *)
CloseResults ==
  /\ producer = "drain"
  /\ \A w \in Worker : pc[w] = "exited"
  /\ producer' = "returned"
  /\ resultClosed' = TRUE
  /\ UNCHANGED <<ctxDone, chanVars, workVars, storeVars, emitted, read,
                 consumer, panicked>>

-----------------------------------------------------------------------------
(* The worker goroutines. *)

Hit(w) == <<rec[w], idx[w]>>
Key(w) == KeyOf[Hit(w)]
Passes(h) == /\ SmartMode => KeyOf[h] \in Interesting
             /\ EntropyMode => h \in Entropic

Goto(w, label) == pc' = [pc EXCEPT ![w] = label] /\ UNCHANGED <<rec, idx>>

(* handleMatch returns, the worker goes on to the next match. *)
NextMatch(w) == /\ pc' = [pc EXCEPT ![w] = "scan"]
                /\ idx' = [idx EXCEPT ![w] = idx[w] + 1]
                /\ UNCHANGED rec

MutReceiveUnchecked(w) ==
  /\ pc[w] = "recv" /\ (taken < queued \/ recordClosed)
  /\ taken' = taken + 1
  /\ pc' = [pc EXCEPT ![w] = "scan"]
  /\ rec' = [rec EXCEPT ![w] = taken + 1]
  /\ idx' = [idx EXCEPT ![w] = 1]
  /\ UNCHANGED <<ctxDone, producer, queued, recordClosed, storeVars, outVars,
                 panicked>>

ReceiveRecord(w) ==
  /\ pc[w] = "recv" /\ taken < queued
  /\ taken' = taken + 1
  /\ pc' = [pc EXCEPT ![w] = "scan"]
  /\ rec' = [rec EXCEPT ![w] = taken + 1]
  /\ idx' = [idx EXCEPT ![w] = 1]
  /\ UNCHANGED <<ctxDone, producer, queued, recordClosed, storeVars, outVars,
                 panicked>>

MutExitWorker(w) ==
  /\ pc[w] = "recv" /\ recordClosed
  /\ Goto(w, "exited")
  /\ UNCHANGED <<ctxDone, producer, chanVars, storeVars, outVars, panicked>>

ExitWorker(w) ==
  /\ pc[w] = "recv" /\ taken = queued /\ recordClosed
  /\ Goto(w, "exited")
  /\ UNCHANGED <<ctxDone, producer, chanVars, storeVars, outVars, panicked>>

FinishRecord(w) ==
  /\ pc[w] = "scan" /\ idx[w] > NumMatches[rec[w]]
  /\ Goto(w, "recv")
  /\ UNCHANGED <<ctxDone, producer, chanVars, storeVars, outVars, panicked>>

AfterUnique == IF GlobalDedupe THEN "isdup" ELSE "filter"

MutUniqueRace(w) ==
  /\ pc[w] = "scan" /\ idx[w] <= NumMatches[rec[w]]
  /\ IF Unique /\ Key(w) \in {KeyOf[emitted[i]] : i \in DOMAIN emitted}
     THEN NextMatch(w)
     ELSE Goto(w, AfterUnique)
  /\ UNCHANGED <<ctxDone, producer, chanVars, storeVars, outVars, panicked>>

(* GetResult, and the LoadOrStore on seenMatches: one atomic step. *)
CheckUnique(w) ==
  /\ pc[w] = "scan" /\ idx[w] <= NumMatches[rec[w]]
  /\ IF Unique /\ Key(w) \in seenMatches
     THEN NextMatch(w) /\ UNCHANGED seenMatches
     ELSE /\ Goto(w, AfterUnique)
          /\ seenMatches' = IF Unique THEN seenMatches \cup {Key(w)}
                            ELSE seenMatches
  /\ UNCHANGED <<ctxDone, producer, chanVars, dbHits, hitCount, outVars, panicked>>

(* IsDuplicate: a read transaction of its own. *)
CheckGlobal(w) ==
  /\ pc[w] = "isdup"
  /\ IF Key(w) \in dbHits THEN NextMatch(w) ELSE Goto(w, "mark")
  /\ UNCHANGED <<ctxDone, producer, chanVars, storeVars, outVars, panicked>>

(* MarkHit: a write transaction of its own, its error is dropped. *)
MarkHit(w) ==
  /\ pc[w] = "mark"
  /\ \/ dbHits' = dbHits \cup {Key(w)}
     \/ ~DbReliable /\ UNCHANGED dbHits
  /\ Goto(w, "filter")
  /\ UNCHANGED <<ctxDone, producer, chanVars, seenMatches, hitCount, outVars,
                 panicked>>

MutFilter(w) ==
  /\ pc[w] = "filter"
  /\ hitCount' = hitCount + 1
  /\ IF Passes(Hit(w)) THEN Goto(w, "send") ELSE NextMatch(w)
  /\ UNCHANGED <<ctxDone, producer, chanVars, seenMatches, dbHits, outVars,
                 panicked>>

(* The smart and entropy filters, the tools, the counter under its mutex.  *)
Filter(w) ==
  /\ pc[w] = "filter"
  /\ IF Passes(Hit(w))
     THEN Goto(w, "send") /\ hitCount' = hitCount + 1
     ELSE NextMatch(w) /\ UNCHANGED hitCount
  /\ UNCHANGED <<ctxDone, producer, chanVars, seenMatches, dbHits, outVars,
                 panicked>>

MutSendDrops(w) ==
  /\ pc[w] = "send" /\ ~resultClosed
  /\ emitted' = IF Len(emitted) - read < ResultCap
                THEN Append(emitted, Hit(w)) ELSE emitted
  /\ NextMatch(w)
  /\ UNCHANGED <<ctxDone, producer, chanVars, storeVars, read, resultClosed,
                 consumer, panicked>>

SendResult(w) ==
  /\ pc[w] = "send" /\ ~resultClosed
  /\ Len(emitted) - read < ResultCap
  /\ emitted' = Append(emitted, Hit(w))
  /\ NextMatch(w)
  /\ UNCHANGED <<ctxDone, producer, chanVars, storeVars, read, resultClosed,
                 consumer, panicked>>

(* The select of handleMatch takes ctx.Done. *)
AbandonResult(w) ==
  /\ pc[w] = "send" /\ ctxDone
  /\ NextMatch(w)
  /\ UNCHANGED <<ctxDone, producer, chanVars, storeVars, outVars, panicked>>

(* A send on a closed channel is ready whatever its buffer holds: panic.   *)
SendOnClosed(w) ==
  /\ pc[w] = "send" /\ resultClosed
  /\ panicked' = TRUE
  /\ UNCHANGED <<ctxDone, producer, chanVars, workVars, storeVars, outVars>>

-----------------------------------------------------------------------------
(* The consumer: for res := range resultChan of outputResults.             *)

ReadResult ==
  /\ consumer = "reading" /\ read < Len(emitted)
  /\ read' = read + 1
  /\ UNCHANGED <<ctxDone, producer, chanVars, workVars, storeVars, emitted,
                 resultClosed, consumer, panicked>>

ExitConsumer ==
  /\ consumer = "reading" /\ read = Len(emitted) /\ resultClosed
  /\ consumer' = "exited"
  /\ UNCHANGED <<ctxDone, producer, chanVars, workVars, storeVars, emitted,
                 read, resultClosed, panicked>>

-----------------------------------------------------------------------------
Producing == SendRecord \/ AbortFeed \/ CloseRecords \/ CloseResults
Working(w) == \/ ReceiveRecord(w) \/ ExitWorker(w) \/ FinishRecord(w)
              \/ CheckUnique(w) \/ CheckGlobal(w) \/ MarkHit(w) \/ Filter(w)
              \/ SendResult(w) \/ AbandonResult(w) \/ SendOnClosed(w)
Consuming == ReadResult \/ ExitConsumer

(* The process is over: main returns after outputResults, or a panic.      *)
Over == (consumer = "exited" \/ panicked) /\ UNCHANGED vars

Next == \/ ~panicked /\ \/ CancelCtx
                        \/ Producing
                        \/ \E w \in Worker : Working(w)
                        \/ Consuming
        \/ Over

(* The Go scheduler runs every goroutine that can run.                     *)
Fairness == /\ WF_vars(~panicked /\ Producing)
            /\ \A w \in Worker : WF_vars(~panicked /\ Working(w))
            /\ WF_vars(~panicked /\ Consuming)

Spec == Init /\ [][Next]_vars /\ Fairness

-----------------------------------------------------------------------------
(* Safety. *)

Emitted == {emitted[i] : i \in DOMAIN emitted}
EmittedKeys == {KeyOf[h] : h \in Emitted}

(* The close of resultChan cannot meet a worker that still has to send:    *)
(* only a cancellation of ctx can make a worker send on the closed channel *)
(* (the deferred close, wg.Wait and the early returns of the producer).    *)
PanicNeedsCancel ==
  /\ panicked => ctxDone
  /\ resultClosed /\ ~ctxDone => \A w \in Worker : pc[w] = "exited"

(* No match is reported twice, whatever the interleaving of the workers;   *)
(* under -unique no two reports have the same pattern and content          *)
(* (recordChan hands each record to one worker; LoadOrStore is atomic).    *)
AtMostOnce ==
  \A i, j \in DOMAIN emitted :
    i # j => /\ emitted[i] # emitted[j]
             /\ Unique => KeyOf[emitted[i]] # KeyOf[emitted[j]]

ByKey == Unique \/ GlobalDedupe
Wanted(h) == Passes(h) /\ (GlobalDedupe => KeyOf[h] \notin KnownKeys)

(* When the consumer's range loop ends and nobody cancelled, every match   *)
(* that passes the filters and is not known from an earlier scan has been  *)
(* received, itself or (when duplicates are suppressed) one with its key.  *)
CompleteWhenClosed ==
  consumer = "exited" /\ ~ctxDone =>
    \A h \in Hits : Wanted(h) =>
      IF ByKey THEN KeyOf[h] \in EmittedKeys ELSE h \in Emitted

(* A finding that was reported is in the state database, so that the next  *)
(* scan skips it: MarkHit comes before the send, never after it.           *)
ReportedIsMarked == GlobalDedupe /\ DbReliable => EmittedKeys \subseteq dbHits

(* The "Hits" number of the completion notification, read after wg.Wait,   *)
(* is the number of results sent: the counter and the send agree once      *)
(* every worker has exited, although they disagree in between.             *)
HitCountExact ==
  producer = "returned" /\ ~ctxDone => hitCount = Len(emitted)

-----------------------------------------------------------------------------
(* What the caller of RunScan is promised (HitReport): the results it has  *)
(* received and the end of the channel, or of the process.                 *)
Report == INSTANCE HitReport WITH
  Hits <- Hits, KeyOf <- KeyOf, Reportable <- {h \in Hits : Wanted(h)},
  OncePerKey <- Unique, ByKey <- ByKey,
  reported <- SubSeq(emitted, 1, read), cancelled <- ctxDone,
  finished <- (consumer = "exited" \/ panicked)

(* The pipeline of goroutines and channels, seen by the caller of RunScan, *)
(* is a HitReport: one wanted match at a time, none missing at the end     *)
(* unless the caller has cancelled, and the end is always reached: nobody  *)
(* is left waiting on a full or an empty channel.                          *)
ImplementsReport == Report!Spec

-----------------------------------------------------------------------------
(* What the documents say. *)

(* docs/EXAMPLES.md:24: "--global-dedupe: Ensures you don't get the same   *)
(* finding twice."  (IsDuplicate and MarkHit are two transactions.)        *)
SameFindingNeverTwice ==
  GlobalDedupe => \A i, j \in DOMAIN emitted :
                    i # j => KeyOf[emitted[i]] # KeyOf[emitted[j]]
=============================================================================
