------------------------- MODULE ScanPipelineProofs -------------------------
(***************************************************************************)
(* Proofs about ScanPipeline, for every pool of workers, every input and   *)
(* every choice of the options: the channels, the owner of a key, and what *)
(* the caller of RunScan gets (the counter, the state database, nothing    *)
(* missing at the end, the safety part of the refinement of HitReport).    *)
(***************************************************************************)
EXTENDS ScanPipeline, FiniteSetTheorems, SequenceTheorems, TLAPS

USE DEF InHandle, Busy

-----------------------------------------------------------------------------
(* Type correctness. *)

(* What it takes for <<r, j>> to be a match. *)
LEMMA HitsAre ==
  ASSUME NEW r, NEW j
  PROVE  <<r, j>> \in Hits <=> r \in Record /\ j \in 1 .. NumMatches[r]
BY DEF Hits

(* A worker inside handleMatch holds a match, and the match has a key. *)
LEMMA KeyIsAKey ==
  ASSUME TypeOK, NEW w \in Worker, Hit(w) \in Hits
  PROVE  Key(w) \in Keys
BY InputAssumption DEF Key

(* The variables of the pipeline keep their types, and a worker inside     *)
(* handleMatch always holds a match of the record it received.             *)
THEOREM TypeCorrect == Spec => []TypeOK
<1>1. Init => TypeOK
  <2> SUFFICES ASSUME Init PROVE TypeOK
    OBVIOUS
  <2>1. emitted \in Seq(Hits) /\ read \in 0 .. Len(emitted)
    BY DEF Init
  <2>2. /\ pc \in [Worker -> Busy \cup {"recv", "exited"}]
        /\ rec \in [Worker -> Record \cup {0}]
        /\ idx \in [Worker -> Nat \ {0}]
        /\ \A w \in Worker : pc[w] \notin Busy
    BY DEF Init
  <2>3. /\ queued \in 0 .. NumRecords
        /\ taken \in 0 .. queued
        /\ hitCount \in Nat
    BY InputAssumption DEF Init
  <2> QED
    BY <2>1, <2>2, <2>3, InputAssumption DEF Init, TypeOK
<1>2. TypeOK /\ [Next]_vars => TypeOK'
  <2> SUFFICES ASSUME TypeOK, [Next]_vars
               PROVE  TypeOK'
    OBVIOUS
  <2> USE InputAssumption
  <2>1. CASE CancelCtx
    BY <2>1 DEF CancelCtx, TypeOK, chanVars, workVars, storeVars, outVars
  <2>2. CASE SendRecord
    BY <2>2 DEF SendRecord, TypeOK, workVars, storeVars, outVars
  <2>3. CASE AbortFeed
    BY <2>3 DEF AbortFeed, TypeOK, chanVars, workVars, storeVars
  <2>4. CASE CloseRecords
    BY <2>4 DEF CloseRecords, TypeOK, workVars, storeVars, outVars
  <2>5. CASE CloseResults
    BY <2>5 DEF CloseResults, TypeOK, chanVars, workVars, storeVars
  <2>6. ASSUME NEW w \in Worker, Working(w) PROVE TypeOK'
    <3>1. CASE ReceiveRecord(w)
      BY <3>1 DEF ReceiveRecord, TypeOK, Record, storeVars, outVars
    <3>2. CASE ExitWorker(w)
      BY <3>2 DEF ExitWorker, Goto, TypeOK, chanVars, storeVars, outVars
    <3>3. CASE FinishRecord(w)
      BY <3>3 DEF FinishRecord, Goto, TypeOK, chanVars, storeVars, outVars
    <3>4. CASE CheckUnique(w)
      <4>1. Hit(w) \in Hits
        BY <3>4, HitsAre DEF CheckUnique, TypeOK, Hit, Record
      <4>2. Key(w) \in Keys
        BY <4>1, KeyIsAKey
      <4>3. CASE Unique /\ Key(w) \in seenMatches
        <5>1. NextMatch(w) /\ UNCHANGED seenMatches
          BY <3>4, <4>3 DEF CheckUnique
        <5> QED
          BY <3>4, <5>1 DEF CheckUnique, NextMatch, TypeOK, chanVars, outVars
      <4>4. CASE ~(Unique /\ Key(w) \in seenMatches)
        BY <3>4, <4>1, <4>2, <4>4 DEF CheckUnique, AfterUnique, Goto, TypeOK,
           Hit, chanVars, outVars
      <4> QED
        BY <4>3, <4>4
    <3>5. CASE CheckGlobal(w)
      <4>1. CASE Key(w) \in dbHits
        <5>1. NextMatch(w)
          BY <3>5, <4>1 DEF CheckGlobal
        <5> QED
          BY <3>5, <5>1 DEF CheckGlobal, NextMatch, TypeOK, chanVars, storeVars,
             outVars
      <4>2. CASE Key(w) \notin dbHits
        BY <3>5, <4>2 DEF CheckGlobal, Goto, TypeOK, chanVars, storeVars,
           outVars
      <4> QED
        BY <4>1, <4>2
    <3>6. CASE MarkHit(w)
      <4>1. Key(w) \in Keys
        BY <3>6, KeyIsAKey DEF MarkHit, TypeOK, Hit
      <4> QED
        BY <3>6, <4>1 DEF MarkHit, Goto, TypeOK, chanVars, outVars
    <3>7. CASE Filter(w)
      <4>1. CASE Passes(Hit(w))
        <5>1. Goto(w, "send") /\ hitCount' = hitCount + 1
          BY <3>7, <4>1 DEF Filter
        <5> QED
          BY <3>7, <5>1 DEF Filter, Goto, TypeOK, chanVars, outVars
      <4>2. CASE ~Passes(Hit(w))
        <5>1. NextMatch(w) /\ UNCHANGED hitCount
          BY <3>7, <4>2 DEF Filter
        <5> QED
          BY <3>7, <5>1 DEF Filter, NextMatch, TypeOK, chanVars, outVars
      <4> QED
        BY <4>1, <4>2
    <3>8. CASE SendResult(w)
      BY <3>8 DEF SendResult, NextMatch, Hit, TypeOK, chanVars, storeVars
    <3>9. CASE AbandonResult(w)
      BY <3>9 DEF AbandonResult, NextMatch, TypeOK, chanVars, storeVars,
         outVars
    <3>10. CASE SendOnClosed(w)
      BY <3>10 DEF SendOnClosed, TypeOK, chanVars, workVars, storeVars, outVars
    <3> QED
      BY <2>6, <3>1, <3>2, <3>3, <3>4, <3>5, <3>6, <3>7, <3>8, <3>9, <3>10
         DEF Working
  <2>7. CASE ReadResult
    BY <2>7 DEF ReadResult, TypeOK, chanVars, workVars, storeVars
  <2>8. CASE ExitConsumer
    BY <2>8 DEF ExitConsumer, TypeOK, chanVars, workVars, storeVars
  <2>9. CASE UNCHANGED vars
    BY <2>9 DEF vars, TypeOK, chanVars, workVars, storeVars, outVars
  <2> QED
    BY <2>1, <2>2, <2>3, <2>4, <2>5, <2>6, <2>7, <2>8, <2>9
       DEF Next, Producing, Consuming, Over
<1> QED
  BY <1>1, <1>2, PTL DEF Spec

-----------------------------------------------------------------------------
(* How the two channels are closed. *)

(* The producer's location tells which channel is closed, and it returns   *)
(* without a cancellation only once every worker is gone.                  *)
CloseInv ==
  /\ producer = "drain" => recordClosed
  /\ resultClosed <=> producer = "returned"
  /\ producer = "returned" /\ ~ctxDone => \A w \in Worker : pc[w] = "exited"
  /\ panicked => ctxDone

(* A step of a worker that is not SendOnClosed leaves CloseInv alone. *)
LEMMA WorkersKeepCloseInv ==
  ASSUME TypeOK, CloseInv, NEW w \in Worker, pc[w] # "exited",
         pc' \in [Worker -> Busy \cup {"recv", "exited"}],
         UNCHANGED <<ctxDone, producer, recordClosed, resultClosed, panicked>>
  PROVE  CloseInv'
BY DEF CloseInv, TypeOK

LEMMA CloseHolds == Spec => []CloseInv
<1>1. Init => CloseInv
  BY DEF Init, CloseInv
<1>2. TypeOK /\ TypeOK' /\ CloseInv /\ [Next]_vars => CloseInv'
  <2> SUFFICES ASSUME TypeOK, TypeOK', CloseInv, [Next]_vars
               PROVE  CloseInv'
    OBVIOUS
  <2>1. CASE CancelCtx
    BY <2>1 DEF CancelCtx, CloseInv, chanVars, workVars, outVars
  <2>2. CASE SendRecord
    BY <2>2 DEF SendRecord, CloseInv, workVars, outVars
  <2>3. CASE AbortFeed
    BY <2>3 DEF AbortFeed, CloseInv, chanVars, workVars
  <2>4. CASE CloseRecords
    BY <2>4 DEF CloseRecords, CloseInv, workVars, outVars
  <2>5. CASE CloseResults
    BY <2>5 DEF CloseResults, CloseInv, chanVars, workVars
  <2>6. ASSUME NEW w \in Worker, Working(w) PROVE CloseInv'
    <3>1. pc' \in [Worker -> Busy \cup {"recv", "exited"}]
      BY DEF TypeOK
    <3>2. CASE ReceiveRecord(w)
      BY <3>1, <3>2, WorkersKeepCloseInv DEF ReceiveRecord, outVars
    <3>3. CASE ExitWorker(w)
      BY <3>1, <3>3, WorkersKeepCloseInv DEF ExitWorker, chanVars, outVars
    <3>4. CASE FinishRecord(w)
      BY <3>1, <3>4, WorkersKeepCloseInv DEF FinishRecord, chanVars, outVars
    <3>5. CASE CheckUnique(w)
      BY <3>1, <3>5, WorkersKeepCloseInv DEF CheckUnique, chanVars, outVars
    <3>6. CASE CheckGlobal(w)
      BY <3>1, <3>6, WorkersKeepCloseInv DEF CheckGlobal, chanVars, outVars
    <3>7. CASE MarkHit(w)
      BY <3>1, <3>7, WorkersKeepCloseInv DEF MarkHit, chanVars, outVars
    <3>8. CASE Filter(w)
      BY <3>1, <3>8, WorkersKeepCloseInv DEF Filter, chanVars, outVars
    <3>9. CASE SendResult(w)
      BY <3>1, <3>9, WorkersKeepCloseInv DEF SendResult, chanVars
    <3>10. CASE AbandonResult(w)
      BY <3>1, <3>10, WorkersKeepCloseInv DEF AbandonResult, chanVars, outVars
    <3>11. CASE SendOnClosed(w)
      BY <3>11 DEF SendOnClosed, CloseInv, chanVars, workVars, outVars
    <3> QED
      BY <2>6, <3>2, <3>3, <3>4, <3>5, <3>6, <3>7, <3>8, <3>9, <3>10, <3>11
         DEF Working
  <2>7. CASE ReadResult
    BY <2>7 DEF ReadResult, CloseInv, chanVars, workVars
  <2>8. CASE ExitConsumer
    BY <2>8 DEF ExitConsumer, CloseInv, chanVars, workVars
  <2>9. CASE UNCHANGED vars
    BY <2>9 DEF vars, CloseInv, chanVars, workVars, outVars
  <2> QED
    BY <2>1, <2>2, <2>3, <2>4, <2>5, <2>6, <2>7, <2>8, <2>9
       DEF Next, Producing, Consuming, Over
<1> QED
  BY <1>1, <1>2, TypeCorrect, PTL DEF Spec

(* Sending on the closed resultChan, and with it the panic of the process, *)
(* takes a cancelled ctx: without one, resultChan is closed only after     *)
(* wg.Wait has seen every worker exit.                                     *)
THEOREM PanicSafe == Spec => []PanicNeedsCancel
<1>1. CloseInv => PanicNeedsCancel
  BY DEF CloseInv, PanicNeedsCancel
<1> QED
  BY <1>1, CloseHolds, PTL

-----------------------------------------------------------------------------
(* At most one report. *)

(* A record is held by one worker; everything reported comes from records  *)
(* already received, and of a record still held only matches before the    *)
(* one its worker is at.                                                   *)
OnceInv ==
  /\ \A w \in Worker : pc[w] \in Busy => rec[w] \in 1 .. taken
  /\ \A v, w \in Worker :
       v # w /\ pc[v] \in Busy /\ pc[w] \in Busy => rec[v] # rec[w]
  /\ \A i \in 1 .. Len(emitted) : emitted[i][1] \in 1 .. taken
  /\ \A i \in 1 .. Len(emitted), w \in Worker :
       pc[w] \in Busy /\ emitted[i][1] = rec[w] => emitted[i][2] < idx[w]
  /\ \A i, j \in 1 .. Len(emitted) : i # j => emitted[i] # emitted[j]

(* Under Unique a key belongs to the worker that stored it in seenMatches  *)
(* until that worker reports or drops its match.                           *)
OwnerInv ==
  Unique =>
    /\ \A i \in 1 .. Len(emitted) : KeyOf[emitted[i]] \in seenMatches
    /\ \A w \in Worker :
         pc[w] \in InHandle =>
           /\ KeyOf[<<rec[w], idx[w]>>] \in seenMatches
           /\ \A i \in 1 .. Len(emitted) :
                KeyOf[emitted[i]] # KeyOf[<<rec[w], idx[w]>>]
    /\ \A v, w \in Worker :
         v # w /\ pc[v] \in InHandle /\ pc[w] \in InHandle =>
           KeyOf[<<rec[v], idx[v]>>] # KeyOf[<<rec[w], idx[w]>>]
    /\ \A i, j \in 1 .. Len(emitted) :
         i # j => KeyOf[emitted[i]] # KeyOf[emitted[j]]

(* The steps that neither receive a record nor send a result: workers only *)
(* advance through the record they hold, or put it down.                   *)
LEMMA AdvanceKeepsOnce ==
  ASSUME TypeOK, OnceInv, emitted' = emitted, taken' = taken, rec' = rec,
         \A w \in Worker : pc'[w] \in Busy =>
                             /\ pc[w] \in Busy
                             /\ idx'[w] \in Nat
                             /\ idx'[w] >= idx[w]
  PROVE  OnceInv'
<1>1. \A i \in 1 .. Len(emitted) : emitted[i][2] \in Nat
  BY DEF TypeOK, Hits
<1>2. \A w \in Worker : idx[w] \in Nat
  BY DEF TypeOK
<1>3. \A i \in 1 .. Len(emitted), w \in Worker :
        pc'[w] \in Busy /\ emitted[i][1] = rec[w] => emitted[i][2] < idx'[w]
  <2> SUFFICES ASSUME NEW i \in 1 .. Len(emitted), NEW w \in Worker,
                      pc'[w] \in Busy, emitted[i][1] = rec[w]
               PROVE  emitted[i][2] < idx'[w]
    OBVIOUS
  <2>1. emitted[i][2] < idx[w]
    BY DEF OnceInv
  <2>2. idx'[w] \in Nat /\ idx'[w] >= idx[w]
    OBVIOUS
  <2> QED
    BY <1>1, <1>2, <2>1, <2>2
<1>4. /\ \A w \in Worker : pc'[w] \in Busy => rec[w] \in 1 .. taken
      /\ \A v, w \in Worker :
           v # w /\ pc'[v] \in Busy /\ pc'[w] \in Busy => rec[v] # rec[w]
  BY DEF OnceInv
<1> QED
  BY <1>3, <1>4 DEF OnceInv

(* The steps that neither take a key nor send a result. *)
LEMMA AdvanceKeepsOwner ==
  ASSUME OwnerInv, emitted' = emitted, seenMatches' = seenMatches,
         \A w \in Worker : pc'[w] \in InHandle =>
                             /\ pc[w] \in InHandle
                             /\ rec'[w] = rec[w]
                             /\ idx'[w] = idx[w]
  PROVE  OwnerInv'
<1> SUFFICES ASSUME Unique PROVE OwnerInv'
  BY DEF OwnerInv
<1>1. \A i \in 1 .. Len(emitted) : KeyOf[emitted[i]] \in seenMatches
  BY DEF OwnerInv
<1>2. \A w \in Worker :
        pc'[w] \in InHandle =>
          /\ KeyOf[<<rec'[w], idx'[w]>>] \in seenMatches
          /\ \A i \in 1 .. Len(emitted) : KeyOf[emitted[i]] # KeyOf[<<rec'[w], idx'[w]>>]
  BY DEF OwnerInv
<1>3. \A v, w \in Worker :
        v # w /\ pc'[v] \in InHandle /\ pc'[w] \in InHandle =>
          KeyOf[<<rec'[v], idx'[v]>>] # KeyOf[<<rec'[w], idx'[w]>>]
  <2> SUFFICES ASSUME NEW v \in Worker, NEW w \in Worker, v # w,
                      pc'[v] \in InHandle, pc'[w] \in InHandle
               PROVE  KeyOf[<<rec[v], idx[v]>>] # KeyOf[<<rec[w], idx[w]>>]
    OBVIOUS
  <2>1. pc[v] \in InHandle /\ pc[w] \in InHandle
    OBVIOUS
  <2> QED
    BY <2>1 DEF OwnerInv
<1>4. \A i, j \in 1 .. Len(emitted) : i # j => KeyOf[emitted[i]] # KeyOf[emitted[j]]
  BY DEF OwnerInv
<1> QED
  BY <1>1, <1>2, <1>3, <1>4 DEF OwnerInv

(* What is appended to the history of resultChan. *)
LEMMA AppendIs ==
  ASSUME emitted \in Seq(Hits), NEW h \in Hits, emitted' = Append(emitted, h)
  PROVE  /\ Len(emitted) \in Nat
         /\ Len(emitted') = Len(emitted) + 1
         /\ \A i \in 1 .. Len(emitted) : emitted'[i] = emitted[i]
         /\ emitted'[Len(emitted) + 1] = h
OBVIOUS

(* A worker takes the next record: it is the only one to hold it, and      *)
(* nothing of it has been reported.                                        *)
LEMMA ReceiveKeepsOnce ==
  ASSUME TypeOK, OnceInv, NEW w \in Worker, ReceiveRecord(w)
  PROVE  OnceInv'
<1>1. /\ taken \in Nat /\ taken' = taken + 1
      /\ emitted' = emitted
      /\ pc[w] = "recv"
      /\ pc' = [pc EXCEPT ![w] = "scan"]
      /\ rec' = [rec EXCEPT ![w] = taken + 1]
      /\ idx' = [idx EXCEPT ![w] = 1]
  BY DEF ReceiveRecord, TypeOK, outVars
<1>2. \A v \in Worker : v # w => /\ pc'[v] = pc[v] 
                                 /\ rec'[v] = rec[v]
                                 /\ idx'[v] = idx[v]
  BY <1>1 DEF TypeOK
<1>3. rec'[w] = taken + 1
  BY <1>1 DEF TypeOK
<1>4. \A v \in Worker : pc'[v] \in Busy => rec'[v] \in 1 .. taken'
  BY <1>1, <1>2, <1>3 DEF OnceInv
<1>5. \A u, v \in Worker :
        u # v /\ pc'[u] \in Busy /\ pc'[v] \in Busy => rec'[u] # rec'[v]
  BY <1>1, <1>2, <1>3 DEF OnceInv
<1>6. \A i \in 1 .. Len(emitted') : emitted'[i][1] \in 1 .. taken'
  BY <1>1 DEF OnceInv
<1>7. \A i \in 1 .. Len(emitted'), v \in Worker :
        pc'[v] \in Busy /\ emitted'[i][1] = rec'[v] => emitted'[i][2] < idx'[v]
  BY <1>1, <1>2, <1>3 DEF OnceInv
<1> QED
  BY <1>1, <1>4, <1>5, <1>6, <1>7 DEF OnceInv

(* A worker reports the match it is at and moves past it. *)
LEMMA SendKeepsOnce ==
  ASSUME TypeOK, OnceInv, NEW w \in Worker, SendResult(w)
  PROVE  OnceInv'
<1> DEFINE n == Len(emitted) + 1
<1>1. /\ pc[w] = "send"
      /\ Hit(w) \in Hits
      /\ taken' = taken /\ rec' = rec
      /\ emitted' = Append(emitted, Hit(w))
      /\ pc' = [pc EXCEPT ![w] = "scan"]
      /\ idx' = [idx EXCEPT ![w] = idx[w] + 1]
  BY DEF SendResult, NextMatch, TypeOK, Hit, chanVars
<1>2. /\ n \in Nat \ {0}
      /\ Len(emitted') = n
      /\ \A i \in 1 .. Len(emitted) : emitted'[i] = emitted[i]
      /\ emitted'[n] = <<rec[w], idx[w]>>
  BY <1>1, AppendIs DEF TypeOK, Hit
<1>3. /\ rec[w] \in 1 .. taken
      /\ idx[w] \in Nat
      /\ idx'[w] = idx[w] + 1
  BY <1>1 DEF OnceInv, TypeOK
<1>4. \A v \in Worker : /\ pc'[v] \in Busy => pc[v] \in Busy
                        /\ idx[v] \in Nat
                        /\ v # w => idx'[v] = idx[v]
  BY <1>1 DEF TypeOK
<1>5. \A i \in 1 .. n : i = n \/ i \in 1 .. Len(emitted)
  BY <1>2
<1>6. \A v \in Worker : pc'[v] \in Busy => rec'[v] \in 1 .. taken'
  BY <1>1, <1>4 DEF OnceInv
<1>7. \A u, v \in Worker :
        u # v /\ pc'[u] \in Busy /\ pc'[v] \in Busy => rec'[u] # rec'[v]
  BY <1>1, <1>4 DEF OnceInv
<1>8. \A i \in 1 .. n : emitted'[i][1] \in 1 .. taken'
  BY <1>1, <1>2, <1>3, <1>5 DEF OnceInv
<1>9. \A i \in 1 .. n, v \in Worker :
        pc'[v] \in Busy /\ emitted'[i][1] = rec'[v] => emitted'[i][2] < idx'[v]
  <2> SUFFICES ASSUME NEW i \in 1 .. n, NEW v \in Worker,
                      pc'[v] \in Busy, emitted'[i][1] = rec[v]
               PROVE  emitted'[i][2] < idx'[v]
    BY <1>1
  <2>1. CASE i = n
    <3>1. v = w
      BY <2>1, <1>1, <1>2, <1>4 DEF OnceInv
    <3> QED
      BY <2>1, <3>1, <1>2, <1>3
  <2>2. CASE i \in 1 .. Len(emitted)
    <3>1. emitted[i][2] \in Nat
      BY <2>2 DEF TypeOK, Hits
    <3>2. emitted'[i] = emitted[i] /\ pc[v] \in Busy
      BY <2>2, <1>2, <1>4
    <3>3. emitted[i][2] < idx[v]
      BY <2>2, <3>2 DEF OnceInv
    <3>4. idx'[v] = idx[v] \/ idx'[v] = idx[v] + 1
      BY <1>3, <1>4
    <3> QED
      BY <1>4, <3>1, <3>2, <3>3, <3>4
  <2> QED
    BY <2>1, <2>2, <1>5
<1>10. \A i \in 1 .. Len(emitted) : emitted[i] # <<rec[w], idx[w]>>
  <2> SUFFICES ASSUME NEW i \in 1 .. Len(emitted), emitted[i] = <<rec[w], idx[w]>>
               PROVE  FALSE
    OBVIOUS
  <2>1. emitted[i][1] = rec[w] /\ emitted[i][2] = idx[w]
    OBVIOUS
  <2>2. emitted[i][2] < idx[w]
    BY <1>1, <2>1 DEF OnceInv
  <2> QED
    BY <1>3, <2>1, <2>2
<1>11. \A i, j \in 1 .. n : i # j => emitted'[i] # emitted'[j]
  BY <1>2, <1>5, <1>10 DEF OnceInv
<1> QED
  BY <1>2, <1>6, <1>7, <1>8, <1>9, <1>11 DEF OnceInv

(* The atomic LoadOrStore: the worker that goes on is the owner of a key   *)
(* nobody had stored before.                                               *)
LEMMA CheckKeepsOwner ==
  ASSUME TypeOK, OwnerInv, NEW w \in Worker, CheckUnique(w)
  PROVE  OwnerInv'
<1>1. CASE Unique /\ Key(w) \in seenMatches
  BY <1>1, AdvanceKeepsOwner DEF CheckUnique, NextMatch, TypeOK, outVars
<1>2. CASE Unique /\ Key(w) \notin seenMatches
  <2>1. /\ emitted' = emitted
        /\ pc[w] = "scan"
        /\ \A v \in Worker : v # w => pc'[v] = pc[v]
        /\ rec' = rec /\ idx' = idx
        /\ seenMatches' = seenMatches \cup {KeyOf[<<rec[w], idx[w]>>]}
    BY <1>2 DEF CheckUnique, Goto, TypeOK, outVars, Key, Hit
  <2>2. KeyOf[<<rec[w], idx[w]>>] \notin seenMatches
    BY <1>2 DEF Key, Hit
  <2>3. \A i \in 1 .. Len(emitted) : KeyOf[emitted[i]] # KeyOf[<<rec[w], idx[w]>>]
    BY <1>2, <2>2 DEF OwnerInv
  <2>4. \A v \in Worker :
          pc'[v] \in InHandle =>
            /\ KeyOf[<<rec[v], idx[v]>>] \in seenMatches'
            /\ \A i \in 1 .. Len(emitted) :
                 KeyOf[emitted[i]] # KeyOf[<<rec[v], idx[v]>>]
    <3> TAKE v \in Worker
    <3>1. CASE v = w
      BY <3>1, <2>1, <2>3
    <3>2. CASE v # w
      BY <3>2, <1>2, <2>1 DEF OwnerInv
    <3> QED
      BY <3>1, <3>2
  <2>5. \A u, v \in Worker :
          u # v /\ pc'[u] \in InHandle /\ pc'[v] \in InHandle =>
            KeyOf[<<rec[u], idx[u]>>] # KeyOf[<<rec[v], idx[v]>>]
    <3>1. \A v \in Worker : v # w /\ pc'[v] \in InHandle =>
            KeyOf[<<rec[v], idx[v]>>] # KeyOf[<<rec[w], idx[w]>>]
      BY <1>2, <2>1, <2>2 DEF OwnerInv
    <3>2. \A u, v \in Worker :
            u # v /\ u # w /\ v # w /\ pc'[u] \in InHandle /\ pc'[v] \in InHandle
              => KeyOf[<<rec[u], idx[u]>>] # KeyOf[<<rec[v], idx[v]>>]
      BY <1>2, <2>1 DEF OwnerInv
    <3> QED
      BY <3>1, <3>2
  <2> QED
    BY <1>2, <2>1, <2>4, <2>5 DEF OwnerInv
<1>3. CASE ~Unique
  BY <1>3 DEF OwnerInv
<1> QED
  BY <1>1, <1>2, <1>3

(* A worker reports under a key that only it owns. *)
LEMMA SendKeepsOwner ==
  ASSUME TypeOK, OwnerInv, NEW w \in Worker, SendResult(w)
  PROVE  OwnerInv'
<1> SUFFICES ASSUME Unique PROVE OwnerInv'
  BY DEF OwnerInv
<1> DEFINE n == Len(emitted) + 1
<1>1. /\ pc[w] = "send"
      /\ Hit(w) \in Hits
      /\ seenMatches' = seenMatches /\ rec' = rec
      /\ emitted' = Append(emitted, Hit(w))
      /\ \A v \in Worker : pc'[v] \in InHandle =>
           v # w /\ pc[v] \in InHandle /\ idx'[v] = idx[v]
  BY DEF SendResult, NextMatch, TypeOK, Hit, storeVars
<1>2. /\ n \in Nat \ {0}
      /\ Len(emitted') = n
      /\ \A i \in 1 .. Len(emitted) : emitted'[i] = emitted[i]
      /\ emitted'[n] = <<rec[w], idx[w]>>
  BY <1>1, AppendIs DEF TypeOK, Hit
<1>3. \A i \in 1 .. n : i = n \/ i \in 1 .. Len(emitted)
  BY <1>2
<1>4. \A i \in 1 .. n : KeyOf[emitted'[i]] \in seenMatches'
  BY <1>1, <1>2, <1>3 DEF OwnerInv
<1>5. \A v \in Worker :
        pc'[v] \in InHandle =>
          /\ KeyOf[<<rec'[v], idx'[v]>>] = KeyOf[<<rec[v], idx[v]>>]
          /\ KeyOf[<<rec[v], idx[v]>>] \in seenMatches
          /\ \A i \in 1 .. Len(emitted) :
               KeyOf[emitted[i]] # KeyOf[<<rec[v], idx[v]>>]
          /\ KeyOf[<<rec[v], idx[v]>>] # KeyOf[<<rec[w], idx[w]>>]
  BY <1>1 DEF OwnerInv
<1>6. \A v \in Worker :
        pc'[v] \in InHandle =>
          /\ KeyOf[<<rec'[v], idx'[v]>>] \in seenMatches'
          /\ \A i \in 1 .. n :
               KeyOf[emitted'[i]] # KeyOf[<<rec'[v], idx'[v]>>]
  <2> SUFFICES ASSUME NEW v \in Worker, pc'[v] \in InHandle
               PROVE  /\ KeyOf[<<rec[v], idx[v]>>] \in seenMatches'
                      /\ \A i \in 1 .. n :
                           KeyOf[emitted'[i]] # KeyOf[<<rec[v], idx[v]>>]
    BY <1>5
  <2>1. \A i \in 1 .. Len(emitted) :
          KeyOf[emitted'[i]] # KeyOf[<<rec[v], idx[v]>>]
    BY <1>2, <1>5
  <2>2. KeyOf[emitted'[n]] # KeyOf[<<rec[v], idx[v]>>]
    BY <1>2, <1>5
  <2> QED
    BY <2>1, <2>2, <1>1, <1>3, <1>5
<1>7. \A u, v \in Worker :
        u # v /\ pc'[u] \in InHandle /\ pc'[v] \in InHandle =>
          KeyOf[<<rec'[u], idx'[u]>>] # KeyOf[<<rec'[v], idx'[v]>>]
  <2>1. \A u, v \in Worker :
          u # v /\ pc'[u] \in InHandle /\ pc'[v] \in InHandle =>
            KeyOf[<<rec[u], idx[u]>>] # KeyOf[<<rec[v], idx[v]>>]
    BY <1>1 DEF OwnerInv
  <2> QED
    BY <2>1, <1>5
<1>8. \A i \in 1 .. Len(emitted) : KeyOf[emitted[i]] # KeyOf[<<rec[w], idx[w]>>]
  BY <1>1 DEF OwnerInv
<1>9. \A i, j \in 1 .. Len(emitted) :
        i # j => KeyOf[emitted[i]] # KeyOf[emitted[j]]
  BY DEF OwnerInv
<1>10. \A i, j \in 1 .. n : i # j => KeyOf[emitted'[i]] # KeyOf[emitted'[j]]
  BY <1>2, <1>3, <1>8, <1>9
<1> QED
  BY <1>2, <1>4, <1>6, <1>7, <1>10 DEF OwnerInv

(* Under any interleaving of the workers no match is reported twice, and   *)
(* under Unique no two reports share pattern and content.                  *)
THEOREM AtMostOnceHolds == Spec => []AtMostOnce
<1>1. Init => OnceInv /\ OwnerInv
  BY DEF Init, OnceInv, OwnerInv
<1>2. TypeOK /\ TypeOK' /\ OnceInv /\ OwnerInv /\ [Next]_vars
        => OnceInv' /\ OwnerInv'
  <2> SUFFICES ASSUME TypeOK, TypeOK', OnceInv, OwnerInv, [Next]_vars
               PROVE  OnceInv' /\ OwnerInv'
    OBVIOUS
  <2>1. ASSUME UNCHANGED <<chanVars, workVars, storeVars, emitted>>
        PROVE  OnceInv' /\ OwnerInv'
    BY <2>1 DEF OnceInv, OwnerInv, chanVars, workVars, storeVars
  <2>2. CASE CancelCtx \/ AbortFeed \/ CloseResults \/ ReadResult
             \/ ExitConsumer \/ UNCHANGED vars
    BY <2>1, <2>2 DEF CancelCtx, AbortFeed, CloseResults, ReadResult,
       ExitConsumer, vars, outVars
  <2>3. CASE SendRecord \/ CloseRecords
    BY <2>3 DEF SendRecord, CloseRecords, OnceInv, OwnerInv, workVars,
       storeVars, outVars
  <2>4. ASSUME NEW w \in Worker, Working(w) PROVE OnceInv' /\ OwnerInv'
    <3> USE DEF TypeOK
    <3>1. CASE ReceiveRecord(w)
      <4>1. OwnerInv'
        BY <3>1, AdvanceKeepsOwner DEF ReceiveRecord, storeVars, outVars
      <4> QED
        BY <3>1, <4>1, ReceiveKeepsOnce
    <3>2. CASE SendResult(w)
      BY <3>2, SendKeepsOnce, SendKeepsOwner
    <3>3. CASE CheckUnique(w)
      <4>1. OnceInv'
        BY <3>3, AdvanceKeepsOnce DEF CheckUnique, AfterUnique, Goto,
           NextMatch, chanVars, outVars
      <4> QED
        BY <3>3, <4>1, CheckKeepsOwner
    <3>4. CASE ExitWorker(w)
      BY <3>4, AdvanceKeepsOnce, AdvanceKeepsOwner
         DEF ExitWorker, Goto, chanVars, storeVars, outVars
    <3>5. CASE FinishRecord(w)
      BY <3>5, AdvanceKeepsOnce, AdvanceKeepsOwner
         DEF FinishRecord, Goto, chanVars, storeVars, outVars
    <3>6. CASE CheckGlobal(w)
      BY <3>6, AdvanceKeepsOnce, AdvanceKeepsOwner
         DEF CheckGlobal, Goto, NextMatch, chanVars, storeVars, outVars
    <3>7. CASE MarkHit(w)
      BY <3>7, AdvanceKeepsOnce, AdvanceKeepsOwner
         DEF MarkHit, Goto, chanVars, outVars
    <3>8. CASE Filter(w)
      BY <3>8, AdvanceKeepsOnce, AdvanceKeepsOwner
         DEF Filter, Goto, NextMatch, chanVars, outVars
    <3>9. CASE AbandonResult(w)
      BY <3>9, AdvanceKeepsOnce, AdvanceKeepsOwner
         DEF AbandonResult, NextMatch, chanVars, storeVars, outVars
    <3>10. CASE SendOnClosed(w)
      BY <2>1, <3>10 DEF SendOnClosed, outVars
    <3> QED
      BY <2>4, <3>1, <3>2, <3>3, <3>4, <3>5, <3>6, <3>7, <3>8, <3>9, <3>10
         DEF Working
  <2> QED
    BY <2>2, <2>3, <2>4 DEF Next, Producing, Consuming, Over
<1>3. TypeOK /\ OnceInv /\ OwnerInv => AtMostOnce
  BY DEF TypeOK, OnceInv, OwnerInv, AtMostOnce
<1> QED
  BY <1>1, <1>2, <1>3, TypeCorrect, PTL DEF Spec

-----------------------------------------------------------------------------
(* The counter. *)

Sending == {w \in Worker : pc[w] = "send"}

(* The counter runs ahead of resultChan by the workers about to send. *)
CountInv == ~ctxDone => hitCount = Len(emitted) + Cardinality(Sending)

LEMMA SendingFinite ==
  /\ IsFiniteSet(Sending)
  /\ Cardinality(Sending) \in Nat
BY PoolAssumption, FS_Subset, FS_CardinalityType DEF Sending

(* The steps of a worker that neither reach nor leave the send. *)
LEMMA OutsideKeepsCount ==
  ASSUME CountInv, NEW w \in Worker, NEW p, TypeOK,
         pc[w] # "send", p # "send", pc' = [pc EXCEPT ![w] = p],
         UNCHANGED <<ctxDone, hitCount, emitted>>
  PROVE  CountInv'
<1>1. Sending' = Sending
  BY DEF Sending, TypeOK
<1> QED
  BY <1>1 DEF CountInv

(* A worker counts its match, and will send it. *)
LEMMA FilterKeepsCount ==
  ASSUME TypeOK, CountInv, NEW w \in Worker, Filter(w)
  PROVE  CountInv'
<1>1. CASE Passes(Hit(w))
  <2>1. /\ pc[w] = "filter" /\ pc' = [pc EXCEPT ![w] = "send"]
        /\ hitCount' = hitCount + 1
        /\ UNCHANGED <<ctxDone, emitted>>
    BY <1>1 DEF Filter, Goto, outVars
  <2>2. Sending' = Sending \cup {w} /\ w \notin Sending
    BY <2>1 DEF Sending, TypeOK
  <2>3. Cardinality(Sending') = Cardinality(Sending) + 1
    BY <2>2, SendingFinite, FS_AddElement
  <2> QED
    BY <2>1, <2>3, SendingFinite DEF CountInv, TypeOK
<1>2. CASE ~Passes(Hit(w))
  <2>1. /\ pc[w] = "filter" /\ pc' = [pc EXCEPT ![w] = "scan"]
        /\ UNCHANGED <<ctxDone, emitted, hitCount>>
    BY <1>2 DEF Filter, NextMatch, outVars
  <2> QED
    BY <2>1, OutsideKeepsCount
<1> QED
  BY <1>1, <1>2

(* A worker sends the match it has counted. *)
LEMMA SendKeepsCount ==
  ASSUME TypeOK, CountInv, NEW w \in Worker, SendResult(w)
  PROVE  CountInv'
<1>1. /\ pc[w] = "send" /\ pc' = [pc EXCEPT ![w] = "scan"]
      /\ emitted' = Append(emitted, Hit(w)) /\ Hit(w) \in Hits
      /\ UNCHANGED <<ctxDone, hitCount>>
  BY DEF SendResult, NextMatch, storeVars, TypeOK, Hit
<1>2. Sending' = Sending \ {w} /\ w \in Sending
  BY <1>1 DEF Sending, TypeOK
<1>3. Cardinality(Sending') = Cardinality(Sending) - 1
  BY <1>2, SendingFinite, FS_RemoveElement
<1>4. Len(emitted) \in Nat /\ Len(emitted') = Len(emitted) + 1
  BY <1>1, AppendIs DEF TypeOK
<1>5. Cardinality(Sending) \in Nat
  BY SendingFinite
<1> QED
  BY <1>1, <1>3, <1>4, <1>5 DEF CountInv

LEMMA CountStep ==
  ASSUME TypeOK, CountInv, [Next]_vars
  PROVE  CountInv'
<1>1. ASSUME UNCHANGED <<pc, hitCount, emitted>>, ctxDone => ctxDone'
      PROVE  CountInv'
  BY <1>1 DEF CountInv, Sending
<1>2. CASE \/ CancelCtx \/ Producing \/ Consuming \/ UNCHANGED vars
  BY <1>1, <1>2 DEF CancelCtx, Producing, Consuming, SendRecord, AbortFeed,
     CloseRecords, CloseResults, ReadResult, ExitConsumer, vars, workVars,
     storeVars, outVars
<1>3. ASSUME NEW w \in Worker, Working(w) PROVE CountInv'
  <2>1. CASE ReceiveRecord(w)
    BY <2>1, OutsideKeepsCount DEF ReceiveRecord, storeVars, outVars
  <2>2. CASE ExitWorker(w)
    BY <2>2, OutsideKeepsCount DEF ExitWorker, Goto, storeVars, outVars
  <2>3. CASE FinishRecord(w)
    BY <2>3, OutsideKeepsCount DEF FinishRecord, Goto, storeVars, outVars
  <2>4. CASE CheckUnique(w)
    BY <2>4, OutsideKeepsCount DEF CheckUnique, NextMatch, Goto, AfterUnique, outVars
  <2>5. CASE CheckGlobal(w)
    BY <2>5, OutsideKeepsCount DEF CheckGlobal, NextMatch, Goto, storeVars, outVars
  <2>6. CASE MarkHit(w)
    BY <2>6, OutsideKeepsCount DEF MarkHit, Goto, outVars
  <2>7. CASE Filter(w)
    BY <2>7, FilterKeepsCount
  <2>8. CASE SendResult(w)
    BY <2>8, SendKeepsCount
  <2>9. CASE AbandonResult(w)
    BY <2>9 DEF AbandonResult, CountInv
  <2>10. CASE SendOnClosed(w)
    BY <1>1, <2>10 DEF SendOnClosed, workVars, storeVars, outVars
  <2> QED
    BY <1>3, <2>1, <2>2, <2>3, <2>4, <2>5, <2>6, <2>7, <2>8, <2>9, <2>10
       DEF Working
<1> QED
  BY <1>2, <1>3 DEF Next, Over

(* After wg.Wait, without a cancellation, hitCounter.count is the number   *)
(* of results sent: each worker that counted a match has sent it.          *)
THEOREM HitCountHolds == Spec => []HitCountExact
<1>1. Init => CountInv
  <2> SUFFICES ASSUME Init PROVE CountInv
    OBVIOUS
  <2>1. Sending = {} /\ Len(emitted) = 0 /\ hitCount = 0
    BY DEF Init, Sending
  <2> QED
    BY <2>1, FS_EmptySet DEF CountInv
<1>2. TypeOK /\ CountInv /\ CloseInv => HitCountExact
  <2> SUFFICES ASSUME TypeOK, CountInv, producer = "returned", ~ctxDone,
                      \A w \in Worker : pc[w] = "exited"
               PROVE  hitCount = Len(emitted)
    BY DEF HitCountExact, CloseInv
  <2>1. Sending = {} /\ Len(emitted) \in Nat
    BY DEF Sending, TypeOK
  <2> QED
    BY <2>1, FS_EmptySet DEF CountInv
<1> QED
  BY <1>1, <1>2, CountStep, TypeCorrect, CloseHolds, PTL DEF Spec

-----------------------------------------------------------------------------
(* The state database. *)

(* A worker past MarkHit has its key in the bucket. *)
MarkInv ==
  GlobalDedupe /\ DbReliable =>
    /\ \A i \in 1 .. Len(emitted) : KeyOf[emitted[i]] \in dbHits
    /\ \A w \in Worker : pc[w] \in {"filter", "send"} =>
                           KeyOf[<<rec[w], idx[w]>>] \in dbHits

LEMMA MarkStep ==
  ASSUME TypeOK, MarkInv, [Next]_vars
  PROVE  MarkInv'
<1>1. ASSUME UNCHANGED <<workVars, dbHits, emitted>> PROVE MarkInv'
  BY <1>1 DEF MarkInv, workVars
<1>2. CASE CancelCtx \/ Producing \/ Consuming \/ UNCHANGED vars
  BY <1>1, <1>2 DEF CancelCtx, Producing, Consuming, SendRecord, AbortFeed,
     CloseRecords, CloseResults, ReadResult, ExitConsumer, vars, storeVars, outVars
<1>3. ASSUME NEW w \in Worker, Working(w) PROVE MarkInv'
  <2>1. CASE SendResult(w)
    <3>1. /\ pc[w] = "send" /\ Hit(w) \in Hits
          /\ emitted' = Append(emitted, Hit(w))
          /\ \A v \in Worker : pc'[v] \in {"filter", "send"} =>
               pc'[v] = pc[v] /\ idx'[v] = idx[v]
          /\ UNCHANGED <<rec, dbHits>>
      BY <2>1 DEF SendResult, NextMatch, storeVars, TypeOK, Hit
    <3>2. /\ Len(emitted) \in Nat
          /\ Len(emitted') = Len(emitted) + 1
          /\ \A i \in 1 .. Len(emitted) : emitted'[i] = emitted[i]
          /\ emitted'[Len(emitted) + 1] = <<rec[w], idx[w]>>
      BY <3>1, AppendIs DEF TypeOK, Hit
    <3>3. \A i \in 1 .. Len(emitted') : i \in 1 .. Len(emitted) \/ i = Len(emitted) + 1
      BY <3>2
    <3> QED
      BY <3>1, <3>2, <3>3 DEF MarkInv
  <2>2. CASE MarkHit(w)
    <3>1. /\ DbReliable => dbHits' = dbHits \cup {KeyOf[<<rec[w], idx[w]>>]}
          /\ \A v \in Worker : v # w => pc'[v] = pc[v]
          /\ UNCHANGED <<rec, idx, emitted>>
      BY <2>2 DEF MarkHit, Goto, outVars, TypeOK, Key, Hit
    <3> QED
      BY <3>1 DEF MarkInv
  <2>3. ASSUME UNCHANGED <<emitted, dbHits>>,
               \A v \in Worker : GlobalDedupe /\ pc'[v] \in {"filter", "send"} =>
                 /\ pc[v] \in {"filter", "send"}
                 /\ rec'[v] = rec[v] /\ idx'[v] = idx[v]
        PROVE  MarkInv'
    BY <2>3 DEF MarkInv
  <2>4. CASE ReceiveRecord(w) \/ ExitWorker(w) \/ FinishRecord(w)
    BY <2>3, <2>4 DEF ReceiveRecord, ExitWorker, FinishRecord, Goto, storeVars,
       outVars, TypeOK
  <2>5. CASE CheckUnique(w)
    BY <2>3, <2>5 DEF CheckUnique, AfterUnique, Goto, NextMatch, outVars, TypeOK
  <2>6. CASE CheckGlobal(w)
    BY <2>3, <2>6 DEF CheckGlobal, Goto, NextMatch, storeVars, outVars, TypeOK
  <2>7. CASE Filter(w)
    BY <2>3, <2>7 DEF Filter, Goto, NextMatch, outVars, TypeOK
  <2>8. CASE AbandonResult(w)
    BY <2>3, <2>8 DEF AbandonResult, NextMatch, storeVars, outVars, TypeOK
  <2>9. CASE SendOnClosed(w)
    BY <1>1, <2>9 DEF SendOnClosed, storeVars, outVars
  <2> QED
    BY <1>3, <2>1, <2>2, <2>4, <2>5, <2>6, <2>7, <2>8, <2>9 DEF Working
<1> QED
  BY <1>2, <1>3 DEF Next, Over

(* With a database that can be written, a finding is in its bucket before  *)
(* it is reported: handleMatch marks it on the way to resultChan.          *)
THEOREM ReportedMarkedHolds == Spec => []ReportedIsMarked
<1>1. Init => MarkInv
  BY DEF Init, MarkInv
<1>2. TypeOK /\ MarkInv => ReportedIsMarked
  BY DEF TypeOK, MarkInv, ReportedIsMarked, EmittedKeys, Emitted
<1> QED
  BY <1>1, <1>2, MarkStep, TypeCorrect, PTL DEF Spec

-----------------------------------------------------------------------------
(* Nothing missing at the end. *)

(* The filters tell nothing apart that -unique or -global-dedupe takes to  *)
(* be one finding.  The code gives no such guarantee for literal patterns: *)
(* their entropy is that of the record.  Without -entropy it holds.        *)
FilterByKey ==
  ByKey /\ EntropyMode =>
    \A g, h \in Hits : KeyOf[g] = KeyOf[h] => (g \in Entropic <=> h \in Entropic)

(* Worker w holds the key of h, or (when each match counts) h itself. *)
Carries(w, h) == IF ByKey THEN KeyOf[<<rec[w], idx[w]>>] = KeyOf[h]
                          ELSE <<rec[w], idx[w]>> = h
Reported(h) ==
  \E i \in 1 .. Len(emitted) : IF ByKey THEN KeyOf[emitted[i]] = KeyOf[h]
                                        ELSE emitted[i] = h

Settled(h, where) ==
  Reported(h) \/ \E w \in Worker : pc[w] \in where /\ Carries(w, h)

(* Whoever dropped a duplicate of a wanted match did so because another    *)
(* worker reports its key; every match of a record taken is settled or     *)
(* still before the worker that holds the record.                          *)
SettledInv ==
  /\ \A w \in Worker : pc[w] \in {"isdup", "mark"} => GlobalDedupe
  /\ ~ctxDone =>
       \A h \in Hits : Wanted(h) =>
         /\ GlobalDedupe /\ KeyOf[h] \in dbHits => Settled(h, {"filter", "send"})
         /\ Unique /\ KeyOf[h] \in seenMatches => Settled(h, InHandle)
         /\ h[1] <= taken =>
              \/ Settled(h, InHandle)
              \/ \E w \in Worker : pc[w] \in Busy /\ rec[w] = h[1] /\ idx[w] <= h[2]

(* The end of recordChan, and of resultChan. *)
EndInv ==
  /\ recordClosed /\ ~ctxDone => queued = NumRecords
  /\ \A w \in Worker : pc[w] = "exited" => recordClosed /\ taken = queued
  /\ consumer = "exited" => resultClosed /\ read = Len(emitted)
  /\ producer = "feed" => ~recordClosed

LEMMA SameKeyPasses ==
  ASSUME FilterByKey, ByKey, NEW g \in Hits, NEW h \in Hits, KeyOf[g] = KeyOf[h]
  PROVE  Passes(g) <=> Passes(h)
BY OptionAssumption DEF FilterByKey, Passes

(* The match of a worker in handleMatch, for the steps that drop it. *)
LEMMA CarriesWanted ==
  ASSUME FilterByKey, TypeOK, NEW w \in Worker, pc[w] \in InHandle,
         NEW h \in Hits, Wanted(h), Carries(w, h)
  PROVE  Passes(<<rec[w], idx[w]>>)
<1>1. <<rec[w], idx[w]>> \in Hits
  BY DEF TypeOK
<1>2. CASE ByKey
  BY <1>1, <1>2, SameKeyPasses DEF Carries, Wanted
<1>3. CASE ~ByKey
  BY <1>3 DEF Carries, Wanted
<1> QED
  BY <1>2, <1>3

(* The steps in which a worker stays where it is or goes on inside         *)
(* handleMatch with the match it holds.                                    *)
LEMMA OnwardKeepsSettled ==
  ASSUME SettledInv, ctxDone => ctxDone', taken' = taken, emitted' = emitted,
         dbHits' = dbHits, seenMatches' = seenMatches, rec' = rec, idx' = idx,
         \A w \in Worker :
           /\ pc[w] \in Busy => pc'[w] \in Busy
           /\ pc[w] \in InHandle => pc'[w] \in InHandle
           /\ pc[w] \in {"filter", "send"} => pc'[w] \in {"filter", "send"}
           /\ pc'[w] \in {"isdup", "mark"} => GlobalDedupe
  PROVE  SettledInv'
BY SMTT(40) DEF SettledInv, Settled, Reported, Carries, Wanted, Passes

(* The step in which worker w drops the match it is at, when another       *)
(* worker takes care of it or nobody wants it.                             *)
LEMMA DropKeepsSettled ==
  ASSUME TypeOK, SettledInv, NEW w \in Worker, pc[w] \in Busy,
         UNCHANGED <<ctxDone, taken, emitted, dbHits, seenMatches, rec>>,
         pc' = [pc EXCEPT ![w] = "scan"],
         idx' = [idx EXCEPT ![w] = idx[w] + 1],
         ~ctxDone => \A h \in Hits : Wanted(h) /\ Carries(w, h) =>
           /\ pc[w] \notin {"filter", "send"}
           /\ \/ Reported(h)
              \/ \E v \in Worker : v # w /\ pc[v] \in InHandle /\ Carries(v, h)
  PROVE  SettledInv'
<1>1. /\ pc'[w] = "scan" /\ idx'[w] = idx[w] + 1
      /\ \A v \in Worker : v # w => pc'[v] = pc[v] /\ idx'[v] = idx[v]
  BY DEF TypeOK
<1>2. \A v \in Worker : pc'[v] \in {"isdup", "mark"} => GlobalDedupe
  BY <1>1 DEF SettledInv
<1>3. SUFFICES ASSUME ~ctxDone, NEW h \in Hits, Wanted(h)
               PROVE  /\ GlobalDedupe /\ KeyOf[h] \in dbHits =>
                           Settled(h, {"filter", "send"})'
                      /\ Unique /\ KeyOf[h] \in seenMatches => Settled(h, InHandle)'
                      /\ h[1] <= taken =>
                           \/ Settled(h, InHandle)'
                           \/ \E v \in Worker : /\ pc'[v] \in Busy /\ rec[v] = h[1]
                                                /\ idx'[v] <= h[2]
  BY <1>2 DEF SettledInv, Wanted, Passes
<1>4. Reported(h)' <=> Reported(h)
  BY DEF Reported
<1>5. \A v \in Worker : v # w => (Carries(v, h)' <=> Carries(v, h))
  BY <1>1 DEF Carries
<1>6. Settled(h, {"filter", "send"}) => Settled(h, {"filter", "send"})'
  BY <1>1, <1>3, <1>4, <1>5 DEF Settled
<1>7. Settled(h, InHandle) => Settled(h, InHandle)'
  BY <1>1, <1>3, <1>4, <1>5 DEF Settled
<1>8. ASSUME NEW v \in Worker, pc[v] \in Busy, rec[v] = h[1], idx[v] <= h[2]
      PROVE  \/ Settled(h, InHandle)'
             \/ pc'[v] \in Busy /\ idx'[v] <= h[2]
  <2>1. CASE v # w
    BY <1>1, <1>8, <2>1
  <2>2. CASE v = w /\ idx[w] = h[2]
    <3>1. Carries(w, h)
      BY <1>8, <2>2 DEF Carries, Hits
    <3> QED
      BY <1>1, <1>3, <1>4, <1>5, <3>1 DEF Settled
  <2>3. CASE v = w /\ idx[w] < h[2]
    <3>1. idx[w] \in Nat /\ h[2] \in Nat
      BY InputAssumption DEF TypeOK, Hits, Record
    <3> QED
      BY <1>1, <2>3, <3>1
  <2> QED
    <3>1. idx[w] \in Nat /\ h[2] \in Nat
      BY InputAssumption DEF TypeOK, Hits, Record
    <3> QED
      BY <1>8, <2>1, <2>2, <2>3, <3>1
<1> QED
  BY <1>3, <1>6, <1>7, <1>8 DEF SettledInv

(* A worker receives a record: its matches lie before the worker. *)
LEMMA ReceiveKeepsSettled ==
  ASSUME TypeOK, SettledInv, NEW w \in Worker, ReceiveRecord(w)
  PROVE  SettledInv'
<1>1. /\ pc[w] = "recv" /\ pc'[w] = "scan" /\ rec'[w] = taken + 1 /\ idx'[w] = 1
      /\ taken \in Nat /\ taken' = taken + 1
      /\ \A v \in Worker : v # w => /\ pc'[v] = pc[v] /\ rec'[v] = rec[v]
                                   /\ idx'[v] = idx[v]
      /\ UNCHANGED <<ctxDone, emitted, dbHits, seenMatches>>
  BY DEF ReceiveRecord, TypeOK, storeVars, outVars
<1>2. \A h \in Hits : h[1] \in Nat /\ h[2] \in Nat /\ 1 <= h[2]
  BY InputAssumption DEF Hits, Record
<1>3. \A v \in Worker : pc'[v] \in {"isdup", "mark"} => GlobalDedupe
  BY <1>1 DEF SettledInv
<1>4. \A v \in Worker, h \in Hits : v # w => (Carries(v, h)' <=> Carries(v, h))
  BY <1>1 DEF Carries
<1>5. \A h \in Hits : /\ Settled(h, {"filter", "send"}) => Settled(h, {"filter", "send"})'
                      /\ Settled(h, InHandle) => Settled(h, InHandle)'
  BY <1>1, <1>4 DEF Settled, Reported
<1>6. ASSUME NEW h \in Hits, h[1] <= taken'
      PROVE  h[1] <= taken \/ (rec'[w] = h[1] /\ idx'[w] <= h[2])
  BY <1>1, <1>2, <1>6
<1>7. \A v \in Worker : pc[v] \in Busy => v # w /\ pc'[v] \in Busy
  BY <1>1
<1> QED
  BY <1>1, <1>3, <1>5, <1>6, <1>7 DEF SettledInv, Wanted, Passes

(* A worker is through with its record: none of its matches is behind it.  *)
LEMMA FinishKeepsSettled ==
  ASSUME TypeOK, SettledInv, NEW w \in Worker, FinishRecord(w)
  PROVE  SettledInv'
<1>1. /\ pc[w] = "scan" /\ pc'[w] = "recv" /\ idx[w] > NumMatches[rec[w]]
      /\ idx[w] \in Nat
      /\ \A v \in Worker : v # w => pc'[v] = pc[v]
      /\ UNCHANGED <<ctxDone, emitted, dbHits, seenMatches, rec, idx, taken>>
  BY DEF FinishRecord, Goto, TypeOK, chanVars, storeVars, outVars
<1>2. \A h \in Hits : h[2] \in Nat /\ h[2] <= NumMatches[h[1]] /\ NumMatches[h[1]] \in Nat
  BY InputAssumption DEF Hits, Record
<1>3. \A h \in Hits : ~(rec[w] = h[1] /\ idx[w] <= h[2])
  BY <1>1, <1>2
<1> QED
  BY <1>1, <1>3 DEF SettledInv, Settled, Reported, Carries, Wanted, Passes

(* LoadOrStore: the worker either owns the key from now on, or drops a     *)
(* duplicate of a key that is taken care of.                               *)
LEMMA CheckKeepsSettled ==
  ASSUME TypeOK, SettledInv, NEW w \in Worker, CheckUnique(w)
  PROVE  SettledInv'
<1>1. CASE Unique /\ Key(w) \in seenMatches
  <2>1. /\ pc[w] = "scan" /\ pc' = [pc EXCEPT ![w] = "scan"]
        /\ idx' = [idx EXCEPT ![w] = idx[w] + 1]
        /\ UNCHANGED <<ctxDone, taken, emitted, dbHits, seenMatches, rec>>
    BY <1>1 DEF CheckUnique, NextMatch, chanVars, outVars
  <2>2. ByKey /\ KeyOf[<<rec[w], idx[w]>>] \in seenMatches
    BY <1>1 DEF ByKey, Key, Hit
  <2>3. ASSUME ~ctxDone, NEW h \in Hits, Wanted(h), Carries(w, h)
        PROVE  \/ Reported(h)
               \/ \E v \in Worker : v # w /\ pc[v] \in InHandle /\ Carries(v, h)
    <3>1. Settled(h, InHandle)
      BY <1>1, <2>2, <2>3 DEF Carries, SettledInv
    <3> QED
      BY <2>1, <3>1 DEF Settled
  <2> QED
    BY <2>1, <2>3, DropKeepsSettled
<1>2. CASE ~(Unique /\ Key(w) \in seenMatches)
  <2>1. /\ pc[w] = "scan" /\ pc' = [pc EXCEPT ![w] = AfterUnique]
        /\ seenMatches' = IF Unique THEN seenMatches \cup {Key(w)} ELSE seenMatches
        /\ UNCHANGED <<ctxDone, taken, emitted, dbHits, rec, idx>>
    BY <1>2 DEF CheckUnique, Goto, chanVars, outVars
  <2>2. /\ pc'[w] = AfterUnique /\ pc'[w] \in InHandle
        /\ \A v \in Worker : v # w => pc'[v] = pc[v]
    BY <2>1 DEF TypeOK, AfterUnique
  <2>3. \A v \in Worker : pc'[v] \in {"isdup", "mark"} => GlobalDedupe
    BY <2>2 DEF SettledInv, AfterUnique
  <2>4. \A h \in Hits, v \in Worker : Carries(v, h)' <=> Carries(v, h)
    BY <2>1 DEF Carries
  <2>5. \A h \in Hits : /\ Settled(h, {"filter", "send"}) => Settled(h, {"filter", "send"})'
                        /\ Settled(h, InHandle) => Settled(h, InHandle)'
    BY <2>1, <2>2, <2>4 DEF Settled, Reported
  <2>6. ASSUME NEW h \in Hits, Unique, KeyOf[h] = Key(w)
        PROVE  Settled(h, InHandle)'
    <3>1. Carries(w, h)
      BY <2>6 DEF Carries, ByKey, Key, Hit
    <3> QED
      BY <2>2, <2>4, <3>1 DEF Settled
  <2>7. \A v \in Worker : pc[v] \in Busy => pc'[v] \in Busy
    BY <2>2
  <2> QED
    BY <2>1, <2>3, <2>5, <2>6, <2>7 DEF SettledInv, Wanted, Passes
<1> QED
  BY <1>1, <1>2

(* IsDuplicate: what it drops is reported or about to be.                  *)
LEMMA GlobalKeepsSettled ==
  ASSUME TypeOK, SettledInv, NEW w \in Worker, CheckGlobal(w)
  PROVE  SettledInv'
<1>1. /\ pc[w] = "isdup" /\ GlobalDedupe /\ ByKey
      /\ UNCHANGED <<ctxDone, taken, emitted, dbHits, seenMatches, rec>>
  BY DEF CheckGlobal, Goto, NextMatch, SettledInv, ByKey, chanVars, storeVars, outVars
<1>2. CASE Key(w) \in dbHits
  <2>1. /\ pc' = [pc EXCEPT ![w] = "scan"]
        /\ idx' = [idx EXCEPT ![w] = idx[w] + 1]
    BY <1>2 DEF CheckGlobal, NextMatch
  <2>2. ASSUME ~ctxDone, NEW h \in Hits, Wanted(h), Carries(w, h)
        PROVE  \/ Reported(h)
               \/ \E v \in Worker : v # w /\ pc[v] \in InHandle /\ Carries(v, h)
    <3>1. Settled(h, {"filter", "send"})
      BY <1>1, <1>2, <2>2 DEF Carries, SettledInv, Key, Hit
    <3> QED
      BY <1>1, <3>1 DEF Settled
  <2> QED
    BY <1>1, <2>1, <2>2, DropKeepsSettled
<1>3. CASE Key(w) \notin dbHits
  <2>1. pc' = [pc EXCEPT ![w] = "mark"] /\ idx' = idx
    BY <1>3 DEF CheckGlobal, Goto
  <2>2. pc'[w] = "mark" /\ \A v \in Worker : v # w => pc'[v] = pc[v]
    BY <2>1 DEF TypeOK
  <2> QED
    BY <1>1, <2>1, <2>2, OnwardKeepsSettled
<1> QED
  BY <1>2, <1>3

(* MarkHit: the worker that enters a key in the database holds it. *)
LEMMA MarkKeepsSettled ==
  ASSUME TypeOK, SettledInv, NEW w \in Worker, MarkHit(w)
  PROVE  SettledInv'
<1>1. /\ pc[w] = "mark" /\ GlobalDedupe /\ ByKey
      /\ pc'[w] = "filter"
      /\ \A v \in Worker : v # w => pc'[v] = pc[v]
      /\ dbHits' \subseteq dbHits \cup {Key(w)}
      /\ UNCHANGED <<ctxDone, taken, emitted, seenMatches, rec, idx>>
  BY DEF MarkHit, Goto, SettledInv, ByKey, chanVars, outVars, TypeOK
<1>2. \A v \in Worker : pc'[v] \in {"isdup", "mark"} => GlobalDedupe
  BY <1>1
<1>3. \A h \in Hits, v \in Worker : Carries(v, h)' <=> Carries(v, h)
  BY <1>1 DEF Carries
<1>4. \A h \in Hits : /\ Settled(h, {"filter", "send"}) => Settled(h, {"filter", "send"})'
                      /\ Settled(h, InHandle) => Settled(h, InHandle)'
  BY <1>1, <1>3 DEF Settled, Reported
<1>5. ASSUME NEW h \in Hits, KeyOf[h] = Key(w)
      PROVE  Settled(h, {"filter", "send"})'
  <2>1. Carries(w, h)
    BY <1>1, <1>5 DEF Carries, Key, Hit
  <2> QED
    BY <1>1, <1>3, <2>1 DEF Settled
<1>6. \A v \in Worker : pc[v] \in Busy => pc'[v] \in Busy
  BY <1>1
<1> QED
  BY <1>1, <1>2, <1>4, <1>5, <1>6 DEF SettledInv, Wanted, Passes

(* The filters drop only what nobody wants, under any of its guises. *)
LEMMA FilterKeepsSettled ==
  ASSUME FilterByKey, TypeOK, SettledInv, NEW w \in Worker, Filter(w)
  PROVE  SettledInv'
<1>1. /\ pc[w] = "filter"
      /\ UNCHANGED <<ctxDone, taken, emitted, dbHits, seenMatches, rec>>
  BY DEF Filter, Goto, NextMatch, chanVars, outVars
<1>2. CASE Passes(Hit(w))
  <2>1. pc' = [pc EXCEPT ![w] = "send"] /\ idx' = idx
    BY <1>2 DEF Filter, Goto
  <2>2. pc'[w] = "send" /\ \A v \in Worker : v # w => pc'[v] = pc[v]
    BY <2>1 DEF TypeOK
  <2>3. \A v \in Worker : pc'[v] \in {"isdup", "mark"} => GlobalDedupe
    BY <2>2 DEF SettledInv
  <2> QED
    BY <1>1, <2>1, <2>2, <2>3, OnwardKeepsSettled
<1>3. CASE ~Passes(Hit(w))
  <2>1. /\ pc' = [pc EXCEPT ![w] = "scan"]
        /\ idx' = [idx EXCEPT ![w] = idx[w] + 1]
    BY <1>3 DEF Filter, NextMatch
  <2>2. \A h \in Hits : ~(Wanted(h) /\ Carries(w, h))
    BY <1>1, <1>3, CarriesWanted DEF Hit
  <2> QED
    BY <1>1, <2>1, <2>2, DropKeepsSettled
<1> QED
  BY <1>2, <1>3

(* What a worker holds is settled by being sent. *)
LEMMA SendKeepsSettled ==
  ASSUME TypeOK, SettledInv, NEW w \in Worker, SendResult(w)
  PROVE  SettledInv'
<1>1. /\ pc[w] = "send" /\ pc'[w] = "scan" /\ idx'[w] = idx[w] + 1
      /\ \A v \in Worker : v # w => pc'[v] = pc[v] /\ idx'[v] = idx[v]
      /\ emitted' = Append(emitted, Hit(w)) /\ Hit(w) \in Hits
      /\ UNCHANGED <<ctxDone, taken, dbHits, seenMatches, rec>>
  BY DEF SendResult, NextMatch, chanVars, storeVars, TypeOK, Hit
<1>2. /\ Len(emitted) \in Nat
      /\ Len(emitted') = Len(emitted) + 1
      /\ \A i \in 1 .. Len(emitted) : emitted'[i] = emitted[i]
      /\ emitted'[Len(emitted) + 1] = <<rec[w], idx[w]>>
  BY <1>1, AppendIs DEF TypeOK, Hit
<1>3. \A v \in Worker : pc'[v] \in {"isdup", "mark"} => GlobalDedupe
  BY <1>1 DEF SettledInv
<1>4. \A h \in Hits : Reported(h) \/ Carries(w, h) => Reported(h)'
  <2> SUFFICES ASSUME NEW h \in Hits, Reported(h) \/ Carries(w, h)
               PROVE  Reported(h)'
    OBVIOUS
  <2>1. Len(emitted) + 1 \in 1 .. Len(emitted')
    BY <1>2
  <2>2. \A i \in 1 .. Len(emitted) : i \in 1 .. Len(emitted')
    BY <1>2
  <2>3. CASE Reported(h)
    BY <1>2, <2>2, <2>3 DEF Reported
  <2>4. CASE Carries(w, h)
    BY <1>2, <2>1, <2>4 DEF Reported, Carries
  <2> QED
    BY <2>3, <2>4
<1>5. \A h \in Hits, v \in Worker : v # w => (Carries(v, h)' <=> Carries(v, h))
  BY <1>1 DEF Carries
<1>6. \A h \in Hits : /\ Settled(h, {"filter", "send"}) => Settled(h, {"filter", "send"})'
                      /\ Settled(h, InHandle) => Settled(h, InHandle)'
  BY <1>1, <1>4, <1>5 DEF Settled
<1>7. ASSUME NEW h \in Hits, NEW v \in Worker, pc[v] \in Busy, rec[v] = h[1],
             idx[v] <= h[2]
      PROVE  Settled(h, InHandle)' \/ (pc'[v] \in Busy /\ idx'[v] <= h[2])
  <2>1. h[2] \in Nat /\ idx[w] \in Nat
    BY InputAssumption DEF Hits, Record, TypeOK
  <2>2. CASE v # w
    BY <1>1, <1>7, <2>2
  <2>3. CASE v = w /\ idx[w] = h[2]
    <3>1. Carries(w, h)
      BY <1>7, <2>3 DEF Carries, Hits
    <3> QED
      BY <1>4, <3>1 DEF Settled
  <2>4. CASE v = w /\ idx[w] < h[2]
    BY <1>1, <2>1, <2>4
  <2> QED
    BY <1>7, <2>1, <2>2, <2>3, <2>4
<1> QED
  BY <1>1, <1>3, <1>6, <1>7 DEF SettledInv, Wanted, Passes

LEMMA SettledStep ==
  ASSUME FilterByKey, TypeOK, CloseInv, SettledInv, [Next]_vars
  PROVE  SettledInv'
<1>1. ASSUME UNCHANGED <<chanVars, workVars, storeVars, emitted>>, ctxDone => ctxDone'
      PROVE  SettledInv'
  BY <1>1 DEF SettledInv, Settled, Reported, Carries, Wanted, Passes, chanVars,
     workVars, storeVars
<1>2. CASE \/ CancelCtx \/ AbortFeed \/ CloseResults \/ Consuming \/ UNCHANGED vars
  BY <1>1, <1>2 DEF CancelCtx, AbortFeed, CloseResults, Consuming, ReadResult,
     ExitConsumer, vars, outVars
<1>3. CASE SendRecord \/ CloseRecords
  BY <1>3 DEF SendRecord, CloseRecords, SettledInv, Settled, Reported, Carries,
     Wanted, Passes, workVars, storeVars, outVars
<1>4. ASSUME NEW w \in Worker, Working(w) PROVE SettledInv'
  <2>1. CASE ReceiveRecord(w)
    BY <2>1, ReceiveKeepsSettled
  <2>2. CASE ExitWorker(w)
    <3>1. /\ pc[w] = "recv" /\ pc'[w] = "exited"
          /\ \A v \in Worker : v # w => pc'[v] = pc[v]
          /\ UNCHANGED <<ctxDone, taken, emitted, dbHits, seenMatches, rec, idx>>
      BY <2>2 DEF ExitWorker, Goto, TypeOK, chanVars, storeVars, outVars
    <3> QED
      BY <3>1, OnwardKeepsSettled DEF SettledInv
  <2>3. CASE FinishRecord(w)
    BY <2>3, FinishKeepsSettled
  <2>4. CASE CheckUnique(w)
    BY <2>4, CheckKeepsSettled
  <2>5. CASE CheckGlobal(w)
    BY <2>5, GlobalKeepsSettled
  <2>6. CASE MarkHit(w)
    BY <2>6, MarkKeepsSettled
  <2>7. CASE Filter(w)
    BY <2>7, FilterKeepsSettled
  <2>8. CASE SendResult(w)
    BY <2>8, SendKeepsSettled
  <2>9. CASE AbandonResult(w)
    <3>1. /\ ctxDone' /\ pc' = [pc EXCEPT ![w] = "scan"]
      BY <2>9 DEF AbandonResult, NextMatch
    <3> QED
      BY <3>1 DEF SettledInv, TypeOK
  <2>10. CASE SendOnClosed(w)
    BY <1>1, <2>10 DEF SendOnClosed, outVars
  <2> QED
    BY <1>4, <2>1, <2>2, <2>3, <2>4, <2>5, <2>6, <2>7, <2>8, <2>9, <2>10
       DEF Working
<1> QED
  BY <1>2, <1>3, <1>4 DEF Next, Producing, Over

LEMMA EndStep ==
  ASSUME TypeOK, CloseInv, EndInv, [Next]_vars
  PROVE  EndInv'
<1>1. CASE CancelCtx \/ ReadResult \/ UNCHANGED vars
  BY <1>1 DEF CancelCtx, ReadResult, EndInv, vars, chanVars, workVars, outVars
<1>2. CASE SendRecord \/ AbortFeed \/ CloseRecords
  BY <1>2 DEF SendRecord, AbortFeed, CloseRecords, EndInv, CloseInv, chanVars,
     workVars, outVars
<1>3. CASE CloseResults \/ ExitConsumer
  BY <1>3 DEF CloseResults, ExitConsumer, EndInv, CloseInv, chanVars, workVars
<1>4. ASSUME NEW w \in Worker, Working(w) PROVE EndInv'
  <2>1. CASE ReceiveRecord(w)
    <3>1. /\ taken < queued /\ taken \in Nat /\ queued \in Nat
          /\ \A v \in Worker : pc'[v] = "exited" => pc[v] = "exited"
      BY <2>1, InputAssumption DEF ReceiveRecord, TypeOK
    <3>2. \A v \in Worker : pc'[v] # "exited"
      BY <3>1 DEF EndInv
    <3> QED
      BY <2>1, <3>2 DEF ReceiveRecord, EndInv, storeVars, outVars
  <2>2. CASE SendResult(w)
    <3>1. /\ producer # "returned" /\ consumer # "exited"
          /\ \A v \in Worker : pc'[v] = "exited" => pc[v] = "exited"
      BY <2>2 DEF SendResult, NextMatch, EndInv, CloseInv, TypeOK
    <3> QED
      BY <2>2, <3>1 DEF SendResult, EndInv, chanVars, storeVars
  <2>3. ASSUME UNCHANGED <<ctxDone, producer, chanVars, outVars>>,
               \A v \in Worker : pc'[v] = "exited" =>
                 pc[v] = "exited" \/ (recordClosed /\ taken = queued)
        PROVE  EndInv'
    BY <2>3 DEF EndInv, chanVars, outVars
  <2>4. CASE ExitWorker(w) \/ FinishRecord(w)
    BY <2>3, <2>4 DEF ExitWorker, FinishRecord, Goto, TypeOK
  <2>5. CASE CheckUnique(w) \/ CheckGlobal(w)
    BY <2>3, <2>5 DEF CheckUnique, CheckGlobal, Goto, AfterUnique, NextMatch, TypeOK
  <2>6. CASE MarkHit(w) \/ Filter(w) \/ AbandonResult(w)
    BY <2>3, <2>6 DEF MarkHit, Filter, AbandonResult, Goto, NextMatch, TypeOK
  <2>7. CASE SendOnClosed(w)
    BY <2>3, <2>7 DEF SendOnClosed, workVars
  <2> QED
    BY <1>4, <2>1, <2>2, <2>4, <2>5, <2>6, <2>7 DEF Working
<1> QED
  BY <1>1, <1>2, <1>3, <1>4 DEF Next, Producing, Consuming, Over

LEMMA EndHolds == Spec => []EndInv
<1>1. Init => EndInv
  BY DEF Init, EndInv
<1> QED
  BY <1>1, EndStep, CloseHolds, TypeCorrect, PTL DEF Spec

LEMMA SettledHolds == ASSUME FilterByKey PROVE Spec => []SettledInv
<1>1. Init => SettledInv
  <2> SUFFICES ASSUME Init PROVE SettledInv
    OBVIOUS
  <2>1. \A h \in Hits : ~(h[1] <= taken)
    BY InputAssumption DEF Init, Hits, Record
  <2>2. \A h \in Hits : Wanted(h) => ~(GlobalDedupe /\ KeyOf[h] \in dbHits)
    BY DEF Init, Wanted
  <2> QED
    BY <2>1, <2>2 DEF Init, SettledInv
<1>2. TypeOK /\ CloseInv /\ SettledInv /\ [Next]_vars => SettledInv'
  BY SettledStep
<1> QED
  BY <1>1, <1>2, CloseHolds, TypeCorrect, PTL DEF Spec

LEMMA SettledAtEnd ==
  ASSUME TypeOK, CloseInv, EndInv, SettledInv, resultClosed, ~ctxDone,
         NEW h \in Hits, Wanted(h)
  PROVE  Reported(h)
<1>1. \A w \in Worker : pc[w] = "exited"
  BY DEF CloseInv
<1>2. taken = NumRecords
  BY <1>1, PoolAssumption DEF EndInv
<1>3. h[1] <= taken
  BY <1>2, InputAssumption DEF Hits, Record
<1> QED
  BY <1>1, <1>3 DEF SettledInv, Settled

(* When the range loop of outputResults ends and nobody cancelled, every   *)
(* wanted match has been received, itself or under its key: what one       *)
(* worker drops as a duplicate, another one reports.                       *)
THEOREM CompleteHolds == ASSUME FilterByKey PROVE Spec => []CompleteWhenClosed
<1>1. TypeOK /\ CloseInv /\ EndInv /\ SettledInv => CompleteWhenClosed
  <2> SUFFICES ASSUME TypeOK, CloseInv, EndInv, SettledInv, consumer = "exited",
                      ~ctxDone, NEW h \in Hits, Wanted(h)
               PROVE  IF ByKey THEN KeyOf[h] \in EmittedKeys ELSE h \in Emitted
    BY DEF CompleteWhenClosed
  <2>1. Reported(h)
    BY SettledAtEnd DEF EndInv
  <2>2. Emitted = {emitted[i] : i \in 1 .. Len(emitted)}
    BY DEF Emitted, TypeOK
  <2> QED
    BY <2>1, <2>2 DEF Reported, EmittedKeys
<1> QED
  BY <1>1, SettledHolds, EndHolds, CloseHolds, TypeCorrect, PTL

-----------------------------------------------------------------------------
(* The safety part of ImplementsReport. *)

(* Every result on its way has passed the filters and is new. *)
WantedInv ==
  /\ KnownKeys \subseteq dbHits
  /\ \A w \in Worker :
       /\ pc[w] \in {"isdup", "mark"} => GlobalDedupe
       /\ GlobalDedupe /\ pc[w] \in {"mark", "filter", "send"} =>
            KeyOf[<<rec[w], idx[w]>>] \notin KnownKeys
       /\ pc[w] = "send" => Passes(<<rec[w], idx[w]>>)
  /\ \A i \in 1 .. Len(emitted) : Wanted(emitted[i])

LEMMA WantedStep ==
  ASSUME TypeOK, WantedInv, [Next]_vars
  PROVE  WantedInv'
<1> USE DEF Passes, Wanted
<1>1. ASSUME UNCHANGED <<workVars, dbHits, emitted>> PROVE WantedInv'
  BY <1>1 DEF WantedInv, workVars
<1>2. CASE CancelCtx \/ Producing \/ Consuming \/ UNCHANGED vars
  BY <1>1, <1>2 DEF CancelCtx, Producing, Consuming, SendRecord, AbortFeed,
     CloseRecords, CloseResults, ReadResult, ExitConsumer, vars, storeVars, outVars
<1>3. ASSUME NEW w \in Worker, Working(w) PROVE WantedInv'
  <2>1. CASE SendResult(w)
    <3>1. /\ pc[w] = "send" /\ Hit(w) \in Hits
          /\ emitted' = Append(emitted, Hit(w))
          /\ pc'[w] = "scan"
          /\ \A v \in Worker : v # w => pc'[v] = pc[v] /\ idx'[v] = idx[v]
          /\ UNCHANGED <<rec, dbHits>>
      BY <2>1 DEF SendResult, NextMatch, storeVars, TypeOK, Hit
    <3>2. /\ Len(emitted) \in Nat
          /\ Len(emitted') = Len(emitted) + 1
          /\ \A i \in 1 .. Len(emitted) : emitted'[i] = emitted[i]
          /\ emitted'[Len(emitted) + 1] = <<rec[w], idx[w]>>
      BY <3>1, AppendIs DEF TypeOK, Hit
    <3>3. \A i \in 1 .. Len(emitted') : i \in 1 .. Len(emitted) \/ i = Len(emitted) + 1
      BY <3>2
    <3>4. Wanted(<<rec[w], idx[w]>>)
      BY <3>1 DEF WantedInv
    <3>5. \A i \in 1 .. Len(emitted') : Wanted(emitted'[i])
      BY <3>2, <3>3, <3>4 DEF WantedInv
    <3> QED
      BY <3>1, <3>5 DEF WantedInv
  <2>2. ASSUME UNCHANGED emitted, dbHits \subseteq dbHits',
               pc'[w] \in Busy \cup {"recv", "exited"},
               \A v \in Worker : v # w =>
                 pc'[v] = pc[v] /\ rec'[v] = rec[v] /\ idx'[v] = idx[v],
               pc'[w] \in InHandle => rec'[w] = rec[w] /\ idx'[w] = idx[w],
               pc'[w] \in {"isdup", "mark"} => GlobalDedupe,
               GlobalDedupe /\ pc'[w] \in {"mark", "filter", "send"} =>
                 KeyOf[<<rec[w], idx[w]>>] \notin KnownKeys,
               pc'[w] = "send" => Passes(<<rec[w], idx[w]>>)
        PROVE  WantedInv'
    BY <2>2 DEF WantedInv
  <2>3. CASE ReceiveRecord(w) \/ ExitWorker(w) \/ FinishRecord(w)
    BY <2>2, <2>3 DEF ReceiveRecord, ExitWorker, FinishRecord, Goto, storeVars,
       outVars, TypeOK
  <2>4. CASE CheckUnique(w)
    BY <2>2, <2>4 DEF CheckUnique, AfterUnique, Goto, NextMatch, outVars, TypeOK
  <2>5. CASE CheckGlobal(w)
    BY <2>2, <2>5 DEF CheckGlobal, Goto, NextMatch, storeVars, outVars, TypeOK,
       WantedInv, Key, Hit
  <2>6. CASE MarkHit(w)
    BY <2>2, <2>6 DEF MarkHit, Goto, outVars, TypeOK, WantedInv
  <2>7. CASE Filter(w)
    BY <2>2, <2>7 DEF Filter, Goto, NextMatch, outVars, TypeOK, WantedInv, Hit
  <2>8. CASE AbandonResult(w)
    BY <2>2, <2>8 DEF AbandonResult, NextMatch, storeVars, outVars, TypeOK
  <2>9. CASE SendOnClosed(w)
    BY <1>1, <2>9 DEF SendOnClosed, storeVars, outVars
  <2> QED
    BY <1>3, <2>1, <2>3, <2>4, <2>5, <2>6, <2>7, <2>8, <2>9 DEF Working
<1> QED
  BY <1>2, <1>3 DEF Next, Over

LEMMA WantedHolds == Spec => []WantedInv
<1>1. Init => WantedInv
  BY DEF Init, WantedInv
<1> QED
  BY <1>1, WantedStep, TypeCorrect, PTL DEF Spec

(* The beginning of a history that has been read. *)
LEMMA BeginningIs ==
  ASSUME NEW s \in Seq(Hits), NEW n \in 0 .. Len(s)
  PROVE  /\ SubSeq(s, 1, n) \in Seq(Hits)
         /\ Len(SubSeq(s, 1, n)) = n
         /\ \A i \in 1 .. n : SubSeq(s, 1, n)[i] = s[i]
BY SubSeqProperties

LEMMA BeginningStays ==
  ASSUME NEW s \in Seq(Hits), NEW h \in Hits, NEW n \in 0 .. Len(s)
  PROVE  SubSeq(Append(s, h), 1, n) = SubSeq(s, 1, n)
<1>1. /\ Append(s, h) \in Seq(Hits) /\ n \in 0 .. Len(Append(s, h))
      /\ \A i \in 1 .. n : Append(s, h)[i] = s[i]
  BY AppendProperties
<1> QED
  BY <1>1, BeginningIs, SeqEqual

LEMMA BeginningGrows ==
  ASSUME NEW s \in Seq(Hits), NEW n \in Nat, n < Len(s)
  PROVE  SubSeq(s, 1, n + 1) = Append(SubSeq(s, 1, n), s[n + 1])
<1>1. /\ n \in 0 .. Len(s) /\ n + 1 \in 0 .. Len(s) /\ s[n + 1] \in Hits
  OBVIOUS
<1>2. /\ SubSeq(s, 1, n) \in Seq(Hits) /\ Len(SubSeq(s, 1, n)) = n
      /\ \A i \in 1 .. n : SubSeq(s, 1, n)[i] = s[i]
  BY <1>1, BeginningIs
<1>3. /\ SubSeq(s, 1, n + 1) \in Seq(Hits) /\ Len(SubSeq(s, 1, n + 1)) = n + 1
      /\ \A i \in 1 .. n + 1 : SubSeq(s, 1, n + 1)[i] = s[i]
  BY <1>1, BeginningIs
<1>4. /\ Append(SubSeq(s, 1, n), s[n + 1]) \in Seq(Hits)
      /\ Len(Append(SubSeq(s, 1, n), s[n + 1])) = n + 1
      /\ \A i \in 1 .. n + 1 : Append(SubSeq(s, 1, n), s[n + 1])[i] = s[i]
  BY <1>1, <1>2, AppendProperties
<1> QED
  BY <1>3, <1>4, SeqEqual

(* The caller's view. *)
view == <<SubSeq(emitted, 1, read), ctxDone, (consumer = "exited" \/ panicked)>>

LEMMA ViewIs == Report!vars = view
BY DEF Report!vars, view

(* A result received: wanted, and not received before. *)
LEMMA ReadIsReceive ==
  ASSUME TypeOK, WantedInv, AtMostOnce, ~panicked, ReadResult
  PROVE  \E h \in {g \in Hits : Wanted(g)} : Report!Receive(h)
<1> DEFINE h == emitted[read + 1]
<1>1. /\ emitted \in Seq(Hits) /\ read \in Nat /\ read < Len(emitted)
      /\ Len(emitted) \in Nat /\ DOMAIN emitted = 1 .. Len(emitted)
      /\ read + 1 \in 1 .. Len(emitted) /\ read \in 0 .. Len(emitted)
  BY DEF ReadResult, TypeOK
<1>2. /\ read' = read + 1 /\ consumer = "reading"
      /\ UNCHANGED <<emitted, ctxDone, consumer, panicked>>
  BY DEF ReadResult
<1>3. h \in Hits /\ Wanted(h)
  BY <1>1 DEF WantedInv
<1>4. /\ DOMAIN SubSeq(emitted, 1, read) = 1 .. read
      /\ \A i \in 1 .. read : SubSeq(emitted, 1, read)[i] = emitted[i]
  BY <1>1, BeginningIs
<1>5. Report!Reported = {emitted[i] : i \in 1 .. read}
  BY <1>4 DEF Report!Reported
<1>6. \A i \in 1 .. read : i \in DOMAIN emitted /\ i # read + 1
  BY <1>1
<1>7. h \notin Report!Reported
  BY <1>1, <1>5, <1>6 DEF AtMostOnce
<1>8. Unique => \A g \in Report!Reported : KeyOf[g] # KeyOf[h]
  BY <1>1, <1>5, <1>6 DEF AtMostOnce
<1>9. SubSeq(emitted, 1, read)' = Append(SubSeq(emitted, 1, read), h)
  BY <1>1, <1>2, BeginningGrows
<1>10. Report!Receive(h)
  BY <1>2, <1>7, <1>8, <1>9 DEF Report!Receive
<1> QED
  BY <1>3, <1>10

(* The end of the range loop: every wanted match has been received. *)
LEMMA ExitIsFinish ==
  ASSUME TypeOK, CloseInv, EndInv, SettledInv, ~panicked, ExitConsumer
  PROVE  Report!Finish
<1>1. /\ consumer = "reading" /\ read = Len(emitted) /\ resultClosed
      /\ consumer' = "exited" /\ UNCHANGED <<emitted, read, ctxDone, panicked>>
  BY DEF ExitConsumer
<1>2. /\ emitted \in Seq(Hits) /\ Len(emitted) \in Nat /\ read \in 0 .. Len(emitted)
  BY DEF TypeOK
<1>3. Report!Reported = {emitted[i] : i \in 1 .. Len(emitted)}
  <2>1. /\ DOMAIN SubSeq(emitted, 1, read) = 1 .. read
        /\ \A i \in 1 .. read : SubSeq(emitted, 1, read)[i] = emitted[i]
    BY <1>2, BeginningIs
  <2> QED
    BY <1>1, <2>1 DEF Report!Reported
<1>4. ASSUME ~ctxDone, NEW h \in Hits, Wanted(h)
      PROVE  \E g \in Report!Reported : Report!Covers(g, h)
  <2>1. PICK i \in 1 .. Len(emitted) :
          IF ByKey THEN KeyOf[emitted[i]] = KeyOf[h] ELSE emitted[i] = h
    BY <1>1, <1>4, SettledAtEnd DEF Reported
  <2>2. emitted[i] \in Report!Reported
    BY <1>3
  <2> QED
    BY <2>1, <2>2 DEF Report!Covers
<1> QED
  BY <1>1, <1>4 DEF Report!Finish

(* The steps the caller sees nothing of. *)
LEMMA HiddenStep ==
  ASSUME TypeOK, CloseInv, ~panicked,
         Producing \/ \E w \in Worker : Working(w) /\ ~SendOnClosed(w)
  PROVE  UNCHANGED view
<1>1. CASE Producing
  <2>1. UNCHANGED <<ctxDone, emitted, read, consumer, panicked>>
    BY <1>1 DEF Producing, SendRecord, AbortFeed, CloseRecords, CloseResults, outVars
  <2> QED
    BY <2>1 DEF view
<1>2. ASSUME NEW w \in Worker, SendResult(w) PROVE UNCHANGED view
  <2>1. /\ emitted' = Append(emitted, Hit(w)) /\ Hit(w) \in Hits
        /\ UNCHANGED <<read, ctxDone, consumer, panicked>>
    BY <1>2 DEF SendResult, TypeOK, Hit
  <2>2. SubSeq(emitted, 1, read)' = SubSeq(emitted, 1, read)
    BY <2>1, BeginningStays DEF TypeOK
  <2> QED
    BY <2>1, <2>2 DEF view
<1>3. ASSUME NEW w \in Worker, UNCHANGED <<ctxDone, outVars, panicked>>
      PROVE  UNCHANGED view
  BY <1>3 DEF view, outVars
<1>4. ASSUME NEW w \in Worker, Working(w), ~SendOnClosed(w), ~SendResult(w)
      PROVE  UNCHANGED view
  BY <1>3, <1>4 DEF Working, ReceiveRecord, ExitWorker, FinishRecord, CheckUnique,
     CheckGlobal, MarkHit, Filter, AbandonResult
<1> QED
  BY <1>1, <1>2, <1>4

(* The goroutines and channels of RunScan implement, as its caller sees    *)
(* them, every step that HitReport allows and no other.                    *)
THEOREM ImplementsReportSafely ==
  ASSUME FilterByKey
  PROVE  Spec => Report!Init /\ [][Report!Next]_(Report!vars)
<1>1. Init => Report!Init
  <2> SUFFICES ASSUME Init PROVE Report!Init
    OBVIOUS
  <2>1. SubSeq(emitted, 1, read) = <<>>
    BY SubSeqEmpty DEF Init
  <2> QED
    BY <2>1 DEF Init, Report!Init
<1>2. /\ TypeOK /\ CloseInv /\ EndInv /\ SettledInv /\ WantedInv /\ AtMostOnce
      /\ CloseInv' /\ [Next]_vars
      => [Report!Next]_(Report!vars)
  <2> SUFFICES ASSUME TypeOK, CloseInv, EndInv, SettledInv, WantedInv, AtMostOnce,
                      CloseInv', [Next]_vars
               PROVE  [Report!Next]_(Report!vars)
    OBVIOUS
  <2>1. CASE UNCHANGED vars
    BY <2>1, ViewIs DEF vars, outVars, Report!vars
  <2>2. CASE ~panicked /\ CancelCtx
    BY <2>2, ViewIs DEF CancelCtx, outVars, Report!Next, Report!Cancel
  <2>3. CASE ~panicked /\ ReadResult
    BY <2>3, ReadIsReceive DEF Report!Next, Report!Progress
  <2>4. CASE ~panicked /\ ExitConsumer
    BY <2>4, ExitIsFinish DEF Report!Next, Report!Progress
  <2>5. ASSUME NEW w \in Worker, ~panicked, SendOnClosed(w)
        PROVE  [Report!Next]_(Report!vars)
    <3>1. /\ panicked' /\ ctxDone' /\ UNCHANGED <<ctxDone, emitted, read, consumer>>
      BY <2>5 DEF SendOnClosed, CloseInv, outVars
    <3>2. CASE consumer = "exited"
      BY <3>1, <3>2 DEF Report!vars
    <3>3. CASE consumer # "exited"
      BY <2>5, <3>1, <3>3 DEF Report!Next, Report!Progress, Report!Finish
    <3> QED
      BY <3>2, <3>3
  <2>6. CASE /\ ~panicked
             /\ Producing \/ \E w \in Worker : Working(w) /\ ~SendOnClosed(w)
    BY <2>6, HiddenStep, ViewIs DEF view, Report!vars
  <2> QED
    BY <2>1, <2>2, <2>3, <2>4, <2>5, <2>6 DEF Next, Consuming, Over
<1>3. Spec => []AtMostOnce
  BY AtMostOnceHolds
<1> QED
  BY <1>1, <1>2, <1>3, SettledHolds, EndHolds, CloseHolds, WantedHolds, TypeCorrect,
     PTL DEF Spec
=============================================================================
