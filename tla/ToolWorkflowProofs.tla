------------------------- MODULE ToolWorkflowProofs -------------------------
(***************************************************************************)
(* For any number of goroutines, matches, tools and slots: processSem      *)
(* bounds the tools that run and loses no slot, a command gets its         *)
(* placeholder from its own match, and a result is sent with the outputs   *)
(* of all its tools.                                                       *)
(***************************************************************************)
EXTENDS ToolWorkflow, FiniteSetTheorems, SequenceTheorems, WellFoundedInduction, TLAPS

-----------------------------------------------------------------------------
(* Every non-empty set of naturals has a least member. *)
LEMMA LeastNat ==
  ASSUME NEW S \in SUBSET Nat, S # {}
  PROVE  \E m \in S : \A k \in S : m <= k
<1>1. PICK m \in S : \A k \in S : <<k, m>> \notin OpToRel(<, Nat)
  BY WFMin, NatLessThanWellFounded, Zenon
<1>2. \A k \in S : ~(k < m)
  BY <1>1, Zenon DEF OpToRel
<1> QED
  BY <1>2

(* Induction over the naturals, for a set. *)
LEMMA NatInd ==
  ASSUME NEW S, 0 \in S, \A n \in Nat : n \in S => n + 1 \in S
  PROVE  Nat \subseteq S
<1> DEFINE T == Nat \ S
<1> SUFFICES ASSUME T # {} PROVE FALSE
  OBVIOUS
<1>1. PICK m \in T : \A k \in T : m <= k
  BY LeastNat
<1> QED
  BY <1>1

LEMMA FlattenIsSeq ==
  ASSUME NEW S, NEW seqs \in Seq(Seq(S))
  PROVE  FlattenSeq(seqs) \in Seq(S)
<1> DEFINE N == Len(seqs)
           IsStart(g, m) == /\ g \in [1 .. m -> Seq(S)]
                            /\ \A i \in 1 .. m : g[i] = IF i = 1 THEN seqs[i] ELSE g[i - 1] \o seqs[i]
           Built == {m \in Nat : m <= N => \E g : IsStart(g, m)}
<1>0. N \in Nat /\ \A i \in 1 .. N : seqs[i] \in Seq(S)
  OBVIOUS
<1>1. 0 \in Built
  <2> DEFINE g == [i \in 1 .. 0 |-> <<>>]
  <2>1. IsStart(g, 0)
    OBVIOUS
  <2> QED
    BY <2>1
<1>2. ASSUME NEW m \in Nat, m \in Built PROVE m + 1 \in Built
  <2> SUFFICES ASSUME m + 1 <= N PROVE \E g : IsStart(g, m + 1)
    <3> HIDE DEF IsStart, N
    <3> QED
      OBVIOUS
  <2>1. PICK g : IsStart(g, m)
    <3> HIDE DEF IsStart, N
    <3> QED
      BY <1>0, <1>2
  <2> DEFINE x == IF m + 1 = 1 THEN seqs[m + 1] ELSE g[m] \o seqs[m + 1]
             h == [i \in 1 .. m + 1 |-> IF i = m + 1 THEN x ELSE g[i]]
  <2>2. seqs[m + 1] \in Seq(S)
    BY <1>0
  <2>3. x \in Seq(S)
    <3>1. CASE m = 0
      BY <2>2, <3>1
    <3>2. CASE m # 0
      <4>1. m \in 1 .. m
        BY <3>2
      <4>2. g[m] \in Seq(S)
        BY <2>1, <4>1
      <4> QED
        BY <2>2, <3>2, <4>2
    <3> QED
      BY <3>1, <3>2
  <2>4. h \in [1 .. m + 1 -> Seq(S)]
    <3>1. \A i \in 1 .. m + 1 : i = m + 1 \/ i \in 1 .. m
      OBVIOUS
    <3> HIDE DEF x
    <3> QED
      BY <2>1, <2>3, <3>1
  <2>5. ASSUME NEW i \in 1 .. m + 1
        PROVE  h[i] = IF i = 1 THEN seqs[i] ELSE h[i - 1] \o seqs[i]
    <3>1. CASE i = m + 1
      <4>1. h[i] = x
        BY <3>1
      <4>2. i # 1 => h[i - 1] = g[m]
        BY <3>1
      <4> QED
        BY <3>1, <4>1, <4>2
    <3>2. CASE i # m + 1
      <4>1. i \in 1 .. m /\ (i # 1 => i - 1 \in 1 .. m)
        BY <3>2
      <4>2. h[i] = g[i] /\ (i # 1 => h[i - 1] = g[i - 1])
        BY <4>1
      <4>3. g[i] = IF i = 1 THEN seqs[i] ELSE g[i - 1] \o seqs[i]
        BY <2>1, <4>1
      <4> QED
        BY <4>2, <4>3
    <3> QED
      BY <3>1, <3>2
  <2>6. IsStart(h, m + 1)
    <3> HIDE DEF h
    <3> QED
      BY <2>4, <2>5
  <2> QED
    BY <2>6
<1>3. PICK g : IsStart(g, N)
  <2>1. Nat \subseteq Built
    <3> HIDE DEF Built
    <3> QED
      BY <1>1, <1>2, NatInd
  <2>2. N \in Built
    <3> HIDE DEF Built, N
    <3> QED
      BY <1>0, <2>1
  <2> HIDE DEF IsStart, N
  <2> QED
    BY <2>2
<1> DEFINE Eq(f) == f = [i \in 1 .. N |-> IF i = 1 THEN seqs[i] ELSE f[i - 1] \o seqs[i]]
           fl == CHOOSE f : Eq(f)
<1>4. Eq(g)
  BY <1>3
<1>5. Eq(fl)
  BY <1>4
<1>6. \A i \in 1 .. N : fl[i] = IF i = 1 THEN seqs[i] ELSE fl[i - 1] \o seqs[i]
  <2> HIDE DEF fl
  <2> QED
    BY <1>5
<1> HIDE DEF fl
<1>7. \A i \in 1 .. N : fl[i] \in Seq(S)
  <2> DEFINE T == {i \in Nat : i \in 1 .. N => fl[i] \in Seq(S)}
  <2>1. 0 \in T
    OBVIOUS
  <2>2. ASSUME NEW n \in Nat, n \in T PROVE n + 1 \in T
    <3> SUFFICES ASSUME n + 1 \in 1 .. N PROVE fl[n + 1] \in Seq(S)
      OBVIOUS
    <3>1. CASE n = 0
      BY <1>0, <1>6, <3>1
    <3>2. CASE n # 0
      <4>1. n \in 1 .. N
        BY <3>2
      <4>2. fl[n] \in Seq(S)
        BY <2>2, <4>1
      <4>3. fl[n + 1] = fl[n] \o seqs[n + 1] /\ seqs[n + 1] \in Seq(S)
        <5>1. n + 1 \in 1 .. N /\ n + 1 # 1 /\ (n + 1) - 1 = n
          BY <3>2
        <5> QED
          BY <1>0, <1>6, <5>1
      <4> QED
        BY <4>2, <4>3
    <3> QED
      BY <3>1, <3>2
  <2>3. Nat \subseteq T
    <3> HIDE DEF T
    <3> QED
      BY <2>1, <2>2, NatInd
  <2> QED
    BY <2>3
<1>8. N # 0 => FlattenSeq(seqs) = fl[N]
  BY DEF FlattenSeq, fl
<1>9. CASE N = 0
  <2>1. seqs = <<>> /\ <<>> \in Seq(S)
    BY <1>9
  <2>2. FlattenSeq(seqs) = seqs
    BY <1>9 DEF FlattenSeq
  <2> QED
    BY <2>1, <2>2
<1> QED
  BY <1>0, <1>7, <1>8, <1>9

-----------------------------------------------------------------------------
(* The slots of processSem. *)

Steps == {"idle", "slot", "execute", "command", "hung", "send", "end"}

SlotInv ==
  /\ step \in [Worker -> Steps]
  /\ sem \in Nat
  /\ SlotPerTool

(* The goroutines in Execute are finitely many. *)
LEMMA ExecuteFinite == IsFiniteSet(InExecute)
BY WorkerAssumption, FS_Subset DEF InExecute

(* A step that takes no slot and gives none back keeps the same goroutines *)
(* in Execute.                                                             *)
LEMMA OutsideKeepsSlots ==
  ASSUME SlotInv, NEW w \in Worker, NEW to \in Steps,
         step[w] \in {"execute", "command", "hung"} <=> to \in {"execute", "command", "hung"},
         step' = [step EXCEPT ![w] = to], sem' = sem
  PROVE  SlotInv'
<1>1. step' \in [Worker -> Steps]
  BY DEF SlotInv
<1>2. InExecute' = InExecute
  BY DEF SlotInv, InExecute
<1> QED
  BY <1>1, <1>2 DEF SlotInv, SlotPerTool

(* AcquireSlot adds one goroutine to those in Execute. *)
LEMMA AcquireKeepsSlots ==
  ASSUME SlotInv, NEW w \in Worker, AcquireSlot(w)
  PROVE  SlotInv'
<1>1. step' = [step EXCEPT ![w] = "execute"] /\ sem' = sem + 1 /\ sem < MaxProc
  BY DEF AcquireSlot
<1>2. w \notin InExecute
  BY DEF AcquireSlot, InExecute
<1>3. InExecute' = InExecute \cup {w}
  BY <1>1 DEF SlotInv, InExecute
<1>4. Cardinality(InExecute') = Cardinality(InExecute) + 1
  BY <1>2, <1>3, ExecuteFinite, FS_AddElement
<1>5. step' \in [Worker -> Steps]
  BY <1>1 DEF SlotInv, Steps
<1> QED
  BY <1>1, <1>4, <1>5, LimitAssumption DEF SlotInv, SlotPerTool

(* Whatever the tool printed, Return takes one goroutine out of them. *)
LEMMA ReturnKeepsSlots ==
  ASSUME SlotInv, NEW w \in Worker, NEW v, step[w] \in {"execute", "command"},
         Return(w, v)
  PROVE  SlotInv'
<1>1. step' = [step EXCEPT ![w] = "slot"] /\ sem' = sem - 1
  BY DEF Return
<1>2. w \in InExecute
  BY DEF InExecute
<1>3. InExecute' = InExecute \ {w}
  BY <1>1 DEF SlotInv, InExecute
<1>4. Cardinality(InExecute') = Cardinality(InExecute) - 1
  BY <1>2, <1>3, ExecuteFinite, FS_RemoveElement
<1>5. Cardinality(InExecute') \in Nat
  BY <1>3, ExecuteFinite, FS_RemoveElement, FS_CardinalityType
<1>6. step' \in [Worker -> Steps]
  BY <1>1 DEF SlotInv, Steps
<1> QED
  BY <1>1, <1>4, <1>5, <1>6, LimitAssumption DEF SlotInv, SlotPerTool

LEMMA SlotInvHolds == Spec => []SlotInv
<1>1. Init => SlotInv
  <2> SUFFICES ASSUME Init PROVE SlotInv
    OBVIOUS
  <2>1. InExecute = {}
    BY DEF Init, InExecute
  <2>2. Cardinality(InExecute) = 0
    BY <2>1, FS_EmptySet
  <2> QED
    BY <2>2, LimitAssumption DEF Init, SlotInv, SlotPerTool, Steps
<1>2. SlotInv /\ [Next]_vars => SlotInv'
  <2> SUFFICES ASSUME SlotInv, [Next]_vars PROVE SlotInv'
    OBVIOUS
  <2>1. ASSUME NEW w \in Worker, Loop(w) PROVE SlotInv'
    <3>1. CASE TakeHit(w)
      BY <3>1, OutsideKeepsSlots DEF TakeHit, Steps
    <3>2. CASE FinishLoop(w)
      BY <3>2, OutsideKeepsSlots DEF FinishLoop, Steps
    <3>3. CASE ToolsDone(w)
      BY <3>3, OutsideKeepsSlots DEF ToolsDone, Steps
    <3>4. CASE SendResult(w)
      BY <3>4, OutsideKeepsSlots DEF SendResult, Steps
    <3>5. CASE AbandonResult(w)
      BY <3>5, OutsideKeepsSlots DEF AbandonResult, Steps
    <3> QED
      BY <2>1, <3>1, <3>2, <3>3, <3>4, <3>5 DEF Loop
  <2>2. ASSUME NEW w \in Worker, AcquireSlot(w) PROVE SlotInv'
    BY <2>2, AcquireKeepsSlots
  <2>3. ASSUME NEW w \in Worker, Execute(w) PROVE SlotInv'
    <3>1. CASE SkipCommand(w)
      BY <3>1, ReturnKeepsSlots DEF SkipCommand
    <3>2. CASE StartCommand(w)
      BY <3>2, OutsideKeepsSlots DEF StartCommand, Steps
    <3> QED
      BY <2>3, <3>1, <3>2 DEF Execute
  <2>4. ASSUME NEW w \in Worker, EndCommand(w) PROVE SlotInv'
    <3>1. CASE CommandPrints(w) \/ CommandFails(w)
      BY <3>1, ReturnKeepsSlots DEF CommandPrints, CommandFails
    <3>2. CASE CommandHangs(w)
      BY <3>2, OutsideKeepsSlots DEF CommandHangs, Steps
    <3> QED
      BY <2>4, <3>1, <3>2 DEF EndCommand
  <2>5. CASE CancelCtx
    BY <2>5 DEF CancelCtx, taskVars, SlotInv, SlotPerTool, InExecute
  <2>6. CASE UNCHANGED vars
    BY <2>6 DEF vars, taskVars, SlotInv, SlotPerTool, InExecute
  <2> QED
    BY <2>1, <2>2, <2>3, <2>4, <2>5, <2>6 DEF Next, Done
<1> QED
  BY <1>1, <1>2, PTL DEF Spec

(* At most MaxProc tools run at any time, and the slots taken are those of *)
(* the tools that run: executeToolWithLimit returns its slot on every path *)
(* out of Execute.                                                         *)
THEOREM SlotsHold == Spec => []SlotPerTool
<1>1. SlotInv => SlotPerTool
  BY DEF SlotInv
<1> QED
  BY <1>1, SlotInvHolds, PTL

-----------------------------------------------------------------------------
(* What the workflow gives a result: types first. *)

(* The tools of the workflow are a sequence of installed tools, whatever   *)
(* IDs --workflow names.                                                   *)
LEMMA ActiveIsSeq ==
  /\ ActiveTools \in Seq(Tool)
  /\ Len(ActiveTools) \in Nat /\ Position = 1 .. Len(ActiveTools)
<1> DEFINE one(i, k) == IF Tools[k].id = ToolIDs[i] THEN <<Tools[k]>> ELSE <<>>
           ofID(i) == [k \in DOMAIN Tools |-> one(i, k)]
<1>1. \A i, k : k \in DOMAIN Tools => one(i, k) \in Seq(Tool)
  BY ToolAssumption
<1>2. ASSUME NEW i PROVE FlattenSeq(ofID(i)) \in Seq(Tool)
  <2>1. ofID(i) \in Seq(Seq(Tool))
    <3> HIDE DEF one
    <3> QED
      BY <1>1, ToolAssumption
  <2> HIDE DEF ofID
  <2> QED
    BY <2>1, FlattenIsSeq
<1> DEFINE flat(i) == FlattenSeq(ofID(i))
<1>3. [i \in DOMAIN ToolIDs |-> flat(i)] \in Seq(Seq(Tool))
  <2>1. \A i : flat(i) \in Seq(Tool)
    BY <1>2
  <2>2. Len(ToolIDs) \in Nat /\ DOMAIN ToolIDs = 1 .. Len(ToolIDs)
    BY ToolAssumption
  <2> HIDE DEF flat
  <2> QED
    BY <2>1, <2>2
<1>4. FlattenSeq([i \in DOMAIN ToolIDs |-> flat(i)]) \in Seq(Tool)
  <2> HIDE DEF flat
  <2> QED
    BY <1>3, FlattenIsSeq
<1> QED
  BY <1>4 DEF ActiveTools, Position

IDs == {t.id : t \in Tool} \cup {NoRef}
Value == [hit: 0 .. NumHits, tool: IDs, run: Outcome]
RealValue == {v \in Value : v.run \in {"now", "before"} /\ v.hit \in Hit}
ToolOutput == {Output(i, v) : i \in Position, v \in RealValue}

Types ==
  /\ mode \in {"scan", "process"} /\ cancelled \in BOOLEAN
  /\ next \in 1 .. NumHits + 1
  /\ step \in [Worker -> Steps]
  /\ hit \in [Worker -> 0 .. NumHits]
  /\ pos \in [Worker -> 1 .. Len(ActiveTools) + 1]
  /\ saved \in [Hit -> Seq(ToolOutput)]
  /\ data \in [Worker -> Seq(ToolOutput)]
  /\ given \in [Hit -> [Position -> Value]] /\ gave \in [Hit -> [Position -> Value]]
  /\ DOMAIN sent \subseteq Hit /\ sent \in [DOMAIN sent -> Seq(ToolOutput)]

(* A goroutine with a match works on one that has been taken, alone.       *)
Busy(w) == step[w] \notin {"idle", "end"}
HitsInv ==
  /\ \A w \in Worker : Busy(w) => hit[w] \in Hit /\ hit[w] < next
  /\ \A v, w \in Worker : Busy(v) /\ Busy(w) /\ hit[v] = hit[w] => v = w
  /\ \A h \in DOMAIN sent : h < next /\ \A w \in Worker : Busy(w) => hit[w] # h
  /\ \A h \in Hit, i \in Position : h >= next => gave[h][i] = Pending /\ given[h][i] = Pending

(* It has the outputs of the tools in front of pos, which have all ended,  *)
(* and has given the others nothing.                                       *)
ToolsInv ==
  \A w \in Worker : Busy(w) =>
    /\ HasOutputs(data[w], saved[hit[w]], gave[hit[w]], pos[w] - 1)
    /\ step[w] \in {"execute", "command", "hung"} => pos[w] \in Position
    /\ step[w] = "send" => pos[w] = Len(ActiveTools) + 1
    /\ \A i \in Position : i < pos[w] <=> gave[hit[w]][i] # Pending
    /\ \A i \in Position :
         i > pos[w] \/ (i = pos[w] /\ step[w] \in {"slot", "execute"}) =>
           given[hit[w]][i] = Pending

(* What a result came with, and what its tools printed, is its own. *)
OwnInv ==
  /\ \A h \in Hit : saved[h] = <<>> \/ (Position # {} /\ saved[h] = Earlier(h))
  /\ \A h \in Hit, i \in Position : gave[h][i] \in {Pending, Nothing, Printed(h, i, "now")}

OutputInv ==
  Types /\ HitsInv /\ ToolsInv /\ OwnInv /\ FilledFromOwnMatch /\ SentWithOutputs

LEMMA Distinct ==
  /\ Pending # Nothing /\ Pending # Raw /\ Nothing # Raw
  /\ \A h, i, run : Printed(h, i, run).hit = h /\ Printed(h, i, run).run = run
  /\ \A h, i, run : run \in {"now", "before"} =>
       Printed(h, i, run) # Nothing /\ Printed(h, i, run) # Pending
  /\ {Pending, Nothing, Raw} \subseteq Value
BY LimitAssumption DEF Pending, Nothing, Raw, Printed, Value, IDs, Outcome

LEMMA PrintedIsValue ==
  ASSUME NEW h \in Hit, NEW i \in Position, NEW run \in {"now", "before"}
  PROVE  /\ Printed(h, i, run) \in RealValue /\ Printed(h, i, run) \in Value
         /\ \A j \in Position : Output(j, Printed(h, i, run)) \in ToolOutput
<1>1. ActiveTools[i] \in Tool
  BY ActiveIsSeq DEF Position
<1>2. Printed(h, i, run) \in Value
  BY <1>1, LimitAssumption DEF Printed, Value, IDs, Outcome, Hit
<1> QED
  BY <1>2 DEF RealValue, ToolOutput, Printed

LEMMA EarlierIsData ==
  ASSUME NEW h \in Hit, Position # {}
  PROVE  Earlier(h) \in Seq(ToolOutput)
<1>1. 1 \in Position
  BY ActiveIsSeq
<1> QED
  BY <1>1, PrintedIsValue DEF Earlier

(* The first index of an output of that name. *)
LEMMA LeastIsMin ==
  ASSUME NEW S \in SUBSET Nat, S # {}
  PROVE  Min(S) \in S /\ \A x \in S : Min(S) <= x
BY LeastNat DEF Min

LEMMA FillIsValue ==
  ASSUME NEW d \in Seq(ToolOutput), NEW ref
  PROVE  Fill(d, ref) \in Value
<1> DEFINE named == {k \in DOMAIN d : ref \in Names(d[k])}
<1>1. CASE named = {}
  BY <1>1, Distinct DEF Fill
<1>2. CASE named # {}
  <2>1. named \in SUBSET Nat
    OBVIOUS
  <2>2. Min(named) \in DOMAIN d
    BY <1>2, <2>1, LeastIsMin
  <2> DEFINE o == d[Min(named)]
  <2>3. o \in ToolOutput
    BY <2>2
  <2>4. o.value \in Value
    <3> HIDE DEF o
    <3> QED
      BY <2>3 DEF ToolOutput, Output, RealValue
  <2> QED
    BY <1>2, <2>4 DEF Fill
<1> QED
  BY <1>1, <1>2

-----------------------------------------------------------------------------
(* The list of outputs. *)

LEMMA OutputsStart ==
  ASSUME NEW S, NEW came \in Seq(S), NEW printed
  PROVE  HasOutputs(came, came, printed, 0)
<1> DEFINE at == [k \in 1 .. 0 |-> 0]
           list == [k \in DOMAIN at |-> Output(at[k], printed[at[k]])]
<1>1. at \in [1 .. 0 -> 1 .. 0] /\ DOMAIN at = {}
  OBVIOUS
<1>2. list = <<>>
  BY <1>1
<1>3. came = came \o list
  <2> HIDE DEF list
  <2> QED
    BY <1>2
<1>4. {at[k] : k \in DOMAIN at} = {i \in 1 .. 0 : printed[i] # Nothing}
  BY <1>1
<1>5. \A j, k \in DOMAIN at : j < k => at[j] < at[k]
  BY <1>1
<1>6. at \in UNION {[1 .. m -> 1 .. 0] : m \in 0 .. 0}
  BY <1>1
<1> HIDE DEF at
<1> QED
  BY <1>3, <1>4, <1>5, <1>6 DEF HasOutputs

(* It depends on the first n tools only. *)
LEMMA OutputsSame ==
  ASSUME NEW d, NEW came, NEW g, NEW printed, NEW n \in Nat, HasOutputs(d, came, g, n),
         \A i \in 1 .. n : printed[i] = g[i]
  PROVE  HasOutputs(d, came, printed, n)
<1>1. PICK at \in UNION {[1 .. m -> 1 .. n] : m \in 0 .. n} :
        /\ \A j, k \in DOMAIN at : j < k => at[j] < at[k]
        /\ {at[k] : k \in DOMAIN at} = {i \in 1 .. n : g[i] # Nothing}
        /\ d = came \o [k \in DOMAIN at |-> Output(at[k], g[at[k]])]
  BY DEF HasOutputs
<1>2. PICK m \in 0 .. n : at \in [1 .. m -> 1 .. n]
  OBVIOUS
<1>3. [k \in DOMAIN at |-> Output(at[k], g[at[k]])]
        = [k \in DOMAIN at |-> Output(at[k], printed[at[k]])]
  BY <1>2
<1>4. {i \in 1 .. n : g[i] # Nothing} = {i \in 1 .. n : printed[i] # Nothing}
  OBVIOUS
<1> QED
  BY <1>1, <1>3, <1>4 DEF HasOutputs

(* The next tool prints something, or it does not. *)
LEMMA OutputsGrow ==
  ASSUME NEW S, NEW d, NEW came \in Seq(S), NEW printed, NEW n \in Nat,
         HasOutputs(d, came, printed, n),
         \A i \in 1 .. n + 1 : printed[i] # Nothing => Output(i, printed[i]) \in S,
         printed[n + 1] # Nothing
  PROVE  HasOutputs(Append(d, Output(n + 1, printed[n + 1])), came, printed, n + 1)
<1>1. PICK at \in UNION {[1 .. m -> 1 .. n] : m \in 0 .. n} :
        /\ \A j, k \in DOMAIN at : j < k => at[j] < at[k]
        /\ {at[k] : k \in DOMAIN at} = {i \in 1 .. n : printed[i] # Nothing}
        /\ d = came \o [k \in DOMAIN at |-> Output(at[k], printed[at[k]])]
  BY DEF HasOutputs
<1>0. PICK m \in 0 .. n : at \in [1 .. m -> 1 .. n]
  OBVIOUS
<1> DEFINE new == [k \in 1 .. m + 1 |-> IF k = m + 1 THEN n + 1 ELSE at[k]]
           out(k) == Output(k, printed[k])
           list == [k \in 1 .. m |-> out(at[k])]
           longer == [k \in 1 .. m + 1 |-> out(new[k])]
<1>2. /\ new \in [1 .. m + 1 -> 1 .. n + 1] /\ m + 1 \in 0 .. n + 1
      /\ \A k \in 1 .. m : new[k] = at[k] /\ at[k] \in 1 .. n
      /\ new[m + 1] = n + 1 /\ DOMAIN new = 1 .. m + 1
  BY <1>0
<1>3. \A k \in 1 .. m + 1 : k \in 1 .. m \/ k = m + 1
  OBVIOUS
<1> HIDE DEF new
<1>4. \A j, k \in DOMAIN new : j < k => new[j] < new[k]
  <2> SUFFICES ASSUME NEW j \in 1 .. m + 1, NEW k \in 1 .. m + 1, j < k PROVE new[j] < new[k]
    BY <1>2
  <2>1. j \in 1 .. m
    OBVIOUS
  <2>2. CASE k \in 1 .. m
    <3>1. at[j] < at[k] /\ new[j] = at[j] /\ new[k] = at[k]
      BY <1>0, <1>1, <1>2, <2>1, <2>2
    <3> QED
      BY <3>1
  <2>3. CASE k = m + 1
    <3>1. new[j] \in 1 .. n /\ new[k] = n + 1
      BY <1>2, <2>1, <2>3
    <3> QED
      BY <3>1
  <2> QED
    BY <1>3, <2>2, <2>3
<1>5. {new[k] : k \in DOMAIN new} = {i \in 1 .. n + 1 : printed[i] # Nothing}
  <2>1. ASSUME NEW k \in 1 .. m + 1 PROVE new[k] \in 1 .. n + 1 /\ printed[new[k]] # Nothing
    <3>1. CASE k \in 1 .. m
      <4>1. at[k] \in {i \in 1 .. n : printed[i] # Nothing}
        BY <1>0, <1>1, <3>1
      <4> QED
        BY <1>2, <3>1, <4>1
    <3>2. CASE k = m + 1
      BY <1>2, <3>2
    <3> QED
      BY <1>3, <3>1, <3>2
  <2>2. ASSUME NEW i \in 1 .. n + 1, printed[i] # Nothing
        PROVE  \E k \in DOMAIN new : new[k] = i
    <3>1. CASE i = n + 1
      BY <1>2, <3>1
    <3>2. CASE i # n + 1
      <4>0. i \in 1 .. n
        BY <3>2
      <4>1. i \in {at[k] : k \in DOMAIN at}
        BY <1>1, <2>2, <4>0
      <4>2. PICK k \in 1 .. m : at[k] = i
        BY <1>0, <4>1
      <4> QED
        BY <1>2, <4>2
    <3> QED
      BY <3>1, <3>2
  <2> QED
    BY <1>2, <2>1, <2>2
<1>6. Append(d, out(n + 1)) = came \o longer
  <2>1. \A k \in 1 .. m : out(at[k]) \in S
    <3>1. \A k \in 1 .. m : at[k] \in {i \in 1 .. n : printed[i] # Nothing}
      BY <1>0, <1>1
    <3> QED
      BY <3>1
  <2>2. list \in Seq(S) /\ Len(list) = m /\ d = came \o list
    <3>1. d = came \o list
      BY <1>0, <1>1
    <3> DEFINE e(k) == out(at[k])
    <3>2. \A k \in 1 .. m : e(k) \in S
      BY <2>1
    <3>3. [k \in 1 .. m |-> e(k)] \in Seq(S) /\ Len([k \in 1 .. m |-> e(k)]) = m
      <4> HIDE DEF e
      <4> QED
        BY <1>0, <3>2
    <3> QED
      BY <3>1, <3>3
  <2>3. longer = Append(list, out(n + 1))
    <3> HIDE DEF out
    <3> QED
      BY <1>2
  <2>4. out(n + 1) \in S
    OBVIOUS
  <2> HIDE DEF list, longer, out
  <2> DEFINE x == out(n + 1)
  <2> HIDE DEF x
  <2>5. x \in S /\ longer = Append(list, x) /\ list \in Seq(S) /\ d = came \o list
    BY <2>2, <2>3, <2>4 DEF x
  <2>6. <<x>> \in Seq(S) /\ d \in Seq(S)
    BY <2>5, ConcatProperties
  <2>7. Append(d, x) = d \o <<x>> /\ longer = list \o <<x>>
    BY <2>5, <2>6, AppendIsConcat
  <2>8. (came \o list) \o <<x>> = came \o (list \o <<x>>)
    <3> DEFINE y == <<x>>
    <3>1. came \in Seq(S) /\ list \in Seq(S) /\ y \in Seq(S)
      BY <2>5, <2>6
    <3> HIDE DEF y
    <3> QED
      BY <3>1, ConcatAssociative
  <2>9. Append(d, x) = came \o longer
    BY <2>5, <2>7, <2>8
  <2> QED
    BY <2>9 DEF x
<1>7. new \in UNION {[1 .. k -> 1 .. n + 1] : k \in 0 .. n + 1}
  BY <1>2
<1>8. Append(d, Output(n + 1, printed[n + 1]))
        = came \o [k \in DOMAIN new |-> Output(new[k], printed[new[k]])]
  BY <1>2, <1>6
<1> QED
  BY <1>4, <1>5, <1>7, <1>8 DEF HasOutputs

LEMMA OutputsStay ==
  ASSUME NEW d, NEW came, NEW printed, NEW n \in Nat,
         HasOutputs(d, came, printed, n), printed[n + 1] = Nothing
  PROVE  HasOutputs(d, came, printed, n + 1)
<1>1. PICK at \in UNION {[1 .. m -> 1 .. n] : m \in 0 .. n} :
        /\ \A j, k \in DOMAIN at : j < k => at[j] < at[k]
        /\ {at[k] : k \in DOMAIN at} = {i \in 1 .. n : printed[i] # Nothing}
        /\ d = came \o [k \in DOMAIN at |-> Output(at[k], printed[at[k]])]
  BY DEF HasOutputs
<1>0. PICK m \in 0 .. n : at \in [1 .. m -> 1 .. n]
  OBVIOUS
<1>2. {i \in 1 .. n : printed[i] # Nothing} = {i \in 1 .. n + 1 : printed[i] # Nothing}
  OBVIOUS
<1>3. at \in [1 .. m -> 1 .. n + 1] /\ m \in 0 .. n + 1
  BY <1>0
<1>4. at \in UNION {[1 .. k -> 1 .. n + 1] : k \in 0 .. n + 1}
  BY <1>3
<1> QED
  BY <1>1, <1>2, <1>4 DEF HasOutputs

(* Execute takes the first output of that name, which is the one the       *)
(* result came with, or that of the first tool that printed it.            *)
LEMMA FirstOfName ==
  ASSUME Types, OwnInv, NEW h \in Hit, NEW i \in Position, NEW d, NEW ref,
         HasOutputs(d, saved[h], gave[h], i - 1)
  PROVE  Fill(d, ref) = Expected(h, ref, i)
<1> DEFINE named == {k \in DOMAIN d : ref \in Names(d[k])}
           L == Len(saved[h])
           n == i - 1
<1>1. PICK at \in UNION {[1 .. m -> 1 .. n] : m \in 0 .. n} :
        /\ \A j, k \in DOMAIN at : j < k => at[j] < at[k]
        /\ {at[k] : k \in DOMAIN at} = {j \in 1 .. n : gave[h][j] # Nothing}
        /\ d = saved[h] \o [k \in DOMAIN at |-> Output(at[k], gave[h][at[k]])]
  BY DEF HasOutputs
<1>2. PICK m \in 0 .. n : at \in [1 .. m -> 1 .. n]
  OBVIOUS
<1> DEFINE out(k) == Output(at[k], gave[h][at[k]])
           list == [k \in 1 .. m |-> out(k)]
<1>3. /\ i \in Nat /\ n \in Nat /\ n + 1 = i /\ m \in Nat
      /\ \A j \in 1 .. n : j \in Position /\ j \in 1 .. i - 1
  BY ActiveIsSeq
<1> HIDE DEF n
<1>4. /\ saved[h] \in Seq(ToolOutput) /\ L \in Nat /\ DOMAIN saved[h] = 1 .. L
  BY DEF Types
<1>5. /\ DOMAIN d = 1 .. L + m
      /\ \A k \in 1 .. L : d[k] = saved[h][k]
      /\ \A k \in 1 .. m : d[L + k] = out(k)
  <2>1. d = saved[h] \o list /\ DOMAIN list = 1 .. m
    BY <1>1, <1>2
  <2>2. list \in Seq({out(k) : k \in 1 .. m}) /\ Len(list) = m
    <3> HIDE DEF out
    <3> QED
      BY <1>3
  <2> DEFINE All == ToolOutput \cup {out(k) : k \in 1 .. m}
  <2>3. saved[h] \in Seq(All) /\ list \in Seq(All)
    <3> HIDE DEF out, list
    <3> QED
      BY <1>4, <2>2, SeqMonotonic
  <2>4. /\ d \in Seq(All) /\ Len(d) = L + m
        /\ \A k \in 1 .. L + m : d[k] = IF k <= L THEN saved[h][k] ELSE list[k - L]
    <3> HIDE DEF All, list
    <3>1. /\ saved[h] \o list \in Seq(All)
          /\ Len(saved[h] \o list) = Len(saved[h]) + Len(list)
          /\ \A k \in 1 .. Len(saved[h]) + Len(list) :
               (saved[h] \o list)[k] = IF k <= Len(saved[h]) THEN saved[h][k]
                                        ELSE list[k - Len(saved[h])]
      BY <2>3, ConcatProperties
    <3> QED
      BY <2>1, <2>2, <3>1
  <2>5. \A k \in 1 .. m : L + k \in 1 .. L + m /\ ~(L + k <= L) /\ (L + k) - L = k
    BY <1>3, <1>4
  <2>6. \A k \in 1 .. m : list[k] = out(k)
    OBVIOUS
  <2> HIDE DEF list, out, All
  <2>7. DOMAIN d = 1 .. L + m
    BY <2>4
  <2>8. \A k \in 1 .. L : k \in 1 .. L + m /\ k <= L
    BY <1>3, <1>4
  <2> HIDE DEF L
  <2> QED
    BY <2>4, <2>5, <2>6, <2>7, <2>8
<1>6. \A k \in 1 .. m :
        /\ at[k] \in 1 .. n /\ gave[h][at[k]] # Nothing
        /\ Names(out(k)) = {ActiveTools[at[k]].id, ActiveTools[at[k]].field}
        /\ out(k).value = gave[h][at[k]]
  <2>1. \A k \in 1 .. m : at[k] \in {j \in 1 .. n : gave[h][j] # Nothing}
    BY <1>1, <1>2
  <2> QED
    BY <2>1 DEF Output, Names
<1>7. named \in SUBSET Nat
  BY <1>3, <1>4, <1>5
<1> HIDE DEF out
<1>8. CASE \E k \in DOMAIN saved[h] : ref \in Names(saved[h][k])
  <2>1. saved[h] = Earlier(h) /\ L = 1 /\ saved[h][1] = Output(1, Printed(h, 1, "before"))
    <3>1. saved[h] # <<>>
      BY <1>8
    <3>2. saved[h] = Earlier(h)
      BY <3>1 DEF OwnInv
    <3> QED
      BY <3>2 DEF Earlier
  <2>2. 1 \in named /\ d[1].value = Printed(h, 1, "before")
    BY <1>3, <1>4, <1>5, <1>8, <2>1 DEF Output
  <2>3. Min(named) = 1
    <3>1. Min(named) \in named /\ Min(named) <= 1
      BY <1>7, <2>2, LeastIsMin
    <3>2. Min(named) \in 1 .. L + m
      BY <1>5, <3>1
    <3> QED
      BY <1>3, <2>1, <3>1, <3>2
  <2> QED
    BY <1>8, <2>2, <2>3 DEF Fill, Expected
<1>9. CASE ~\E k \in DOMAIN saved[h] : ref \in Names(saved[h][k])
  <2> DEFINE src == Sources(h, ref, i)
  <2>1. ASSUME NEW k \in named
        PROVE  k - L \in 1 .. m /\ k = L + (k - L) /\ at[k - L] \in src
    <3>1. k \in 1 .. L + m /\ ref \in Names(d[k])
      BY <1>5
    <3>2. ~(k <= L)
      BY <1>4, <1>5, <1>9, <3>1
    <3>3. k - L \in 1 .. m /\ k = L + (k - L)
      <4>1. L \in Nat /\ m \in Nat /\ k \in 1 .. L + m /\ ~(k <= L)
        BY <1>3, <1>4, <3>1, <3>2
      <4> HIDE DEF L
      <4> QED
        BY <4>1
    <3>4. ref \in Names(out(k - L))
      BY <1>5, <3>1, <3>3
    <3> QED
      BY <1>3, <1>6, <3>3, <3>4 DEF Sources
  <2>2. CASE src = {}
    <3>1. named = {}
      BY <2>1, <2>2
    <3> QED
      BY <1>9, <2>2, <3>1 DEF Fill, Expected
  <2>3. CASE src # {}
    <3> DEFINE s == Min(src)
    <3>1. src \in SUBSET Nat
      BY <1>3 DEF Sources
    <3>2. s \in src /\ \A x \in src : s <= x
      BY <2>3, <3>1, LeastIsMin
    <3>3. s \in 1 .. i - 1 /\ gave[h][s] # Nothing
          /\ ref \in {ActiveTools[s].id, ActiveTools[s].field}
      BY <3>2 DEF Sources
    <3> HIDE DEF s
    <3>4. PICK r \in 1 .. m : at[r] = s
      <4>1. s \in {j \in 1 .. n : gave[h][j] # Nothing}
        BY <3>3 DEF n
      <4> QED
        BY <1>1, <1>2, <4>1
    <3>5. L + r \in named
      <4>1. L + r \in 1 .. L + m
        BY <1>3, <1>4
      <4>2. ref \in Names(d[L + r])
        BY <1>5, <1>6, <3>3, <3>4
      <4> QED
        BY <1>5, <4>1, <4>2
    <3>6. ASSUME NEW k \in named PROVE L + r <= k
      <4>1. k - L \in 1 .. m /\ k = L + (k - L) /\ at[k - L] \in src
        BY <2>1
      <4>2. s <= at[k - L]
        BY <3>2, <4>1
      <4>3. ~(k - L < r)
        <5>1. at[k - L] \in 1 .. n /\ at[r] \in 1 .. n
          BY <1>6, <4>1
        <5>2. k - L < r => at[k - L] < at[r]
          BY <1>1, <1>2, <4>1
        <5> QED
          BY <1>3, <3>4, <4>2, <5>1, <5>2
      <4> QED
        BY <1>4, <4>1, <4>3
    <3>7. Min(named) = L + r
      <4>1. Min(named) \in named /\ Min(named) <= L + r
        BY <1>7, <3>5, LeastIsMin
      <4>2. L + r <= Min(named)
        BY <3>6, <4>1
      <4>3. Min(named) \in Nat /\ L + r \in Nat
        BY <1>3, <1>4, <1>7, <4>1
      <4> QED
        BY <4>1, <4>2, <4>3
    <3>8. d[Min(named)].value = gave[h][s]
      BY <1>5, <1>6, <3>4, <3>7
    <3>9. named # {}
      BY <3>5
    <3> QED
      BY <1>9, <2>3, <3>8, <3>9 DEF Fill, Expected, s
  <2> QED
    BY <2>2, <2>3
<1> QED
  BY <1>8, <1>9

-----------------------------------------------------------------------------
(* One lemma per kind of step. *)

(* What a placeholder should get depends on earlier tools only. *)
LEMMA ExpectedSame ==
  ASSUME NEW h, NEW ref, NEW i \in Nat, saved' = saved,
         \A j \in 1 .. i - 1 : gave'[h][j] = gave[h][j]
  PROVE  Expected(h, ref, i)' = Expected(h, ref, i)
<1>1. Sources(h, ref, i)' = Sources(h, ref, i)
  BY DEF Sources
<1>2. Sources(h, ref, i) \subseteq 1 .. i - 1 /\ Sources(h, ref, i) \in SUBSET Nat
  BY DEF Sources
<1>3. Sources(h, ref, i) # {} => Min(Sources(h, ref, i)) \in 1 .. i - 1
  BY <1>2, LeastIsMin
<1> QED
  BY <1>1, <1>3 DEF Expected

LEMMA FilledSame ==
  ASSUME FilledFromOwnMatch, UNCHANGED <<saved, given, gave>>
  PROVE  FilledFromOwnMatch'
<1> SUFFICES ASSUME NEW h \in Hit, NEW i \in Position, given[h][i] \notin {Pending, Nothing}
             PROVE  given[h][i] = Expected(h, ActiveTools[i].ref, i)'
  BY DEF FilledFromOwnMatch
<1>1. i \in Nat
  BY ActiveIsSeq
<1>2. Expected(h, ActiveTools[i].ref, i)' = Expected(h, ActiveTools[i].ref, i)
  BY <1>1, ExpectedSame
<1> QED
  BY <1>2 DEF FilledFromOwnMatch

(* FinishLoop, ToolsDone, AbandonResult, AcquireSlot, CommandHangs: the    *)
(* goroutine moves on and changes nothing but its step.                    *)
LEMMA MoveKeepsOutputs ==
  ASSUME OutputInv, NEW w \in Worker, NEW to \in Steps,
         step' = [step EXCEPT ![w] = to],
         UNCHANGED <<mode, saved, next, hit, pos, data, cancelled, given, gave, sent>>,
         \/ to \in {"idle", "end"}
         \/ /\ Busy(w)
            /\ to \in {"execute", "command", "hung"} => pos[w] \in Position
            /\ to = "send" => pos[w] = Len(ActiveTools) + 1
            /\ to \in {"slot", "execute"} => step[w] \in {"slot", "execute"}
  PROVE  OutputInv'
<1>1. step' \in [Worker -> Steps] /\ step'[w] = to
      /\ \A v \in Worker : v # w => step'[v] = step[v]
  BY DEF OutputInv, Types
<1>2. \A v \in Worker : Busy(v)' => Busy(v)
  BY <1>1 DEF Busy
<1>3. Types'
  BY <1>1 DEF OutputInv, Types
<1>4. HitsInv'
  BY <1>2 DEF OutputInv, HitsInv
<1>5. ToolsInv'
  <2> SUFFICES ASSUME NEW v \in Worker, Busy(v)'
               PROVE  /\ HasOutputs(data[v], saved[hit[v]], gave[hit[v]], pos[v] - 1)
                      /\ step'[v] \in {"execute", "command", "hung"} => pos[v] \in Position
                      /\ step'[v] = "send" => pos[v] = Len(ActiveTools) + 1
                      /\ \A i \in Position : i < pos[v] <=> gave[hit[v]][i] # Pending
                      /\ \A i \in Position :
                           i > pos[v] \/ (i = pos[v] /\ step'[v] \in {"slot", "execute"}) =>
                             given[hit[v]][i] = Pending
    BY DEF ToolsInv
  <2>1. CASE v # w
    BY <1>1, <1>2, <2>1 DEF OutputInv, ToolsInv
  <2>2. CASE v = w
    BY <1>1, <1>2, <2>2 DEF OutputInv, ToolsInv, Busy
  <2> QED
    BY <2>1, <2>2
<1>6. OwnInv'
  BY DEF OutputInv, OwnInv
<1>7. FilledFromOwnMatch' /\ SentWithOutputs'
  BY FilledSame DEF OutputInv, SentWithOutputs
<1> QED
  BY <1>3, <1>4, <1>5, <1>6, <1>7 DEF OutputInv

(* A goroutine takes the next match. *)
LEMMA TakeKeepsOutputs ==
  ASSUME OutputInv, NEW w \in Worker, TakeHit(w)
  PROVE  OutputInv'
<1> DEFINE h == next
<1>1. /\ step[w] = "idle" /\ next <= NumHits /\ next' = next + 1
      /\ hit' = [hit EXCEPT ![w] = next] /\ pos' = [pos EXCEPT ![w] = 1]
      /\ data' = [data EXCEPT ![w] = saved[next]] /\ step' = [step EXCEPT ![w] = "slot"]
      /\ UNCHANGED <<mode, saved, cancelled, given, gave, sent>>
  BY DEF TakeHit
<1>2. h \in Hit /\ next \in Nat /\ NumHits \in Nat
  BY <1>1, LimitAssumption DEF OutputInv, Types, Hit
<1>3. /\ hit'[w] = h /\ pos'[w] = 1 /\ data'[w] = saved[h] /\ step'[w] = "slot"
      /\ \A v \in Worker : v # w => /\ hit'[v] = hit[v] /\ pos'[v] = pos[v]
                                    /\ data'[v] = data[v] /\ step'[v] = step[v]
  BY <1>1 DEF OutputInv, Types
<1>4. saved[h] \in Seq(ToolOutput)
  BY <1>2 DEF OutputInv, Types
<1>5. Types'
  <2>1. step' \in [Worker -> Steps] /\ next' \in 1 .. NumHits + 1
    BY <1>1, <1>2 DEF OutputInv, Types, Steps
  <2>2. hit' \in [Worker -> 0 .. NumHits]
    BY <1>1, <1>2 DEF OutputInv, Types, Hit
  <2>3. pos' \in [Worker -> 1 .. Len(ActiveTools) + 1]
    BY <1>1, ActiveIsSeq DEF OutputInv, Types
  <2>4. data' \in [Worker -> Seq(ToolOutput)]
    BY <1>1, <1>4 DEF OutputInv, Types
  <2> QED
    BY <1>1, <2>1, <2>2, <2>3, <2>4 DEF OutputInv, Types
<1>6. \A v \in Worker : v # w => (Busy(v)' <=> Busy(v))
  BY <1>3 DEF Busy
<1>7. \A v \in Worker : Busy(v) => hit[v] < h /\ hit[v] \in Nat
  BY DEF OutputInv, HitsInv, Hit
<1>8. HitsInv'
  <2>1. \A v \in Worker : Busy(v)' => hit'[v] \in Hit /\ hit'[v] < next'
    BY <1>1, <1>2, <1>3, <1>6, <1>7 DEF OutputInv, HitsInv
  <2>2. \A u, v \in Worker : Busy(u)' /\ Busy(v)' /\ hit'[u] = hit'[v] => u = v
    BY <1>2, <1>3, <1>6, <1>7 DEF OutputInv, HitsInv
  <2>3. \A g \in DOMAIN sent : g < next' /\ \A v \in Worker : Busy(v)' => hit'[v] # g
    <3>1. \A g \in DOMAIN sent : g \in Nat /\ g < next /\ \A v \in Worker : Busy(v) => hit[v] # g
      BY DEF OutputInv, HitsInv, Types, Hit
    <3> QED
      BY <1>1, <1>2, <1>3, <1>6, <3>1
  <2>4. \A g \in Hit, i \in Position : g >= next' => gave[g][i] = Pending /\ given[g][i] = Pending
    BY <1>1, <1>2 DEF OutputInv, HitsInv, Hit
  <2> QED
    BY <1>1, <2>1, <2>2, <2>3, <2>4 DEF HitsInv
<1>9. ToolsInv'
  <2> SUFFICES ASSUME NEW v \in Worker, Busy(v)'
               PROVE  /\ HasOutputs(data'[v], saved[hit'[v]], gave[hit'[v]], pos'[v] - 1)
                      /\ step'[v] \in {"execute", "command", "hung"} => pos'[v] \in Position
                      /\ step'[v] = "send" => pos'[v] = Len(ActiveTools) + 1
                      /\ \A i \in Position : i < pos'[v] <=> gave[hit'[v]][i] # Pending
                      /\ \A i \in Position :
                           i > pos'[v] \/ (i = pos'[v] /\ step'[v] \in {"slot", "execute"}) =>
                             given[hit'[v]][i] = Pending
    BY <1>1 DEF ToolsInv
  <2>1. CASE v # w
    BY <1>3, <1>6, <2>1 DEF OutputInv, ToolsInv
  <2>2. CASE v = w
    <3>1. HasOutputs(saved[h], saved[h], gave[h], 0)
      BY <1>4, OutputsStart
    <3>2. \A i \in Position : gave[h][i] = Pending /\ given[h][i] = Pending
      BY <1>2 DEF OutputInv, HitsInv
    <3>3. \A i \in Position : ~(i < 1)
      BY ActiveIsSeq
    <3> QED
      BY <1>3, <2>2, <3>1, <3>2, <3>3
  <2> QED
    BY <2>1, <2>2
<1>10. OwnInv' /\ FilledFromOwnMatch' /\ SentWithOutputs'
  BY <1>1, FilledSame DEF OutputInv, OwnInv, SentWithOutputs
<1> QED
  BY <1>5, <1>8, <1>9, <1>10 DEF OutputInv

(* It sends the result. *)
LEMMA SendKeepsOutputs ==
  ASSUME OutputInv, NEW w \in Worker, SendResult(w)
  PROVE  OutputInv'
<1> DEFINE h == hit[w]
<1>1. /\ step[w] = "send" /\ step' = [step EXCEPT ![w] = "idle"]
      /\ sent' = [g \in DOMAIN sent \cup {h} |-> IF g = h THEN data[w] ELSE sent[g]]
      /\ UNCHANGED <<mode, saved, next, hit, pos, data, cancelled, given, gave>>
  BY DEF SendResult
<1>2. /\ step'[w] = "idle" /\ \A v \in Worker : v # w => step'[v] = step[v]
  BY <1>1 DEF OutputInv, Types
<1>3. Busy(w) /\ \A v \in Worker : Busy(v)' <=> Busy(v) /\ v # w
  BY <1>1, <1>2 DEF Busy
<1>4. h \in Hit /\ h < next
  BY <1>3 DEF OutputInv, HitsInv
<1>5. Types'
  <2>1. step' \in [Worker -> Steps] /\ data[w] \in Seq(ToolOutput)
    BY <1>1 DEF OutputInv, Types, Steps
  <2>2. DOMAIN sent' \subseteq Hit /\ sent' \in [DOMAIN sent' -> Seq(ToolOutput)]
    BY <1>1, <1>4, <2>1 DEF OutputInv, Types
  <2> QED
    BY <1>1, <2>1, <2>2 DEF OutputInv, Types
<1>6. HitsInv'
  <2>1. \A g \in DOMAIN sent' : g < next /\ \A v \in Worker : Busy(v)' => hit[v] # g
    BY <1>1, <1>3, <1>4 DEF OutputInv, HitsInv
  <2> QED
    BY <1>1, <1>3, <2>1 DEF OutputInv, HitsInv
<1>7. ToolsInv'
  <2>1. \A v \in Worker : Busy(v)' => Busy(v) /\ step'[v] = step[v]
    BY <1>2, <1>3
  <2> QED
    BY <1>1, <2>1 DEF OutputInv, ToolsInv
<1>8. OwnInv' /\ FilledFromOwnMatch'
  BY <1>1, FilledSame DEF OutputInv, OwnInv
<1>9. SentWithOutputs'
  <2>1. pos[w] - 1 = Len(ActiveTools)
    BY <1>1, <1>3, ActiveIsSeq DEF OutputInv, ToolsInv
  <2>2. HasOutputs(data[w], saved[h], gave[h], Len(ActiveTools))
    BY <1>3, <2>1 DEF OutputInv, ToolsInv
  <2> QED
    BY <1>1, <2>2 DEF OutputInv, SentWithOutputs
<1> QED
  BY <1>5, <1>6, <1>7, <1>8, <1>9 DEF OutputInv

(* Execute fills in the placeholder. *)
LEMMA StartKeepsOutputs ==
  ASSUME OutputInv, NEW w \in Worker, StartCommand(w)
  PROVE  OutputInv'
<1> DEFINE h == hit[w]
           i == pos[w]
           ref == ActiveTools[i].ref
           x == IF ref = NoRef THEN Nothing ELSE Fill(data[w], ref)
<1>1. /\ step[w] = "execute" /\ step' = [step EXCEPT ![w] = "command"]
      /\ given' = [given EXCEPT ![h][i] = x]
      /\ UNCHANGED <<mode, saved, next, hit, pos, data, cancelled, gave, sent>>
  BY DEF StartCommand
<1>2. /\ step'[w] = "command" /\ \A v \in Worker : v # w => step'[v] = step[v]
      /\ step' \in [Worker -> Steps]
  BY <1>1 DEF OutputInv, Types, Steps
<1>3. Busy(w) /\ \A v \in Worker : Busy(v)' <=> Busy(v)
  BY <1>1, <1>2 DEF Busy
<1>4. h \in Hit /\ h < next /\ i \in Position /\ i \in Nat
  BY <1>1, <1>3, ActiveIsSeq DEF OutputInv, HitsInv, ToolsInv
<1>5. x \in Value /\ (x # Nothing => x = Expected(h, ref, i))
  <2>1. HasOutputs(data[w], saved[h], gave[h], i - 1)
    BY <1>3 DEF OutputInv, ToolsInv
  <2>2. Fill(data[w], ref) = Expected(h, ref, i)
    BY <1>4, <2>1, FirstOfName DEF OutputInv
  <2>3. Fill(data[w], ref) \in Value
    BY FillIsValue DEF OutputInv, Types
  <2> QED
    BY <2>2, <2>3, Distinct
<1> HIDE DEF x
<1>6. /\ given' \in [Hit -> [Position -> Value]] /\ given'[h][i] = x
      /\ \A g \in Hit, j \in Position : ~(g = h /\ j = i) => given'[g][j] = given[g][j]
  BY <1>1, <1>4, <1>5 DEF OutputInv, Types
<1> HIDE DEF h, i
<1>7. Types'
  BY <1>1, <1>2, <1>6 DEF OutputInv, Types
<1>8. HitsInv'
  <2>1. \A g \in Hit, j \in Position : g >= next => given'[g][j] = Pending /\ gave[g][j] = Pending
    <3>1. \A g \in Hit : g >= next => g # h
      BY <1>4 DEF OutputInv, Types, Hit
    <3> QED
      BY <1>6, <3>1 DEF OutputInv, HitsInv
  <2> QED
    BY <1>1, <1>3, <2>1 DEF OutputInv, HitsInv
<1>9. ToolsInv'
  <2> SUFFICES ASSUME NEW v \in Worker, Busy(v)'
               PROVE  /\ HasOutputs(data[v], saved[hit[v]], gave[hit[v]], pos[v] - 1)
                      /\ step'[v] \in {"execute", "command", "hung"} => pos[v] \in Position
                      /\ step'[v] = "send" => pos[v] = Len(ActiveTools) + 1
                      /\ \A j \in Position : j < pos[v] <=> gave[hit[v]][j] # Pending
                      /\ \A j \in Position :
                           j > pos[v] \/ (j = pos[v] /\ step'[v] \in {"slot", "execute"}) =>
                             given'[hit[v]][j] = Pending
    BY <1>1 DEF ToolsInv
  <2>1. CASE v # w
    <3>1. hit[v] # h /\ hit[v] \in Hit
      BY <1>3, <2>1 DEF OutputInv, HitsInv, h
    <3> QED
      BY <1>2, <1>3, <1>6, <2>1, <3>1 DEF OutputInv, ToolsInv
  <2>2. CASE v = w
    <3>1. \A j \in Position : j > i => given'[h][j] = given[h][j] /\ given[h][j] = Pending
      <4>1. \A j \in Position : j > i => j # i
        BY <1>4, ActiveIsSeq
      <4> QED
        BY <1>3, <1>4, <1>6, <4>1 DEF OutputInv, ToolsInv, h, i
    <3> QED
      BY <1>1, <1>2, <1>3, <1>4, <2>2, <3>1 DEF OutputInv, ToolsInv, h, i
  <2> QED
    BY <2>1, <2>2
<1>10. FilledFromOwnMatch'
  <2> SUFFICES ASSUME NEW g \in Hit, NEW j \in Position, given'[g][j] \notin {Pending, Nothing}
               PROVE  given'[g][j] = Expected(g, ActiveTools[j].ref, j)'
    BY DEF FilledFromOwnMatch
  <2>1. Expected(g, ActiveTools[j].ref, j)' = Expected(g, ActiveTools[j].ref, j)
    <3>1. j \in Nat
      BY ActiveIsSeq
    <3> QED
      BY <1>1, <3>1, ExpectedSame
  <2>2. CASE g = h /\ j = i
    BY <1>5, <1>6, <2>1, <2>2
  <2>3. CASE ~(g = h /\ j = i)
    BY <1>6, <2>1, <2>3 DEF OutputInv, FilledFromOwnMatch
  <2> QED
    BY <2>2, <2>3
<1>11. OwnInv' /\ SentWithOutputs'
  BY <1>1 DEF OutputInv, OwnInv, SentWithOutputs
<1> QED
  BY <1>7, <1>8, <1>9, <1>10, <1>11 DEF OutputInv

(* A tool has ended, with an output or without. *)
LEMMA ReturnKeepsOutputs ==
  ASSUME OutputInv, NEW w \in Worker, NEW x, step[w] \in {"execute", "command"}, Return(w, x),
         x = Nothing \/ x = Printed(hit[w], pos[w], "now")
  PROVE  OutputInv'
<1> DEFINE h == hit[w]
           i == pos[w]
           d == IF x = Nothing THEN data[w] ELSE Append(data[w], Output(i, x))
<1>1. /\ step' = [step EXCEPT ![w] = "slot"] /\ pos' = [pos EXCEPT ![w] = i + 1]
      /\ gave' = [gave EXCEPT ![h][i] = x]
      /\ data' = [data EXCEPT ![w] = d]
      /\ UNCHANGED <<mode, saved, next, hit, cancelled, given, sent>>
  BY DEF Return
<1>2. Busy(w) /\ hit[w] \in Hit /\ h < next /\ i \in Position /\ i \in Nat
  BY ActiveIsSeq DEF Busy, OutputInv, HitsInv, ToolsInv
<1>3. x \in Value /\ (x # Nothing => Output(i, x) \in ToolOutput)
  BY <1>2, Distinct, PrintedIsValue
<1>4. d \in Seq(ToolOutput)
  <2>1. data[w] \in Seq(ToolOutput)
    BY DEF OutputInv, Types
  <2> QED
    BY <1>3, <2>1
<1> HIDE DEF d
<1>5. /\ step'[w] = "slot" /\ pos'[w] = i + 1 /\ data'[w] = d
      /\ \A v \in Worker : v # w => /\ step'[v] = step[v] /\ pos'[v] = pos[v]
                                    /\ data'[v] = data[v]
  BY <1>1 DEF OutputInv, Types
<1>6. /\ gave' \in [Hit -> [Position -> Value]] /\ gave'[h][i] = x
      /\ \A g \in Hit, j \in Position : ~(g = h /\ j = i) => gave'[g][j] = gave[g][j]
      /\ \A g \in Hit : g # h => gave'[g] = gave[g]
  BY <1>1, <1>2, <1>3 DEF OutputInv, Types
<1>7. \A v \in Worker : Busy(v)' <=> Busy(v)
  BY <1>2, <1>5 DEF Busy
<1>8. Types'
  <2>1. step' \in [Worker -> Steps] /\ data' \in [Worker -> Seq(ToolOutput)]
    BY <1>1, <1>4 DEF OutputInv, Types, Steps
  <2>2. pos' \in [Worker -> 1 .. Len(ActiveTools) + 1]
    <3>1. i + 1 \in 1 .. Len(ActiveTools) + 1
      BY <1>2, ActiveIsSeq
    <3> QED
      BY <1>1, <3>1 DEF OutputInv, Types
  <2> QED
    BY <1>1, <1>6, <2>1, <2>2 DEF OutputInv, Types
<1> HIDE DEF h, i
<1>9. HitsInv'
  <2>1. \A g \in Hit, j \in Position : g >= next => given[g][j] = Pending /\ gave'[g][j] = Pending
    <3>1. \A g \in Hit : g >= next => g # h
      BY <1>2 DEF OutputInv, Types, Hit
    <3> QED
      BY <1>6, <3>1 DEF OutputInv, HitsInv
  <2> QED
    BY <1>1, <1>7, <2>1 DEF OutputInv, HitsInv
<1>10. ToolsInv'
  <2> SUFFICES ASSUME NEW v \in Worker, Busy(v)'
               PROVE  /\ HasOutputs(data'[v], saved[hit[v]], gave'[hit[v]], pos'[v] - 1)
                      /\ step'[v] \in {"execute", "command", "hung"} => pos'[v] \in Position
                      /\ step'[v] = "send" => pos'[v] = Len(ActiveTools) + 1
                      /\ \A j \in Position : j < pos'[v] <=> gave'[hit[v]][j] # Pending
                      /\ \A j \in Position :
                           j > pos'[v] \/ (j = pos'[v] /\ step'[v] \in {"slot", "execute"}) =>
                             given[hit[v]][j] = Pending
    BY <1>1 DEF ToolsInv
  <2>1. CASE v # w
    <3>1. hit[v] # h /\ hit[v] \in Hit
      BY <1>2, <1>7, <2>1 DEF OutputInv, HitsInv, h
    <3> QED
      BY <1>5, <1>6, <1>7, <2>1, <3>1 DEF OutputInv, ToolsInv
  <2>2. CASE v = w
    <3>1. HasOutputs(d, saved[h], gave'[h], i)
      <4> DEFINE n == i - 1
      <4>1. n \in Nat /\ n + 1 = i /\ \A j \in 1 .. n : j \in Position /\ j # i
        BY <1>2, ActiveIsSeq
      <4>2. HasOutputs(data[w], saved[h], gave[h], n)
        BY <1>2 DEF OutputInv, ToolsInv, h, i
      <4> HIDE DEF n
      <4>3. h \in Hit
        BY <1>2 DEF h
      <4>4. \A j \in 1 .. n : gave'[h][j] = gave[h][j]
        BY <1>6, <4>1, <4>3
      <4>5. HasOutputs(data[w], saved[h], gave'[h], n)
        BY <4>1, <4>2, <4>4, OutputsSame
      <4>6. CASE x = Nothing
        BY <1>6, <4>1, <4>5, <4>6, OutputsStay DEF d
      <4>7. CASE x # Nothing
        <5>1. \A j \in 1 .. n + 1 : gave'[h][j] # Nothing => Output(j, gave'[h][j]) \in ToolOutput
          <6>1. ASSUME NEW j \in 1 .. n, gave[h][j] # Nothing
                PROVE  Output(j, gave[h][j]) \in ToolOutput
            <7>1. j \in Position /\ j < i
              BY <4>1
            <7>2. gave[h][j] # Pending
              BY <1>2, <7>1 DEF OutputInv, ToolsInv, h, i
            <7>3. gave[h][j] = Printed(h, j, "now")
              BY <4>3, <6>1, <7>1, <7>2 DEF OutputInv, OwnInv
            <7> QED
              BY <4>3, <7>1, <7>3, PrintedIsValue
          <6> QED
            BY <1>3, <1>6, <4>1, <4>4, <4>7, <6>1
        <5>2. saved[h] \in Seq(ToolOutput)
          BY <4>3 DEF OutputInv, Types
        <5> QED
          BY <1>6, <4>1, <4>5, <4>7, <5>1, <5>2, OutputsGrow DEF d
      <4> QED
        BY <4>6, <4>7
    <3>2. \A j \in Position : j < i + 1 <=> gave'[h][j] # Pending
      <4>1. x # Pending
        BY Distinct
      <4>2. \A j \in Position : (j < i + 1 <=> j < i \/ j = i) /\ (j = i => ~(j < i))
        BY <1>2, ActiveIsSeq
      <4>3. \A j \in Position : j < i <=> gave[h][j] # Pending
        BY <1>2 DEF OutputInv, ToolsInv, h, i
      <4> QED
        BY <1>2, <1>6, <4>1, <4>2, <4>3 DEF h
    <3>3. \A j \in Position : j > i + 1 \/ j = i + 1 => j > i
      BY <1>2, ActiveIsSeq
    <3>4. \A j \in Position : j > i => given[h][j] = Pending
      BY <1>2 DEF OutputInv, ToolsInv, h, i
    <3>5. (i + 1) - 1 = i
      BY <1>2
    <3> QED
      BY <1>5, <2>2, <3>1, <3>2, <3>3, <3>4, <3>5 DEF h
  <2> QED
    BY <2>1, <2>2
<1>11. OwnInv'
  <2>1. \A g \in Hit, j \in Position : gave'[g][j] \in {Pending, Nothing, Printed(g, j, "now")}
    BY <1>6 DEF OutputInv, OwnInv, h, i
  <2> QED
    BY <1>1, <2>1 DEF OutputInv, OwnInv
<1>12. FilledFromOwnMatch'
  <2> SUFFICES ASSUME NEW g \in Hit, NEW j \in Position, given[g][j] \notin {Pending, Nothing}
               PROVE  given[g][j] = Expected(g, ActiveTools[j].ref, j)'
    BY <1>1 DEF FilledFromOwnMatch
  <2>1. g = h => ~(j > i)
    BY <1>2 DEF OutputInv, ToolsInv, h, i
  <2>2. j \in Nat /\ \A k \in 1 .. j - 1 : k \in Position /\ ~(g = h /\ k = i)
    BY <1>2, <2>1, ActiveIsSeq
  <2>3. \A k \in 1 .. j - 1 : gave'[g][k] = gave[g][k]
    BY <1>6, <2>2
  <2>4. Expected(g, ActiveTools[j].ref, j)' = Expected(g, ActiveTools[j].ref, j)
    BY <1>1, <2>2, <2>3, ExpectedSame
  <2> QED
    BY <2>4 DEF OutputInv, FilledFromOwnMatch
<1>13. SentWithOutputs'
  <2>1. \A g \in DOMAIN sent : g \in Hit /\ g # h
    BY <1>2 DEF OutputInv, HitsInv, Types, h
  <2> QED
    BY <1>1, <1>6, <2>1 DEF OutputInv, SentWithOutputs
<1> QED
  BY <1>8, <1>9, <1>10, <1>11, <1>12, <1>13 DEF OutputInv

(* A result of the scan comes with nothing, one of the file with what was  *)
(* saved, and no tool has run.                                             *)
LEMMA OutputStart == Init => OutputInv
<1> SUFFICES ASSUME Init PROVE OutputInv
  OBVIOUS
<1>0. PICK old \in IF mode = "scan" \/ Position = {} THEN {{}} ELSE SUBSET Hit :
        saved = [h \in Hit |-> IF h \in old THEN Earlier(h) ELSE <<>>]
  BY DEF Init
<1>1. /\ mode \in {"scan", "process"} /\ next = 1 /\ cancelled = FALSE
      /\ step = [w \in Worker |-> IF mode = "scan" \/ w = Processor THEN "idle" ELSE "end"]
      /\ hit = [w \in Worker |-> 0] /\ pos = [w \in Worker |-> 1]
      /\ data = [w \in Worker |-> <<>>]
      /\ given = [h \in Hit |-> [i \in Position |-> Pending]]
      /\ gave = [h \in Hit |-> [i \in Position |-> Pending]]
      /\ sent = << >>
  BY DEF Init
<1>2. DOMAIN sent = {}
  BY <1>1
<1>3. \A h \in Hit : saved[h] = <<>> \/ (Position # {} /\ saved[h] = Earlier(h))
  BY <1>0
<1>4. saved \in [Hit -> Seq(ToolOutput)]
  <2>1. \A h \in Hit : saved[h] \in Seq(ToolOutput)
    <3> SUFFICES ASSUME NEW h \in Hit PROVE saved[h] \in Seq(ToolOutput)
      OBVIOUS
    <3>1. CASE saved[h] = <<>>
      <4>1. <<>> \in Seq(ToolOutput)
        OBVIOUS
      <4> QED
        BY <3>1, <4>1
    <3> QED
      BY <1>3, <3>1, EarlierIsData
  <2>2. saved = [h \in Hit |-> saved[h]]
    BY <1>0
  <2> QED
    BY <2>1, <2>2
<1>5. Types
  <2>1. next \in 1 .. NumHits + 1 /\ 0 \in 0 .. NumHits /\ 1 \in 1 .. Len(ActiveTools) + 1
    BY <1>1, ActiveIsSeq, LimitAssumption
  <2>2. <<>> \in Seq(ToolOutput) /\ Pending \in Value
    BY Distinct
  <2>3. step \in [Worker -> Steps]
    BY <1>1 DEF Steps
  <2>4. hit \in [Worker -> 0 .. NumHits] /\ pos \in [Worker -> 1 .. Len(ActiveTools) + 1]
    BY <1>1, <2>1
  <2>5. data \in [Worker -> Seq(ToolOutput)]
    BY <1>1, <2>2
  <2>6. given \in [Hit -> [Position -> Value]] /\ gave \in [Hit -> [Position -> Value]]
    BY <1>1, <2>2
  <2>7. sent \in [DOMAIN sent -> Seq(ToolOutput)]
    BY <1>1, <1>2
  <2> QED
    BY <1>1, <1>2, <1>4, <2>1, <2>3, <2>4, <2>5, <2>6, <2>7 DEF Types
<1>6. HitsInv
  BY <1>1, <1>2 DEF HitsInv, Busy
<1>7. ToolsInv
  BY <1>1 DEF ToolsInv, Busy
<1>8. OwnInv
  BY <1>1, <1>3 DEF OwnInv
<1>9. FilledFromOwnMatch /\ SentWithOutputs
  BY <1>1, <1>2 DEF FilledFromOwnMatch, SentWithOutputs
<1> QED
  BY <1>5, <1>6, <1>7, <1>8, <1>9 DEF OutputInv

LEMMA OutputStep == OutputInv /\ [Next]_vars => OutputInv'
<1> SUFFICES ASSUME OutputInv, [Next]_vars PROVE OutputInv'
  OBVIOUS
<1>0. \A w \in Worker : pos[w] \in 1 .. Len(ActiveTools) + 1 /\ Len(ActiveTools) \in Nat
                        /\ Position = 1 .. Len(ActiveTools)
  BY ActiveIsSeq DEF OutputInv, Types
<1>1. ASSUME NEW w \in Worker, Loop(w) PROVE OutputInv'
  <2>1. CASE TakeHit(w)
    BY <2>1, TakeKeepsOutputs
  <2>2. CASE FinishLoop(w)
    BY <2>2, MoveKeepsOutputs DEF FinishLoop, Steps
  <2>3. CASE ToolsDone(w)
    <3>1. pos[w] = Len(ActiveTools) + 1
      BY <1>0, <2>3 DEF ToolsDone
    <3> QED
      BY <2>3, <3>1, MoveKeepsOutputs DEF ToolsDone, Steps, Busy
  <2>4. CASE SendResult(w)
    BY <2>4, SendKeepsOutputs
  <2>5. CASE AbandonResult(w)
    <3>1. PICK to \in {"idle", "end"} : step' = [step EXCEPT ![w] = to]
      BY <2>5 DEF AbandonResult
    <3> QED
      BY <2>5, <3>1, MoveKeepsOutputs DEF AbandonResult, Steps
  <2> QED
    BY <1>1, <2>1, <2>2, <2>3, <2>4, <2>5 DEF Loop
<1>2. ASSUME NEW w \in Worker, AcquireSlot(w) PROVE OutputInv'
  <2>1. pos[w] \in Position
    BY <1>0, <1>2 DEF AcquireSlot
  <2> QED
    BY <1>2, <2>1, MoveKeepsOutputs DEF AcquireSlot, Steps, Busy
<1>3. ASSUME NEW w \in Worker, Execute(w) PROVE OutputInv'
  <2>1. CASE SkipCommand(w)
    BY <2>1, ReturnKeepsOutputs DEF SkipCommand
  <2>2. CASE StartCommand(w)
    BY <2>2, StartKeepsOutputs
  <2> QED
    BY <1>3, <2>1, <2>2 DEF Execute
<1>4. ASSUME NEW w \in Worker, EndCommand(w) PROVE OutputInv'
  <2>1. CASE CommandPrints(w)
    BY <2>1, ReturnKeepsOutputs DEF CommandPrints
  <2>2. CASE CommandFails(w)
    BY <2>2, ReturnKeepsOutputs DEF CommandFails
  <2>3. CASE CommandHangs(w)
    <3>1. pos[w] \in Position
      BY <2>3 DEF CommandHangs, OutputInv, ToolsInv, Busy
    <3> QED
      BY <2>3, <3>1, MoveKeepsOutputs DEF CommandHangs, Steps, Busy
  <2> QED
    BY <1>4, <2>1, <2>2, <2>3 DEF EndCommand
<1>5. CASE UNCHANGED <<mode, saved, next, taskVars, given, gave, sent>> /\ cancelled' \in BOOLEAN
  <2>1. UNCHANGED <<saved, given, gave>>
    BY <1>5
  <2>2. FilledFromOwnMatch'
    BY <2>1, FilledSame DEF OutputInv
  <2>3. Types' /\ HitsInv' /\ OwnInv'
    BY <1>5 DEF taskVars, OutputInv, Types, HitsInv, OwnInv, Busy
  <2>4. ToolsInv' /\ SentWithOutputs'
    BY <1>5 DEF taskVars, OutputInv, ToolsInv, SentWithOutputs, Busy
  <2> QED
    BY <2>2, <2>3, <2>4 DEF OutputInv
<1>6. CASE CancelCtx
  BY <1>5, <1>6 DEF CancelCtx
<1>7. CASE UNCHANGED vars
  BY <1>5, <1>7 DEF vars, OutputInv, Types
<1> QED
  BY <1>1, <1>2, <1>3, <1>4, <1>6, <1>7 DEF Next, Done

LEMMA OutputHolds == Spec => []OutputInv
BY OutputStart, OutputStep, PTL DEF Spec

-----------------------------------------------------------------------------
(* Tool.Execute replaces {{tool:x}} by the first output of that name of    *)
(* its own match, whichever goroutines run tools in between and however    *)
(* many tools or goroutines there are, and leaves the placeholder only if  *)
(* nothing has that name.                                                  *)
THEOREM FilledFromOwn == Spec => []FilledFromOwnMatch
<1>1. OutputInv => FilledFromOwnMatch
  BY DEF OutputInv
<1> QED
  BY <1>1, OutputHolds, PTL

(* handleMatch and ProcessResults send a result with the tool data it came *)
(* with and every output of its tools, in the order of --workflow: a tool  *)
(* that is skipped or fails costs no other tool its output.                *)
THEOREM OutputsSent == Spec => []SentWithOutputs
<1>1. OutputInv => SentWithOutputs
  BY DEF OutputInv
<1> QED
  BY <1>1, OutputHolds, PTL

(* The type invariant. Every output kept is of a command that printed, in  *)
(* this run or the earlier one, for one of the matches, and the tokens in  *)
(* processSem stay within its capacity.                                    *)
THEOREM TypesHold == Spec => []TypeOK
<1>1. OutputInv /\ SlotInv => TypeOK
  <2> SUFFICES ASSUME OutputInv, SlotInv PROVE TypeOK
    OBVIOUS
  <2>1. sem \in 0 .. MaxProc
    <3>1. sem \in Nat /\ sem <= MaxProc
      BY DEF SlotInv, SlotPerTool
    <3> QED
      BY <3>1, LimitAssumption
  <2>2. ASSUME NEW d \in Seq(ToolOutput) PROVE OutputOK(d)
    <3> SUFFICES ASSUME NEW k \in DOMAIN d
                 PROVE  d[k].value.run \in {"now", "before"} /\ d[k].value.hit \in Hit
      BY DEF OutputOK
    <3>1. d[k] \in ToolOutput
      OBVIOUS
    <3> DEFINE o == d[k]
    <3> HIDE DEF o
    <3>2. o \in ToolOutput => o.value.run \in {"now", "before"} /\ o.value.hit \in Hit
      BY DEF ToolOutput, Output, RealValue
    <3> QED
      BY <3>1, <3>2 DEF o
  <2>3. ASSUME NEW h \in Hit, NEW i \in Position
        PROVE  given[h][i].run \in Outcome /\ gave[h][i].run \in {"now", "none", "pending"}
    <3>1. given[h][i] \in Value
      BY DEF OutputInv, Types
    <3>2. gave[h][i] \in {Pending, Nothing, Printed(h, i, "now")}
      BY DEF OutputInv, OwnInv
    <3>3. \A x \in Value : x.run \in Outcome
      BY DEF Value
    <3>4. /\ Pending.run = "pending" /\ Nothing.run = "none"
          /\ Printed(h, i, "now").run = "now"
      BY DEF Pending, Nothing, Printed
    <3> QED
      BY <3>1, <3>2, <3>3, <3>4
  <2>4. /\ mode \in {"scan", "process"} /\ next \in 1 .. NumHits + 1
        /\ step \in [Worker -> Steps] /\ hit \in [Worker -> 0 .. NumHits]
        /\ pos \in [Worker -> 1 .. Len(ActiveTools) + 1] /\ cancelled \in BOOLEAN
        /\ data \in [Worker -> Seq(ToolOutput)]
        /\ DOMAIN sent \subseteq Hit /\ sent \in [DOMAIN sent -> Seq(ToolOutput)]
    BY DEF OutputInv, Types
  <2>5. DOMAIN data = Worker /\ \A w \in Worker : OutputOK(data[w])
    BY <2>2, <2>4
  <2>6. \A h \in DOMAIN sent : OutputOK(sent[h])
    BY <2>2, <2>4
  <2> QED
    BY <2>1, <2>3, <2>4, <2>5, <2>6 DEF TypeOK, Steps
<1> QED
  BY <1>1, OutputHolds, SlotInvHolds, PTL
=============================================================================
