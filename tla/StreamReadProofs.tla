-------------------------- MODULE StreamReadProofs --------------------------
(***************************************************************************)
(* Proofs about StreamRead, for every stream, list of targets, format and  *)
(* size of the pipe and of the channel.                                    *)
(***************************************************************************)
EXTENDS StreamRead, SequenceTheorems, WellFoundedInduction, TLAPS

-----------------------------------------------------------------------------
(* Naturals and sequences. *)

(* Every non-empty set of naturals has a least member. *)
LEMMA LeastNat ==
  ASSUME NEW S \in SUBSET Nat, S # {}
  PROVE  \E m \in S : \A k \in S : m <= k
<1>1. PICK m \in S : \A k \in S : <<k, m>> \notin OpToRel(<, Nat)
  BY WFMin, NatLessThanWellFounded, Zenon
<1>2. \A k \in S : ~(k < m)
  BY <1>1, Zenon DEF OpToRel
<1> QED
  BY <1>2

(* Induction over the naturals, for a set. *)
LEMMA NatInd ==
  ASSUME NEW S, 0 \in S, \A n \in Nat : n \in S => n + 1 \in S
  PROVE  Nat \subseteq S
<1> DEFINE T == Nat \ S
<1> SUFFICES ASSUME T # {} PROVE FALSE
  OBVIOUS
<1>1. PICK m \in T : \A k \in T : m <= k
  BY LeastNat
<1> QED
  BY <1>1

(* FlattenSeq appends the sequences one after the other. *)
LEMMA FlattenIs ==
  ASSUME NEW S, NEW seqs \in Seq(Seq(S))
  PROVE  \E g \in [1 .. Len(seqs) -> Seq(S)] :
           /\ \A i \in 1 .. Len(seqs) : g[i] = IF i = 1 THEN seqs[i] ELSE g[i - 1] \o seqs[i]
           /\ FlattenSeq(seqs) = IF Len(seqs) = 0 THEN <<>> ELSE g[Len(seqs)]
<1> DEFINE N == Len(seqs)
           IsStart(g, m) == /\ g \in [1 .. m -> Seq(S)]
                            /\ \A i \in 1 .. m : g[i] = IF i = 1 THEN seqs[i] ELSE g[i - 1] \o seqs[i]
           Built == {m \in Nat : m <= N => \E g : IsStart(g, m)}
<1>0. N \in Nat /\ \A i \in 1 .. N : seqs[i] \in Seq(S)
  OBVIOUS
<1>1. 0 \in Built
  <2> DEFINE g == [i \in 1 .. 0 |-> <<>>]
  <2>1. IsStart(g, 0)
    OBVIOUS
  <2> QED
    BY <2>1
<1>2. ASSUME NEW m \in Nat, m \in Built PROVE m + 1 \in Built
  <2> SUFFICES ASSUME m + 1 <= N PROVE \E g : IsStart(g, m + 1)
    <3> HIDE DEF IsStart, N
    <3> QED
      OBVIOUS
  <2>1. PICK g : IsStart(g, m)
    <3> HIDE DEF IsStart, N
    <3> QED
      BY <1>0, <1>2
  <2> DEFINE x == IF m + 1 = 1 THEN seqs[m + 1] ELSE g[m] \o seqs[m + 1]
             h == [i \in 1 .. m + 1 |-> IF i = m + 1 THEN x ELSE g[i]]
  <2>2. seqs[m + 1] \in Seq(S)
    BY <1>0
  <2>3. x \in Seq(S)
    <3>1. CASE m = 0
      BY <2>2, <3>1
    <3>2. CASE m # 0
      <4>1. m \in 1 .. m
        BY <3>2
      <4>2. g[m] \in Seq(S)
        BY <2>1, <4>1
      <4> QED
        BY <2>2, <3>2, <4>2
    <3> QED
      BY <3>1, <3>2
  <2>4. h \in [1 .. m + 1 -> Seq(S)]
    <3>1. \A i \in 1 .. m + 1 : i = m + 1 \/ i \in 1 .. m
      OBVIOUS
    <3> HIDE DEF x
    <3> QED
      BY <2>1, <2>3, <3>1
  <2>5. ASSUME NEW i \in 1 .. m + 1
        PROVE  h[i] = IF i = 1 THEN seqs[i] ELSE h[i - 1] \o seqs[i]
    <3>1. CASE i = m + 1
      <4>1. h[i] = x
        BY <3>1
      <4>2. i # 1 => h[i - 1] = g[m]
        BY <3>1
      <4> QED
        BY <3>1, <4>1, <4>2
    <3>2. CASE i # m + 1
      <4>1. i \in 1 .. m /\ (i # 1 => i - 1 \in 1 .. m)
        BY <3>2
      <4>2. h[i] = g[i] /\ (i # 1 => h[i - 1] = g[i - 1])
        BY <4>1
      <4>3. g[i] = IF i = 1 THEN seqs[i] ELSE g[i - 1] \o seqs[i]
        BY <2>1, <4>1
      <4> QED
        BY <4>2, <4>3
    <3> QED
      BY <3>1, <3>2
  <2>6. IsStart(h, m + 1)
    <3> HIDE DEF h
    <3> QED
      BY <2>4, <2>5
  <2> QED
    BY <2>6
<1>3. PICK g : IsStart(g, N)
  <2>1. Nat \subseteq Built
    <3> HIDE DEF Built
    <3> QED
      BY <1>1, <1>2, NatInd
  <2>2. N \in Built
    <3> HIDE DEF Built, N
    <3> QED
      BY <1>0, <2>1
  <2> HIDE DEF IsStart, N
  <2> QED
    BY <2>2
<1> DEFINE Eq(f) == f = [i \in 1 .. N |-> IF i = 1 THEN seqs[i] ELSE f[i - 1] \o seqs[i]]
           fl == CHOOSE f : Eq(f)
<1>4. Eq(g)
  BY <1>3
<1>5. Eq(fl)
  BY <1>4
<1>6. \A i \in 1 .. N : fl[i] = IF i = 1 THEN seqs[i] ELSE fl[i - 1] \o seqs[i]
  <2> HIDE DEF fl
  <2> QED
    BY <1>5
<1> HIDE DEF fl
<1>7. \A i \in 1 .. N : fl[i] \in Seq(S)
  <2> DEFINE T == {i \in Nat : i \in 1 .. N => fl[i] \in Seq(S)}
  <2>1. 0 \in T
    OBVIOUS
  <2>2. ASSUME NEW n \in Nat, n \in T PROVE n + 1 \in T
    <3> SUFFICES ASSUME n + 1 \in 1 .. N PROVE fl[n + 1] \in Seq(S)
      OBVIOUS
    <3>1. CASE n = 0
      BY <1>0, <1>6, <3>1
    <3>2. CASE n # 0
      <4>1. n \in 1 .. N
        BY <3>2
      <4>2. fl[n] \in Seq(S)
        BY <2>2, <4>1
      <4>3. fl[n + 1] = fl[n] \o seqs[n + 1] /\ seqs[n + 1] \in Seq(S)
        <5>1. n + 1 \in 1 .. N /\ n + 1 # 1 /\ (n + 1) - 1 = n
          BY <3>2
        <5> QED
          BY <1>0, <1>6, <5>1
      <4> QED
        BY <4>2, <4>3
    <3> QED
      BY <3>1, <3>2
  <2>3. Nat \subseteq T
    <3> HIDE DEF T
    <3> QED
      BY <2>1, <2>2, NatInd
  <2> QED
    BY <2>3
<1>8. N # 0 => FlattenSeq(seqs) = fl[N]
  BY DEF FlattenSeq, fl
<1>9. N = 0 => FlattenSeq(seqs) = <<>>
  BY DEF FlattenSeq
<1>10. fl \in [1 .. N -> Seq(S)]
  <2>1. DOMAIN fl = 1 .. N /\ fl = [i \in 1 .. N |-> fl[i]]
    BY <1>5
  <2> QED
    BY <1>7, <2>1
<1> HIDE DEF N
<1>11. FlattenSeq(seqs) = IF N = 0 THEN <<>> ELSE fl[N]
  BY <1>8, <1>9
<1> QED
  BY <1>6, <1>10, <1>11 DEF N

LEMMA FlattenIsSeq ==
  ASSUME NEW S, NEW seqs \in Seq(Seq(S))
  PROVE  FlattenSeq(seqs) \in Seq(S)
<1>1. PICK g \in [1 .. Len(seqs) -> Seq(S)] :
        FlattenSeq(seqs) = IF Len(seqs) = 0 THEN <<>> ELSE g[Len(seqs)]
  BY FlattenIs
<1>2. CASE Len(seqs) = 0
  BY <1>1, <1>2
<1>3. CASE Len(seqs) # 0
  <2>1. Len(seqs) \in 1 .. Len(seqs)
    BY <1>3
  <2> QED
    BY <1>1, <1>3, <2>1
<1> QED
  BY <1>2, <1>3

LEMMA FlattenOneMore ==
  ASSUME NEW S, NEW seqs \in Seq(Seq(S)), NEW more \in Seq(Seq(S)),
         Len(more) = Len(seqs) + 1, \A i \in 1 .. Len(seqs) : more[i] = seqs[i]
  PROVE  FlattenSeq(more) = FlattenSeq(seqs) \o more[Len(more)]
<1> DEFINE N == Len(seqs)
<1>0. N \in Nat /\ Len(more) = N + 1 /\ more[N + 1] \in Seq(S)
  OBVIOUS
<1>1. PICK g \in [1 .. N -> Seq(S)] :
        /\ \A i \in 1 .. N : g[i] = IF i = 1 THEN seqs[i] ELSE g[i - 1] \o seqs[i]
        /\ FlattenSeq(seqs) = IF N = 0 THEN <<>> ELSE g[N]
  BY FlattenIs
<1>2. PICK h \in [1 .. N + 1 -> Seq(S)] :
        /\ \A i \in 1 .. N + 1 : h[i] = IF i = 1 THEN more[i] ELSE h[i - 1] \o more[i]
        /\ FlattenSeq(more) = h[N + 1]
  <2>1. PICK h \in [1 .. Len(more) -> Seq(S)] :
          /\ \A i \in 1 .. Len(more) : h[i] = IF i = 1 THEN more[i] ELSE h[i - 1] \o more[i]
          /\ FlattenSeq(more) = IF Len(more) = 0 THEN <<>> ELSE h[Len(more)]
    BY FlattenIs
  <2> DEFINE M == Len(more)
  <2>2. M = N + 1 /\ N + 1 # 0
    BY <1>0
  <2>3. FlattenSeq(more) = h[M]
    BY <2>1, <2>2
  <2> HIDE DEF M, N
  <2>4. /\ h \in [1 .. M -> Seq(S)]
        /\ \A i \in 1 .. M : h[i] = IF i = 1 THEN more[i] ELSE h[i - 1] \o more[i]
    BY <2>1 DEF M
  <2> QED
    BY <2>2, <2>3, <2>4
<1>3. \A i \in 1 .. N : more[i] = seqs[i]
  OBVIOUS
<1> HIDE DEF N
<1>4. \A i \in 1 .. N : g[i] = h[i]
  <2> DEFINE T == {i \in Nat : i \in 1 .. N => g[i] = h[i]}
  <2>1. 0 \in T
    OBVIOUS
  <2>2. ASSUME NEW n \in Nat, n \in T PROVE n + 1 \in T
    <3> SUFFICES ASSUME n + 1 \in 1 .. N PROVE g[n + 1] = h[n + 1]
      OBVIOUS
    <3>1. n + 1 \in 1 .. N + 1 /\ (n + 1) - 1 = n /\ (n # 0 => n \in 1 .. N)
      BY <1>0
    <3>2. /\ g[n + 1] = IF n + 1 = 1 THEN seqs[n + 1] ELSE g[n] \o seqs[n + 1]
          /\ h[n + 1] = IF n + 1 = 1 THEN more[n + 1] ELSE h[n] \o more[n + 1]
          /\ more[n + 1] = seqs[n + 1]
      BY <1>1, <1>2, <1>3, <3>1
    <3>3. CASE n = 0
      BY <3>2, <3>3
    <3>4. CASE n # 0
      BY <2>2, <3>1, <3>2, <3>4
    <3> QED
      BY <3>3, <3>4
  <2>3. Nat \subseteq T
    <3> HIDE DEF T
    <3> QED
      BY <2>1, <2>2, NatInd
  <2> QED
    BY <1>0, <2>3
<1>5. CASE N = 0
  <2> DEFINE x == more[1]
  <2>1. FlattenSeq(more) = x /\ FlattenSeq(seqs) = <<>> /\ x \in Seq(S)
    BY <1>0, <1>1, <1>2, <1>5
  <2> HIDE DEF x
  <2>2. <<>> \o x = x
    BY <2>1
  <2>3. more[Len(more)] = x
    <3>1. Len(more) = 1
      BY <1>0, <1>5
    <3> QED
      BY <3>1 DEF x
  <2> QED
    BY <2>1, <2>2, <2>3
<1>6. CASE N # 0
  <2>1. N \in 1 .. N /\ N + 1 \in 1 .. N + 1 /\ N + 1 # 1 /\ (N + 1) - 1 = N
    BY <1>0, <1>6
  <2>2. h[N + 1] = h[N] \o more[N + 1]
    BY <1>2, <2>1
  <2> QED
    BY <1>0, <1>1, <1>2, <1>4, <1>6, <2>1, <2>2
<1> QED
  BY <1>5, <1>6

-----------------------------------------------------------------------------
(* The records of a row and of the first rows. *)

Record == [row: Nat, col: Nat, whole: BOOLEAN]

LEMMA LeastIsMin ==
  ASSUME NEW S \in SUBSET Nat, S # {}
  PROVE  Min(S) \in S /\ \A x \in S : Min(S) <= x
BY LeastNat DEF Min

Row == [cells: Seq({"", "x"}), bad: BOOLEAN, passes: BOOLEAN]

LEMMA ElementsAre ==
  ASSUME NEW S, NEW s \in Seq(S)
  PROVE  Len(s) \in Nat /\ DOMAIN s = 1 .. Len(s) /\ \A n \in DOMAIN s : s[n] \in S
OBVIOUS

LEMMA InputIs ==
  ASSUME input \in Inputs
  PROVE  Len(input) \in Nat /\ DOMAIN input = 1 .. Len(input)
<1>1. input \in Seq(Row)
  BY StreamAssumption DEF Row
<1> QED
  BY <1>1, ElementsAre

LEMMA CellsAre ==
  ASSUME input \in Inputs, NEW n \in DOMAIN input
  PROVE  n \in Nat /\ input[n].cells \in Seq({"", "x"})
<1>1. input \in Seq(Row)
  BY StreamAssumption DEF Row
<1>2. input[n] \in Row /\ n \in Nat
  BY <1>1, ElementsAre
<1>3. \A row \in Row : row.cells \in Seq({"", "x"})
  BY DEF Row
<1> QED
  BY <1>2, <1>3

LEMMA OptionsAre ==
  ASSUME opts \in Options
  PROVE  opts.Targets \in Seq(Nat \ {0}) /\ opts.Format \in {"text", "jsonl", "csv"}
<1>1. opts \in [Format: {"text", "jsonl", "csv"}, HasHeader: BOOLEAN,
                Targets: Seq(Nat \ {0}), PreProcess: BOOLEAN, Incremental: BOOLEAN,
                Stat: BOOLEAN, Cancellable: BOOLEAN]
  BY StreamAssumption
<1> QED
  BY <1>1

LEMMA Naturals == \A s \in Seq(Nat \ {0}) : s \in Seq(Nat)
OBVIOUS

(* The targets are looked up only where there is a row to look into. *)
LEMMA ColumnsAre ==
  ASSUME opts \in Options, input \in Inputs,
         opts.Format # "csv" \/ \E n \in DOMAIN input : input[n].cells # <<>>
  PROVE  Columns \in Seq(Nat)
<1>0. <<0>> \in Seq(Nat)
  OBVIOUS
<1>1. CASE opts.Format = "text"
  <2>1. Columns = <<0>>
    BY <1>1 DEF Columns
  <2> QED
    BY <1>0, <2>1
<1>2. CASE opts.Format # "text" /\ opts.Targets # <<>>
  <2>1. Columns = opts.Targets
    BY <1>2 DEF Columns
  <2> QED
    BY <2>1, OptionsAre, Naturals
<1>3. CASE opts.Format = "csv" /\ opts.Targets = <<>>
  <2> DEFINE some == {n \in DOMAIN input : input[n].cells # <<>>}
  <2>1. First \in some
    <3>1. some \subseteq DOMAIN input /\ some # {}
      BY <1>3
    <3>2. some \in SUBSET Nat
      BY <3>1, InputIs
    <3> QED
      BY <3>1, <3>2, LeastIsMin DEF First
  <2>2. input[First].cells \in Seq({"", "x"})
    BY <2>1, CellsAre
  <2> DEFINE cells == input[First].cells
  <2>3. Columns = [i \in DOMAIN cells |-> i]
    BY <1>3 DEF Columns
  <2> HIDE DEF cells
  <2>4. cells \in Seq({"", "x"})
    BY <2>2 DEF cells
  <2>5. Len(cells) \in Nat /\ DOMAIN cells = 1 .. Len(cells)
    BY <2>4, ElementsAre, Zenon
  <2>6. Columns = [i \in 1 .. Len(cells) |-> i]
    BY <2>3, <2>5
  <2> QED
    BY <2>5, <2>6
<1>4. CASE opts.Format = "jsonl" /\ opts.Targets = <<>>
  <2>1. Columns = <<0>>
    BY <1>4 DEF Columns
  <2> QED
    BY <1>0, <2>1
<1> QED
  BY <1>1, <1>2, <1>3, <1>4, OptionsAre

LEMMA RecordsAre ==
  ASSUME opts \in Options, input \in Inputs, NEW n \in DOMAIN input
  PROVE  RecordsOf(n) \in Seq(Record)
<1>1. CASE Skipped(n)
  <2>1. RecordsOf(n) = <<>>
    BY <1>1 DEF RecordsOf
  <2> QED
    BY <2>1
<1>2. CASE ~Skipped(n)
  <2>1. Columns \in Seq(Nat)
    <3>1. opts.Format = "csv" => input[n].cells # <<>>
      BY <1>2 DEF Skipped
    <3> QED
      BY <3>1, ColumnsAre
  <2>2. n \in Nat
    BY CellsAre
  <2>3. ASSUME NEW col \in Nat PROVE RecordOf(n, col) \in Seq(Record)
    <3> DEFINE rec == [row |-> n, col |-> col, whole |-> TRUE]
    <3>1. rec \in Record
      BY <2>2 DEF Record
    <3>2. RecordOf(n, col) = <<rec>> \/ RecordOf(n, col) = <<>>
      BY DEF RecordOf
    <3> HIDE DEF rec
    <3>3. <<rec>> \in Seq(Record) /\ <<>> \in Seq(Record)
      BY <3>1
    <3> DEFINE one == <<rec>>
    <3> HIDE DEF one
    <3> QED
      BY <3>2, <3>3 DEF one
  <2> DEFINE of(i) == RecordOf(n, Columns[i])
             all == [i \in DOMAIN Columns |-> of(i)]
  <2>4. all \in Seq(Seq(Record))
    <3>1. \A i \in DOMAIN Columns : of(i) \in Seq(Record)
      BY <2>1, <2>3
    <3>2. Len(Columns) \in Nat /\ DOMAIN Columns = 1 .. Len(Columns)
      BY <2>1
    <3> HIDE DEF of
    <3> QED
      BY <3>1, <3>2
  <2>5. RecordsOf(n) = FlattenSeq(all)
    BY <1>2 DEF RecordsOf
  <2> HIDE DEF all
  <2> QED
    BY <2>4, <2>5, FlattenIsSeq
<1> QED
  BY <1>1, <1>2

LEMMA ListedIs ==
  ASSUME opts \in Options, input \in Inputs, NEW n \in 0 .. Len(input)
  PROVE  /\ Listed(n) \in Seq(Record)
         /\ n < Len(input) => Listed(n + 1) = Listed(n) \o RecordsOf(n + 1)
<1> DEFINE of(m) == RecordsOf(m)
           rows(k) == [m \in 1 .. k |-> of(m)]
           L == Len(input)
<1>0. L \in Nat /\ n \in 0 .. L
  BY InputIs
<1>1. \A m \in 1 .. L : of(m) \in Seq(Record)
  BY RecordsAre, InputIs
<1>2. Listed(n) = FlattenSeq(rows(n)) /\ Listed(n + 1) = FlattenSeq(rows(n + 1))
  BY DEF Listed
<1> HIDE DEF of, L
<1>3. rows(n) \in Seq(Seq(Record)) /\ Len(rows(n)) = n
  BY <1>0, <1>1
<1>4. n < L => rows(n + 1) \in Seq(Seq(Record)) /\ Len(rows(n + 1)) = n + 1
  BY <1>0, <1>1
<1>5. /\ \A i \in 1 .. n : rows(n)[i] = rows(n + 1)[i]
      /\ rows(n + 1)[n + 1] = of(n + 1)
  BY <1>0
<1> HIDE DEF rows
<1>6. n < L => FlattenSeq(rows(n + 1)) = FlattenSeq(rows(n)) \o of(n + 1)
  <2> SUFFICES ASSUME n < L PROVE FlattenSeq(rows(n + 1)) = FlattenSeq(rows(n)) \o of(n + 1)
    OBVIOUS
  <2> DEFINE less == rows(n)
             more == rows(n + 1)
  <2>1. /\ less \in Seq(Seq(Record)) /\ more \in Seq(Seq(Record))
        /\ Len(more) = Len(less) + 1 /\ \A i \in 1 .. Len(less) : more[i] = less[i]
    BY <1>3, <1>4, <1>5
  <2> HIDE DEF less, more
  <2>2. FlattenSeq(more) = FlattenSeq(less) \o more[Len(more)]
    BY <2>1, FlattenOneMore
  <2> QED
    BY <1>4, <1>5, <2>2 DEF less, more
<1>7. FlattenSeq(rows(n)) \in Seq(Record)
  BY <1>3, FlattenIsSeq
<1> QED
  BY <1>2, <1>6, <1>7 DEF of, L

(* A list that begins with another one. *)
Before(s, t) == \E r \in Seq(Record) : t = s \o r

LEMMA BeforeIs ==
  ASSUME NEW s \in Seq(Record), NEW t \in Seq(Record), NEW u \in Seq(Record)
  PROVE  /\ Before(s, s)
         /\ Before(s \o t, u) => Before(s, u)
         /\ Before(s, t) => Before(s, t \o u)
<1> DEFINE S == Record
<1>0. s \in Seq(S) /\ t \in Seq(S) /\ u \in Seq(S) /\ s \o t \in Seq(S)
  OBVIOUS
<1>1. Before(s, s)
  <2>1. s = s \o <<>> /\ <<>> \in Seq(S)
    BY ConcatEmptySeq
  <2> QED
    BY <2>1 DEF Before
<1>2. ASSUME NEW r \in Seq(Record), u = (s \o t) \o r PROVE Before(s, u)
  <2>1. r \in Seq(S)
    OBVIOUS
  <2> HIDE DEF S
  <2>2. (s \o t) \o r = s \o (t \o r)
    BY <1>0, <2>1, ConcatAssociative
  <2>3. t \o r \in Seq(S)
    BY <1>0, <2>1, ConcatProperties
  <2> QED
    BY <1>2, <2>2, <2>3 DEF Before, S
<1>3. ASSUME NEW r \in Seq(Record), t = s \o r PROVE Before(s, t \o u)
  <2>1. r \in Seq(S)
    OBVIOUS
  <2> HIDE DEF S
  <2>2. (s \o r) \o u = s \o (r \o u)
    BY <1>0, <2>1, ConcatAssociative
  <2>3. r \o u \in Seq(S)
    BY <1>0, <2>1, ConcatProperties
  <2> QED
    BY <1>3, <2>2, <2>3 DEF Before, S
<1> QED
  BY <1>1, <1>2, <1>3 DEF Before

(* What the first rows give is the beginning of what more rows give. *)
LEMMA ListedGrows ==
  ASSUME opts \in Options, input \in Inputs, NEW k \in Nat, NEW n \in 0 .. Len(input), k <= n
  PROVE  Before(Listed(k), Listed(n))
<1> DEFINE T == {d \in Nat : k + d <= Len(input) => Before(Listed(k), Listed(k + d))}
<1>0. Len(input) \in Nat /\ k \in 0 .. Len(input) /\ n - k \in Nat /\ k + (n - k) = n
  <2> DEFINE L == Len(input)
  <2>1. L \in Nat /\ n \in 0 .. L
    BY InputIs
  <2> HIDE DEF L
  <2>2. L \in Nat /\ k \in 0 .. L /\ n - k \in Nat /\ k + (n - k) = n
    BY <2>1
  <2> QED
    BY <2>2 DEF L
<1>1. 0 \in T
  <2>1. Listed(k) \in Seq(Record)
    BY <1>0, ListedIs
  <2>2. k + 0 = k
    BY <1>0
  <2> QED
    BY <2>1, <2>2, BeforeIs
<1>2. ASSUME NEW d \in Nat, d \in T PROVE d + 1 \in T
  <2> SUFFICES ASSUME k + (d + 1) <= Len(input)
               PROVE  Before(Listed(k), Listed(k + (d + 1)))
    OBVIOUS
  <2> DEFINE m == k + d
  <2>1. m \in 0 .. Len(input) /\ m < Len(input) /\ k + (d + 1) = m + 1 /\ m + 1 \in DOMAIN input
    BY <1>0, InputIs
  <2>2. Before(Listed(k), Listed(m))
    BY <1>2, <2>1
  <2> DEFINE q == RecordsOf(m + 1)
             a == Listed(k)
             b == Listed(m)
  <2>3. Listed(k + (d + 1)) = b \o q
    BY <2>1, ListedIs
  <2>4. q \in Seq(Record) /\ a \in Seq(Record) /\ b \in Seq(Record)
    BY <1>0, <2>1, RecordsAre, ListedIs
  <2> HIDE DEF q, a, b
  <2>5. Before(a, b)
    BY <2>2 DEF a, b
  <2>6. Before(a, b \o q)
    BY <2>4, <2>5, BeforeIs
  <2> QED
    BY <2>3, <2>6 DEF a
<1>3. Nat \subseteq T
  <2> HIDE DEF T
  <2> QED
    BY <1>1, <1>2, NatInd
<1> DEFINE d == n - k
<1>4. d \in Nat /\ k + d = n /\ n <= Len(input)
  BY <1>0
<1>5. d \in T
  BY <1>3, <1>4
<1> HIDE DEF d
<1> QED
  BY <1>4, <1>5

(* What the beginning of a row gives: for every target its value, a part   *)
(* of it, or nothing.                                                      *)
LEMMA PiecesAre ==
  ASSUME opts \in Options, input \in Inputs, NEW n, Breakable(n),
         NEW t \in CutRecords(n)
  PROVE  t \in Seq(Record)
<1> DEFINE c == Columns
<1>1. n \in Nat /\ c \in Seq(Nat)
  BY CellsAre, ColumnsAre DEF Breakable
<1> DEFINE of(i, got) == PieceOf(n, Columns[i], got)
           all(got) == [i \in DOMAIN Columns |-> of(i, got[i])]
<1>2. PICK got \in [DOMAIN Columns -> {"whole", "part", "nothing"}] : t = FlattenSeq(all(got))
  BY DEF CutRecords
<1>3. ASSUME NEW col \in Nat, NEW w PROVE PieceOf(n, col, w) \in Seq(Record)
  <2> DEFINE rec(b) == [row |-> n, col |-> col, whole |-> b]
  <2>1. rec(TRUE) \in Record /\ rec(FALSE) \in Record
    BY <1>1 DEF Record
  <2>2. PieceOf(n, col, w) \in {<<>>, <<rec(TRUE)>>, <<rec(FALSE)>>}
    BY DEF PieceOf, RecordOf
  <2> HIDE DEF rec
  <2>3. <<rec(TRUE)>> \in Seq(Record) /\ <<rec(FALSE)>> \in Seq(Record) /\ <<>> \in Seq(Record)
    <3>1. \A x \in Record : <<x>> \in Seq(Record)
      OBVIOUS
    <3>2. <<>> \in Seq(Record)
      OBVIOUS
    <3> QED
      BY <2>1, <3>1, <3>2
  <2> DEFINE a == <<rec(TRUE)>>
             b == <<rec(FALSE)>>
  <2> HIDE DEF a, b
  <2> QED
    BY <2>2, <2>3 DEF a, b
<1>4. all(got) \in Seq(Seq(Record))
  <2>1. \A i \in DOMAIN c : of(i, got[i]) \in Seq(Record)
    BY <1>1, <1>3
  <2>2. Len(c) \in Nat /\ DOMAIN c = 1 .. Len(c)
    BY <1>1
  <2> HIDE DEF of
  <2> QED
    BY <2>1, <2>2
<1> HIDE DEF all
<1> QED
  BY <1>2, <1>4, FlattenIsSeq

(* They depend on the input and the options only. *)
LEMMA ListedSame ==
  ASSUME UNCHANGED <<opts, input>>, NEW n
  PROVE  /\ Listed(n)' = Listed(n) /\ RecordsOf(n)' = RecordsOf(n)
         /\ Bad(n)' <=> Bad(n)
<1>1. \A m : RecordsOf(m)' = RecordsOf(m)
  BY DEF RecordsOf, RecordOf, Skipped, NotEmpty, Columns, First
<1>2. Listed(n)' = Listed(n)
  BY <1>1 DEF Listed
<1> QED
  BY <1>1, <1>2 DEF Bad, First

-----------------------------------------------------------------------------
(* Types. *)

CutIsThere ==
  /\ half => Breakable(fetched + 1) /\ (fetched < source \/ stub)
  /\ stub => Breakable(source + 1) /\ command \in {"exited", "waited"}

Types ==
  /\ opts \in Options /\ input \in Inputs
  /\ command \in {"none", "running", "exited", "waited"}
  /\ parser \in {"reading", "closed"}
  /\ producer \in {"loop", "mark", "done", "returned", "crashed"}
  /\ ctxDone \in BOOLEAN /\ broken \in BOOLEAN /\ half \in BOOLEAN /\ marked \in BOOLEAN
  /\ lineNum \in Nat /\ fetched \in Nat /\ source \in Nat
  /\ lineNum <= fetched /\ fetched <= source /\ source <= Len(input)
  /\ stub \in BOOLEAN
  /\ CutIsThere
  /\ todo \in Seq(Record) /\ out \in Seq(Record) /\ sent \in Seq(Record)
  /\ Len(out) <= OutCap

(* What is left of a stream that broke off, as a last line. *)
LEMMA LastLineIs ==
  ASSUME Types, CutRow
  PROVE  /\ todo' \in Seq(Record) /\ Breakable(fetched + 1)
         /\ todo' = <<>> \/ todo' \in CutRecords(fetched + 1)
<1>1. Breakable(fetched + 1) /\ todo' \in LastLine(fetched + 1)
  BY DEF CutRow, Types, CutIsThere
<1>2. todo' = <<>> \/ todo' \in CutRecords(fetched + 1)
  BY <1>1 DEF LastLine
<1>3. todo' \in CutRecords(fetched + 1) => todo' \in Seq(Record)
  BY <1>1, PiecesAre DEF Types
<1>4. <<>> \in Seq(Record)
  OBVIOUS
<1> QED
  BY <1>1, <1>2, <1>3, <1>4

LEMMA CapacityIs == OutCap \in Nat /\ 0 <= OutCap
<1>1. OutCap \in Nat \ {0}
  BY StreamAssumption, Zenon
<1> QED
  BY <1>1

LEMMA TypeStart == Init => Types
<1> SUFFICES ASSUME Init PROVE Types
  OBVIOUS
<1>1. opts \in Options /\ input \in Inputs
  BY DEF Init
<1>2. Len(input) \in Nat
  BY <1>1, InputIs
<1>3. source \in Nat /\ source <= Len(input)
  BY <1>2 DEF Init
<1>4. <<>> \in Seq(Record) /\ Len(<<>>) <= OutCap
  BY CapacityIs
<1>5. command \in {"none", "running"}
  BY DEF Init
<1>6. /\ ctxDone = FALSE /\ broken = FALSE /\ half = FALSE /\ marked = FALSE
      /\ fetched = 0 /\ lineNum = 0 /\ parser = "reading" /\ producer = "loop"
      /\ todo = <<>> /\ out = <<>> /\ sent = <<>>
  BY DEF Init
<1>7. /\ todo \in Seq(Record) /\ out \in Seq(Record) /\ sent \in Seq(Record)
      /\ Len(out) <= OutCap
  BY <1>4, <1>6
<1>8. lineNum \in Nat /\ fetched \in Nat /\ lineNum <= fetched /\ fetched <= source
  BY <1>3, <1>6
<1>10. /\ ctxDone \in BOOLEAN /\ broken \in BOOLEAN /\ half \in BOOLEAN /\ marked \in BOOLEAN
       /\ stub \in BOOLEAN /\ ~half /\ ~stub
  BY <1>6 DEF Init
<1>9. parser \in {"reading", "closed"}
      /\ producer \in {"loop", "mark", "done", "returned", "crashed"}
  BY <1>6
<1> QED
  BY <1>1, <1>3, <1>5, <1>7, <1>8, <1>9, <1>10 DEF Types, CutIsThere

LEMMA TypeStep == Types /\ [Next]_vars => Types'
<1> SUFFICES ASSUME Types, [Next]_vars PROVE Types'
  OBVIOUS
<1>0. Len(input) \in Nat
  BY InputIs DEF Types
<1>01. \A n : Breakable(n) \in BOOLEAN
  BY DEF Breakable
<1>02. UNCHANGED input => \A n : Breakable(n)' = Breakable(n)
  BY DEF Breakable
<1>03. UNCHANGED <<input, half, fetched, source, stub, command>> => CutIsThere'
  BY <1>02 DEF Types, CutIsThere
<1>1. CASE CancelCtx \/ SourceFails \/ CommandExits \/ CommandDies \/ WaitReturns
  <2>1. /\ UNCHANGED <<opts, input, source, fetched, half, parser, lineNum, todo, out,
                       producer, sent, marked>>
        /\ ctxDone' \in BOOLEAN /\ broken' \in BOOLEAN
        /\ command' \in {"none", "running", "exited", "waited"}
        /\ stub' \in BOOLEAN
        /\ stub' => Breakable(source + 1) /\ command' \in {"exited", "waited"}
        /\ stub => stub'
    <3>1. CASE CancelCtx
      BY <3>1 DEF CancelCtx, Types, CutIsThere, cmdVars, bufVars, parseVars, prodVars
    <3>2. CASE SourceFails
      BY <3>2 DEF SourceFails, Types, CutIsThere, bufVars, parseVars, prodVars
    <3>3. CASE CommandExits \/ CommandDies
      <4>1. Exit
        BY <3>3 DEF CommandExits, CommandDies
      <4> QED
        BY <1>01, <4>1 DEF Exit, Types, CutIsThere, bufVars, parseVars, prodVars
    <3>4. CASE WaitReturns
      BY <3>4 DEF WaitReturns, Types, CutIsThere, bufVars, parseVars, prodVars
    <3> QED
      BY <1>1, <3>1, <3>2, <3>3, <3>4
  <2>2. CutIsThere'
    BY <1>02, <2>1 DEF Types, CutIsThere
  <2> QED
    BY <2>1, <2>2 DEF Types
<1>2. CASE CommandWrites
  <2>1. source' = source + 1 /\ source < Len(input)
    BY <1>2 DEF CommandWrites
  <2>2. source' \in Nat /\ fetched <= source' /\ source' <= Len(input) /\ (half => fetched < source')
    BY <1>0, <2>1 DEF Types
  <2>3. ~stub /\ UNCHANGED <<input, stub, half, fetched, command>>
    BY <1>2 DEF CommandWrites, Types, CutIsThere, bufVars
  <2>4. CutIsThere'
    BY <1>02, <2>2, <2>3 DEF Types, CutIsThere
  <2> QED
    BY <1>2, <2>2, <2>3, <2>4 DEF CommandWrites, Types, bufVars, parseVars, prodVars
<1>3. CASE Fetch
  <2>1. PICK n \in fetched .. source : \E cut \in BOOLEAN :
          /\ cut => Breakable(n + 1) /\ (n < source \/ stub)
          /\ fetched' = n /\ half' = cut
    BY <1>3 DEF Fetch
  <2>2. /\ fetched' \in Nat /\ lineNum <= fetched' /\ fetched' <= source /\ half' \in BOOLEAN
        /\ half' => Breakable(fetched' + 1) /\ (fetched' < source \/ stub)
    BY <2>1 DEF Types
  <2>3. UNCHANGED <<input, stub, source, command>>
    BY <1>3 DEF Fetch, cmdVars
  <2>4. CutIsThere'
    BY <1>02, <2>2, <2>3 DEF Types, CutIsThere
  <2> QED
    BY <1>3, <2>2, <2>3, <2>4 DEF Fetch, Types, cmdVars, parseVars, prodVars
<1>4. CASE NextRow
  <2>1. lineNum < fetched
        /\ UNCHANGED <<opts, input, ctxDone, cmdVars, bufVars, out, prodVars>>
    BY <1>4 DEF NextRow
  <2>2. lineNum + 1 \in Nat /\ lineNum + 1 <= fetched /\ lineNum + 1 \in DOMAIN input
    BY <1>0, <2>1, InputIs DEF Types
  <2>3. RecordsOf(lineNum + 1) \in Seq(Record)
    BY <2>2, RecordsAre DEF Types
  <2>4. /\ parser' \in {"reading", "closed"}
        /\ lineNum' \in Nat /\ lineNum' <= fetched /\ todo' \in Seq(Record)
    <3>1. CASE Bad(lineNum + 1)
      BY <1>4, <3>1 DEF NextRow, Types
    <3>2. CASE ~Bad(lineNum + 1)
      BY <1>4, <2>2, <2>3, <3>2 DEF NextRow, Types
    <3> QED
      BY <3>1, <3>2
  <2> QED
    BY <1>03, <2>1, <2>4 DEF Types, cmdVars, bufVars, prodVars
<1>5. CASE CutRow
  <2>1. todo' \in Seq(Record)
    BY <1>5, LastLineIs
  <2> QED
    BY <1>5, <2>1 DEF CutRow, Types, CutIsThere, prodVars
<1>6. CASE EndOfStream
  BY <1>03, <1>6 DEF EndOfStream, Types, cmdVars, bufVars, prodVars
<1>7. CASE SendRecord
  <2>1. /\ todo # <<>> /\ Len(out) < OutCap
        /\ out' = Append(out, Head(todo)) /\ todo' = Tail(todo)
    BY <1>7 DEF SendRecord
  <2>2. Head(todo) \in Record /\ Tail(todo) \in Seq(Record)
    BY <2>1 DEF Types
  <2>3. out' \in Seq(Record) /\ todo' \in Seq(Record) /\ Len(out') <= OutCap
    BY <2>1, <2>2, CapacityIs DEF Types
  <2> QED
    BY <1>03, <1>7, <2>3 DEF SendRecord, Types, cmdVars, bufVars, prodVars
<1>8. CASE ParserCancelled
  BY <1>03, <1>8 DEF ParserCancelled, Types, cmdVars, bufVars, prodVars
<1>9. CASE ForwardRecord
  <2>1. out # <<>> /\ sent' = Append(sent, Head(out)) /\ out' = Tail(out)
    BY <1>9 DEF ForwardRecord
  <2>2. Head(out) \in Record /\ Tail(out) \in Seq(Record) /\ Len(Tail(out)) <= Len(out)
    BY <2>1 DEF Types
  <2>3. sent' \in Seq(Record) /\ out' \in Seq(Record) /\ Len(out') <= OutCap
    BY <2>1, <2>2, CapacityIs DEF Types
  <2> QED
    BY <1>03, <1>9, <2>3 DEF ForwardRecord, Types, cmdVars, bufVars, parseVars
<1>10. CASE ProducerCancelled
  <2>1. out # <<>> /\ out' = Tail(out)
    BY <1>10 DEF ProducerCancelled
  <2>2. Tail(out) \in Seq(Record) /\ Len(Tail(out)) <= OutCap
    BY <2>1, CapacityIs DEF Types
  <2> QED
    BY <1>03, <1>10, <2>1, <2>2 DEF ProducerCancelled, Types, cmdVars, bufVars, parseVars
<1>11. CASE FinishTarget
  BY <1>03, <1>11 DEF FinishTarget, Types, cmdVars, bufVars, parseVars
<1>12. CASE MarkScanned
  <2>1. producer' \in {"crashed", "done"} /\ marked' \in BOOLEAN
    <3>1. (opts.Incremental /\ opts.Stat) \in BOOLEAN
      OBVIOUS
    <3> QED
      BY <1>12, <3>1 DEF MarkScanned
  <2> QED
    BY <1>03, <1>12, <2>1 DEF MarkScanned, Types, cmdVars, bufVars, parseVars
<1>13. CASE UNCHANGED vars
  BY <1>03, <1>13 DEF vars, Types, cmdVars, bufVars, parseVars, prodVars
<1> QED
  BY <1>1, <1>2, <1>3, <1>4, <1>5, <1>6, <1>7, <1>8, <1>9, <1>10, <1>11, <1>12, <1>13
  DEF Next, Command, Parser, Producer, Over

(* The type invariant: the parser is never ahead of its buffer, the buffer *)
(* never ahead of what the command has written, and a row is cut only      *)
(* where there is more to come.                                            *)
THEOREM TypeCorrect == Spec => []TypeOK
<1>1. Types => TypeOK
  BY DEF Types, CutIsThere, TypeOK
<1> QED
  BY <1>1, TypeStart, TypeStep, PTL DEF Spec

-----------------------------------------------------------------------------
(* Which records are where. *)

Stopped == command = "waited" \/ ReadFails

(* The stream has broken off and what it ended in has been taken: nothing  *)
(* more will be fetched.                                                   *)
NoMore ==
  /\ ~half /\ lineNum = fetched /\ Breakable(lineNum + 1)
  /\ Stopped \/ (command = "exited" /\ fetched = source /\ ~stub)

(* After the rows the parser has been through, what the beginning of the   *)
(* next one has given.                                                     *)
WithPiece(s) == NoMore /\ \E t \in CutRecords(lineNum + 1) : s = Listed(lineNum) \o t

Reached(s) == s = Listed(lineNum) \/ WithPiece(s)
Part(s) == \E t \in Seq(Record) : Reached(t) /\ Before(s, t)

OrderInv ==
  /\ \A n \in 1 .. lineNum : ~Bad(n)
  /\ parser = "reading" /\ producer # "returned" => Reached((sent \o out) \o todo)
  /\ producer # "returned" => Part(sent \o out)
  /\ Part(sent)

LEMMA RowsListed ==
  ASSUME Types
  PROVE  lineNum \in 0 .. Len(input) /\ Listed(lineNum) \in Seq(Record)
<1>1. lineNum \in 0 .. Len(input)
  <2> DEFINE L == Len(input)
  <2>1. L \in Nat
    BY InputIs DEF Types
  <2> HIDE DEF L
  <2>2. source <= L /\ lineNum <= fetched /\ fetched <= source
        /\ lineNum \in Nat /\ fetched \in Nat /\ source \in Nat
    BY DEF Types, L
  <2>3. lineNum \in 0 .. L
    BY <2>1, <2>2
  <2> QED
    BY <2>3 DEF L
<1> QED
  BY <1>1, ListedIs DEF Types

LEMMA AppendToConcat ==
  ASSUME NEW S, NEW s \in Seq(S), NEW r \in Seq(S), NEW q \in S
  PROVE  s \o Append(r, q) = Append(s \o r, q)
<1> DEFINE e == <<q>>
<1>1. s \in Seq(S) /\ r \in Seq(S) /\ e \in Seq(S)
  OBVIOUS
<1>2. Append(r, q) = r \o e /\ Append(s \o r, q) = (s \o r) \o e
  BY AppendIsConcat, ConcatProperties
<1> HIDE DEF e
<1>3. (s \o r) \o e = s \o (r \o e)
  BY <1>1, ConcatAssociative
<1> QED
  BY <1>2, <1>3

(* A beginning of what was given to the workers has been given to them.    *)
LEMMA PartOfPart ==
  ASSUME NEW s \in Seq(Record), NEW t \in Seq(Record),
         Part(s \o t) \/ Reached(s \o t)
  PROVE  Part(s)
<1>1. CASE Part(s \o t)
  <2>1. PICK u \in Seq(Record) : Reached(u) /\ Before(s \o t, u)
    BY <1>1 DEF Part
  <2>2. Before(s, u)
    BY <2>1, BeforeIs
  <2> QED
    BY <2>1, <2>2 DEF Part
<1>2. CASE Reached(s \o t)
  <2>1. Before(s, s \o t)
    BY DEF Before
  <2>2. s \o t \in Seq(Record)
    OBVIOUS
  <2> QED
    BY <1>2, <2>1, <2>2 DEF Part
<1> QED
  BY <1>1, <1>2

LEMMA MoveOne ==
  ASSUME NEW S, NEW a \in Seq(S), NEW b \in Seq(S), b # <<>>
  PROVE  Append(a, Head(b)) \o Tail(b) = a \o b
<1> DEFINE h == Head(b)
           one == <<h>>
           rest == Tail(b)
<1>1. h \in S /\ one \in Seq(S) /\ rest \in Seq(S)
  OBVIOUS
<1>2. one \o rest = b
  <2>1. 1 \in 1 .. Len(b) /\ Len(b) \in 1 .. Len(b) /\ h = b[1]
    OBVIOUS
  <2>2. SubSeq(b, 1, Len(b)) = << b[1] >> \o SubSeq(b, 1 + 1, Len(b))
    BY <2>1, SubSeqRecursiveFirst
  <2>3. SubSeq(b, 1, Len(b)) = b /\ rest = SubSeq(b, 2, Len(b)) /\ 1 + 1 = 2
    BY SubSeqFull, TailIsSubSeq
  <2> QED
    BY <2>1, <2>2, <2>3
<1>3. Append(a, h) = a \o one
  BY <1>1, AppendIsConcat
<1>4. a \in Seq(S) /\ one \in Seq(S) /\ rest \in Seq(S)
  BY <1>1
<1> HIDE DEF h, one, rest
<1>5. (a \o one) \o rest = a \o (one \o rest)
  BY <1>4, ConcatAssociative
<1> QED
  BY <1>2, <1>3, <1>5 DEF h, rest

LEMMA ListedNow ==
  ASSUME UNCHANGED <<opts, input>>
  PROVE  Listed(lineNum)' = Listed(lineNum')
<1>1. \A m : RecordsOf(m)' = RecordsOf(m)
  BY ListedSame
<1> QED
  BY <1>1 DEF Listed

LEMMA CutNow ==
  ASSUME UNCHANGED <<opts, input>>
  PROVE  /\ CutRecords(lineNum + 1)' = CutRecords(lineNum' + 1)
         /\ Breakable(lineNum + 1)' = Breakable(lineNum' + 1)
<1>1. \A n, col, got : PieceOf(n, col, got)' = PieceOf(n, col, got)
  BY DEF PieceOf, RecordOf, NotEmpty
<1>2. Columns' = Columns
  BY DEF Columns, First
<1> QED
  BY <1>1, <1>2 DEF CutRecords, Breakable

(* Nothing is fetched after that. *)
LEMMA NoMoreStays == Types /\ NoMore /\ [Next]_vars => NoMore'
<1> SUFFICES ASSUME Types, NoMore, [Next]_vars PROVE NoMore'
  OBVIOUS
<1>0. /\ ~half /\ lineNum = fetched /\ Breakable(lineNum + 1)
      /\ Stopped \/ (command = "exited" /\ fetched = source /\ ~stub)
      /\ lineNum \in Nat /\ source \in Nat
  BY DEF NoMore, Types
<1>1. CASE UNCHANGED <<opts, input, broken, command, source, stub, half, fetched, lineNum>>
  BY <1>0, <1>1, CutNow DEF NoMore, Stopped, ReadFails
<1>2. CASE CancelCtx \/ EndOfStream \/ SendRecord \/ ParserCancelled \/ Producer \/ UNCHANGED vars
  <2>1. UNCHANGED <<opts, input, broken, command, source, stub, half, fetched, lineNum>>
    <3>1. CASE CancelCtx
      BY <3>1 DEF CancelCtx, cmdVars, bufVars, parseVars
    <3>2. CASE EndOfStream
      BY <3>2 DEF EndOfStream, cmdVars, bufVars
    <3>3. CASE SendRecord
      BY <3>3 DEF SendRecord, cmdVars, bufVars
    <3>4. CASE ParserCancelled
      BY <3>4 DEF ParserCancelled, cmdVars, bufVars
    <3>5. CASE ForwardRecord
      BY <3>5 DEF ForwardRecord, cmdVars, bufVars, parseVars
    <3>6. CASE ProducerCancelled
      BY <3>6 DEF ProducerCancelled, cmdVars, bufVars, parseVars
    <3>7. CASE FinishTarget
      BY <3>7 DEF FinishTarget, cmdVars, bufVars, parseVars
    <3>8. CASE MarkScanned
      BY <3>8 DEF MarkScanned, cmdVars, bufVars, parseVars
    <3>9. CASE UNCHANGED vars
      BY <3>9 DEF vars, cmdVars, bufVars, parseVars
    <3> QED
      BY <1>2, <3>1, <3>2, <3>3, <3>4, <3>5, <3>6, <3>7, <3>8, <3>9 DEF Producer
  <2> QED
    BY <1>1, <2>1
<1>3. CASE SourceFails \/ WaitReturns \/ CommandWrites \/ CommandExits \/ CommandDies
  <2>1. /\ UNCHANGED <<opts, input, half, fetched, lineNum>>
        /\ Stopped' \/ (command' = "exited" /\ fetched = source' /\ ~stub')
    <3>1. CASE SourceFails
      BY <1>0, <3>1 DEF SourceFails, Stopped, ReadFails, bufVars, parseVars
    <3>2. CASE WaitReturns
      BY <1>0, <3>2 DEF WaitReturns, Stopped, bufVars, parseVars
    <3>3. CASE CommandWrites
      BY <1>0, <3>3 DEF CommandWrites, Stopped, ReadFails
    <3>4. CASE Exit
      BY <1>0, <3>4 DEF Exit, Stopped, ReadFails
    <3> QED
      BY <1>3, <3>1, <3>2, <3>3, <3>4 DEF CommandExits, CommandDies
  <2> QED
    BY <1>0, <2>1, CutNow DEF NoMore
<1>4. CASE Fetch
  <2>1. \E n \in fetched .. source : \E cut \in BOOLEAN :
           /\ n > fetched \/ (cut /\ ~half)
           /\ cut => Breakable(n + 1) /\ (n < source \/ stub)
    BY <1>4 DEF Fetch
  <2>2. ~Stopped
    BY <1>4 DEF Fetch, Stopped
  <2> QED
    BY <1>0, <2>1, <2>2
<1>5. CASE NextRow
  BY <1>0, <1>5 DEF NextRow
<1>6. CASE CutRow
  BY <1>0, <1>6 DEF CutRow
<1> QED
  BY <1>2, <1>3, <1>4, <1>5, <1>6 DEF Next, Command, Parser, Over

(* The records move on, from the row to the parser's channel and from there *)
(* to the workers, or stay where they are.                                  *)
LEMMA MovesKeepOrder ==
  ASSUME Types, OrderInv,
         NEW s \in Seq(Record), NEW o \in Seq(Record), NEW t \in Seq(Record),
         sent' = s, out' = o, todo' = t,
         UNCHANGED <<opts, input, lineNum>>,
         NoMore => NoMore',
         producer' # "returned" =>
           /\ producer # "returned"
           /\ \/ s \o o = sent \o out /\ (parser' = "reading" => parser = "reading" /\ t = todo)
              \/ parser = "reading" /\ (s \o o) \o t = (sent \o out) \o todo,
         producer' = "returned" => s = sent
  PROVE  OrderInv'
<1>1. Listed(lineNum)' = Listed(lineNum)
  BY ListedNow
<1>2. (\A n \in 1 .. lineNum : ~Bad(n))'
  <2>1. \A n : Bad(n)' <=> Bad(n)
    BY ListedSame
  <2> QED
    BY <2>1 DEF OrderInv
<1>3. /\ \A x : Reached(x) => (x = Listed(lineNum) \/ WithPiece(x))'
      /\ \A x : Part(x) => (\E u \in Seq(Record) : Reached(u)' /\ Before(x, u))
  <2>1. CutRecords(lineNum + 1)' = CutRecords(lineNum + 1)
    BY CutNow
  <2>2. \A x : WithPiece(x) => (NoMore' /\ \E u \in CutRecords(lineNum + 1)' : x = Listed(lineNum)' \o u)
    BY <1>1, <2>1 DEF WithPiece
  <2> QED
    BY <1>1, <2>2 DEF Reached, Part, WithPiece
<1>4. CASE producer' = "returned"
  <2>1. Part(s)
    BY <1>4 DEF OrderInv
  <2>2. Part(sent)'
    BY <1>3, <1>4, <2>1 DEF Part, Before
  <2> QED
    BY <1>2, <1>4, <2>2 DEF OrderInv
<1>5. CASE producer' # "returned"
  <2> DEFINE so == s \o o
             all == so \o t
  <2>1. parser' = "reading" => Reached(all)
    BY <1>5 DEF OrderInv
  <2>2. Part(so)
    <3>1. CASE so = sent \o out
      BY <1>5, <3>1 DEF OrderInv
    <3>2. CASE parser = "reading" /\ all = (sent \o out) \o todo
      <4>1. Reached(all) /\ so \in Seq(Record)
        BY <1>5, <3>2 DEF OrderInv
      <4> HIDE DEF so
      <4> QED
        BY <4>1, PartOfPart
    <3> QED
      BY <1>5, <3>1, <3>2
  <2>3. Part(s)
    BY <2>2, PartOfPart
  <2> HIDE DEF so, all
  <2>5. Part(sent)'
    BY <1>3, <2>3 DEF Part, Before
  <2>6. Part(sent \o out)'
    BY <1>3, <2>2 DEF Part, Before, so
  <2>7. (parser = "reading" => Reached((sent \o out) \o todo))'
    BY <1>3, <2>1 DEF Reached, so, all
  <2> QED
    BY <1>2, <2>5, <2>6, <2>7 DEF OrderInv
<1> QED
  BY <1>4, <1>5

(* The next row has been read: its records join those of the rows before.  *)
LEMMA NextKeepsOrder ==
  ASSUME Types, OrderInv, NextRow
  PROVE  OrderInv'
<1>1. /\ parser = "reading" /\ todo = <<>> /\ lineNum < fetched
      /\ UNCHANGED <<opts, input, ctxDone, cmdVars, bufVars, out, prodVars>>
  BY DEF NextRow
<1>2. UNCHANGED <<opts, input, out, sent, producer, half, fetched, source, command, broken>>
  BY <1>1 DEF cmdVars, bufVars, prodVars
<1>3. ~NoMore
  BY <1>1 DEF NoMore, Types
<1>4. CASE Bad(lineNum + 1)
  <2>1. parser' = "closed" /\ UNCHANGED <<lineNum, todo>>
    BY <1>4 DEF NextRow
  <2>2. sent \in Seq(Record) /\ out \in Seq(Record) /\ todo \in Seq(Record)
    BY DEF Types
  <2> QED
    BY <1>2, <1>3, <2>1, <2>2, MovesKeepOrder
<1>5. CASE ~Bad(lineNum + 1)
  <2>1. parser' = parser /\ lineNum' = lineNum + 1 /\ todo' = RecordsOf(lineNum + 1)
    BY <1>5 DEF NextRow
  <2>2. lineNum \in 0 .. Len(input) /\ lineNum < Len(input) /\ lineNum + 1 \in DOMAIN input
        /\ lineNum \in Nat /\ Listed(lineNum) \in Seq(Record)
    <3>1. lineNum \in 0 .. Len(input) /\ Listed(lineNum) \in Seq(Record)
      BY RowsListed
    <3> DEFINE L == Len(input)
    <3>2. L \in Nat /\ DOMAIN input = 1 .. L
      BY InputIs DEF Types
    <3>3. lineNum \in Nat /\ lineNum < L
      <4>1. fetched <= source /\ source <= L /\ fetched \in Nat /\ source \in Nat /\ lineNum \in Nat
        BY DEF Types
      <4> HIDE DEF L
      <4> QED
        BY <1>1, <3>2, <4>1
    <3> HIDE DEF L
    <3>4. lineNum + 1 \in 1 .. L
      BY <3>2, <3>3
    <3> QED
      BY <3>1, <3>2, <3>3, <3>4 DEF L
  <2> DEFINE new == RecordsOf(lineNum + 1)
             old == Listed(lineNum)
             more == Listed(lineNum + 1)
  <2>3. new \in Seq(Record) /\ old \in Seq(Record) /\ more = old \o new
    BY <2>2, RecordsAre, ListedIs DEF Types
  <2>4. Listed(lineNum)' = more
    BY <1>1, <2>1, ListedNow
  <2>5. \A x : ~WithPiece(x)
    BY <1>3 DEF WithPiece
  <2>6. (\A n \in 1 .. lineNum : ~Bad(n))'
    <3>1. \A n : Bad(n)' <=> Bad(n)
      BY <1>2, ListedSame
    <3>2. \A n \in 1 .. lineNum + 1 : n \in 1 .. lineNum \/ n = lineNum + 1
      BY <2>2
    <3>3. \A n \in 1 .. lineNum + 1 : ~Bad(n)
      BY <1>5, <3>2 DEF OrderInv
    <3> QED
      BY <2>1, <3>1, <3>3
  <2> HIDE DEF new, old, more
  <2>7. \A x \in Seq(Record) : Part(x) => Before(x, more)
    BY <2>3, <2>5, BeforeIs DEF Part, Reached, old
  <2>8. sent \in Seq(Record) /\ out \in Seq(Record) /\ sent \o out \in Seq(Record)
        /\ more \in Seq(Record)
    BY <2>3 DEF Types
  <2> DEFINE so == sent \o out
  <2>9. producer # "returned" => so \o new = more
    <3> SUFFICES ASSUME producer # "returned" PROVE so \o new = more
      OBVIOUS
    <3>1. Reached(so \o <<>>)
      BY <1>1 DEF OrderInv
    <3>2. so \in Seq(Record)
      BY <2>8
    <3> HIDE DEF so
    <3>3. so \o <<>> = so
      BY <3>2, ConcatEmptySeq
    <3> QED
      BY <2>3, <2>5, <3>1, <3>3 DEF Reached, old
  <2>10. Part(sent)'
    BY <1>2, <2>4, <2>7, <2>8 DEF Part, Reached, Before, OrderInv
  <2>11. producer # "returned" => Part(sent \o out)'
    BY <1>2, <2>4, <2>7, <2>8 DEF Part, Reached, Before, OrderInv
  <2>12. producer # "returned" => Reached((sent \o out) \o todo)'
    BY <1>2, <2>1, <2>4, <2>9 DEF Reached, new
  <2> QED
    BY <1>2, <2>6, <2>10, <2>11, <2>12 DEF OrderInv
<1> QED
  BY <1>4, <1>5

(* The stream has broken off within a row: nothing follows the piece.      *)
LEMMA CutKeepsOrder ==
  ASSUME Types, OrderInv, CutRow
  PROVE  OrderInv'
<1>1. /\ parser = "reading" /\ todo = <<>> /\ lineNum = fetched /\ Ended /\ half
      /\ half' = FALSE /\ stub' = FALSE
      /\ UNCHANGED <<opts, input, lineNum, out, sent, producer, parser, fetched, source, command, broken>>
  BY DEF CutRow, prodVars
<1>2. /\ todo' \in Seq(Record) /\ Breakable(lineNum + 1)
      /\ todo' = <<>> \/ todo' \in CutRecords(lineNum + 1)
  BY <1>1, LastLineIs
<1>3. NoMore'
  <2>1. Breakable(lineNum + 1)'
    BY <1>1, <1>2, CutNow
  <2>2. Stopped' \/ (command = "exited" /\ fetched = source)
    <3>1. AtEOF => command = "exited" /\ fetched = source
      <4>1. stub => command \in {"exited", "waited"}
        BY DEF Types, CutIsThere
      <4>2. half => fetched < source \/ stub
        BY DEF Types, CutIsThere
      <4>3. fetched \in Nat /\ source \in Nat
        BY DEF Types
      <4> QED
        BY <1>1, <4>1, <4>2, <4>3 DEF AtEOF
    <3> QED
      BY <1>1, <3>1 DEF Ended, Stopped, ReadFails
  <2> QED
    BY <1>1, <2>1, <2>2 DEF NoMore
<1>4. ~NoMore
  BY <1>1 DEF NoMore
<1>5. /\ Listed(lineNum)' = Listed(lineNum) /\ Listed(lineNum) \in Seq(Record)
      /\ CutRecords(lineNum + 1)' = CutRecords(lineNum + 1)
  BY <1>1, ListedNow, CutNow, RowsListed
<1>6. (\A n \in 1 .. lineNum : ~Bad(n))'
  <2>1. \A n : Bad(n)' <=> Bad(n)
    BY <1>1, ListedSame
  <2> QED
    BY <1>1, <2>1 DEF OrderInv
<1>7. \A x : Part(x) => Before(x, Listed(lineNum))
  BY <1>4 DEF Part, Reached, WithPiece
<1>8. Part(sent)' /\ (producer # "returned" => Part(sent \o out)')
  BY <1>1, <1>5, <1>7 DEF Part, Reached, Before, OrderInv
<1>9. producer # "returned" => Reached((sent \o out) \o todo)'
  <2> SUFFICES ASSUME producer # "returned" PROVE Reached((sent \o out) \o todo)'
    OBVIOUS
  <2> DEFINE so == sent \o out
  <2>1. so \in Seq(Record)
    BY DEF Types
  <2>2. Reached(so \o <<>>)
    BY <1>1 DEF OrderInv
  <2> HIDE DEF so
  <2>3. so = Listed(lineNum) /\ so \o <<>> = so
    BY <1>4, <2>1, <2>2, ConcatEmptySeq DEF Reached, WithPiece
  <2>4. CASE todo' = <<>>
    BY <1>1, <1>5, <2>3, <2>4 DEF Reached, so
  <2>5. CASE todo' \in CutRecords(lineNum + 1)
    BY <1>1, <1>3, <1>5, <2>3, <2>5 DEF Reached, WithPiece, so
  <2> QED
    BY <1>2, <2>4, <2>5
<1> QED
  BY <1>1, <1>6, <1>8, <1>9 DEF OrderInv

LEMMA OrderStart == Init => OrderInv
<1> SUFFICES ASSUME Init PROVE OrderInv
  OBVIOUS
<1>1. lineNum = 0 /\ sent = <<>> /\ out = <<>> /\ todo = <<>>
  BY DEF Init
<1>2. Listed(lineNum) = <<>>
  <2> DEFINE none == [m \in 1 .. 0 |-> RecordsOf(m)]
  <2>1. none = <<>>
    OBVIOUS
  <2>2. FlattenSeq(<<>>) = <<>>
    BY DEF FlattenSeq
  <2> QED
    BY <1>1, <2>1, <2>2 DEF Listed
<1>3. <<>> \o <<>> = <<>> /\ <<>> \in Seq(Record)
  OBVIOUS
<1>4. Before(<<>>, <<>>)
  BY <1>3 DEF Before
<1>5. Reached(<<>>)
  BY <1>2 DEF Reached
<1>6. Part(<<>>)
  BY <1>3, <1>4, <1>5 DEF Part
<1> QED
  BY <1>1, <1>2, <1>3, <1>6 DEF OrderInv, Reached

LEMMA OrderStep == Types /\ OrderInv /\ [Next]_vars => OrderInv'
<1> SUFFICES ASSUME Types, OrderInv, [Next]_vars PROVE OrderInv'
  OBVIOUS
<1>0. sent \in Seq(Record) /\ out \in Seq(Record) /\ todo \in Seq(Record)
  BY DEF Types
<1>01. NoMore => NoMore'
  BY NoMoreStays
<1>1. CASE CancelCtx \/ SourceFails \/ CommandDies \/ Command \/ Fetch \/ FinishTarget \/ MarkScanned \/ UNCHANGED vars
  <2>1. UNCHANGED <<opts, input, lineNum, parser, todo, out, sent>>
        /\ (producer' = "returned" <=> producer = "returned")
    <3>1. CASE CancelCtx \/ SourceFails \/ Fetch \/ UNCHANGED vars
      BY <3>1 DEF CancelCtx, SourceFails, Fetch, vars, cmdVars, bufVars, parseVars, prodVars
    <3>2. CASE CommandDies \/ Command
      BY <3>2 DEF Command, CommandDies, CommandWrites, CommandExits, Exit, WaitReturns,
                  bufVars, parseVars, prodVars
    <3>3. CASE FinishTarget \/ MarkScanned
      BY <3>3 DEF FinishTarget, MarkScanned, parseVars
    <3> QED
      BY <1>1, <3>1, <3>2, <3>3
  <2> QED
    BY <1>0, <1>01, <2>1, MovesKeepOrder
<1>2. CASE NextRow
  BY <1>2, NextKeepsOrder
<1>3. CASE CutRow
  BY <1>3, CutKeepsOrder
<1>4. CASE EndOfStream \/ ParserCancelled
  <2>1. /\ UNCHANGED <<opts, input, lineNum, out, sent, producer, command, broken, half, fetched, source>>
        /\ parser' = "closed" /\ todo' \in {todo, <<>>}
    BY <1>4 DEF EndOfStream, ParserCancelled, cmdVars, bufVars, prodVars
  <2>3. todo' \in Seq(Record)
    <3>1. CASE todo' = <<>>
      BY <3>1
    <3> QED
      BY <1>0, <2>1, <3>1
  <2> QED
    BY <1>0, <1>01, <2>1, <2>3, MovesKeepOrder
<1>5. CASE SendRecord
  <2>1. /\ parser = "reading" /\ todo # <<>>
        /\ out' = Append(out, Head(todo)) /\ todo' = Tail(todo)
        /\ UNCHANGED <<opts, input, lineNum, sent, producer, command, broken, half, fetched, source>>
    BY <1>5 DEF SendRecord, cmdVars, bufVars, prodVars
  <2>3. Head(todo) \in Record /\ Tail(todo) \in Seq(Record) /\ Append(out, Head(todo)) \in Seq(Record)
    BY <1>0, <2>1
  <2> DEFINE so == sent \o out
  <2>4. so \in Seq(Record)
    BY <1>0
  <2>5. sent \o Append(out, Head(todo)) = Append(so, Head(todo))
    BY <1>0, <2>3, AppendToConcat
  <2>6. Append(so, Head(todo)) \o Tail(todo) = so \o todo
    <3> HIDE DEF so
    <3> QED
      BY <1>0, <2>1, <2>4, MoveOne
  <2>7. (sent \o out') \o todo' = (sent \o out) \o todo
    BY <2>1, <2>5, <2>6
  <2>8. out' \in Seq(Record) /\ todo' \in Seq(Record)
    BY <2>1, <2>3
  <2> QED
    BY <1>0, <1>01, <2>1, <2>7, <2>8, MovesKeepOrder
<1>6. CASE ForwardRecord
  <2>1. /\ out # <<>> /\ sent' = Append(sent, Head(out)) /\ out' = Tail(out)
        /\ UNCHANGED <<opts, input, lineNum, parser, todo, producer, command, broken, half, fetched, source>>
        /\ producer = "loop"
    BY <1>6 DEF ForwardRecord, cmdVars, bufVars, parseVars
  <2>3. sent' \in Seq(Record) /\ out' \in Seq(Record) /\ todo' \in Seq(Record)
    BY <1>0, <2>1
  <2>4. sent' \o out' = sent \o out
    BY <1>0, <2>1, MoveOne
  <2> QED
    BY <1>01, <2>1, <2>3, <2>4, MovesKeepOrder
<1>7. CASE ProducerCancelled
  <2>1. /\ out # <<>> /\ out' = Tail(out) /\ producer' = "returned"
        /\ UNCHANGED <<opts, input, lineNum, parser, todo, sent, command, broken, half, fetched, source>>
    BY <1>7 DEF ProducerCancelled, cmdVars, bufVars, parseVars
  <2>3. out' \in Seq(Record)
    BY <1>0, <2>1
  <2> QED
    BY <1>0, <1>01, <2>1, <2>3, MovesKeepOrder
<1> QED
  BY <1>1, <1>2, <1>3, <1>4, <1>5, <1>6, <1>7 DEF Next, Parser, Producer, Over

LEMMA OrderHolds == Spec => [](Types /\ OrderInv)
BY TypeStart, TypeStep, OrderStart, OrderStep, PTL DEF Spec

-----------------------------------------------------------------------------
(* The rows a reader of the whole stream would get to. *)

LEMMA LimitIs ==
  ASSUME Types
  PROVE  /\ Limit \in 1 .. Len(input) + 1
         /\ \A n \in 1 .. Limit - 1 : ~Bad(n)
         /\ Limit \in DOMAIN input => Bad(Limit)
         /\ (\A n \in DOMAIN input : ~Bad(n)) => Limit = Len(input) + 1
         /\ (\E n \in DOMAIN input : Bad(n)) => Limit <= Len(input)
<1>0. Len(input) \in Nat /\ DOMAIN input = 1 .. Len(input)
  BY InputIs DEF Types
<1> DEFINE L == Len(input)
           dom == DOMAIN input
           IsLimit(n) == Bad(n) /\ \A m \in 1 .. n - 1 : ~Bad(m)
<1>1. CASE \E n \in dom : Bad(n)
  <2> DEFINE bad == {n \in dom : Bad(n)}
  <2>1. bad \in SUBSET Nat /\ bad # {}
    BY <1>0, <1>1
  <2>2. PICK least \in bad : \A n \in bad : least <= n
    BY <2>1, LeastNat
  <2>3. least \in dom /\ IsLimit(least)
    <3>1. least \in dom /\ Bad(least)
      BY <2>2
    <3>2. ASSUME NEW m \in 1 .. least - 1 PROVE ~Bad(m)
      <4>1. m \in dom /\ ~(least <= m)
        BY <1>0, <3>1
      <4> QED
        BY <2>2, <4>1
    <3> QED
      BY <3>1, <3>2
  <2>4. Limit = CHOOSE n \in dom : IsLimit(n)
    BY <1>1 DEF Limit
  <2> HIDE DEF IsLimit
  <2>5. Limit \in dom /\ IsLimit(Limit)
    BY <2>3, <2>4
  <2> USE DEF IsLimit
  <2> HIDE DEF L, dom
  <2>6. L \in Nat /\ dom = 1 .. L
    BY <1>0 DEF L, dom
  <2>7. Limit \in 1 .. L + 1 /\ Limit <= L
    BY <2>5, <2>6
  <2> QED
    BY <1>1, <2>5, <2>7 DEF L, dom
<1>2. CASE ~ \E n \in dom : Bad(n)
  <2>1. Limit = L + 1
    BY <1>2 DEF Limit
  <2> HIDE DEF L, dom
  <2>2. L \in Nat /\ dom = 1 .. L
    BY <1>0 DEF L, dom
  <2>3. Limit \in 1 .. L + 1 /\ 1 .. Limit - 1 = dom /\ Limit \notin dom
    BY <2>1, <2>2
  <2> QED
    BY <1>2, <2>1, <2>3 DEF L, dom
<1> QED
  BY <1>1, <1>2

LEMMA ExpectedIs == Expected = Listed(Limit - 1)
BY DEF Expected, Listed

LEMMA PrefixIs ==
  ASSUME NEW S, NEW s \in Seq(S), NEW r \in Seq(S)
  PROVE  IsPrefix(s, s \o r)
<1>1. Len(s) \in Nat /\ Len(s) <= Len(s \o r) /\ SubSeq(s, 1, Len(s)) = s
  BY SubSeqFull
<1>2. SubSeq(s \o r, 1, Len(s)) = s
  <2>1. CASE s = <<>>
    BY <2>1, SubSeqEmpty
  <2>2. CASE s # <<>>
    <3>1. 1 \in 1 .. Len(s) /\ Len(s) \in 1 .. Len(s)
      BY <2>2
    <3> QED
      BY <1>1, <3>1, SubSeqOfConcat1
  <2> QED
    BY <2>1, <2>2
<1> QED
  BY <1>1, <1>2 DEF IsPrefix

(* What the rows so far have given is where the expected list begins.      *)
LEMMA SoFarExpected ==
  ASSUME Types, OrderInv
  PROVE  Before(Listed(lineNum), Expected)
<1> DEFINE L == Len(input)
<1>1. L \in Nat /\ DOMAIN input = 1 .. L
  BY InputIs DEF Types
<1>2. lineNum \in 0 .. L
  BY RowsListed
<1>3. Limit \in 1 .. L + 1 /\ (Limit \in 1 .. L => Bad(Limit))
  BY <1>1, LimitIs
<1>4. Limit \notin 1 .. lineNum \/ ~(Limit \in 1 .. L)
  BY <1>3 DEF OrderInv
<1> HIDE DEF L
<1>5. Limit - 1 \in 0 .. L /\ lineNum <= Limit - 1 /\ lineNum \in Nat
  BY <1>1, <1>2, <1>3, <1>4
<1> DEFINE k == lineNum
           n == Limit - 1
<1>6. k \in Nat /\ n \in 0 .. Len(input) /\ k <= n
  BY <1>5 DEF L
<1> HIDE DEF k, n
<1>7. Before(Listed(k), Listed(n))
  BY <1>6, ListedGrows DEF Types
<1> QED
  BY <1>7, ExpectedIs DEF k, n

(* The workers get the records of the stream in order, none skipped, none  *)
(* twice and each one whole, however the stream is cut into blocks; only a *)
(* stream that broke off can end, after all the rows in front, in what the *)
(* beginning of one row gives, whatever its targets.                       *)
THEOREM InOrderHolds == Spec => []InOrderAndWhole
<1>1. Types /\ OrderInv => InOrderAndWhole
  <2> SUFFICES ASSUME Types, OrderInv PROVE InOrderAndWhole
    OBVIOUS
  <2> DEFINE l == Listed(lineNum)
  <2>1. l \in Seq(Record) /\ sent \in Seq(Record)
    BY RowsListed DEF Types
  <2>2. PICK r \in Seq(Record) : Expected = l \o r
    BY SoFarExpected DEF Before
  <2>3. PICK s \in Seq(Record) : Reached(s) /\ Before(sent, s)
    BY DEF OrderInv, Part
  <2>4. CASE s = l
    <3>1. Before(sent, l \o r)
      <4> HIDE DEF l
      <4> QED
        BY <2>1, <2>2, <2>3, <2>4, BeforeIs
    <3>2. PICK q \in Seq(Record) : Expected = sent \o q
      BY <2>2, <3>1 DEF Before
    <3>3. IsPrefix(sent, Expected)
      BY <2>1, <3>2, PrefixIs
    <3> QED
      BY <3>3 DEF InOrderAndWhole
  <2>5. CASE WithPiece(s)
    <3> DEFINE n == lineNum + 1
               L == Len(input)
    <3>1. PICK t \in CutRecords(n) : s = l \o t
      BY <2>5 DEF WithPiece
    <3>2. n \in DOMAIN input /\ lineNum = fetched
      BY <2>5 DEF WithPiece, NoMore, Breakable
    <3>3. L \in Nat /\ DOMAIN input = 1 .. L
      BY InputIs DEF Types
    <3>4. lineNum \in Nat /\ n - 1 = lineNum /\ lineNum < L
      <4>1. lineNum \in Nat
        BY DEF Types
      <4>2. lineNum + 1 \in 1 .. L
        BY <3>2, <3>3
      <4> HIDE DEF L
      <4> QED
        BY <3>3, <4>1, <4>2
    <3>5. n <= Limit
      <4>1. Limit \in 1 .. L + 1 /\ (Limit \in 1 .. L => Bad(Limit))
        BY <3>3, LimitIs
      <4>2. Limit \notin 1 .. lineNum \/ ~(Limit \in 1 .. L)
        BY <4>1 DEF OrderInv
      <4> HIDE DEF L
      <4> QED
        BY <3>3, <3>4, <4>1, <4>2
    <3>6. BrokeOff
      <4>1. Stopped \/ (command = "exited" /\ source < L)
        BY <2>5, <3>2, <3>4 DEF WithPiece, NoMore
      <4> QED
        BY <4>1 DEF BrokeOff, Stopped
    <3>7. IsPrefix(sent, Listed(n - 1) \o t)
      <4>1. PICK q \in Seq(Record) : s = sent \o q
        BY <2>3 DEF Before
      <4>2. IsPrefix(sent, s)
        BY <2>1, <4>1, PrefixIs
      <4> QED
        BY <3>1, <3>4, <4>2
    <3> HIDE DEF n, L
    <3> QED
      BY <3>1, <3>2, <3>5, <3>6, <3>7 DEF InOrderAndWhole
  <2> QED
    BY <2>3, <2>4, <2>5 DEF Reached
<1> QED
  BY <1>1, OrderHolds, PTL

-----------------------------------------------------------------------------
(* How the reading of a target ends. *)

Excuse == \/ ctxDone \/ broken
          \/ \E n \in DOMAIN input : Bad(n)
          \/ command \in {"exited", "waited"} /\ source < Len(input)
          \/ command = "waited" /\ fetched < source

(* A parser that is through has either had every row or one of the reasons *)
(* to leave some out.                                                      *)
EndInv ==
  /\ producer = "returned" => ctxDone
  /\ producer \in {"mark", "done", "crashed"} => parser = "closed" /\ out = <<>>
  /\ marked => producer = "done"
  /\ command = "none" => source = Len(input)
  /\ parser = "closed" /\ producer # "returned" => Excuse \/ sent \o out = Listed(Len(input))

LEMMA ExcuseStays ==
  ASSUME UNCHANGED <<opts, input>>,
         ctxDone => ctxDone', broken => broken',
         command = "waited" => UNCHANGED <<command, fetched, source>> \/ ctxDone' \/ broken',
         command \in {"exited", "waited"} => command' \in {"exited", "waited"} /\ UNCHANGED source
  PROVE  Excuse => Excuse'
<1>1. \A n : Bad(n)' <=> Bad(n)
  BY ListedSame
<1> QED
  BY <1>1 DEF Excuse

LEMMA EndStart == Init => EndInv
BY DEF Init, EndInv

LEMMA AllSame ==
  ASSUME UNCHANGED <<opts, input>>
  PROVE  Listed(Len(input))' = Listed(Len(input))
<1>1. \A m : RecordsOf(m)' = RecordsOf(m)
  BY ListedSame
<1> QED
  BY <1>1 DEF Listed

(* The parser goes on, or it is closed already. *)
LEMMA GoesOn ==
  ASSUME Types, EndInv,
         UNCHANGED <<opts, input, ctxDone, broken, command, source, parser, producer, marked>>,
         parser = "reading" \/ UNCHANGED fetched,
         producer # "returned" => parser = "reading" \/ sent' \o out' = sent \o out,
         producer \in {"mark", "done", "crashed"} => parser = "reading" \/ out' = out
  PROVE  EndInv'
<1>1. Listed(Len(input))' = Listed(Len(input))
  BY AllSame
<1>2. parser = "closed" => (Excuse => Excuse')
  BY ExcuseStays DEF Types
<1> QED
  BY <1>1, <1>2 DEF EndInv

(* The parser has come to the end of what there is: it has been through    *)
(* every row, or the stream ended early.                                   *)
LEMMA EndHasReason ==
  ASSUME Types, OrderInv, EndInv, EndOfStream, producer # "returned"
  PROVE  Excuse \/ sent \o out = Listed(Len(input))
<1>1. parser = "reading" /\ todo = <<>> /\ lineNum = fetched /\ Ended
  BY DEF EndOfStream
<1> DEFINE so == sent \o out
<1>2. Reached(so)
  <2>1. Reached(so \o <<>>)
    BY <1>1 DEF OrderInv
  <2>2. so \in Seq(Record)
    BY DEF Types
  <2> HIDE DEF so
  <2> QED
    BY <2>1, <2>2, ConcatEmptySeq
<1> HIDE DEF so
<1>3. CASE Excuse
  BY <1>3
<1>4. CASE ~Excuse
  <2>1. fetched = source
    BY <1>1, <1>4 DEF Ended, AtEOF, ReadFails, Excuse, Types
  <2>2. source = Len(input)
    <3>1. command \in {"none", "exited", "waited"}
      BY <1>1 DEF Ended, AtEOF, ReadFails
    <3> DEFINE L == Len(input)
    <3>2. L \in Nat /\ source \in Nat /\ source <= L
      BY InputIs DEF Types
    <3>3. command = "none" => source = L
      BY DEF EndInv
    <3>4. command \in {"exited", "waited"} => ~(source < L)
      BY <1>4 DEF Excuse
    <3> HIDE DEF L
    <3>5. source = L
      BY <3>1, <3>2, <3>3, <3>4
    <3> QED
      BY <3>5 DEF L
  <2>3. so = Listed(lineNum)
    <3>1. ~NoMore
      <4>1. ~Breakable(fetched + 1)
        <5> DEFINE L == Len(input)
        <5>1. L \in Nat /\ DOMAIN input = 1 .. L /\ fetched = L
          BY <2>1, <2>2, InputIs DEF Types
        <5> HIDE DEF L
        <5>2. fetched + 1 \notin 1 .. L
          BY <5>1
        <5> QED
          BY <5>1, <5>2 DEF Breakable
      <4> QED
        BY <4>1 DEF NoMore
    <3> QED
      BY <1>2, <3>1 DEF Reached, WithPiece
  <2> QED
    BY <1>1, <2>1, <2>2, <2>3 DEF so
<1> QED
  BY <1>3, <1>4

LEMMA EndStep == Types /\ OrderInv /\ EndInv /\ [Next]_vars => EndInv'
<1> SUFFICES ASSUME Types, OrderInv, EndInv, [Next]_vars PROVE EndInv'
  OBVIOUS
<1>0. sent \in Seq(Record) /\ out \in Seq(Record)
  BY DEF Types
<1>1. CASE CancelCtx \/ SourceFails \/ CommandDies \/ Command
  <2>1. /\ UNCHANGED <<opts, input, fetched, parser, out, sent, producer, marked>>
        /\ ctxDone => ctxDone'
        /\ broken => broken'
        /\ command = "waited" => UNCHANGED <<command, source>>
        /\ command' = "none" => command = "none" /\ UNCHANGED source
        /\ command \in {"exited", "waited"} => command' \in {"exited", "waited"} /\ UNCHANGED source
    <3>1. CASE CancelCtx \/ SourceFails
      BY <3>1 DEF CancelCtx, SourceFails, Types, cmdVars, bufVars, parseVars, prodVars
    <3>2. CASE CommandWrites
      BY <3>2 DEF CommandWrites, Types, bufVars, parseVars, prodVars
    <3>3. CASE Exit
      BY <3>3 DEF Exit, Types, bufVars, parseVars, prodVars
    <3>4. CASE WaitReturns
      BY <3>4 DEF WaitReturns, Types, bufVars, parseVars, prodVars
    <3> QED
      BY <1>1, <3>1, <3>2, <3>3, <3>4 DEF Command, CommandExits, CommandDies
  <2>2. Excuse => Excuse'
    <3>1. command = "waited" => UNCHANGED <<command, fetched, source>> \/ ctxDone' \/ broken'
      BY <2>1
    <3> QED
      BY <2>1, <3>1, ExcuseStays, Zenon
  <2>3. Listed(Len(input))' = Listed(Len(input))
    BY <2>1, AllSame
  <2>5. /\ (producer = "returned" => ctxDone)'
        /\ (producer \in {"mark", "done", "crashed"} => parser = "closed" /\ out = <<>>)'
        /\ (marked => producer = "done")'
    BY <2>1 DEF EndInv
  <2>6. (command = "none" => source = Len(input))'
    BY <2>1 DEF EndInv
  <2>8. (parser = "closed" /\ producer # "returned" =>
           Excuse \/ sent \o out = Listed(Len(input)))'
    BY <2>1, <2>2, <2>3 DEF EndInv
  <2> QED
    BY <2>5, <2>6, <2>8 DEF EndInv
<1>2. CASE Fetch \/ CutRow \/ SendRecord
  <2>1. /\ parser = "reading"
        /\ UNCHANGED <<opts, input, ctxDone, broken, command, source, parser, producer, marked>>
    BY <1>2 DEF Fetch, CutRow, SendRecord, cmdVars, bufVars, parseVars, prodVars
  <2> QED
    BY <2>1, GoesOn
<1>3. CASE NextRow \/ EndOfStream \/ ParserCancelled
  <2>1. /\ parser = "reading"
        /\ UNCHANGED <<opts, input, ctxDone, broken, command, source, fetched, out, sent, producer, marked>>
    BY <1>3 DEF NextRow, EndOfStream, ParserCancelled, cmdVars, bufVars, prodVars
  <2>2. parser' = "reading" \/ Excuse \/ producer = "returned" \/ sent \o out = Listed(Len(input))
    <3>1. CASE NextRow
      <4>1. Bad(lineNum + 1) \/ parser' = parser
        BY <3>1 DEF NextRow
      <4>2. lineNum + 1 \in DOMAIN input
        <5> DEFINE L == Len(input)
        <5>1. L \in Nat /\ DOMAIN input = 1 .. L
          BY InputIs DEF Types
        <5>2. lineNum < fetched /\ fetched <= source /\ source <= L
              /\ lineNum \in Nat /\ fetched \in Nat /\ source \in Nat
          BY <3>1 DEF NextRow, Types
        <5> HIDE DEF L
        <5>3. lineNum + 1 \in 1 .. L
          BY <5>1, <5>2
        <5> QED
          BY <5>1, <5>3
      <4> QED
        BY <2>1, <4>1, <4>2 DEF Excuse
    <3>2. CASE EndOfStream
      BY <3>2, EndHasReason
    <3>3. CASE ParserCancelled
      BY <3>3 DEF ParserCancelled, Excuse
    <3> QED
      BY <1>3, <3>1, <3>2, <3>3
  <2>3. Excuse => Excuse'
    BY <2>1, ExcuseStays
  <2>4. Listed(Len(input))' = Listed(Len(input))
    BY <2>1, AllSame
  <2>5. producer \notin {"mark", "done", "crashed"} /\ ~marked
    BY <2>1 DEF EndInv
  <2> QED
    BY <2>1, <2>2, <2>3, <2>4, <2>5 DEF EndInv
<1>4. CASE ForwardRecord
  <2>1. /\ producer = "loop" /\ out # <<>> /\ sent' = Append(sent, Head(out)) /\ out' = Tail(out)
        /\ UNCHANGED <<opts, input, ctxDone, broken, command, source, fetched, parser, producer, marked>>
    BY <1>4 DEF ForwardRecord, cmdVars, bufVars, parseVars
  <2>2. sent' \o out' = sent \o out
    BY <1>0, <2>1, MoveOne
  <2> QED
    BY <2>1, <2>2, GoesOn
<1>5. CASE ProducerCancelled
  <2>1. /\ producer' = "returned" /\ ctxDone' /\ producer = "loop"
        /\ UNCHANGED <<input, broken, command, source, parser, marked, ctxDone>>
    BY <1>5 DEF ProducerCancelled, cmdVars, parseVars
  <2>2. ~marked
    BY <2>1 DEF EndInv
  <2> QED
    BY <2>1, <2>2 DEF EndInv
<1>6. CASE FinishTarget \/ MarkScanned \/ UNCHANGED vars
  <2>1. /\ UNCHANGED <<opts, input, ctxDone, broken, command, source, fetched, parser, out, sent>>
        /\ producer' = "returned" => producer = "returned"
        /\ producer' # "returned" => producer # "returned"
        /\ producer' \in {"mark", "done", "crashed"} => parser = "closed" /\ out = <<>>
        /\ marked' => producer' = "done"
    <3>1. CASE FinishTarget
      BY <3>1 DEF FinishTarget, EndInv, cmdVars, bufVars, parseVars
    <3>2. CASE MarkScanned
      BY <3>2 DEF MarkScanned, EndInv, cmdVars, bufVars, parseVars
    <3>3. CASE UNCHANGED vars
      BY <3>3 DEF EndInv, vars, cmdVars, bufVars, parseVars, prodVars
    <3> QED
      BY <1>6, <3>1, <3>2, <3>3
  <2>2. Excuse => Excuse'
    BY <2>1, ExcuseStays
  <2>3. Listed(Len(input))' = Listed(Len(input))
    BY <2>1, AllSame
  <2> QED
    BY <2>1, <2>2, <2>3 DEF EndInv
<1> QED
  BY <1>1, <1>2, <1>3, <1>4, <1>5, <1>6 DEF Next, Parser, Producer, Over

LEMMA EndHolds == Spec => [](Types /\ OrderInv /\ EndInv)
BY TypeStart, TypeStep, OrderStart, OrderStep, EndStart, EndStep, PTL DEF Spec

(* A target is marked as scanned with records missing only for one of five *)
(* reasons: a bad row, a read error, a cancellation, a command that ended  *)
(* early, and a pipe that cmd.Wait closed on unread output.                *)
THEOREM MarkedUnreadHolds == Spec => []MarkedUnreadExplained
<1>1. Types /\ OrderInv /\ EndInv => MarkedUnreadExplained
  <2> SUFFICES ASSUME Types, OrderInv, EndInv PROVE MarkedUnreadExplained
    OBVIOUS
  <2> SUFFICES ASSUME marked, ~Excuse PROVE sent = Expected /\ Limit > Len(input)
    <3>1. (\E n \in DOMAIN input : Bad(n)) => Limit <= Len(input)
      BY LimitIs
    <3> QED
      BY <3>1 DEF MarkedUnreadExplained, Excuse
  <2>1. parser = "closed" /\ out = <<>> /\ producer = "done"
    BY DEF EndInv
  <2>2. sent \o out = Listed(Len(input))
    BY <2>1 DEF EndInv
  <2>3. sent \o <<>> = sent
    BY ConcatEmptySeq DEF Types
  <2>4. Limit = Len(input) + 1
    BY LimitIs DEF Excuse
  <2> DEFINE L == Len(input)
  <2>5. L \in Nat
    BY InputIs DEF Types
  <2>6. Limit = L + 1 /\ sent = Listed(L) /\ Expected = Listed(Limit - 1)
    BY <2>1, <2>2, <2>3, <2>4, ExpectedIs
  <2> HIDE DEF L
  <2>7. Limit - 1 = L /\ Limit > L
    BY <2>5, <2>6
  <2> QED
    BY <2>6, <2>7 DEF L
<1> QED
  BY <1>1, EndHolds, PTL

=============================================================================
