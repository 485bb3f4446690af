-------------------------- MODULE RecordMatchProofs --------------------------
(***************************************************************************)
(* Proofs about RecordMatch, for every set of patterns, records, workers   *)
(* and options.                                                            *)
(***************************************************************************)
EXTENDS RecordMatch, FiniteSetTheorems, SequenceTheorems, WellFoundedInduction, TLAPS

-----------------------------------------------------------------------------
(* Induction over the naturals, for a set. *)

LEMMA NatInd ==
  ASSUME NEW S, 0 \in S, \A n \in Nat : n \in S => n + 1 \in S
  PROVE  Nat \subseteq S
<1> DEFINE T == Nat \ S
<1> SUFFICES ASSUME T # {} PROVE FALSE
  OBVIOUS
<1>1. PICK m \in T : \A k \in T : <<k, m>> \notin OpToRel(<, Nat)
  BY WFMin, NatLessThanWellFounded, Zenon
<1>2. m \in Nat /\ \A k \in T : ~(k < m)
  BY <1>1, Zenon DEF OpToRel
<1>3. m # 0
  OBVIOUS
<1>4. m - 1 \in Nat /\ m - 1 < m /\ (m - 1) + 1 = m
  BY <1>2, <1>3
<1>5. m - 1 \in S
  BY <1>2, <1>4
<1> QED
  BY <1>4, <1>5

-----------------------------------------------------------------------------
(* The "seen" map of LiteralMatcher.Match. *)

In(s, t) == \E i \in DOMAIN s : s[i] = t
Step(acc, t) == IF Contains(acc, t) THEN acc ELSE Append(acc, t)
Different(s) == \A i, j \in DOMAIN s : i # j => s[i] # s[j]

LEMMA StepIs ==
  ASSUME NEW S, NEW acc \in Seq(S), NEW t \in S, Different(acc)
  PROVE  /\ Step(acc, t) \in Seq(S) /\ Different(Step(acc, t))
         /\ \A x : In(Step(acc, t), x) <=> In(acc, x) \/ x = t
<1>1. CASE Contains(acc, t)
  <2>1. Step(acc, t) = acc
    BY <1>1 DEF Step
  <2>2. In(acc, t)
    BY <1>1 DEF Contains, In
  <2> QED
    BY <2>1, <2>2
<1>2. CASE ~Contains(acc, t)
  <2> DEFINE more == Append(acc, t)
             L == Len(acc)
  <2>1. Step(acc, t) = more /\ \A i \in 1 .. L : acc[i] # t
    BY <1>2 DEF Step, Contains
  <2>2. /\ L \in Nat /\ DOMAIN acc = 1 .. L /\ more \in Seq(S) /\ DOMAIN more = 1 .. L + 1
        /\ \A i \in 1 .. L : more[i] = acc[i]
        /\ more[L + 1] = t
    OBVIOUS
  <2> HIDE DEF more, L
  <2>3. Different(more)
    BY <2>1, <2>2 DEF Different
  <2>4. \A x : In(more, x) <=> In(acc, x) \/ x = t
    <3>1. \A i \in 1 .. L + 1 : i \in 1 .. L \/ i = L + 1
      BY <2>2
    <3>2. \A i \in 1 .. L : i \in 1 .. L + 1
      BY <2>2
    <3>3. L + 1 \in 1 .. L + 1
      BY <2>2
    <3> QED
      BY <2>2, <3>1, <3>2, <3>3, Zenon DEF In
  <2> QED
    BY <2>1, <2>2, <2>3, <2>4
<1> QED
  BY <1>1, <1>2

(* Once(s) lists what occurs in s, each thing once. *)
LEMMA OnceIs ==
  ASSUME NEW S, NEW s \in Seq(S)
  PROVE  /\ Once(s) \in Seq(S) /\ Different(Once(s))
         /\ \A x : In(Once(s), x) <=> In(s, x)
<1> DEFINE N == Len(s)
           IsStart(g, m) == /\ g \in [0 .. m -> Seq(S)]
                            /\ \A i \in 0 .. m : g[i] = IF i = 0 THEN <<>> ELSE Step(g[i - 1], s[i])
           Good(acc, n) == /\ acc \in Seq(S) /\ Different(acc)
                           /\ \A x : In(acc, x) <=> \E i \in 1 .. n : s[i] = x
           Built == {m \in Nat : m <= N => \E g : IsStart(g, m) /\ Good(g[m], m)}
<1>0. N \in Nat /\ DOMAIN s = 1 .. N /\ \A i \in 1 .. N : s[i] \in S
  OBVIOUS
<1> HIDE DEF N
<1>1. 0 \in Built
  <2> DEFINE g == [i \in 0 .. 0 |-> <<>>]
  <2>1. IsStart(g, 0)
    OBVIOUS
  <2>2. Good(<<>>, 0)
    BY DEF Different, In
  <2>3. g[0] = <<>>
    OBVIOUS
  <2> HIDE DEF g, IsStart, Good
  <2> QED
    BY <2>1, <2>2, <2>3
<1>2. ASSUME NEW m \in Nat, m \in Built PROVE m + 1 \in Built
  <2> SUFFICES ASSUME m + 1 <= N PROVE \E g : IsStart(g, m + 1) /\ Good(g[m + 1], m + 1)
    <3> HIDE DEF IsStart, Good
    <3> QED
      OBVIOUS
  <2>1. PICK g : IsStart(g, m) /\ Good(g[m], m)
    <3> HIDE DEF IsStart, Good
    <3> QED
      BY <1>0, <1>2
  <2> DEFINE old == g[m]
             x == Step(old, s[m + 1])
             h == [i \in 0 .. m + 1 |-> IF i = m + 1 THEN x ELSE g[i]]
  <2>2. s[m + 1] \in S
    BY <1>0
  <2>3. old \in Seq(S) /\ Different(old) /\ \A y : In(old, y) <=> \E i \in 1 .. m : s[i] = y
    BY <2>1
  <2> HIDE DEF old
  <2>4. x \in Seq(S) /\ Different(x) /\ \A y : In(x, y) <=> In(old, y) \/ y = s[m + 1]
    <3> DEFINE e == s[m + 1]
    <3>1. e \in S /\ x = Step(old, e)
      BY <2>2
    <3> HIDE DEF e, x
    <3>2. x \in Seq(S) /\ Different(x) /\ \A y : In(x, y) <=> In(old, y) \/ y = e
      BY <2>3, <3>1, StepIs
    <3> QED
      BY <3>2 DEF e
  <2> HIDE DEF x
  <2>5. Good(x, m + 1)
    <3>1. \A i \in 1 .. m + 1 : i \in 1 .. m \/ i = m + 1
      OBVIOUS
    <3>2. \A i \in 1 .. m : i \in 1 .. m + 1
      OBVIOUS
    <3>3. m + 1 \in 1 .. m + 1
      OBVIOUS
    <3>4. \A y : In(x, y) <=> \E i \in 1 .. m + 1 : s[i] = y
      BY <2>3, <2>4, <3>1, <3>2, <3>3, Zenon
    <3> QED
      BY <2>4, <3>4
  <2>6. h \in [0 .. m + 1 -> Seq(S)]
    <3>1. \A i \in 0 .. m + 1 : i = m + 1 \/ i \in 0 .. m
      OBVIOUS
    <3> QED
      BY <2>1, <2>4, <3>1
  <2>7. ASSUME NEW i \in 0 .. m + 1
        PROVE  h[i] = IF i = 0 THEN <<>> ELSE Step(h[i - 1], s[i])
    <3>1. CASE i = m + 1
      <4>1. h[i] = x /\ i # 0 /\ i - 1 = m /\ h[m] = g[m]
        BY <3>1
      <4> QED
        BY <3>1, <4>1 DEF x, old
    <3>2. CASE i # m + 1
      <4>1. i \in 0 .. m /\ (i # 0 => i - 1 \in 0 .. m)
        BY <3>2
      <4>2. h[i] = g[i] /\ (i # 0 => h[i - 1] = g[i - 1])
        BY <4>1
      <4>3. g[i] = IF i = 0 THEN <<>> ELSE Step(g[i - 1], s[i])
        BY <2>1, <4>1
      <4> QED
        BY <4>2, <4>3
    <3> QED
      BY <3>1, <3>2
  <2>8. h[m + 1] = x
    OBVIOUS
  <2>9. IsStart(h, m + 1)
    <3> HIDE DEF h
    <3> QED
      BY <2>6, <2>7
  <2> HIDE DEF h, Good, IsStart
  <2> QED
    BY <2>5, <2>8, <2>9
<1>3. PICK g : IsStart(g, N)
  <2>1. Nat \subseteq Built
    <3> HIDE DEF Built
    <3> QED
      BY <1>1, <1>2, NatInd
  <2> HIDE DEF IsStart, Good
  <2> QED
    BY <1>0, <2>1
<1> DEFINE Eq(f) == f = [n \in 0 .. N |-> IF n = 0 THEN <<>>
                          ELSE IF Contains(f[n - 1], s[n]) THEN f[n - 1] ELSE Append(f[n - 1], s[n])]
           upto == CHOOSE f : Eq(f)
<1>4. Eq(g)
  BY <1>3 DEF Step
<1>5. Eq(upto)
  BY <1>4
<1>6. \A i \in 0 .. N : upto[i] = IF i = 0 THEN <<>> ELSE Step(upto[i - 1], s[i])
  <2> HIDE DEF upto
  <2> QED
    BY <1>5 DEF Step
<1>7. Once(s) = upto[N]
  BY DEF Once, upto, N
<1> HIDE DEF upto
<1>8. \A n \in 0 .. N : Good(upto[n], n)
  <2> DEFINE T == {n \in Nat : n \in 0 .. N => Good(upto[n], n)}
  <2>1. 0 \in T
    <3>1. upto[0] = <<>>
      BY <1>0, <1>6
    <3>2. Good(<<>>, 0)
      BY DEF Different, In
    <3> HIDE DEF Good
    <3> QED
      BY <3>1, <3>2
  <2>2. ASSUME NEW n \in Nat, n \in T PROVE n + 1 \in T
    <3> SUFFICES ASSUME n + 1 \in 0 .. N PROVE Good(upto[n + 1], n + 1)
      <4> HIDE DEF Good
      <4> QED
        OBVIOUS
    <3>1. n \in 0 .. N /\ n + 1 \in 1 .. N /\ n + 1 # 0 /\ (n + 1) - 1 = n
      BY <1>0
    <3>2. Good(upto[n], n)
      <4> HIDE DEF Good
      <4> QED
        BY <2>2, <3>1
    <3> DEFINE old == upto[n]
               x == upto[n + 1]
    <3>3. x = Step(old, s[n + 1]) /\ s[n + 1] \in S
      BY <1>0, <1>6, <3>1
    <3>4. old \in Seq(S) /\ Different(old) /\ \A y : In(old, y) <=> \E i \in 1 .. n : s[i] = y
      BY <3>2
    <3> HIDE DEF old, x
    <3>5. x \in Seq(S) /\ Different(x) /\ \A y : In(x, y) <=> In(old, y) \/ y = s[n + 1]
      <4> DEFINE e == s[n + 1]
      <4>1. e \in S /\ x = Step(old, e)
        BY <3>3
      <4> HIDE DEF e
      <4>2. x \in Seq(S) /\ Different(x) /\ \A y : In(x, y) <=> In(old, y) \/ y = e
        BY <3>4, <4>1, StepIs
      <4> QED
        BY <4>2 DEF e
    <3>6. \A i \in 1 .. n + 1 : i \in 1 .. n \/ i = n + 1
      OBVIOUS
    <3>7. \A i \in 1 .. n : i \in 1 .. n + 1
      OBVIOUS
    <3>8. n + 1 \in 1 .. n + 1
      OBVIOUS
    <3>9. \A y : In(x, y) <=> \E i \in 1 .. n + 1 : s[i] = y
      BY <3>4, <3>5, <3>6, <3>7, <3>8, Zenon
    <3> QED
      BY <3>5, <3>9 DEF x
  <2>3. Nat \subseteq T
    <3> HIDE DEF T
    <3> QED
      BY <2>1, <2>2, NatInd
  <2> HIDE DEF Good
  <2> QED
    BY <2>3
<1>9. Good(upto[N], N)
  <2> HIDE DEF Good
  <2> QED
    BY <1>0, <1>8
<1> DEFINE all == upto[N]
<1>10. Once(s) = all /\ Good(all, N)
  BY <1>7, <1>9
<1> HIDE DEF all
<1>11. \A x : In(s, x) <=> \E i \in 1 .. N : s[i] = x
  BY <1>0 DEF In
<1> QED
  BY <1>10, <1>11

-----------------------------------------------------------------------------
(* Types. *)

Place == InMatch \cup {"recv", "filter", "dropped", "prepare", "match", "regex", "done"}

PerWorker(f) == f = [w \in Worker |-> f[w]]

Types ==
  /\ opts \in Options /\ activePatterns \in Selections
  /\ counter \in Nat /\ node \in [Texts -> Nat]
  /\ pc \in [Worker -> Place]
  /\ local \in [Worker -> Nat]
  /\ left \in [Worker -> SUBSET (Texts \X Nat)]
  /\ matches \in [Worker -> Seq(Texts)]
  /\ PerWorker(content) /\ PerWorker(found)
  /\ raced \in BOOLEAN
  /\ records \in Nat /\ records <= MaxRecords

LEMMA BoundIs == MaxRecords \in Nat /\ IsFiniteSet(Worker)
BY MatchAssumption, Zenon

(* The patterns stay what they are. *)
LEMMA SetupSame ==
  ASSUME UNCHANGED setup
  PROVE  /\ Texts' = Texts /\ UNCHANGED <<opts, activePatterns>>
         /\ \A t : NameOf(t)' = NameOf(t) /\ Ends(t)' = Ends(t)
<1>1. UNCHANGED <<opts, activePatterns>>
  BY DEF setup
<1>2. \A p : AsLiteral(p)' <=> AsLiteral(p)
  BY <1>1 DEF AsLiteral, IsLiteral
<1>3. Literals' = Literals
  BY <1>1, <1>2 DEF Literals
<1>4. Texts' = Texts
  BY <1>1, <1>3 DEF Texts
<1>5. \A t : NameOf(t)' = NameOf(t)
  BY <1>1, <1>3 DEF NameOf
<1>6. \A t : Ends(t)' = Ends(t)
  BY <1>4 DEF Ends
<1> QED
  BY <1>1, <1>4, <1>5, <1>6

LEMMA SetupStays == [Next]_vars => UNCHANGED setup
BY DEF Next, vars, Over, ReceiveRecord, CheckFilter, Prepare, EnterMatch, Count, Walk, Stamp,
       ReportLiterals, ReportRegexps

LEMMA EndsAre ==
  ASSUME NEW t
  PROVE  Ends(t) \subseteq Texts \X (1 .. Len(t)) /\ Ends(t) \subseteq Texts \X Nat
<1>1. Ends(t) \subseteq Texts \X (1 .. Len(t))
  BY DEF Ends
<1>2. 1 .. Len(t) \subseteq Nat
  OBVIOUS
<1> QED
  BY <1>1, <1>2

LEMMA TypeStart == Init => Types
<1> SUFFICES ASSUME Init PROVE Types
  OBVIOUS
<1>1. PerWorker(content) /\ PerWorker(found)
  BY DEF Init, PerWorker
<1>2. matches \in [Worker -> Seq(Texts)] /\ left \in [Worker -> SUBSET (Texts \X Nat)]
  <2>1. <<>> \in Seq(Texts)
    OBVIOUS
  <2>2. {} \in SUBSET (Texts \X Nat)
    OBVIOUS
  <2> QED
    BY <2>1, <2>2 DEF Init
<1>3. pc \in [Worker -> Place] /\ local \in [Worker -> Nat] /\ node \in [Texts -> Nat]
  BY DEF Init, Place
<1>4. counter \in Nat /\ raced \in BOOLEAN /\ records \in Nat /\ records <= MaxRecords
  <2>1. MaxRecords \in Nat => 0 <= MaxRecords
    OBVIOUS
  <2> QED
    BY <2>1, BoundIs DEF Init
<1>5. opts \in Options /\ activePatterns \in Selections
  BY DEF Init
<1> QED
  BY <1>1, <1>2, <1>3, <1>4, <1>5 DEF Types

LEMMA Elsewhere ==
  ASSUME NEW f, PerWorker(f), NEW w \in Worker, NEW x, NEW g, g = [f EXCEPT ![w] = x]
  PROVE  /\ PerWorker(g) /\ g[w] = x
         /\ \A v \in Worker : v # w => g[v] = f[v]
BY DEF PerWorker

LEMMA GotoIs ==
  ASSUME Types, NEW w \in Worker, NEW l \in Place, Goto(w, l)
  PROVE  pc' \in [Worker -> Place]
BY DEF Types, Goto

LEMMA TypeStep == Types /\ [Next]_vars => Types'
<1> SUFFICES ASSUME Types, [Next]_vars PROVE Types'
  OBVIOUS
<1>0. Texts' = Texts /\ UNCHANGED <<opts, activePatterns>>
  BY SetupStays, SetupSame
<1>1. ASSUME NEW w \in Worker, ReceiveRecord(w) PROVE Types'
  <2>1. records < MaxRecords /\ records' = records + 1
        /\ found' = [found EXCEPT ![w] = <<>>] /\ Goto(w, "filter")
        /\ UNCHANGED <<matcherVars, callVars, raced>>
    BY <1>1 DEF ReceiveRecord
  <2>2. PICK t : content' = [content EXCEPT ![w] = t]
    BY <1>1 DEF ReceiveRecord
  <2>3. PerWorker(content)' /\ PerWorker(found)'
    BY <2>1, <2>2, Elsewhere DEF Types, PerWorker
  <2>4. pc' \in [Worker -> Place]
    BY <2>1, GotoIs DEF Place
  <2>5. records' \in Nat /\ records' <= MaxRecords
    BY <2>1, BoundIs DEF Types
  <2> QED
    BY <1>0, <2>1, <2>3, <2>4, <2>5 DEF Types, matcherVars, callVars
<1>2. ASSUME NEW w \in Worker, CheckFilter(w) PROVE Types'
  <2>1. /\ Goto(w, "prepare") \/ Goto(w, "dropped")
        /\ UNCHANGED <<matcherVars, content, callVars, found, raced, records>>
    BY <1>2 DEF CheckFilter
  <2>2. pc' \in [Worker -> Place]
    BY <2>1, GotoIs DEF Place
  <2> QED
    BY <1>0, <2>1, <2>2 DEF Types, matcherVars, callVars, PerWorker
<1>3. ASSUME NEW w \in Worker, Prepare(w) PROVE Types'
  <2>1. /\ Goto(w, "regex") \/ Goto(w, "match")
        /\ UNCHANGED <<matcherVars, callVars, found, raced, records>>
    BY <1>3 DEF Prepare
  <2>2. pc' \in [Worker -> Place]
    BY <2>1, GotoIs DEF Place
  <2>3. \E t : content' = [content EXCEPT ![w] = t]
    BY <1>3 DEF Prepare
  <2>4. PerWorker(content)'
    BY <2>3, Elsewhere DEF Types, PerWorker
  <2> QED
    BY <1>0, <2>1, <2>2, <2>4 DEF Types, matcherVars, callVars, PerWorker
<1>4. ASSUME NEW w \in Worker, EnterMatch(w) PROVE Types'
  <2>1. /\ local' = [local EXCEPT ![w] = counter]
        /\ left' = [left EXCEPT ![w] = Ends(content[w])]
        /\ matches' = [matches EXCEPT ![w] = <<>>]
        /\ Goto(w, "count")
        /\ UNCHANGED <<matcherVars, content, found, records>>
    BY <1>4 DEF EnterMatch
  <2>2. pc' \in [Worker -> Place]
    BY <2>1, GotoIs DEF Place, InMatch
  <2>3. left' \in [Worker -> SUBSET (Texts \X Nat)]
    BY <2>1, EndsAre DEF Types
  <2>4. matches' \in [Worker -> Seq(Texts)]
    BY <2>1 DEF Types
  <2>5. raced' \in BOOLEAN
    BY <1>4 DEF EnterMatch
  <2>6. local' \in [Worker -> Nat]
    BY <2>1 DEF Types
  <2> QED
    BY <1>0, <2>1, <2>2, <2>3, <2>4, <2>5, <2>6 DEF Types, matcherVars, PerWorker
<1>5. ASSUME NEW w \in Worker, Count(w) PROVE Types'
  <2>1. counter' = local[w] + 1 /\ Goto(w, "walk")
        /\ UNCHANGED <<node, content, callVars, found, raced, records>>
    BY <1>5 DEF Count
  <2>2. pc' \in [Worker -> Place]
    BY <2>1, GotoIs DEF Place, InMatch
  <2>3. counter' \in Nat
    BY <2>1 DEF Types
  <2> QED
    BY <1>0, <2>1, <2>2, <2>3 DEF Types, callVars, PerWorker
<1>6. ASSUME NEW w \in Worker, Walk(w) PROVE Types'
  <2>1. UNCHANGED <<matcherVars, content, local, found, raced, records>>
    BY <1>6 DEF Walk
  <2>2. PICK x \in left[w] :
          /\ left' = [left EXCEPT ![w] = @ \ {x}]
          /\ \/ UNCHANGED <<pc, matches>>
             \/ Goto(w, "stamp") /\ matches' = [matches EXCEPT ![w] = Append(@, x[1])]
    BY <1>6 DEF Walk
  <2>3. pc' \in [Worker -> Place]
    BY <2>2, GotoIs DEF Place, InMatch, Types
  <2>4. left' \in [Worker -> SUBSET (Texts \X Nat)]
    BY <2>2 DEF Types
  <2>5. matches' \in [Worker -> Seq(Texts)]
    <3>1. x[1] \in Texts
      BY <2>2 DEF Types
    <3>2. Append(matches[w], x[1]) \in Seq(Texts)
      BY <3>1 DEF Types
    <3> QED
      BY <2>2, <3>2 DEF Types
  <2> QED
    BY <1>0, <2>1, <2>3, <2>4, <2>5 DEF Types, matcherVars, PerWorker
<1>7. ASSUME NEW w \in Worker, Stamp(w) PROVE Types'
  <2>1. /\ node' = [node EXCEPT ![Last(matches[w])] = counter]
        /\ Goto(w, "walk")
        /\ UNCHANGED <<counter, content, callVars, found, raced, records>>
    BY <1>7 DEF Stamp
  <2>2. pc' \in [Worker -> Place]
    BY <2>1, GotoIs DEF Place, InMatch
  <2>3. node' \in [Texts -> Nat]
    BY <2>1 DEF Types
  <2> QED
    BY <1>0, <2>1, <2>2, <2>3 DEF Types, callVars, PerWorker
<1>8. ASSUME NEW w \in Worker, ReportLiterals(w) \/ ReportRegexps(w) PROVE Types'
  <2>1. /\ \E x : found' = [found EXCEPT ![w] = x]
        /\ Goto(w, "regex") \/ Goto(w, "done")
        /\ UNCHANGED <<matcherVars, content, callVars, raced, records>>
    BY <1>8 DEF ReportLiterals, ReportRegexps
  <2>2. pc' \in [Worker -> Place]
    BY <2>1, GotoIs DEF Place
  <2>3. PerWorker(found)'
    BY <2>1, Elsewhere DEF Types, PerWorker
  <2> QED
    BY <1>0, <2>1, <2>2, <2>3 DEF Types, matcherVars, callVars, PerWorker
<1>9. CASE UNCHANGED vars
  BY <1>0, <1>9 DEF vars, Types, matcherVars, callVars, PerWorker
<1> QED
  BY <1>1, <1>2, <1>3, <1>4, <1>5, <1>6, <1>7, <1>8, <1>9 DEF Next, Over

-----------------------------------------------------------------------------
(* The counters of the matcher: none is ahead of the number of calls.      *)

(* Workers that hold a record for which m.counter has still to be written. *)
Waits == {"filter", "prepare", "match", "count"}
Pending == {v \in Worker : pc[v] \in Waits}
Counted(n) == n + Cardinality(Pending) <= records

CountInv ==
  /\ Counted(counter)
  /\ \A w \in Worker : Counted(local[w])
  /\ \A t \in Texts : Counted(node[t])

LEMMA PendingIs ==
  ASSUME Types, NEW w \in Worker, NEW l, Goto(w, l)
  PROVE  /\ Cardinality(Pending) \in Nat /\ Cardinality(Pending') \in Nat
         /\ pc[w] \in Waits /\ l \in Waits => Cardinality(Pending') = Cardinality(Pending)
         /\ pc[w] \in Waits /\ l \notin Waits => Cardinality(Pending') + 1 = Cardinality(Pending)
         /\ pc[w] \notin Waits /\ l \in Waits => Cardinality(Pending') = Cardinality(Pending) + 1
         /\ pc[w] \notin Waits /\ l \notin Waits => Cardinality(Pending') = Cardinality(Pending)
<1>1. IsFiniteSet(Pending) /\ IsFiniteSet(Pending')
  BY BoundIs, FS_Subset DEF Pending
<1>2. Cardinality(Pending) \in Nat /\ Cardinality(Pending') \in Nat
  BY <1>1, FS_CardinalityType
<1>3. pc'[w] = l /\ \A v \in Worker \ {w} : pc'[v] = pc[v]
  BY DEF Goto, Types
<1>4. CASE pc[w] \in Waits /\ l \in Waits
  <2>1. Pending' = Pending
    BY <1>3, <1>4 DEF Pending
  <2> QED
    BY <1>2, <1>4, <2>1
<1>5. CASE pc[w] \in Waits /\ l \notin Waits
  <2>1. Pending' = Pending \ {w} /\ w \in Pending
    BY <1>3, <1>5 DEF Pending
  <2>2. Cardinality(Pending') = Cardinality(Pending) - 1
    BY <1>1, <2>1, FS_RemoveElement
  <2> QED
    BY <1>2, <1>5, <2>2
<1>6. CASE pc[w] \notin Waits /\ l \in Waits
  <2>1. Pending' = Pending \cup {w} /\ w \notin Pending
    BY <1>3, <1>6 DEF Pending
  <2>2. Cardinality(Pending') = Cardinality(Pending) + 1
    BY <1>1, <2>1, FS_AddElement
  <2> QED
    BY <1>2, <1>6, <2>2
<1>7. CASE pc[w] \notin Waits /\ l \notin Waits
  <2>1. Pending' = Pending
    BY <1>3, <1>7 DEF Pending
  <2> QED
    BY <1>2, <1>7, <2>1
<1> QED
  BY <1>2, <1>4, <1>5, <1>6, <1>7

LEMMA CountStart == Init => CountInv
<1> SUFFICES ASSUME Init PROVE CountInv
  OBVIOUS
<1>1. Pending = {}
  BY DEF Init, Pending, Waits
<1>2. Cardinality(Pending) = 0
  BY <1>1, FS_EmptySet
<1> QED
  BY <1>2 DEF Init, CountInv, Counted

(* A number that was not ahead of the calls is not ahead of more of them.  *)
LEMMA CountedStays ==
  ASSUME Types, NEW w \in Worker, NEW l, Goto(w, l),
         \/ records' = records /\ (pc[w] \in Waits \/ l \notin Waits)
         \/ records' = records + 1,
         NEW n \in Nat, Counted(n)
  PROVE  Counted(n)'
<1> DEFINE c == Cardinality(Pending)
           d == Cardinality(Pending')
<1>1. c \in Nat /\ d \in Nat /\ (d <= c \/ (records' = records + 1 /\ d <= c + 1))
  BY PendingIs
<1>2. n + c <= records /\ records \in Nat
  BY DEF Counted, Types
<1> HIDE DEF c, d
<1>3. n + d <= records'
  BY <1>1, <1>2
<1> QED
  BY <1>3 DEF Counted, d

LEMMA CountStep == Types /\ CountInv /\ [Next]_vars => CountInv'
<1> SUFFICES ASSUME Types, CountInv, [Next]_vars PROVE CountInv'
  OBVIOUS
<1>0. Texts' = Texts
  BY SetupStays, SetupSame
<1>1. ASSUME NEW w \in Worker, NEW l, Goto(w, l),
             \/ records' = records /\ (pc[w] \in Waits \/ l \notin Waits)
             \/ records' = records + 1,
             UNCHANGED <<counter, node>>,
             local' = local \/ local' = [local EXCEPT ![w] = counter]
      PROVE  CountInv'
  <2>1. \A n \in Nat : Counted(n) => Counted(n)'
    BY <1>1, CountedStays
  <2>2. \A v \in Worker : local'[v] \in Nat /\ Counted(local'[v])
    BY <1>1 DEF CountInv, Types
  <2> QED
    BY <1>0, <1>1, <2>1, <2>2 DEF CountInv, Types, Counted
<1>2. ASSUME NEW w \in Worker,
             ReceiveRecord(w) \/ CheckFilter(w) \/ Prepare(w) \/ EnterMatch(w)
               \/ ReportLiterals(w) \/ ReportRegexps(w)
      PROVE  CountInv'
  <2>1. CASE ReceiveRecord(w)
    BY <1>1, <2>1 DEF ReceiveRecord, matcherVars, callVars
  <2>2. CASE CheckFilter(w)
    BY <1>1, <2>2 DEF CheckFilter, matcherVars, callVars, Waits
  <2>3. CASE Prepare(w)
    BY <1>1, <2>3 DEF Prepare, matcherVars, callVars, Waits
  <2>4. CASE EnterMatch(w)
    BY <1>1, <2>4 DEF EnterMatch, matcherVars, Waits
  <2>5. CASE ReportLiterals(w) \/ ReportRegexps(w)
    BY <1>1, <2>5 DEF ReportLiterals, ReportRegexps, matcherVars, callVars, Waits
  <2> QED
    BY <1>2, <2>1, <2>2, <2>3, <2>4, <2>5
<1>3. ASSUME NEW w \in Worker, Count(w) PROVE CountInv'
  <2>1. /\ pc[w] = "count" /\ counter' = local[w] + 1 /\ Goto(w, "walk")
        /\ UNCHANGED <<node, local, records>>
    BY <1>3 DEF Count, callVars
  <2>2. \A n \in Nat : Counted(n) => Counted(n)'
    BY <2>1, CountedStays DEF Waits
  <2>3. Counted(counter)'
    <3> DEFINE c == Cardinality(Pending)
               d == Cardinality(Pending')
               n == local[w]
    <3>1. c \in Nat /\ d \in Nat /\ d + 1 = c
      BY <2>1, PendingIs DEF Waits
    <3>2. n \in Nat /\ n + c <= records /\ records \in Nat
      BY DEF CountInv, Counted, Types
    <3> HIDE DEF c, d, n
    <3>3. (n + 1) + d <= records
      BY <3>1, <3>2
    <3> QED
      BY <2>1, <3>3 DEF Counted, d, n
  <2> QED
    BY <1>0, <2>1, <2>2, <2>3 DEF CountInv, Types, Counted
<1>4. ASSUME NEW w \in Worker, Walk(w) PROVE CountInv'
  <2>1. pc[w] = "walk" /\ UNCHANGED <<counter, node, local, records>>
        /\ (UNCHANGED pc \/ Goto(w, "stamp"))
    BY <1>4 DEF Walk, matcherVars
  <2>2. CASE UNCHANGED pc
    BY <1>0, <2>1, <2>2 DEF CountInv, Counted, Pending
  <2>3. CASE Goto(w, "stamp")
    BY <1>1, <2>1, <2>3 DEF Waits
  <2> QED
    BY <2>1, <2>2, <2>3
<1>5. ASSUME NEW w \in Worker, Stamp(w) PROVE CountInv'
  <2>1. /\ pc[w] = "stamp" /\ Goto(w, "walk")
        /\ node' = [node EXCEPT ![Last(matches[w])] = counter]
        /\ UNCHANGED <<counter, local, records>>
    BY <1>5 DEF Stamp, callVars
  <2>2. \A n \in Nat : Counted(n) => Counted(n)'
    BY <2>1, CountedStays DEF Waits
  <2>3. \A t \in Texts : node'[t] \in Nat /\ Counted(node'[t])
    BY <2>1 DEF CountInv, Types
  <2> QED
    BY <1>0, <2>1, <2>2, <2>3 DEF CountInv, Types, Counted
<1>6. CASE UNCHANGED vars
  BY <1>0, <1>6 DEF vars, matcherVars, callVars, CountInv, Counted, Pending
<1> QED
  BY <1>2, <1>3, <1>4, <1>5, <1>6 DEF Next, Over

-----------------------------------------------------------------------------
(* One call of Match, and what the worker has found when it is over.       *)

Occurring(w, t) == \E x \in Ends(content[w]) : x[1] = t

Call(w) ==
  /\ pc[w] \notin InMatch => left[w] = {}
  /\ pc[w] \in InMatch => left[w] \subseteq Ends(content[w])
  /\ pc[w] \in InMatch => \A i \in DOMAIN matches[w] : Occurring(w, matches[w][i])
  /\ pc[w] \in InMatch \cup {"match"} => Texts # {}
  /\ pc[w] = "stamp" => matches[w] # <<>>
  /\ pc[w] \in InMatch \cup {"filter", "prepare", "match"} => found[w] = <<>>
  /\ pc[w] = "regex" => Reported(w) \subseteq LiteralHits(w) /\ Different(found[w])

CallInv == \A w \in Worker : Call(w)

LEMMA CallStart == Init => CallInv
BY DEF Init, CallInv, Call, InMatch

(* Nobody touches another worker's call. *)
LEMMA CallStays ==
  ASSUME NEW v, UNCHANGED <<setup, pc[v], content[v], left[v], matches[v], found[v]>>, Call(v)
  PROVE  Call(v)'
<1>1. Texts' = Texts /\ \A t : NameOf(t)' = NameOf(t) /\ Ends(t)' = Ends(t)
  BY SetupSame
<1>2. Ends(content[v])' = Ends(content[v])
  BY <1>1 DEF Ends
<1>3. Reported(v)' = Reported(v)
  BY DEF Reported
<1>4. LiteralHits(v)' = LiteralHits(v)
  BY <1>1, <1>2 DEF LiteralHits
<1>5. \A t : Occurring(v, t)' <=> Occurring(v, t)
  BY <1>2 DEF Occurring
<1> QED
  BY <1>1, <1>2, <1>3, <1>4, <1>5 DEF Call, Different

(* What a worker at w reports: each literal once, by its name. *)
LEMMA ReportIs ==
  ASSUME Types, CallInv, NEW w \in Worker, ReportLiterals(w)
  PROVE  /\ found'[w] = [i \in DOMAIN Once(matches[w]) |->
                           <<NameOf(Once(matches[w])[i]), Once(matches[w])[i]>>]
         /\ Reported(w)' \subseteq LiteralHits(w) /\ Different(found'[w])
         /\ \A t : In(matches[w], t) => <<NameOf(t), t>> \in Reported(w)'
<1> DEFINE m == matches[w]
           once == Once(m)
           f == [i \in DOMAIN once |-> <<NameOf(once[i]), once[i]>>]
<1>1. m \in Seq(Texts) /\ found'[w] = f
  BY DEF Types, ReportLiterals, PerWorker
<1>2. once \in Seq(Texts) /\ Different(once) /\ \A t : In(once, t) <=> In(m, t)
  <2> HIDE DEF m
  <2> QED
    BY <1>1, OnceIs
<1>3. \A i \in DOMAIN m : Occurring(w, m[i])
  BY DEF ReportLiterals, CallInv, Call, InMatch
<1>4. found'[w] = f
  BY <1>1
<1> HIDE DEF once, m
<1>5. DOMAIN f = DOMAIN once /\ \A i \in DOMAIN once : f[i] = <<NameOf(once[i]), once[i]>>
  OBVIOUS
<1> HIDE DEF f
<1>6. Different(f)
  BY <1>2, <1>5 DEF Different
<1>7. Reported(w)' = {f[i] : i \in DOMAIN once}
  BY <1>4, <1>5 DEF Reported
<1>8. ASSUME NEW i \in DOMAIN once PROVE f[i] \in LiteralHits(w)
  <2>1. In(m, once[i])
    BY <1>2 DEF In
  <2>2. PICK x \in Ends(content[w]) : x[1] = once[i]
    BY <1>3, <2>1 DEF In, Occurring
  <2> QED
    BY <1>5, <2>2 DEF LiteralHits
<1>9. ASSUME NEW t, In(m, t) PROVE <<NameOf(t), t>> \in Reported(w)'
  <2>1. PICK i \in DOMAIN once : once[i] = t
    BY <1>2, <1>9 DEF In
  <2> QED
    BY <1>5, <1>7, <2>1
<1> QED
  BY <1>4, <1>6, <1>7, <1>8, <1>9 DEF f, once, m

LEMMA LastIs ==
  ASSUME NEW S, NEW s \in Seq(S), NEW x \in S
  PROVE  /\ Append(s, x) # <<>> /\ Last(Append(s, x)) = x
         /\ \A t : In(Append(s, x), t) <=> In(s, t) \/ t = x
<1> DEFINE more == Append(s, x)
           L == Len(s)
<1>1. /\ L \in Nat /\ DOMAIN s = 1 .. L /\ DOMAIN more = 1 .. L + 1 /\ Len(more) = L + 1
      /\ \A i \in 1 .. L : more[i] = s[i]
      /\ more[L + 1] = x /\ more # <<>>
  OBVIOUS
<1> HIDE DEF more, L
<1>2. \A i \in 1 .. L + 1 : i \in 1 .. L \/ i = L + 1
  BY <1>1
<1>3. L + 1 \in 1 .. L + 1 /\ \A i \in 1 .. L : i \in 1 .. L + 1
  BY <1>1
<1>4. \A t : In(more, t) <=> In(s, t) \/ t = x
  BY <1>1, <1>2, <1>3, Zenon DEF In
<1>5. Last(more) = x
  BY <1>1 DEF Last
<1> QED
  BY <1>1, <1>4, <1>5 DEF more

LEMMA CallStep == Types /\ CallInv /\ [Next]_vars => CallInv'
<1> SUFFICES ASSUME Types, CallInv, [Next]_vars PROVE CallInv'
  OBVIOUS
<1>0. Texts' = Texts /\ UNCHANGED setup /\ \A t : NameOf(t)' = NameOf(t) /\ Ends(t)' = Ends(t)
  BY SetupStays, SetupSame
<1>1. ASSUME NEW w \in Worker, Call(w)',
             \A v \in Worker \ {w} :
               UNCHANGED <<pc[v], content[v], left[v], matches[v], found[v]>>
      PROVE  CallInv'
  <2>1. ASSUME NEW v \in Worker, v # w PROVE Call(v)'
    BY <1>0, <1>1, <2>1, CallStays DEF CallInv
  <2> QED
    BY <1>1, <2>1 DEF CallInv
<1>2. ASSUME NEW w \in Worker, ReceiveRecord(w) PROVE CallInv'
  <2>1. /\ pc[w] \in {"recv", "dropped", "done"} /\ pc' = [pc EXCEPT ![w] = "filter"]
        /\ found' = [found EXCEPT ![w] = <<>>] /\ UNCHANGED <<left, matches>>
        /\ \E t : content' = [content EXCEPT ![w] = t]
    BY <1>2 DEF ReceiveRecord, Goto, callVars
  <2>2. pc'[w] = "filter" /\ found'[w] = <<>> /\ left'[w] = {}
    BY <2>1 DEF Types, PerWorker, CallInv, Call, InMatch
  <2>3. Call(w)'
    BY <2>2 DEF Call, InMatch
  <2>4. \A v \in Worker \ {w} : UNCHANGED <<pc[v], content[v], left[v], matches[v], found[v]>>
    BY <2>1 DEF Types, PerWorker
  <2> QED
    BY <1>1, <2>3, <2>4
<1>3. ASSUME NEW w \in Worker, CheckFilter(w) PROVE CallInv'
  <2>1. /\ pc[w] = "filter" /\ UNCHANGED <<content, left, matches, found>>
        /\ pc' = [pc EXCEPT ![w] = "prepare"] \/ pc' = [pc EXCEPT ![w] = "dropped"]
    BY <1>3 DEF CheckFilter, Goto, callVars
  <2>2. /\ pc'[w] \in {"prepare", "dropped"} /\ left'[w] = {} /\ found'[w] = <<>>
        /\ \A v \in Worker \ {w} : pc'[v] = pc[v]
    BY <2>1 DEF Types, CallInv, Call, InMatch
  <2>3. Call(w)'
    BY <2>2 DEF Call, InMatch
  <2> QED
    BY <1>1, <2>1, <2>2, <2>3
<1>4. ASSUME NEW w \in Worker, Prepare(w) PROVE CallInv'
  <2>1. /\ pc[w] = "prepare" /\ UNCHANGED <<left, matches, found>>
        /\ pc' = [pc EXCEPT ![w] = IF Texts = {} THEN "regex" ELSE "match"]
        /\ \E t : content' = [content EXCEPT ![w] = t]
    BY <1>4 DEF Prepare, Goto, callVars
  <2>2. /\ pc'[w] = (IF Texts = {} THEN "regex" ELSE "match")
        /\ left'[w] = {} /\ found'[w] = <<>>
    BY <2>1 DEF Types, CallInv, Call, InMatch
  <2>3. Reported(w)' = {} /\ Different(found'[w])
    BY <2>2 DEF Reported, Different
  <2>4. Call(w)'
    BY <1>0, <2>2, <2>3 DEF Call, InMatch
  <2>5. \A v \in Worker \ {w} : UNCHANGED <<pc[v], content[v], left[v], matches[v], found[v]>>
    BY <2>1 DEF Types, PerWorker
  <2> QED
    BY <1>1, <2>4, <2>5
<1>5. ASSUME NEW w \in Worker, EnterMatch(w) PROVE CallInv'
  <2>1. /\ pc[w] = "match" /\ pc' = [pc EXCEPT ![w] = "count"] /\ UNCHANGED <<content, found>>
        /\ left' = [left EXCEPT ![w] = Ends(content[w])]
        /\ matches' = [matches EXCEPT ![w] = <<>>]
    BY <1>5 DEF EnterMatch, Goto
  <2>2. /\ pc'[w] = "count" /\ left'[w] = Ends(content[w]) /\ matches'[w] = <<>>
        /\ found'[w] = <<>> /\ Texts # {} /\ content'[w] = content[w]
    BY <2>1 DEF Types, CallInv, Call, InMatch
  <2>3. Ends(content[w])' = Ends(content[w])
    BY <1>0, <2>2 DEF Ends
  <2>4. Call(w)'
    BY <1>0, <2>2, <2>3 DEF Call, InMatch
  <2>5. \A v \in Worker \ {w} : UNCHANGED <<pc[v], content[v], left[v], matches[v], found[v]>>
    BY <2>1 DEF Types
  <2> QED
    BY <1>1, <2>4, <2>5
<1>6. ASSUME NEW w \in Worker, Count(w) \/ Stamp(w) PROVE CallInv'
  <2>1. /\ pc[w] \in {"count", "stamp"} /\ pc' = [pc EXCEPT ![w] = "walk"]
        /\ UNCHANGED <<content, left, matches, found>>
    BY <1>6 DEF Count, Stamp, Goto, callVars
  <2>2. pc'[w] = "walk" /\ \A v \in Worker \ {w} : pc'[v] = pc[v]
    BY <2>1 DEF Types
  <2>3. Ends(content[w])' = Ends(content[w])
    BY <1>0, <2>1 DEF Ends
  <2>4. \A t : Occurring(w, t)' <=> Occurring(w, t)
    BY <2>3 DEF Occurring
  <2>5. Call(w)'
    BY <1>0, <2>1, <2>2, <2>3, <2>4 DEF CallInv, Call, InMatch
  <2> QED
    BY <1>1, <2>1, <2>2, <2>5
<1>7. ASSUME NEW w \in Worker, Walk(w) PROVE CallInv'
  <2>1. pc[w] = "walk" /\ UNCHANGED <<content, found>>
    BY <1>7 DEF Walk
  <2>2. PICK x \in left[w] :
          /\ left' = [left EXCEPT ![w] = @ \ {x}]
          /\ \/ UNCHANGED <<pc, matches>>
             \/ pc' = [pc EXCEPT ![w] = "stamp"] /\ matches' = [matches EXCEPT ![w] = Append(@, x[1])]
    BY <1>7 DEF Walk, Goto
  <2>3. left'[w] = left[w] \ {x}
        /\ \A v \in Worker \ {w} : UNCHANGED <<pc[v], content[v], left[v], matches[v], found[v]>>
    BY <2>1, <2>2 DEF Types
  <2>4. Ends(content[w])' = Ends(content[w])
    BY <1>0, <2>1 DEF Ends
  <2>5. \A t : Occurring(w, t)' <=> Occurring(w, t)
    BY <2>4 DEF Occurring
  <2>6. CASE UNCHANGED <<pc, matches>>
    <3>1. Call(w)'
      BY <1>0, <2>1, <2>3, <2>4, <2>5, <2>6 DEF CallInv, Call, InMatch
    <3> QED
      BY <1>1, <2>3, <3>1
  <2>7. CASE pc' = [pc EXCEPT ![w] = "stamp"] /\ matches' = [matches EXCEPT ![w] = Append(@, x[1])]
    <3>1. pc'[w] = "stamp" /\ matches'[w] = Append(matches[w], x[1])
      BY <2>7 DEF Types
    <3> DEFINE m == matches[w]
               t == x[1]
               more == Append(m, t)
    <3>2. m \in Seq(Texts) /\ t \in Texts /\ x \in Ends(content[w])
      BY <2>1, <2>2 DEF Types, CallInv, Call, InMatch
    <3>3. \A i \in DOMAIN m : Occurring(w, m[i])
      BY <2>1 DEF CallInv, Call, InMatch
    <3>4. Occurring(w, t)
      BY <3>2 DEF Occurring
    <3>5. matches'[w] = more
      BY <3>1
    <3> HIDE DEF m, t
    <3>6. more # <<>> /\ \A y : In(more, y) <=> In(m, y) \/ y = t
      BY <3>2, LastIs
    <3> HIDE DEF more
    <3>7. \A i \in DOMAIN more : Occurring(w, more[i])
      <4>1. \A i \in DOMAIN more : In(more, more[i])
        BY DEF In
      <4>2. \A i \in DOMAIN more : In(m, more[i]) \/ more[i] = t
        BY <3>6, <4>1
      <4> QED
        BY <3>3, <3>4, <4>2, Zenon DEF In
    <3>8. (\A i \in DOMAIN matches[w] : Occurring(w, matches[w][i]))'
      BY <2>5, <3>5, <3>7
    <3>9. left'[w] \subseteq Ends(content[w])' /\ found'[w] = <<>> /\ Texts' # {}
      BY <1>0, <2>1, <2>3, <2>4 DEF CallInv, Call, InMatch
    <3>10. Call(w)'
      BY <3>1, <3>5, <3>6, <3>8, <3>9 DEF Call, InMatch
    <3> QED
      BY <1>1, <2>3, <3>10
  <2> QED
    BY <2>2, <2>6, <2>7
<1>8. ASSUME NEW w \in Worker, ReportLiterals(w) PROVE CallInv'
  <2>1. /\ pc[w] = "walk" /\ left[w] = {} /\ pc' = [pc EXCEPT ![w] = "regex"]
        /\ UNCHANGED <<content, left, matches>> /\ \E f : found' = [found EXCEPT ![w] = f]
    BY <1>8 DEF ReportLiterals, Goto, callVars
  <2>2. pc'[w] = "regex" /\ left'[w] = {}
        /\ \A v \in Worker \ {w} : UNCHANGED <<pc[v], content[v], left[v], matches[v], found[v]>>
    BY <2>1 DEF Types, PerWorker
  <2>3. Reported(w)' \subseteq LiteralHits(w) /\ Different(found'[w])
    BY <1>8, ReportIs
  <2>4. LiteralHits(w)' = LiteralHits(w)
    <3>1. Ends(content[w])' = Ends(content[w])
      BY <1>0, <2>1 DEF Ends
    <3> QED
      BY <1>0, <3>1 DEF LiteralHits
  <2>5. Call(w)'
    BY <2>2, <2>3, <2>4 DEF Call, InMatch, Different
  <2> QED
    BY <1>1, <2>2, <2>5
<1>9. ASSUME NEW w \in Worker, ReportRegexps(w) PROVE CallInv'
  <2>1. /\ pc[w] = "regex" /\ pc' = [pc EXCEPT ![w] = "done"]
        /\ UNCHANGED <<content, left, matches>> /\ \E f : found' = [found EXCEPT ![w] = f]
    BY <1>9 DEF ReportRegexps, Goto, callVars
  <2>2. pc'[w] = "done" /\ left'[w] = {}
        /\ \A v \in Worker \ {w} : UNCHANGED <<pc[v], content[v], left[v], matches[v], found[v]>>
    BY <2>1 DEF Types, PerWorker, CallInv, Call, InMatch
  <2>3. Call(w)'
    BY <2>2 DEF Call, InMatch
  <2> QED
    BY <1>1, <2>2, <2>3
<1>10. CASE UNCHANGED vars
  <2>1. \A w \in Worker : UNCHANGED <<pc[w], content[w], left[w], matches[w], found[w]>>
    BY <1>10 DEF vars, callVars
  <2> QED
    BY <1>0, <2>1, CallStays DEF CallInv
<1> QED
  BY <1>2, <1>3, <1>4, <1>5, <1>6, <1>7, <1>8, <1>9, <1>10 DEF Next, Over

LEMMA CallsHold == Spec => [](Types /\ CountInv /\ CallInv)
BY TypeStart, TypeStep, CountStart, CountStep, CallStart, CallStep, PTL DEF Spec

(* The type invariant: the counters of the matcher stay within the number  *)
(* of records, one more for each call however the calls interleave, and    *)
(* nobody is inside the matcher when there is none.                        *)
THEOREM TypeCorrect == Spec => []TypeOK
<1>1. Types /\ CountInv /\ CallInv => TypeOK
  <2> SUFFICES ASSUME Types, CountInv, CallInv PROVE TypeOK
    OBVIOUS
  <2>1. ASSUME NEW n \in Nat, Counted(n) PROVE n \in 0 .. MaxRecords
    <3> DEFINE c == Cardinality(Pending)
    <3>1. c \in Nat
      <4>1. IsFiniteSet(Pending)
        BY BoundIs, FS_Subset DEF Pending
      <4> QED
        BY <4>1, FS_CardinalityType
    <3>2. n + c <= records /\ records <= MaxRecords /\ records \in Nat
      BY <2>1 DEF Counted, Types
    <3> HIDE DEF c
    <3> QED
      BY <3>1, <3>2, BoundIs
  <2>2. counter \in 0 .. MaxRecords
    BY <2>1 DEF Types, CountInv
  <2>3. node \in [Texts -> 0 .. MaxRecords]
    BY <2>1 DEF Types, CountInv
  <2>4. local \in [Worker -> 0 .. MaxRecords]
    BY <2>1 DEF Types, CountInv
  <2>5. records \in 0 .. MaxRecords
    BY BoundIs DEF Types
  <2>6. \A w \in Worker : pc[w] \in InMatch => Texts # {}
    BY DEF CallInv, Call
  <2>7. ASSUME NEW w \in Worker PROVE left[w] \subseteq Texts \X (1 .. Len(content[w]))
    <3>1. CASE pc[w] \in InMatch
      BY <3>1, EndsAre DEF CallInv, Call
    <3>2. CASE pc[w] \notin InMatch
      BY <3>2 DEF CallInv, Call
    <3> QED
      BY <3>1, <3>2
  <2>8. opts \in Options /\ activePatterns \in Selections /\ raced \in BOOLEAN
        /\ pc \in [Worker -> Place]
    BY DEF Types
  <2> QED
    BY <2>2, <2>3, <2>4, <2>5, <2>6, <2>7, <2>8 DEF TypeOK, Place
<1> QED
  BY <1>1, CallsHold, PTL

(* Whatever two workers do to the counters they share, a literal pattern   *)
(* is reported at most once for a record and never where it does not occur *)
(* (the "seen" map of LiteralMatcher.Match).                               *)
THEOREM LiteralsOnceHolds == Spec => []LiteralsOnce
<1>1. CallInv => LiteralsOnce
  BY DEF CallInv, Call, LiteralsOnce, Different
<1> QED
  BY <1>1, CallsHold, PTL

-----------------------------------------------------------------------------
(* As long as no two workers have been in Match at once. *)

(* The counter is that of the one call, no node is ahead of it, and a node *)
(* that is level with it has been reported in this call.                   *)
Alone(w) ==
  /\ pc[w] = "count" => local[w] = counter
  /\ pc[w] \in InMatch => \A x \in Ends(content[w]) : x \in left[w] \/ In(matches[w], x[1])
  /\ pc[w] \in {"walk", "stamp"} => \A t \in Texts : node[t] = counter => In(matches[w], t)
  /\ pc[w] = "regex" => LiteralHits(w) \subseteq Reported(w)

AloneInv ==
  ~raced => /\ \A v, w \in Worker : pc[v] \in InMatch /\ pc[w] \in InMatch => v = w
            /\ \A t \in Texts : node[t] <= counter
            /\ \A w \in Worker : Alone(w)

LEMMA AloneStart == Init => AloneInv
BY DEF Init, AloneInv, Alone, InMatch

(* A worker outside Match does not care what is done to the counters. *)
LEMMA AloneStays ==
  ASSUME NEW v, Alone(v), pc[v] \notin InMatch \/ UNCHANGED <<counter, node, local>>,
         UNCHANGED <<setup, pc[v], content[v], left[v], matches[v], found[v]>>
  PROVE  Alone(v)'
<1>1. Texts' = Texts /\ \A t : NameOf(t)' = NameOf(t) /\ Ends(t)' = Ends(t)
  BY SetupSame
<1>2. Ends(content[v])' = Ends(content[v])
  BY <1>1 DEF Ends
<1>3. Reported(v)' = Reported(v) /\ LiteralHits(v)' = LiteralHits(v)
  BY <1>1, <1>2 DEF Reported, LiteralHits
<1>4. (pc[v] = "count" => local[v] = counter)'
  BY DEF Alone, InMatch
<1>5. (pc[v] \in {"walk", "stamp"} => \A t \in Texts : node[t] = counter => In(matches[v], t))'
  BY <1>1 DEF Alone, InMatch, In
<1> QED
  BY <1>1, <1>2, <1>3, <1>4, <1>5 DEF Alone, In, InMatch

LEMMA AloneStep == Types /\ CallInv /\ AloneInv /\ [Next]_vars => AloneInv'
<1> SUFFICES ASSUME Types, CallInv, AloneInv, [Next]_vars, ~raced' PROVE AloneInv'
  BY DEF AloneInv
<1>0. Texts' = Texts /\ UNCHANGED setup /\ \A t : NameOf(t)' = NameOf(t) /\ Ends(t)' = Ends(t)
  BY SetupStays, SetupSame
<1>a. ~raced
  <2>1. raced => raced'
    BY DEF Next, Over, vars, ReceiveRecord, CheckFilter, Prepare, EnterMatch, Count, Walk, Stamp,
           ReportLiterals, ReportRegexps
  <2> QED
    BY <2>1
<1>b. /\ \A v, w \in Worker : pc[v] \in InMatch /\ pc[w] \in InMatch => v = w
      /\ \A t \in Texts : node[t] <= counter
      /\ \A w \in Worker : Alone(w)
  BY <1>a DEF AloneInv
<1>1. ASSUME NEW w \in Worker, Alone(w)',
             pc[w] \in InMatch \/ UNCHANGED <<counter, node, local>>,
             pc'[w] \in InMatch => \A v \in Worker \ {w} : pc[v] \notin InMatch,
             \A t \in Texts : node'[t] <= counter',
             \A v \in Worker \ {w} :
               UNCHANGED <<pc[v], content[v], left[v], matches[v], found[v]>>
      PROVE  AloneInv'
  <2>1. ASSUME NEW v \in Worker, v # w PROVE Alone(v)'
    <3>1. Alone(v) /\ (pc[v] \notin InMatch \/ UNCHANGED <<counter, node, local>>)
      BY <1>b, <1>1, <2>1
    <3> QED
      BY <1>0, <1>1, <2>1, <3>1, AloneStays
  <2>2. \A u, v \in Worker : pc'[u] \in InMatch /\ pc'[v] \in InMatch => u = v
    BY <1>b, <1>1
  <2>3. \A v \in Worker : Alone(v)'
    BY <1>1, <2>1
  <2>4. \A t \in Texts' : node'[t] <= counter'
    BY <1>0, <1>1
  <2> QED
    BY <2>2, <2>3, <2>4 DEF AloneInv, InMatch
<1>2. ASSUME NEW w \in Worker, ReceiveRecord(w) \/ CheckFilter(w) \/ Prepare(w) \/ ReportRegexps(w)
      PROVE  AloneInv'
  <2>1. /\ UNCHANGED <<matcherVars, callVars>>
        /\ \E l \in {"filter", "dropped", "prepare", "match", "done"} \cup
                    {m \in {"regex"} : Texts = {}} : pc' = [pc EXCEPT ![w] = l]
        /\ content' = content \/ \E t : content' = [content EXCEPT ![w] = t]
        /\ found' = found \/ \E f : found' = [found EXCEPT ![w] = f]
    <3>1. CASE ReceiveRecord(w)
      BY <3>1 DEF ReceiveRecord, Goto
    <3>2. CASE CheckFilter(w)
      BY <3>2 DEF CheckFilter, Goto
    <3>3. CASE Prepare(w)
      BY <3>3 DEF Prepare, Goto
    <3>4. CASE ReportRegexps(w)
      BY <3>4 DEF ReportRegexps, Goto
    <3> QED
      BY <1>2, <3>1, <3>2, <3>3, <3>4
  <2>2. /\ pc'[w] \notin InMatch /\ (pc'[w] = "regex" => Texts = {})
        /\ \A v \in Worker \ {w} : UNCHANGED <<pc[v], content[v], left[v], matches[v], found[v]>>
    BY <2>1 DEF Types, PerWorker, InMatch, callVars
  <2>3. pc'[w] = "regex" => LiteralHits(w)' = {}
    BY <1>0, <2>2 DEF LiteralHits, Ends
  <2>4. Alone(w)'
    BY <2>2, <2>3 DEF Alone, InMatch
  <2>5. UNCHANGED <<counter, node, local>>
    BY <2>1 DEF matcherVars, callVars
  <2> QED
    BY <1>1, <1>b, <2>2, <2>4, <2>5
<1>3. ASSUME NEW w \in Worker, EnterMatch(w) PROVE AloneInv'
  <2>1. /\ pc[w] = "match" /\ pc' = [pc EXCEPT ![w] = "count"]
        /\ UNCHANGED <<counter, node, content, found>>
        /\ local' = [local EXCEPT ![w] = counter]
        /\ left' = [left EXCEPT ![w] = Ends(content[w])]
        /\ matches' = [matches EXCEPT ![w] = <<>>]
        /\ raced' = (raced \/ \E v \in Worker : pc[v] \in InMatch)
    BY <1>3 DEF EnterMatch, Goto, matcherVars
  <2>2. \A v \in Worker : pc[v] \notin InMatch
    BY <2>1
  <2>3. /\ pc'[w] = "count" /\ left'[w] = Ends(content[w]) /\ local'[w] = counter
        /\ \A v \in Worker \ {w} : UNCHANGED <<pc[v], content[v], left[v], matches[v], found[v]>>
    BY <2>1 DEF Types
  <2>4. Ends(content[w])' = Ends(content[w])
    BY <1>0, <2>1 DEF Ends
  <2>5. Alone(w)'
    BY <2>1, <2>3, <2>4 DEF Alone
  <2>6. ASSUME NEW v \in Worker, v # w PROVE Alone(v)'
    <3>1. /\ Alone(v) /\ pc[v] \notin InMatch
          /\ UNCHANGED <<setup, pc[v], content[v], left[v], matches[v], found[v]>>
      BY <1>0, <1>b, <2>2, <2>3, <2>6
    <3> QED
      BY <3>1, AloneStays
  <2>7. \A u, v \in Worker : pc'[u] \in InMatch /\ pc'[v] \in InMatch => u = v
    BY <2>2, <2>3
  <2> QED
    BY <1>0, <1>b, <2>1, <2>5, <2>6, <2>7 DEF AloneInv, InMatch
<1>4. ASSUME NEW w \in Worker, Count(w) PROVE AloneInv'
  <2>1. /\ pc[w] = "count" /\ pc' = [pc EXCEPT ![w] = "walk"] /\ counter' = local[w] + 1
        /\ UNCHANGED <<node, content, local, left, matches, found>>
    BY <1>4 DEF Count, Goto, callVars
  <2>2. counter' = counter + 1
    BY <1>b, <2>1 DEF Alone
  <2>3. /\ \A t \in Texts : node'[t] <= counter' /\ node'[t] # counter'
    BY <1>b, <2>1, <2>2 DEF Types
  <2>4. pc'[w] = "walk" /\ \A v \in Worker \ {w} : pc'[v] = pc[v]
    BY <2>1 DEF Types
  <2>5. Ends(content[w])' = Ends(content[w])
    BY <1>0, <2>1 DEF Ends
  <2>6. Alone(w)'
    BY <1>0, <1>b, <2>1, <2>3, <2>4, <2>5 DEF Alone, InMatch
  <2>7. pc[w] \in InMatch
    BY <2>1 DEF InMatch
  <2> QED
    BY <1>1, <1>b, <2>1, <2>3, <2>4, <2>6, <2>7
<1>5. ASSUME NEW w \in Worker, Walk(w) PROVE AloneInv'
  <2>1. pc[w] = "walk" /\ UNCHANGED <<counter, node, content, local, found>>
    BY <1>5 DEF Walk, matcherVars
  <2>2. PICK x \in left[w] :
          /\ left' = [left EXCEPT ![w] = @ \ {x}]
          /\ \/ node[x[1]] = counter /\ UNCHANGED <<pc, matches>>
             \/ pc' = [pc EXCEPT ![w] = "stamp"] /\ matches' = [matches EXCEPT ![w] = Append(@, x[1])]
    BY <1>5 DEF Walk, Goto
  <2>3. /\ left'[w] = left[w] \ {x} /\ x[1] \in Texts
        /\ \A v \in Worker \ {w} : UNCHANGED <<pc[v], content[v], left[v], matches[v], found[v]>>
    BY <2>1, <2>2 DEF Types
  <2>4. Ends(content[w])' = Ends(content[w])
    BY <1>0, <2>1 DEF Ends
  <2>5. /\ \A y \in Ends(content[w]) : y \in left[w] \/ In(matches[w], y[1])
        /\ \A t \in Texts : node[t] = counter => In(matches[w], t)
    BY <1>b, <2>1 DEF Alone, InMatch
  <2>6. pc'[w] \in {"walk", "stamp"} /\ In(matches'[w], x[1])
        /\ \A t : In(matches[w], t) => In(matches'[w], t)
    <3>1. CASE node[x[1]] = counter /\ UNCHANGED <<pc, matches>>
      BY <2>1, <2>3, <2>5, <3>1
    <3>2. CASE /\ pc' = [pc EXCEPT ![w] = "stamp"]
               /\ matches' = [matches EXCEPT ![w] = Append(@, x[1])]
      <4> DEFINE m == matches[w]
                 t == x[1]
      <4>1. pc'[w] = "stamp" /\ matches'[w] = Append(m, t)
        BY <3>2 DEF Types
      <4>2. m \in Seq(Texts) /\ t \in Texts
        BY <2>3 DEF Types
      <4> HIDE DEF m, t
      <4>3. \A y : In(Append(m, t), y) <=> In(m, y) \/ y = t
        BY <4>2, LastIs
      <4> QED
        BY <4>1, <4>3 DEF m, t
    <3> QED
      BY <2>2, <3>1, <3>2
  <2>7. (\A y \in Ends(content[w]) : y \in left[w] \/ In(matches[w], y[1]))'
    BY <2>3, <2>4, <2>5, <2>6 DEF In
  <2>8. (\A t \in Texts : node[t] = counter => In(matches[w], t))'
    BY <1>0, <2>1, <2>5, <2>6 DEF In
  <2>9. Alone(w)'
    BY <2>6, <2>7, <2>8 DEF Alone
  <2>10. pc[w] \in InMatch
    BY <2>1 DEF InMatch
  <2> QED
    BY <1>1, <1>b, <2>1, <2>3, <2>9, <2>10
<1>6. ASSUME NEW w \in Worker, Stamp(w) PROVE AloneInv'
  <2>1. /\ pc[w] = "stamp" /\ pc' = [pc EXCEPT ![w] = "walk"]
        /\ node' = [node EXCEPT ![Last(matches[w])] = counter]
        /\ UNCHANGED <<counter, content, local, left, matches, found>>
    BY <1>6 DEF Stamp, Goto, callVars
  <2>2. pc'[w] = "walk" /\ \A v \in Worker \ {w} : pc'[v] = pc[v]
    BY <2>1 DEF Types
  <2>3. In(matches[w], Last(matches[w]))
    <3> DEFINE m == matches[w]
    <3>1. m \in Seq(Texts) /\ m # <<>>
      BY <2>1 DEF Types, CallInv, Call
    <3> HIDE DEF m
    <3>2. Len(m) \in DOMAIN m
      BY <3>1
    <3> QED
      BY <3>2 DEF In, Last, m
  <2>4. \A t \in Texts : node'[t] <= counter' /\ (node'[t] = counter' => In(matches[w], t))
    <3>1. \A t \in Texts : node'[t] = node[t] \/ (t = Last(matches[w]) /\ node'[t] = counter)
      BY <2>1 DEF Types
    <3>2. counter <= counter
      BY DEF Types
    <3>3. \A t \in Texts : node[t] = counter => In(matches[w], t)
      BY <1>b, <2>1 DEF Alone
    <3> QED
      BY <1>b, <2>1, <2>3, <3>1, <3>2, <3>3
  <2>5. Ends(content[w])' = Ends(content[w])
    BY <1>0, <2>1 DEF Ends
  <2>6. Alone(w)'
    BY <1>0, <1>b, <2>1, <2>2, <2>4, <2>5 DEF Alone, In, InMatch
  <2>7. pc[w] \in InMatch
    BY <2>1 DEF InMatch
  <2> QED
    BY <1>1, <1>b, <2>1, <2>2, <2>4, <2>6, <2>7
<1>7. ASSUME NEW w \in Worker, ReportLiterals(w) PROVE AloneInv'
  <2>1. /\ pc[w] = "walk" /\ left[w] = {} /\ pc' = [pc EXCEPT ![w] = "regex"]
        /\ UNCHANGED <<counter, node, content, local, left, matches>>
        /\ \E f : found' = [found EXCEPT ![w] = f]
    BY <1>7 DEF ReportLiterals, Goto, matcherVars, callVars
  <2>2. /\ pc'[w] = "regex"
        /\ \A v \in Worker \ {w} : UNCHANGED <<pc[v], content[v], left[v], matches[v], found[v]>>
    BY <2>1 DEF Types, PerWorker
  <2>3. \A t : In(matches[w], t) => <<NameOf(t), t>> \in Reported(w)'
    BY <1>7, ReportIs
  <2>4. \A x \in Ends(content[w]) : In(matches[w], x[1])
    BY <1>b, <2>1 DEF Alone, InMatch
  <2>5. Ends(content[w])' = Ends(content[w])
    BY <1>0, <2>1 DEF Ends
  <2>6. LiteralHits(w)' \subseteq Reported(w)'
    BY <1>0, <2>3, <2>4, <2>5 DEF LiteralHits
  <2>7. Alone(w)'
    BY <2>2, <2>6 DEF Alone, InMatch
  <2>8. pc'[w] \notin InMatch
    BY <2>2 DEF InMatch
  <2> QED
    BY <1>1, <1>b, <2>1, <2>2, <2>7, <2>8
<1>8. CASE UNCHANGED vars
  <2>1. UNCHANGED <<counter, node, local, pc, content, left, matches, found, setup>>
    BY <1>8 DEF vars, matcherVars, callVars
  <2>2. \A w \in Worker : Alone(w)'
    BY <1>b, <2>1, AloneStays
  <2> QED
    BY <1>0, <1>b, <2>1, <2>2 DEF AloneInv, InMatch
<1> QED
  BY <1>2, <1>3, <1>4, <1>5, <1>6, <1>7, <1>8 DEF Next, Over

(* The map keeps the name of a pattern that no later one shadows. *)
LEMMA NameStands ==
  ASSUME activePatterns \in Selections, NEW i \in Literals, ~Shadowed(i)
  PROVE  NameOf(activePatterns[i].text) = activePatterns[i].name
<1> DEFINE I == {j \in Literals : activePatterns[j].text = activePatterns[i].text}
           k == CHOOSE k \in I : \A j \in I : j <= k
<1>1. \A j \in Literals : j \in Nat
  <2>1. \A n \in DOMAIN activePatterns : n \in Nat
    BY MatchAssumption
  <2> QED
    BY <2>1 DEF Literals
<1>2. i \in I /\ \A j \in I : j <= i
  BY <1>1 DEF Shadowed
<1>3. k \in I /\ \A j \in I : j <= k
  BY <1>2
<1>4. k = i
  <2>1. k \in Nat /\ i \in Nat /\ k <= i /\ i <= k
    BY <1>1, <1>2, <1>3
  <2> QED
    BY <2>1
<1>5. NameOf(activePatterns[i].text) = activePatterns[k].name
  BY DEF NameOf
<1> QED
  BY <1>4, <1>5

(* A literal pattern that occurs in a record goes unreported only if two   *)
(* workers have been inside the shared matcher at once, in this call or in *)
(* an earlier one (a lost update of m.counter leaves nodes ahead of it),   *)
(* or if a later pattern has its text.                                     *)
THEOREM MissesHold == Spec => []MissNeedsRace
<1>1. TypeOK /\ AloneInv => MissNeedsRace
  <2> SUFFICES ASSUME TypeOK, AloneInv, ~raced, NEW w \in Worker, pc[w] = "regex",
                      NEW i \in Literals, NEW x \in Ends(content[w]),
                      x[1] = activePatterns[i].text, ~Shadowed(i)
               PROVE  <<activePatterns[i].name, x[1]>> \in Reported(w)
    BY DEF MissNeedsRace
  <2>1. <<NameOf(x[1]), x[1]>> \in Reported(w)
    BY DEF AloneInv, Alone, LiteralHits
  <2>2. NameOf(x[1]) = activePatterns[i].name
    BY NameStands DEF TypeOK
  <2> QED
    BY <2>1, <2>2
<1> QED
  BY <1>1, TypeCorrect, TypeStart, TypeStep, CallStart, CallStep, AloneStart, AloneStep, PTL DEF Spec

-----------------------------------------------------------------------------
(* The pre-filter. *)

LEMMA TextIs ==
  ASSUME activePatterns \in Selections, NEW i \in DOMAIN activePatterns
  PROVE  activePatterns[i].text \in Seq(Char)
<1> DEFINE Pat == [name: STRING, text: Seq(Char) \ {<<>>}, nocase: BOOLEAN, pcreOnly: BOOLEAN]
<1>1. activePatterns \in Seq(Pat)
  BY MatchAssumption
<1>2. \A p \in Pat : p.text \in Seq(Char)
  OBVIOUS
<1> HIDE DEF Pat
<1>3. activePatterns[i] \in Pat
  BY <1>1
<1> QED
  BY <1>2, <1>3

LEMMA CharIs ==
  /\ Dot \notin Word /\ Content \subseteq Seq(Char)
  /\ Word \subseteq Char /\ Lower \in [Char -> Char]
  /\ \A c \in Char : Lower[c] \in Word <=> c \in Word
BY MatchAssumption, TextAssumption, Zenon

(* A word that stands alone in a text is one of its tokens. *)
LEMMA TokenIs ==
  ASSUME NEW t \in Seq(Char), NEW i \in DOMAIN t, NEW j \in DOMAIN t, Run(t, i, j)
  PROVE  SubSeq(t, i, j) \in Tokens(t)
<1>1. <<i, j>> \in Span(t)
  BY DEF Span
<1> QED
  BY <1>1 DEF Tokens

(* The pattern's own word is a keyword. *)
LEMMA WholeToken ==
  ASSUME NEW p \in Seq(Char), Len(p) >= 3, \A k \in DOMAIN p : p[k] \in Word
  PROVE  p \in Tokens(p)
<1>1. 1 \in DOMAIN p /\ Len(p) \in DOMAIN p /\ SubSeq(p, 1, Len(p)) = p
  BY SubSeqFull
<1>2. Run(p, 1, Len(p))
  BY DEF Run
<1> QED
  BY <1>1, <1>2, TokenIs

(* Where a pattern of word characters occurs, the text has the same word   *)
(* in lower case.                                                          *)
LEMMA OccurrenceIs ==
  ASSUME NEW p, p.text \in Seq(Char),
         \A k \in DOMAIN p.text : p.text[k] \in Word,
         NEW t \in Seq(Char), NEW from \in DOMAIN t, Occurs(p, t, from),
         NEW k \in DOMAIN p.text
  PROVE  /\ from + k - 1 \in DOMAIN t
         /\ t[from + k - 1] \in Word
         /\ Lower[t[from + k - 1]] = Lower[p.text[k]]
<1> DEFINE q == p.text
           j == from + k - 1
<1>1. j \in DOMAIN t
  <2>1. from + Len(q) <= Len(t) + 1
    BY DEF Occurs
  <2>2. k \in 1 .. Len(q) /\ from \in 1 .. Len(t) /\ Len(q) \in Nat /\ Len(t) \in Nat
    OBVIOUS
  <2> HIDE DEF q
  <2>3. j \in 1 .. Len(t)
    BY <2>1, <2>2
  <2> QED
    BY <2>3
<1> DEFINE a == q[k]
           b == t[j]
<1>2. a \in Word /\ a \in Char /\ b \in Char
  BY <1>1, CharIs
<1>3. Same(a, b) \/ Same(Lower[a], Lower[b])
  BY DEF Occurs
<1> HIDE DEF a, b
<1>4. Lower[a] \in Word /\ a # Dot /\ Lower[a] # Dot
  BY <1>2, CharIs
<1>5. a = b \/ Lower[a] = Lower[b]
  BY <1>3, <1>4 DEF Same
<1>6. Lower[b] = Lower[a] /\ b \in Word
  BY <1>2, <1>4, <1>5, CharIs
<1> QED
  BY <1>1, <1>6 DEF a, b

LEMMA Shift ==
  ASSUME NEW i \in Nat, NEW n \in Nat, NEW j \in i .. i + n - 1
  PROVE  /\ j - i + 1 \in 1 .. n
         /\ i + (j - i + 1) - 1 = j
<1>1. j \in Nat
  OBVIOUS
<1>2. j - i + 1 >= 1 /\ j - i + 1 <= n /\ j - i + 1 \in Int
  BY <1>1
<1> QED
  BY <1>1, <1>2

LEMMA PartIs ==
  ASSUME NEW S, NEW s \in Seq(S), NEW i \in DOMAIN s, NEW j \in DOMAIN s, i <= j
  PROVE  /\ DOMAIN SubSeq(s, i, j) = 1 .. j - i + 1
         /\ \A k \in 1 .. j - i + 1 : SubSeq(s, i, j)[k] = s[i + k - 1]
OBVIOUS

LEMMA WordIsToken ==
  ASSUME NEW p, p.text \in Seq(Char), Len(p.text) >= 3,
         \A k \in DOMAIN p.text : p.text[k] \in Word,
         NEW t \in Seq(Char), NEW from \in DOMAIN t, Occurs(p, t, from),
         from = 1 \/ t[from - 1] \notin Word,
         from + Len(p.text) = Len(t) + 1 \/ t[from + Len(p.text)] \notin Word
  PROVE  \E token \in Tokens(t) : Folded(token) = Folded(p.text)
<1> DEFINE q == p.text
           L == Len(q)
           to == from + L - 1
           token == SubSeq(t, from, to)
<1>0. L \in Nat /\ DOMAIN q = 1 .. L /\ Len(t) \in Nat /\ from \in 1 .. Len(t) /\ DOMAIN t = 1 .. Len(t)
  OBVIOUS
<1>1. \A k \in 1 .. L : /\ from + k - 1 \in DOMAIN t /\ t[from + k - 1] \in Word
                        /\ Lower[t[from + k - 1]] = Lower[q[k]]
  BY OccurrenceIs
<1>2. L >= 3 /\ from + L <= Len(t) + 1
        /\ (from = 1 \/ t[from - 1] \notin Word)
        /\ (from + L = Len(t) + 1 \/ t[from + L] \notin Word)
  BY DEF Occurs
<1> HIDE DEF q, L
<1>3. to \in DOMAIN t
  BY <1>0, <1>2
<1>4. Run(t, from, to)
  <2>1. to >= from + 2
    BY <1>0, <1>2
  <2>2. ASSUME NEW j \in from .. to PROVE t[j] \in Word
    <3>1. from \in Nat /\ L \in Nat /\ j \in from .. from + L - 1
      BY <1>0, <2>2
    <3>2. j - from + 1 \in 1 .. L /\ from + (j - from + 1) - 1 = j
      BY <3>1, Shift
    <3> QED
      BY <1>1, <3>2
  <2>3. to = Len(t) \/ t[to + 1] \notin Word
    <3>1. to + 1 = from + L /\ (from + L = Len(t) + 1 => to = Len(t))
      BY <1>0
    <3> QED
      BY <1>2, <3>1
  <2> HIDE DEF to
  <2> QED
    BY <1>2, <2>1, <2>2, <2>3 DEF Run
<1>5. token \in Tokens(t)
  <2> HIDE DEF to
  <2> QED
    BY <1>3, <1>4, TokenIs
<1>6. Folded(token) = Folded(q)
  <2>1. from <= to /\ to - from + 1 = L
    BY <1>0, <1>2
  <2>2. DOMAIN token = 1 .. L /\ \A k \in 1 .. L : token[k] = t[from + k - 1]
    <3> HIDE DEF to
    <3> QED
      BY <1>3, <2>1, PartIs
  <2> HIDE DEF token
  <2>3. \A k \in 1 .. L : Lower[token[k]] = Lower[q[k]]
    BY <1>1, <2>2
  <2> QED
    BY <1>0, <2>2, <2>3 DEF Folded
<1> QED
  BY <1>5, <1>6 DEF q

(* A record that has been dropped was not let through by the filter. *)
FilterInv ==
  \A w \in Worker :
    /\ pc[w] \in {"filter", "dropped"} => content[w] \in Content
    /\ pc[w] = "dropped" => MayDrop(Filter, content[w])

LEMMA FilterStart == Init => FilterInv
BY DEF Init, FilterInv

LEMMA FilterStep == Types /\ FilterInv /\ [Next]_vars => FilterInv'
<1> SUFFICES ASSUME Types, FilterInv, [Next]_vars PROVE FilterInv'
  OBVIOUS
<1>0. Filter' = Filter
  BY SetupStays, SetupSame DEF Filter
<1>1. ASSUME NEW v \in Worker, UNCHANGED <<pc[v], content[v]>>
      PROVE  /\ (pc[v] \in {"filter", "dropped"} => content[v] \in Content)'
             /\ (pc[v] = "dropped" => MayDrop(Filter, content[v]))'
  BY <1>0, <1>1 DEF FilterInv
<1>2. ASSUME NEW w \in Worker, ReceiveRecord(w) PROVE FilterInv'
  <2>1. PICK t \in Content : content' = [content EXCEPT ![w] = t]
    BY <1>2 DEF ReceiveRecord
  <2>2. pc' = [pc EXCEPT ![w] = "filter"]
    BY <1>2 DEF ReceiveRecord, Goto
  <2>3. content'[w] = t /\ pc'[w] = "filter"
        /\ \A v \in Worker \ {w} : UNCHANGED <<pc[v], content[v]>>
    BY <2>1, <2>2 DEF Types, PerWorker
  <2> QED
    BY <1>1, <2>1, <2>3 DEF FilterInv
<1>3. ASSUME NEW w \in Worker, CheckFilter(w) PROVE FilterInv'
  <2>1. /\ pc[w] = "filter" /\ UNCHANGED content
        /\ \/ pc' = [pc EXCEPT ![w] = "prepare"]
           \/ MayDrop(Filter, content[w]) /\ pc' = [pc EXCEPT ![w] = "dropped"]
    BY <1>3 DEF CheckFilter, Goto
  <2>2. /\ pc'[w] = "prepare" \/ (pc'[w] = "dropped" /\ MayDrop(Filter, content[w]))
        /\ \A v \in Worker \ {w} : UNCHANGED <<pc[v], content[v]>>
    BY <2>1 DEF Types
  <2>3. /\ (pc[w] \in {"filter", "dropped"} => content[w] \in Content)'
        /\ (pc[w] = "dropped" => MayDrop(Filter, content[w]))'
    BY <1>0, <2>1, <2>2 DEF FilterInv
  <2> QED
    BY <1>1, <2>2, <2>3 DEF FilterInv
<1>4. ASSUME NEW w \in Worker,
             Prepare(w) \/ EnterMatch(w) \/ Count(w) \/ Walk(w) \/ Stamp(w)
               \/ ReportLiterals(w) \/ ReportRegexps(w)
      PROVE  FilterInv'
  <2>1. /\ pc[w] \notin {"filter", "dropped"}
        /\ pc' = pc \/ \E l \in Place \ {"filter", "dropped"} : pc' = [pc EXCEPT ![w] = l]
        /\ content' = content \/ \E t : content' = [content EXCEPT ![w] = t]
    <3>1. CASE Prepare(w)
      BY <3>1 DEF Prepare, Goto, Place
    <3>2. CASE EnterMatch(w) \/ Count(w)
      BY <3>2 DEF EnterMatch, Count, Goto, Place, InMatch
    <3>3. CASE Walk(w) \/ Stamp(w)
      BY <3>3 DEF Walk, Stamp, Goto, Place, InMatch
    <3>4. CASE ReportLiterals(w) \/ ReportRegexps(w)
      BY <3>4 DEF ReportLiterals, ReportRegexps, Goto, Place
    <3> QED
      BY <1>4, <3>1, <3>2, <3>3, <3>4
  <2>2. pc'[w] \notin {"filter", "dropped"}
        /\ \A v \in Worker \ {w} : UNCHANGED <<pc[v], content[v]>>
    BY <2>1 DEF Types, PerWorker
  <2> QED
    BY <1>1, <2>2 DEF FilterInv
<1>5. CASE UNCHANGED vars
  BY <1>1, <1>5 DEF vars, FilterInv
<1> QED
  BY <1>2, <1>3, <1>4, <1>5 DEF Next, Over

(* A record is dropped only if some pattern has a keyword and none of the  *)
(* literals of three or more word characters, in either case, stands in it *)
(* between non-word characters: the extractions of keywords from patterns  *)
(* and from records agree.                                                 *)
THEOREM KeepsWordsHolds == Spec => []KeepsWords
<1>1. Types /\ FilterInv => KeepsWords
  <2> SUFFICES ASSUME Types, FilterInv, NEW w \in Worker, pc[w] = "dropped"
               PROVE  /\ \E i \in DOMAIN activePatterns : Tokens(activePatterns[i].text) # {}
                      /\ ~ \E i \in DOMAIN activePatterns, from \in DOMAIN content[w] :
                             LET p == activePatterns[i]
                                 to == from + Len(p.text)
                             IN  /\ Len(p.text) >= 3 /\ \A k \in DOMAIN p.text : p.text[k] \in Word
                                 /\ Occurs(p, content[w], from)
                                 /\ from = 1 \/ content[w][from - 1] \notin Word
                                 /\ to = Len(content[w]) + 1 \/ content[w][to] \notin Word
    BY DEF KeepsWords
  <2> DEFINE texts == {activePatterns[i].text : i \in DOMAIN activePatterns}
             t == content[w]
  <2>1. MayDrop(Filter, t) /\ t \in Seq(Char)
    BY CharIs DEF FilterInv
  <2>2. /\ Keywords(texts) # {}
        /\ \A token \in Tokens(t) : Folded(token) \notin Keywords(texts)
    BY <2>1 DEF MayDrop, Filter, NilFilter, NewPreFilter, FilterOf, Holds
  <2>3. \E i \in DOMAIN activePatterns : Tokens(activePatterns[i].text) # {}
    BY <2>2 DEF Keywords
  <2>4. ASSUME NEW i \in DOMAIN activePatterns, NEW from \in DOMAIN t,
               Len(activePatterns[i].text) >= 3,
               \A k \in DOMAIN activePatterns[i].text : activePatterns[i].text[k] \in Word,
               Occurs(activePatterns[i], t, from),
               from = 1 \/ t[from - 1] \notin Word,
               \/ from + Len(activePatterns[i].text) = Len(t) + 1
               \/ t[from + Len(activePatterns[i].text)] \notin Word
        PROVE  FALSE
    <3> DEFINE p == activePatterns[i]
    <3>1. p.text \in Seq(Char) /\ p.text \in texts
      BY TextIs DEF Types
    <3>2. Folded(p.text) \in Keywords(texts)
      <4>1. p.text \in Tokens(p.text)
        BY <2>4, <3>1, WholeToken
      <4> QED
        BY <3>1, <4>1 DEF Keywords
    <3>3. \E token \in Tokens(t) : Folded(token) = Folded(p.text)
      <4> HIDE DEF p, t
      <4>1. /\ Len(p.text) >= 3 /\ \A k \in DOMAIN p.text : p.text[k] \in Word
            /\ t \in Seq(Char) /\ from \in DOMAIN t /\ Occurs(p, t, from)
            /\ from = 1 \/ t[from - 1] \notin Word
            /\ from + Len(p.text) = Len(t) + 1 \/ t[from + Len(p.text)] \notin Word
        BY <2>1, <2>4 DEF p, t
      <4> QED
        BY <3>1, <4>1, WordIsToken
    <3> QED
      BY <2>2, <3>2, <3>3
  <2> QED
    BY <2>3, <2>4
<1> QED
  BY <1>1, TypeStart, TypeStep, FilterStart, FilterStep, PTL DEF Spec

=============================================================================
