--------------------------- MODULE ChunkSplitProofs ---------------------------
(***************************************************************************)
(* Proofs about ChunkSplit, for files of every length, with newlines       *)
(* anywhere, and any number of goroutines.                                 *)
(***************************************************************************)
EXTENDS ChunkSplit, TLAPS

(* The file's part of TypeOK, which no step changes. *)
InputOK == /\ size \in Nat \ {0} /\ chunks \in Nat \ {0}
           /\ newlines \subseteq 0 .. size - 1

LEMMA InputIsOK == TypeOK => InputOK
BY SizeAssumption DEF TypeOK, InputOK

-----------------------------------------------------------------------------
(* The types hold: no offset leaves the file, but for a curr one behind it. *)
THEOREM TypeCorrect == Spec => []TypeOK
<1> USE SizeAssumption, OptionAssumption
<1>1. Init => TypeOK
  <2> SUFFICES ASSUME Init PROVE TypeOK
    OBVIOUS
  <2>1. size \in Nat /\ 0 \in 0 .. size /\ 0 \in 0 .. size + 1
    BY DEF Init
  <2> QED
    BY <2>1 DEF Init, TypeOK
<1>2. TypeOK /\ [Next]_vars => TypeOK'
  <2> SUFFICES ASSUME TypeOK, [Next]_vars PROVE TypeOK'
    OBVIOUS
  <2>1. CASE CancelCtx \/ Unmap \/ UNCHANGED vars
    BY <2>1 DEF CancelCtx, Unmap, vars, input, goVars, TypeOK, Chunk
  <2>2. ASSUME NEW i \in Chunk, Run(i) PROVE TypeOK'
    <3>1. CASE IndexPanic(i) \/ ReadUnmapped(i)
      BY <3>1 DEF IndexPanic, ReadUnmapped, input, goVars, TypeOK, Chunk
    <3>2. CASE SetBounds(i)
      <4>1. PICK a \in 0 .. size, b \in 0 .. size :
              /\ start' = [start EXCEPT ![i] = a]
              /\ curr' = [curr EXCEPT ![i] = a]
              /\ end' = [end EXCEPT ![i] = b]
        BY <3>2 DEF SetBounds
      <4>2. a \in 0 .. size + 1
        BY <4>1, InputIsOK DEF InputOK
      <4> QED
        BY <3>2, <4>1, <4>2 DEF SetBounds, input, TypeOK, Chunk
    <3>3. CASE TakeLine(i)
      <4>1. PICK b \in curr[i] .. end[i] :
              /\ out' = IF curr[i] \in refused THEN out ELSE out \cup {Line(i, curr[i], b)}
              /\ curr' = [curr EXCEPT ![i] = b + 1]
        BY <3>3 DEF TakeLine
      <4>2. /\ curr[i] \in 0 .. size /\ b \in 0 .. size
            /\ end[i] \in 0 .. size
        BY <3>3, <4>1, InputIsOK DEF TakeLine, TypeOK, InputOK
      <4>3. curr' \in [Chunk -> 0 .. size + 1]
        BY <4>1, <4>2, InputIsOK DEF TypeOK, InputOK
      <4>4. \A x \in out' : /\ x.chunk \in Chunk
                            /\ x.from \in 0 .. size /\ x.to \in 0 .. size
                            /\ x = Line(x.chunk, x.from, x.to)
        BY <4>1, <4>2 DEF TypeOK, Line
      <4> QED
        BY <3>3, <4>3, <4>4 DEF TakeLine, input, TypeOK, Chunk
    <3>4. CASE FinishChunk(i) \/ AbandonChunk(i)
      BY <3>4 DEF FinishChunk, AbandonChunk, input, TypeOK, Chunk
    <3> QED
      BY <2>2, <3>1, <3>2, <3>3, <3>4 DEF Run
  <2> QED
    BY <2>1, <2>2 DEF Next, Over
<1> QED
  BY <1>1, <1>2, PTL DEF Spec

-----------------------------------------------------------------------------
(* Arithmetic of the bounds before they are moved. *)

LEMMA Division ==
  ASSUME NEW s \in Nat, NEW c \in Nat \ {0}
  PROVE  /\ s \div c \in Nat
         /\ (s \div c) * c <= s
         /\ s \div c = 0 => s < c
BY Z3

LEMMA Times ==
  ASSUME NEW k \in Nat, NEW i \in Nat
  PROVE  /\ i * k \in Nat
         /\ (i + 1) * k = i * k + k
         /\ \A j \in Nat : i <= j => i * k <= j * k
BY Z3

LEMMA Positive ==
  ASSUME NEW k \in Nat \ {0}, NEW i \in Nat \ {0}
  PROVE  i * k > 0
BY Z3

LEMMA BoundsInFile ==
  ASSUME InputOK, NEW i \in Chunk
  PROVE  /\ ChunkSize \in Nat
         /\ Low(i) \in 0 .. size /\ High(i) \in 0 .. size
<1>1. ChunkSize \in Nat /\ chunks * ChunkSize <= size
  BY Division DEF InputOK, ChunkSize
<1>2. i \in Nat /\ i + 1 \in Nat /\ i <= chunks /\ i + 1 <= chunks /\ chunks \in Nat
  BY DEF InputOK, Chunk
<1>3. /\ i * ChunkSize \in Nat /\ (i + 1) * ChunkSize \in Nat
      /\ i * ChunkSize <= chunks * ChunkSize
      /\ (i + 1) * ChunkSize <= chunks * ChunkSize
      /\ chunks * ChunkSize \in Nat
  BY <1>1, <1>2, Times
<1> QED
  BY <1>1, <1>3 DEF Low, High, InputOK

(* A chunk ends before the next one begins. *)
LEMMA HighBeforeLow ==
  ASSUME InputOK, NEW i \in Chunk, NEW j \in Chunk, i < j
  PROVE  /\ High(i) <= Low(j)
         /\ High(i) > 0 => Low(j) > 0
<1>1. /\ i \in Nat /\ j \in Nat /\ i + 1 \in Nat /\ i + 1 <= j
      /\ i # chunks - 1
  BY DEF InputOK, Chunk
<1>2. (i + 1) * ChunkSize <= j * ChunkSize
  BY <1>1, BoundsInFile, Times
<1>3. High(i) = (i + 1) * ChunkSize /\ Low(j) = j * ChunkSize
  BY <1>1 DEF High, Low
<1> QED
  BY <1>2, <1>3, BoundsInFile

(* The chunk of a byte. *)
LEMMA ChunkOfByte ==
  ASSUME InputOK, \A i \in Chunk : High(i) > 0, NEW a \in 0 .. size - 1
  PROVE  \E i \in Chunk : Low(i) <= a /\ a < High(i)
<1>1. ChunkSize \in Nat /\ chunks \in Nat /\ chunks - 1 \in Chunk /\ a \in Nat
  BY BoundsInFile DEF InputOK, Chunk
<1>2. CASE (chunks - 1) * ChunkSize <= a
  BY <1>1, <1>2 DEF Low, High, InputOK
<1>3. CASE a < (chunks - 1) * ChunkSize
  <2>1. ChunkSize # 0
    BY <1>1, <1>3, Times DEF InputOK
  <2> DEFINE i == a \div ChunkSize
  <2>2. i \in Nat /\ i * ChunkSize <= a /\ a < (i + 1) * ChunkSize
    BY <1>1, <2>1, Z3
  <2>3. i < chunks - 1
    <3>1. SUFFICES ASSUME chunks - 1 <= i PROVE FALSE
      BY <1>1, <2>2
    <3>2. (chunks - 1) * ChunkSize <= i * ChunkSize
      BY <1>1, <2>2, <3>1, Times DEF InputOK
    <3> QED
      BY <1>1, <1>3, <2>2, <3>2, Times DEF InputOK
  <2>4. i \in Chunk /\ i # chunks - 1
    BY <1>1, <2>2, <2>3 DEF Chunk
  <2> QED
    BY <2>2, <2>4 DEF Low, High
<1> QED
  BY <1>1, <1>2, <1>3, Times DEF InputOK

(* With a chunk that ends at 0 there are fewer bytes than goroutines. *)
LEMMA EmptyChunk ==
  ASSUME InputOK, NEW i \in Chunk, High(i) = 0
  PROVE  size < chunks
<1>1. i # chunks - 1 /\ i \in Nat /\ (i + 1) * ChunkSize = 0
  BY DEF High, InputOK, Chunk
<1>2. ChunkSize = 0
  BY <1>1, BoundsInFile, Positive
<1> QED
  BY <1>2, Division DEF ChunkSize, InputOK

-----------------------------------------------------------------------------
(* What the two loops leave. *)

IsStart(p) == p = 0 \/ p - 1 \in newlines

Bounded(i) ==
  at[i] # "bounds" =>
    /\ High(i) > 0
    /\ IF Low(i) > 0 THEN MovesTo(Low(i), start[i]) ELSE start[i] = 0
    /\ MovesTo(High(i), end[i])
    /\ start[i] <= curr[i]
    /\ curr[i] < end[i] => IsStart(curr[i])

(* A line sent lies in the part of its chunk that has been passed. *)
SentInside(x) ==
  /\ at[x.chunk] # "bounds"
  /\ start[x.chunk] <= x.from /\ x.from < curr[x.chunk] /\ x.from < end[x.chunk]
  /\ IsLine(x.from, x.to)

LinesInv == /\ \A i \in Chunk : Bounded(i)
            /\ \A x \in out : SentInside(x)

(* Of two chunks, one ends before the other begins: both bounds in between *)
(* stop at the first line start behind them.                               *)
LEMMA Disjoint ==
  ASSUME TypeOK, NEW i \in Chunk, NEW j \in Chunk, i < j,
         at[i] # "bounds", at[j] # "bounds", Bounded(i), Bounded(j)
  PROVE  end[i] <= start[j]
<1>1. /\ High(i) <= Low(j) /\ High(i) > 0 /\ Low(j) > 0
  BY InputIsOK, HighBeforeLow DEF Bounded
<1>2. MovesTo(High(i), end[i]) /\ MovesTo(Low(j), start[j])
  BY <1>1 DEF Bounded
<1>3. /\ High(i) \in Int /\ Low(j) \in Int
      /\ start[j] \in 0 .. size /\ end[i] \in 0 .. size /\ size \in Nat
  BY InputIsOK, BoundsInFile DEF TypeOK, InputOK
<1> QED
  BY <1>1, <1>2, <1>3 DEF MovesTo

(* A line start belongs to one line. *)
LEMMA LineEnd ==
  ASSUME InputOK, NEW a \in Int, NEW b \in Int, NEW c \in Int,
         IsLine(a, b), IsLine(a, c)
  PROVE  b = c
BY DEF IsLine, InputOK

(* What TakeLine sends is a whole line, and a line starts behind it. *)
LEMMA SendsLine ==
  ASSUME TypeOK, NEW i \in Chunk, at[i] = "lines", Bounded(i), curr[i] < end[i],
         NEW b \in curr[i] .. end[i], b = end[i] \/ b \in newlines,
         \A q \in curr[i] .. b - 1 : q \notin newlines
  PROVE  /\ IsLine(curr[i], b)
         /\ b + 1 < end[i] => IsStart(b + 1)
<1>1. /\ curr[i] \in 0 .. size /\ b \in 0 .. size /\ end[i] \in 0 .. size
      /\ size \in Nat
  BY InputIsOK DEF TypeOK, InputOK
<1>2. IsStart(curr[i]) /\ Stops(end[i])
  BY DEF Bounded, MovesTo
<1>3. b = size \/ b \in newlines
  <2>1. CASE b = end[i] /\ end[i] - 1 \in newlines
    BY <1>1, <2>1
  <2> QED
    BY <1>2, <2>1 DEF Stops
<1>4. IsLine(curr[i], b)
  BY <1>1, <1>2, <1>3 DEF IsLine, IsStart
<1>5. b + 1 < end[i] => IsStart(b + 1)
  BY <1>1 DEF IsStart
<1> QED
  BY <1>4, <1>5

(* The steps that change neither the file nor what chunk i has done. *)
LEMMA FileStays ==
  ASSUME UNCHANGED input
  PROVE  /\ Chunk' = Chunk
         /\ \A a, b : IsLine(a, b)' <=> IsLine(a, b)
         /\ \A a : IsStart(a)' <=> IsStart(a)
         /\ \A a, b : MovesTo(a, b)' <=> MovesTo(a, b)
         /\ \A i \in Chunk : Low(i)' = Low(i) /\ High(i)' = High(i)
BY DEF input, Chunk, IsLine, IsStart, MovesTo, Stops, Low, High, ChunkSize

LEMMA LinesStep ==
  ASSUME TypeOK, LinesInv, [Next]_vars
  PROVE  LinesInv'
<1>1. CASE CancelCtx \/ Unmap \/ UNCHANGED vars
  BY <1>1 DEF CancelCtx, Unmap, vars, input, goVars, LinesInv, Bounded, SentInside,
     Chunk, IsLine, IsStart, MovesTo, Stops, Low, High, ChunkSize
<1>2. ASSUME NEW i \in Chunk, Run(i) PROVE LinesInv'
  <2>1. CASE IndexPanic(i) \/ ReadUnmapped(i)
    BY <2>1 DEF IndexPanic, ReadUnmapped, input, goVars, LinesInv, Bounded,
       SentInside, Chunk, IsLine, IsStart, MovesTo, Stops, Low, High, ChunkSize
  <2>2. CASE SetBounds(i)
    <3>1. PICK a \in 0 .. size, b \in 0 .. size :
            /\ IF Low(i) > 0 THEN MovesTo(Low(i), a) ELSE a = 0
            /\ MovesTo(High(i), b)
            /\ start' = [start EXCEPT ![i] = a]
            /\ curr' = [curr EXCEPT ![i] = a]
            /\ end' = [end EXCEPT ![i] = b]
      BY <2>2 DEF SetBounds
    <3>2. /\ UNCHANGED <<input, out>>
          /\ at[i] = "bounds" /\ High(i) > 0
          /\ at' = [at EXCEPT ![i] = "lines"]
      BY <2>2 DEF SetBounds
    <3>3. start'[i] = a /\ curr'[i] = a /\ end'[i] = b
      BY <3>1 DEF TypeOK
    <3>4. \A j \in Chunk : j # i => /\ at'[j] = at[j] /\ start'[j] = start[j]
                                   /\ curr'[j] = curr[j] /\ end'[j] = end[j]
      BY <3>1, <3>2 DEF TypeOK
    <3>5. a < b => IsStart(a)
      BY <3>1, InputIsOK DEF MovesTo, Stops, IsStart, InputOK
    <3>6. Bounded(i)'
      <4>1. a <= a
        BY InputIsOK DEF InputOK
      <4> QED
        BY <3>1, <3>2, <3>3, <3>5, <4>1, FileStays DEF Bounded
    <3>7. \A j \in Chunk : j # i => Bounded(j)'
      BY <3>2, <3>4, FileStays DEF Bounded, LinesInv
    <3>8. \A x \in out : SentInside(x)'
      <4>1. \A x \in out : x.chunk # i /\ x.chunk \in Chunk
        BY <3>2 DEF LinesInv, SentInside, TypeOK
      <4> QED
        BY <3>2, <3>4, <4>1, FileStays DEF SentInside, LinesInv
    <3> QED
      BY <3>2, <3>6, <3>7, <3>8, FileStays DEF LinesInv
  <2>3. CASE TakeLine(i)
    <3>1. PICK b \in curr[i] .. end[i] :
            /\ b = end[i] \/ b \in newlines
            /\ \A q \in curr[i] .. b - 1 : q \notin newlines
            /\ out' = IF curr[i] \in refused THEN out ELSE out \cup {Line(i, curr[i], b)}
            /\ curr' = [curr EXCEPT ![i] = b + 1]
      BY <2>3 DEF TakeLine
    <3>2. /\ at[i] = "lines" /\ curr[i] < end[i]
          /\ UNCHANGED <<input, at, start, end>>
      BY <2>3 DEF TakeLine
    <3>3. IsLine(curr[i], b) /\ (b + 1 < end[i] => IsStart(b + 1))
      BY <3>1, <3>2, SendsLine DEF LinesInv
    <3>4. /\ curr'[i] = b + 1 /\ curr[i] < curr'[i] /\ start[i] <= curr[i]
          /\ curr[i] \in Int /\ start[i] \in Int /\ b \in Int /\ end[i] \in Int
          /\ \A j \in Chunk : j # i => curr'[j] = curr[j]
      BY <3>1, <3>2, InputIsOK DEF TypeOK, LinesInv, Bounded, InputOK
    <3>5. \A j \in Chunk : Bounded(j)'
      <4>1. Bounded(i)'
        BY <3>2, <3>3, <3>4, FileStays DEF Bounded, LinesInv
      <4>2. \A j \in Chunk : j # i => Bounded(j)'
        BY <3>2, <3>4, FileStays DEF Bounded, LinesInv
      <4> QED
        BY <4>1, <4>2
    <3>6. \A x \in out : SentInside(x)'
      <4> SUFFICES ASSUME NEW x \in out PROVE SentInside(x)'
        OBVIOUS
      <4>1. /\ SentInside(x) /\ x.chunk \in Chunk /\ x.from \in Int
        BY InputIsOK DEF LinesInv, TypeOK, InputOK
      <4>2. x.from < curr'[x.chunk]
        BY <3>4, <4>1 DEF SentInside
      <4> QED
        BY <3>2, <4>1, <4>2, FileStays DEF SentInside
    <3>7. \A x \in out' : x = Line(i, curr[i], b) => SentInside(x)'
      <4> SUFFICES ASSUME NEW x \in out', x = Line(i, curr[i], b)
                   PROVE  SentInside(x)'
        OBVIOUS
      <4>1. x.chunk = i /\ x.from = curr[i] /\ x.to = b
        BY DEF Line
      <4>2. IsLine(x.from, x.to)'
        BY <3>2, <3>3, <4>1, FileStays
      <4> QED
        BY <3>2, <3>4, <4>1, <4>2 DEF SentInside
    <3>8. \A x \in out' : SentInside(x)'
      BY <3>1, <3>6, <3>7
    <3> QED
      BY <3>2, <3>5, <3>8, FileStays DEF LinesInv
  <2>4. CASE FinishChunk(i) \/ AbandonChunk(i)
    <3>1. /\ UNCHANGED <<input, start, curr, end, out>>
          /\ at[i] = "lines"
          /\ \A j \in Chunk : at'[j] # "bounds" <=> at[j] # "bounds"
      BY <2>4 DEF FinishChunk, AbandonChunk, TypeOK
    <3>2. \A x \in out : x.chunk \in Chunk
      BY DEF TypeOK
    <3>3. \A j \in Chunk : Bounded(j)'
      BY <3>1, FileStays DEF LinesInv, Bounded
    <3>4. \A x \in out : SentInside(x)'
      BY <3>1, <3>2, FileStays DEF LinesInv, SentInside
    <3> QED
      BY <3>1, <3>3, <3>4, FileStays DEF LinesInv
  <2> QED
    BY <1>2, <2>1, <2>2, <2>3, <2>4 DEF Run
<1> QED
  BY <1>1, <1>2 DEF Next, Over

LEMMA LinesHold == Spec => []LinesInv
<1>1. Init => LinesInv
  BY DEF Init, LinesInv, Bounded
<1> QED
  BY <1>1, LinesStep, TypeCorrect, PTL DEF Spec

(* Wherever the bounds of the chunks fall, the goroutines send nothing but *)
(* whole lines of the file, and no line twice.                             *)
THEOREM WholeLinesHold == Spec => []WholeLinesOnce
<1>1. TypeOK /\ LinesInv => WholeLinesOnce
  <2> SUFFICES ASSUME TypeOK, LinesInv PROVE WholeLinesOnce
    OBVIOUS
  <2>1. \A x \in out : IsLine(x.from, x.to)
    BY DEF LinesInv, SentInside
  <2>2. ASSUME NEW x \in out, NEW y \in out, x.from = y.from PROVE x = y
    <3>1. /\ x.chunk \in Chunk /\ y.chunk \in Chunk
          /\ x.from \in Int /\ x.to \in Int /\ y.to \in Int
          /\ x = Line(x.chunk, x.from, x.to) /\ y = Line(y.chunk, y.from, y.to)
      BY InputIsOK DEF TypeOK, InputOK
    <3>2. x.to = y.to
      BY <2>1, <2>2, <3>1, InputIsOK, LineEnd
    <3>3. \A i, j \in Chunk : i < j => ~(x.chunk = i /\ y.chunk = j)
                                     /\ ~(x.chunk = j /\ y.chunk = i)
      <4> SUFFICES ASSUME NEW i \in Chunk, NEW j \in Chunk, i < j,
                          NEW u \in out, NEW v \in out, u.from = v.from,
                          u.from \in Int, u.chunk = i, v.chunk = j
                   PROVE  FALSE
        BY <2>2, <3>1
      <4>1. end[i] <= start[j]
        BY Disjoint DEF LinesInv, SentInside
      <4>2. u.from < end[i] /\ start[j] <= v.from
        BY DEF LinesInv, SentInside
      <4>3. end[i] \in Int /\ start[j] \in Int
        BY InputIsOK DEF TypeOK, InputOK
      <4> QED
        BY <4>1, <4>2, <4>3
    <3>4. x.chunk = y.chunk
      BY <3>1, <3>3, InputIsOK DEF Chunk, InputOK
    <3> QED
      BY <2>2, <3>1, <3>2, <3>4
  <2> QED
    BY <2>1, <2>2 DEF WholeLinesOnce
<1> QED
  BY <1>1, LinesHold, TypeCorrect, PTL

-----------------------------------------------------------------------------
(* No line is lost: every line start a goroutine has passed was sent,     *)
(* unless the line is refused.                                             *)

Passed(i) ==
  /\ at[i] # "bounds" =>
       \A a \in 0 .. size - 1 :
         start[i] <= a /\ a < curr[i] /\ a < end[i] /\ IsStart(a) /\ a \notin refused =>
           \E x \in out : x.from = a
  /\ at[i] = "done" /\ ~ctxDone => curr[i] >= end[i]

PassedInv == \A i \in Chunk : Passed(i)

LEMMA PassedStep ==
  ASSUME TypeOK, LinesInv, PassedInv, [Next]_vars
  PROVE  PassedInv'
<1>1. CASE CancelCtx \/ Unmap \/ UNCHANGED vars
  BY <1>1 DEF CancelCtx, Unmap, vars, input, goVars, PassedInv, Passed, Chunk, IsStart
<1>2. ASSUME NEW i \in Chunk, Run(i) PROVE PassedInv'
  <2>1. CASE IndexPanic(i) \/ ReadUnmapped(i)
    BY <2>1 DEF IndexPanic, ReadUnmapped, input, goVars, PassedInv, Passed, Chunk,
       IsStart
  <2>2. CASE SetBounds(i)
    <3>1. PICK a \in 0 .. size : /\ start' = [start EXCEPT ![i] = a]
                                 /\ curr' = [curr EXCEPT ![i] = a]
      BY <2>2 DEF SetBounds
    <3>2. /\ UNCHANGED <<input, out, ctxDone>>
          /\ at' = [at EXCEPT ![i] = "lines"]
          /\ \A j \in Chunk : j # i => end'[j] = end[j]
      BY <2>2 DEF SetBounds, TypeOK
    <3>3. \A j \in Chunk : j # i => Passed(j)'
      BY <3>1, <3>2, FileStays DEF PassedInv, Passed, TypeOK, input
    <3>4. start'[i] = a /\ curr'[i] = a /\ at'[i] = "lines" /\ a \in Int
      BY <3>1, <3>2, InputIsOK DEF TypeOK, InputOK
    <3>5. \A q \in (0 .. size - 1)' : ~(a <= q /\ q < a)
      BY <3>2, <3>4, InputIsOK DEF InputOK, input
    <3>6. Passed(i)'
      BY <3>4, <3>5 DEF Passed
    <3> QED
      BY <3>2, <3>3, <3>6, FileStays DEF PassedInv
  <2>3. CASE TakeLine(i)
    <3>1. PICK b \in curr[i] .. end[i] :
            /\ b = end[i] \/ b \in newlines
            /\ \A q \in curr[i] .. b - 1 : q \notin newlines
            /\ out' = IF curr[i] \in refused THEN out ELSE out \cup {Line(i, curr[i], b)}
            /\ curr' = [curr EXCEPT ![i] = b + 1]
      BY <2>3 DEF TakeLine
    <3>2. /\ at[i] = "lines" /\ curr[i] < end[i]
          /\ UNCHANGED <<input, at, start, end, ctxDone>>
      BY <2>3 DEF TakeLine
    <3>3. /\ curr'[i] = b + 1 /\ \A j \in Chunk : j # i => curr'[j] = curr[j]
          /\ curr[i] \in Int /\ b \in Int /\ end[i] \in Int /\ start[i] \in Int
      BY <3>1, <3>2, InputIsOK DEF TypeOK, InputOK
    <3>4. \A j \in Chunk : j # i => Passed(j)'
      BY <3>1, <3>2, <3>3, FileStays DEF PassedInv, Passed, input
    <3>5. ASSUME NEW a \in 0 .. size - 1,
                 start[i] <= a, a < b + 1, a < end[i], IsStart(a), a \notin refused
          PROVE  \E x \in out' : x.from = a
      <4>1. CASE a < curr[i]
        BY <3>1, <3>2, <3>5, <4>1 DEF PassedInv, Passed
      <4>2. CASE a = curr[i]
        <5>1. Line(i, curr[i], b) \in out' /\ Line(i, curr[i], b).from = curr[i]
          BY <3>1, <3>5, <4>2 DEF Line
        <5> QED
          BY <4>2, <5>1
      <4>3. CASE a > curr[i]
        BY <3>1, <3>2, <3>3, <3>5, <4>3, InputIsOK
        DEF IsStart, LinesInv, Bounded, MovesTo, InputOK, TypeOK
      <4> QED
        BY <3>3, <4>1, <4>2, <4>3, InputIsOK DEF InputOK
    <3>6. Passed(i)'
      BY <3>2, <3>3, <3>5, FileStays DEF Passed, input
    <3> QED
      BY <3>2, <3>4, <3>6, FileStays DEF PassedInv
  <2>4. CASE FinishChunk(i) \/ AbandonChunk(i)
    BY <2>4 DEF FinishChunk, AbandonChunk, input, PassedInv, Passed, Chunk, IsStart,
       TypeOK
  <2> QED
    BY <1>2, <2>1, <2>2, <2>3, <2>4 DEF Run
<1> QED
  BY <1>1, <1>2 DEF Next, Over

LEMMA PassedHold == Spec => []PassedInv
<1>1. Init => PassedInv
  BY DEF Init, PassedInv, Passed
<1> QED
  BY <1>1, PassedStep, LinesHold, TypeCorrect, PTL DEF Spec

(* When every goroutine of GetRecordsParallel has finished and nobody      *)
(* cancelled, every line of the file that is not refused has been sent:    *)
(* the chunk in which it begins, before the bounds are moved, sends it.    *)
THEOREM NoLineLostHolds == Spec => []NoLineLost
<1>1. TypeOK /\ LinesInv /\ PassedInv => NoLineLost
  <2> SUFFICES ASSUME TypeOK, LinesInv, PassedInv,
                      \A i \in Chunk : at[i] = "done", ~ctxDone,
                      NEW a \in 0 .. size - 1, NEW b \in 0 .. size, IsLine(a, b), a \notin refused
               PROVE  \E x \in out : x.from = a /\ x.to = b
    BY DEF NoLineLost
  <2>1. \A i \in Chunk : High(i) > 0
    BY DEF LinesInv, Bounded
  <2>2. PICK i \in Chunk : Low(i) <= a /\ a < High(i)
    BY <2>1, InputIsOK, ChunkOfByte
  <2>3. /\ Low(i) \in 0 .. size /\ High(i) \in 0 .. size /\ size \in Nat
        /\ start[i] \in 0 .. size /\ end[i] \in 0 .. size /\ curr[i] \in Int
    BY InputIsOK, BoundsInFile DEF InputOK, TypeOK
  <2>4. IsStart(a) /\ (a > 0 => Stops(a))
    BY DEF IsLine, IsStart, Stops
  <2>5. start[i] <= a
    <3>1. CASE Low(i) > 0
      <4>1. MovesTo(Low(i), start[i]) /\ Stops(a)
        BY <2>2, <2>3, <2>4, <3>1 DEF LinesInv, Bounded
      <4> QED
        BY <2>2, <2>3, <4>1 DEF MovesTo
    <3>2. CASE ~(Low(i) > 0)
      BY <2>3, <3>2 DEF LinesInv, Bounded
    <3> QED
      BY <3>1, <3>2
  <2>6. a < end[i]
    BY <2>2, <2>3 DEF LinesInv, Bounded, MovesTo
  <2>7. curr[i] >= end[i]
    BY DEF PassedInv, Passed
  <2>8. PICK x \in out : x.from = a
    BY <2>3, <2>4, <2>5, <2>6, <2>7 DEF PassedInv, Passed
  <2>9. IsLine(a, x.to) /\ x.to \in Int
    BY <2>3, <2>8 DEF LinesInv, SentInside, TypeOK
  <2> QED
    BY <2>3, <2>8, <2>9, InputIsOK, LineEnd
<1> QED
  BY <1>1, PassedHold, LinesHold, TypeCorrect, PTL

-----------------------------------------------------------------------------
(* Unmap waits for the goroutines, unless ctx is cancelled. *)
FaultInv ==
  /\ FaultsExplained
  /\ ~mapped /\ ~ctxDone => \A i \in Chunk : at[i] = "done"

(* GetRecordsParallel reads behind Unmap only after a cancellation, and    *)
(* reads data[-1] only in a file with fewer bytes than goroutines.         *)
THEOREM FaultsHold == Spec => []FaultsExplained
<1>1. Init => FaultInv
  BY DEF Init, FaultInv, FaultsExplained
<1>2. TypeOK /\ FaultInv /\ [Next]_vars => FaultInv'
  <2> SUFFICES ASSUME TypeOK, FaultInv, [Next]_vars PROVE FaultInv'
    OBVIOUS
  <2>1. CASE CancelCtx \/ Unmap \/ UNCHANGED vars
    BY <2>1 DEF CancelCtx, Unmap, vars, input, goVars, FaultInv, FaultsExplained, Chunk
  <2>2. ASSUME NEW i \in Chunk, Run(i) PROVE FaultInv'
    <3>1. CASE IndexPanic(i)
      <4>1. size < chunks
        BY <3>1, InputIsOK, EmptyChunk DEF IndexPanic
      <4> QED
        BY <3>1, <4>1 DEF IndexPanic, input, goVars, FaultInv, FaultsExplained, Chunk
    <3>2. CASE SetBounds(i) \/ TakeLine(i)
      BY <3>2 DEF SetBounds, TakeLine, input, FaultInv, FaultsExplained, Chunk
    <3>3. CASE FinishChunk(i) \/ AbandonChunk(i)
      BY <3>3 DEF FinishChunk, AbandonChunk, input, FaultInv, FaultsExplained, Chunk,
         TypeOK
    <3>4. CASE ReadUnmapped(i)
      BY <3>4 DEF ReadUnmapped, input, goVars, FaultInv, FaultsExplained, Chunk
    <3> QED
      BY <2>2, <3>1, <3>2, <3>3, <3>4 DEF Run
  <2> QED
    BY <2>1, <2>2 DEF Next, Over
<1> QED
  BY <1>1, <1>2, TypeCorrect, PTL DEF Spec, FaultInv
=============================================================================
