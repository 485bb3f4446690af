----------------------------- MODULE ChunkSplit -----------------------------
(***************************************************************************)
(* GetRecordsParallel (pkg/scanner/parser.go and parser_fast.go): one      *)
(* goroutine for each chunk of a memory-mapped file moves its two bounds   *)
(* to line starts and sends the lines in between; the producer of RunScan  *)
(* unmaps the file when the channel is closed, or at once when ctx is      *)
(* cancelled.  The JSON parser passes over the lines that its filters      *)
(* refuse or that have none of its targets; a line stands for all of its   *)
(* records.                                                                *)
(*                                                                         *)
(* The bytes are numbered 0 .. size-1 as in the code; all that matters of  *)
(* them is which are newlines.  A line is [from, to): the bytes without    *)
(* the newline.                                                            *)
(***************************************************************************)
EXTENDS Integers, FiniteSets

CONSTANTS
  MaxSize,      \* the longest file
  MaxChunks,    \* the largest concurrency
  Cancellable   \* TRUE: the caller may cancel ctx

ASSUME SizeAssumption == MaxSize \in Nat \ {0} /\ MaxChunks \in Nat \ {0}
ASSUME OptionAssumption == Cancellable \in BOOLEAN

VARIABLES
  size,      \* len(data); mmap refuses an empty file
  newlines,  \* the offsets of '\n'
  refused,   \* where the lines begin that give no record; none in a text file
  chunks,    \* concurrency
  at,        \* each goroutine: "bounds", "lines" or "done"
  start, curr, end,
  out,       \* the records sent, with the goroutine that sent them
  ctxDone,
  mapped,    \* the file is still mapped
  fault      \* "no"; "index": data[-1]; "unmapped": a read after Unmap

goVars == <<at, start, curr, end, out>>
input == <<size, newlines, refused, chunks>>
vars == <<input, goVars, ctxDone, mapped, fault>>

Chunk == 0 .. chunks - 1
ChunkSize == size \div chunks

Line(i, a, b) == [chunk |-> i, from |-> a, to |-> b]

TypeOK ==
  /\ size \in 1 .. MaxSize /\ chunks \in 1 .. MaxChunks
  /\ newlines \subseteq 0 .. size - 1 /\ refused \subseteq 0 .. size - 1
  /\ at \in [Chunk -> {"bounds", "lines", "done"}]
  /\ start \in [Chunk -> 0 .. size]
  /\ curr \in [Chunk -> 0 .. size + 1]
  /\ end \in [Chunk -> 0 .. size]
  /\ \A x \in out : /\ x.chunk \in Chunk
                    /\ x.from \in 0 .. size /\ x.to \in 0 .. size
                    /\ x = Line(x.chunk, x.from, x.to)
  /\ ctxDone \in BOOLEAN /\ mapped \in BOOLEAN
  /\ fault \in {"no", "index", "unmapped"}

Init ==
  /\ size \in 1 .. MaxSize /\ chunks \in 1 .. MaxChunks
  /\ newlines \in SUBSET (0 .. size - 1)
  /\ refused \in SUBSET {p \in 0 .. size - 1 : p = 0 \/ p - 1 \in newlines}
  /\ at = [i \in Chunk |-> "bounds"]
  /\ start = [i \in Chunk |-> 0] /\ curr = [i \in Chunk |-> 0]
  /\ end = [i \in Chunk |-> 0]
  /\ out = {}
  /\ ctxDone = FALSE /\ mapped = TRUE /\ fault = "no"

-----------------------------------------------------------------------------
MutStops(p) == p = size \/ p \in newlines

(* Where the loops that move a bound stop: at the end of the file or       *)
(* behind a newline.                                                       *)
Stops(p) == p = size \/ p - 1 \in newlines

(* The loop started at a ends at b. *)
MovesTo(a, b) == b >= a /\ Stops(b) /\ \A q \in a .. b - 1 : ~Stops(q)

MutHigh(i) == (i + 1) * ChunkSize

Low(i) == i * ChunkSize
High(i) == IF i = chunks - 1 THEN size ELSE (i + 1) * ChunkSize

(* With fewer bytes than goroutines ChunkSize is 0 and the second loop     *)
(* reads data[-1] of every chunk but the last.                             *)
IndexPanic(i) ==
  /\ at[i] = "bounds" /\ mapped /\ High(i) = 0
  /\ fault' = "index"
  /\ UNCHANGED <<input, goVars, ctxDone, mapped>>

SetBounds(i) ==
  /\ at[i] = "bounds" /\ mapped /\ High(i) > 0
  /\ \E a, b \in 0 .. size :
       /\ IF Low(i) > 0 THEN MovesTo(Low(i), a) ELSE a = 0
       /\ MovesTo(High(i), b)
       /\ start' = [start EXCEPT ![i] = a]
       /\ curr' = [curr EXCEPT ![i] = a]
       /\ end' = [end EXCEPT ![i] = b]
  /\ at' = [at EXCEPT ![i] = "lines"]
  /\ UNCHANGED <<input, out, ctxDone, mapped, fault>>

MutTakeLine(i) ==
  /\ at[i] = "lines" /\ mapped /\ curr[i] < end[i]
  /\ \E b \in curr[i] .. end[i] :
       /\ b = end[i] \/ b \in newlines
       /\ \A q \in curr[i] .. b - 1 : q \notin newlines
       /\ out' = IF curr[i] \in refused THEN out ELSE out \cup {Line(i, curr[i], b)}
       /\ curr' = [curr EXCEPT ![i] = b + 2]
  /\ UNCHANGED <<input, at, start, end, ctxDone, mapped, fault>>

(* The next line of the chunk, without its newline: its records are sent,  *)
(* or it has none.                                                         *)
TakeLine(i) ==
  /\ at[i] = "lines" /\ mapped /\ curr[i] < end[i]
  /\ \E b \in curr[i] .. end[i] :
       /\ b = end[i] \/ b \in newlines
       /\ \A q \in curr[i] .. b - 1 : q \notin newlines
       /\ out' = IF curr[i] \in refused THEN out ELSE out \cup {Line(i, curr[i], b)}
       /\ curr' = [curr EXCEPT ![i] = b + 1]
  /\ UNCHANGED <<input, at, start, end, ctxDone, mapped, fault>>

FinishChunk(i) ==
  /\ at[i] = "lines" /\ curr[i] >= end[i]
  /\ at' = [at EXCEPT ![i] = "done"]
  /\ UNCHANGED <<input, start, curr, end, out, ctxDone, mapped, fault>>

(* The select takes ctx.Done. *)
AbandonChunk(i) ==
  /\ at[i] = "lines" /\ ctxDone
  /\ at' = [at EXCEPT ![i] = "done"]
  /\ UNCHANGED <<input, start, curr, end, out, ctxDone, mapped, fault>>

(* A goroutine that still reads the mapping after Unmap. *)
ReadUnmapped(i) ==
  /\ ~mapped
  /\ \/ at[i] = "bounds"
     \/ at[i] = "lines" /\ curr[i] < end[i]
  /\ fault' = "unmapped"
  /\ UNCHANGED <<input, goVars, ctxDone, mapped>>

CancelCtx ==
  /\ Cancellable /\ ~ctxDone
  /\ ctxDone' = TRUE
  /\ UNCHANGED <<input, goVars, mapped, fault>>

MutUnmap ==
  /\ mapped
  /\ \/ \E i \in Chunk : at[i] = "done"
     \/ ctxDone
  /\ mapped' = FALSE
  /\ UNCHANGED <<input, goVars, ctxDone, fault>>

(* The producer: the channel is closed after wg.Wait and has been drained, *)
(* or its select takes ctx.Done.                                           *)
Unmap ==
  /\ mapped
  /\ \/ \A i \in Chunk : at[i] = "done"
     \/ ctxDone
  /\ mapped' = FALSE
  /\ UNCHANGED <<input, goVars, ctxDone, fault>>

Run(i) == \/ IndexPanic(i) \/ SetBounds(i) \/ TakeLine(i) \/ FinishChunk(i)
          \/ AbandonChunk(i) \/ ReadUnmapped(i)

Over == \/ fault # "no" /\ UNCHANGED vars
        \/ ~mapped /\ (\A i \in Chunk : at[i] = "done") /\ UNCHANGED vars

Next == \/ fault = "no" /\ \/ \E i \in Chunk : Run(i)
                           \/ CancelCtx \/ Unmap
        \/ Over

Spec == Init /\ [][Next]_vars

-----------------------------------------------------------------------------
(* The lines of the file, by definition. *)
IsLine(a, b) ==
  /\ 0 <= a /\ a <= b /\ b <= size /\ a < size
  /\ a = 0 \/ a - 1 \in newlines
  /\ b = size \/ b \in newlines
  /\ \A q \in a .. b - 1 : q \notin newlines

(* Nothing but whole lines is sent, and no line by two goroutines,         *)
(* wherever the chunk bounds fall.                                         *)
WholeLinesOnce ==
  /\ \A x \in out : IsLine(x.from, x.to)
  /\ \A x, y \in out : x.from = y.from => x = y

(* Once every goroutine is done and nobody cancelled, every line that is   *)
(* not refused has been sent: the chunks leave no gap between them, and    *)
(* passing over a line does not lose the next one.                         *)
NoLineLost ==
  (\A i \in Chunk : at[i] = "done") /\ ~ctxDone =>
    \A a \in 0 .. size - 1, b \in 0 .. size :
      IsLine(a, b) /\ a \notin refused => \E x \in out : x.from = a /\ x.to = b

(* Without a cancellation no goroutine reads the mapping after Unmap, and  *)
(* data[-1] is read only when there are fewer bytes than goroutines.       *)
FaultsExplained ==
  /\ fault = "unmapped" => ctxDone
  /\ fault = "index" => size < chunks
=============================================================================
