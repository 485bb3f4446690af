----------------------------- MODULE RecordMatch -----------------------------
(***************************************************************************)
(* What the workers of RunScan (pkg/scanner/service.go) do with a record   *)
(* before handleMatch: pre-filter, decoding, post-processing, the literal  *)
(* matcher that all of them share, and the compiled patterns.              *)
(*                                                                         *)
(* A pattern's text is a sequence over Char in which Dot stands for the    *)
(* regexp "."; text without it is a literal.  The Aho-Corasick library     *)
(* keeps one counter in the matcher and one in each node: a node whose     *)
(* counter is the matcher's has been reported before in this call.         *)
(***************************************************************************)
EXTENDS PreFilter, SequencesExt

CONSTANTS
  Worker,      \* the goroutines of the worker pool
  Content,     \* texts of the records
  Selections,  \* opts.Patterns: sequences of patterns
  Options,     \* the combinations of options considered
  Dot,         \* the special character of patterns
  Esc, Escape, \* the backslash, and what follows it: [SUBSET Char -> Char]
  Post,        \* the post-processing command: [texts -> texts]
  MaxRecords   \* bound: records of the scan

ASSUME MatchAssumption ==
  /\ IsFiniteSet(Worker) /\ MaxRecords \in Nat
  /\ Dot \notin Word
  /\ Content \subseteq Seq(Char)
  /\ Options \subseteq [UsePcre: BOOLEAN, UseBloom: BOOLEAN, Decode: BOOLEAN,
                        PostProcess: BOOLEAN]
  /\ Selections \subseteq Seq([name: STRING, text: Seq(Char) \ {<<>>}, nocase: BOOLEAN,
                              pcreOnly: BOOLEAN])

VARIABLES
  opts,
  activePatterns,
  counter,   \* m.counter of the Aho-Corasick matcher
  node,      \* the counter of each literal's node
  pc, content,
  local,     \* m.counter as a worker read it
  left,      \* occurrences <<literal, end>> the automaton has still to pass
  matches,   \* literals the library has reported in this call
  found,     \* <<name, text>> handed to handleMatch for this record
  raced,     \* two workers have been in Match at the same time
  records

setup == <<opts, activePatterns>>
matcherVars == <<counter, node>>
callVars == <<local, left, matches>>
vars == <<setup, matcherVars, pc, content, callVars, found, raced, records>>

IsLiteral(text) == \A i \in DOMAIN text : text[i] # Dot

AsLiteral(p) == ~opts.UsePcre /\ ~p.nocase /\ IsLiteral(p.text)
Literals == {i \in DOMAIN activePatterns : AsLiteral(activePatterns[i])}

(* The map literals: of two patterns with one text the later name stays. *)
Texts == {activePatterns[i].text : i \in Literals}
NameOf(text) == LET I == {i \in Literals : activePatterns[i].text = text}
                IN  activePatterns[CHOOSE i \in I : \A j \in I : j <= i].name

(* A pattern that does not compile is left out without a word. *)
CompiledPatterns ==
  SelectSeq(activePatterns, LAMBDA p : ~AsLiteral(p) /\ (opts.UsePcre \/ ~p.pcreOnly))

Filter == IF opts.UseBloom
          THEN NewPreFilter({activePatterns[i].text : i \in DOMAIN activePatterns})
          ELSE NilFilter

InMatch == {"count", "walk", "stamp"}
Reported(w) == {found[w][i] : i \in DOMAIN found[w]}

TypeOK ==
  /\ opts \in Options /\ activePatterns \in Selections
  /\ counter \in 0 .. MaxRecords
  /\ node \in [Texts -> 0 .. MaxRecords]
  /\ pc \in [Worker -> InMatch \cup {"recv", "filter", "dropped", "prepare", "match",
                                      "regex", "done"}]
  /\ \A w \in Worker : pc[w] \in InMatch => Texts # {}
  /\ \A w \in Worker : left[w] \subseteq Texts \X (1 .. Len(content[w]))
  /\ local \in [Worker -> 0 .. MaxRecords]
  /\ raced \in BOOLEAN
  /\ records \in 0 .. MaxRecords

Init ==
  /\ opts \in Options /\ activePatterns \in Selections
  /\ counter = 0 /\ node = [t \in Texts |-> 0]
  /\ pc = [w \in Worker |-> "recv"] /\ content = [w \in Worker |-> <<>>]
  /\ local = [w \in Worker |-> 0] /\ left = [w \in Worker |-> {}]
  /\ matches = [w \in Worker |-> <<>>] /\ found = [w \in Worker |-> <<>>]
  /\ raced = FALSE /\ records = 0

Goto(w, label) == pc' = [pc EXCEPT ![w] = label]

-----------------------------------------------------------------------------
Same(a, b) == a = b \/ a = Dot
Occurs(p, t, i) ==
  /\ i + Len(p.text) <= Len(t) + 1
  /\ \A k \in DOMAIN p.text :
       \/ Same(p.text[k], t[i + k - 1])
       \/ p.nocase /\ Same(Lower[p.text[k]], Lower[t[i + k - 1]])

(* FindAllSubmatch: leftmost matches that do not overlap, from position i. *)
FindAll(p, t) ==
  LET from[i \in 1 .. Len(t) + 1] ==
        IF i + Len(p.text) > Len(t) + 1 THEN <<>>
        ELSE IF Occurs(p, t, i)
        THEN <<<<p.name, SubSeq(t, i, i + Len(p.text) - 1)>>>> \o from[i + Len(p.text)]
        ELSE from[i + 1]
  IN  from[1]

(* With --pcre only the first match: FindStringMatch. *)
Find(p, t) == IF opts.UsePcre /\ FindAll(p, t) # <<>>
              THEN <<FindAll(p, t)[1]>> ELSE FindAll(p, t)

(* unescapeContent: a backslash with no known letter behind it stays. *)
Unescaped(t) ==
  LET from[i \in 1 .. Len(t) + 2] ==
        IF i > Len(t) THEN <<>>
        ELSE IF t[i] = Esc /\ i < Len(t) /\ t[i + 1] \in DOMAIN Escape
        THEN <<Escape[t[i + 1]]>> \o from[i + 2]
        ELSE <<t[i]>> \o from[i + 1]
  IN  from[1]

Decoded(t) == IF opts.Decode THEN Unescaped(t) ELSE t
-----------------------------------------------------------------------------
(* The worker loop. *)

ReceiveRecord(w) ==
  /\ pc[w] \in {"recv", "dropped", "done"} /\ records < MaxRecords
  /\ records' = records + 1
  /\ \E t \in Content : content' = [content EXCEPT ![w] = t]
  /\ found' = [found EXCEPT ![w] = <<>>]
  /\ Goto(w, "filter")
  /\ UNCHANGED <<setup, matcherVars, callVars, raced>>

CheckFilter(w) ==
  /\ pc[w] = "filter"
  /\ \/ MayPass(Filter, content[w]) /\ Goto(w, "prepare")
     \/ MayDrop(Filter, content[w]) /\ Goto(w, "dropped")
  /\ UNCHANGED <<setup, matcherVars, content, callVars, found, raced, records>>

MutPrepare(w) ==
  /\ pc[w] = "prepare"
  /\ content' = [content EXCEPT ![w] = Decoded(@)]
  /\ Goto(w, "match")
  /\ UNCHANGED <<setup, matcherVars, callVars, found, raced, records>>

(* Decoding, then the post-processing command, which may fail. *)
Prepare(w) ==
  /\ pc[w] = "prepare"
  /\ \/ content' = [content EXCEPT ![w] = Decoded(@)]
     \/ opts.PostProcess /\ content' = [content EXCEPT ![w] = Post[Decoded(@)]]
  /\ Goto(w, IF Texts = {} THEN "regex" ELSE "match")
  /\ UNCHANGED <<setup, matcherVars, callVars, found, raced, records>>

Ends(t) == {x \in Texts \X (1 .. Len(t)) :
              /\ x[2] >= Len(x[1])
              /\ SubSeq(t, x[2] - Len(x[1]) + 1, x[2]) = x[1]}

(* Match of the library: m.counter++, a read and a write. *)
EnterMatch(w) ==
  /\ pc[w] = "match"
  /\ local' = [local EXCEPT ![w] = counter]
  /\ left' = [left EXCEPT ![w] = Ends(content[w])]
  /\ matches' = [matches EXCEPT ![w] = <<>>]
  /\ raced' = (raced \/ \E v \in Worker : pc[v] \in InMatch)
  /\ Goto(w, "count")
  /\ UNCHANGED <<setup, matcherVars, content, found, records>>

MutCount(w) ==
  /\ pc[w] = "count"
  /\ Goto(w, "walk")
  /\ UNCHANGED <<setup, matcherVars, content, callVars, found, raced, records>>

Count(w) ==
  /\ pc[w] = "count"
  /\ counter' = local[w] + 1
  /\ Goto(w, "walk")
  /\ UNCHANGED <<setup, node, content, callVars, found, raced, records>>

(* The automaton passes the end of an occurrence and compares counters. *)
Walk(w) ==
  /\ pc[w] = "walk"
  /\ \E x \in left[w] :
       /\ \A y \in left[w] : x[2] <= y[2]
       /\ left' = [left EXCEPT ![w] = @ \ {x}]
       /\ IF node[x[1]] = counter
          THEN UNCHANGED <<pc, matches>>
          ELSE Goto(w, "stamp") /\ matches' = [matches EXCEPT ![w] = Append(@, x[1])]
  /\ UNCHANGED <<setup, matcherVars, content, local, found, raced, records>>

Stamp(w) ==
  /\ pc[w] = "stamp"
  /\ node' = [node EXCEPT ![Last(matches[w])] = counter]
  /\ Goto(w, "walk")
  /\ UNCHANGED <<setup, counter, content, callVars, found, raced, records>>

MutReportLiterals(w) ==
  /\ pc[w] = "walk" /\ left[w] = {}
  /\ found' = [found EXCEPT ![w] = [i \in DOMAIN matches[w] |->
                                      <<NameOf(matches[w][i]), matches[w][i]>>]]
  /\ Goto(w, "regex")
  /\ UNCHANGED <<setup, matcherVars, content, callVars, raced, records>>

(* LiteralMatcher.Match: each literal once, whatever the library said. *)
Once(s) ==
  LET upto[n \in 0 .. Len(s)] ==
        IF n = 0 THEN <<>>
        ELSE IF Contains(upto[n - 1], s[n]) THEN upto[n - 1] ELSE Append(upto[n - 1], s[n])
  IN  upto[Len(s)]

ReportLiterals(w) ==
  /\ pc[w] = "walk" /\ left[w] = {}
  /\ found' = [found EXCEPT ![w] = [i \in DOMAIN Once(matches[w]) |->
                                      <<NameOf(Once(matches[w])[i]), Once(matches[w])[i]>>]]
  /\ Goto(w, "regex")
  /\ UNCHANGED <<setup, matcherVars, content, callVars, raced, records>>

ReportRegexps(w) ==
  /\ pc[w] = "regex"
  /\ found' = [found EXCEPT ![w] = @ \o FlattenSeq(
                 [i \in DOMAIN CompiledPatterns |-> Find(CompiledPatterns[i], content[w])])]
  /\ Goto(w, "done")
  /\ UNCHANGED <<setup, matcherVars, content, callVars, raced, records>>

Idle(w) == pc[w] \in {"recv", "dropped", "done"}
Over == records = MaxRecords /\ (\A w \in Worker : Idle(w)) /\ UNCHANGED vars

Next == \/ \E w \in Worker :
             \/ ReceiveRecord(w) \/ CheckFilter(w) \/ Prepare(w)
             \/ EnterMatch(w) \/ Count(w) \/ Walk(w) \/ Stamp(w)
             \/ ReportLiterals(w) \/ ReportRegexps(w)
        \/ Over

Spec == Init /\ [][Next]_vars

-----------------------------------------------------------------------------
(* Every literal of the content, once, under the name the map kept. *)
LiteralHits(w) == {<<NameOf(x[1]), x[1]>> : x \in Ends(content[w])}

(* Whatever two workers do to the counters they share, a literal pattern   *)
(* is reported at most once for a record and never where it does not occur *)
(* (the "seen" map of LiteralMatcher.Match).                               *)
LiteralsOnce ==
  \A w \in Worker : pc[w] = "regex" =>
    /\ Reported(w) \subseteq LiteralHits(w)
    /\ \A i, j \in DOMAIN found[w] : i # j => found[w][i] # found[w][j]

(* A literal pattern that occurs in a record goes unreported only if two   *)
(* workers have been inside the shared matcher at once, in this call or in *)
(* an earlier one (a lost update of m.counter leaves nodes ahead of it),   *)
(* or if a later pattern of the selection has the same text: the map that  *)
(* RunScan keys by text has the name of that one.                          *)
Shadowed(i) == \E j \in Literals : i < j /\ activePatterns[j].text = activePatterns[i].text
MissNeedsRace ==
  ~raced => \A w \in Worker : pc[w] = "regex" =>
    \A i \in Literals : \A x \in Ends(content[w]) :
      x[1] = activePatterns[i].text =>
        Shadowed(i) \/ <<activePatterns[i].name, x[1]>> \in Reported(w)

(* A record is dropped only if some pattern has a keyword and none of the  *)
(* literals of three or more word characters, in either case, stands in it *)
(* between non-word characters: the extractions of keywords from patterns  *)
(* and from records agree, and without keywords the filter is off.         *)
KeepsWords ==
  \A w \in Worker : pc[w] = "dropped" =>
    /\ \E i \in DOMAIN activePatterns : Tokens(activePatterns[i].text) # {}
    /\ ~ \E i \in DOMAIN activePatterns, from \in DOMAIN content[w] :
           LET p == activePatterns[i]
               to == from + Len(p.text)
           IN  /\ Len(p.text) >= 3 /\ \A k \in DOMAIN p.text : p.text[k] \in Word
               /\ Occurs(p, content[w], from)
               /\ from = 1 \/ content[w][from - 1] \notin Word
               /\ to = Len(content[w]) + 1 \/ content[w][to] \notin Word
=============================================================================
