------------------------------ MODULE PreFilter ------------------------------
(***************************************************************************)
(* The Bloom pre-filter (--bloom, on by default): NewPreFilter and         *)
(* MayMatch of pkg/scanner/matcher.go.  RecordMatch uses them.             *)
(*                                                                         *)
(* Texts are short sequences over Char; the Bloom filter is the set of the *)
(* words added to it, and may also answer yes for what is not in it.       *)
(***************************************************************************)
EXTENDS Naturals, Sequences, FiniteSets

CONSTANTS
  Char,   \* the alphabet
  Word,   \* the characters of [a-zA-Z0-9]
  Lower   \* [Char -> Char], of ASCII letters: bytesToLower

ASSUME TextAssumption ==
  /\ Word \subseteq Char /\ Lower \in [Char -> Char]
  /\ \A c \in Char : Lower[c] \in Word <=> c \in Word

(* A *PreFilter: nil, or a Bloom filter to which the words were added. *)
NilFilter == [nil |-> TRUE, words |-> {}]
FilterOf(words) == [nil |-> FALSE, words |-> words]

Folded(t) == [i \in DOMAIN t |-> Lower[t[i]]]

(* [i, j] is a match of [a-zA-Z0-9]{3,}: leftmost and greedy, hence a      *)
(* maximal run of word characters.                                         *)
Run(t, i, j) ==
  /\ j >= i + 2
  /\ \A k \in i .. j : t[k] \in Word
  /\ i = 1 \/ t[i - 1] \notin Word
  /\ j = Len(t) \/ t[j + 1] \notin Word

Span(t) == (DOMAIN t) \X (DOMAIN t)
Tokens(t) == {SubSeq(t, ij[1], ij[2]) :
                ij \in {x \in Span(t) : Run(t, x[1], x[2])}}

(* The lower-case keywords of a set of pattern texts. *)
Keywords(texts) == UNION {{Folded(k) : k \in Tokens(p)} : p \in texts}

MutNewPreFilter(texts) == FilterOf(Keywords(texts))
MutUnfolded(texts) == FilterOf(UNION {Tokens(p) : p \in texts})

(* NewPreFilter: nil when no pattern has a keyword. *)
NewPreFilter(texts) ==
  IF Keywords(texts) = {} THEN NilFilter ELSE FilterOf(Keywords(texts))

MutHolds(filter, token) == token \in filter.words

(* filter.Test of the lower-case token. *)
Holds(filter, token) == Folded(token) \in filter.words

(* What MayMatch may answer: a token that is held is found, any other may  *)
(* be a false positive, and without a filter every record goes on.         *)
MayPass(filter, t) == filter.nil \/ Tokens(t) # {}
MayDrop(filter, t) == ~filter.nil /\ \A token \in Tokens(t) : ~Holds(filter, token)
=============================================================================
