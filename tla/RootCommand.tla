----------------------------- MODULE RootCommand -----------------------------
(***************************************************************************)
(* What the root command makes of its command line before anything runs    *)
(* (cmd/zetgrep/cmd/root.go; "zetgrep scan" only delegates to it): whether *)
(* it shows its help, and which words are the pattern and which the        *)
(* targets.  A word is what is left once ExpandPath and TrimSpace are done.*)
(***************************************************************************)
EXTENDS Naturals, Sequences, SequencesExt

CONSTANTS
  Existing,        \* the words that os.Stat finds
  Listed,          \* the words of the --list-file
  AllPatterns,     \* GetPatterns: the names in the patterns directory
  TaggedPatterns   \* FilterPatternsByTag

NoWord == ""       \* an option that is not given

(* Blank lines of the list file are skipped. *)
ASSUME ListAssumption == \A k \in DOMAIN Listed : Listed[k] # NoWord

Processes(c) == c.process # NoWord

(* len(args) == 0 and none of --all, --process, --stdin: the other options *)
(* that name patterns or targets do not count.                             *)
GivesHelp(c) == c.args = <<>> /\ ~c.all /\ ~Processes(c) /\ ~c.stdin

(* The pattern must be one of the arguments. *)
Guesses(c) == c.pattern = NoWord /\ ~c.all /\ ~c.tags /\ ~Processes(c)

(* os.Stat tells "zetgrep file pattern" from "zetgrep pattern file"; with  *)
(* --stdin or a list file nobody looks.                                    *)
PatternIsLast(c) ==
  /\ Guesses(c) /\ ~c.stdin /\ ~c.list
  /\ Len(c.args) >= 2
  /\ Head(c.args) \in Existing /\ Last(c.args) \notin Existing

MutTargetArgs(c) ==
  CASE ~Guesses(c) -> c.args
    [] Guesses(c) /\ Len(c.args) > 1 -> Tail(c.args)
    [] OTHER -> <<>>

TargetArgs(c) ==
  CASE ~Guesses(c) -> c.args
    [] PatternIsLast(c) -> Front(c.args)
    [] Guesses(c) /\ ~PatternIsLast(c) /\ Len(c.args) > 1 -> Tail(c.args)
    [] OTHER -> <<>>

Targets(c) ==
  LET given == CASE c.stdin -> <<"stdin">>
                 [] ~c.stdin /\ c.list -> Listed
                 [] OTHER -> TargetArgs(c)
  IN  IF given = <<>> THEN <<".">> ELSE given

(* runPats: the pattern moved from the last place counts as --pattern.     *)
Patterns(c) ==
  CASE PatternIsLast(c) -> <<Last(c.args)>>
    [] c.pattern # NoWord -> <<c.pattern>>
    [] c.pattern = NoWord /\ c.all -> AllPatterns
    [] c.pattern = NoWord /\ ~c.all /\ c.tags -> TaggedPatterns
    [] /\ ~PatternIsLast(c) /\ c.pattern = NoWord /\ ~c.all /\ ~c.tags
       /\ c.args # <<>> -> <<Head(c.args)>>
    [] OTHER -> <<>>
=============================================================================
