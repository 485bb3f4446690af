---------------------------- MODULE MCRecordMatch ----------------------------
(***************************************************************************)
(* Instances of RecordMatch for TLC: letters in two cases, a delimiter, a  *)
(* backslash with "n" (a newline) behind it, and records in which the      *)
(* patterns stand alone, within a longer word, twice, escaped or not.      *)
(***************************************************************************)
EXTENDS RecordMatch

CONSTANTS w1, w2

MCWorker == {w1, w2}
MCChar == {"a", "A", "n", "-", "/", "."}
MCWord == {"a", "A", "n"}
MCLower == [c \in MCChar |-> IF c = "A" THEN "a" ELSE c]
MCEscape == [c \in {"n"} |-> "-"]

Pattern(name, text, nocase, pcreOnly) ==
  [name |-> name, text |-> text, nocase |-> nocase, pcreOnly |-> pcreOnly]
aaa == Pattern("aaa", <<"a", "a", "a">>, FALSE, FALSE)
AAA == Pattern("AAA", <<"A", "A", "A">>, TRUE, FALSE)
same == Pattern("same", <<"a", "a", "a">>, FALSE, FALSE)
short == Pattern("short", <<"a", "-">>, FALSE, FALSE)
wild == Pattern("wild", <<"a", ".">>, FALSE, FALSE)
ahead == Pattern("ahead", <<"a", ".">>, FALSE, TRUE)
MCSelections == {<<aaa, short>>, <<AAA, aaa, same>>, <<short, wild>>, <<ahead, wild, AAA>>}

MCContent == {<<"a", "a", "a">>, <<"a", "-", "a", "-">>, <<"A", "A", "A", "-">>,
              <<"a", "a", "a", "a">>, <<"/", "n", "a", "a", "a">>, <<"-">>}
MCPost == [t \in UNION {[1 .. n -> MCChar] : n \in 0 .. 5} |-> <<"a", "-">>]

Opts(pcre, bloom, decode, post) ==
  [UsePcre |-> pcre, UseBloom |-> bloom, Decode |-> decode, PostProcess |-> post]
MCOptions == {Opts(FALSE, TRUE, FALSE, FALSE), Opts(FALSE, TRUE, TRUE, TRUE),
              Opts(TRUE, TRUE, TRUE, FALSE), Opts(FALSE, FALSE, TRUE, FALSE)}
=============================================================================
