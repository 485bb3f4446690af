---------------------------- MODULE MCStreamRead ----------------------------
(***************************************************************************)
(* Instances of StreamRead for TLC: rows of two cells, one of them empty   *)
(* or filtered out, a row with a cell too few and one that cannot be read. *)
(***************************************************************************)
EXTENDS StreamRead

Row(cells, bad, passes) == [cells |-> cells, bad |-> bad, passes |-> passes]
full == Row(<<"x", "x">>, FALSE, TRUE)
gap == Row(<<"", "x">>, FALSE, TRUE)
other == Row(<<"x", "x">>, FALSE, FALSE)
ragged == Row(<<"x">>, FALSE, TRUE)
broke == Row(<<"x", "x">>, TRUE, TRUE)

empty == Row(<<>>, FALSE, TRUE)

MCInputs == {<<>>, <<empty, full, empty, gap>>, <<full, gap>>, <<gap, other, full>>, <<full, ragged, full>>,
             <<other, full, broke>>, <<broke, full>>}

Opt(fmt, hdr, targets, pre, incr, stat, cancel) ==
  [Format |-> fmt, HasHeader |-> hdr, Targets |-> targets, PreProcess |-> pre,
   Incremental |-> incr, Stat |-> stat, Cancellable |-> cancel]
MCOptions == {Opt("text", FALSE, <<>>, TRUE, TRUE, TRUE, FALSE),
              Opt("text", FALSE, <<>>, FALSE, TRUE, TRUE, TRUE),
              Opt("jsonl", FALSE, <<1, 2>>, TRUE, TRUE, TRUE, FALSE),
              Opt("jsonl", FALSE, <<>>, FALSE, FALSE, FALSE, FALSE),
              Opt("csv", TRUE, <<>>, FALSE, TRUE, TRUE, FALSE),
              Opt("csv", FALSE, <<2>>, TRUE, TRUE, TRUE, TRUE),
              Opt("csv", FALSE, <<2, 3>>, FALSE, TRUE, FALSE, FALSE)}
=============================================================================
