------------------------------ MODULE HitReport ------------------------------
(***************************************************************************)
(* What a scan promises its caller, without goroutines, channels or a      *)
(* state database: the wanted matches arrive one at a time, none twice,    *)
(* and the stream ends, but only when each of them has arrived or the      *)
(* caller has cancelled the scan.                                          *)
(***************************************************************************)
EXTENDS Naturals, Sequences

CONSTANTS
  Hits,        \* every match in the targets
  KeyOf,       \* its pattern and content
  Reportable,  \* the matches that pass the filters
  OncePerKey,  \* TRUE: at most one report for each key
  ByKey        \* TRUE: a report stands for every match with its key

VARIABLES reported, cancelled, finished
vars == <<reported, cancelled, finished>>

Covers(g, h) == IF ByKey THEN KeyOf[g] = KeyOf[h] ELSE g = h
Reported == {reported[i] : i \in DOMAIN reported}

Init == reported = <<>> /\ cancelled = FALSE /\ finished = FALSE

Receive(h) ==
  /\ ~finished
  /\ h \notin Reported
  /\ OncePerKey => \A g \in Reported : KeyOf[g] # KeyOf[h]
  /\ reported' = Append(reported, h)
  /\ UNCHANGED <<cancelled, finished>>

Cancel ==
  /\ ~cancelled
  /\ cancelled' = TRUE
  /\ UNCHANGED <<reported, finished>>

Finish ==
  /\ ~finished
  /\ cancelled \/ \A h \in Reportable : \E g \in Reported : Covers(g, h)
  /\ finished' = TRUE
  /\ UNCHANGED <<reported, cancelled>>

Progress == (\E h \in Reportable : Receive(h)) \/ Finish
Next == Progress \/ Cancel

Spec == Init /\ [][Next]_vars /\ WF_vars(Progress)
=============================================================================
