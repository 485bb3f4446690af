---------------------------- MODULE MCResultPool ----------------------------
(***************************************************************************)
(* Instances of ResultPool for TLC: two workers, two hits, one browser,    *)
(* and more objects than hits, so that GetResult never waits and may       *)
(* reuse an object or allocate a new one.                                  *)
(***************************************************************************)
EXTENDS ResultPool

CONSTANTS w1, w2, o1, o2, o3, tab

MCWorker == {w1, w2}
MCObject == {o1, o2, o3}
=============================================================================
