--------------------------- MODULE MCPauseControl ---------------------------
(* Two workers; four levels, so that a level lies between a threshold and  *)
(* its margin, and a threshold below the margin.                           *)
EXTENDS PauseControl
CONSTANTS w1, w2
MCWorker == {w1, w2}
=============================================================================
