--------------------------- MODULE MCToolWorkflow ---------------------------
(***************************************************************************)
(* Two goroutines that compete for one slot, two matches, and a workflow   *)
(* where rot13 uses the output of b64_decode by its ID and port by its     *)
(* label, which is also the label of rot13.                                *)
(***************************************************************************)
EXTENDS ToolWorkflow

CONSTANTS w1, w2

MCWorker == {w1, w2}
NewTool(id, field, ref) == [id |-> id, field |-> field, ref |-> ref]
MCTools == << NewTool("port", "service", "cleartext"),
              NewTool("b64_decode", "cleartext", "none"),
              NewTool("rot13", "cleartext", "b64_decode") >>
MCToolIDs == <<"b64_decode", "rot13", "missing", "port">>
=============================================================================
