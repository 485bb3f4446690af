---------------------------- MODULE MCOutputFiles ----------------------------
(***************************************************************************)
(* Instances for TLC.  The first command takes every shape of arguments    *)
(* with one output file, or every choice of outputs with one shape of      *)
(* arguments; the second processes a file the first may have written.      *)
(***************************************************************************)
EXTENDS OutputFiles

MCFindings == <<"hit1", "hit2">>
MCPath == {"out.json", "out.json.zst", "out.txt", "data", "data.zst", "denied",
           "stdout1", "stdout2"}
MCCreatable == MCPath \ {"denied"}
MCListed == <<"b.log">>
MCAll == <<"secret", "url">>
MCTagged == <<"url">>

Scan == [args |-> <<"secret", "a.log">>, pattern |-> NoWord, all |-> FALSE,
         tags |-> FALSE, stdin |-> FALSE, list |-> FALSE, process |-> NoWord,
         dryRun |-> FALSE, oJ |-> NoWord, oT |-> NoWord, o |-> NoWord,
         report |-> FALSE, json |-> FALSE, format |-> "text", template |-> FALSE,
         discard |-> FALSE, stdout |-> "stdout1"]

Words == {"secret", "a.log", "b.log"}
Shapes ==
  {[Scan EXCEPT !.args = a, !.pattern = p, !.all = f[1], !.tags = f[2], !.stdin = f[3],
                !.list = f[4], !.dryRun = f[5], !.oJ = "out.json"] :
     a \in UNION {[1 .. n -> Words] : n \in 0 .. 3}, p \in {NoWord, "url"},
     f \in {<<k = 1, k = 2, k = 3, k = 4, k = 5>> : k \in 0 .. 5}}
Routes ==
  {[Scan EXCEPT !.oJ = j, !.oT = t, !.o = o, !.json = k = "json", !.discard = d,
                !.format = IF k \in {"csv", "table", "xml"} THEN k ELSE "text",
                !.report = k = "report", !.template = k = "template"] :
     j \in {NoWord, "out.json", "out.json.zst"}, t \in {NoWord, "out.txt"},
     o \in {NoWord, "data", "denied"}, d \in BOOLEAN,
     k \in {"text", "json", "csv", "table", "xml", "report", "template"}}
Compressed ==
  {[Scan EXCEPT !.o = "data.zst", !.format = k] : k \in {"text", "csv", "json"}}

Processing ==
  {[Scan EXCEPT !.args = <<>>, !.process = p, !.oJ = j, !.stdout = "stdout2"] :
     p \in {"out.json", "out.json.zst", "data", "stdout1"}, j \in {NoWord, "out.json"}}

MCCommands == <<Shapes \cup Routes \cup Compressed, Processing>>
=============================================================================
