-------------------------- MODULE MCScanPersistence --------------------------
(***************************************************************************)
(* Instances of ScanPersistence for TLC: files that change and go, one of  *)
(* two records and one that is mapped and appears late, so that the list   *)
(* shifts; and a list of targets with standard input in it and a file that *)
(* cannot be opened.                                                       *)
(***************************************************************************)
EXTENDS ScanPersistence

CONSTANTS key, log, tmp, pipe

MCIncremental == [Incremental: {TRUE}, Resume: {FALSE}]
MCModes == MCIncremental \cup [Incremental: {FALSE}, Resume: {TRUE}]
MCTree == <<tmp, log>>
MCListTree == <<key, log, pipe>>
MCNumRecords == [f \in File |-> IF f = log THEN 2 ELSE 1]
=============================================================================
