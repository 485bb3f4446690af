--------------------------- MODULE MCScanPipeline ---------------------------
(***************************************************************************)
(* Instances of ScanPipeline for TLC: two workers, three records whose     *)
(* matches share keys, channels of capacity one so that both senders       *)
(* block.                                                                  *)
(***************************************************************************)
EXTENDS ScanPipeline

CONSTANTS w1, w2, Token, Email, Secret, Noise

MCWorker == {w1, w2}

MCKeys == {Token, Email, Secret, Noise}

(* Record 1 holds a token twice, record 2 the token again and an e-mail    *)
(* address, record 3 a match no filter lets through and a secret.          *)
MCNumMatches == <<2, 2, 2>>
MCKeyOf == [h \in Hits |-> CASE h = <<3, 1>> -> Noise
                             [] h = <<3, 2>> -> Secret
                             [] h = <<2, 2>> -> Email
                             [] OTHER -> Token]
MCInteresting == {Token, Email, Secret}

(* The literal matcher takes the entropy of the whole record: the token of *)
(* record 1 is below the threshold, the same token in record 2 above.      *)
MCEntropic == {<<2, 1>>, <<2, 2>>, <<3, 2>>}
=============================================================================
