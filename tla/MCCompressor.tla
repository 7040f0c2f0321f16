----------------------------- MODULE MCCompressor -----------------------------
(***************************************************************************)
(* Values of the constants of Compressor for TLC: an article d1 in the     *)
(* library, whose object "old1" the server stamps when it is uploaded      *)
(* again and of which there is another version that cannot be made         *)
(* smaller, and an article d2 that is new and stamped, too.                *)
(***************************************************************************)
EXTENDS Compressor, TLC

CONSTANTS r1, r2, p1, p2, d1, d2, w1, w2

MCHash == {"old1", "own1", "other1", "small1", "raw2", "own2"}

MCEmbedded ==
    [h \in MCHash |->
        CASE h \in {"old1", "raw2"} -> None [] h = "own2" -> d2 [] OTHER -> d1]

StampDoi ==
    [h \in MCHash |-> [d \in Doi |->
        CASE h = "old1" /\ d = d1 -> "own1" [] h = "raw2" /\ d = d2 -> "own2" [] OTHER -> h]]

MCOptimized ==
    [h \in MCHash |-> [d \in Doi |-> IF h \in {"old1", "own1"} THEN "small1" ELSE h]]

MCObjectSlot == [h \in MCHash |-> IF h \in {"old1", "raw2"} THEN 1 ELSE 2]
MCDoiSlot    == [d \in Doi |-> IF d = d1 THEN 1 ELSE 2]

Upl(h, d, f) == [raw |-> h, doi |-> d, trusted |-> TRUE, force |-> f]

(* Uploads from a trusted list.                                            *)
OwnInputs == {Upl("old1", d1, FALSE), Upl("old1", d1, TRUE), Upl("other1", d1, TRUE),
              Upl("small1", d1, FALSE), Upl("raw2", d2, FALSE)}

SeedD == [p \in PdfId |-> IF p = p1 THEN d1 ELSE None]
SeedS == [p \in PdfId |-> IF p = p1 THEN "old1" ELSE None]

(* The hypothesis of the theorems of UploadProofs on stamped libraries.    *)
ASSUME AgreedArticles == OwnArticles

Symmetry == Permutations(Request) \cup Permutations(Worker)
=============================================================================
