------------------------------ MODULE MCUpload ------------------------------
(***************************************************************************)
(* Values of the constants of Upload for TLC.                              *)
(*                                                                         *)
(* Bytes: "plain" has no DOI in its Document Info, "own1" and "own2" carry *)
(* d1 and d2; stamping "plain" with d1 or d2 gives exactly "own1" and      *)
(* "own2", and stamping "own2" for d1 gives "restamped".  The hashes       *)
(* "plain" and "restamped" share a lock slot.                              *)
(***************************************************************************)
EXTENDS Upload, TLC

CONSTANTS r1, r2, r3, p1, p2, d1, d2

MCHash == {"plain", "own1", "own2", "restamped"}

MCEmbedded ==
    ("plain" :> None) @@ ("own1" :> d1) @@ ("own2" :> d2) @@ ("restamped" :> d1)

(* Files the stamp leaves alone: already stamped, or unreadable by pypdf.  *)
StampNothing == [h \in MCHash |-> [d \in Doi |-> h]]

StampDoi ==
    [h \in MCHash |-> [d \in Doi |->
        IF MCEmbedded[h] = d THEN h
        ELSE IF h = "plain" THEN (IF d = d1 THEN "own1" ELSE "own2")
        ELSE IF h = "own2" THEN "restamped" ELSE h]]

MCObjectSlot == [h \in MCHash |-> IF h \in {"plain", "restamped"} THEN 1 ELSE 2]
MCDoiSlot    == [d \in Doi |-> IF d = d1 THEN 1 ELSE 2]

Upl(h, d, t, f) == [raw |-> h, doi |-> d, trusted |-> t, force |-> f]

(* Every way of asking for a DOI.                                          *)
Asked == {<<None, FALSE>>} \cup (Doi \X BOOLEAN)

InputsOf(hashes, forces) ==
    {Upl(h, a[1], a[2], f) : h \in hashes, a \in Asked, f \in forces}

ForcedInputs == InputsOf({"plain", "own1"}, BOOLEAN)

SeedD   == [p \in PdfId |-> IF p = p1 THEN d1 ELSE None]
SeedS   == [p \in PdfId |-> IF p = p1 THEN "own1" ELSE None]

Symmetry == Permutations(Request)
=============================================================================
