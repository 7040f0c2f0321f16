---------------------------- MODULE MCUploadServer ----------------------------
(***************************************************************************)
(* Values of the constants of UploadServer for TLC: the bytes of MCUpload, *)
(* with uploads that meet on a slot or on the row of d1.                   *)
(***************************************************************************)
EXTENDS MCUpload, UploadServer

ServerInputs ==
    {Upl(h, d1, TRUE, f) : h \in {"plain", "own2"}, f \in BOOLEAN}
    \cup {Upl(h, None, FALSE, FALSE) : h \in {"plain", "own1", "own2"}}
=============================================================================
