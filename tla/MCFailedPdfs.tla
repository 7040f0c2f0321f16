----------------------------- MODULE MCFailedPdfs -----------------------------
(***************************************************************************)
(* Values of the constants of FailedPdfs for TLC: row 1 is signed, row 2    *)
(* has a polluted DOI and can be made smaller, row 3 is still free.         *)
(***************************************************************************)
EXTENDS FailedPdfs, TLC

CONSTANTS r1, d1, d2, d2x

MCSeedSha == 1 :> "bad" @@ 2 :> "big" @@ 3 :> None
MCSeedDoi == 1 :> d1 @@ 2 :> d2x @@ 3 :> None
MCDoiOf   == "bad" :> d1 @@ "big" :> d2 @@ "small" :> d2 @@ "copy" :> d1
MCSmaller == "bad" :> "bad" @@ "big" :> "small" @@ "small" :> "small" @@ "copy" :> "copy"

MCForm     == "bad" :> "signed" @@ "big" :> "sound" @@ "small" :> "sound" @@ "copy" :> "sound"
MCStripped == d1 :> None @@ d2 :> None @@ d2x :> d2
MCCites    == "bad" :> {} @@ "big" :> {d1, d2} @@ "small" :> {d2} @@ "copy" :> {d2}
MCTitled   == "bad" :> None @@ "big" :> None @@ "small" :> d2 @@ "copy" :> d2
MCInfoDois == "bad" :> {} @@ "big" :> {} @@ "small" :> {d2} @@ "copy" :> {d1, d2}
MCOwnDoi   == "bad" :> None @@ "big" :> None @@ "small" :> d2 @@ "copy" :> d1

(* What StoredUnlessPruned is proved under holds of this library.           *)
ASSUME LibraryAgrees == NormalDois /\ SeedsAgree /\ RepairedOnce
=============================================================================
