--------------------------- MODULE MCUploadClient ---------------------------
(***************************************************************************)
(* Values of the constants of UploadClient for TLC: two recompressed       *)
(* copies of one article and a PDF that is not the article it claims.      *)
(***************************************************************************)
EXTENDS UploadClient, TLC

CONSTANTS p1, p2, c1, c2

MCScan    == <<p1, p2>>
MCFolder  == (p1 :> "a") @@ (p2 :> "b")
MCArticle == [s \in Content |-> IF s = "wrong" THEN "d2" ELSE "d1"]
MCKind    == ("copy" :> "trusted") @@ ("scan" :> "automatic") @@ ("wrong" :> "wrong")

Same(s, n)  == [files |-> [p \in Path |-> s], faults |-> n]
MCLayouts   == {Same("scan", 2), Same("wrong", 1),
                [files |-> (p1 :> "copy") @@ (p2 :> "wrong"), faults |-> 1]}
OneFault    == {Same("scan", 1)}
=============================================================================
