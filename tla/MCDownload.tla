------------------------------ MODULE MCDownload ------------------------------
(***************************************************************************)
(* Values of the constants of Download for TLC: two articles whose PDFs    *)
(* have the same file name, one of them replaced by a longer version.      *)
(***************************************************************************)
EXTENDS Download, TLC

CONSTANTS a, b, a1, a2, b1, x1

MCVersions == a :> {a1, a2} @@ b :> {b1}
MCSize     == a1 :> 2 @@ a2 :> 3 @@ b1 :> 2 @@ x1 :> 2
MCName     == a :> "paper" @@ b :> "paper"
MCCounters == 1..5
MCRequests == {<<a, b>>, <<b>>}
MCAgain    == <<a, b>>

Empty == [s \in Slot |-> None]

(* An empty directory, a PDF that is not the server's, a .part of it.      *)
MCLeftovers ==
    {<<Empty, Empty>>,
     <<[Empty EXCEPT ![<<"paper", 1>>] = Content(x1)], Empty>>,
     <<Empty, [Empty EXCEPT ![<<"paper", 1>>] = Content(x1)]>>}
=============================================================================
