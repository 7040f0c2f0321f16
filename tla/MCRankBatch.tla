----------------------------- MODULE MCRankBatch -----------------------------
(***************************************************************************)
(* Values of the constants of RankBatch for TLC: two lists that share    *)
(* journals.                                                               *)
(***************************************************************************)
EXTENDS RankBatch, TLC

CONSTANTS u1, u2, v1, n1, n2, l1, l2

MCNames == l1 :> <<n1, n2>> @@ l2 :> <<n2>>

MCRequests == {[list |-> l1, refresh |-> TRUE], [list |-> l2, refresh |-> FALSE]}

MCVisits == {[name |-> n2, refresh |-> TRUE]}
=============================================================================
