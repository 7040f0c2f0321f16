------------------------------ MODULE MCDashboard ------------------------------
(* Values of the constants of Dashboard for TLC.                             *)
EXTENDS Dashboard, TLC

CONSTANTS u1, r1, r2
=============================================================================
