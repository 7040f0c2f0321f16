-------------------------- MODULE MCCompressionSweep --------------------------
(* Small libraries for CompressionSweep; ids are the numbers from 1.         *)
EXTENDS CompressionSweep

ThreePdfs == 1 .. 3
OneThree  == {1, 3}
=============================================================================
