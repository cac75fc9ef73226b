------------------------------ MODULE MCMPSCQueue ------------------------------
(* An instance of MPSCQueue for TLC.                                           *)
EXTENDS MPSCQueue

CONSTANTS n1, n2, n3, p1, p2
=============================================================================
