---------------------------- MODULE MCWorldSessions ----------------------------
(* Instances of WorldSessions for TLC.                                         *)
EXTENDS WorldSessions, TLC

CONSTANTS a1, a2, a3, s1, s2, s3

MCSymmetry == Permutations({s1, s2, s3}) \cup Permutations({a1, a2, a3})
=============================================================================
