----------------------------- MODULE MCWorldSocket -----------------------------
(* Instances of WorldSocket for TLC: a packet that shares a buffer with its    *)
(* successor, one that fills the buffer and one that is larger than a buffer.  *)
EXTENDS WorldSocket, TLC

MCSize == 1 :> 1 @@ 2 :> 3 @@ 3 :> 1
=============================================================================
