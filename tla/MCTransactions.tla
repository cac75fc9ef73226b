---------------------------- MODULE MCTransactions ----------------------------
(* Three transactions: of two statements, of one, and empty.                   *)
EXTENDS Transactions, TLC

CONSTANTS c1, c2, t1, t2, t0

MCLength == t1 :> 2 @@ t2 :> 1 @@ t0 :> 0
=============================================================================
