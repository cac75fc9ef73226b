-------------------------- MODULE AtomicTransactions --------------------------
(* What the transactions of a database pool promise: the statements of a       *)
(* transaction take effect together, once, and the answer says whether they    *)
(* did; once the pool is disturbed, nothing.                                   *)

CONSTANT Transactions

VARIABLES effect, answer, disturbed

Init ==
    /\ effect = [t \in Transactions |-> "nothing"]
    /\ answer = [t \in Transactions |-> "none"]
    /\ disturbed = FALSE

Apply(t) ==
    /\ ~disturbed
    /\ effect[t] = "nothing" /\ answer[t] = "none"
    /\ effect' = [effect EXCEPT ![t] = "all"]
    /\ UNCHANGED <<answer, disturbed>>

Answer(t) ==
    /\ ~disturbed
    /\ answer[t] = "none"
    /\ answer' = [answer EXCEPT ![t] = IF effect[t] = "all" THEN "true" ELSE "false"]
    /\ UNCHANGED <<effect, disturbed>>

Disturbed == disturbed' = TRUE

Next == Disturbed \/ \E t \in Transactions : Apply(t) \/ Answer(t)

Spec == Init /\ [][Next]_<<effect, answer, disturbed>>
=============================================================================
