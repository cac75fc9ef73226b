------------------------------- MODULE MCTrade -------------------------------
(* Instances of Trade for TLC.                                                 *)
EXTENDS Trade, TLC

CONSTANTS a, b, u1, u2, u3, x1

\* u1, u2 and u3 are of a kind of which everybody may have two, x1 has no
\* limit.
MCKind == u1 :> "U" @@ u2 :> "U" @@ u3 :> "U" @@ x1 :> "X"
MCLimit == "U" :> 2 @@ "X" :> 0

MCRoom == [p \in Players |-> 3]
MCSymmetry == Permutations({a, b}) \cup Permutations({u1, u2, u3})
=============================================================================
