------------------------ MODULE MCForegroundBuilder -------------------------
(* Instances of ForegroundBuilder for TLC.                                 *)
EXTENDS ForegroundBuilder, TLC

CONSTANTS k1, k2, w1, w2, r1

Keys    == {k1, k2}
OneKey  == {k1}
Writers == {w1, w2}

OneBuilder  == [k \in Key |-> 1]
TwoBuilders == (k1 :> 1) @@ (k2 :> 2)

Symmetry == Permutations(Writers)

=============================================================================
