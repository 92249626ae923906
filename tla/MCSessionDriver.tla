-------------------------- MODULE MCSessionDriver --------------------------
(* Small instances of SessionDriver for TLC.                               *)
EXTENDS SessionDriver, TLC

CONSTANTS c1, c2, m1

OneCaller == {c1}
TwoCallers == {c1, c2}

\* Requests are alike.
Symmetry == Permutations(Callers)
=============================================================================
