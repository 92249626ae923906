--------------------------- MODULE MCRelayBroker ---------------------------
(* Small instances of RelayBroker for TLC.                                 *)
EXTENDS RelayBroker, TLC

CONSTANTS c1, c2, c3

ThreeCalls == {c1, c2, c3}

DistinctId == c1 :> "a" @@ c2 :> "b" @@ c3 :> "c"

\* c1 is smaller than the others, which do not fit beside each other.
Sizes == c1 :> 1 @@ c2 :> 2 @@ c3 :> 2

\* c2 and c3 are alike.
Symmetry == Permutations({c2, c3})
=============================================================================
