--------------------------- MODULE MCRelaySocket ----------------------------
(* Two children and two requests, with room for fewer connections than they want. *)
EXTENDS RelaySocket, TLC

CONSTANTS c1, c2, x1, x2

MCChildren == {c1, c2}
MCRequests == {x1, x2}
Symmetry == Permutations(MCChildren) \cup Permutations(MCRequests)
=============================================================================
