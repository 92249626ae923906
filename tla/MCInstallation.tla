--------------------------- MODULE MCInstallation ---------------------------
(* Two installers, a runner, and more generations than inspect accepts. *)
EXTENDS Installation, TLC

CONSTANTS p1, p2, r1, g1, g2, g3, g4

MCInstallers == {p1, p2}
MCRunners == {r1}
MCGens == {g1, g2, g3, g4}
Symmetry == Permutations(MCInstallers) \cup Permutations(MCGens)
=============================================================================
