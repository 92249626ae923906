----------------------------- MODULE MCLauncher -----------------------------
(* A launch with two connections to its gateway. *)
EXTENDS Launcher, TLC

CONSTANTS c1, c2

MCConns == {c1, c2}
MCReaders == MCConns \cup {"launch"}
ConnSymmetry == Permutations(MCConns)
=============================================================================
