---------------------------- MODULE MCAcpRouter ----------------------------
(* Two leases of one process and two sessions; the leases differ in nothing  *)
(* but the session they get, so both sets are symmetric.                     *)
EXTENDS AcpRouter, TLC

CONSTANTS l1, l2, s1, s2

MCLeases == {l1, l2}
MCSymmetry == Permutations(MCLeases) \cup Permutations({s1, s2})
=============================================================================
