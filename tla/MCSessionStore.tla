--------------------------- MODULE MCSessionStore ---------------------------
(* Two processes and two conversations that share a slot. *)
EXTENDS SessionStore, TLC

CONSTANTS p1, p2, k1, k2, s1

MCProcs == {p1, p2}
MCKeys == {k1, k2}
MCSlots == {s1}
MCSlotOf == [k \in MCKeys |-> s1]
Symmetry == Permutations(MCProcs) \cup Permutations(MCKeys)
=============================================================================
