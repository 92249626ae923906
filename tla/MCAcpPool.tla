----------------------------- MODULE MCAcpPool -----------------------------
(* Small instances of AcpPool for TLC.                                     *)
EXTENDS AcpPool, TLC

CONSTANTS u1, u2, u3, g1, g2, g3

ThreeUsers == {u1, u2, u3}
ThreeGroups == {g1, g2, g3}

Plain(s) == [scope |-> s, prepared |-> FALSE]

\* u1 and u2 may share a process; u3 asks for another scope, or for a launch of its own.
MCAsks == {u1 :> Plain("a") @@ u2 :> Plain("a") @@ u3 :> x :
             x \in {Plain("b"), [scope |-> "a", prepared |-> TRUE]}}

\* Groups are alike, and so are u1 and u2.
Symmetry == Permutations(Groups) \cup Permutations({u1, u2})
=============================================================================
