----------------------------- MODULE MCHistory -----------------------------
(* A small instance of History for TLC.                                    *)
EXTENDS History

Node(role, digest) == [role |-> role, digest |-> digest]

\* A conversation that repeats itself: two user messages and always the same reply.
Repeating == {Node("user", "x"), Node("user", "y"), Node("assistant", "x")}
=============================================================================
