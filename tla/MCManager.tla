----------------------------- MODULE MCManager -----------------------------
(* A small instance of Manager for TLC: three requests, two of them of the *)
(* same conversation.                                                      *)
EXTENDS Manager, TLC

CONSTANTS s1, s2, s3, k1, k2

TwoOfThree == s1 :> k1 @@ s2 :> k2 @@ s3 :> k1
=============================================================================
