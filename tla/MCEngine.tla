------------------------------ MODULE MCEngine ------------------------------
(* Instances of Engine for TLC. *)
EXTENDS Engine

CONSTANTS w1, w2, c1, c2, c3, s1, s2

\* Two contexts that share a stripe and one that does not.
MCStripe == [c \in Contexts |-> IF c = c3 THEN s2 ELSE s1]
=============================================================================
