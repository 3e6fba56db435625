-------------------------- MODULE MCPrivateBridge --------------------------
(* Instances of PrivateBridge: a department manager s, the employees a and *)
(* b of that department, and c, whose label has one segment and therefore  *)
(* no parent.                                                              *)
EXTENDS PrivateBridge, TLC

CONSTANTS s, a, b, c

MCParentOf == [l \in Labels |-> IF l \in {a, b} THEN s ELSE NoLabel]

KeySymmetry == Permutations(Keys)

=============================================================================
