----------------------------- MODULE MCKeyTree -----------------------------
(* A company secret: the root 1 is split 2-of-2 between department 2 and   *)
(* the leaf 3; department 2 is a split over the leaves 4, 5, 6 that leaf 7 *)
(* may join.  Leaf n starts with hardware key n.                           *)
EXTENDS KeyTree

MCSplits == {1, 2}
MCLeaves == {3, 4, 5, 6, 7}
MCParent == [n \in Nodes |-> IF n \in {1, 2, 3} THEN 1 ELSE 2]
MCThreshold == [s \in Splits |-> 2]
MCInitial == {3, 4, 5, 6}
MCHwKeys == 3..8
MCFirstHw == [l \in Leaves |-> l]

=============================================================================
