------------------------------ MODULE MCAccess ------------------------------
(* Two commands at a time over one store.                                  *)
EXTENDS Access, TLC

MCSymmetry == Permutations(Procs)

=============================================================================
