---------------------------- MODULE MCRelayKeys ----------------------------
(* Two commands on the relay host, and two processes that work on one      *)
(* store.                                                                  *)
EXTENDS RelayKeys, TLC

CONSTANTS h1, h2, c1, c2

MCDb == [p \in Clients |-> "s"]
Symmetry == Permutations({h1, h2}) \union Permutations({c1, c2})

=============================================================================
