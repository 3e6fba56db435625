----------------------------- MODULE MCOrgSync -----------------------------
(* The tree of the README: the root M over the departments A (leaves a1,   *)
(* a2, all needed) and S (2 of s1, s2, s3, which s4 may join).             *)
EXTENDS OrgSync

MCNodes == {"M", "A", "a1", "a2", "S", "s1", "s2", "s3", "s4"}
MCLeaves == {"a1", "a2", "s1", "s2", "s3", "s4"}
MCParent == [n \in MCNodes |-> CASE n \in {"a1", "a2"} -> "A"
                                 [] n \in {"s1", "s2", "s3", "s4"} -> "S"
                                 [] OTHER -> "M"]
MCThreshold == [n \in MCNodes \ MCLeaves |-> 2]
MCFps == MCLeaves
MCFirstFp == [l \in MCLeaves |-> l]
MCInitial == MCNodes \ {"s4"}
MCPairs == {<<"s1", "a1">>}

(* op holds the split tree and has the key of s2; p has the key of s1.     *)
MCPullFp == [s \in Pullers |-> IF s = "p" THEN "s1" ELSE "s2"]

(* Two answers may be under way to p, and overtake each other.             *)
MCMaxPulls == [s \in Pullers |-> IF s = "p" THEN 2 ELSE 1]
MCOnePull == [s \in Pullers |-> 1]

=============================================================================
