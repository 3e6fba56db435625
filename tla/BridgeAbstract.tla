-------------------------- MODULE BridgeAbstract --------------------------
(***************************************************************************)
(* What a private sign bridge promises, without envelopes, generations,    *)
(* plans or files: a line of keys, each granted to fewer people than the   *)
(* one it succeeds, and stores that follow the line one key at a time.     *)
(* PrivateBridge implements it.                                            *)
(***************************************************************************)
CONSTANTS Labels, Stores, Keys, NoKey

VARIABLES
    line,    \* granted key -> the labels it was granted to, its predecessor
    at,      \* store -> the key it trusts, NoKey before it knows the bridge
    closed,  \* stores for which the bridge is over
    holds,   \* store -> the key whose secret it has, or NoKey
    signed   \* signatures: who signed with which key

vars == <<line, at, closed, holds, signed>>

Granted == DOMAIN line

Init ==
    /\ line = [k \in {} |-> NoKey]
    /\ at = [p \in Stores |-> NoKey]
    /\ closed = {}
    /\ holds = [p \in Stores |-> NoKey]
    /\ signed = {}

(* A key is granted to M, as the successor of `prev'.                      *)
Grant(k, M, prev) ==
    /\ k \notin Granted
    /\ line' = [d \in Granted \union {k} |->
                  IF d = k THEN [members |-> M, prev |-> prev] ELSE line[d]]
    /\ UNCHANGED <<at, closed, holds, signed>>

AtLeastTwo(M) == \E l, m \in M : l # m

(* There is one first key; it is granted to at least two people.           *)
Found(k, M) == Granted = {} /\ AtLeastTwo(M) /\ Grant(k, M, NoKey)

(* Only who has the secret of a key grants its successor, to two or more   *)
(* people who were granted that key, but not to all of them.               *)
Succeed(p, k, M) ==
    /\ p \notin closed /\ at[p] # NoKey /\ holds[p] = at[p]
    /\ p \in M /\ AtLeastTwo(M)
    /\ M \subseteq line[at[p]].members /\ M # line[at[p]].members
    /\ Grant(k, M, at[p])

(* A store moves to the first key, or to a successor of the one it trusts; *)
(* it has the secret only if the key was granted to its label.             *)
Move(p, k) ==
    /\ p \notin closed /\ k \in Granted
    /\ line[k].prev = at[p]
    /\ at' = [at EXCEPT ![p] = k]
    /\ \/ p \in line[k].members /\ holds' = [holds EXCEPT ![p] = k]
       \/ holds' = [holds EXCEPT ![p] = NoKey]
    /\ UNCHANGED <<line, closed, signed>>

(* A store loses the secret, and the bridge may be over for it.            *)
Forget(p) ==
    /\ at[p] # NoKey
    /\ holds' = [holds EXCEPT ![p] = NoKey]
    /\ closed' \in {closed, closed \union {p}}
    /\ UNCHANGED <<line, at, signed>>

Sign(p) ==
    /\ p \notin closed /\ holds[p] # NoKey
    /\ signed' = signed \union {[signer |-> p, key |-> holds[p]]}
    /\ UNCHANGED <<line, at, closed, holds>>

Next ==
    \/ \E k \in Keys \ Granted :
          /\ DOMAIN line' = Granted \union {k}
          /\ \E M \in SUBSET Labels :
                Found(k, M) \/ \E p \in Labels : Succeed(p, k, M)
    \/ \E p \in Stores : Forget(p) \/ \E k \in Keys : Move(p, k)
    \/ \E p \in Labels : Sign(p)

Spec == Init /\ [][Next]_vars

=============================================================================
