------------------------------ MODULE KeyTree ------------------------------
(***************************************************************************)
(* One split tree in one store (src/key_tree.rs, src/pss.rs): its leaves,  *)
(* the Shamir shares sealed to their hardware keys, and its pairings, with *)
(* the CLI commands that change them (split, add, bind, revoke, bridge in  *)
(* src/bin/keyquorum/main.rs).  A command is a process: it gathers shares  *)
(* leaf by leaf, outside any transaction, and commits later.               *)
(*                                                                         *)
(* Abstractions:                                                           *)
(*   - a share is a point x of a polynomial, named by the deal that made   *)
(*     it and the zero-constant polynomials added to it since; `value'     *)
(*     says whether the deal hides the split's own secret.  Shares of one  *)
(*     polynomial interpolate to its value; any mixture to noise;          *)
(*   - nodes are their row ids; labels are unique and never reused, so a   *)
(*     label is its id;                                                    *)
(*   - splits are only made by `split' and never change.                   *)
(***************************************************************************)
EXTENDS Naturals, FiniteSets

CONSTANTS
    Splits,       \* row ids of the split nodes
    Leaves,       \* row ids of leaves, present or still to be added
    Root,
    Parent,       \* node -> the split above it (Root's own is Root)
    Threshold,    \* split -> its threshold
    Initial,      \* leaves that `split' created
    MaxChildren,  \* 255 in the code: the points of GF(256)
    HwKeys,       \* encryption hardware keys
    NoHw,
    FirstHw,      \* leaf -> the key its first share is sealed to
    Spare,        \* hardware keys `bind' may move a leaf to
    Banned,       \* hardware keys that `revoke' may name
    Procs,        \* CLI processes at work on this store
    RawFiles,     \* may a share be given as a raw file kept from earlier?
    Pairable,     \* nodes that bridge commands name
    MaxDraws      \* bound on the polynomials drawn

Nodes == Splits \union Leaves
Children == [s \in Splits |-> {n \in Nodes \ {Root} : Parent[n] = s}]

(* Every climb down ends at a split over leaves: the tree has no cycle.    *)
ASSUME TreeAssumption ==
    /\ Splits \subseteq Nat /\ Leaves \subseteq Nat
    /\ IsFiniteSet(Splits) /\ IsFiniteSet(Leaves)
    /\ Splits \intersect Leaves = {}
    /\ Root \in Splits
    /\ Parent \in [Nodes -> Splits] /\ Parent[Root] = Root
    /\ \A S \in SUBSET Splits : S # {} => \E s \in S : Children[s] \intersect S = {}
    /\ Threshold \in [Splits -> Nat \ {0}]
    /\ Initial \subseteq Leaves
    /\ \A s \in Splits :
          LET ch == {n \in Children[s] : n \in Splits \union Initial}
          IN  Threshold[s] <= Cardinality(ch) /\ Cardinality(ch) <= MaxChildren
    /\ NoHw \notin HwKeys /\ FirstHw \in [Leaves -> HwKeys]
    /\ Spare \subseteq HwKeys /\ Banned \subseteq HwKeys
    /\ RawFiles \in BOOLEAN
    /\ Pairable \subseteq Nodes
    /\ MaxDraws \in Nat /\ MaxChildren \in Nat

VARIABLES
    state,     \* leaf -> "absent" | "active" | "evicted" (is_active = 0)
    hw,        \* leaf -> hardware_key_id
    share,     \* leaf -> the share in wrapped_share
    revoked,   \* hardware keys with revoked_at set
    allow,     \* key_node_bridges: <<node, peer>>
    links,     \* key_node_links: {node, peer}
    cmd,       \* process -> the command it is running
    draws,     \* polynomials drawn so far
    seen,      \* leaf -> every share ever sealed for it (history)
    mixed      \* did a commit use shares of two polynomials? (history)

rows == <<state, hw, share, revoked>>
pairs == <<allow, links>>
hist == <<seen, mixed>>
vars == <<rows, pairs, cmd, draws, hist>>

Shares == [split: Splits, deal: Nat, value: {"good", "noise"},
           deltas: SUBSET Nat, x: Nat]
NoShare == [split |-> Root, deal |-> 0, value |-> "noise", deltas |-> {},
            x |-> 0]

Ops == {"none", "add", "evict", "unbind", "revoke", "rebind", "link", "deny"}
Commands == [op: Ops, node: Nodes, peer: Nodes, hw: HwKeys \union {NoHw},
             todo: SUBSET Leaves, backed: [Leaves -> HwKeys],
             got: [Leaves -> Shares]]
Nothing == [l \in Leaves |-> NoShare]
Done == [op |-> "none", node |-> Root, peer |-> Root, hw |-> NoHw,
         todo |-> {}, backed |-> FirstHw, got |-> Nothing]

Active == {l \in Leaves : state[l] = "active"}
ActiveUnder(s) == Active \intersect Children[s]

(* The place of n among the members of S, in row id order.                 *)
Position(S, n) == Cardinality({m \in S : m <= n})

(* Two shares lie on one polynomial.                                       *)
SamePolynomial(a, b) ==
    a.split = b.split /\ a.deal = b.deal /\ a.deltas = b.deltas

OnePolynomial(S) == \A a, b \in S : SamePolynomial(a, b)

(* require_distinct_nonzero_xs, for the shares got[l], l \in A.            *)
DistinctPoints(A, got) ==
    \A l \in A : got[l].x # 0 /\ \A m \in A : got[l].x = got[m].x => l = m

(* Sharks::recover, asked for t points: it interpolates all it is given.   *)
Recover(S, t) ==
    IF Cardinality({a.x : a \in S}) < t THEN "none"
    ELSE IF OnePolynomial(S) /\ \A a \in S : a.value = "good" THEN "good"
    ELSE "noise"

(* split, right after its transaction: each split dealt once, to its       *)
(* children in spec order.                                                 *)
FirstShare ==
    [n \in Nodes |->
       [split |-> Parent[n], deal |-> 0, value |-> "good", deltas |-> {},
        x |-> Position(Children[Parent[n]] \intersect (Splits \union Initial),
                       n)]]

TypeOK ==
    /\ state \in [Leaves -> {"absent", "active", "evicted"}]
    /\ hw \in [Leaves -> HwKeys]
    /\ share \in [Leaves -> Shares]
    /\ revoked \in SUBSET HwKeys
    /\ allow \in SUBSET (Nodes \X Nodes)
    /\ links \in SUBSET SUBSET Nodes
    /\ cmd \in [Procs -> Commands]
    /\ draws \in Nat
    /\ seen \in [Leaves -> SUBSET Shares]
    /\ mixed \in BOOLEAN

Init ==
    /\ state = [l \in Leaves |-> IF l \in Initial THEN "active" ELSE "absent"]
    /\ hw = FirstHw
    /\ share = [l \in Leaves |->
                  IF l \in Initial THEN FirstShare[l] ELSE NoShare]
    /\ revoked = {}
    /\ allow = {} /\ links = {}
    /\ cmd = [p \in Procs |-> Done]
    /\ draws = 0
    /\ seen = [l \in Leaves |-> IF l \in Initial THEN {FirstShare[l]} ELSE {}]
    /\ mixed = FALSE

-----------------------------------------------------------------------------
(* Reconstruction.                                                         *)

(* The first t members of R, in row id order.                              *)
FirstOf(R, t) == {n \in R : Position(R, n) <= t}

(* A split's value, as the share it is for the split above.                *)
AsShare(s, value) ==
    IF value = "none" THEN NoShare ELSE [FirstShare[s] EXCEPT !.value = value]

(* reconstruct_node, for all nodes: given[l] is the share presented for    *)
(* l \in DOMAIN given.  NoShare stands for QuorumNotMet.                   *)
Resolve(given, R, n) ==
    IF n \in Leaves
    THEN IF n \in Active \intersect DOMAIN given THEN given[n] ELSE NoShare
    ELSE LET resolved == {c \in Children[n] : R[c] # NoShare}
             points == {R[c] : c \in FirstOf(resolved, Threshold[n])}
         IN  AsShare(n, Recover(points, Threshold[n]))

Reconstruct(given) ==
    LET Rec[n \in Nodes] == Resolve(given, Rec, n)
    IN  Rec

(* Each node and the splits above it.                                      *)
Lineage ==
    [n \in Nodes |->
       {m \in Nodes : \A S \in SUBSET Nodes :
          n \in S /\ (\A k \in S : Parent[k] \in S) => m \in S}]

(* reconstruct_up_to_root, from `from' (the lowest common ancestor of the  *)
(* nodes named): at every level the value found so far comes first.        *)
MutPathIsEnough(from, given, U, n) ==
    LET Rec == Reconstruct(given)
        c == CHOOSE d \in Children[n] : d \in Lineage[from]
        others == {d \in Children[n] \ {c} : Rec[d] # NoShare}
        points == {U[c]} \union {Rec[d] : d \in FirstOf(others, Threshold[n] - 1)}
    IN  IF n = from THEN Rec[n]
        ELSE IF U[c] = NoShare THEN NoShare
        ELSE AsShare(n, Recover(points, 1))
Climb(from, given, U, n) ==
    LET Rec == Reconstruct(given)
        c == CHOOSE d \in Children[n] : d \in Lineage[from]
        others == {d \in Children[n] \ {c} : Rec[d] # NoShare}
        points == {U[c]} \union {Rec[d] : d \in FirstOf(others, Threshold[n] - 1)}
    IN  IF n = from THEN Rec[n]
        ELSE IF U[c] = NoShare THEN NoShare
        ELSE AsShare(n, Recover(points, Threshold[n]))

ReconstructVia(from, given) ==
    LET Up[n \in Lineage[from]] == Climb(from, given, Up, n)
    IN  Up[Root]

-----------------------------------------------------------------------------
(* Gathering shares: `describe', then collect_shares.                      *)

(* The process takes up a command on leaf l, and will ask for the shares   *)
(* of its active siblings.  (revoke asks for the rest of the tree too, and *)
(* makes no use of it.)                                                    *)
Begin(p, op, l, h) ==
    cmd' = [cmd EXCEPT ![p] =
        [op |-> op, node |-> l, peer |-> Root, hw |-> h,
         todo |-> ActiveUnder(Parent[l]) \ {l}, backed |-> hw,
         got |-> Nothing]]

(* One leaf: its holder is not there, or unseals what the row holds at     *)
(* this moment with the key `describe' showed, or (RawFiles) brings a raw  *)
(* share kept from earlier.  The prompts come in row id order.             *)
Collect(p, l) ==
    /\ cmd[p].op \in {"add", "evict"}
    /\ l \in cmd[p].todo /\ \A m \in cmd[p].todo : l <= m
    /\ \E raw \in {NoShare}
                 \union (IF hw[l] = cmd[p].backed[l] THEN {share[l]} ELSE {})
                 \union (IF RawFiles THEN seen[l] ELSE {}) :
          cmd' = [cmd EXCEPT ![p].todo = @ \ {l}, ![p].got[l] = raw]
    /\ UNCHANGED <<rows, pairs, draws, hist>>

Ready(p, op) == cmd[p].op = op /\ cmd[p].todo = {}

(* The command ends early: a check fails, or the process is killed.  Its   *)
(* transaction, if it had one open, is rolled back.                        *)
Fail(p) ==
    /\ cmd[p] # Done
    /\ cmd' = [cmd EXCEPT ![p] = Done]
    /\ UNCHANGED <<rows, pairs, draws, hist>>

(* New shares for the leaves in DOMAIN new, computed from the shares used. *)
Reseal(new, used) ==
    /\ share' = [l \in Leaves |-> IF l \in DOMAIN new THEN new[l] ELSE share[l]]
    /\ seen' = [l \in Leaves |-> IF l \in DOMAIN new
                                 THEN seen[l] \union {new[l]} ELSE seen[l]]
    /\ mixed' = (mixed \/ ~OnePolynomial(used))

-----------------------------------------------------------------------------
(* add: add_leaf_and_reshare.                                              *)

StartAdd(p, l) ==
    /\ cmd[p] = Done
    /\ draws < MaxDraws
    /\ state[l] = "absent"
    /\ Begin(p, "add", l, FirstHw[l])
    /\ UNCHANGED <<rows, pairs, draws, hist>>

(* Its transaction: recover the parent's secret from every share that was  *)
(* presented for a leaf still active, and deal it anew to the leaves.  The *)
(* new row's id is the highest yet.                                        *)
CommitAdd(p) ==
    LET l == cmd[p].node
        s == Parent[l]
        A == ActiveUnder(s)
        n == Cardinality(A) + 1
        given == {m \in A : cmd[p].got[m] # NoShare}
        used == {cmd[p].got[m] : m \in given}
    IN  /\ Ready(p, "add")
        /\ state[l] = "absent" /\ \A m \in Leaves \ {l} : state[m] # "absent" => m < l
        /\ Children[s] \intersect Splits = {}
        /\ n <= MaxChildren /\ Threshold[s] <= n
        /\ Cardinality(given) >= Threshold[s]
        /\ DistinctPoints(given, cmd[p].got)
        /\ {cmd[p].hw} \union {hw[m] : m \in A} \subseteq HwKeys \ revoked
        /\ Reseal([m \in A \union {l} |->
                      [split |-> s, deal |-> draws + 1, value |-> Recover(used, Threshold[s]),
                       deltas |-> {}, x |-> IF m = l THEN n ELSE Position(A, m)]],
                  used)
        /\ state' = [state EXCEPT ![l] = "active"]
        /\ hw' = [hw EXCEPT ![l] = cmd[p].hw]
        /\ draws' = draws + 1
        /\ cmd' = [cmd EXCEPT ![p] = Done]
        /\ UNCHANGED <<revoked, pairs>>

-----------------------------------------------------------------------------
(* revoke: apply_hardware_revoke.                                          *)

(* delete_node_bindings, for each node of N: its links, then the whitelist *)
(* rows of either side.                                                    *)
MutUnlinksAll(N) == links' = {}
Unlink(N) == links' = {k \in links : k \intersect N = {}}
Disallow(N) == allow' = {e \in allow : e[1] \notin N /\ e[2] \notin N}

(* drop_bindings_for_hardware comes first, outside any transaction.  (The  *)
(* leaves of one key are unbound one after the other; here, together.)     *)
StartRevoke(p, h) ==
    LET N == {l \in Active : hw[l] = h}
    IN  /\ cmd[p] = Done /\ h \in Banned
        /\ Unlink(N)
        /\ cmd' = [cmd EXCEPT ![p] =
                      [Done EXCEPT !.op = "unbind", !.hw = h, !.todo = N]]
        /\ UNCHANGED <<rows, allow, draws, hist>>

(* Then --evict, for the one leaf of the key or the leaf that was named,   *)
(* describes the tree and gathers shares; without it the key is next.      *)
DropBindings(p) ==
    LET N == cmd[p].todo
        h == cmd[p].hw
    IN  /\ cmd[p].op = "unbind"
        /\ Disallow(N)
        /\ \/ /\ draws < MaxDraws
              /\ \E l \in Active : (N = {l} \/ hw[l] = h) /\ Begin(p, "evict", l, h)
           \/ cmd' = [cmd EXCEPT ![p] = [Done EXCEPT !.op = "revoke", !.hw = h]]
        /\ UNCHANGED <<rows, links, draws, hist>>

(* evict_and_refresh's checks, for the leaf e and the shares got.          *)
MutEvictsTooMany(e, got) ==
    LET s == Parent[e]
        survivors == ActiveUnder(s) \ {e}
    IN  /\ state[e] = "active"
        /\ Threshold[s] >= 2
        /\ Children[s] \intersect Splits = {}
        /\ Cardinality(survivors) >= Threshold[s] - 1
        /\ \A m \in survivors : got[m] # NoShare
        /\ \A m \in survivors : hw[m] \notin revoked
        /\ DistinctPoints(survivors, got)
CanEvict(e, got) ==
    LET s == Parent[e]
        survivors == ActiveUnder(s) \ {e}
    IN  /\ state[e] = "active"
        /\ Threshold[s] >= 2
        /\ Children[s] \intersect Splits = {}
        /\ Cardinality(survivors) >= Threshold[s]
        /\ \A m \in survivors : got[m] # NoShare
        /\ \A m \in survivors : hw[m] \notin revoked
        /\ DistinctPoints(survivors, got)

(* Its transaction: the leaf is deactivated and unbound, and the others    *)
(* take the presented shares with one more zero-constant polynomial.       *)
MutRefreshesQuorum(p) ==
    LET e == cmd[p].node
        survivors == FirstOf(ActiveUnder(Parent[e]) \ {e}, Threshold[Parent[e]])
    IN  /\ Ready(p, "evict")
        /\ CanEvict(e, cmd[p].got)
        /\ state' = [state EXCEPT ![e] = "evicted"]
        /\ Unlink({e}) /\ Disallow({e})
        /\ Reseal([m \in survivors |->
                      [cmd[p].got[m] EXCEPT !.deltas = @ \union {draws + 1}]],
                  {cmd[p].got[m] : m \in survivors})
        /\ draws' = draws + 1
        /\ cmd' = [cmd EXCEPT ![p] = [Done EXCEPT !.op = "revoke",
                                                 !.hw = cmd[p].hw]]
        /\ UNCHANGED <<hw, revoked>>
MutNoRefresh(p) ==
    LET e == cmd[p].node
        survivors == ActiveUnder(Parent[e]) \ {e}
    IN  /\ Ready(p, "evict")
        /\ CanEvict(e, cmd[p].got)
        /\ state' = [state EXCEPT ![e] = "evicted"]
        /\ Unlink({e}) /\ Disallow({e})
        /\ Reseal([m \in survivors |->
                      cmd[p].got[m]],
                  {cmd[p].got[m] : m \in survivors})
        /\ draws' = draws + 1
        /\ cmd' = [cmd EXCEPT ![p] = [Done EXCEPT !.op = "revoke",
                                                 !.hw = cmd[p].hw]]
        /\ UNCHANGED <<hw, revoked>>
CommitEvict(p) ==
    LET e == cmd[p].node
        survivors == ActiveUnder(Parent[e]) \ {e}
    IN  /\ Ready(p, "evict")
        /\ CanEvict(e, cmd[p].got)
        /\ state' = [state EXCEPT ![e] = "evicted"]
        /\ Unlink({e}) /\ Disallow({e})
        /\ Reseal([m \in survivors |->
                      [cmd[p].got[m] EXCEPT !.deltas = @ \union {draws + 1}]],
                  {cmd[p].got[m] : m \in survivors})
        /\ draws' = draws + 1
        /\ cmd' = [cmd EXCEPT ![p] = [Done EXCEPT !.op = "revoke",
                                                 !.hw = cmd[p].hw]]
        /\ UNCHANGED <<hw, revoked>>

(* revoke_key, last.                                                       *)
RevokeKey(p) ==
    /\ Ready(p, "revoke")
    /\ revoked' = revoked \union {cmd[p].hw}
    /\ cmd' = [cmd EXCEPT ![p] = Done]
    /\ UNCHANGED <<state, hw, share, pairs, draws, hist>>

-----------------------------------------------------------------------------
(* bind --public-key-file: rebind_leaf, which has no transaction.          *)

MutForgetsKey(p, l, h) ==
    /\ cmd[p] = Done
    /\ state[l] = "active" /\ h \in Spare /\ h \notin revoked
    /\ cmd' = [cmd EXCEPT ![p] =
         [Done EXCEPT !.op = "rebind", !.node = l,
                      !.got = [Nothing EXCEPT ![l] = share[l]]]]
    /\ UNCHANGED <<rows, pairs, draws, hist>>
RebindRead(p, l, h) ==
    /\ cmd[p] = Done
    /\ state[l] = "active" /\ h \in Spare /\ h \notin revoked
    /\ cmd' = [cmd EXCEPT ![p] =
         [Done EXCEPT !.op = "rebind", !.node = l, !.hw = h,
                      !.got = [Nothing EXCEPT ![l] = share[l]]]]
    /\ UNCHANGED <<rows, pairs, draws, hist>>

RebindWrite(p) ==
    LET l == cmd[p].node
    IN  /\ Ready(p, "rebind")
        /\ hw' = [hw EXCEPT ![l] = cmd[p].hw]
        /\ share' = [share EXCEPT ![l] = cmd[p].got[l]]
        /\ cmd' = [cmd EXCEPT ![p] = Done]
        /\ UNCHANGED <<state, revoked, pairs, draws, hist>>

-----------------------------------------------------------------------------
(* bridge allow / deny / add / remove.  bind --peer, and the pairings made *)
(* after split and add, are sequences of these, each its own statement.    *)

Present(n) == n \in Splits \/ (n \in Leaves /\ state[n] # "absent")

AllowBridge(p, a, b) ==
    /\ cmd[p] = Done /\ Present(a) /\ Present(b) /\ a # b
    /\ allow' = allow \union {<<a, b>>}
    /\ UNCHANGED <<rows, links, cmd, draws, hist>>

(* deny_bridge: the whitelist rows of both sides, then the pairing.        *)
DenyBridge(p, a, b) ==
    /\ cmd[p] = Done /\ Present(a) /\ Present(b) /\ a # b
    /\ allow' = allow \ {<<a, b>>, <<b, a>>}
    /\ cmd' = [cmd EXCEPT ![p] =
                  [Done EXCEPT !.op = "deny", !.node = a, !.peer = b]]
    /\ UNCHANGED <<rows, links, draws, hist>>

DenyLink(p) ==
    /\ Ready(p, "deny")
    /\ links' = links \ {{cmd[p].node, cmd[p].peer}}
    /\ cmd' = [cmd EXCEPT ![p] = Done]
    /\ UNCHANGED <<rows, allow, draws, hist>>

(* add_bridge looks the whitelist up, then inserts the link.               *)
Whitelisted(a, b) == <<a, b>> \in allow \/ <<b, a>> \in allow

AddBridgeRead(p, a, b) ==
    /\ cmd[p] = Done
    /\ Present(a) /\ Present(b) /\ a # b /\ Whitelisted(a, b)
    /\ cmd' = [cmd EXCEPT ![p] =
                  [Done EXCEPT !.op = "link", !.node = a, !.peer = b]]
    /\ UNCHANGED <<rows, pairs, draws, hist>>

AddBridgeWrite(p) ==
    /\ Ready(p, "link")
    /\ links' = links \union {{cmd[p].node, cmd[p].peer}}
    /\ cmd' = [cmd EXCEPT ![p] = Done]
    /\ UNCHANGED <<rows, allow, draws, hist>>

RemoveBridge(p, a, b) ==
    /\ cmd[p] = Done /\ {a, b} \in links
    /\ links' = links \ {{a, b}}
    /\ UNCHANGED <<rows, allow, cmd, draws, hist>>

-----------------------------------------------------------------------------
Gather(p) == \E l \in Leaves : Collect(p, l)
Start(p) == \/ \E l \in Leaves : StartAdd(p, l)
            \/ \E h \in HwKeys : StartRevoke(p, h)
            \/ \E l \in Leaves, h \in HwKeys : RebindRead(p, l, h)
Commit(p) == \/ CommitAdd(p) \/ CommitEvict(p) \/ RevokeKey(p)
             \/ RebindWrite(p) \/ AddBridgeWrite(p) \/ DenyLink(p)
             \/ DropBindings(p)
Bridge(p, a, b) == \/ AllowBridge(p, a, b) \/ DenyBridge(p, a, b)
                   \/ AddBridgeRead(p, a, b) \/ RemoveBridge(p, a, b)

Next ==
    \/ \E p \in Procs : Start(p) \/ Gather(p) \/ Commit(p) \/ Fail(p)
    \/ \E p \in Procs, a, b \in Pairable : Bridge(p, a, b)

Spec == Init /\ [][Next]_vars

-----------------------------------------------------------------------------
(* Properties.                                                             *)

(* The splits that a set of leaves may reconstruct, read off the           *)
(* thresholds: the reference that reconstruct is measured against.  They   *)
(* are the fewest such that no other split has its quorum in S and them.   *)
Quorums(S) ==
    LET Settled(T) == \A s \in Splits :
          Cardinality(Children[s] \intersect (S \union T)) >= Threshold[s] => s \in T
    IN  {s \in Splits : \A T \in SUBSET Splits : Settled(T) => s \in T}

Qualified(S) == Root \in Quorums(S)

Current(S) == [l \in S |-> share[l]]

(* After any adds, evictions and rebinds, the leaves that the thresholds   *)
(* qualify, and only those, reconstruct the secret from their sealed       *)
(* shares, unless a commit was given shares of two polynomials; a complete *)
(* set of old shares does no harm.                                         *)
QuorumReconstructs ==
    ~mixed =>
      \A S \in SUBSET Active :
        Reconstruct(Current(S))[Root] =
          IF Qualified(S) THEN AsShare(Root, "good") ELSE NoShare

(* reconstruct --node gives the secret or asks for more shares, whichever  *)
(* node it starts from: it never needs fewer shares than the thresholds    *)
(* say, and never makes another value of them.                             *)
PathAgrees ==
    ~mixed =>
      \A S \in SUBSET Active, n \in Splits \union Active :
        ReconstructVia(n, Current(S)) \in
          IF Qualified(S) THEN {NoShare, AsShare(Root, "good")} ELSE {NoShare}

(* However often leaves are evicted, those that stay are a quorum.         *)
SecretStaysReachable == Qualified(Active)

(* No share that an evicted leaf ever had lies on the polynomial of a      *)
(* share that a sibling holds now: eviction refreshes every sibling.       *)
EvictedShareUseless ==
    \A e, l \in Leaves : state[e] = "evicted" /\ l \in ActiveUnder(Parent[e]) =>
        \A a \in seen[e] : ~SamePolynomial(a, share[l])

PairsGoByRight ==
    \A k \in links \ links' :
       \/ cmd' = cmd /\ rows' = rows
       \/ \E p \in Procs : cmd[p].op = "deny" /\ k = {cmd[p].node, cmd[p].peer}
       \/ \E p \in Procs : /\ cmd'[p].op \in {"unbind", "revoke"}
                           /\ \E l \in k \intersect Leaves : hw[l] = cmd'[p].hw

(* README "they survive a secret refresh, a new leaf, or a leaf moving to  *)
(* a new public key": a pairing goes when it is removed or denied, or when *)
(* the key of one of its two leaves is being revoked, and never else.      *)
SurvivorPairsStay == [][PairsGoByRight]_vars

-----------------------------------------------------------------------------
(* The inductive invariant of module KeyTreeProofs.                        *)

(* A process at work on a leaf has a leaf and a key, and asks for shares   *)
(* of leaves that are there.                                               *)
CommandsFit ==
    \A p \in Procs :
        /\ cmd[p].op \in {"add", "evict", "rebind"} => cmd[p].node \in Leaves
        /\ cmd[p].op \in {"evict", "rebind"} => state[cmd[p].node] # "absent"
        /\ cmd[p].op \in {"add", "evict", "rebind", "unbind", "revoke"} =>
              cmd[p].hw \in HwKeys
        /\ cmd[p].op = "rebind" => cmd[p].hw \in Spare
        /\ \A l \in cmd[p].todo : state[l] # "absent"

(* Every share that a row or a process holds was once sealed for its leaf, *)
(* and was made of polynomials already drawn.                              *)
SharesKnown ==
    /\ \A l \in Leaves : IF state[l] = "absent" THEN seen[l] = {} ELSE share[l] \in seen[l]
    /\ \A l \in Leaves : \A a \in seen[l] :
          a.split = Parent[l] /\ a.deal <= draws /\ \A d \in a.deltas : d <= draws
    /\ \A p \in Procs, l \in Leaves :
          cmd[p].got[l] = NoShare \/ cmd[p].got[l] \in seen[l]
    /\ \A p \in Procs : cmd[p].op = "rebind" =>
          cmd[p].got[cmd[p].node] \in seen[cmd[p].node]

(* Under a split that has splits below it, leaves keep their first share.  *)
UpperSplitsFixed ==
    \A l \in Leaves : Children[Parent[l]] \intersect Splits # {} /\ state[l] # "absent" =>
        l \in Initial /\ seen[l] = {FirstShare[l]}

(* Every split has its quorum among what is active.                        *)
Quorate ==
    \A s \in Splits :
        Cardinality(Children[s] \intersect (Splits \union Active)) >= Threshold[s]

(* Without a mixture, every share ever sealed hides the split's secret.    *)
SeenGood == ~mixed => \A l \in Leaves : \A a \in seen[l] : a.value = "good"

(* bind is alone on the store, or not used: what keytree_rebind shows does *)
(* not happen.  Then a rebind in progress holds the share its row holds,   *)
(* and a leaf that is being revoked keeps its key.                         *)
Serial == Spare = {} \/ \A p, q \in Procs : p = q

RebindsCurrent ==
    \A p \in Procs : cmd[p].op = "rebind" =>
        /\ state[cmd[p].node] = "active"
        /\ cmd[p].got[cmd[p].node] = share[cmd[p].node]

RevokedKeysStay ==
    \A p \in Procs :
        /\ cmd[p].op = "unbind" => \A l \in cmd[p].todo : hw[l] = cmd[p].hw
        /\ cmd[p].op = "evict" => hw[cmd[p].node] = cmd[p].hw

(* The active leaves of a split hold points of one polynomial.             *)
OneDeal ==
    ~mixed => \A s \in Splits :
        /\ OnePolynomial({share[l] : l \in ActiveUnder(s)})
        /\ DistinctPoints(ActiveUnder(s), share)

IInv ==
    /\ TypeOK /\ CommandsFit /\ SharesKnown /\ UpperSplitsFixed /\ Quorate /\ SeenGood
    /\ Serial => /\ RebindsCurrent /\ RevokedKeysStay
                 /\ EvictedShareUseless /\ OneDeal

-----------------------------------------------------------------------------
(* What the repository says, and the code does not guarantee.              *)

(* rebind_leaf "The share bytes and the key_nodes.id stay the same".       *)
RebindKeepsShare ==
    [][\A l \in Leaves : state[l] = "active" /\ hw'[l] # hw[l] =>
           share'[l] = share[l]]_vars

=============================================================================
