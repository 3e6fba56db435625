------------------------------ MODULE OrgSync ------------------------------
(***************************************************************************)
(* One public tree, shared through the relay: the document the relay keeps *)
(* (src/relay/org_tree.rs), the copies in the stores of the people who     *)
(* push and pull it (export_public_tree, apply_public_tree in              *)
(* src/key_tree.rs), and the handlers and commands in between              *)
(* (src/relay/server.rs, src/bin/keyquorum/main.rs).                       *)
(*                                                                         *)
(* Abstractions:                                                           *)
(*   - a label has one place in the tree: no command moves a node, so its  *)
(*     parent is a constant, and a split is only there or not;             *)
(*   - a fingerprint stands for the public key and the hardware key row;   *)
(*   - the commands that change a tree locally (module KeyTree) appear by  *)
(*     what they do to rows and pairings; `sealed' says where a store      *)
(*     holds a wrapped share;                                              *)
(*   - the relay runs one handler at a time, behind a mutex and in one     *)
(*     transaction; a request or an answer may be lost or overtaken;       *)
(*   - envelopes that travel with a push are opaque and left out.          *)
(***************************************************************************)
EXTENDS Naturals, FiniteSets

CONSTANTS
    Nodes, Root,
    Leaves,      \* the nodes that are leaves
    Parent,      \* node -> its parent (the root's own is the root)
    Threshold,   \* split -> its threshold
    Fps, NoFp,   \* fingerprints of encryption keys
    FirstFp,     \* leaf -> the key it is first sealed to
    Initial,     \* nodes of the tree as it was split
    Stores,
    Editors,     \* stores that hold the split tree and run tree commands
    Pushers,     \* stores that run `relay push'
    Publishers,  \* stores that run `tree publish' (an admin key)
    Pullers,     \* stores that run `relay pull' or `tree fetch'
    PullFp,      \* store -> the fingerprint its pull key is bound to
    Pairs,       \* pairs of nodes that bridge commands name
    Evictable, Movable,  \* leaves that `revoke --evict' and `bind' name
    MaxEdits,    \* bound on local tree commands
    MaxGen,      \* bound on the generations of the document
    MaxPulls,    \* puller -> answers that may be under way to it
    MaxLate      \* requests the relay still works on after their client left

(* A set of nodes that holds the parent of each.                           *)
Rising(S) == \A n \in S : Parent[n] \in S

(* Every climb from a node ends at the root: the tree has no cycle.        *)
ASSUME OrgAssumption ==
    /\ IsFiniteSet(Nodes) /\ Leaves \subseteq Nodes /\ Root \in Nodes \ Leaves
    /\ Parent \in [Nodes -> Nodes \ Leaves] /\ Parent[Root] = Root
    /\ \A S \in SUBSET Nodes : S # {} /\ Rising(S) => Root \in S
    /\ Threshold \in [Nodes \ Leaves -> Nat \ {0}]
    /\ NoFp \notin Fps /\ FirstFp \in [Leaves -> Fps]
    /\ Initial \subseteq Nodes /\ \A n \in Initial : Parent[n] \in Initial
    /\ Root \in Initial
    /\ Editors \subseteq Stores /\ Pushers \subseteq Stores
    /\ Publishers \subseteq Stores /\ Pullers \subseteq Stores
    /\ PullFp \in [Pullers -> Fps]
    /\ Pairs \subseteq Nodes \X Nodes /\ \A e \in Pairs : e[1] # e[2]
    /\ Evictable \subseteq Leaves /\ Movable \subseteq Leaves
    /\ MaxEdits \in Nat /\ MaxGen \in Nat
    /\ MaxPulls \in [Pullers -> Nat] /\ MaxLate \in Nat

VARIABLES
    gen,      \* store -> keys.public_generation, 0 without a row
    nodes,    \* store -> its key_nodes: label -> [active, fp]
    sealed,   \* store -> leaf with a wrapped_share -> the key it is sealed to
    revoked,  \* store -> fingerprints whose hardware key is revoked there
    white,    \* store -> key_node_bridges: <<node, peer>>
    links,    \* store -> key_node_links: {node, peer}
    out,      \* store -> the request of its push or publish command
    late,     \* requests whose client gave up waiting
    inb,      \* store -> slices on their way to it
    doc,      \* the relay's document, generation 0 while there is none
    log,      \* every document so far (history)
    edits     \* local commands so far

rowVars == <<gen, nodes, sealed, revoked, white, links>>
netVars == <<out, late, inb>>
vars == <<rowVars, netVars, doc, log, edits>>

NodeRecords == [active: BOOLEAN, fp: Fps \union {NoFp}]
Edges == Nodes \X Nodes
NoTree == [gen |-> 0, nodes |-> [n \in {} |-> 0], white |-> {}, links |-> {}]
NoPush == [how |-> "none", tree |-> NoTree]

(* A freshly made row for n.                                               *)
FirstNode(n) == [active |-> TRUE, fp |-> IF n \in Leaves THEN FirstFp[n] ELSE NoFp]

IsTree(t) ==
    /\ t = [gen |-> t.gen, nodes |-> t.nodes, white |-> t.white, links |-> t.links]
    /\ t.gen \in Nat
    /\ DOMAIN t.nodes \subseteq Nodes /\ t.nodes \in [DOMAIN t.nodes -> NodeRecords]
    /\ \A n \in DOMAIN t.nodes : t.nodes[n].fp = NoFp <=> n \notin Leaves
    /\ t.white \subseteq Edges /\ t.links \subseteq SUBSET Nodes

IsRequest(q) ==
    /\ q = [how |-> q.how, tree |-> q.tree]
    /\ q.how \in {"none", "merge", "put"} /\ IsTree(q.tree)

(* Rows have their types, and what belongs to a key_nodes row (share,      *)
(* whitelist rows, links) is gone when the row is.                         *)
TypeOK ==
    /\ gen \in [Stores -> Nat]
    /\ nodes = [s \in Stores |-> nodes[s]] /\ sealed = [s \in Stores |-> sealed[s]]
    /\ white \in [Stores -> SUBSET Edges] /\ links \in [Stores -> SUBSET SUBSET Nodes]
    /\ \A s \in Stores : IsTree([gen |-> gen[s], nodes |-> nodes[s],
                                 white |-> white[s], links |-> links[s]])
    /\ \A s \in Stores :
          /\ DOMAIN sealed[s] \subseteq Leaves \intersect DOMAIN nodes[s]
          /\ sealed[s] \in [DOMAIN sealed[s] -> Fps]
    /\ \A s \in Stores : \A e \in white[s] : e[1] \in DOMAIN nodes[s]
    /\ \A s \in Stores : \A k \in links[s] : k \subseteq DOMAIN nodes[s]
    /\ revoked \in [Stores -> SUBSET Fps]
    /\ out = [s \in Stores |-> out[s]] /\ \A s \in Stores : IsRequest(out[s])
    /\ \A q \in late : IsRequest(q)
    /\ inb = [s \in Stores |-> inb[s]] /\ \A s \in Stores : \A t \in inb[s] : IsTree(t)
    /\ IsTree(doc) /\ \A t \in log : IsTree(t)
    /\ edits \in 0..MaxEdits

Init ==
    /\ gen = [s \in Stores |-> IF s \in Editors THEN 1 ELSE 0]
    /\ nodes = [s \in Stores |->
                  [n \in IF s \in Editors THEN Initial ELSE {} |-> FirstNode(n)]]
    /\ sealed = [s \in Stores |->
                   [l \in IF s \in Editors THEN Initial \intersect Leaves ELSE {} |->
                      FirstFp[l]]]
    /\ revoked = [s \in Stores |-> {}]
    /\ white = [s \in Stores |-> {}]
    /\ links = [s \in Stores |-> {}]
    /\ out = [s \in Stores |-> NoPush] /\ late = {}
    /\ inb = [s \in Stores |-> {}]
    /\ doc = NoTree /\ log = {}
    /\ edits = 0

-----------------------------------------------------------------------------
(* Visibility.                                                             *)

(* walk_ancestors: n and everything above it, the least set that holds n   *)
(* and the parent of each of its members.                                  *)
Lineage ==
    [n \in Nodes |->
       {m \in Nodes : \A S \in SUBSET Nodes : n \in S /\ Rising(S) => m \in S}]

(* The children of n in N.                                                 *)
ChildrenIn(N, n) == {m \in N \ {Root} : Parent[m] = n}

(* What a seed sees without links: its lineage, descendants and siblings.  *)
Kin(N, seeds) ==
    {n \in N : \E m \in seeds :
       \/ n \in Lineage[m] \/ m \in Lineage[n]
       \/ m # Root /\ n \in ChildrenIn(N, Parent[m])}

(* What is visible once the links in K are followed: the lineage of both   *)
(* their ends.                                                             *)
Following(kin, K) == kin \union UNION {Lineage[n] : n \in UNION K}

(* visible_from_maps, over the labels N and the links L: as long as a link *)
(* touches what is visible, it is followed, so that the links followed are *)
(* the fewest that leave none to follow.                                   *)
MutPeersOnly(N, L, seeds) ==
    LET kin == Kin(N, seeds)
        Settled(K) == \A k \in L : k \intersect (kin \union UNION K) # {} => k \in K
    IN  kin \union UNION {k \in L : \A K \in SUBSET L : Settled(K) => k \in K}
VisibleFrom(N, L, seeds) ==
    LET kin == Kin(N, seeds)
        Settled(K) == \A k \in L : k \intersect Following(kin, K) # {} => k \in K
    IN  Following(kin, {k \in L : \A K \in SUBSET L : Settled(K) => k \in K})

(* filter_public_tree.                                                     *)
Filter(t, V) ==
    [gen |-> t.gen,
     nodes |-> [n \in DOMAIN t.nodes \intersect V |-> t.nodes[n]],
     white |-> {e \in t.white : e[1] \in V /\ e[2] \in V},
     links |-> {k \in t.links : k \subseteq V}]

Seeds(t, fp) == {n \in DOMAIN t.nodes : t.nodes[n].fp = fp}

(* slice_for_fingerprint, for a fingerprint that some node of t has.       *)
Slice(t, fp) ==
    Filter(t, VisibleFrom(DOMAIN t.nodes, t.links, Seeds(t, fp)))

-----------------------------------------------------------------------------
(* The relay.                                                              *)

(* validate_public_tree: one root, every parent and every end of an edge   *)
(* there, and every link on the whitelist of one side.                     *)
Whitelisted(k, W) == \E e \in W : {e[1], e[2]} = k

Valid(t) ==
    LET N == DOMAIN t.nodes
    IN  /\ Root \in N /\ \A n \in N : Parent[n] \in N
        /\ \A e \in t.white : e[1] # e[2] /\ e[1] \in N /\ e[2] \in N
        /\ \A k \in t.links : k \subseteq N /\ Whitelisted(k, t.white)

(* merge_into_existing: what the sender holds is as the sender says, the   *)
(* rest stays.                                                             *)
MutDropsRest(existing, t) == [t EXCEPT !.gen = existing.gen]
MutLosesWhitelist(existing, t) ==
    LET N == DOMAIN t.nodes
    IN  [gen |-> existing.gen,
         nodes |-> [n \in N \union DOMAIN existing.nodes |->
                      IF n \in N THEN t.nodes[n] ELSE existing.nodes[n]],
         white |-> t.white \union
                   {e \in existing.white : e[1] \notin N /\ e[2] \notin N},
         links |-> t.links \union {k \in existing.links : ~(k \subseteq N)}]
Merge(existing, t) ==
    LET N == DOMAIN t.nodes
    IN  [gen |-> existing.gen,
         nodes |-> [n \in N \union DOMAIN existing.nodes |->
                      IF n \in N THEN t.nodes[n] ELSE existing.nodes[n]],
         white |-> t.white \union
                   {e \in existing.white : ~(e[1] \in N /\ e[2] \in N)},
         links |-> t.links \union {k \in existing.links : ~(k \subseteq N)}]

(* merge_public_tree: the first push makes the document.                   *)
MergePublicTree(t) == IF doc.gen = 0 THEN t ELSE Merge(doc, t)

(* persist_public_tree: the generation is the relay's own count.           *)
MutSendersGeneration(t) ==
    /\ doc' = [t EXCEPT !.gen = IF t.gen = 0 THEN 1 ELSE t.gen]
    /\ log' = log \union {doc'}
Persist(t) ==
    /\ doc' = [t EXCEPT !.gen = doc.gen + 1]
    /\ log' = log \union {doc'}

-----------------------------------------------------------------------------
(* relay push and tree publish: export, then one request.                  *)

(* export_public_tree.                                                     *)
Export(s) == [gen |-> gen[s], nodes |-> nodes[s], white |-> white[s],
              links |-> links[s]]

StartPush(s) ==
    /\ s \in Pushers /\ out[s] = NoPush /\ DOMAIN nodes[s] # {}
    /\ doc.gen < MaxGen
    /\ out' = [out EXCEPT ![s] = [how |-> "merge", tree |-> Export(s)]]
    /\ UNCHANGED <<rowVars, late, inb, doc, log, edits>>

StartPublish(s) ==
    /\ s \in Publishers /\ out[s] = NoPush /\ DOMAIN nodes[s] # {}
    /\ doc.gen < MaxGen
    /\ out' = [out EXCEPT ![s] = [how |-> "put", tree |-> Export(s)]]
    /\ UNCHANGED <<rowVars, late, inb, doc, log, edits>>

(* post_inbox: merge_public_tree, in the transaction that stores the       *)
(* envelope.  A lost answer makes the sender push once more.               *)
MergeRequest(q) ==
    /\ q.how = "merge" /\ doc.gen < MaxGen
    /\ Valid(q.tree) /\ Valid(MergePublicTree(q.tree))
    /\ Persist(MergePublicTree(q.tree))

(* put_tree: put_public_tree replaces the document.                        *)
PutRequest(q) ==
    /\ q.how = "put" /\ doc.gen < MaxGen
    /\ Valid(q.tree)
    /\ Persist(q.tree)

Answered(s) ==
    /\ out' = [out EXCEPT ![s] = NoPush]
    /\ UNCHANGED <<rowVars, late, inb, edits>>
PostInbox(s) == MergeRequest(out[s]) /\ Answered(s)
PutTree(s) == PutRequest(out[s]) /\ Answered(s)

(* The client gives up after 30 seconds, the relay's blocking task goes on *)
(* and gets the mutex later.                                               *)
PushTimesOut(s) ==
    /\ out[s] # NoPush /\ Cardinality(late) < MaxLate /\ doc.gen < MaxGen
    /\ late' = late \union {out[s]}
    /\ out' = [out EXCEPT ![s] = NoPush]
    /\ UNCHANGED <<rowVars, inb, doc, log, edits>>

LateRequest(q) ==
    /\ q \in late /\ (MergeRequest(q) \/ PutRequest(q))
    /\ late' = late \ {q}
    /\ UNCHANGED <<rowVars, out, inb, edits>>

(* The relay refuses the request, or it never arrives.                     *)
PushFails(s) ==
    /\ out[s] # NoPush
    /\ out' = [out EXCEPT ![s] = NoPush]
    /\ UNCHANGED <<rowVars, late, inb, doc, log, edits>>

-----------------------------------------------------------------------------
(* relay pull and tree fetch: one request, then apply_public_tree.         *)

(* get_inbox, get_tree_context: nothing for a fingerprint that no node has. *)
GetSlice(s) ==
    /\ s \in Pullers /\ Cardinality(inb[s]) < MaxPulls[s]
    /\ doc.gen > 0 /\ Seeds(doc, PullFp[s]) # {}
    /\ inb' = [inb EXCEPT ![s] = @ \union {Slice(doc, PullFp[s])}]
    /\ UNCHANGED <<rowVars, out, late, doc, log, edits>>

(* apply_public_node: a leaf's share stays only if its key does.           *)
MutKeepsEveryShare(s, t) ==
    [l \in DOMAIN sealed[s] \intersect DOMAIN t.nodes |-> sealed[s][l]]
KeptShares(s, t) ==
    [l \in {m \in DOMAIN sealed[s] \intersect DOMAIN t.nodes :
              nodes[s][m].fp = t.nodes[m].fp} |-> sealed[s][l]]

(* apply_public_tree: the rows of the slice, and no others, but a          *)
(* whitelist row stays if its peer is not in the slice.                    *)
MutKeepsWhitelist(s, t) ==
    /\ t.gen >= gen[s]
    /\ gen' = [gen EXCEPT ![s] = t.gen]
    /\ nodes' = [nodes EXCEPT ![s] = t.nodes]
    /\ sealed' = [sealed EXCEPT ![s] = KeptShares(s, t)]
    /\ white' = [white EXCEPT ![s] = @ \union t.white]
    /\ links' = [links EXCEPT ![s] = t.links]
    /\ UNCHANGED revoked
ApplyTree(s, t) ==
    LET N == DOMAIN t.nodes
    IN  /\ t.gen >= gen[s]
        /\ gen' = [gen EXCEPT ![s] = t.gen]
        /\ nodes' = [nodes EXCEPT ![s] = t.nodes]
        /\ sealed' = [sealed EXCEPT ![s] = KeptShares(s, t)]
        /\ white' = [white EXCEPT ![s] =
                       t.white \union {e \in @ : e[1] \in N /\ e[2] \notin N}]
        /\ links' = [links EXCEPT ![s] = t.links]
        /\ UNCHANGED revoked

Pull(s, t) ==
    /\ t \in inb[s] /\ Valid(t)
    /\ ApplyTree(s, t)
    /\ inb' = [inb EXCEPT ![s] = @ \ {t}]
    /\ UNCHANGED <<out, late, doc, log, edits>>

(* The answer is lost or refused: StalePublicTree, or a malformed slice.   *)
PullFails(s, t) ==
    /\ t \in inb[s]
    /\ inb' = [inb EXCEPT ![s] = @ \ {t}]
    /\ UNCHANGED <<rowVars, out, late, doc, log, edits>>

-----------------------------------------------------------------------------
(* Tree commands on an editor's store (module KeyTree has their detail).   *)

Edit(s) == s \in Editors /\ edits < MaxEdits /\ edits' = edits + 1

(* The active siblings of l, and what add and revoke --evict ask of them:  *)
(* all are leaves, with keys that are not revoked.                         *)
Siblings(s, l) ==
    {m \in ChildrenIn(DOMAIN nodes[s], Parent[l]) \ {l} : nodes[s][m].active}
SiblingsUsable(s, l) ==
    \A m \in Siblings(s, l) : m \in Leaves /\ nodes[s][m].fp \notin revoked[s]

(* Commands name a key that no node has yet.                               *)
Unused(s, fp) == fp \notin revoked[s] /\ \A n \in DOMAIN nodes[s] : nodes[s][n].fp # fp

(* add: the quorum's shares are dealt anew, and the leaf is paired with    *)
(* its siblings.                                                           *)
AddLeaf(s, l) ==
    LET peers == Siblings(s, l)
    IN  /\ Edit(s)
        /\ l \in Leaves \ DOMAIN nodes[s] /\ Parent[l] \in DOMAIN nodes[s]
        /\ SiblingsUsable(s, l) /\ Unused(s, FirstFp[l])
        /\ Cardinality(peers \intersect DOMAIN sealed[s]) >= Threshold[Parent[l]]
        /\ nodes' = [nodes EXCEPT ![s] = [n \in DOMAIN @ \union {l} |->
                                            IF n = l THEN FirstNode(l) ELSE @[n]]]
        /\ sealed' = [sealed EXCEPT ![s] = [m \in DOMAIN @ \union {l} \union peers |->
                        IF m \in peers \union {l} THEN nodes'[s][m].fp ELSE @[m]]]
        /\ white' = [white EXCEPT ![s] = @ \union ({l} \X peers) \union (peers \X {l})]
        /\ links' = [links EXCEPT ![s] = @ \union {{l, m} : m \in peers}]
        /\ UNCHANGED <<gen, revoked, netVars, doc, log>>

(* revoke --evict, of a key with one leaf.                                 *)
EvictLeaf(s, l) ==
    /\ Edit(s)
    /\ l \in Evictable \intersect DOMAIN nodes[s] /\ nodes[s][l].active
    /\ nodes[s][l].fp \notin revoked[s]
    /\ Threshold[Parent[l]] >= 2
    /\ SiblingsUsable(s, l) /\ Siblings(s, l) \subseteq DOMAIN sealed[s]
    /\ Cardinality(Siblings(s, l)) >= Threshold[Parent[l]]
    /\ nodes' = [nodes EXCEPT ![s][l].active = FALSE]
    /\ revoked' = [revoked EXCEPT ![s] = @ \union {nodes[s][l].fp}]
    /\ white' = [white EXCEPT ![s] = {e \in @ : l \notin {e[1], e[2]}}]
    /\ links' = [links EXCEPT ![s] = {k \in @ : l \notin k}]
    /\ UNCHANGED <<gen, sealed, netVars, doc, log>>

(* bind --public-key-file.                                                 *)
RebindLeaf(s, l, fp) ==
    /\ Edit(s)
    /\ l \in Movable \intersect DOMAIN sealed[s] /\ nodes[s][l].active
    /\ Unused(s, fp)
    /\ nodes' = [nodes EXCEPT ![s][l].fp = fp]
    /\ sealed' = [sealed EXCEPT ![s][l] = fp]
    /\ UNCHANGED <<gen, revoked, white, links, netVars, doc, log>>

(* bind --peer, bridge remove, bridge deny.                                *)
BindPair(s, e) ==
    /\ Edit(s)
    /\ {e[1], e[2]} \subseteq DOMAIN nodes[s]
    /\ white' = [white EXCEPT ![s] = @ \union {e, <<e[2], e[1]>>}]
    /\ links' = [links EXCEPT ![s] = @ \union {{e[1], e[2]}}]
    /\ UNCHANGED <<gen, nodes, sealed, revoked, netVars, doc, log>>

RemoveLink(s, e) ==
    /\ Edit(s)
    /\ {e[1], e[2]} \in links[s]
    /\ links' = [links EXCEPT ![s] = @ \ {{e[1], e[2]}}]
    /\ UNCHANGED <<gen, nodes, sealed, revoked, white, netVars, doc, log>>

DenyPair(s, e) ==
    /\ Edit(s)
    /\ {e[1], e[2]} \subseteq DOMAIN nodes[s]
    /\ white' = [white EXCEPT ![s] = @ \ {e, <<e[2], e[1]>>}]
    /\ links' = [links EXCEPT ![s] = @ \ {{e[1], e[2]}}]
    /\ UNCHANGED <<gen, nodes, sealed, revoked, netVars, doc, log>>

-----------------------------------------------------------------------------
Push(s) == \/ StartPush(s) \/ StartPublish(s) \/ PostInbox(s) \/ PutTree(s)
           \/ PushFails(s) \/ PushTimesOut(s)
Fetch(s) == \/ GetSlice(s)
            \/ \E t \in inb[s] : Pull(s, t)
            \/ \E t \in inb[s] : PullFails(s, t)
Local(s) == \/ \E l \in Leaves : AddLeaf(s, l) \/ EvictLeaf(s, l)
            \/ \E l \in Leaves, fp \in Fps : RebindLeaf(s, l, fp)
            \/ \E e \in Pairs : BindPair(s, e) \/ RemoveLink(s, e) \/ DenyPair(s, e)

Next == \/ \E s \in Stores : Push(s) \/ Fetch(s) \/ Local(s)
        \/ \E q \in late : LateRequest(q)

Spec == Init /\ [][Next]_vars

-----------------------------------------------------------------------------
(* Properties.                                                             *)

(* Every slice that the relay hands out stands on its own: the parent of   *)
(* each of its nodes and both ends of each of its edges are there, and so  *)
(* is the whitelist row of each link.  apply_public_tree refuses it for    *)
(* its age only.                                                           *)
SlicesApply == \A s \in Stores : \A t \in inb[s] : Valid(t)

(* README "nodes the sender does not hold stay in place, so a personal     *)
(* subgraph cannot replace canonical context": when a push changes the     *)
(* document, in time or late, nodes outside the sender's own tree and the  *)
(* edges that touch them are as before.                                    *)
Requests == late \union {out[s] : s \in Stores}
OthersStayInPlace ==
    [][\A q \in Requests \ Requests' : q.how = "merge" /\ doc' # doc =>
           LET rest == DOMAIN doc.nodes \ DOMAIN q.tree.nodes
           IN  /\ rest \subseteq DOMAIN doc'.nodes
               /\ \A n \in rest : doc'.nodes[n] = doc.nodes[n]
               /\ \A k \in doc.links : k \intersect rest # {} => k \in doc'.links
               /\ \A e \in doc.white : {e[1], e[2]} \intersect rest # {} =>
                                         e \in doc'.white]_vars

(* A store that only pulls holds exactly its slice of the one document     *)
(* that had the generation it records, whichever answers were lost, late   *)
(* or overtaken, and whoever pushed in between.                            *)
ReaderHoldsOneGeneration ==
    \A s \in Pullers \ Editors : gen[s] > 0 =>
        /\ \E t \in log : t.gen = gen[s]
        /\ \A t \in log : t.gen = gen[s] =>
              LET slice == Slice(t, PullFp[s])
              IN  nodes[s] = slice.nodes /\ links[s] = slice.links

(* A push that is valid by itself is never refused for what the relay has  *)
(* already: merging it keeps every parent, and the whitelist row of every  *)
(* link that stays.                                                        *)
MergeStaysValid ==
    \A q \in Requests : q.how = "merge" /\ Valid(q.tree) =>
        Valid(MergePublicTree(q.tree))

(* A share is sealed to the key that its row names, whatever order local   *)
(* rebinds, pushes and pulls of older documents come in: the person with   *)
(* that key can open it.                                                   *)
ShareFitsKey ==
    \A s \in Stores : \A l \in DOMAIN sealed[s] : sealed[s][l] = nodes[s][l].fp

-----------------------------------------------------------------------------
(* The inductive invariant of module OrgSyncProofs.                        *)

(* The document is valid, and is the last of those that ever were; no two  *)
(* of them share a generation.                                             *)
DocumentValid == doc = NoTree \/ (doc.gen > 0 /\ Valid(doc))
LogNumbered ==
    /\ doc.gen > 0 => doc \in log
    /\ \A t \in log : t.gen > 0 /\ t.gen <= doc.gen /\ Valid(t)
    /\ \A t, u \in log : t.gen = u.gen => t = u

(* An answer under way is the puller's slice of a document that was, made  *)
(* for a key that the document names.                                      *)
AnswersAreSlices ==
    \A s \in Stores : \A a \in inb[s] :
        s \in Pullers /\ \E t \in log : Seeds(t, PullFp[s]) # {} /\ a = Slice(t, PullFp[s])

IInv ==
    /\ TypeOK /\ ShareFitsKey
    /\ DocumentValid /\ LogNumbered /\ AnswersAreSlices
    /\ ReaderHoldsOneGeneration

-----------------------------------------------------------------------------
(* What documents say and the code does not do.                            *)

(* README "`relay push` also uploads every public tree in `--db` and       *)
(* merges it into the mailbox": the relay's validate_public_tree accepts   *)
(* what export_public_tree makes of a store.                               *)
PushAccepted == \A s \in Stores : out[s].how = "merge" => Valid(out[s].tree)

=============================================================================
