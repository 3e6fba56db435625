--------------------------- MODULE OrgSyncProofs ---------------------------
(***************************************************************************)
(* Theorems about module OrgSync, for every tree, every set of stores and  *)
(* every number of edits, generations, answers and late requests.  The     *)
(* invariant IInv is inductive: the relay's document stays valid because a *)
(* merge of two valid trees is (MergeValid), every slice of a valid tree   *)
(* is valid because what a key may see is closed under parents             *)
(* (SliceValid), and what a reader holds is the slice of one document      *)
(* because the relay numbers its documents itself (LogGrows).              *)
(***************************************************************************)
EXTENDS OrgSync, TLAPS

-----------------------------------------------------------------------------
(* Visibility.                                                             *)

(* walk_ancestors: the lineage of a node holds the node, the parent of     *)
(* each of its members and the root, and apart from the node itself is the *)
(* lineage of its parent.                                                  *)
LEMMA LineageFacts ==
    ASSUME NEW n \in Nodes
    PROVE  /\ Lineage[n] \subseteq Nodes /\ n \in Lineage[n]
           /\ Rising(Lineage[n]) /\ Root \in Lineage[n]
           /\ \A m \in Lineage[n] : m # n => m \in Lineage[Parent[n]]
<1> DEFINE Line(k) == {m \in Nodes : \A S \in SUBSET Nodes : k \in S /\ Rising(S) => m \in S}
<1>1. Parent[n] \in Nodes /\ \A k \in Nodes : Parent[k] \in Nodes
  BY OrgAssumption
<1>2. \A k \in Nodes : Lineage[k] = Line(k)
  BY DEF Lineage
<1>3. Line(n) \subseteq Nodes /\ n \in Line(n)
  OBVIOUS
<1>4. ASSUME NEW m \in Line(n)
      PROVE  Parent[m] \in Line(n)
  BY <1>1, <1>4 DEF Rising
<1>5. Rising(Line(n))
  BY <1>4 DEF Rising
<1>6. Root \in Line(n)
  BY <1>3, <1>5, OrgAssumption
<1>7. ASSUME NEW m \in Line(n), m # n, NEW S \in SUBSET Nodes, Parent[n] \in S, Rising(S)
      PROVE  m \in S
  <2>1. Rising(S \union {n})
    BY <1>7 DEF Rising
  <2> QED BY <1>7, <2>1
<1>8. \A m \in Line(n) : m # n => m \in Line(Parent[n])
  BY <1>7
<1> QED BY <1>1, <1>2, <1>3, <1>5, <1>6, <1>8

(* What a seed sees without links holds the parent of each of its nodes,   *)
(* and the root.                                                           *)
LEMMA KinRises ==
    ASSUME NEW N \in SUBSET Nodes, Rising(N), Root \in N, NEW seeds \in SUBSET N
    PROVE  /\ Rising(Kin(N, seeds)) /\ Kin(N, seeds) \subseteq N
           /\ seeds # {} => Root \in Kin(N, seeds)
<1>1. ASSUME NEW n \in Kin(N, seeds)
      PROVE  Parent[n] \in Kin(N, seeds)
  <2>1. PICK m \in seeds : \/ n \in Lineage[m] \/ m \in Lineage[n]
                           \/ m # Root /\ n \in ChildrenIn(N, Parent[m])
    BY <1>1 DEF Kin
  <2>2. n \in N /\ Parent[n] \in N /\ m \in N
    BY <1>1 DEF Kin, Rising
  <2>3. CASE n \in Lineage[m]
    <3>1. Parent[n] \in Lineage[m]
      BY <2>2, <2>3, LineageFacts DEF Rising
    <3> QED BY <2>2, <3>1 DEF Kin
  <2>4. CASE m \in Lineage[n] /\ m = n
    <3>1. Parent[n] \in Lineage[m]
      BY <2>2, <2>4, LineageFacts DEF Rising
    <3> QED BY <2>2, <3>1 DEF Kin
  <2>5. CASE m \in Lineage[n] /\ m # n
    <3>1. m \in Lineage[Parent[n]]
      BY <2>2, <2>5, LineageFacts
    <3> QED BY <2>2, <3>1 DEF Kin
  <2>6. CASE m # Root /\ n \in ChildrenIn(N, Parent[m])
    <3>1. Parent[n] = Parent[m]
      BY <2>6 DEF ChildrenIn
    <3>2. Parent[n] \in Lineage[m]
      BY <2>2, <3>1, LineageFacts DEF Rising
    <3> QED BY <2>2, <3>2 DEF Kin
  <2> QED BY <2>1, <2>3, <2>4, <2>5, <2>6
<1>2. ASSUME NEW m \in seeds
      PROVE  Root \in Kin(N, seeds)
  <2>1. Root \in Lineage[m]
    BY LineageFacts
  <2> QED BY <2>1 DEF Kin
<1>3. Kin(N, seeds) \subseteq N
  BY DEF Kin
<1> QED BY <1>1, <1>2, <1>3 DEF Rising

(* visible_from_maps: whatever links are followed, what is visible holds   *)
(* the parent of each of its nodes, and the root.                          *)
LEMMA VisibleRises ==
    ASSUME NEW N \in SUBSET Nodes, Rising(N), Root \in N, NEW seeds \in SUBSET N,
           seeds # {}, NEW L \in SUBSET SUBSET Nodes
    PROVE  /\ Rising(VisibleFrom(N, L, seeds))
           /\ Root \in VisibleFrom(N, L, seeds)
<1>1. PICK K \in SUBSET L : VisibleFrom(N, L, seeds) = Following(Kin(N, seeds), K)
  <2> DEFINE kin == Kin(N, seeds)
             Settled(K) == \A k \in L : k \intersect Following(kin, K) # {} => k \in K
             Least == {k \in L : \A K \in SUBSET L : Settled(K) => k \in K}
  <2>1. VisibleFrom(N, L, seeds) = Following(kin, Least)
    BY DEF VisibleFrom
  <2>2. Least \in SUBSET L
    OBVIOUS
  <2> QED BY <2>1, <2>2
<1>2. UNION K \subseteq Nodes
  OBVIOUS
<1>3. ASSUME NEW n \in Following(Kin(N, seeds), K)
      PROVE  Parent[n] \in Following(Kin(N, seeds), K)
  <2>1. CASE n \in Kin(N, seeds)
    BY <2>1, KinRises DEF Following, Rising
  <2>2. CASE n \notin Kin(N, seeds)
    <3>1. PICK m \in UNION K : n \in Lineage[m]
      BY <2>2, <1>3 DEF Following
    <3>2. Parent[n] \in Lineage[m]
      BY <3>1, <1>2, LineageFacts DEF Rising
    <3> QED BY <3>2 DEF Following
  <2> QED BY <2>1, <2>2
<1>4. Root \in Following(Kin(N, seeds), K)
  BY KinRises DEF Following
<1> QED BY <1>1, <1>3, <1>4 DEF Rising

(* A slice of a document is a document, of the same generation.            *)
LEMMA SliceTree ==
    ASSUME NEW t, IsTree(t), NEW fp
    PROVE  IsTree(Slice(t, fp)) /\ Slice(t, fp).gen = t.gen
<1> DEFINE V == VisibleFrom(DOMAIN t.nodes, t.links, Seeds(t, fp))
           N == DOMAIN t.nodes \intersect V
           rows == [n \in N |-> t.nodes[n]]
           W == {e \in t.white : e[1] \in V /\ e[2] \in V}
           L == {k \in t.links : k \subseteq V}
<1>1. Slice(t, fp) = Filter(t, V)
  BY DEF Slice
<1> HIDE DEF V
<1>2. Slice(t, fp) = [gen |-> t.gen, nodes |-> rows, white |-> W, links |-> L]
  BY <1>1 DEF Filter
<1>3. /\ DOMAIN rows = N /\ N \subseteq Nodes /\ rows \in [N -> NodeRecords]
      /\ \A n \in N : rows[n].fp = NoFp <=> n \notin Leaves
  BY DEF IsTree
<1>4. W \subseteq Edges /\ L \subseteq SUBSET Nodes /\ t.gen \in Nat
  BY DEF IsTree
<1> HIDE DEF N, rows, W, L
<1> QED BY <1>2, <1>3, <1>4 DEF IsTree

(* slice_for_fingerprint: a slice of a valid document, for a key that the  *)
(* document names, is valid.                                               *)
LEMMA SliceValid ==
    ASSUME NEW t, IsTree(t), Valid(t), NEW fp, Seeds(t, fp) # {}
    PROVE  Valid(Slice(t, fp))
<1> DEFINE V == VisibleFrom(DOMAIN t.nodes, t.links, Seeds(t, fp))
           N == DOMAIN t.nodes \intersect V
           rows == [n \in N |-> t.nodes[n]]
           W == {e \in t.white : e[1] \in V /\ e[2] \in V}
           L == {k \in t.links : k \subseteq V}
<1>1. Slice(t, fp) = Filter(t, V)
  BY DEF Slice
<1>2. Rising(V) /\ Root \in V
  <2>1. DOMAIN t.nodes \in SUBSET Nodes /\ t.links \in SUBSET SUBSET Nodes
    BY DEF IsTree
  <2>2. Rising(DOMAIN t.nodes) /\ Root \in DOMAIN t.nodes
    BY DEF Valid, Rising
  <2>3. Seeds(t, fp) \in SUBSET DOMAIN t.nodes
    BY DEF Seeds
  <2> QED BY <2>1, <2>2, <2>3, VisibleRises
<1> HIDE DEF V
<1>3. Slice(t, fp) = [gen |-> t.gen, nodes |-> rows, white |-> W, links |-> L]
  BY <1>1 DEF Filter
<1>4. DOMAIN rows = N
  OBVIOUS
<1>5. Root \in N /\ \A n \in N : Parent[n] \in N
  BY <1>2 DEF Valid, Rising
<1>6. \A e \in W : e[1] # e[2] /\ e[1] \in N /\ e[2] \in N
  BY DEF Valid
<1>7. ASSUME NEW k \in L
      PROVE  k \subseteq N /\ Whitelisted(k, W)
  <2>1. k \in t.links /\ k \subseteq V
    OBVIOUS
  <2>2. k \subseteq DOMAIN t.nodes /\ Whitelisted(k, t.white)
    BY <2>1 DEF Valid
  <2>3. PICK e \in t.white : {e[1], e[2]} = k
    BY <2>2 DEF Whitelisted
  <2>4. e \in W
    BY <2>1, <2>3
  <2> QED BY <2>1, <2>2, <2>3, <2>4 DEF Whitelisted
<1> HIDE DEF N, rows, W, L
<1> QED BY <1>3, <1>4, <1>5, <1>6, <1>7 DEF Valid

-----------------------------------------------------------------------------
(* The relay's document.                                                   *)

(* validate_public_tree does not look at the generation.                   *)
LEMMA Renumbered ==
    ASSUME NEW t, IsTree(t), NEW g \in Nat
    PROVE  /\ [t EXCEPT !.gen = g]
                = [gen |-> g, nodes |-> t.nodes, white |-> t.white, links |-> t.links]
           /\ IsTree([t EXCEPT !.gen = g])
           /\ Valid(t) => Valid([t EXCEPT !.gen = g])
<1>1. t = [gen |-> t.gen, nodes |-> t.nodes, white |-> t.white, links |-> t.links]
  BY DEF IsTree
<1>2. [t EXCEPT !.gen = g]
        = [gen |-> g, nodes |-> t.nodes, white |-> t.white, links |-> t.links]
  BY <1>1
<1>3. IsTree([t EXCEPT !.gen = g])
  BY <1>2 DEF IsTree
<1>4. Valid(t) => Valid([t EXCEPT !.gen = g])
  BY <1>2 DEF Valid
<1> QED BY <1>2, <1>3, <1>4

(* merge_into_existing: a merge of two trees is a tree.                    *)
LEMMA MergeTree ==
    ASSUME NEW d, IsTree(d), NEW t, IsTree(t)
    PROVE  IsTree(Merge(d, t))
<1> DEFINE N == DOMAIN t.nodes
           M == N \union DOMAIN d.nodes
           rows == [n \in M |-> IF n \in N THEN t.nodes[n] ELSE d.nodes[n]]
           W == t.white \union {e \in d.white : ~(e[1] \in N /\ e[2] \in N)}
           L == t.links \union {k \in d.links : ~(k \subseteq N)}
<1>1. Merge(d, t) = [gen |-> d.gen, nodes |-> rows, white |-> W, links |-> L]
  BY DEF Merge
<1>2. /\ DOMAIN rows = M /\ M \subseteq Nodes /\ rows \in [M -> NodeRecords]
      /\ \A n \in M : rows[n].fp = NoFp <=> n \notin Leaves
  BY DEF IsTree
<1>3. W \subseteq Edges /\ L \subseteq SUBSET Nodes /\ d.gen \in Nat
  BY DEF IsTree
<1> HIDE DEF M, rows, W, L
<1> QED BY <1>1, <1>2, <1>3 DEF IsTree

(* merge_into_existing: a merge of two valid trees is valid.  A link that  *)
(* stays has an end outside the sender's tree, and so has its whitelist    *)
(* row, which therefore stays too.                                         *)
LEMMA MergeValid ==
    ASSUME NEW d, IsTree(d), Valid(d), NEW t, IsTree(t), Valid(t)
    PROVE  Valid(Merge(d, t))
<1> DEFINE N == DOMAIN t.nodes
           M == N \union DOMAIN d.nodes
           rows == [n \in M |-> IF n \in N THEN t.nodes[n] ELSE d.nodes[n]]
           W == t.white \union {e \in d.white : ~(e[1] \in N /\ e[2] \in N)}
           L == t.links \union {k \in d.links : ~(k \subseteq N)}
<1>1. Merge(d, t) = [gen |-> d.gen, nodes |-> rows, white |-> W, links |-> L]
  BY DEF Merge
<1>2. DOMAIN rows = M
  OBVIOUS
<1>3. Root \in M /\ \A n \in M : Parent[n] \in M
  BY DEF Valid
<1>4. \A e \in W : e[1] # e[2] /\ e[1] \in M /\ e[2] \in M
  BY DEF Valid
<1>5. ASSUME NEW k \in L
      PROVE  k \subseteq M /\ Whitelisted(k, W)
  <2>1. CASE k \in t.links
    <3>1. k \subseteq N /\ Whitelisted(k, t.white)
      BY <2>1 DEF Valid
    <3> QED BY <3>1 DEF Whitelisted
  <2>2. CASE k \in d.links /\ ~(k \subseteq N)
    <3>1. k \subseteq DOMAIN d.nodes /\ Whitelisted(k, d.white)
      BY <2>2 DEF Valid
    <3>2. PICK e \in d.white : {e[1], e[2]} = k
      BY <3>1 DEF Whitelisted
    <3>3. e \in W
      BY <2>2, <3>2
    <3> QED BY <3>1, <3>2, <3>3 DEF Whitelisted
  <2> QED BY <1>5, <2>1, <2>2
<1> HIDE DEF M, rows, W, L
<1> QED BY <1>1, <1>2, <1>3, <1>4, <1>5 DEF Valid

(* persist_public_tree: the new document has a generation of its own, and  *)
(* is the last.                                                            *)
LEMMA LogGrows ==
    ASSUME NEW t, IsTree(t), Valid(t), Persist(t), IsTree(doc),
           \A u \in log : IsTree(u), LogNumbered
    PROVE  /\ doc' = [gen |-> doc.gen + 1, nodes |-> t.nodes, white |-> t.white,
                      links |-> t.links]
           /\ IsTree(doc') /\ DocumentValid' /\ LogNumbered'
           /\ \A u \in log' : IsTree(u)
           /\ log' = log \union {doc'}
           /\ \A u \in log : u.gen # doc'.gen
<1>1. doc.gen \in Nat /\ doc.gen + 1 \in Nat
  BY DEF IsTree
<1>2. doc' = [t EXCEPT !.gen = doc.gen + 1] /\ log' = log \union {doc'}
  BY DEF Persist
<1>3. /\ doc' = [gen |-> doc.gen + 1, nodes |-> t.nodes, white |-> t.white,
                 links |-> t.links]
      /\ IsTree(doc') /\ Valid(doc') /\ doc'.gen = doc.gen + 1
  BY <1>1, <1>2, Renumbered
<1>4. DocumentValid'
  BY <1>1, <1>3 DEF DocumentValid, Valid
<1>5. \A u \in log : u.gen \in Nat /\ u.gen > 0 /\ u.gen <= doc.gen /\ Valid(u)
  BY DEF LogNumbered, IsTree
<1>6. \A u \in log : u.gen # doc'.gen /\ u.gen <= doc'.gen
  BY <1>1, <1>3, <1>5
<1>7. \A u \in log' : u.gen > 0 /\ u.gen <= doc'.gen /\ Valid(u)
  <2>1. doc'.gen > 0 /\ doc'.gen <= doc'.gen /\ Valid(doc')
    BY <1>1, <1>3
  <2>2. \A u \in log' : u \in log \/ u = doc'
    BY <1>2
  <2> QED BY <1>5, <1>6, <2>1, <2>2
<1>8. \A u, v \in log' : u.gen = v.gen => u = v
  BY <1>2, <1>6 DEF LogNumbered
<1>9. LogNumbered'
  <2>1. doc' \in log'
    BY <1>2
  <2> QED BY <1>7, <1>8, <2>1 DEF LogNumbered, Valid
<1> QED BY <1>2, <1>3, <1>4, <1>6, <1>9

-----------------------------------------------------------------------------
(* The invariant in parts that steps change separately: what one store     *)
(* keeps, what is under way, and what the relay keeps.                     *)

Row(g, n, e, r, w, k) ==
    /\ IsTree([gen |-> g, nodes |-> n, white |-> w, links |-> k])
    /\ DOMAIN e \subseteq Leaves \intersect DOMAIN n /\ e \in [DOMAIN e -> Fps]
    /\ \A l \in DOMAIN e : e[l] = n[l].fp
    /\ r \subseteq Fps
    /\ \A x \in w : x[1] \in DOMAIN n
    /\ \A x \in k : x \subseteq DOMAIN n

Rows ==
    /\ gen = [s \in Stores |-> gen[s]] /\ nodes = [s \in Stores |-> nodes[s]]
    /\ sealed = [s \in Stores |-> sealed[s]] /\ revoked = [s \in Stores |-> revoked[s]]
    /\ white = [s \in Stores |-> white[s]] /\ links = [s \in Stores |-> links[s]]
    /\ \A s \in Stores :
          Row(gen[s], nodes[s], sealed[s], revoked[s], white[s], links[s])

Asked ==
    /\ out = [s \in Stores |-> out[s]] /\ \A s \in Stores : IsRequest(out[s])
    /\ \A q \in late : IsRequest(q)

Relay ==
    /\ IsTree(doc) /\ \A t \in log : IsTree(t)
    /\ DocumentValid /\ LogNumbered

Answers ==
    /\ inb = [s \in Stores |-> inb[s]] /\ \A s \in Stores : \A t \in inb[s] : IsTree(t)
    /\ AnswersAreSlices

LEMMA Parts ==
    IInv <=> /\ Rows /\ Asked /\ Relay /\ Answers
             /\ ReaderHoldsOneGeneration /\ edits \in 0..MaxEdits
<1>1. ASSUME IInv
      PROVE  Rows
  <2>1. ASSUME NEW s \in Stores
        PROVE  Row(gen[s], nodes[s], sealed[s], revoked[s], white[s], links[s])
    BY <1>1 DEF IInv, TypeOK, ShareFitsKey, Row
  <2>2. /\ gen = [s \in Stores |-> gen[s]] /\ revoked = [s \in Stores |-> revoked[s]]
        /\ white = [s \in Stores |-> white[s]] /\ links = [s \in Stores |-> links[s]]
    BY <1>1 DEF IInv, TypeOK
  <2>3. nodes = [s \in Stores |-> nodes[s]] /\ sealed = [s \in Stores |-> sealed[s]]
    BY <1>1 DEF IInv, TypeOK
  <2> QED BY <2>1, <2>2, <2>3 DEF Rows
<1>2. ASSUME IInv
      PROVE  /\ Asked /\ Relay /\ Answers
             /\ ReaderHoldsOneGeneration /\ edits \in 0..MaxEdits
  BY <1>2 DEF IInv, TypeOK, Asked, Relay, Answers
<1>3. ASSUME Rows, Asked, Relay, Answers, ReaderHoldsOneGeneration,
             edits \in 0..MaxEdits
      PROVE  IInv
  <2>1. \A s \in Stores :
          /\ IsTree([gen |-> gen[s], nodes |-> nodes[s], white |-> white[s],
                     links |-> links[s]])
          /\ DOMAIN sealed[s] \subseteq Leaves \intersect DOMAIN nodes[s]
          /\ sealed[s] \in [DOMAIN sealed[s] -> Fps]
          /\ \A l \in DOMAIN sealed[s] : sealed[s][l] = nodes[s][l].fp
          /\ revoked[s] \subseteq Fps
          /\ \A x \in white[s] : x[1] \in DOMAIN nodes[s]
          /\ \A x \in links[s] : x \subseteq DOMAIN nodes[s]
    BY <1>3 DEF Rows, Row
  <2>2. \A s \in Stores : /\ gen[s] \in Nat /\ white[s] \in SUBSET Edges
                          /\ links[s] \in SUBSET SUBSET Nodes
    BY <2>1 DEF IsTree
  <2>3. /\ gen \in [Stores -> Nat] /\ white \in [Stores -> SUBSET Edges]
        /\ links \in [Stores -> SUBSET SUBSET Nodes]
        /\ revoked \in [Stores -> SUBSET Fps]
    BY <1>3, <2>1, <2>2 DEF Rows
  <2>4. nodes = [s \in Stores |-> nodes[s]] /\ sealed = [s \in Stores |-> sealed[s]]
    BY <1>3 DEF Rows
  <2>5. TypeOK
    BY <1>3, <2>1, <2>3, <2>4 DEF TypeOK, Asked, Relay, Answers
  <2>6. ShareFitsKey
    BY <2>1 DEF ShareFitsKey
  <2> QED BY <1>3, <2>5, <2>6 DEF IInv, Relay, Answers
<1> QED BY <1>1, <1>2, <1>3

LEMMA PartsNext ==
    ASSUME Rows', Asked', Relay', Answers', ReaderHoldsOneGeneration',
           edits' \in 0..MaxEdits
    PROVE  IInv'
<1>1. \A s \in Stores :
          /\ IsTree([gen |-> gen'[s], nodes |-> nodes'[s], white |-> white'[s],
                     links |-> links'[s]])
          /\ DOMAIN sealed'[s] \subseteq Leaves \intersect DOMAIN nodes'[s]
          /\ sealed'[s] \in [DOMAIN sealed'[s] -> Fps]
          /\ \A l \in DOMAIN sealed'[s] : sealed'[s][l] = nodes'[s][l].fp
          /\ revoked'[s] \subseteq Fps
          /\ \A x \in white'[s] : x[1] \in DOMAIN nodes'[s]
          /\ \A x \in links'[s] : x \subseteq DOMAIN nodes'[s]
  BY DEF Rows, Row
<1>2. \A s \in Stores : /\ gen'[s] \in Nat /\ white'[s] \in SUBSET Edges
                        /\ links'[s] \in SUBSET SUBSET Nodes
  BY <1>1 DEF IsTree
<1>3. /\ gen' \in [Stores -> Nat] /\ white' \in [Stores -> SUBSET Edges]
      /\ links' \in [Stores -> SUBSET SUBSET Nodes]
      /\ revoked' \in [Stores -> SUBSET Fps]
  BY <1>1, <1>2 DEF Rows
<1>4. nodes' = [s \in Stores |-> nodes'[s]] /\ sealed' = [s \in Stores |-> sealed'[s]]
  BY DEF Rows
<1>5. TypeOK'
  BY <1>1, <1>3, <1>4 DEF TypeOK, Asked, Relay, Answers
<1>6. ShareFitsKey'
  BY <1>1 DEF ShareFitsKey
<1> QED BY <1>5, <1>6 DEF IInv, Relay, Answers

(* A step that gives one store the row (g, n, e, r, w, k) and leaves the   *)
(* other stores alone.                                                     *)
LEMMA RowStep ==
    ASSUME Rows, NEW s \in Stores, NEW g, NEW n, NEW e, NEW r, NEW w, NEW k,
           Row(g, n, e, r, w, k),
           gen' = [gen EXCEPT ![s] = g], nodes' = [nodes EXCEPT ![s] = n],
           sealed' = [sealed EXCEPT ![s] = e], revoked' = [revoked EXCEPT ![s] = r],
           white' = [white EXCEPT ![s] = w], links' = [links EXCEPT ![s] = k]
    PROVE  Rows'
<1>1. /\ gen' = [x \in Stores |-> gen'[x]] /\ gen'[s] = g
      /\ \A x \in Stores \ {s} : gen'[x] = gen[x]
  BY DEF Rows
<1>2. /\ nodes' = [x \in Stores |-> nodes'[x]] /\ nodes'[s] = n
      /\ \A x \in Stores \ {s} : nodes'[x] = nodes[x]
  BY DEF Rows
<1>3. /\ sealed' = [x \in Stores |-> sealed'[x]] /\ sealed'[s] = e
      /\ \A x \in Stores \ {s} : sealed'[x] = sealed[x]
  BY DEF Rows
<1>4. /\ revoked' = [x \in Stores |-> revoked'[x]] /\ revoked'[s] = r
      /\ \A x \in Stores \ {s} : revoked'[x] = revoked[x]
  BY DEF Rows
<1>5. /\ white' = [x \in Stores |-> white'[x]] /\ white'[s] = w
      /\ \A x \in Stores \ {s} : white'[x] = white[x]
  BY DEF Rows
<1>6. /\ links' = [x \in Stores |-> links'[x]] /\ links'[s] = k
      /\ \A x \in Stores \ {s} : links'[x] = links[x]
  BY DEF Rows
<1>7. ASSUME NEW x \in Stores
      PROVE  Row(gen'[x], nodes'[x], sealed'[x], revoked'[x], white'[x], links'[x])
  <2>1. CASE x = s
    BY <2>1, <1>1, <1>2, <1>3, <1>4, <1>5, <1>6
  <2>2. CASE x # s
    <3>1. Row(gen[x], nodes[x], sealed[x], revoked[x], white[x], links[x])
      BY DEF Rows
    <3> QED BY <2>2, <3>1, <1>1, <1>2, <1>3, <1>4, <1>5, <1>6
  <2> QED BY <2>1, <2>2
<1>8. \A x \in Stores :
        Row(gen'[x], nodes'[x], sealed'[x], revoked'[x], white'[x], links'[x])
  BY <1>7
<1> HIDE DEF Row
<1> QED BY <1>1, <1>2, <1>3, <1>4, <1>5, <1>6, <1>8 DEF Rows, Row

(* What a reader holds is its slice still, after a step that leaves its    *)
(* rows alone and adds at most a document with a generation of its own.    *)
LEMMA ReaderStays ==
    ASSUME ReaderHoldsOneGeneration,
           \A s \in Pullers \ Editors : /\ gen'[s] = gen[s] /\ nodes'[s] = nodes[s]
                                        /\ links'[s] = links[s],
           \/ log' = log
           \/ log' = log \union {doc'} /\ \A u \in log : u.gen # doc'.gen
    PROVE  ReaderHoldsOneGeneration'
<1> SUFFICES ASSUME NEW s \in Pullers \ Editors, gen'[s] > 0
             PROVE  /\ \E t \in log' : t.gen = gen'[s]
                    /\ \A t \in log' : t.gen = gen'[s] =>
                          /\ nodes'[s] = Slice(t, PullFp[s]).nodes
                          /\ links'[s] = Slice(t, PullFp[s]).links
  BY DEF ReaderHoldsOneGeneration
<1>1. PICK t \in log : t.gen = gen[s]
  BY DEF ReaderHoldsOneGeneration
<1>2. t \in log' /\ t.gen = gen'[s]
  BY <1>1
<1>3. ASSUME NEW u \in log', u.gen = gen'[s]
      PROVE  u \in log
  BY <1>1, <1>3
<1>4. \A u \in log : u.gen = gen[s] =>
        nodes[s] = Slice(u, PullFp[s]).nodes /\ links[s] = Slice(u, PullFp[s]).links
  BY DEF ReaderHoldsOneGeneration
<1> QED BY <1>2, <1>3, <1>4

(* A step that leaves every store alone.                                   *)
LEMMA RowsStay ==
    ASSUME UNCHANGED rowVars
    PROVE  /\ Rows => Rows'
           /\ ReaderHoldsOneGeneration /\ UNCHANGED log => ReaderHoldsOneGeneration'
BY DEF rowVars, Rows, Row, ReaderHoldsOneGeneration

(* A step that adds at most a document and delivers nothing.               *)
LEMMA AnswersStay ==
    ASSUME Answers, UNCHANGED inb, log \subseteq log'
    PROVE  Answers'
BY DEF Answers, AnswersAreSlices

LEMMA RelayStays ==
    ASSUME Relay, UNCHANGED <<doc, log>>
    PROVE  Relay'
BY DEF Relay, DocumentValid, LogNumbered, Valid

(* export_public_tree: what a store sends is a tree.                       *)
LEMMA ExportTree ==
    ASSUME Rows, NEW s \in Stores
    PROVE  IsTree(Export(s))
BY DEF Rows, Row, Export

LEMMA NoPushRequest == IsRequest(NoPush)
<1>1. IsTree(NoTree)
  BY DEF NoTree, IsTree
<1>2. /\ NoPush = [how |-> NoPush.how, tree |-> NoPush.tree]
      /\ NoPush.how = "none" /\ NoPush.tree = NoTree
  BY DEF NoPush
<1> QED BY <1>1, <1>2 DEF IsRequest

(* A step in which one command asks q, or has its answer.                  *)
LEMMA AskedStep ==
    ASSUME Asked, NEW s \in Stores, NEW q, IsRequest(q),
           out' = [out EXCEPT ![s] = q], late' \subseteq late \union {out[s]}
    PROVE  Asked'
<1>1. out' = [x \in Stores |-> out'[x]] /\ \A x \in Stores : IsRequest(out'[x])
  BY DEF Asked
<1>2. \A p \in late' : IsRequest(p)
  BY DEF Asked
<1> QED BY <1>1, <1>2 DEF Asked

-----------------------------------------------------------------------------
(* What the relay does with a request.                                     *)

LEMMA MergedTree ==
    ASSUME Relay, NEW t, IsTree(t)
    PROVE  IsTree(MergePublicTree(t)) /\ (Valid(t) => Valid(MergePublicTree(t)))
<1>1. CASE doc.gen = 0
  BY <1>1 DEF MergePublicTree
<1>2. CASE doc.gen # 0
  <2>1. Valid(doc) /\ IsTree(doc)
    BY <1>2 DEF Relay, DocumentValid, NoTree
  <2> QED BY <1>2, <2>1, MergeTree, MergeValid DEF MergePublicTree
<1> QED BY <1>1, <1>2

LEMMA RequestStep ==
    ASSUME Relay, NEW q, IsRequest(q), MergeRequest(q) \/ PutRequest(q)
    PROVE  /\ Relay' /\ log \subseteq log'
           /\ log' = log \union {doc'} /\ \A u \in log : u.gen # doc'.gen
<1>1. PICK t : IsTree(t) /\ Valid(t) /\ Persist(t)
  <2>1. CASE MergeRequest(q)
    <3>1. /\ IsTree(MergePublicTree(q.tree)) /\ Valid(MergePublicTree(q.tree))
          /\ Persist(MergePublicTree(q.tree))
      BY <2>1, MergedTree DEF MergeRequest, IsRequest
    <3> HIDE DEF MergePublicTree, IsTree, Valid, Persist
    <3> QED BY <3>1
  <2>2. CASE PutRequest(q)
    BY <2>2 DEF PutRequest, IsRequest
  <2> QED BY <2>1, <2>2
<1>2. IsTree(doc) /\ (\A u \in log : IsTree(u)) /\ LogNumbered
  BY DEF Relay
<1>3. /\ IsTree(doc') /\ DocumentValid' /\ LogNumbered'
      /\ \A u \in log' : IsTree(u)
      /\ log' = log \union {doc'}
      /\ \A u \in log : u.gen # doc'.gen
  BY <1>1, <1>2, LogGrows
<1> QED BY <1>3 DEF Relay

(* relay push and tree publish keep the invariant, lost, late or answered. *)
LEMMA PushStep ==
    ASSUME IInv, NEW s \in Stores, Push(s)
    PROVE  IInv'
<1> USE Parts
<1>1. CASE StartPush(s) \/ StartPublish(s)
  <2>1. /\ UNCHANGED rowVars /\ UNCHANGED <<doc, log>> /\ UNCHANGED inb
        /\ UNCHANGED edits /\ UNCHANGED late /\ UNCHANGED log
    BY <1>1 DEF StartPush, StartPublish
  <2>2. PICK how \in {"merge", "put"} :
          out' = [out EXCEPT ![s] = [how |-> how, tree |-> Export(s)]]
    BY <1>1 DEF StartPush, StartPublish
  <2>3. IsRequest([how |-> how, tree |-> Export(s)])
    BY ExportTree DEF IsRequest
  <2>4. Asked'
    BY <2>1, <2>2, <2>3, AskedStep
  <2>5. Rows' /\ ReaderHoldsOneGeneration' /\ Relay' /\ Answers'
    BY <2>1, RowsStay, RelayStays, AnswersStay
  <2> QED BY <2>1, <2>4, <2>5, PartsNext
<1>2. CASE PostInbox(s) \/ PutTree(s)
  <2>1. /\ UNCHANGED rowVars /\ UNCHANGED inb /\ UNCHANGED edits /\ UNCHANGED late
        /\ out' = [out EXCEPT ![s] = NoPush]
        /\ MergeRequest(out[s]) \/ PutRequest(out[s])
    BY <1>2 DEF PostInbox, PutTree, Answered
  <2>2. IsRequest(out[s])
    BY DEF Asked
  <2>3. /\ Relay' /\ log \subseteq log'
        /\ log' = log \union {doc'} /\ \A u \in log : u.gen # doc'.gen
    BY <2>1, <2>2, RequestStep
  <2>4. Asked'
    BY <2>1, NoPushRequest, AskedStep
  <2>5. Rows' /\ Answers'
    BY <2>1, <2>3, RowsStay, AnswersStay
  <2>6. ReaderHoldsOneGeneration'
    BY <2>1, <2>3, ReaderStays DEF rowVars
  <2> QED BY <2>1, <2>3, <2>4, <2>5, <2>6, PartsNext
<1>3. CASE PushFails(s) \/ PushTimesOut(s)
  <2>1. /\ UNCHANGED rowVars /\ UNCHANGED <<doc, log>> /\ UNCHANGED inb
        /\ UNCHANGED edits /\ late' \subseteq late \union {out[s]} /\ UNCHANGED log
        /\ out' = [out EXCEPT ![s] = NoPush]
    BY <1>3 DEF PushFails, PushTimesOut
  <2>2. Asked'
    BY <2>1, NoPushRequest, AskedStep
  <2>3. Rows' /\ ReaderHoldsOneGeneration' /\ Relay' /\ Answers'
    BY <2>1, RowsStay, RelayStays, AnswersStay
  <2> QED BY <2>1, <2>2, <2>3, PartsNext
<1> QED BY <1>1, <1>2, <1>3 DEF Push

(* So does a request that the relay gets to after its client left.         *)
LEMMA LateStep ==
    ASSUME IInv, NEW q \in late, LateRequest(q)
    PROVE  IInv'
<1> USE Parts
<1>1. /\ UNCHANGED rowVars /\ UNCHANGED inb /\ UNCHANGED edits /\ UNCHANGED out
      /\ late' = late \ {q} /\ (MergeRequest(q) \/ PutRequest(q))
  BY DEF LateRequest
<1>2. IsRequest(q)
  BY DEF Asked
<1>3. /\ Relay' /\ log \subseteq log'
      /\ log' = log \union {doc'} /\ \A u \in log : u.gen # doc'.gen
  BY <1>1, <1>2, RequestStep
<1>4. Asked'
  BY <1>1 DEF Asked
<1>5. Rows' /\ Answers'
  BY <1>1, <1>3, RowsStay, AnswersStay
<1>6. ReaderHoldsOneGeneration'
  BY <1>1, <1>3, ReaderStays DEF rowVars
<1> QED BY <1>1, <1>3, <1>4, <1>5, <1>6, PartsNext

-----------------------------------------------------------------------------
(* relay pull and tree fetch.                                              *)

(* get_inbox: what the relay answers is a slice of its document.           *)
LEMMA GetSliceStep ==
    ASSUME IInv, NEW s \in Stores, GetSlice(s)
    PROVE  IInv'
<1> USE Parts
<1>1. /\ UNCHANGED rowVars /\ UNCHANGED <<doc, log>> /\ UNCHANGED out
      /\ UNCHANGED edits /\ UNCHANGED late /\ UNCHANGED log
      /\ s \in Pullers /\ doc.gen > 0 /\ Seeds(doc, PullFp[s]) # {}
      /\ inb' = [inb EXCEPT ![s] = inb[s] \union {Slice(doc, PullFp[s])}]
  BY DEF GetSlice
<1>2. Rows' /\ ReaderHoldsOneGeneration' /\ Relay'
  BY <1>1, RowsStay, RelayStays
<1>3. Asked'
  BY <1>1 DEF Asked
<1>4. doc \in log /\ IsTree(doc)
  BY <1>1 DEF Relay, LogNumbered
<1>5. IsTree(Slice(doc, PullFp[s]))
  BY <1>4, SliceTree
<1>6. /\ inb' = [x \in Stores |-> inb'[x]]
      /\ \A x \in Stores : \A a \in inb'[x] :
            a \in inb[x] \/ (x = s /\ a = Slice(doc, PullFp[s]))
  BY <1>1 DEF Answers
<1>7. \A x \in Stores : \A a \in inb'[x] : IsTree(a)
  BY <1>5, <1>6 DEF Answers
<1>8. ASSUME NEW x \in Stores, NEW a \in inb'[x]
      PROVE  x \in Pullers /\ \E t \in log' : Seeds(t, PullFp[x]) # {} /\ a = Slice(t, PullFp[x])
  <2>1. CASE a \in inb[x]
    BY <1>1, <2>1 DEF Answers, AnswersAreSlices
  <2>2. CASE x = s /\ a = Slice(doc, PullFp[s])
    BY <1>1, <1>4, <2>2
  <2> QED BY <1>6, <2>1, <2>2
<1>9. Answers'
  BY <1>6, <1>7, <1>8 DEF Answers, AnswersAreSlices
<1> QED BY <1>1, <1>2, <1>3, <1>9, PartsNext

(* An answer leaves the network, applied or not.                           *)
LEMMA AnswerTaken ==
    ASSUME Answers, NEW s \in Stores, NEW t, UNCHANGED log,
           inb' = [inb EXCEPT ![s] = inb[s] \ {t}]
    PROVE  Answers'
<1>1. /\ inb' = [x \in Stores |-> inb'[x]]
      /\ \A x \in Stores : inb'[x] \subseteq inb[x]
  BY DEF Answers
<1>2. \A x \in Stores : \A a \in inb'[x] : IsTree(a)
  BY <1>1 DEF Answers
<1>3. AnswersAreSlices'
  BY <1>1 DEF Answers, AnswersAreSlices
<1> QED BY <1>1, <1>2, <1>3 DEF Answers

LEMMA PullFailsStep ==
    ASSUME IInv, NEW s \in Stores, NEW t \in inb[s], PullFails(s, t)
    PROVE  IInv'
<1> USE Parts
<1>1. /\ UNCHANGED rowVars /\ UNCHANGED <<doc, log>> /\ UNCHANGED out
      /\ UNCHANGED edits /\ UNCHANGED late /\ UNCHANGED log
      /\ inb' = [inb EXCEPT ![s] = inb[s] \ {t}]
  BY DEF PullFails
<1>2. Rows' /\ ReaderHoldsOneGeneration' /\ Relay' /\ Answers'
  BY <1>1, RowsStay, RelayStays, AnswerTaken
<1>3. Asked'
  BY <1>1 DEF Asked
<1> QED BY <1>1, <1>2, <1>3, PartsNext

(* apply_public_tree: the shares that stay fit the keys of the slice, and  *)
(* what stays of the whitelist belongs to a row of the slice.              *)
LEMMA PullStep ==
    ASSUME IInv, NEW s \in Stores, NEW t \in inb[s], Pull(s, t)
    PROVE  IInv'
<1> USE Parts
<1> DEFINE N == DOMAIN t.nodes
           e == KeptShares(s, t)
           w == t.white \union {x \in white[s] : x[1] \in N /\ x[2] \notin N}
<1>1. /\ Valid(t) /\ UNCHANGED revoked /\ UNCHANGED <<doc, log>> /\ UNCHANGED log
      /\ UNCHANGED out /\ UNCHANGED edits /\ UNCHANGED late
      /\ gen' = [gen EXCEPT ![s] = t.gen] /\ nodes' = [nodes EXCEPT ![s] = t.nodes]
      /\ sealed' = [sealed EXCEPT ![s] = e]
      /\ white' = [white EXCEPT ![s] = w] /\ links' = [links EXCEPT ![s] = t.links]
      /\ inb' = [inb EXCEPT ![s] = inb[s] \ {t}]
  BY DEF Pull, ApplyTree
<1>2. IsTree(t)
  BY DEF Answers
<1>3. Row(gen[s], nodes[s], sealed[s], revoked[s], white[s], links[s])
  BY DEF Rows
<1>4. Row(t.gen, t.nodes, e, revoked[s], w, t.links)
  <2>1. IsTree([gen |-> t.gen, nodes |-> t.nodes, white |-> w, links |-> t.links])
    BY <1>2, <1>3 DEF IsTree, Row
  <2>2. /\ DOMAIN e \subseteq Leaves \intersect DOMAIN t.nodes /\ e \in [DOMAIN e -> Fps]
        /\ \A l \in DOMAIN e : e[l] = t.nodes[l].fp
    BY <1>3 DEF KeptShares, Row
  <2>3. (\A x \in w : x[1] \in N) /\ (\A x \in t.links : x \subseteq N)
    BY <1>1 DEF Valid
  <2> HIDE DEF e, w
  <2> QED BY <1>3, <2>1, <2>2, <2>3 DEF Row
<1>5. revoked' = [revoked EXCEPT ![s] = revoked[s]]
  BY <1>1 DEF Rows
<1>6. Rows'
  <2> HIDE DEF e, w, N
  <2> QED BY <1>1, <1>4, <1>5, RowStep
<1>7. Relay' /\ Answers'
  BY <1>1, RelayStays, AnswerTaken
<1>8. Asked'
  BY <1>1 DEF Asked
<1>9. ReaderHoldsOneGeneration'
  <2> SUFFICES ASSUME NEW p \in Pullers \ Editors, gen'[p] > 0
               PROVE  /\ \E d \in log' : d.gen = gen'[p]
                      /\ \A d \in log' : d.gen = gen'[p] =>
                            /\ nodes'[p] = Slice(d, PullFp[p]).nodes
                            /\ links'[p] = Slice(d, PullFp[p]).links
    BY DEF ReaderHoldsOneGeneration
  <2>1. p \in Stores
    BY OrgAssumption
  <2>2. CASE p # s
    <3>1. gen'[p] = gen[p] /\ nodes'[p] = nodes[p] /\ links'[p] = links[p]
      BY <1>1, <2>1, <2>2 DEF Rows
    <3> QED BY <1>1, <3>1 DEF ReaderHoldsOneGeneration
  <2>3. CASE p = s
    <3>1. gen'[p] = t.gen /\ nodes'[p] = t.nodes /\ links'[p] = t.links
      BY <1>1, <2>3 DEF Rows
    <3>2. PICK d \in log : t = Slice(d, PullFp[p])
      BY <2>3 DEF Answers, AnswersAreSlices
    <3>3. t.gen = d.gen
      BY <3>2, SliceTree DEF Relay
    <3>4. \A u \in log' : u.gen = gen'[p] => u = d
      BY <1>1, <3>1, <3>3 DEF Relay, LogNumbered
    <3> QED BY <1>1, <3>1, <3>2, <3>3, <3>4
  <2> QED BY <2>2, <2>3
<1> QED BY <1>1, <1>6, <1>7, <1>8, <1>9, PartsNext

-----------------------------------------------------------------------------
(* Tree commands on an editor's store.                                     *)

LEMMA LocalStep ==
    ASSUME IInv, NEW s \in Stores, Edit(s), UNCHANGED <<netVars, doc, log>>,
           NEW n, NEW e, NEW r, NEW w, NEW k, Row(gen[s], n, e, r, w, k),
           UNCHANGED gen, nodes' = [nodes EXCEPT ![s] = n],
           sealed' = [sealed EXCEPT ![s] = e], revoked' = [revoked EXCEPT ![s] = r],
           white' = [white EXCEPT ![s] = w], links' = [links EXCEPT ![s] = k]
    PROVE  IInv'
<1> USE Parts
<1>1. gen' = [gen EXCEPT ![s] = gen[s]]
  BY DEF Rows
<1>2. Rows'
  BY <1>1, RowStep
<1>3. Asked' /\ Relay' /\ Answers'
  <2>1. UNCHANGED <<doc, log>> /\ UNCHANGED inb /\ log \subseteq log'
    BY DEF netVars
  <2>2. Asked'
    BY DEF Asked, netVars
  <2> QED BY <2>1, <2>2, RelayStays, AnswersStay
<1>4. ReaderHoldsOneGeneration'
  <2>1. ASSUME NEW p \in Pullers \ Editors
        PROVE  gen'[p] = gen[p] /\ nodes'[p] = nodes[p] /\ links'[p] = links[p]
    <3>1. p \in Stores /\ p # s
      BY OrgAssumption DEF Edit
    <3> QED BY <3>1 DEF Rows
  <2>2. log' = log
    OBVIOUS
  <2> QED BY <2>1, <2>2, ReaderStays
<1>5. edits' \in 0..MaxEdits
  BY OrgAssumption DEF Edit
<1> QED BY <1>2, <1>3, <1>4, <1>5, PartsNext

(* add: the new leaf and the siblings dealt to anew hold shares sealed to  *)
(* their keys.                                                             *)
LEMMA AddLeafStep ==
    ASSUME IInv, NEW s \in Stores, NEW l \in Leaves, AddLeaf(s, l)
    PROVE  IInv'
<1> USE Parts
<1> DEFINE peers == Siblings(s, l)
           N == DOMAIN nodes[s] \union {l}
           n == [m \in N |-> IF m = l THEN FirstNode(l) ELSE nodes[s][m]]
           E == DOMAIN sealed[s] \union {l} \union peers
           e == [m \in E |-> IF m \in peers \union {l} THEN n[m].fp ELSE sealed[s][m]]
           w == white[s] \union ({l} \X peers) \union (peers \X {l})
           k == links[s] \union {{l, m} : m \in peers}
<1>1. nodes' = [nodes EXCEPT ![s] = n] /\ nodes'[s] = n
  BY DEF AddLeaf, Rows
<1>2. sealed' = [sealed EXCEPT ![s] = e]
  BY <1>1 DEF AddLeaf, Rows
<1>3. /\ white' = [white EXCEPT ![s] = w] /\ links' = [links EXCEPT ![s] = k]
      /\ Edit(s) /\ UNCHANGED <<netVars, doc, log>> /\ UNCHANGED gen
      /\ l \notin DOMAIN nodes[s]
  BY DEF AddLeaf
<1>4. revoked' = [revoked EXCEPT ![s] = revoked[s]]
  BY DEF AddLeaf, Rows
<1>5. Row(gen[s], nodes[s], sealed[s], revoked[s], white[s], links[s])
  BY DEF Rows
<1>6. peers \subseteq DOMAIN nodes[s] /\ peers \subseteq Leaves
  BY DEF AddLeaf, Siblings, SiblingsUsable, ChildrenIn
<1>7. /\ l \in Nodes /\ FirstNode(l) \in NodeRecords
      /\ FirstNode(l).fp \in Fps /\ FirstNode(l).fp # NoFp
  BY OrgAssumption DEF FirstNode, NodeRecords
<1>8. /\ DOMAIN n = N /\ N \subseteq Nodes /\ n \in [N -> NodeRecords]
      /\ \A m \in N : n[m].fp = NoFp <=> m \notin Leaves
  BY <1>5, <1>7 DEF Row, IsTree
<1>9. /\ DOMAIN e = E /\ E \subseteq Leaves \intersect N
      /\ \A m \in E : e[m] = n[m].fp
  BY <1>3, <1>5, <1>6 DEF Row
<1>10. \A m \in E : e[m] \in Fps
  BY <1>8, <1>9 DEF NodeRecords
<1>11. e \in [DOMAIN e -> Fps]
  BY <1>9, <1>10
<1>12. w \subseteq Edges /\ (\A x \in w : x[1] \in N)
  BY <1>5, <1>6, <1>8 DEF Row, IsTree, Edges
<1>13. k \subseteq SUBSET Nodes /\ (\A x \in k : x \subseteq N)
  BY <1>5, <1>6, <1>8 DEF Row, IsTree
<1> HIDE DEF n, e, w, k, E, N
<1>14. IsTree([gen |-> gen[s], nodes |-> n, white |-> w, links |-> k])
  BY <1>5, <1>8, <1>12, <1>13 DEF IsTree, Row
<1>15. Row(gen[s], n, e, revoked[s], w, k)
  BY <1>5, <1>8, <1>9, <1>11, <1>12, <1>13, <1>14 DEF Row
<1> QED BY <1>1, <1>2, <1>3, <1>4, <1>15, LocalStep

(* revoke --evict.                                                         *)
LEMMA EvictLeafStep ==
    ASSUME IInv, NEW s \in Stores, NEW l \in Leaves, EvictLeaf(s, l)
    PROVE  IInv'
<1> USE Parts
<1> DEFINE N == DOMAIN nodes[s]
           row == [nodes[s][l] EXCEPT !.active = FALSE]
           n == [nodes[s] EXCEPT ![l] = row]
           r == revoked[s] \union {nodes[s][l].fp}
           w == {x \in white[s] : l \notin {x[1], x[2]}}
           k == {x \in links[s] : l \notin x}
<1>1. nodes' = [nodes EXCEPT ![s] = n]
  BY Zenon DEF EvictLeaf
<1>2. /\ revoked' = [revoked EXCEPT ![s] = r] /\ white' = [white EXCEPT ![s] = w]
      /\ links' = [links EXCEPT ![s] = k] /\ Edit(s) /\ l \in DOMAIN nodes[s]
      /\ UNCHANGED <<netVars, doc, log>> /\ UNCHANGED gen
  BY DEF EvictLeaf
<1>3. sealed' = [sealed EXCEPT ![s] = sealed[s]]
  BY DEF EvictLeaf, Rows
<1>4. Row(gen[s], nodes[s], sealed[s], revoked[s], white[s], links[s])
  BY DEF Rows
<1>5. /\ nodes[s][l] \in NodeRecords /\ nodes[s][l].fp # NoFp
      /\ nodes[s] \in [N -> NodeRecords]
  BY <1>2, <1>4 DEF Row, IsTree
<1>6. row \in NodeRecords /\ row.fp = nodes[s][l].fp /\ row.fp \in Fps
  BY <1>5 DEF NodeRecords
<1> HIDE DEF row
<1>7. /\ DOMAIN n = N /\ n \in [N -> NodeRecords]
      /\ \A m \in N : n[m].fp = nodes[s][m].fp
  BY <1>5, <1>6
<1> HIDE DEF n
<1>8. IsTree([gen |-> gen[s], nodes |-> n, white |-> w, links |-> k])
  BY <1>4, <1>7 DEF IsTree, Row
<1>9. Row(gen[s], n, sealed[s], r, w, k)
  BY <1>4, <1>6, <1>7, <1>8 DEF Row
<1> HIDE DEF r, w, k
<1> QED BY <1>1, <1>2, <1>3, <1>9, LocalStep

(* bind --public-key-file.                                                 *)
LEMMA RebindLeafStep ==
    ASSUME IInv, NEW s \in Stores, NEW l \in Leaves, NEW fp \in Fps, RebindLeaf(s, l, fp)
    PROVE  IInv'
<1> USE Parts
<1> DEFINE N == DOMAIN nodes[s]
           row == [nodes[s][l] EXCEPT !.fp = fp]
           n == [nodes[s] EXCEPT ![l] = row]
           e == [sealed[s] EXCEPT ![l] = fp]
<1>1. nodes' = [nodes EXCEPT ![s] = n]
  BY Zenon DEF RebindLeaf
<1>2. sealed' = [sealed EXCEPT ![s] = e]
  BY Zenon DEF RebindLeaf
<1>3. /\ Edit(s) /\ l \in DOMAIN sealed[s]
      /\ UNCHANGED <<netVars, doc, log>> /\ UNCHANGED gen
  BY DEF RebindLeaf
<1>4. /\ revoked' = [revoked EXCEPT ![s] = revoked[s]]
      /\ white' = [white EXCEPT ![s] = white[s]]
      /\ links' = [links EXCEPT ![s] = links[s]]
  BY DEF RebindLeaf, Rows
<1>5. Row(gen[s], nodes[s], sealed[s], revoked[s], white[s], links[s])
  BY DEF Rows
<1>6. l \in N /\ nodes[s][l] \in NodeRecords /\ nodes[s] \in [N -> NodeRecords]
  BY <1>3, <1>5 DEF Row, IsTree
<1>7. row \in NodeRecords /\ row.fp = fp /\ fp # NoFp
  BY <1>6, OrgAssumption DEF NodeRecords
<1> HIDE DEF row
<1>8. /\ DOMAIN n = N /\ n \in [N -> NodeRecords] /\ n[l].fp = fp
      /\ \A m \in N \ {l} : n[m].fp = nodes[s][m].fp
  BY <1>6, <1>7
<1>9. /\ DOMAIN e = DOMAIN sealed[s] /\ e \in [DOMAIN e -> Fps]
      /\ \A m \in DOMAIN e : e[m] = n[m].fp
  BY <1>3, <1>5, <1>8 DEF Row
<1> HIDE DEF n, e
<1>10. IsTree([gen |-> gen[s], nodes |-> n, white |-> white[s], links |-> links[s]])
  BY <1>5, <1>7, <1>8 DEF IsTree, Row
<1>11. Row(gen[s], n, e, revoked[s], white[s], links[s])
  BY <1>5, <1>8, <1>9, <1>10 DEF Row
<1> QED BY <1>1, <1>2, <1>3, <1>4, <1>11, LocalStep

(* bind --peer, bridge remove, bridge deny.                                *)
LEMMA PairStep ==
    ASSUME IInv, NEW s \in Stores, NEW e \in Pairs,
           BindPair(s, e) \/ RemoveLink(s, e) \/ DenyPair(s, e)
    PROVE  IInv'
<1> USE Parts
<1>1. /\ nodes' = [nodes EXCEPT ![s] = nodes[s]]
      /\ sealed' = [sealed EXCEPT ![s] = sealed[s]]
      /\ revoked' = [revoked EXCEPT ![s] = revoked[s]]
  BY DEF BindPair, RemoveLink, DenyPair, Rows
<1>2. Edit(s) /\ UNCHANGED <<netVars, doc, log>> /\ UNCHANGED gen
  BY DEF BindPair, RemoveLink, DenyPair
<1>3. Row(gen[s], nodes[s], sealed[s], revoked[s], white[s], links[s])
  BY DEF Rows
<1>4. ASSUME NEW w \in SUBSET Edges, NEW k \in SUBSET SUBSET Nodes,
             \A x \in w : x[1] \in DOMAIN nodes[s], \A x \in k : x \subseteq DOMAIN nodes[s]
      PROVE  Row(gen[s], nodes[s], sealed[s], revoked[s], w, k)
  BY <1>3, <1>4 DEF Row, IsTree
<1>5. white[s] \subseteq Edges /\ links[s] \subseteq SUBSET Nodes
  BY <1>3 DEF Row, IsTree
<1>6. e = <<e[1], e[2]>> /\ e[1] \in Nodes /\ e[2] \in Nodes
  BY OrgAssumption
<1>7. CASE BindPair(s, e)
  <2> DEFINE w == white[s] \union {e, <<e[2], e[1]>>}
             k == links[s] \union {{e[1], e[2]}}
  <2>1. /\ white' = [white EXCEPT ![s] = w] /\ links' = [links EXCEPT ![s] = k]
        /\ e[1] \in DOMAIN nodes[s] /\ e[2] \in DOMAIN nodes[s]
    BY <1>7 DEF BindPair
  <2>2. w \in SUBSET Edges /\ k \in SUBSET SUBSET Nodes
    BY <1>5, <1>6 DEF Edges
  <2>3. (\A x \in w : x[1] \in DOMAIN nodes[s]) /\ (\A x \in k : x \subseteq DOMAIN nodes[s])
    BY <1>3, <1>6, <2>1 DEF Row
  <2> HIDE DEF w, k
  <2>4. Row(gen[s], nodes[s], sealed[s], revoked[s], w, k)
    BY <1>4, <2>2, <2>3
  <2> QED BY <1>1, <1>2, <2>1, <2>4, LocalStep
<1>8. CASE RemoveLink(s, e)
  <2> DEFINE k == links[s] \ {{e[1], e[2]}}
  <2>1. white' = [white EXCEPT ![s] = white[s]] /\ links' = [links EXCEPT ![s] = k]
    BY <1>8 DEF RemoveLink, Rows
  <2>2. Row(gen[s], nodes[s], sealed[s], revoked[s], white[s], k)
    BY <1>3, <1>4, <1>5 DEF Row
  <2> HIDE DEF k
  <2> QED BY <1>1, <1>2, <2>1, <2>2, LocalStep
<1>9. CASE DenyPair(s, e)
  <2> DEFINE w == white[s] \ {e, <<e[2], e[1]>>}
             k == links[s] \ {{e[1], e[2]}}
  <2>1. white' = [white EXCEPT ![s] = w] /\ links' = [links EXCEPT ![s] = k]
    BY <1>9 DEF DenyPair
  <2>2. Row(gen[s], nodes[s], sealed[s], revoked[s], w, k)
    BY <1>3, <1>4, <1>5 DEF Row
  <2> HIDE DEF w, k
  <2> QED BY <1>1, <1>2, <2>1, <2>2, LocalStep
<1> QED BY <1>7, <1>8, <1>9

-----------------------------------------------------------------------------
(* The theorems.                                                           *)

LEMMA InitInv == Init => IInv
<1> SUFFICES ASSUME Init
             PROVE  IInv
  OBVIOUS
<1>1. ASSUME NEW s \in Stores
      PROVE  Row(gen[s], nodes[s], sealed[s], revoked[s], white[s], links[s])
  <2> DEFINE N == IF s \in Editors THEN Initial ELSE {}
             E == IF s \in Editors THEN Initial \intersect Leaves ELSE {}
  <2>1. /\ gen[s] \in Nat /\ nodes[s] = [n \in N |-> FirstNode(n)]
        /\ sealed[s] = [l \in E |-> FirstFp[l]]
        /\ revoked[s] = {} /\ white[s] = {} /\ links[s] = {}
    BY DEF Init
  <2>2. N \subseteq Nodes /\ E = N \intersect Leaves
    BY OrgAssumption
  <2> HIDE DEF N, E
  <2>3. \A n \in N : /\ FirstNode(n) \in NodeRecords
                     /\ FirstNode(n).fp = NoFp <=> n \notin Leaves
                     /\ n \in Leaves => FirstNode(n).fp = FirstFp[n]
    BY <2>2, OrgAssumption DEF FirstNode, NodeRecords
  <2>4. IsTree([gen |-> gen[s], nodes |-> nodes[s], white |-> white[s],
                links |-> links[s]])
    BY <2>1, <2>2, <2>3 DEF IsTree
  <2>5. /\ DOMAIN sealed[s] = E /\ sealed[s] \in [E -> Fps]
        /\ \A l \in E : sealed[s][l] = nodes[s][l].fp
    BY <2>1, <2>2, <2>3, OrgAssumption
  <2> QED BY <2>1, <2>2, <2>4, <2>5 DEF Row
<1>2. Rows
  <2>1. /\ gen = [s \in Stores |-> gen[s]] /\ nodes = [s \in Stores |-> nodes[s]]
        /\ sealed = [s \in Stores |-> sealed[s]]
    BY DEF Init
  <2>2. /\ revoked = [s \in Stores |-> revoked[s]]
        /\ white = [s \in Stores |-> white[s]] /\ links = [s \in Stores |-> links[s]]
    BY DEF Init
  <2> QED BY <1>1, <2>1, <2>2 DEF Rows
<1>3. Asked
  BY NoPushRequest DEF Init, Asked
<1>4. Relay
  <2>1. IsTree(NoTree) /\ NoTree.gen = 0
    BY DEF NoTree, IsTree
  <2> QED BY <2>1 DEF Init, Relay, DocumentValid, LogNumbered
<1>5. Answers
  BY DEF Init, Answers, AnswersAreSlices
<1>6. ReaderHoldsOneGeneration
  BY OrgAssumption DEF Init, ReaderHoldsOneGeneration
<1>7. edits \in 0..MaxEdits
  BY OrgAssumption DEF Init
<1> QED BY <1>2, <1>3, <1>4, <1>5, <1>6, <1>7, Parts

LEMMA NextInv == IInv /\ [Next]_vars => IInv'
<1> SUFFICES ASSUME IInv, [Next]_vars
             PROVE  IInv'
  OBVIOUS
<1>1. ASSUME NEW s \in Stores, Push(s)
      PROVE  IInv'
  BY <1>1, PushStep
<1>2. ASSUME NEW s \in Stores, Fetch(s)
      PROVE  IInv'
  BY <1>2, GetSliceStep, PullStep, PullFailsStep DEF Fetch
<1>3. ASSUME NEW s \in Stores, Local(s)
      PROVE  IInv'
  BY <1>3, AddLeafStep, EvictLeafStep, RebindLeafStep, PairStep DEF Local
<1>4. ASSUME NEW q \in late, LateRequest(q)
      PROVE  IInv'
  BY <1>4, LateStep
<1>5. CASE UNCHANGED vars
  <2>1. /\ UNCHANGED rowVars /\ UNCHANGED <<doc, log>> /\ UNCHANGED inb
        /\ UNCHANGED edits /\ UNCHANGED out /\ UNCHANGED late /\ UNCHANGED log
    BY <1>5 DEF vars, netVars
  <2>2. Rows' /\ ReaderHoldsOneGeneration' /\ Relay' /\ Answers'
    BY <2>1, Parts, RowsStay, RelayStays, AnswersStay
  <2>3. Asked'
    BY <2>1, Parts DEF Asked
  <2>4. edits' \in 0..MaxEdits
    BY <2>1, Parts
  <2> QED BY <2>2, <2>3, <2>4, PartsNext
<1> QED BY <1>1, <1>2, <1>3, <1>4, <1>5 DEF Next

(* The inductive invariant holds in every reachable state.                 *)
THEOREM Inductive == Spec => []IInv
BY InitInv, NextInv, PTL DEF Spec

(* Stores, requests, answers and documents have their types, and a share,  *)
(* a whitelist row or a link never outlives its key_nodes row.             *)
THEOREM TypeCorrect == Spec => []TypeOK
<1>1. IInv => TypeOK
  BY DEF IInv
<1> QED BY <1>1, Inductive, PTL

(* A share is sealed to the key that its row names, in any order of local  *)
(* commands, pushes and pulls (apply_public_node).                         *)
THEOREM ShareSafe == Spec => []ShareFitsKey
<1>1. IInv => ShareFitsKey
  BY DEF IInv
<1> QED BY <1>1, Inductive, PTL

(* A store that only pulls holds its slice of the one document with the    *)
(* generation it records (persist_public_tree, apply_public_tree).         *)
THEOREM ReaderSafe == Spec => []ReaderHoldsOneGeneration
<1>1. IInv => ReaderHoldsOneGeneration
  BY DEF IInv
<1> QED BY <1>1, Inductive, PTL

(* Every slice the relay hands out passes validate_public_tree at the      *)
(* reader (slice_for_fingerprint, visible_from_maps).                      *)
THEOREM SlicesSafe == Spec => []SlicesApply
<1>1. ASSUME IInv
      PROVE  SlicesApply
  <2>1. ASSUME NEW s \in Stores, NEW a \in inb[s]
        PROVE  Valid(a)
    <3>1. PICK t \in log : Seeds(t, PullFp[s]) # {} /\ a = Slice(t, PullFp[s])
      BY <1>1, <2>1, Parts DEF Answers, AnswersAreSlices
    <3>2. IsTree(t) /\ Valid(t)
      BY <1>1, Parts DEF Relay, LogNumbered
    <3> QED BY <3>1, <3>2, SliceValid
  <2> QED BY <2>1 DEF SlicesApply
<1> QED BY <1>1, Inductive, PTL

(* A push that is valid by itself is never refused for what the relay has  *)
(* already (merge_into_existing).                                          *)
THEOREM MergeSafe == Spec => []MergeStaysValid
<1>1. ASSUME IInv
      PROVE  MergeStaysValid
  <2>1. ASSUME NEW q \in Requests, Valid(q.tree)
        PROVE  Valid(MergePublicTree(q.tree))
    <3>1. IsTree(q.tree)
      BY <1>1, Parts DEF Requests, Asked, IsRequest
    <3> QED BY <1>1, <2>1, <3>1, Parts, MergedTree
  <2> QED BY <2>1 DEF MergeStaysValid
<1> QED BY <1>1, Inductive, PTL

(* merge_into_existing: what the sender does not hold is as before.        *)
LEMMA MergeKeepsRest ==
    ASSUME NEW d, NEW t
    PROVE  LET rest == DOMAIN d.nodes \ DOMAIN t.nodes
               m == Merge(d, t)
           IN  /\ rest \subseteq DOMAIN m.nodes
               /\ \A n \in rest : m.nodes[n] = d.nodes[n]
               /\ \A k \in d.links : k \intersect rest # {} => k \in m.links
               /\ \A e \in d.white : {e[1], e[2]} \intersect rest # {} => e \in m.white
BY DEF Merge

(* A push changes neither the nodes outside the sender's tree nor the      *)
(* edges that touch them, also when the relay gets to it late.             *)
THEOREM OthersSafe == Spec => OthersStayInPlace
<1> DEFINE Kept(q) ==
             LET rest == DOMAIN doc.nodes \ DOMAIN q.tree.nodes
             IN  /\ rest \subseteq DOMAIN doc'.nodes
                 /\ \A n \in rest : doc'.nodes[n] = doc.nodes[n]
                 /\ \A k \in doc.links : k \intersect rest # {} => k \in doc'.links
                 /\ \A e \in doc.white : {e[1], e[2]} \intersect rest # {} =>
                                           e \in doc'.white
           InPlace == \A q \in Requests \ Requests' :
                        q.how = "merge" /\ doc' # doc => Kept(q)
<1>1. ASSUME IInv, NEW q, IsRequest(q), MergeRequest(q)
      PROVE  Kept(q)
  <2> DEFINE t == MergePublicTree(q.tree)
  <2>1. IsTree(q.tree) /\ Relay
    BY <1>1, Parts DEF IsRequest
  <2>2. IsTree(t) /\ Valid(t) /\ Persist(t)
    BY <1>1, <2>1, MergedTree DEF MergeRequest
  <2>3. doc' = [gen |-> doc.gen + 1, nodes |-> t.nodes, white |-> t.white,
                links |-> t.links]
    BY <2>1, <2>2, LogGrows DEF Relay
  <2>4. CASE doc.gen = 0
    <3>1. DOMAIN doc.nodes = {} /\ doc.links = {} /\ doc.white = {}
      BY <2>1, <2>4 DEF Relay, DocumentValid, NoTree
    <3> QED BY <3>1
  <2>5. CASE doc.gen # 0
    <3>1. t = Merge(doc, q.tree)
      BY <2>5 DEF MergePublicTree
    <3> HIDE DEF t
    <3> QED BY <2>3, <3>1, MergeKeepsRest
  <2> QED BY <2>4, <2>5
<1>2. ASSUME IInv, [Next]_vars
      PROVE  InPlace
  <2> SUFFICES ASSUME NEW q \in Requests, q \notin Requests', q.how = "merge", doc' # doc
               PROVE  Kept(q)
    OBVIOUS
  <2> HIDE DEF Kept
  <2>1. IsRequest(q)
    BY <1>2, Parts DEF Requests, Asked
  <2>2. CASE \E s \in Stores : PostInbox(s) \/ PutTree(s)
    <3>1. PICK s \in Stores : PostInbox(s) \/ PutTree(s)
      BY <2>2
    <3>2. out' = [out EXCEPT ![s] = NoPush] /\ late' = late
      BY <3>1 DEF PostInbox, PutTree, Answered
    <3>3. out = [x \in Stores |-> out[x]]
      BY <1>2, Parts DEF Asked
    <3>4. q = out[s]
      BY <3>2, <3>3 DEF Requests
    <3>5. MergeRequest(q)
      BY <3>1, <3>4 DEF PostInbox, PutTree, PutRequest
    <3> QED BY <1>1, <1>2, <2>1, <3>5
  <2>3. CASE \E p \in late : LateRequest(p)
    <3>1. PICK p \in late : LateRequest(p)
      BY <2>3
    <3>2. q = p
      BY <3>1 DEF LateRequest, Requests
    <3>3. MergeRequest(q)
      BY <3>1, <3>2 DEF LateRequest, PutRequest
    <3> QED BY <1>1, <1>2, <2>1, <3>3
  <2>4. CASE UNCHANGED doc
    BY <2>4
  <2>5. ASSUME NEW s \in Stores, Push(s) \/ Fetch(s) \/ Local(s)
        PROVE  PostInbox(s) \/ PutTree(s) \/ UNCHANGED doc
    <3>1. Push(s) => PostInbox(s) \/ PutTree(s) \/ UNCHANGED doc
      BY DEF Push, StartPush, StartPublish, PushFails, PushTimesOut
    <3>2. Fetch(s) => UNCHANGED doc
      BY DEF Fetch, GetSlice, Pull, PullFails
    <3>3. Local(s) => UNCHANGED doc
      BY DEF Local, AddLeaf, EvictLeaf, RebindLeaf, BindPair, RemoveLink, DenyPair
    <3> QED BY <2>5, <3>1, <3>2, <3>3
  <2>6. CASE UNCHANGED vars
    BY <2>6 DEF vars
  <2> QED BY <1>2, <2>2, <2>3, <2>4, <2>5, <2>6 DEF Next
<1>3. OthersStayInPlace <=> [][InPlace]_vars
  BY DEF OthersStayInPlace
<1> QED BY <1>2, <1>3, Inductive, PTL DEF Spec

=============================================================================
