--------------------------- MODULE KeyTreeProofs ---------------------------
(***************************************************************************)
(* Theorems about module KeyTree, for every tree, every set of keys and    *)
(* processes and every number of polynomials drawn.                        *)
(*                                                                         *)
(* What commands do to shares is the invariant IInv: a share is known by   *)
(* the polynomials it was made of, so that a fresh draw tells the shares   *)
(* dealt or refreshed now from all that went before.  Where rebinds may    *)
(* run beside other commands, a row may get an old share back, and the     *)
(* theorems about shares ask for Serial.                                   *)
(*                                                                         *)
(* What reconstruction makes of the shares is shown by giving its result:  *)
(* an assignment of values to nodes that satisfies the code's recursion    *)
(* (Resolve, Climb) and, the tree having no cycle, is the only one.        *)
(***************************************************************************)
EXTENDS KeyTree, FiniteSetTheorems, WellFoundedInduction, TLAPS

-----------------------------------------------------------------------------
(* The tree.                                                               *)

LEMMA Tree ==
    /\ IsFiniteSet(Nodes) /\ Nodes \subseteq Nat /\ Root \in Splits
    /\ \A n \in Nodes : Parent[n] \in Splits
    /\ \A l \in Leaves : l \in Nodes /\ l # Root /\ l \notin Splits
                         /\ l \in Children[Parent[l]]
    /\ \A s \in Splits : /\ s \in Nodes /\ s \notin Leaves
                         /\ Threshold[s] \in Nat \ {0}
                         /\ IsFiniteSet(Children[s])
    /\ \A s \in Splits : \A n \in Children[s] : n \in Nodes /\ n # Root /\ Parent[n] = s
    /\ \A n \in Nodes : n \in Splits \/ n \in Leaves
<1>1. IsFiniteSet(Nodes) /\ Nodes \subseteq Nat
  BY TreeAssumption, FS_Union DEF Nodes
<1>2. \A s \in Splits : Children[s] = {n \in Nodes \ {Root} : Parent[n] = s}
  BY DEF Children
<1>3. \A s \in Splits : Children[s] \in SUBSET Nodes
  BY <1>2
<1>4. \A s \in Splits : IsFiniteSet(Children[s])
  BY <1>1, <1>3, FS_Subset
<1>5. \A l \in Leaves : l \in Nodes /\ l # Root /\ l \notin Splits /\ Parent[l] \in Splits
  BY TreeAssumption DEF Nodes
<1>6. \A l \in Leaves : l \in Children[Parent[l]]
  BY <1>2, <1>5
<1>7. \A s \in Splits : \A n \in Children[s] : n \in Nodes /\ n # Root /\ Parent[n] = s
  BY <1>2
<1>8. \A s \in Splits : s \in Nodes /\ s \notin Leaves /\ Threshold[s] \in Nat \ {0}
  BY TreeAssumption DEF Nodes
<1>9. /\ Root \in Splits /\ \A n \in Nodes : Parent[n] \in Splits
      /\ \A n \in Nodes : n \in Splits \/ n \in Leaves
  BY TreeAssumption DEF Nodes
<1> QED BY <1>1, <1>4, <1>5, <1>6, <1>7, <1>8, <1>9

-----------------------------------------------------------------------------
(* Counting.                                                               *)

LEMMA Fewer ==
    ASSUME NEW S, IsFiniteSet(S), NEW T \in SUBSET S
    PROVE  /\ IsFiniteSet(T) /\ Cardinality(T) \in Nat /\ Cardinality(S) \in Nat
           /\ Cardinality(T) <= Cardinality(S)
           /\ T # S => Cardinality(T) < Cardinality(S)
BY FS_Subset, FS_CardinalityType

(* Positions in row id order count from 1 to the size of the set.          *)
LEMMA Positions ==
    ASSUME NEW R \in SUBSET Nat, IsFiniteSet(R)
    PROVE  /\ \A n \in Nat : Position(R, n) \in Nat
           /\ \A n \in R : Position(R, n) \in 1..Cardinality(R)
           /\ \A m, n \in R : Position(R, m) = Position(R, n) => m = n
<1> DEFINE Upto(n) == {m \in R : m <= n}
<1>1. \A n \in Nat : /\ Upto(n) \in SUBSET R /\ IsFiniteSet(Upto(n))
                     /\ Position(R, n) = Cardinality(Upto(n))
                     /\ Position(R, n) \in Nat /\ Cardinality(R) \in Nat
                     /\ Position(R, n) <= Cardinality(R)
  BY Fewer DEF Position
<1>2. ASSUME NEW n \in R
      PROVE  Position(R, n) # 0
  <2>1. n \in Upto(n)
    OBVIOUS
  <2> QED BY <1>1, <2>1, FS_EmptySet
<1>3. ASSUME NEW m \in R, NEW n \in R, m < n
      PROVE  Position(R, m) < Position(R, n)
  <2>1. m \in Nat /\ n \in Nat /\ \A k \in R : k \in Nat
    OBVIOUS
  <2>2. n <= n /\ ~(n <= m) /\ \A k \in Nat : k <= m => k <= n
    BY <1>3, <2>1
  <2>3. Upto(m) \in SUBSET Upto(n) /\ Upto(m) # Upto(n)
    BY <2>1, <2>2, Zenon
  <2> HIDE DEF Upto
  <2> QED BY <1>1, <2>1, <2>3, Fewer
<1>4. ASSUME NEW m \in R, NEW n \in R, Position(R, m) = Position(R, n)
      PROVE  m = n
  <2>1. m \in Nat /\ n \in Nat /\ Position(R, m) \in Nat
    BY <1>1
  <2>2. m < n \/ n < m \/ m = n
    BY <2>1
  <2> QED BY <1>3, <1>4, <2>1, <2>2
<1>5. ASSUME NEW n \in R
      PROVE  Position(R, n) \in 1..Cardinality(R)
  <2>1. /\ Position(R, n) \in Nat /\ Cardinality(R) \in Nat
        /\ Position(R, n) <= Cardinality(R) /\ Position(R, n) # 0
    BY <1>1, <1>2
  <2> QED BY <2>1
<1> QED BY <1>1, <1>4, <1>5

(* The first t of a set are t, or all of it.                               *)
LEMMA FirstOfCount ==
    ASSUME NEW R \in SUBSET Nat, IsFiniteSet(R), NEW t \in Nat
    PROVE  /\ FirstOf(R, t) \in SUBSET R /\ IsFiniteSet(FirstOf(R, t))
           /\ Cardinality(R) \in Nat
           /\ IF Cardinality(R) >= t THEN Cardinality(FirstOf(R, t)) = t
              ELSE FirstOf(R, t) = R
<1> DEFINE F == FirstOf(R, t)
           c == Cardinality(R)
           f == [n \in R |-> Position(R, n)]
           g == [n \in F |-> Position(R, n)]
<1>1. F \in SUBSET R /\ IsFiniteSet(F) /\ c \in Nat
  BY Fewer DEF FirstOf
<1>2. \A n \in F : Position(R, n) <= t
  BY DEF FirstOf
<1>3. \A n \in R : Position(R, n) <= t => n \in F
  BY DEF FirstOf
<1> HIDE DEF F, c
<1>4. CASE c < t
  <2>1. \A n \in R : Position(R, n) \in 1..c
    BY Positions DEF c
  <2>2. \A n \in R : Position(R, n) <= t
    BY <1>1, <1>4, <2>1
  <2>3. F = R
    BY <1>1, <1>3, <2>2
  <2>4. ~(c >= t)
    BY <1>1, <1>4
  <2> QED BY <1>1, <2>3, <2>4 DEF F, c
<1>5. CASE c >= t
  <2>1. f \in Injection(R, 1..c)
    BY Positions DEF Injection, IsInjective, c
  <2>2. IsFiniteSet(1..c) /\ Cardinality(1..c) = c
    BY <1>1, FS_Interval
  <2>3. f \in Surjection(R, 1..c)
    BY <2>1, <2>2, FS_Injection DEF c
  <2>4. \A k \in 1..c : \E n \in R : Position(R, n) = k
    BY <2>3 DEF Surjection
  <2>5. \A n \in F : Position(R, n) \in 1..t
    BY <1>1, <1>2, Positions
  <2>6. \A k \in 1..t : \E n \in F : Position(R, n) = k
    BY <1>1, <1>3, <1>5, <2>4
  <2>7. g \in Bijection(F, 1..t)
    <3>1. g \in [F -> 1..t]
      BY <2>5
    <3>2. \A m, n \in F : g[m] = g[n] => m = n
      BY <1>1, Positions
    <3>3. \A k \in 1..t : \E n \in F : g[n] = k
      BY <2>6
    <3> HIDE DEF g
    <3> QED BY <3>1, <3>2, <3>3 DEF Bijection, Injection, IsInjective, Surjection
  <2>8. IsFiniteSet(1..t) /\ Cardinality(1..t) = t
    BY FS_Interval
  <2>9. Cardinality(F) = t
    BY <1>1, <2>7, <2>8, FS_Bijection DEF ExistsBijection
  <2> QED BY <1>1, <1>5, <2>9 DEF F, c
<1> QED BY <1>1, <1>4, <1>5

(* Shares at distinct points have as many points as holders.               *)
LEMMA PointCount ==
    ASSUME NEW A, IsFiniteSet(A), NEW got, \A l, m \in A : got[l].x = got[m].x => l = m
    PROVE  Cardinality({a.x : a \in {got[m] : m \in A}}) = Cardinality(A)
<1> DEFINE X == {a.x : a \in {got[m] : m \in A}}
           f == [m \in A |-> got[m].x]
<1>1. f \in [A -> X]
  OBVIOUS
<1>2. \A l, m \in A : f[l] = f[m] => l = m
  OBVIOUS
<1>3. \A y \in X : \E m \in A : f[m] = y
  OBVIOUS
<1> HIDE DEF f, X
<1>4. f \in Bijection(A, X)
  BY <1>1, <1>2, <1>3 DEF Bijection, Injection, IsInjective, Surjection
<1>5. Cardinality(X) = Cardinality(A)
  BY <1>4, FS_Bijection DEF ExistsBijection
<1> QED BY <1>5 DEF X

-----------------------------------------------------------------------------
(* The invariant in parts: what a command may hold, and what rows may be,  *)
(* as operators of the values of the variables they read.                  *)

CmdOk(c, st, h, sh, sn) ==
    /\ c.op \in {"add", "evict", "rebind"} => c.node \in Leaves
    /\ c.op \in {"evict", "rebind"} => st[c.node] # "absent"
    /\ c.op \in {"add", "evict", "rebind", "unbind", "revoke"} => c.hw \in HwKeys
    /\ c.op = "rebind" => c.hw \in Spare
    /\ \A l \in c.todo : st[l] # "absent"
    /\ \A l \in Leaves : c.got[l] = NoShare \/ c.got[l] \in sn[l]
    /\ c.op = "rebind" => c.got[c.node] \in sn[c.node]
    /\ Serial =>
         /\ c.op = "rebind" => st[c.node] = "active" /\ c.got[c.node] = sh[c.node]
         /\ c.op = "unbind" => \A l \in c.todo : h[l] = c.hw
         /\ c.op = "evict" => h[c.node] = c.hw

Act(st, s) == {l \in Leaves : st[l] = "active"} \intersect Children[s]

Known(st, sh, sn, dr) ==
    /\ \A l \in Leaves : IF st[l] = "absent" THEN sn[l] = {} ELSE sh[l] \in sn[l]
    /\ \A l \in Leaves : \A a \in sn[l] :
          a.split = Parent[l] /\ a.deal <= dr /\ \A d \in a.deltas : d <= dr

Fixed(st, sn) ==
    \A l \in Leaves : Children[Parent[l]] \intersect Splits # {} /\ st[l] # "absent" =>
        l \in Initial /\ sn[l] = {FirstShare[l]}

Enough(st) ==
    \A s \in Splits :
        Cardinality(Children[s] \intersect (Splits \union {l \in Leaves : st[l] = "active"}))
          >= Threshold[s]

Good(sn, mx) == ~mx => \A l \in Leaves : \A a \in sn[l] : a.value = "good"

Useless(st, sh, sn) ==
    \A e, l \in Leaves : st[e] = "evicted" /\ l \in Act(st, Parent[e]) =>
        \A a \in sn[e] : ~SamePolynomial(a, sh[l])

Dealt(st, sh, mx) ==
    ~mx => \A s \in Splits :
        OnePolynomial({sh[l] : l \in Act(st, s)}) /\ DistinctPoints(Act(st, s), sh)

RowsOk(st, sh, sn, dr, mx) ==
    /\ Known(st, sh, sn, dr) /\ Fixed(st, sn) /\ Enough(st) /\ Good(sn, mx)
    /\ Serial => Useless(st, sh, sn) /\ Dealt(st, sh, mx)

LEMMA Parts ==
    IInv <=> /\ TypeOK /\ RowsOk(state, share, seen, draws, mixed)
             /\ \A p \in Procs : CmdOk(cmd[p], state, hw, share, seen)
<1>1. \A s : ActiveUnder(s) = Act(state, s)
  BY DEF ActiveUnder, Active, Act
<1>2. SharesKnown /\ CommandsFit /\ (Serial => RebindsCurrent /\ RevokedKeysStay)
        <=> /\ Known(state, share, seen, draws)
            /\ \A p \in Procs : CmdOk(cmd[p], state, hw, share, seen)
  BY DEF SharesKnown, CommandsFit, RebindsCurrent, RevokedKeysStay, Known, CmdOk
<1>3. (UpperSplitsFixed <=> Fixed(state, seen)) /\ (Quorate <=> Enough(state))
      /\ (SeenGood <=> Good(seen, mixed))
  BY DEF UpperSplitsFixed, Fixed, Quorate, Enough, SeenGood, Good, Active
<1>4. (EvictedShareUseless <=> Useless(state, share, seen))
      /\ (OneDeal <=> Dealt(state, share, mixed))
  BY <1>1 DEF EvictedShareUseless, Useless, OneDeal, Dealt
<1> QED BY <1>2, <1>3, <1>4 DEF IInv, RowsOk

LEMMA PartsNext ==
    IInv' <=> /\ TypeOK' /\ RowsOk(state', share', seen', draws', mixed')
              /\ \A p \in Procs : CmdOk(cmd'[p], state', hw', share', seen')
<1>1. \A s : ActiveUnder(s)' = Act(state', s)
  BY DEF ActiveUnder, Active, Act
<1>2. SharesKnown' /\ CommandsFit' /\ (Serial => RebindsCurrent' /\ RevokedKeysStay')
        <=> /\ Known(state', share', seen', draws')
            /\ \A p \in Procs : CmdOk(cmd'[p], state', hw', share', seen')
  BY DEF SharesKnown, CommandsFit, RebindsCurrent, RevokedKeysStay, Known, CmdOk
<1>3. (UpperSplitsFixed' <=> Fixed(state', seen')) /\ (Quorate' <=> Enough(state'))
      /\ (SeenGood' <=> Good(seen', mixed'))
  BY DEF UpperSplitsFixed, Fixed, Quorate, Enough, SeenGood, Good, Active
<1>4. (EvictedShareUseless' <=> Useless(state', share', seen'))
      /\ (OneDeal' <=> Dealt(state', share', mixed'))
  BY DEF EvictedShareUseless, Useless, OneDeal, Dealt, ActiveUnder, Active, Act
<1>5. Serial' = Serial
  BY DEF Serial
<1> QED BY <1>2, <1>3, <1>4, <1>5 DEF IInv, RowsOk

(* Commands in progress.                                                   *)
LEMMA Shapes ==
    /\ NoShare \in Shares /\ Nothing \in [Leaves -> Shares] /\ Done \in Commands
    /\ Done.op = "none" /\ Done.todo = {} /\ Done.got = Nothing
    /\ \A l \in Leaves : Nothing[l] = NoShare
<1>1. NoShare \in Shares
  BY Tree DEF NoShare, Shares
<1>2. Nothing \in [Leaves -> Shares] /\ \A l \in Leaves : Nothing[l] = NoShare
  BY <1>1 DEF Nothing
<1>3. Root \in Nodes /\ FirstHw \in [Leaves -> HwKeys]
  BY TreeAssumption DEF Nodes
<1>4. Done \in Commands /\ Done.op = "none" /\ Done.todo = {} /\ Done.got = Nothing
  BY <1>2, <1>3 DEF Done, Commands, Ops
<1> QED BY <1>1, <1>2, <1>4

LEMMA DoneOk == CmdOk(Done, state', hw', share', seen')
BY Shapes DEF CmdOk

(* A command goes on being right while others commit: leaves that are      *)
(* there stay there, and what was once sealed was.                         *)
LEMMA CmdKept ==
    ASSUME NEW c \in Commands, CmdOk(c, state, hw, share, seen),
           \A l \in Leaves : state[l] # "absent" => state'[l] # "absent",
           \A l \in Leaves : seen[l] \subseteq seen'[l],
           Serial => /\ c.op # "rebind"
                     /\ \A l \in Leaves : state[l] # "absent" => hw'[l] = hw[l]
    PROVE  CmdOk(c, state', hw', share', seen')
<1>1. c.todo \subseteq Leaves
  BY DEF Commands
<1> QED BY <1>1 DEF CmdOk

(* A step that changes only what a process is at, and pairings.            *)
LEMMA CmdStep ==
    ASSUME IInv, NEW p \in Procs, NEW c \in Commands, CmdOk(c, state, hw, share, seen),
           cmd' = [cmd EXCEPT ![p] = c],
           UNCHANGED <<state, hw, share, draws, seen, mixed>>,
           revoked' \in SUBSET HwKeys, allow' \in SUBSET (Nodes \X Nodes),
           links' \in SUBSET SUBSET Nodes
    PROVE  IInv'
<1>1. /\ TypeOK /\ RowsOk(state, share, seen, draws, mixed)
      /\ \A q \in Procs : CmdOk(cmd[q], state, hw, share, seen)
  BY Parts
<1>2. cmd \in [Procs -> Commands]
  BY <1>1 DEF TypeOK
<1>3. cmd' \in [Procs -> Commands] /\ \A q \in Procs : cmd'[q] = c \/ cmd'[q] = cmd[q]
  BY <1>2
<1>4. TypeOK'
  BY <1>1, <1>3 DEF TypeOK
<1>5. \A q \in Procs : CmdOk(cmd'[q], state, hw, share, seen)
  BY <1>1, <1>3
<1> HIDE DEF CmdOk, RowsOk
<1> QED BY <1>1, <1>4, <1>5, PartsNext

(* A step that commits a command, after which the process is at c.         *)
LEMMA CommitStep ==
    ASSUME IInv, NEW p \in Procs, NEW c \in Commands,
           CmdOk(c, state', hw', share', seen'), cmd' = [cmd EXCEPT ![p] = c],
           \A l \in Leaves : state[l] # "absent" => state'[l] # "absent",
           \A l \in Leaves : seen[l] \subseteq seen'[l],
           Serial => \A q \in Procs \ {p} : \A l \in Leaves :
                       state[l] # "absent" => hw'[l] = hw[l],
           state' \in [Leaves -> {"absent", "active", "evicted"}],
           hw' \in [Leaves -> HwKeys], share' \in [Leaves -> Shares],
           revoked' \in SUBSET HwKeys, allow' \in SUBSET (Nodes \X Nodes),
           links' \in SUBSET SUBSET Nodes, draws' \in Nat,
           seen' \in [Leaves -> SUBSET Shares], mixed' \in BOOLEAN,
           RowsOk(state', share', seen', draws', mixed')
    PROVE  IInv'
<1>1. TypeOK /\ \A q \in Procs : CmdOk(cmd[q], state, hw, share, seen)
  BY Parts
<1>2. cmd \in [Procs -> Commands]
  BY <1>1 DEF TypeOK
<1>3. /\ cmd' \in [Procs -> Commands] /\ cmd'[p] = c
      /\ \A q \in Procs \ {p} : cmd'[q] = cmd[q]
  BY <1>2
<1>4. TypeOK'
  BY <1>3 DEF TypeOK
<1>5. ASSUME NEW q \in Procs \ {p}
      PROVE  CmdOk(cmd[q], state', hw', share', seen')
  <2>1. cmd[q] \in Commands /\ CmdOk(cmd[q], state, hw, share, seen)
    BY <1>1, <1>2
  <2>2. Serial => cmd[q].op # "rebind"
    BY <2>1 DEF Serial, CmdOk
  <2> QED BY <2>1, <2>2, CmdKept
<1>6. \A q \in Procs : CmdOk(cmd'[q], state', hw', share', seen')
  BY <1>3, <1>5
<1> HIDE DEF CmdOk, RowsOk
<1> QED BY <1>4, <1>6, PartsNext

-----------------------------------------------------------------------------
(* Steps before the commit.                                                *)

LEMMA BeginOk ==
    ASSUME IInv, NEW op \in {"add", "evict"}, NEW l \in Leaves, NEW h \in HwKeys,
           op = "evict" => state[l] # "absent" /\ (Serial => hw[l] = h),
           NEW c, c = [op |-> op, node |-> l, peer |-> Root, hw |-> h,
                       todo |-> ActiveUnder(Parent[l]) \ {l}, backed |-> hw,
                       got |-> Nothing]
    PROVE  c \in Commands /\ CmdOk(c, state, hw, share, seen)
<1>1. hw \in [Leaves -> HwKeys] /\ l \in Nodes /\ Root \in Nodes
  BY Tree DEF IInv, TypeOK
<1>2. c.todo \subseteq Leaves /\ \A m \in c.todo : state[m] # "absent"
  BY DEF ActiveUnder, Active
<1>3. c \in Commands
  BY <1>1, <1>2, Shapes DEF Commands, Ops
<1>4. CmdOk(c, state, hw, share, seen)
  BY <1>2, Shapes DEF CmdOk
<1> QED BY <1>3, <1>4

LEMMA StartAddStep ==
    ASSUME IInv, NEW p \in Procs, NEW l \in Leaves, StartAdd(p, l)
    PROVE  IInv'
<1> DEFINE c == [op |-> "add", node |-> l, peer |-> Root, hw |-> FirstHw[l],
                 todo |-> ActiveUnder(Parent[l]) \ {l}, backed |-> hw, got |-> Nothing]
<1>1. /\ cmd' = [cmd EXCEPT ![p] = c]
      /\ UNCHANGED <<state, hw, share, draws, seen, mixed>>
      /\ UNCHANGED <<revoked, allow, links>>
  BY DEF StartAdd, Begin, rows, pairs, hist
<1>2. FirstHw[l] \in HwKeys
  BY TreeAssumption
<1>3. c \in Commands /\ CmdOk(c, state, hw, share, seen)
  BY <1>2, BeginOk
<1>4. /\ revoked \in SUBSET HwKeys /\ allow \in SUBSET (Nodes \X Nodes)
      /\ links \in SUBSET SUBSET Nodes
  BY DEF IInv, TypeOK
<1> HIDE DEF c
<1> QED BY <1>1, <1>3, <1>4, CmdStep

LEMMA CollectStep ==
    ASSUME IInv, NEW p \in Procs, NEW l \in Leaves, Collect(p, l)
    PROVE  IInv'
<1>1. PICK raw \in {NoShare}
                   \union (IF hw[l] = cmd[p].backed[l] THEN {share[l]} ELSE {})
                   \union (IF RawFiles THEN seen[l] ELSE {}) :
        cmd' = [cmd EXCEPT ![p].todo = @ \ {l}, ![p].got[l] = raw]
  BY DEF Collect
<1> DEFINE got == [cmd[p].got EXCEPT ![l] = raw]
           c == [cmd[p] EXCEPT !.todo = @ \ {l}, !.got = got]
<1>2. /\ cmd[p].op \in {"add", "evict"} /\ l \in cmd[p].todo
      /\ UNCHANGED <<state, hw, share, draws, seen, mixed>>
      /\ UNCHANGED <<revoked, allow, links>>
  BY DEF Collect, rows, pairs, hist
<1>3. cmd[p] \in Commands /\ CmdOk(cmd[p], state, hw, share, seen) /\ TypeOK
      /\ Known(state, share, seen, draws)
  BY Parts DEF TypeOK, RowsOk
<1>4. raw = NoShare \/ raw \in seen[l]
  BY <1>2, <1>3 DEF CmdOk, Known
<1>5. raw \in Shares
  BY <1>3, <1>4, Shapes DEF TypeOK
<1>6. /\ got \in [Leaves -> Shares] /\ got[l] = raw
      /\ \A m \in Leaves \ {l} : got[m] = cmd[p].got[m]
  BY <1>3, <1>5 DEF Commands
<1>7. cmd' = [cmd EXCEPT ![p] = c]
  BY <1>1, Zenon
<1> HIDE DEF got
<1>8. /\ c \in Commands /\ c.op = cmd[p].op /\ c.node = cmd[p].node /\ c.hw = cmd[p].hw
      /\ c.todo = cmd[p].todo \ {l} /\ c.got = got
  BY <1>3, <1>6 DEF Commands
<1> HIDE DEF c
<1>9. CmdOk(c, state, hw, share, seen)
  BY <1>2, <1>3, <1>4, <1>6, <1>8 DEF CmdOk
<1>10. /\ revoked \in SUBSET HwKeys /\ allow \in SUBSET (Nodes \X Nodes)
       /\ links \in SUBSET SUBSET Nodes
  BY <1>3 DEF TypeOK
<1> QED BY <1>2, <1>7, <1>8, <1>9, <1>10, CmdStep

(* A process that only goes on to an op with nothing left to ask.          *)
LEMMA PlainOk ==
    ASSUME NEW c, c.op \in {"revoke", "deny", "link"}, c.todo = {}, c.got = Nothing,
           c.op = "revoke" => c.hw \in HwKeys
    PROVE  /\ CmdOk(c, state, hw, share, seen)
           /\ CmdOk(c, state', hw', share', seen')
BY Shapes DEF CmdOk

LEMMA RevokeOk ==
    ASSUME NEW h \in HwKeys, NEW c, c = [Done EXCEPT !.op = "revoke", !.hw = h]
    PROVE  /\ c \in Commands /\ CmdOk(c, state, hw, share, seen)
           /\ CmdOk(c, state', hw', share', seen')
<1>1. /\ c \in Commands /\ c.op = "revoke" /\ c.hw = h /\ c.todo = {}
      /\ c.got = Nothing
  BY Shapes DEF Commands, Ops
<1>2. c.op \in {"revoke", "deny", "link"} /\ (c.op = "revoke" => c.hw \in HwKeys)
  BY <1>1
<1>3. /\ CmdOk(c, state, hw, share, seen) /\ CmdOk(c, state', hw', share', seen')
  BY <1>1, <1>2, Shapes DEF CmdOk
<1> QED BY <1>1, <1>3

LEMMA FailStep ==
    ASSUME IInv, NEW p \in Procs, Fail(p)
    PROVE  IInv'
<1>1. /\ cmd' = [cmd EXCEPT ![p] = Done]
      /\ UNCHANGED <<state, hw, share, draws, seen, mixed>>
      /\ UNCHANGED <<revoked, allow, links>>
  BY DEF Fail, rows, pairs, hist
<1>2. CmdOk(Done, state, hw, share, seen)
  BY Shapes DEF CmdOk
<1>3. /\ revoked \in SUBSET HwKeys /\ allow \in SUBSET (Nodes \X Nodes)
      /\ links \in SUBSET SUBSET Nodes
  BY DEF IInv, TypeOK
<1> QED BY <1>1, <1>2, <1>3, Shapes, CmdStep

LEMMA StartRevokeStep ==
    ASSUME IInv, NEW p \in Procs, NEW h \in HwKeys, StartRevoke(p, h)
    PROVE  IInv'
<1> DEFINE N == {l \in Active : hw[l] = h}
           c == [Done EXCEPT !.op = "unbind", !.hw = h, !.todo = N]
<1>1. /\ cmd' = [cmd EXCEPT ![p] = c] /\ links' \subseteq links
      /\ UNCHANGED <<state, hw, share, draws, seen, mixed>>
      /\ UNCHANGED <<revoked, allow>>
  BY DEF StartRevoke, Unlink, rows, hist
<1>2. /\ N \subseteq Leaves /\ \A l \in N : state[l] # "absent" /\ hw[l] = h
  BY DEF Active
<1> HIDE DEF N
<1>3. /\ c \in Commands /\ c.op = "unbind" /\ c.hw = h /\ c.todo = N /\ c.got = Nothing
  BY <1>2, Shapes DEF Commands, Ops
<1> HIDE DEF c
<1>4. CmdOk(c, state, hw, share, seen)
  BY <1>2, <1>3, Shapes DEF CmdOk
<1>5. /\ revoked \in SUBSET HwKeys /\ allow \in SUBSET (Nodes \X Nodes)
      /\ links \in SUBSET SUBSET Nodes
  BY DEF IInv, TypeOK
<1> QED BY <1>1, <1>3, <1>4, <1>5, CmdStep

LEMMA DropBindingsStep ==
    ASSUME IInv, NEW p \in Procs, DropBindings(p)
    PROVE  IInv'
<1>1. /\ cmd[p].op = "unbind" /\ allow' \subseteq allow
      /\ UNCHANGED <<state, hw, share, draws, seen, mixed>>
      /\ UNCHANGED <<revoked, links>>
  BY DEF DropBindings, Disallow, rows, hist
<1>2. /\ cmd[p] \in Commands /\ CmdOk(cmd[p], state, hw, share, seen) /\ TypeOK
  BY Parts DEF TypeOK
<1>3. cmd[p].hw \in HwKeys
  BY <1>1, <1>2 DEF CmdOk
<1>4. /\ revoked \in SUBSET HwKeys /\ allow \in SUBSET (Nodes \X Nodes)
      /\ links \in SUBSET SUBSET Nodes
  BY <1>2 DEF TypeOK
<1>5. ASSUME NEW l \in Active, cmd[p].todo = {l} \/ hw[l] = cmd[p].hw,
             Begin(p, "evict", l, cmd[p].hw)
      PROVE  IInv'
  <2> DEFINE c == [op |-> "evict", node |-> l, peer |-> Root, hw |-> cmd[p].hw,
                   todo |-> ActiveUnder(Parent[l]) \ {l}, backed |-> hw,
                   got |-> Nothing]
  <2>1. cmd' = [cmd EXCEPT ![p] = c]
    BY <1>5 DEF Begin
  <2>2. l \in Leaves /\ state[l] # "absent"
    BY DEF Active
  <2>3. Serial => hw[l] = cmd[p].hw
    BY <1>1, <1>2, <1>5 DEF CmdOk
  <2>4. c \in Commands /\ CmdOk(c, state, hw, share, seen)
    BY <1>3, <2>2, <2>3, BeginOk
  <2> HIDE DEF c
  <2> QED BY <1>1, <1>4, <2>1, <2>4, CmdStep
<1>6. ASSUME cmd' = [cmd EXCEPT ![p] = [Done EXCEPT !.op = "revoke", !.hw = cmd[p].hw]]
      PROVE  IInv'
  <2> DEFINE c == [Done EXCEPT !.op = "revoke", !.hw = cmd[p].hw]
  <2>1. c \in Commands /\ CmdOk(c, state, hw, share, seen)
    BY <1>3, RevokeOk
  <2> HIDE DEF c
  <2>2. cmd' = [cmd EXCEPT ![p] = c]
    BY <1>6 DEF c
  <2> QED BY <1>1, <1>4, <2>1, <2>2, CmdStep
<1> QED BY <1>5, <1>6 DEF DropBindings

LEMMA RevokeKeyStep ==
    ASSUME IInv, NEW p \in Procs, RevokeKey(p)
    PROVE  IInv'
<1>1. /\ cmd' = [cmd EXCEPT ![p] = Done] /\ cmd[p].op = "revoke"
      /\ revoked' = revoked \union {cmd[p].hw}
      /\ UNCHANGED <<state, hw, share, draws, seen, mixed>>
      /\ UNCHANGED <<allow, links>>
  BY DEF RevokeKey, Ready, pairs, hist
<1>2. /\ CmdOk(cmd[p], state, hw, share, seen) /\ TypeOK
  BY Parts
<1>3. cmd[p].hw \in HwKeys
  BY <1>1, <1>2 DEF CmdOk
<1>4. CmdOk(Done, state, hw, share, seen)
  BY Shapes DEF CmdOk
<1>5. /\ revoked' \in SUBSET HwKeys /\ allow \in SUBSET (Nodes \X Nodes)
      /\ links \in SUBSET SUBSET Nodes
  BY <1>1, <1>2, <1>3 DEF TypeOK
<1> QED BY <1>1, <1>4, <1>5, Shapes, CmdStep

LEMMA RebindReadStep ==
    ASSUME IInv, NEW p \in Procs, NEW l \in Leaves, NEW h \in HwKeys, RebindRead(p, l, h)
    PROVE  IInv'
<1> DEFINE got == [Nothing EXCEPT ![l] = share[l]]
           c == [Done EXCEPT !.op = "rebind", !.node = l, !.hw = h, !.got = got]
<1>1. /\ cmd' = [cmd EXCEPT ![p] = c] /\ state[l] = "active" /\ h \in Spare
      /\ UNCHANGED <<state, hw, share, draws, seen, mixed>>
      /\ UNCHANGED <<revoked, allow, links>>
  BY DEF RebindRead, rows, pairs, hist
<1>2. TypeOK /\ Known(state, share, seen, draws)
  BY Parts DEF RowsOk
<1>3. share[l] \in seen[l] /\ share[l] \in Shares
  BY <1>1, <1>2 DEF Known, TypeOK
<1>4. /\ got \in [Leaves -> Shares] /\ got[l] = share[l]
      /\ \A m \in Leaves \ {l} : got[m] = NoShare
  BY <1>3, Shapes
<1> HIDE DEF got
<1>5. /\ c \in Commands /\ c.op = "rebind" /\ c.node = l /\ c.hw = h /\ c.todo = {}
      /\ c.got = got
  BY <1>4, Shapes, Tree DEF Commands, Ops
<1> HIDE DEF c
<1>6. CmdOk(c, state, hw, share, seen)
  BY <1>1, <1>3, <1>4, <1>5 DEF CmdOk
<1>7. /\ revoked \in SUBSET HwKeys /\ allow \in SUBSET (Nodes \X Nodes)
      /\ links \in SUBSET SUBSET Nodes
  BY <1>2 DEF TypeOK
<1> QED BY <1>1, <1>5, <1>6, <1>7, CmdStep

-----------------------------------------------------------------------------
(* Pairings.                                                               *)

LEMMA SameCmd ==
    ASSUME IInv, NEW p \in Procs
    PROVE  /\ cmd = [cmd EXCEPT ![p] = cmd[p]] /\ cmd[p] \in Commands
           /\ CmdOk(cmd[p], state, hw, share, seen)
           /\ revoked \in SUBSET HwKeys /\ allow \in SUBSET (Nodes \X Nodes)
           /\ links \in SUBSET SUBSET Nodes
<1>1. TypeOK /\ CmdOk(cmd[p], state, hw, share, seen)
  BY Parts
<1> QED BY <1>1 DEF TypeOK

LEMMA BridgeStep ==
    ASSUME IInv, NEW p \in Procs, NEW a \in Pairable, NEW b \in Pairable, Bridge(p, a, b)
    PROVE  IInv'
<1> USE SameCmd
<1>1. a \in Nodes /\ b \in Nodes /\ NoHw \in HwKeys \union {NoHw}
  BY TreeAssumption
<1>2. ASSUME NEW op \in {"deny", "link"}
      PROVE  LET c == [Done EXCEPT !.op = op, !.node = a, !.peer = b]
             IN  c \in Commands /\ CmdOk(c, state, hw, share, seen)
  <2> DEFINE c == [Done EXCEPT !.op = op, !.node = a, !.peer = b]
  <2>1. c \in Commands /\ c.op = op /\ c.todo = {} /\ c.got = Nothing
    BY <1>1, Shapes DEF Commands, Ops
  <2> HIDE DEF c
  <2>2. c \in Commands /\ CmdOk(c, state, hw, share, seen)
    BY <2>1, PlainOk
  <2> QED BY <2>2 DEF c
<1>3. CASE AllowBridge(p, a, b)
  <2>1. /\ UNCHANGED <<state, hw, share, draws, seen, mixed>> /\ cmd' = cmd
        /\ UNCHANGED <<revoked, links>> /\ allow' = allow \union {<<a, b>>}
    BY <1>3 DEF AllowBridge, rows, hist
  <2> QED BY <1>1, <2>1, CmdStep
<1>4. CASE DenyBridge(p, a, b)
  <2> DEFINE c == [Done EXCEPT !.op = "deny", !.node = a, !.peer = b]
  <2>1. /\ UNCHANGED <<state, hw, share, draws, seen, mixed>>
        /\ cmd' = [cmd EXCEPT ![p] = c]
        /\ UNCHANGED <<revoked, links>> /\ allow' \subseteq allow
    BY <1>4 DEF DenyBridge, rows, hist
  <2>2. c \in Commands /\ CmdOk(c, state, hw, share, seen)
    BY <1>2
  <2> HIDE DEF c
  <2> QED BY <2>1, <2>2, CmdStep
<1>5. CASE AddBridgeRead(p, a, b)
  <2> DEFINE c == [Done EXCEPT !.op = "link", !.node = a, !.peer = b]
  <2>1. /\ UNCHANGED <<state, hw, share, draws, seen, mixed>>
        /\ cmd' = [cmd EXCEPT ![p] = c]
        /\ UNCHANGED <<revoked, links, allow>>
    BY <1>5 DEF AddBridgeRead, rows, pairs, hist
  <2>2. c \in Commands /\ CmdOk(c, state, hw, share, seen)
    BY <1>2
  <2> HIDE DEF c
  <2> QED BY <2>1, <2>2, CmdStep
<1>6. CASE RemoveBridge(p, a, b)
  <2>1. /\ UNCHANGED <<state, hw, share, draws, seen, mixed>> /\ cmd' = cmd
        /\ UNCHANGED <<revoked, allow>> /\ links' \subseteq links
    BY <1>6 DEF RemoveBridge, rows, hist
  <2> QED BY <2>1, CmdStep
<1> QED BY <1>3, <1>4, <1>5, <1>6 DEF Bridge

LEMMA LinkStep ==
    ASSUME IInv, NEW p \in Procs, AddBridgeWrite(p) \/ DenyLink(p)
    PROVE  IInv'
<1> USE SameCmd
<1>1. /\ UNCHANGED <<state, hw, share, draws, seen, mixed>>
      /\ cmd' = [cmd EXCEPT ![p] = Done] /\ UNCHANGED <<revoked, allow>>
      /\ links' \subseteq links \union {{cmd[p].node, cmd[p].peer}}
  BY DEF AddBridgeWrite, DenyLink, rows, hist
<1>2. cmd[p].node \in Nodes /\ cmd[p].peer \in Nodes
  BY DEF Commands
<1>3. CmdOk(Done, state, hw, share, seen)
  BY Shapes DEF CmdOk
<1>4. links' \in SUBSET SUBSET Nodes /\ revoked' \in SUBSET HwKeys
      /\ allow' \in SUBSET (Nodes \X Nodes)
  BY <1>1, <1>2
<1> QED BY <1>1, <1>3, <1>4, Shapes, CmdStep

-----------------------------------------------------------------------------
(* Commits.                                                                *)

(* rebind_leaf's UPDATE: the share it writes was sealed for the leaf once, *)
(* and is the one the row has if nothing else ran since the read.          *)
LEMMA RebindWriteStep ==
    ASSUME IInv, NEW p \in Procs, RebindWrite(p)
    PROVE  IInv'
<1> DEFINE l == cmd[p].node
<1>1. /\ cmd' = [cmd EXCEPT ![p] = Done] /\ cmd[p].op = "rebind"
      /\ hw' = [hw EXCEPT ![l] = cmd[p].hw]
      /\ share' = [share EXCEPT ![l] = cmd[p].got[l]]
      /\ UNCHANGED <<state, draws, seen, mixed>> /\ UNCHANGED <<revoked, allow, links>>
  BY DEF RebindWrite, Ready, pairs, hist
<1>2. /\ TypeOK /\ RowsOk(state, share, seen, draws, mixed)
      /\ CmdOk(cmd[p], state, hw, share, seen)
  BY Parts
<1>3. cmd[p] \in Commands
  BY <1>2 DEF TypeOK
<1>4. /\ l \in Leaves /\ state[l] # "absent" /\ cmd[p].hw \in HwKeys
      /\ cmd[p].got[l] \in seen[l]
      /\ Serial => cmd[p].got[l] = share[l]
      /\ cmd[p].hw \in Spare
  BY <1>1, <1>2 DEF CmdOk
<1>5. hw' \in [Leaves -> HwKeys] /\ share' \in [Leaves -> Shares]
  BY <1>1, <1>2, <1>3, <1>4 DEF TypeOK, Commands
<1>6. Serial => share' = share
  BY <1>1, <1>2, <1>4 DEF TypeOK
<1>7. RowsOk(state', share', seen', draws', mixed')
  <2>1. share'[l] = cmd[p].got[l] /\ \A m \in Leaves \ {l} : share'[m] = share[m]
    BY <1>1, <1>2, <1>4 DEF TypeOK
  <2>2. Known(state', share', seen', draws')
    BY <1>1, <1>2, <1>4, <2>1 DEF RowsOk, Known
  <2> QED BY <1>1, <1>2, <1>6, <2>2 DEF RowsOk
<1>8. Serial => Procs \ {p} = {}
  BY <1>4 DEF Serial
<1>9. /\ state' \in [Leaves -> {"absent", "active", "evicted"}]
      /\ revoked' \in SUBSET HwKeys /\ allow' \in SUBSET (Nodes \X Nodes)
      /\ links' \in SUBSET SUBSET Nodes /\ draws' \in Nat
      /\ seen' \in [Leaves -> SUBSET Shares] /\ mixed' \in BOOLEAN
  BY <1>1, <1>2 DEF TypeOK
<1> HIDE DEF RowsOk, CmdOk, l
<1> QED BY <1>1, <1>5, <1>7, <1>8, <1>9, Shapes, DoneOk, CommitStep

(* The rows after Reseal(new, used).                                       *)
LEMMA ResealEffect ==
    ASSUME TypeOK, NEW D \in SUBSET Leaves, NEW new \in [D -> Shares], NEW used,
           Reseal(new, used)
    PROVE  /\ share' \in [Leaves -> Shares] /\ seen' \in [Leaves -> SUBSET Shares]
           /\ mixed' \in BOOLEAN /\ (~mixed' => ~mixed /\ OnePolynomial(used))
           /\ \A l \in D : share'[l] = new[l] /\ seen'[l] = seen[l] \union {new[l]}
           /\ \A l \in Leaves \ D : share'[l] = share[l] /\ seen'[l] = seen[l]
           /\ \A l \in Leaves : seen[l] \subseteq seen'[l]
<1>1. DOMAIN new = D
  OBVIOUS
<1>2. share' = [l \in Leaves |-> IF l \in D THEN new[l] ELSE share[l]]
  BY <1>1 DEF Reseal
<1>3. seen' = [l \in Leaves |-> IF l \in D THEN seen[l] \union {new[l]} ELSE seen[l]]
  BY <1>1 DEF Reseal
<1>4. mixed' = (mixed \/ ~OnePolynomial(used)) /\ mixed \in BOOLEAN
  BY DEF Reseal, TypeOK
<1>5. mixed' \in BOOLEAN /\ (~mixed' => ~mixed /\ OnePolynomial(used))
  BY <1>4, Zenon
<1>6. share \in [Leaves -> Shares] /\ seen \in [Leaves -> SUBSET Shares]
  BY DEF TypeOK
<1>7. share' \in [Leaves -> Shares] /\ seen' \in [Leaves -> SUBSET Shares]
  BY <1>2, <1>3, <1>6
<1>8. /\ \A l \in D : share'[l] = new[l] /\ seen'[l] = seen[l] \union {new[l]}
      /\ \A l \in Leaves \ D : share'[l] = share[l] /\ seen'[l] = seen[l]
  BY <1>2, <1>3
<1>9. \A l \in Leaves : seen[l] \subseteq seen'[l]
  BY <1>3
<1> QED BY <1>5, <1>7, <1>8, <1>9

(* Sharks::recover, given enough points of one polynomial that hides the   *)
(* secret, gives the secret, and never nothing.                            *)
LEMMA Recovered ==
    ASSUME NEW A, IsFiniteSet(A), NEW got, \A l, m \in A : got[l].x = got[m].x => l = m,
           NEW t \in Nat, Cardinality(A) >= t, NEW used, used = {got[m] : m \in A}
    PROVE  /\ Recover(used, t) \in {"good", "noise"}
           /\ OnePolynomial(used) /\ (\A m \in A : got[m].value = "good") =>
                 Recover(used, t) = "good"
<1>1. Cardinality({a.x : a \in used}) = Cardinality(A) /\ Cardinality(A) \in Nat
  BY PointCount, FS_CardinalityType
<1>2. ~(Cardinality({a.x : a \in used}) < t)
  BY <1>1
<1>3. (\A m \in A : got[m].value = "good") => \A a \in used : a.value = "good"
  OBVIOUS
<1>4. /\ Recover(used, t) \in {"good", "noise"}
      /\ OnePolynomial(used) /\ (\A a \in used : a.value = "good") =>
           Recover(used, t) = "good"
  BY <1>2 DEF Recover
<1> QED BY <1>3, <1>4

(* add_leaf_and_reshare: the secret recovered from the shares presented is *)
(* dealt anew, on a polynomial that no earlier share lies on, to the       *)
(* active leaves of the split and the new one.                             *)
LEMMA CommitAddStep ==
    ASSUME IInv, NEW p \in Procs, CommitAdd(p)
    PROVE  IInv'
<1> DEFINE l == cmd[p].node
           s == Parent[l]
           A == ActiveUnder(s)
           n == Cardinality(A) + 1
           got == cmd[p].got
           given == {m \in A : got[m] # NoShare}
           used == {got[m] : m \in given}
           v == Recover(used, Threshold[s])
           D == A \union {l}
           new == [m \in D |-> [split |-> s, deal |-> draws + 1, value |-> v,
                                deltas |-> {}, x |-> IF m = l THEN n ELSE Position(A, m)]]
<1>1. /\ cmd[p].op = "add" /\ state[l] = "absent"
      /\ Children[s] \intersect Splits = {} /\ Cardinality(given) >= Threshold[s]
      /\ DistinctPoints(given, got) /\ Reseal(new, used)
      /\ state' = [state EXCEPT ![l] = "active"] /\ hw' = [hw EXCEPT ![l] = cmd[p].hw]
      /\ draws' = draws + 1 /\ cmd' = [cmd EXCEPT ![p] = Done]
      /\ UNCHANGED <<revoked, allow, links>>
  BY DEF CommitAdd, Ready, pairs
<1>2. /\ TypeOK /\ RowsOk(state, share, seen, draws, mixed)
      /\ CmdOk(cmd[p], state, hw, share, seen)
  BY Parts
<1>3. /\ l \in Leaves /\ cmd[p].hw \in HwKeys
      /\ \A m \in Leaves : got[m] = NoShare \/ got[m] \in seen[m]
  BY <1>1, <1>2 DEF CmdOk
<1>4. s \in Splits /\ Threshold[s] \in Nat /\ IsFiniteSet(Children[s]) /\ Leaves \subseteq Nat
  BY <1>3, Tree, TreeAssumption
<1>5. /\ A = Act(state, s) /\ A \in SUBSET Children[s] /\ A \subseteq Leaves /\ l \notin A
      /\ \A m \in A : Parent[m] = s /\ state[m] = "active"
  BY <1>1, <1>4, Tree DEF ActiveUnder, Active, Act
<1>6. IsFiniteSet(A) /\ given \in SUBSET A /\ IsFiniteSet(given) /\ Cardinality(A) \in Nat
  BY <1>4, <1>5, Fewer
<1> HIDE DEF A
<1>7. /\ \A m \in A : Position(A, m) \in 1..Cardinality(A)
      /\ \A m, k \in A : Position(A, m) = Position(A, k) => m = k
  <2>1. A \in SUBSET Nat
    BY <1>4, <1>5
  <2> QED BY <1>6, <2>1, Positions
<1>8. \A m, k \in given : got[m].x = got[k].x => m = k
  BY <1>1 DEF DistinctPoints
<1> HIDE DEF given
<1>9. /\ v \in {"good", "noise"}
      /\ OnePolynomial(used) /\ (\A m \in given : got[m].value = "good") => v = "good"
  <2>1. used = {got[m] : m \in given} /\ Cardinality(given) >= Threshold[s]
    BY <1>1
  <2> HIDE DEF got, used
  <2> QED BY <1>4, <1>6, <1>8, <2>1, Recovered
<1>10. draws \in Nat
  BY <1>2 DEF TypeOK
<1> HIDE DEF v, used
<1>11. D \in SUBSET Leaves /\ new \in [D -> Shares]
  <2>1. n \in Nat /\ \A m \in A : Position(A, m) \in Nat
    BY <1>6, <1>7
  <2>2. ASSUME NEW m \in D
        PROVE  [split |-> s, deal |-> draws + 1, value |-> v, deltas |-> {},
                x |-> IF m = l THEN n ELSE Position(A, m)] \in Shares
    <3>1. (IF m = l THEN n ELSE Position(A, m)) \in Nat /\ draws + 1 \in Nat
      BY <1>10, <2>1
    <3> HIDE DEF n
    <3> QED BY <1>4, <1>9, <3>1 DEF Shares
  <2>3. D \in SUBSET Leaves
    BY <1>3, <1>5
  <2> QED BY <2>2, <2>3
<1>12. \A m \in D : /\ new[m].split = s /\ new[m].deal = draws + 1 /\ new[m].value = v
                    /\ new[m].deltas = {}
                    /\ new[m].x = IF m = l THEN n ELSE Position(A, m)
  OBVIOUS
<1> HIDE DEF new
<1>13. /\ share' \in [Leaves -> Shares] /\ seen' \in [Leaves -> SUBSET Shares]
       /\ mixed' \in BOOLEAN /\ (~mixed' => ~mixed /\ OnePolynomial(used))
       /\ \A m \in D : share'[m] = new[m] /\ seen'[m] = seen[m] \union {new[m]}
       /\ \A m \in Leaves \ D : share'[m] = share[m] /\ seen'[m] = seen[m]
       /\ \A m \in Leaves : seen[m] \subseteq seen'[m]
  BY <1>1, <1>2, <1>11, ResealEffect
<1>14. /\ state' \in [Leaves -> {"absent", "active", "evicted"}] /\ state'[l] = "active"
       /\ \A m \in Leaves \ {l} : state'[m] = state[m]
  BY <1>1, <1>2, <1>3 DEF TypeOK
<1>15. /\ hw' \in [Leaves -> HwKeys] /\ \A m \in Leaves \ {l} : hw'[m] = hw[m]
  BY <1>1, <1>2, <1>3 DEF TypeOK
<1>16. \A q \in Splits : Act(state', q) = IF q = s THEN D ELSE Act(state, q)
  <2>1. l \in Children[s] /\ \A q \in Splits \ {s} : l \notin Children[q]
    BY <1>3, Tree
  <2>2. Act(state', s) = D
    <3>1. \A m : m \in Act(state', s) <=> m \in D
      BY <1>3, <1>5, <1>14, <2>1 DEF Act
    <3> QED BY <3>1
  <2>3. ASSUME NEW q \in Splits \ {s}
        PROVE  Act(state', q) = Act(state, q)
    BY <1>14, <2>1 DEF Act
  <2> QED BY <2>2, <2>3
<1>17. \A m \in Leaves : \A a \in seen[m] : /\ a.deal \in Nat /\ a.deal <= draws
                                            /\ a.deltas \subseteq Nat
  BY <1>2 DEF TypeOK, RowsOk, Known, Shares
<1> HIDE DEF D, n
<1>18. Known(state', share', seen', draws')
  <2>1. ASSUME NEW m \in Leaves
        PROVE  IF state'[m] = "absent" THEN seen'[m] = {} ELSE share'[m] \in seen'[m]
    <3>1. CASE m \in D
      BY <1>5, <1>13, <1>14, <3>1 DEF D
    <3>2. CASE m \notin D
      <4>1. m # l
        BY <3>2 DEF D
      <4> QED BY <1>2, <1>13, <1>14, <3>2, <4>1 DEF RowsOk, Known
    <3> QED BY <3>1, <3>2
  <2>2. ASSUME NEW m \in Leaves, NEW a \in seen'[m]
        PROVE  a.split = Parent[m] /\ a.deal <= draws' /\ \A d \in a.deltas : d <= draws'
    <3>1. CASE a \in seen[m]
      <4>1. a.split = Parent[m] /\ \A d \in a.deltas : d <= draws /\ d \in Nat
        BY <1>2, <1>17, <3>1 DEF RowsOk, Known
      <4> QED BY <1>1, <1>10, <1>17, <3>1, <4>1
    <3>2. CASE m \in D /\ a = new[m]
      <4>1. Parent[m] = s
        BY <1>5, <3>2 DEF D
      <4> QED BY <1>1, <1>10, <1>12, <3>2, <4>1
    <3> QED BY <1>13, <3>1, <3>2
  <2> QED BY <2>1, <2>2 DEF Known
<1>19. Fixed(state', seen')
  <2>1. ASSUME NEW m \in Leaves, Children[Parent[m]] \intersect Splits # {},
               state'[m] # "absent"
        PROVE  m \in Initial /\ seen'[m] = {FirstShare[m]}
    <3>1. m \notin D /\ m # l
      BY <1>1, <1>5, <2>1 DEF D
    <3> QED BY <1>2, <1>13, <1>14, <2>1, <3>1 DEF RowsOk, Fixed
  <2> QED BY <2>1 DEF Fixed
<1>20. Enough(state')
  <2>1. ASSUME NEW q \in Splits
        PROVE  Cardinality(Children[q] \intersect
                             (Splits \union {m \in Leaves : state'[m] = "active"}))
                 >= Threshold[q]
    <3> DEFINE S == Children[q] \intersect (Splits \union {m \in Leaves : state[m] = "active"})
               T == Children[q] \intersect (Splits \union {m \in Leaves : state'[m] = "active"})
    <3>1. S \in SUBSET T /\ T \in SUBSET Children[q]
      BY <1>14
    <3>2. IsFiniteSet(Children[q]) /\ Threshold[q] \in Nat
      BY Tree
    <3>3. Cardinality(S) >= Threshold[q]
      BY <1>2 DEF RowsOk, Enough
    <3> HIDE DEF S, T
    <3>4. IsFiniteSet(T)
      BY <3>1, <3>2, Fewer
    <3>5. Cardinality(S) <= Cardinality(T) /\ Cardinality(S) \in Nat /\ Cardinality(T) \in Nat
      BY <3>1, <3>4, Fewer
    <3>6. Cardinality(T) >= Threshold[q]
      BY <3>2, <3>3, <3>5
    <3> QED BY <3>6 DEF T
  <2> QED BY <2>1 DEF Enough
<1>21. Good(seen', mixed')
  <2>1. ASSUME ~mixed', NEW m \in Leaves, NEW a \in seen'[m]
        PROVE  a.value = "good"
    <3>1. \A k \in Leaves : \A b \in seen[k] : b.value = "good"
      BY <1>2, <1>13, <2>1 DEF RowsOk, Good
    <3>2. \A k \in given : got[k].value = "good"
      BY <1>3, <1>5, <3>1 DEF given
    <3>3. v = "good"
      BY <1>9, <1>13, <2>1, <3>2
    <3> QED BY <1>12, <1>13, <2>1, <3>1, <3>3
  <2> QED BY <2>1 DEF Good
<1>22. Serial => Useless(state', share', seen')
  <2>1. ASSUME Serial, NEW e \in Leaves, NEW k \in Leaves, state'[e] = "evicted",
               k \in Act(state', Parent[e]), NEW a \in seen'[e]
        PROVE  ~SamePolynomial(a, share'[k])
    <3>1. e # l /\ state[e] = "evicted" /\ e \notin D /\ seen'[e] = seen[e]
      BY <1>5, <1>13, <1>14, <2>1 DEF D
    <3>2. Parent[e] \in Splits
      BY Tree
    <3>3. CASE Parent[e] = s
      <4>1. share'[k].deal = draws + 1 /\ a.deal <= draws /\ a.deal \in Nat
        BY <1>4, <1>12, <1>13, <1>16, <1>17, <2>1, <3>1, <3>3
      <4> QED BY <1>10, <4>1 DEF SamePolynomial
    <3>4. CASE Parent[e] # s
      <4>1. k \in Act(state, Parent[e]) /\ Parent[k] # s
        BY <1>16, <2>1, <3>2, <3>4, Tree DEF Act
      <4>2. share'[k] = share[k]
        BY <1>5, <1>13, <2>1, <4>1 DEF D
      <4> QED BY <1>2, <2>1, <3>1, <4>1, <4>2 DEF RowsOk, Useless
    <3> QED BY <3>3, <3>4
  <2> QED BY <2>1 DEF Useless
<1>23. Serial => Dealt(state', share', mixed')
  <2>1. ASSUME Serial, ~mixed', NEW q \in Splits
        PROVE  /\ OnePolynomial({share'[m] : m \in Act(state', q)})
               /\ DistinctPoints(Act(state', q), share')
    <3>1. CASE q = s
      <4>1. Act(state', q) = D
        BY <1>16, <3>1
      <4>2. OnePolynomial({share'[m] : m \in D})
        <5>1. \A m \in D : /\ share'[m].split = s /\ share'[m].deal = draws + 1
                           /\ share'[m].deltas = {}
          BY <1>12, <1>13
        <5> QED BY <5>1 DEF OnePolynomial, SamePolynomial
      <4>3. DistinctPoints(D, share')
        <5>1. n \notin 1..Cardinality(A) /\ n # 0 /\ 0 \notin 1..Cardinality(A)
          BY <1>6 DEF n
        <5>2. \A m \in D : share'[m].x = IF m = l THEN n ELSE Position(A, m)
          BY <1>12, <1>13
        <5>3. \A m \in D : m = l \/ m \in A
          BY DEF D
        <5> QED BY <1>7, <5>1, <5>2, <5>3 DEF DistinctPoints
      <4> QED BY <4>1, <4>2, <4>3
    <3>2. CASE q # s
      <4>1. Act(state', q) = Act(state, q)
        BY <1>16, <3>2
      <4>2. \A m \in Act(state, q) : share'[m] = share[m]
        <5>1. \A m \in Act(state, q) : m \in Leaves /\ Parent[m] = q
          BY Tree DEF Act
        <5> QED BY <1>5, <1>13, <3>2, <5>1 DEF D
      <4>3. OnePolynomial({share[m] : m \in Act(state, q)}) /\ DistinctPoints(Act(state, q), share)
        BY <1>2, <1>13, <2>1 DEF RowsOk, Dealt
      <4> QED BY <4>1, <4>2, <4>3 DEF OnePolynomial, DistinctPoints
    <3> QED BY <3>1, <3>2
  <2> QED BY <2>1 DEF Dealt
<1>24. RowsOk(state', share', seen', draws', mixed')
  BY <1>18, <1>19, <1>20, <1>21, <1>22, <1>23 DEF RowsOk
<1>25. /\ revoked' \in SUBSET HwKeys /\ allow' \in SUBSET (Nodes \X Nodes)
       /\ links' \in SUBSET SUBSET Nodes /\ draws' \in Nat
  BY <1>1, <1>2, <1>10 DEF TypeOK
<1>26. \A m \in Leaves : state[m] # "absent" => state'[m] # "absent" /\ hw'[m] = hw[m]
  BY <1>1, <1>14, <1>15
<1> HIDE DEF RowsOk, CmdOk, l, s, got
<1> QED BY <1>1, <1>13, <1>14, <1>15, <1>24, <1>25, <1>26, Shapes, DoneOk, CommitStep

(* evict_and_refresh: every survivor's share moves to a polynomial that no *)
(* earlier share lies on; the survivors are a quorum.                      *)
LEMMA CommitEvictStep ==
    ASSUME IInv, NEW p \in Procs, CommitEvict(p)
    PROVE  IInv'
<1> DEFINE l == cmd[p].node
           s == Parent[l]
           A == ActiveUnder(s)
           got == cmd[p].got
           D == A \ {l}
           used == {got[m] : m \in D}
           new == [m \in D |-> [got[m] EXCEPT !.deltas = @ \union {draws + 1}]]
           c == [Done EXCEPT !.op = "revoke", !.hw = cmd[p].hw]
<1>1. /\ cmd[p].op = "evict" /\ state[l] = "active"
      /\ Children[s] \intersect Splits = {} /\ Cardinality(D) >= Threshold[s]
      /\ \A m \in D : got[m] # NoShare
      /\ DistinctPoints(D, got) /\ Reseal(new, used)
      /\ state' = [state EXCEPT ![l] = "evicted"]
      /\ draws' = draws + 1 /\ cmd' = [cmd EXCEPT ![p] = c]
      /\ links' \subseteq links /\ allow' \subseteq allow
      /\ UNCHANGED <<hw, revoked>>
  BY DEF CommitEvict, CanEvict, Ready, Unlink, Disallow
<1>2. /\ TypeOK /\ RowsOk(state, share, seen, draws, mixed)
      /\ CmdOk(cmd[p], state, hw, share, seen)
  BY Parts
<1>3. /\ l \in Leaves /\ cmd[p].hw \in HwKeys
      /\ \A m \in Leaves : got[m] = NoShare \/ got[m] \in seen[m]
  BY <1>1, <1>2 DEF CmdOk
<1>4. /\ c \in Commands /\ CmdOk(c, state', hw', share', seen')
  BY <1>3, RevokeOk
<1> HIDE DEF c
<1>5. s \in Splits /\ l \in Children[s] /\ \A q \in Splits \ {s} : l \notin Children[q]
  BY <1>3, Tree
<1>6. /\ A = Act(state, s) /\ D \in SUBSET Leaves /\ l \notin D
      /\ \A m \in D : Parent[m] = s /\ state[m] = "active"
  BY <1>5, Tree DEF ActiveUnder, Active, Act
<1> HIDE DEF A
<1>7. draws \in Nat
  BY <1>2 DEF TypeOK
<1>8. \A m \in D : got[m] \in seen[m] /\ got[m] \in Shares
  BY <1>1, <1>2, <1>3, <1>6 DEF TypeOK
<1> HIDE DEF got, D
<1>9. ASSUME NEW m \in D
      PROVE  /\ new[m] \in Shares /\ new[m].split = got[m].split
             /\ new[m].deal = got[m].deal /\ new[m].value = got[m].value
             /\ new[m].x = got[m].x
             /\ new[m].deltas = got[m].deltas \union {draws + 1}
  <2>1. new[m] = [got[m] EXCEPT !.deltas = got[m].deltas \union {draws + 1}]
    OBVIOUS
  <2>2. got[m].deltas \union {draws + 1} \in SUBSET Nat
    BY <1>7, <1>8 DEF Shares
  <2> HIDE DEF new
  <2> QED BY <1>8, <2>1, <2>2 DEF Shares
<1>10. new \in [D -> Shares]
  BY <1>9
<1> HIDE DEF new
<1>11. /\ share' \in [Leaves -> Shares] /\ seen' \in [Leaves -> SUBSET Shares]
       /\ mixed' \in BOOLEAN /\ (~mixed' => ~mixed /\ OnePolynomial(used))
       /\ \A m \in D : share'[m] = new[m] /\ seen'[m] = seen[m] \union {new[m]}
       /\ \A m \in Leaves \ D : share'[m] = share[m] /\ seen'[m] = seen[m]
       /\ \A m \in Leaves : seen[m] \subseteq seen'[m]
  BY <1>1, <1>2, <1>6, <1>10, ResealEffect
<1>12. /\ state' \in [Leaves -> {"absent", "active", "evicted"}] /\ state'[l] = "evicted"
       /\ \A m \in Leaves \ {l} : state'[m] = state[m]
  BY <1>1, <1>2, <1>3 DEF TypeOK
<1>13. Act(state', s) = D /\ \A q \in Splits \ {s} : Act(state', q) = Act(state, q)
  <2>1. \A m : m \in Act(state', s) <=> m \in D
    BY <1>3, <1>6, <1>12 DEF Act, D
  <2>2. ASSUME NEW q \in Splits \ {s}
        PROVE  Act(state', q) = Act(state, q)
    BY <1>3, <1>5, <1>12 DEF Act
  <2> QED BY <2>1, <2>2
<1>14. \A m \in Leaves : \A a \in seen[m] :
         /\ a.split = Parent[m] /\ a.deal \in Nat /\ a.deal <= draws
         /\ \A d \in a.deltas : d \in Nat /\ d <= draws
  BY <1>2 DEF TypeOK, RowsOk, Known, Shares
<1>15. Known(state', share', seen', draws')
  <2>1. ASSUME NEW m \in Leaves
        PROVE  IF state'[m] = "absent" THEN seen'[m] = {} ELSE share'[m] \in seen'[m]
    <3>1. CASE m \in D
      BY <1>6, <1>11, <1>12, <3>1
    <3>2. CASE m \notin D
      BY <1>1, <1>2, <1>11, <1>12, <3>2 DEF RowsOk, Known
    <3> QED BY <3>1, <3>2
  <2>2. ASSUME NEW m \in Leaves, NEW a \in seen'[m]
        PROVE  a.split = Parent[m] /\ a.deal <= draws' /\ \A d \in a.deltas : d <= draws'
    <3>1. CASE a \in seen[m]
      BY <1>1, <1>7, <1>14, <3>1
    <3>2. CASE m \in D /\ a = new[m]
      <4>1. /\ a.split = Parent[m] /\ a.deal = got[m].deal
            /\ a.deltas = got[m].deltas \union {draws + 1}
            /\ got[m] \in seen[m]
        BY <1>8, <1>9, <1>14, <3>2
      <4> QED BY <1>1, <1>7, <1>14, <4>1
    <3> QED BY <1>11, <3>1, <3>2
  <2> QED BY <2>1, <2>2 DEF Known
<1>16. Fixed(state', seen')
  <2>1. ASSUME NEW m \in Leaves, Children[Parent[m]] \intersect Splits # {},
               state'[m] # "absent"
        PROVE  m \in Initial /\ seen'[m] = {FirstShare[m]}
    <3>1. m \notin D /\ m # l
      BY <1>1, <1>6, <2>1
    <3> QED BY <1>2, <1>11, <1>12, <2>1, <3>1 DEF RowsOk, Fixed
  <2> QED BY <2>1 DEF Fixed
<1>17. Enough(state')
  <2>1. ASSUME NEW q \in Splits
        PROVE  Cardinality(Children[q] \intersect
                             (Splits \union {m \in Leaves : state'[m] = "active"}))
                 >= Threshold[q]
    <3>1. CASE q = s
      <4>1. Children[s] \intersect (Splits \union {m \in Leaves : state'[m] = "active"}) = D
        BY <1>1, <1>13 DEF Act
      <4> QED BY <1>1, <3>1, <4>1
    <3>2. CASE q # s
      <4>1. Children[q] \intersect (Splits \union {m \in Leaves : state'[m] = "active"})
              = Children[q] \intersect (Splits \union {m \in Leaves : state[m] = "active"})
        BY <1>5, <1>12, <3>2
      <4> QED BY <1>2, <4>1 DEF RowsOk, Enough
    <3> QED BY <3>1, <3>2
  <2> QED BY <2>1 DEF Enough
<1>18. Good(seen', mixed')
  <2>1. ASSUME ~mixed', NEW m \in Leaves, NEW a \in seen'[m]
        PROVE  a.value = "good"
    <3>1. \A k \in Leaves : \A b \in seen[k] : b.value = "good"
      BY <1>2, <1>11, <2>1 DEF RowsOk, Good
    <3> QED BY <1>8, <1>9, <1>11, <2>1, <3>1
  <2> QED BY <2>1 DEF Good
<1>19. Serial => Useless(state', share', seen')
  <2>1. ASSUME Serial, NEW e \in Leaves, NEW k \in Leaves, state'[e] = "evicted",
               k \in Act(state', Parent[e]), NEW a \in seen'[e]
        PROVE  ~SamePolynomial(a, share'[k])
    <3>1. e \notin D /\ seen'[e] = seen[e] /\ (e # l => state[e] = "evicted")
      BY <1>6, <1>11, <1>12, <2>1
    <3>2. Parent[e] \in Splits
      BY Tree
    <3>3. CASE Parent[e] = s
      <4>1. k \in D
        BY <1>13, <2>1, <3>3
      <4>2. draws + 1 \in share'[k].deltas
        BY <1>9, <1>11, <4>1
      <4>3. draws + 1 \notin a.deltas
        BY <1>7, <1>14, <2>1, <3>1
      <4> QED BY <4>2, <4>3 DEF SamePolynomial
    <3>4. CASE Parent[e] # s
      <4>1. k \in Act(state, Parent[e]) /\ Parent[k] # s
        BY <1>13, <2>1, <3>2, <3>4, Tree DEF Act
      <4>2. share'[k] = share[k] /\ e # l
        BY <1>6, <1>11, <2>1, <3>4, <4>1
      <4> QED BY <1>2, <2>1, <3>1, <4>1, <4>2 DEF RowsOk, Useless
    <3> QED BY <3>3, <3>4
  <2> QED BY <2>1 DEF Useless
<1>20. Serial => Dealt(state', share', mixed')
  <2>1. ASSUME Serial, ~mixed', NEW q \in Splits
        PROVE  /\ OnePolynomial({share'[m] : m \in Act(state', q)})
               /\ DistinctPoints(Act(state', q), share')
    <3>1. CASE q = s
      <4>1. Act(state', q) = D
        BY <1>13, <3>1
      <4>2. \A m, k \in D : SamePolynomial(share'[m], share'[k])
        <5>1. \A m, k \in D : SamePolynomial(got[m], got[k])
          BY <1>11, <2>1 DEF OnePolynomial, used
        <5>2. ASSUME NEW m \in D
              PROVE  /\ share'[m].split = got[m].split /\ share'[m].deal = got[m].deal
                     /\ share'[m].deltas = got[m].deltas \union {draws + 1}
          BY <1>9, <1>11
        <5>3. ASSUME NEW m \in D, NEW k \in D
              PROVE  SamePolynomial(share'[m], share'[k])
          <6>1. /\ got[m].split = got[k].split /\ got[m].deal = got[k].deal
                /\ got[m].deltas = got[k].deltas
            BY <5>1 DEF SamePolynomial
          <6>2. /\ share'[m].split = got[m].split /\ share'[m].deal = got[m].deal
                /\ share'[m].deltas = got[m].deltas \union {draws + 1}
            BY <5>2
          <6>3. /\ share'[k].split = got[k].split /\ share'[k].deal = got[k].deal
                /\ share'[k].deltas = got[k].deltas \union {draws + 1}
            BY <5>2
          <6>4. /\ share'[m].split = share'[k].split
                /\ share'[m].deal = share'[k].deal
                /\ share'[m].deltas = share'[k].deltas
            BY <6>1, <6>2, <6>3
          <6> QED BY <6>4 DEF SamePolynomial
        <5> QED BY <5>3
      <4>3. OnePolynomial({share'[m] : m \in D})
        BY <4>2 DEF OnePolynomial
      <4>4. DistinctPoints(D, share')
        BY <1>1, <1>9, <1>11 DEF DistinctPoints
      <4> QED BY <4>1, <4>3, <4>4
    <3>2. CASE q # s
      <4>1. Act(state', q) = Act(state, q)
        BY <1>13, <3>2
      <4>2. \A m \in Act(state, q) : share'[m] = share[m]
        <5>1. \A m \in Act(state, q) : m \in Leaves /\ Parent[m] = q
          BY Tree DEF Act
        <5> QED BY <1>6, <1>11, <3>2, <5>1
      <4>3. OnePolynomial({share[m] : m \in Act(state, q)}) /\ DistinctPoints(Act(state, q), share)
        BY <1>2, <1>11, <2>1 DEF RowsOk, Dealt
      <4> QED BY <4>1, <4>2, <4>3 DEF OnePolynomial, DistinctPoints
    <3> QED BY <3>1, <3>2
  <2> QED BY <2>1 DEF Dealt
<1>21. RowsOk(state', share', seen', draws', mixed')
  BY <1>15, <1>16, <1>17, <1>18, <1>19, <1>20 DEF RowsOk
<1>22. /\ revoked' \in SUBSET HwKeys /\ allow' \in SUBSET (Nodes \X Nodes)
       /\ links' \in SUBSET SUBSET Nodes /\ draws' \in Nat /\ hw' \in [Leaves -> HwKeys]
  BY <1>1, <1>2, <1>7 DEF TypeOK
<1>23. \A m \in Leaves : state[m] # "absent" => state'[m] # "absent" /\ hw'[m] = hw[m]
  BY <1>1, <1>12
<1> HIDE DEF RowsOk, CmdOk, l, s, used
<1> QED BY <1>1, <1>4, <1>11, <1>12, <1>21, <1>22, <1>23, CommitStep

-----------------------------------------------------------------------------
(* The invariant.                                                          *)

LEMMA FirstShares ==
    ASSUME NEW n \in Nodes
    PROVE  /\ FirstShare[n] \in Shares
           /\ FirstShare[n].split = Parent[n] /\ FirstShare[n].deal = 0
           /\ FirstShare[n].value = "good" /\ FirstShare[n].deltas = {}
           /\ FirstShare[n].x =
                Position(Children[Parent[n]] \intersect (Splits \union Initial), n)
<1> DEFINE R == Children[Parent[n]] \intersect (Splits \union Initial)
<1>1. Parent[n] \in Splits /\ n \in Nat
  BY Tree
<1>2. R \in SUBSET Children[Parent[n]] /\ R \in SUBSET Nat /\ IsFiniteSet(Children[Parent[n]])
  BY <1>1, Tree
<1>3. IsFiniteSet(R)
  BY <1>2, Fewer
<1>4. Position(R, n) \in Nat
  BY <1>1, <1>2, <1>3, Positions
<1> HIDE DEF R
<1> DEFINE a == [split |-> Parent[n], deal |-> 0, value |-> "good", deltas |-> {},
                 x |-> Position(R, n)]
<1>5. /\ a \in Shares /\ a.split = Parent[n] /\ a.deal = 0
      /\ a.value = "good" /\ a.deltas = {} /\ a.x = Position(R, n)
  BY <1>1, <1>4 DEF Shares
<1>6. FirstShare[n] = a
  BY DEF FirstShare, R
<1> HIDE DEF a
<1> QED BY <1>5, <1>6 DEF R

(* The first deal: distinct points, none of them 0.                        *)
LEMMA FirstPoints ==
    ASSUME NEW s \in Splits
    PROVE  LET R == Children[s] \intersect (Splits \union Initial)
           IN  /\ \A n \in R : FirstShare[n].x # 0
               /\ \A m, n \in R : FirstShare[m].x = FirstShare[n].x => m = n
<1> DEFINE R == Children[s] \intersect (Splits \union Initial)
<1>1. R \in SUBSET Children[s] /\ R \in SUBSET Nat /\ IsFiniteSet(Children[s])
  BY Tree
<1>2. IsFiniteSet(R)
  BY <1>1, Fewer
<1>3. \A n \in R : n \in Nodes /\ Parent[n] = s
  BY Tree
<1>4. ASSUME NEW n \in R
      PROVE  FirstShare[n].x = Position(R, n)
  <2>1. n \in Nodes /\ Children[Parent[n]] \intersect (Splits \union Initial) = R
    BY <1>3
  <2> QED BY <2>1, FirstShares
<1> HIDE DEF R
<1>5. Cardinality(R) \in Nat
  BY <1>2, FS_CardinalityType
<1>6. ASSUME NEW n \in R
      PROVE  FirstShare[n].x # 0
  <2>1. Position(R, n) \in 1..Cardinality(R)
    BY <1>1, <1>2, Positions
  <2> QED BY <1>4, <1>5, <2>1
<1>7. ASSUME NEW m \in R, NEW n \in R, FirstShare[m].x = FirstShare[n].x
      PROVE  m = n
  <2>1. Position(R, m) = Position(R, n)
    BY <1>4, <1>7
  <2> QED BY <1>1, <1>2, <2>1, Positions
<1> QED BY <1>6, <1>7 DEF R

LEMMA InitInv == Init => IInv
<1> SUFFICES ASSUME Init
             PROVE  IInv
  OBVIOUS
<1>1. TypeOK
  <2>0. \A l \in Leaves : FirstShare[l] \in Shares /\ NoShare \in Shares
    BY Tree, FirstShares, Shapes
  <2>1. share \in [Leaves -> Shares] /\ seen \in [Leaves -> SUBSET Shares]
    BY <2>0 DEF Init
  <2>2. /\ state \in [Leaves -> {"absent", "active", "evicted"}]
        /\ cmd \in [Procs -> Commands] /\ hw \in [Leaves -> HwKeys]
    BY Shapes, TreeAssumption DEF Init
  <2> QED BY <2>1, <2>2 DEF Init, TypeOK
<1>2. \A p \in Procs : CmdOk(cmd[p], state, hw, share, seen)
  BY Shapes DEF Init, CmdOk
<1>3. /\ \A l \in Leaves \ Initial : state[l] = "absent" /\ seen[l] = {}
      /\ \A l \in Initial : /\ l \in Leaves /\ l \in Nodes /\ state[l] = "active"
                            /\ share[l] = FirstShare[l] /\ seen[l] = {FirstShare[l]}
      /\ draws = 0 /\ mixed = FALSE
  BY TreeAssumption, Tree DEF Init
<1>4. ASSUME NEW l \in Initial
      PROVE  /\ FirstShare[l].split = Parent[l] /\ FirstShare[l].deal = 0
             /\ FirstShare[l].deltas = {} /\ FirstShare[l].value = "good"
  <2>1. l \in Nodes
    BY <1>3
  <2> QED BY <2>1, FirstShares
<1>5. Known(state, share, seen, draws)
  BY <1>3, <1>4 DEF Known
<1>6. Fixed(state, seen) /\ Good(seen, mixed)
  BY <1>3, <1>4 DEF Fixed, Good
<1>7. Enough(state)
  <2>1. ASSUME NEW s \in Splits
        PROVE  Cardinality(Children[s] \intersect
                             (Splits \union {l \in Leaves : state[l] = "active"}))
                 >= Threshold[s]
    <3> DEFINE ch == {n \in Children[s] : n \in Splits \union Initial}
    <3>1. Children[s] \intersect (Splits \union {l \in Leaves : state[l] = "active"}) = ch
      BY <1>3
    <3>2. Threshold[s] <= Cardinality(ch)
      BY TreeAssumption
    <3>3. Threshold[s] \in Nat /\ Cardinality(ch) \in Nat
      <4>1. IsFiniteSet(Children[s]) /\ ch \in SUBSET Children[s] /\ Threshold[s] \in Nat
        BY Tree
      <4> QED BY <4>1, Fewer
    <3> HIDE DEF ch
    <3> QED BY <3>1, <3>2, <3>3
  <2> QED BY <2>1 DEF Enough
<1>8. Useless(state, share, seen)
  BY <1>3 DEF Useless
<1>9. Dealt(state, share, mixed)
  <2>1. ASSUME NEW s \in Splits
        PROVE  /\ OnePolynomial({share[l] : l \in Act(state, s)})
               /\ DistinctPoints(Act(state, s), share)
    <3>1. \A l \in Act(state, s) : l \in Initial /\ l \in Children[s] /\ Parent[l] = s
      BY <1>3, Tree DEF Act
    <3>2. OnePolynomial({share[l] : l \in Act(state, s)})
      <4>1. ASSUME NEW l \in Act(state, s)
            PROVE  share[l].split = s /\ share[l].deal = 0 /\ share[l].deltas = {}
        BY <1>3, <1>4, <3>1
      <4> QED BY <4>1 DEF OnePolynomial, SamePolynomial
    <3>3. DistinctPoints(Act(state, s), share)
      BY <1>3, <3>1, FirstPoints DEF DistinctPoints
    <3> QED BY <3>2, <3>3
  <2> QED BY <2>1 DEF Dealt
<1>10. RowsOk(state, share, seen, draws, mixed)
  BY <1>5, <1>6, <1>7, <1>8, <1>9 DEF RowsOk
<1> QED BY <1>1, <1>2, <1>10, Parts

LEMMA NextInv == IInv /\ [Next]_vars => IInv'
<1> SUFFICES ASSUME IInv, [Next]_vars
             PROVE  IInv'
  OBVIOUS
<1>1. ASSUME NEW p \in Procs, Start(p)
      PROVE  IInv'
  BY <1>1, StartAddStep, StartRevokeStep, RebindReadStep DEF Start
<1>2. ASSUME NEW p \in Procs, Gather(p)
      PROVE  IInv'
  BY <1>2, CollectStep DEF Gather
<1>3. ASSUME NEW p \in Procs, Commit(p)
      PROVE  IInv'
  BY <1>3, CommitAddStep, CommitEvictStep, RevokeKeyStep, RebindWriteStep, LinkStep,
     DropBindingsStep DEF Commit
<1>4. ASSUME NEW p \in Procs, Fail(p)
      PROVE  IInv'
  BY <1>4, FailStep
<1>5. ASSUME NEW p \in Procs, NEW a \in Pairable, NEW b \in Pairable, Bridge(p, a, b)
      PROVE  IInv'
  BY <1>5, BridgeStep
<1>6. CASE UNCHANGED vars
  <2>1. TypeOK'
    BY <1>6 DEF IInv, TypeOK, vars, rows, pairs, hist
  <2>2. RowsOk(state', share', seen', draws', mixed')
    BY <1>6, Parts DEF vars, rows, pairs, hist
  <2>3. \A p \in Procs : CmdOk(cmd'[p], state', hw', share', seen')
    BY <1>6, Parts DEF vars, rows, pairs, hist
  <2> QED BY <2>1, <2>2, <2>3, PartsNext
<1> QED BY <1>1, <1>2, <1>3, <1>4, <1>5, <1>6 DEF Next

(* The inductive invariant holds in every reachable state.                 *)
THEOREM Inductive == Spec => []IInv
BY InitInv, NextInv, PTL DEF Spec

(* Rows, commands in progress and pairings have their types: add never     *)
(* deals a value that was not recovered, and rebind never writes a key     *)
(* that is none.                                                           *)
THEOREM TypeCorrect == Spec => []TypeOK
<1>1. IInv => TypeOK
  BY DEF IInv
<1> QED BY <1>1, Inductive, PTL

(* No share that an evicted leaf ever had lies on the polynomial of a      *)
(* sibling's share, whatever raw shares evict_and_refresh is given, as     *)
(* long as no rebind runs beside another command.                          *)
THEOREM EvictedSafe == Serial => (Spec => []EvictedShareUseless)
<1> SUFFICES ASSUME Serial
             PROVE  Spec => []EvictedShareUseless
  OBVIOUS
<1>1. IInv => EvictedShareUseless
  BY DEF IInv
<1> QED BY <1>1, Inductive, PTL

(* A split none of whose splits is left out has its quorum, and so, the    *)
(* tree having no cycle, none is left out: the active leaves qualify.      *)
LEMMA ActiveQualify == IInv => SecretStaysReachable
<1> SUFFICES ASSUME IInv, NEW T \in SUBSET Splits,
                    \A s \in Splits :
                       Cardinality(Children[s] \intersect (Active \union T)) >= Threshold[s]
                         => s \in T,
                    Root \notin T
             PROVE  FALSE
  BY Tree DEF SecretStaysReachable, Qualified, Quorums
<1> DEFINE U == Splits \ T
<1>1. PICK s \in U : Children[s] \intersect U = {}
  <2>1. U \in SUBSET Splits /\ U # {}
    BY Tree
  <2> QED BY <2>1, TreeAssumption
<1> DEFINE a == Children[s] \intersect (Splits \union Active)
           b == Children[s] \intersect (Active \union T)
<1>2. a \in SUBSET b /\ b \in SUBSET Children[s] /\ IsFiniteSet(Children[s])
  BY <1>1, Tree
<1>3. IsFiniteSet(b)
  BY <1>2, Fewer
<1>4. Cardinality(a) >= Threshold[s] /\ Threshold[s] \in Nat
  BY Tree DEF IInv, Quorate
<1>5. s \in Splits /\ s \notin T /\ (Cardinality(b) >= Threshold[s] => s \in T)
  OBVIOUS
<1> HIDE DEF a, b
<1>6. /\ Cardinality(a) \in Nat /\ Cardinality(b) \in Nat
      /\ Cardinality(a) <= Cardinality(b)
  BY <1>2, <1>3, Fewer
<1> QED BY <1>4, <1>5, <1>6

(* However often leaves are evicted, and whatever runs beside, the leaves  *)
(* that stay are a quorum of the root: evict_and_refresh's InvalidThreshold*)
(* check is enough.                                                        *)
THEOREM SecretSafe == Spec => []SecretStaysReachable
BY ActiveQualify, Inductive, PTL

(* The pairings that a step removes.                                       *)
LEMMA PairsStep ==
    ASSUME Serial, IInv, Next, NEW k \in links \ links'
    PROVE  \/ cmd' = cmd /\ rows' = rows
           \/ \E p \in Procs : cmd[p].op = "deny" /\ k = {cmd[p].node, cmd[p].peer}
           \/ \E p \in Procs : /\ cmd'[p].op \in {"unbind", "revoke"}
                               /\ \E l \in k \intersect Leaves : hw[l] = cmd'[p].hw
<1>0. cmd \in [Procs -> Commands] /\ Active \subseteq Leaves
  BY DEF IInv, TypeOK, Active
<1>1. ASSUME NEW p \in Procs, NEW h \in HwKeys, StartRevoke(p, h)
      PROVE  /\ cmd'[p].op = "unbind" /\ cmd'[p].hw = h
             /\ \E l \in k \intersect Leaves : hw[l] = h
  <2>1. cmd'[p].op = "unbind" /\ cmd'[p].hw = h
    BY <1>0, <1>1 DEF StartRevoke, Done
  <2>2. \E l \in k \intersect Active : hw[l] = h
    BY <1>1 DEF StartRevoke, Unlink
  <2> QED BY <1>0, <2>1, <2>2
<1>2. ASSUME NEW p \in Procs, CommitEvict(p)
      PROVE  /\ cmd'[p].op = "revoke"
             /\ \E l \in k \intersect Leaves : hw[l] = cmd'[p].hw
  <2>1. cmd'[p].op = "revoke" /\ cmd'[p].hw = cmd[p].hw
    BY <1>0, <1>2 DEF CommitEvict, Done
  <2>2. cmd[p].node \in k
    BY <1>2 DEF CommitEvict, Unlink
  <2>3. cmd[p].node \in Leaves /\ hw[cmd[p].node] = cmd[p].hw
    BY <1>2 DEF CommitEvict, Ready, IInv, CommandsFit, RevokedKeysStay
  <2> QED BY <2>1, <2>2, <2>3
<1>3. ASSUME NEW p \in Procs, DenyLink(p)
      PROVE  cmd[p].op = "deny" /\ k = {cmd[p].node, cmd[p].peer}
  BY <1>3 DEF DenyLink, Ready
<1>4. ASSUME NEW p \in Procs, Start(p)
      PROVE  \E h \in HwKeys : StartRevoke(p, h)
  BY <1>4 DEF Start, StartAdd, RebindRead, pairs
<1>5. ASSUME NEW p \in Procs, Gather(p) \/ Fail(p)
      PROVE  FALSE
  BY <1>5 DEF Gather, Collect, Fail, pairs
<1>6. ASSUME NEW p \in Procs, Commit(p)
      PROVE  CommitEvict(p) \/ DenyLink(p)
  BY <1>6 DEF Commit, CommitAdd, RevokeKey, RebindWrite, AddBridgeWrite, DropBindings, pairs
<1>7. ASSUME NEW p \in Procs, NEW a \in Pairable, NEW b \in Pairable, Bridge(p, a, b)
      PROVE  cmd' = cmd /\ rows' = rows
  BY <1>7 DEF Bridge, AllowBridge, DenyBridge, AddBridgeRead, RemoveBridge, pairs
<1> QED BY <1>1, <1>2, <1>3, <1>4, <1>5, <1>6, <1>7 DEF Next

(* A pairing goes when it is removed or denied, or when the key of one of  *)
(* its leaves is being revoked: no add, refresh or rebind takes one away,  *)
(* as long as no rebind runs beside a revocation.                          *)
THEOREM PairsSafe == Serial => (Spec => SurvivorPairsStay)
<1> SUFFICES ASSUME Serial
             PROVE  Spec => SurvivorPairsStay
  OBVIOUS
<1>1. IInv /\ [Next]_vars => [PairsGoByRight]_vars
  BY PairsStep DEF PairsGoByRight
<1> QED BY <1>1, Inductive, PTL DEF Spec, SurvivorPairsStay

-----------------------------------------------------------------------------
(* What reconstruction makes of the shares.                                *)

(* The splits that S may reconstruct are those with a quorum in S and in   *)
(* one another.                                                            *)
LEMMA QuorumsFix ==
    ASSUME NEW S, NEW s \in Splits
    PROVE  /\ Quorums(S) \subseteq Splits
           /\ Cardinality(Children[s] \intersect (S \union Quorums(S))) >= Threshold[s]
                <=> s \in Quorums(S)
<1> DEFINE Q == Quorums(S)
           In(q, T) == Children[q] \intersect (S \union T)
           Settled(T) == \A q \in Splits : Cardinality(In(q, T)) >= Threshold[q] => q \in T
<1>1. Q = {q \in Splits : \A T \in SUBSET Splits : Settled(T) => q \in T}
  BY DEF Quorums
<1> HIDE DEF Q
<1>2. ASSUME NEW q \in Splits, NEW T, NEW U, T \subseteq U,
             Cardinality(In(q, T)) >= Threshold[q]
      PROVE  Cardinality(In(q, U)) >= Threshold[q]
  <2>1. /\ In(q, T) \in SUBSET In(q, U) /\ In(q, U) \in SUBSET Children[q]
        /\ IsFiniteSet(Children[q]) /\ Threshold[q] \in Nat
    BY <1>2, Tree
  <2>2. IsFiniteSet(In(q, U))
    BY <2>1, Fewer
  <2> HIDE DEF In
  <2>3. /\ Cardinality(In(q, T)) \in Nat /\ Cardinality(In(q, U)) \in Nat
        /\ Cardinality(In(q, T)) <= Cardinality(In(q, U))
    BY <2>1, <2>2, Fewer
  <2> QED BY <1>2, <2>1, <2>3
<1> HIDE DEF In
<1>3. ASSUME NEW q \in Splits, Cardinality(In(q, Q)) >= Threshold[q]
      PROVE  q \in Q
  <2>1. ASSUME NEW T \in SUBSET Splits, Settled(T)
        PROVE  q \in T
    <3>1. Q \subseteq T
      BY <1>1, <2>1
    <3> HIDE DEF Settled
    <3>2. Cardinality(In(q, T)) >= Threshold[q]
      BY <1>2, <1>3, <3>1
    <3> QED BY <2>1, <3>2 DEF Settled
  <2> QED BY <1>1, <2>1
<1>4. ASSUME s \in Q, ~(Cardinality(In(s, Q)) >= Threshold[s])
      PROVE  FALSE
  <2> DEFINE T == Q \ {s}
  <2>1. T \in SUBSET Splits /\ T \subseteq Q
    BY <1>1
  <2>2. ASSUME NEW q \in Splits, Cardinality(In(q, T)) >= Threshold[q]
        PROVE  q \in T
    <3>1. Cardinality(In(q, Q)) >= Threshold[q]
      BY <1>2, <2>1, <2>2
    <3> QED BY <1>3, <1>4, <3>1
  <2>3. Settled(T)
    BY <2>2
  <2> HIDE DEF Settled
  <2> QED BY <1>1, <1>4, <2>1, <2>3
<1> QED BY <1>1, <1>3, <1>4 DEF Q, In

(* A split's value depends on what its children resolve to, and on nothing *)
(* else.                                                                   *)
LEMMA ResolveDepends ==
    ASSUME NEW given, NEW s \in Splits, NEW R1, NEW R2, \A c \in Children[s] : R1[c] = R2[c]
    PROVE  Resolve(given, R1, s) = Resolve(given, R2, s)
<1> DEFINE D1 == {c \in Children[s] : R1[c] # NoShare}
           D2 == {c \in Children[s] : R2[c] # NoShare}
           P1 == {R1[c] : c \in FirstOf(D1, Threshold[s])}
           P2 == {R2[c] : c \in FirstOf(D2, Threshold[s])}
<1>1. s \notin Leaves
  BY Tree
<1>2. D1 = D2
  OBVIOUS
<1>3. FirstOf(D2, Threshold[s]) \subseteq Children[s]
  BY DEF FirstOf
<1>4. P1 = P2
  <2> HIDE DEF D1, D2
  <2> QED BY <1>2, <1>3
<1>5. /\ Resolve(given, R1, s) = AsShare(s, Recover(P1, Threshold[s]))
      /\ Resolve(given, R2, s) = AsShare(s, Recover(P2, Threshold[s]))
  BY <1>1 DEF Resolve
<1> HIDE DEF P1, P2
<1> QED BY <1>4, <1>5

(* The recursion of reconstruct_node has one solution: two that differ     *)
(* would differ at a split whose children they agree on.                   *)
LEMMA ReconstructIs ==
    ASSUME NEW given, NEW W, W = [n \in Nodes |-> Resolve(given, W, n)]
    PROVE  Reconstruct(given) = W
<1> DEFINE Solves(R) == R = [n \in Nodes |-> Resolve(given, R, n)]
<1>1. Reconstruct(given) = CHOOSE R : Solves(R)
  BY DEF Reconstruct
<1>2. ASSUME NEW R, Solves(R)
      PROVE  R = W
  <2>1. \A n \in Nodes : R[n] = Resolve(given, R, n) /\ W[n] = Resolve(given, W, n)
    BY <1>2
  <2> DEFINE D == {s \in Splits : R[s] # W[s]}
  <2>2. \A l \in Leaves : R[l] = W[l]
    BY <2>1, Tree DEF Resolve
  <2>3. D = {}
    <3> SUFFICES ASSUME D # {}
                 PROVE  FALSE
      OBVIOUS
    <3>1. PICK s \in D : Children[s] \intersect D = {}
      <4>1. D \in SUBSET Splits
        OBVIOUS
      <4> QED BY <4>1, TreeAssumption
    <3>2. \A c \in Children[s] : R[c] = W[c]
      BY <2>2, <3>1, Tree
    <3>3. Resolve(given, R, s) = Resolve(given, W, s)
      BY <3>2, ResolveDepends
    <3> QED BY <2>1, <3>1, <3>3, Tree
  <2>4. \A n \in Nodes : R[n] = W[n]
    BY <2>2, <2>3, Tree
  <2>5. /\ R = [n \in Nodes |-> R[n]] /\ W = [n \in Nodes |-> W[n]]
    BY <1>2
  <2> QED BY <2>4, <2>5
<1>3. Solves(W)
  OBVIOUS
<1> HIDE DEF Solves
<1> QED BY <1>1, <1>2, <1>3

(* What the leaves of S make of every node: a leaf's own share, and the    *)
(* secret of each split they have a quorum of.                             *)
Value(S) ==
    [n \in Nodes |->
       IF n \in Leaves THEN IF n \in S THEN share[n] ELSE NoShare
       ELSE IF n \in Quorums(S) THEN AsShare(n, "good") ELSE NoShare]

LEMMA GoodShare ==
    ASSUME NEW n \in Nodes
    PROVE  LET a == AsShare(n, "good")
           IN  /\ a.split = Parent[n] /\ a.deal = 0 /\ a.value = "good" /\ a.deltas = {}
               /\ a.x = FirstShare[n].x
<1> DEFINE a == AsShare(n, "good")
<1>1. a = [FirstShare[n] EXCEPT !.value = "good"]
  BY DEF AsShare
<1>2. FirstShare[n] \in Shares
  BY FirstShares
<1>3. /\ a.split = FirstShare[n].split /\ a.deal = FirstShare[n].deal /\ a.value = "good"
      /\ a.deltas = FirstShare[n].deltas /\ a.x = FirstShare[n].x
  BY <1>1, <1>2 DEF Shares
<1> HIDE DEF a
<1> QED BY <1>3, FirstShares DEF a

(* The children of one split that are resolved hold points of the one      *)
(* polynomial that hides its secret.  Under a split with splits below it   *)
(* that is still the first deal.                                           *)
LEMMA Siblings ==
    ASSUME IInv, Serial, ~mixed, NEW S \in SUBSET Active, NEW s \in Splits,
           NEW V, V = Value(S)
    PROVE  /\ {c \in Children[s] : V[c] # NoShare} = Children[s] \intersect (S \union Quorums(S))
           /\ \A c \in Children[s] \intersect (S \union Quorums(S)) :
                 V[c].value = "good" /\ V[c].x # 0
           /\ \A c, d \in Children[s] \intersect (S \union Quorums(S)) :
                 /\ SamePolynomial(V[c], V[d])
                 /\ V[c].x = V[d].x => c = d
<1> DEFINE Q == Quorums(S)
           R == Children[s] \intersect (S \union Q)
           Under == Children[s] \intersect (Splits \union Initial)
<1>1. Q \subseteq Splits /\ S \subseteq Leaves /\ S \subseteq Active
  BY QuorumsFix DEF Active
<1>2. /\ \A c \in Children[s] : c \in Nodes /\ Parent[c] = s
      /\ \A c \in Leaves : c \in Nodes /\ c \notin Splits
      /\ \A c \in Nodes : c \in Splits \/ c \in Leaves
  BY Tree
<1> HIDE DEF Q
<1>3. ASSUME NEW c \in Children[s]
      PROVE  /\ c \in S => V[c] = share[c]
             /\ c \in Q => V[c] = AsShare(c, "good")
             /\ c \notin S /\ c \notin Q => V[c] = NoShare
  BY <1>1, <1>2 DEF Value, Q
<1>4. \A n \in Under : FirstShare[n].x # 0
  BY FirstPoints
<1>5. \A m, n \in Under : FirstShare[m].x = FirstShare[n].x => m = n
  BY FirstPoints
<1>6. ASSUME NEW c \in Children[s], c \in Q
      PROVE  /\ V[c].split = s /\ V[c].deal = 0 /\ V[c].value = "good"
             /\ V[c].deltas = {} /\ V[c].x = FirstShare[c].x
             /\ c \in Under
  BY <1>1, <1>2, <1>3, <1>6, GoodShare
<1>7. ASSUME NEW c \in Children[s], c \in S
      PROVE  /\ c \in ActiveUnder(s) /\ share[c] \in seen[c] /\ state[c] # "absent"
             /\ V[c] = share[c] /\ V[c].value = "good" /\ V[c].x # 0
  <2>1. c \in ActiveUnder(s) /\ c \in Leaves /\ state[c] = "active"
    BY <1>1, <1>7 DEF ActiveUnder, Active
  <2>2. share[c] \in seen[c]
    BY <2>1 DEF IInv, SharesKnown
  <2>3. share[c].value = "good" /\ share[c].x # 0
    BY <2>1, <2>2 DEF IInv, SeenGood, OneDeal, DistinctPoints
  <2> QED BY <1>3, <1>7, <2>1, <2>2, <2>3
<1>8. ASSUME NEW c \in R
      PROVE  V[c].value = "good" /\ V[c].x # 0
  BY <1>4, <1>6, <1>7, <1>8
<1>9. {c \in Children[s] : V[c] # NoShare} = R
  <2>1. NoShare.x = 0
    BY DEF NoShare
  <2> QED BY <1>3, <1>8, <2>1
<1>10. CASE Children[s] \intersect Splits = {}
  <2>1. \A c \in R : c \in ActiveUnder(s) /\ V[c] = share[c]
    BY <1>1, <1>7, <1>10
  <2>2. /\ OnePolynomial({share[l] : l \in ActiveUnder(s)})
        /\ DistinctPoints(ActiveUnder(s), share)
    BY DEF IInv, OneDeal
  <2>3. \A c, d \in R : /\ SamePolynomial(V[c], V[d]) /\ (V[c].x = V[d].x => c = d)
    BY <2>1, <2>2 DEF OnePolynomial, DistinctPoints
  <2> QED BY <1>8, <1>9, <2>3 DEF Q
<1>11. CASE Children[s] \intersect Splits # {}
  <2>1. ASSUME NEW c \in R
        PROVE  /\ V[c].split = s /\ V[c].deal = 0 /\ V[c].deltas = {}
               /\ V[c].x = FirstShare[c].x /\ c \in Under
    <3>1. CASE c \in Q
      BY <1>6, <2>1, <3>1
    <3>2. CASE c \in S
      <4>1. c \in Leaves /\ Parent[c] = s /\ c \in Nodes
        BY <1>1, <1>2, <2>1, <3>2
      <4>2. c \in Initial /\ seen[c] = {FirstShare[c]}
        BY <1>7, <1>11, <2>1, <3>2, <4>1 DEF IInv, UpperSplitsFixed
      <4>3. V[c] = FirstShare[c]
        BY <1>7, <2>1, <3>2, <4>2
      <4> QED BY <2>1, <4>1, <4>2, <4>3, FirstShares
    <3> QED BY <2>1, <3>1, <3>2
  <2>2. \A c, d \in R : SamePolynomial(V[c], V[d]) /\ (V[c].x = V[d].x => c = d)
    BY <1>5, <2>1 DEF SamePolynomial
  <2> QED BY <1>8, <1>9, <2>2 DEF Q
<1> QED BY <1>10, <1>11

(* So any t of them recover the secret, and fewer recover nothing.         *)
LEMMA SiblingsRecover ==
    ASSUME IInv, Serial, ~mixed, NEW S \in SUBSET Active, NEW s \in Splits,
           NEW V, V = Value(S), NEW t \in Nat,
           NEW A \in SUBSET (Children[s] \intersect (S \union Quorums(S))),
           NEW used, used = {V[c] : c \in A}
    PROVE  /\ IsFiniteSet(A) /\ Cardinality(A) \in Nat
           /\ Recover(used, t) = IF Cardinality(A) >= t THEN "good" ELSE "none"
<1>1. IsFiniteSet(A) /\ Cardinality(A) \in Nat
  <2>1. A \in SUBSET Children[s] /\ IsFiniteSet(Children[s])
    BY Tree
  <2> QED BY <2>1, Fewer
<1>2. /\ \A c \in A : V[c].value = "good"
      /\ \A c, d \in A : SamePolynomial(V[c], V[d]) /\ (V[c].x = V[d].x => c = d)
  BY Siblings
<1>3. OnePolynomial(used)
  BY <1>2 DEF OnePolynomial
<1>4. CASE Cardinality(A) >= t
  BY <1>1, <1>2, <1>3, <1>4, Recovered
<1>5. CASE ~(Cardinality(A) >= t)
  <2>1. Cardinality({a.x : a \in used}) = Cardinality(A)
    BY <1>1, <1>2, PointCount
  <2>2. Cardinality({a.x : a \in used}) < t
    BY <1>1, <1>5, <2>1
  <2> QED BY <1>1, <1>5, <2>2 DEF Recover
<1> QED BY <1>1, <1>4, <1>5

(* reconstruct_node gives each node that value.                            *)
LEMMA ReconstructValue ==
    ASSUME IInv, Serial, ~mixed, NEW S \in SUBSET Active
    PROVE  Reconstruct(Current(S)) = Value(S)
<1> DEFINE V == Value(S)
           Q == Quorums(S)
           given == Current(S)
<1>0. S \subseteq Leaves /\ Active \intersect DOMAIN given = S
      /\ \A l \in S : given[l] = share[l]
  BY DEF Active, Current
<1>1. ASSUME NEW l \in Leaves
      PROVE  V[l] = Resolve(given, V, l)
  <2> HIDE DEF given
  <2> QED BY <1>0, Tree DEF Value, Resolve
<1>2. ASSUME NEW s \in Splits
      PROVE  V[s] = Resolve(given, V, s)
  <2> DEFINE R == Children[s] \intersect (S \union Q)
             t == Threshold[s]
             F == FirstOf(R, t)
             points == {V[c] : c \in F}
  <2>1. V[s] = IF s \in Q THEN AsShare(s, "good") ELSE NoShare
    BY Tree DEF Value
  <2>2. {c \in Children[s] : V[c] # NoShare} = R
    BY Siblings
  <2>3. Resolve(given, V, s) = AsShare(s, Recover(points, t))
    <3>1. s \notin Leaves
      BY Tree
    <3> HIDE DEF V, R
    <3> QED BY <2>2, <3>1 DEF Resolve
  <2>4. R \in SUBSET Nat /\ IsFiniteSet(R) /\ t \in Nat \ {0}
    <3>1. R \in SUBSET Children[s] /\ IsFiniteSet(Children[s]) /\ t \in Nat \ {0}
      BY Tree
    <3>2. Children[s] \subseteq Nat
      BY Tree
    <3> QED BY <3>1, <3>2, Fewer
  <2>5. Cardinality(R) >= t <=> s \in Q
    BY QuorumsFix
  <2> HIDE DEF R, V, Q
  <2>6. /\ F \in SUBSET R /\ Cardinality(R) \in Nat
        /\ IF Cardinality(R) >= t THEN Cardinality(F) = t ELSE F = R
    BY <2>4, FirstOfCount
  <2>7. Recover(points, t) = IF Cardinality(F) >= t THEN "good" ELSE "none"
    <3>1. F \in SUBSET (Children[s] \intersect (S \union Quorums(S))) /\ V = Value(S)
      BY <2>6 DEF R, V, Q
    <3> HIDE DEF F, t
    <3>2. t \in Nat
      BY <2>4
    <3> QED BY <3>1, <3>2, SiblingsRecover
  <2>8. Cardinality(F) >= t <=> s \in Q
    BY <2>4, <2>5, <2>6
  <2> HIDE DEF points, F, t
  <2>9. AsShare(s, "none") = NoShare
    BY DEF AsShare
  <2> QED BY <2>1, <2>3, <2>7, <2>8, <2>9
<1>3. V = [n \in Nodes |-> V[n]]
  BY DEF Value
<1>4. \A n \in Nodes : V[n] = Resolve(given, V, n)
  BY <1>1, <1>2, Tree
<1> HIDE DEF V, given
<1>5. V = [n \in Nodes |-> Resolve(given, V, n)]
  BY <1>3, <1>4
<1>6. Reconstruct(given) = V
  BY <1>5, ReconstructIs
<1> QED BY <1>6 DEF V, given

(* After any adds, evictions and rebinds the leaves that the thresholds    *)
(* qualify, and only those, reconstruct the secret with reconstruct_node,  *)
(* unless a commit took in shares of two polynomials, as long as no rebind *)
(* runs beside another command.                                            *)
THEOREM QuorumSafe == Serial => (Spec => []QuorumReconstructs)
<1> SUFFICES ASSUME Serial
             PROVE  Spec => []QuorumReconstructs
  OBVIOUS
<1>1. IInv => QuorumReconstructs
  <2> SUFFICES ASSUME IInv, ~mixed, NEW S \in SUBSET Active
               PROVE  Reconstruct(Current(S))[Root] =
                        IF Qualified(S) THEN AsShare(Root, "good") ELSE NoShare
    BY DEF QuorumReconstructs
  <2>1. Reconstruct(Current(S)) = Value(S)
    BY ReconstructValue
  <2>2. Root \in Nodes /\ Root \notin Leaves
    BY Tree
  <2> QED BY <2>1, <2>2 DEF Value, Qualified
<1> QED BY <1>1, Inductive, PTL

-----------------------------------------------------------------------------
(* reconstruct_up_to_root.                                                 *)

LEMMA LeastSize ==
    ASSUME NEW N \in SUBSET Nat, N # {}
    PROVE  \E c \in N : \A d \in N : c <= d
<1> DEFINE Less == OpToRel(<, Nat)
<1>1. \A c, d \in Nat : c < d => <<c, d>> \in Less
  BY DEF OpToRel
<1>2. IsWellFoundedOn(Less, Nat)
  BY NatLessThanWellFounded
<1> HIDE DEF Less
<1>3. PICK c \in N : \A d \in N : ~(<<d, c>> \in Less)
  BY <1>2, WFMin
<1>4. ASSUME NEW d \in N
      PROVE  c <= d
  <2>1. c \in Nat /\ d \in Nat /\ ~(d < c)
    BY <1>1, <1>3
  <2> QED BY <2>1
<1> QED BY <1>4

(* Climbing from any node ends at the root: a set of nodes closed under    *)
(* Parent and without the root, as small as can be, would hold a child of  *)
(* each of its members, a cycle.                                           *)
LEMMA ClimbsReachRoot ==
    ASSUME NEW L \in SUBSET Nodes, L # {}, \A k \in L : Parent[k] \in L
    PROVE  Root \in L
<1> SUFFICES ASSUME Root \notin L
             PROVE  FALSE
  OBVIOUS
<1> DEFINE Closed == {S \in SUBSET L : S # {} /\ \A k \in S : Parent[k] \in S}
           Sizes == {Cardinality(S) : S \in Closed}
<1>1. \A S \in Closed : IsFiniteSet(S) /\ Cardinality(S) \in Nat
  <2>1. \A S \in Closed : S \in SUBSET Nodes
    OBVIOUS
  <2> HIDE DEF Closed
  <2> QED BY <2>1, Tree, Fewer
<1>2. L \in Closed
  OBVIOUS
<1>3. PICK c \in Sizes : \A d \in Sizes : c <= d
  <2>1. Sizes \subseteq Nat /\ Sizes # {}
    <3> HIDE DEF Closed
    <3> QED BY <1>1, <1>2
  <2> HIDE DEF Sizes
  <2> QED BY <2>1, LeastSize
<1>4. PICK S \in Closed : Cardinality(S) = c
  OBVIOUS
<1> DEFINE U == {Parent[k] : k \in S}
<1>5. U \in Closed /\ U \in SUBSET S
  OBVIOUS
<1>6. U = S
  <2> HIDE DEF U, Closed
  <2>1. Cardinality(S) <= Cardinality(U)
    BY <1>3, <1>4, <1>5
  <2> QED BY <1>1, <1>5, <2>1, Fewer
<1>7. \A k \in S : k \in Nodes /\ k # Root /\ Parent[k] \in Splits
  BY Tree
<1>8. S \in SUBSET Splits /\ S # {}
  BY <1>6, <1>7
<1>9. PICK s \in S : Children[s] \intersect S = {}
  BY <1>8, TreeAssumption
<1>10. PICK k \in S : Parent[k] = s
  BY <1>6
<1>11. k \in Children[s]
  BY <1>7, <1>8, <1>10 DEF Children
<1> QED BY <1>9, <1>11

(* The way from a node to the root: the node, and splits above it, each    *)
(* with a child on the way.                                                *)
LEMMA Way ==
    ASSUME NEW from \in Nodes
    PROVE  /\ from \in Lineage[from] /\ Root \in Lineage[from]
           /\ Lineage[from] \subseteq Nodes
           /\ \A n \in Lineage[from] \ {from} :
                 /\ n \in Splits
                 /\ \E d \in Children[n] : d \in Lineage[from]
<1> DEFINE L == Lineage[from]
           Closed(S) == from \in S /\ \A k \in S : Parent[k] \in S
<1>1. L = {m \in Nodes : \A S \in SUBSET Nodes : Closed(S) => m \in S}
  BY DEF Lineage
<1> HIDE DEF L
<1>2. from \in L /\ L \in SUBSET Nodes
  BY <1>1
<1>3. \A k \in L : Parent[k] \in L
  BY <1>1, <1>2, Tree
<1>4. L \subseteq {from} \union Splits
  <2>1. Closed({from} \union Splits) /\ {from} \union Splits \in SUBSET Nodes
    BY Tree
  <2> QED BY <1>1, <2>1
<1>5. ASSUME NEW n \in L, n # from
      PROVE  \E d \in Children[n] : d \in L
  <2> SUFFICES ASSUME \A d \in Children[n] : d \notin L
               PROVE  FALSE
    OBVIOUS
  <2>1. n \in Splits
    BY <1>4, <1>5
  <2>2. ASSUME NEW k \in L \ {n}
        PROVE  Parent[k] \in L \ {n}
    <3>1. Parent[k] \in L /\ k \in Nodes
      BY <1>2, <1>3
    <3>2. ASSUME Parent[k] = n
          PROVE  FALSE
      <4>1. k # Root
        BY <2>2, <3>2, TreeAssumption
      <4>2. k \in Children[n]
        BY <2>1, <3>1, <3>2, <4>1 DEF Children
      <4> QED BY <2>2, <4>2
    <3> QED BY <3>1, <3>2
  <2>3. Closed(L \ {n}) /\ L \ {n} \in SUBSET Nodes
    BY <1>2, <1>5, <2>2
  <2> QED BY <1>1, <1>5, <2>3
<1>6. Root \in L
  BY <1>2, <1>3, ClimbsReachRoot
<1> QED BY <1>2, <1>4, <1>5, <1>6 DEF L

(* On the way from `from' to the root: the child that the value comes      *)
(* from, the other children that are resolved, and the nodes that get a    *)
(* value.                                                                  *)
Below(from, n) == CHOOSE d \in Children[n] : d \in Lineage[from]
Beside(from, S, n) == {d \in Children[n] \ {Below(from, n)} : Value(S)[d] # NoShare}
Passes(from, S, T) ==
    /\ Value(S)[from] # NoShare => from \in T
    /\ \A n \in Lineage[from] \ {from} :
          Below(from, n) \in T /\ Cardinality(Beside(from, S, n)) + 1 >= Threshold[n] => n \in T
Passed(from, S) ==
    {n \in Lineage[from] : \A T \in SUBSET Lineage[from] : Passes(from, S, T) => n \in T}

LEMMA PassedFix ==
    ASSUME NEW from \in Nodes, NEW S, NEW G, G = Passed(from, S)
    PROVE  /\ G \subseteq Lineage[from]
           /\ from \in G <=> Value(S)[from] # NoShare
           /\ \A n \in Lineage[from] \ {from} :
                 n \in G <=> /\ Below(from, n) \in G
                             /\ Cardinality(Beside(from, S, n)) + 1 >= Threshold[n]
           /\ \A T \in SUBSET Lineage[from] : Passes(from, S, T) => G \subseteq T
<1> DEFINE L == Lineage[from]
           E(n) == Cardinality(Beside(from, S, n)) + 1 >= Threshold[n]
           First == Value(S)[from] # NoShare
<1>1. /\ G \in SUBSET L /\ from \in L
      /\ \A T \in SUBSET L : Passes(from, S, T) => G \subseteq T
      /\ \A n \in L : (\A T \in SUBSET L : Passes(from, S, T) => n \in T) => n \in G
  BY Way DEF Passed
<1>2. \A T : Passes(from, S, T) <=>
               /\ First => from \in T
               /\ \A n \in L \ {from} : Below(from, n) \in T /\ E(n) => n \in T
  BY DEF Passes
<1> HIDE DEF L, E, First
<1>3. First => from \in G
  BY <1>1, <1>2
<1>4. ASSUME ~First, from \in G
      PROVE  FALSE
  <2>1. Passes(from, S, L \ {from})
    BY <1>2, <1>4
  <2> QED BY <1>1, <1>4, <2>1
<1>5. ASSUME NEW n \in L \ {from}, Below(from, n) \in G, E(n)
      PROVE  n \in G
  BY <1>1, <1>2, <1>5
<1>6. ASSUME NEW n \in L \ {from}, n \in G, ~(Below(from, n) \in G /\ E(n))
      PROVE  FALSE
  <2>1. Passes(from, S, G \ {n})
    BY <1>2, <1>3, <1>5, <1>6
  <2>2. G \ {n} \in SUBSET L
    BY <1>1
  <2> QED BY <1>1, <1>6, <2>1, <2>2
<1> QED BY <1>1, <1>3, <1>4, <1>5, <1>6 DEF L, E, First

(* What reconstruct_up_to_root makes of a node above the first.            *)
Helpers(V, c, n) ==
    FirstOf({d \in Children[n] \ {c} : V[d] # NoShare}, Threshold[n] - 1)
Points(a, V, F) == {a} \union {V[d] : d \in F}

LEMMA ClimbAbove ==
    ASSUME NEW from, NEW given, NEW U, NEW n, n # from
    PROVE  Climb(from, given, U, n) =
             IF U[Below(from, n)] = NoShare THEN NoShare
             ELSE AsShare(n,
                    Recover(Points(U[Below(from, n)], Reconstruct(given),
                                   Helpers(Reconstruct(given), Below(from, n), n)),
                            Threshold[n]))
BY DEF Climb, Below, Helpers, Points

LEMMA ViaIs ==
    ASSUME NEW from \in Nodes, NEW given,
           NEW W, W = [n \in Lineage[from] |-> Climb(from, given, W, n)]
    PROVE  ReconstructVia(from, given) = W[Root]
<1> DEFINE L == Lineage[from]
           Solves(U) == U = [n \in L |-> Climb(from, given, U, n)]
<1>1. ReconstructVia(from, given) = (CHOOSE U : Solves(U))[Root]
  BY DEF ReconstructVia
<1>2. ASSUME NEW U, Solves(U)
      PROVE  U = W
  <2>1. \A n \in L : U[n] = Climb(from, given, U, n) /\ W[n] = Climb(from, given, W, n)
    BY <1>2
  <2> DEFINE D == {n \in L : U[n] # W[n]}
  <2>2. U[from] = W[from]
    BY <2>1, Way DEF Climb
  <2>3. D = {}
    <3> SUFFICES ASSUME D # {}
                 PROVE  FALSE
      OBVIOUS
    <3>1. D \in SUBSET Splits
      BY <2>2, Way
    <3>2. PICK s \in D : Children[s] \intersect D = {}
      BY <3>1, TreeAssumption
    <3>3. s \in L /\ s # from
      BY <2>2
    <3> DEFINE c == Below(from, s)
               V == Reconstruct(given)
               F == Helpers(V, c, s)
    <3>4. c \in Children[s] /\ c \in L
      BY <3>3, Way DEF Below
    <3>5. U[c] = W[c]
      BY <3>2, <3>4
    <3> HIDE DEF c, V, F, D
    <3>6. /\ c = Below(from, s) /\ V = Reconstruct(given)
          /\ F = Helpers(V, c, s)
      BY DEF c, V, F
    <3>7. Climb(from, given, U, s) =
            IF U[c] = NoShare THEN NoShare
            ELSE AsShare(s, Recover(Points(U[c], V, F), Threshold[s]))
      BY <3>3, <3>6, ClimbAbove
    <3>8. Climb(from, given, W, s) =
            IF W[c] = NoShare THEN NoShare
            ELSE AsShare(s, Recover(Points(W[c], V, F), Threshold[s]))
      BY <3>3, <3>6, ClimbAbove
    <3>9. Climb(from, given, U, s) = Climb(from, given, W, s)
      BY <3>5, <3>7, <3>8
    <3> QED BY <2>1, <3>2, <3>3, <3>9 DEF D
  <2>4. \A n \in L : U[n] = W[n]
    BY <2>3
  <2>5. U = [n \in L |-> U[n]] /\ W = [n \in L |-> W[n]]
    BY <1>2
  <2> QED BY <2>4, <2>5
<1>3. Solves(W)
  OBVIOUS
<1> HIDE DEF Solves
<1> QED BY <1>1, <1>2, <1>3

(* reconstruct_up_to_root gives a node its value or none.                  *)
LEMMA ViaValue ==
    ASSUME IInv, Serial, ~mixed, NEW S \in SUBSET Active, NEW from \in Nodes
    PROVE  ReconstructVia(from, Current(S)) \in {NoShare, Value(S)[Root]}
<1> DEFINE L == Lineage[from]
           V == Value(S)
           Q == Quorums(S)
           G == Passed(from, S)
           given == Current(S)
           W == [n \in L |-> IF n \in G THEN V[n] ELSE NoShare]
           Open(n) == Cardinality(Beside(from, S, n)) + 1 >= Threshold[n]
<1>1. V = Reconstruct(given)
  BY ReconstructValue
<1>2. /\ from \in L /\ Root \in L /\ L \subseteq Nodes
      /\ \A n \in L \ {from} : n \in Splits /\ \E d \in Children[n] : d \in L
  BY Way
<1>3. /\ G \in SUBSET L /\ (from \in G <=> V[from] # NoShare)
      /\ \A n \in L \ {from} : n \in G <=> Below(from, n) \in G /\ Open(n)
      /\ \A T \in SUBSET L : Passes(from, S, T) => G \subseteq T
  BY PassedFix
<1>4. \A n \in Splits : V[n] = IF n \in Q THEN AsShare(n, "good") ELSE NoShare
  BY Tree DEF Value
<1>5. \A n \in Splits : AsShare(n, "good") # NoShare
  <2>1. NoShare.value = "noise"
    BY DEF NoShare
  <2>2. \A n \in Splits : AsShare(n, "good").value = "good"
    BY Tree, GoodShare
  <2> QED BY <2>1, <2>2
<1>6. ASSUME NEW n \in L \ {from}, NEW c, c = Below(from, n),
             NEW B, B = Beside(from, S, n)
      PROVE  /\ n \in Splits /\ c \in Children[n] /\ c \in L /\ c \notin B
             /\ B = {d \in Children[n] \ {c} : V[d] # NoShare}
             /\ B \subseteq Children[n] \intersect (S \union Q)
             /\ V[c] # NoShare => c \in Children[n] \intersect (S \union Q)
             /\ IsFiniteSet(B) /\ Cardinality(B) \in Nat /\ B \in SUBSET Nat
             /\ Threshold[n] \in Nat \ {0}
  <2>1. n \in Splits /\ c \in Children[n] /\ c \in L
    BY <1>2, <1>6 DEF Below
  <2>2. B = {d \in Children[n] \ {c} : V[d] # NoShare}
    BY <1>6 DEF Beside
  <2>3. {d \in Children[n] : V[d] # NoShare} = Children[n] \intersect (S \union Q)
    BY <2>1, Siblings
  <2>4. B \in SUBSET Children[n] /\ IsFiniteSet(Children[n]) /\ Threshold[n] \in Nat \ {0}
        /\ Children[n] \subseteq Nat
    BY <2>1, <2>2, Tree
  <2>5. IsFiniteSet(B) /\ Cardinality(B) \in Nat
    BY <2>4, Fewer
  <2> HIDE DEF V, Q, L
  <2> QED BY <2>1, <2>2, <2>3, <2>4, <2>5
<1> HIDE DEF L, V, Q, G, given
(* No node gets a value that its own subtree would not give it.            *)
<1>7. \A n \in G : V[n] # NoShare
  <2> DEFINE T == {n \in L : V[n] # NoShare}
  <2>1. ASSUME NEW n \in L \ {from}, Below(from, n) \in T, Open(n)
        PROVE  n \in T
    <3> DEFINE c == Below(from, n)
               B == Beside(from, S, n)
               R == Children[n] \intersect (S \union Q)
    <3>0. c = Below(from, n) /\ B = Beside(from, S, n)
      OBVIOUS
    <3> HIDE DEF c, B
    <3>1. /\ n \in Splits /\ c \notin B /\ B \subseteq R /\ c \in R
          /\ IsFiniteSet(B) /\ Cardinality(B) \in Nat /\ Threshold[n] \in Nat \ {0}
      BY <1>6, <2>1, <3>0
    <3>2. Cardinality(B) + 1 >= Threshold[n]
      BY <2>1, <3>0
    <3>3. IsFiniteSet(B \union {c}) /\ Cardinality(B \union {c}) = Cardinality(B) + 1
      BY <3>1, FS_AddElement
    <3>4. IsFiniteSet(R) /\ B \union {c} \in SUBSET R
      <4>1. IsFiniteSet(Children[n]) /\ R \in SUBSET Children[n]
        BY <3>1, Tree
      <4> QED BY <3>1, <4>1, Fewer
    <3> HIDE DEF R
    <3>5. /\ Cardinality(R) \in Nat /\ Cardinality(B \union {c}) <= Cardinality(R)
      BY <3>4, Fewer
    <3>6. Cardinality(R) >= Threshold[n]
      BY <3>1, <3>2, <3>3, <3>5
    <3>7. n \in Q
      BY <3>1, <3>6, QuorumsFix DEF R, Q
    <3> QED BY <1>4, <1>5, <2>1, <3>1, <3>7
  <2>2. Passes(from, S, T)
    BY <1>2, <2>1 DEF Passes, L, V
  <2>3. T \in SUBSET L
    OBVIOUS
  <2> HIDE DEF T
  <2>4. G \subseteq T
    BY <1>3, <2>2, <2>3
  <2> QED BY <2>4 DEF T
<1>8. \A n \in L : W[n] = (IF n \in G THEN V[n] ELSE NoShare)
  OBVIOUS
<1>9. \A n \in L : W[n] # NoShare <=> n \in G
  BY <1>7, <1>8
<1>10. W = [n \in L |-> W[n]]
  OBVIOUS
<1> HIDE DEF W
<1>11. W[from] = Climb(from, given, W, from)
  <2>1. Climb(from, given, W, from) = V[from]
    BY <1>1 DEF Climb
  <2> QED BY <1>2, <1>3, <1>8, <2>1
<1>12. ASSUME NEW n \in L \ {from}
       PROVE  W[n] = Climb(from, given, W, n)
  <2> DEFINE c == Below(from, n)
             B == Beside(from, S, n)
             t == Threshold[n]
             F == FirstOf(B, t - 1)
             A == {c} \union F
             points == Points(W[c], V, F)
  <2>0. c = Below(from, n) /\ B = Beside(from, S, n)
    OBVIOUS
  <2>1. Open(n) <=> Cardinality(B) + 1 >= t
    OBVIOUS
  <2> HIDE DEF c, B
  <2>2. /\ n \in Splits /\ c \in Children[n] /\ c \in L /\ c \notin B
        /\ B = {d \in Children[n] \ {c} : V[d] # NoShare}
        /\ B \subseteq Children[n] \intersect (S \union Q)
        /\ V[c] # NoShare => c \in Children[n] \intersect (S \union Q)
        /\ IsFiniteSet(B) /\ Cardinality(B) \in Nat /\ B \in SUBSET Nat
        /\ t \in Nat \ {0}
    BY <1>6, <2>0
  <2>3. Climb(from, given, W, n) =
          IF W[c] = NoShare THEN NoShare ELSE AsShare(n, Recover(points, t))
    <3>1. F = Helpers(V, c, n)
      BY <2>2 DEF Helpers
    <3> HIDE DEF F
    <3> QED BY <1>1, <2>0, <3>1, ClimbAbove
  <2>4. n \in G <=> c \in G /\ Open(n)
    BY <1>3, <2>0
  <2>5. CASE c \notin G
    BY <1>8, <1>9, <2>2, <2>3, <2>4, <2>5
  <2>6. CASE c \in G
    <3>1. W[c] = V[c] /\ V[c] # NoShare
      BY <1>7, <1>8, <2>2, <2>6
    <3>2. t - 1 \in Nat
      BY <2>2
    <3>3. /\ F \in SUBSET B /\ IsFiniteSet(F)
          /\ IF Cardinality(B) >= t - 1 THEN Cardinality(F) = t - 1 ELSE F = B
      BY <2>2, <3>2, FirstOfCount
    <3> HIDE DEF F, t
    <3>4. c \notin F /\ A \in SUBSET (Children[n] \intersect (S \union Q))
      BY <2>2, <3>1, <3>3
    <3>5. Cardinality(A) = Cardinality(F) + 1 /\ Cardinality(F) \in Nat
      <4>1. A = F \union {c}
        OBVIOUS
      <4> HIDE DEF A
      <4> QED BY <3>3, <3>4, <4>1, FS_AddElement, FS_CardinalityType
    <3>6. Cardinality(A) >= t <=> Open(n)
      <4>1. CASE Cardinality(B) >= t - 1
        BY <2>1, <2>2, <3>2, <3>3, <3>5, <4>1
      <4>2. CASE ~(Cardinality(B) >= t - 1)
        BY <2>1, <2>2, <3>2, <3>3, <3>5, <4>2
      <4> QED BY <4>1, <4>2
    <3>7. points = {V[d] : d \in A}
      BY <3>1 DEF Points
    <3> HIDE DEF A, points
    <3>8. Recover(points, t) = IF Cardinality(A) >= t THEN "good" ELSE "none"
      <4>1. A \in SUBSET (Children[n] \intersect (S \union Quorums(S))) /\ V = Value(S)
        BY <3>4 DEF Q, V
      <4>2. t \in Nat /\ n \in Splits
        BY <2>2
      <4> QED BY <3>7, <4>1, <4>2, SiblingsRecover
    <3>9. AsShare(n, "none") = NoShare
      BY DEF AsShare
    <3>10. CASE Open(n)
      <4>1. n \in G /\ V[n] # NoShare
        BY <1>7, <2>4, <2>6, <3>10
      <4>2. W[n] = AsShare(n, "good")
        BY <1>4, <1>8, <2>2, <4>1
      <4> QED BY <2>3, <3>1, <3>6, <3>8, <3>10, <4>2
    <3>11. CASE ~Open(n)
      <4>1. W[n] = NoShare
        BY <1>8, <2>4, <3>11
      <4> QED BY <2>3, <3>1, <3>6, <3>8, <3>9, <3>11, <4>1
    <3> QED BY <3>10, <3>11
  <2> QED BY <2>5, <2>6
<1>13. W = [n \in L |-> Climb(from, given, W, n)]
  BY <1>10, <1>11, <1>12
<1>14. ReconstructVia(from, given) = W[Root]
  BY <1>13, ViaIs DEF L
<1>15. W[Root] \in {NoShare, V[Root]}
  BY <1>2, <1>8
<1> QED BY <1>14, <1>15 DEF given, V

(* reconstruct --node gives the secret or asks for more shares, whichever  *)
(* node it starts from, and never with fewer shares than the thresholds    *)
(* ask for: reconstruct_up_to_root counts the value found so far for one.  *)
THEOREM PathSafe == Serial => (Spec => []PathAgrees)
<1> SUFFICES ASSUME Serial
             PROVE  Spec => []PathAgrees
  OBVIOUS
<1>1. IInv => PathAgrees
  <2> SUFFICES ASSUME IInv, ~mixed, NEW S \in SUBSET Active, NEW n \in Splits \union Active
               PROVE  ReconstructVia(n, Current(S)) \in
                        IF Qualified(S) THEN {NoShare, AsShare(Root, "good")} ELSE {NoShare}
    BY DEF PathAgrees
  <2>1. n \in Nodes /\ Root \in Nodes /\ Root \notin Leaves
    BY Tree DEF Active
  <2>2. ReconstructVia(n, Current(S)) \in {NoShare, Value(S)[Root]}
    BY <2>1, ViaValue
  <2>3. Value(S)[Root] = IF Qualified(S) THEN AsShare(Root, "good") ELSE NoShare
    BY <2>1 DEF Value, Qualified
  <2> QED BY <2>2, <2>3
<1> QED BY <1>1, Inductive, PTL

=============================================================================
