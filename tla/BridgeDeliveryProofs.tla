------------------------ MODULE BridgeDeliveryProofs ------------------------
(* What PrivateBridge guarantees only when its stores work in a restricted *)
(* way: one command at a time, no command killed half way, one label       *)
(* rotating, or nobody revoked.  Each restriction is a hypothesis of the   *)
(* theorem that needs it.                                                  *)
EXTENDS PrivateBridgeProofs, FiniteSetTheorems

-----------------------------------------------------------------------------
(* The inductive invariants.                                               *)

(* A revoke that has read the roster is alone on its store, so what it     *)
(* read about the number of members is still true.                         *)
GoodRevoke(p) ==
    revoke[p] # NoRevoke =>
        /\ plan[p] = NoPlan /\ tear[p] = NoKey /\ status[p] = "live"
        /\ revoke[p].few = TooFewWithout(p, revoke[p].label)

EnoughMembers ==
    /\ \A k \in drawn : Cardinality(issued[k].members) >= 2
    /\ \A p \in Stores : status[p] = "live" => Cardinality(members[p]) >= 2
    /\ \A p \in Stores : GoodRevoke(p)

(* The envelopes of p's directory that no running command would delete.    *)
Kept(p) == IF plan[p].written THEN files[p] \ plan[p].packages ELSE files[p]

(* Somebody besides a running command may come to hold k.                  *)
Published(k) ==
    \/ \E e \in net : e.kind # "destroy" /\ e.key = k
    \/ \E p \in Stores : \E e \in Kept(p) : e.kind # "destroy" /\ e.key = k
    \/ \E p \in Stores : status[p] # "none" /\ key[p] = k

(* The store that drew k has reached k's generation.                       *)
Recorded(k) ==
    LET p == issued[k].by
    IN  status[p] # "none" /\ gen[p] >= issued[k].gen

(* A plan delivers no key but the one it drew itself.                      *)
OwnPlan(p) ==
    /\ plan[p].op = "none" => plan[p] = NoPlan
    /\ plan[p].op = "destroy" => drawn # {}
    /\ plan[p].op \in {"create", "rotate"} => issued[plan[p].key].by = p
    /\ \A e \in plan[p].packages : e.kind # "destroy" =>
          plan[p].op # "destroy" /\ e.key = plan[p].key

Delivery ==
    /\ \A p \in Stores : OwnPlan(p)
    /\ \A k \in drawn : Published(k) => Recorded(k)

(* There is one first key, and the others are drawn by a rotating label.   *)
KeysOwned ==
    /\ \A k \in drawn : issued[k].gen >= 1
    /\ \A k \in drawn : issued[k].parent # NoKey => issued[k].by \in Rotators
    /\ \A k, l \in drawn :
          issued[k].parent = NoKey /\ issued[l].parent = NoKey => k = l

OneKeyPerGeneration ==
    \A k, l \in drawn :
        Published(k) /\ Published(l) /\ issued[k].gen = issued[l].gen => k = l

(* q is destroyed, or a destroy notice may still reach it.                 *)
Leaving(q) ==
    \/ status[q] = "destroyed" \/ tear[q] # NoKey
    \/ \E e \in net : e.kind = "destroy" /\ e.to = q
    \/ \E p \in Stores : \E e \in Kept(p) : e.kind = "destroy" /\ e.to = q

(* A rotation keeps nobody who is not on the roster it replaces, and sends *)
(* destroy notices to nobody who stays; a creation sends none.             *)
FairPlan(p) ==
    /\ plan[p].op = "create" => \A e \in plan[p].packages : e.kind # "destroy"
    /\ plan[p].op = "rotate" =>
          /\ status[p] = "live" /\ gen[p] = plan[p].expect =>
                plan[p].members \union plan[p].supers
                    \subseteq members[p] \union supers[p]
          /\ \A e \in plan[p].packages : e.kind = "destroy" =>
                e.to \notin plan[p].members \union plan[p].supers
    /\ plan[p].op = "destroy" => status[p] # "none"
    /\ plan[p].op \in {"rotate", "destroy"} => p \in Rotators

LeaversLeft ==
    /\ \A p \in Stores : FairPlan(p) /\ revoke[p] = NoRevoke
    /\ \A q \in Stores, p \in Rotators : Leaving(q) =>
          /\ status[p] # "none"
          /\ status[p] = "live" => q \notin members[p] \union supers[p]

-----------------------------------------------------------------------------
(* A live bridge has two members.                                          *)

Populated(p) ==
    GoodRevoke(p) /\ (status[p] = "live" => Cardinality(members[p]) >= 2)

(* What Populated looks at is left alone.                                  *)
Quiet(q) ==
    /\ status'[q] = status[q] /\ members'[q] = members[q]
    /\ plan'[q] = plan[q] /\ tear'[q] = tear[q] /\ revoke'[q] = revoke[q]

LEMMA QuietKeeps ==
    ASSUME NEW q \in Stores, Quiet(q), Populated(q)
    PROVE  Populated(q)'
BY DEF Quiet, Populated, GoodRevoke, TooFewWithout

(* No revoke is half way, and the row is fit.                              *)
LEMMA NoRevokeHere ==
    ASSUME NEW p \in Stores, revoke'[p] = NoRevoke,
           status'[p] = "live" => Cardinality(members'[p]) >= 2
    PROVE  Populated(p)'
BY DEF Populated, GoodRevoke

LEMMA CountMembers ==
    ASSUME NEW M \in SUBSET Labels
    PROVE  Cardinality(M) \in Nat
BY FS_Subset, FS_CardinalityType, BridgeAssumption

(* Every key is drawn for two members or more.                             *)
LEMMA GrantsStep ==
    ASSUME IInv, EnoughMembers, [Next]_vars
    PROVE  \A k \in drawn' : Cardinality(issued'[k].members) >= 2
<1>0. TypeOK BY DEF IInv
<1>1. CASE UNCHANGED <<drawn, issued>>
    BY <1>1 DEF EnoughMembers
<1>2. CASE \E p \in Stores, M \in SUBSET Labels, k \in Keys,
             par \in Keys \union {NoKey}, g \in Nat :
               k \notin drawn /\ Cardinality(M) >= 2 /\ Draw(k, p, M, par, g)
  <2> PICK p \in Stores, M \in SUBSET Labels, k \in Keys,
             par \in Keys \union {NoKey}, g \in Nat :
               k \notin drawn /\ Cardinality(M) >= 2 /\ Draw(k, p, M, par, g)
      BY <1>2
  <2>1. /\ drawn' = drawn \union {k}
        /\ issued'[k] = [members |-> M, parent |-> par, gen |-> g, by |-> p]
        /\ \A d \in drawn : issued'[d] = issued[d]
      BY <1>0, DrawFacts
  <2>2. issued'[k].members = M
      BY <2>1
  <2> QED BY <2>1, <2>2 DEF EnoughMembers
<1>3. CASE Create
    BY <1>2, <1>3 DEF Create, PlanCreate
<1>4. CASE \E p, r \in Labels, k \in Keys : PlanRotate(p, r, k)
  <2> PICK p \in Labels, r \in Labels, k \in Keys : PlanRotate(p, r, k)
      BY <1>4
  <2>1. /\ k \notin drawn /\ Cardinality(members[p] \ {r}) >= 2
        /\ Draw(k, p, members[p] \ {r}, key[p], gen[p] + 1)
      BY DEF PlanRotate
  <2>2. /\ p \in Stores /\ members[p] \ {r} \in SUBSET Labels
        /\ key[p] \in Keys \union {NoKey} /\ gen[p] + 1 \in Nat
      BY <1>0, LabelsAreStores DEF TypeOK
  <2> QED BY <1>2, <2>1, <2>2
<1>5. CASE \E p, r \in Labels : PlanDestroy(p, r)
    BY <1>1, <1>5 DEF PlanDestroy
<1>6. CASE \E p \in Stores : Finish(p) \/ Abandon(p) \/ Ship(p)
    BY <1>1, <1>6 DEF Finish, Abandon, WritePackages, WriteFails, CommitFails,
       CommitCreate, CommitRotate, CommitDestroy, Crash, Ship
<1>7. CASE \E p \in Stores : \E e \in net : Import(p, e)
    BY <1>1, <1>7 DEF Import, ImportInvite, ImportRotate, VerifyDestroy
<1>8. CASE \E p \in Stores : ApplyDestroy(p) \/ RevokeApply(p)
    BY <1>1, <1>8 DEF ApplyDestroy, RevokeApply
<1>9. CASE \E p \in Stores, r \in Labels : Revoke(p, r)
    BY <1>1, <1>9 DEF Revoke, LeafRemoved, RevokeRead
<1>10. CASE \E p \in Labels : Sign(p)
    BY <1>1, <1>10 DEF Sign
<1>11. CASE UNCHANGED vars
    BY <1>1, <1>11 DEF vars
<1> QED BY <1>3, <1>4, <1>5, <1>6, <1>7, <1>8, <1>9, <1>10, <1>11
        DEF Next, Remove

(* A command starts on an idle store, or continues alone.                  *)
LEMMA PlanAlone ==
    ASSUME NEW p \in Stores, Populated(p), plan[p].op # "none"
    PROVE  revoke[p] = NoRevoke
BY DEF Populated, GoodRevoke, NoPlan

LEMMA PlanPopulates ==
    ASSUME IInv, ~Overlap, \A q \in Stores : Populated(q), Create \/ Remove
    PROVE  \A q \in Stores : Populated(q)'
<1>0. TypeOK BY DEF IInv
<1>1. PICK p \in Stores : Idle(p) /\ UNCHANGED <<rowVars, tear, revoke>>
                          /\ \E x : plan' = [plan EXCEPT ![p] = x]
  <2>1. CASE Create
    <3>1. PICK p \in Stores, M \in SUBSET Labels, S \in SUBSET Labels,
               self \in BOOLEAN, k \in Keys : PlanCreate(p, M, S, self, k)
        BY <2>1 DEF Create
    <3>2. /\ Idle(p) /\ UNCHANGED <<rowVars, tear, revoke>>
          /\ \E x : plan' = [plan EXCEPT ![p] = x]
        BY <3>1 DEF PlanCreate, MayStart
    <3> QED BY <3>2
  <2>2. ASSUME NEW p \in Labels, NEW r \in Labels, PlanDestroy(p, r)
        PROVE  /\ Idle(p) /\ UNCHANGED <<rowVars, tear, revoke>>
               /\ \E x : plan' = [plan EXCEPT ![p] = x]
      BY <2>2 DEF PlanDestroy, MayStart
  <2>3. ASSUME NEW p \in Labels, NEW r \in Labels, NEW k \in Keys,
               PlanRotate(p, r, k)
        PROVE  /\ Idle(p) /\ UNCHANGED <<rowVars, tear, revoke>>
               /\ \E x : plan' = [plan EXCEPT ![p] = x]
      BY <2>3 DEF PlanRotate, MayStart
  <2> QED BY <2>1, <2>2, <2>3, LabelsAreStores DEF Remove
<1>2. ASSUME NEW q \in Stores, q # p PROVE Populated(q)'
  <2>1. Quiet(q)
      BY <1>0, <1>1, <1>2 DEF Quiet, rowVars, TypeOK
  <2> QED BY <2>1, QuietKeeps
<1>3. Populated(p)'
  <2>1. revoke'[p] = NoRevoke /\ status'[p] = status[p] /\ members'[p] = members[p]
      BY <1>1 DEF Idle, rowVars
  <2> QED BY <2>1, NoRevokeHere DEF Populated
<1> QED BY <1>2, <1>3

LEMMA FinishPopulates ==
    ASSUME IInv, EnoughMembers, \A q \in Stores : Populated(q),
           NEW p \in Stores, Finish(p) \/ Abandon(p) \/ Ship(p)
    PROVE  \A q \in Stores : Populated(q)'
<1>0. TypeOK /\ GoodPlan(p) BY DEF IInv
<1>1. ASSUME NEW q \in Stores, q # p PROVE Populated(q)'
  <2>1. Quiet(q)
      BY <1>0, <1>1 DEF Finish, Abandon, WritePackages, WriteFails, CommitFails,
         CommitCreate, CommitRotate, CommitDestroy, Crash, Ship, Quiet, rowVars, TypeOK
  <2> QED BY <2>1, QuietKeeps
<1>2. CASE Crash(p) \/ WritePackages(p) \/ WriteFails(p) \/ CommitFails(p)
  <2>1. UNCHANGED rowVars /\ revoke'[p] = NoRevoke
      BY <1>0, <1>2, PlanAlone
         DEF Crash, WritePackages, WriteFails, CommitFails, TypeOK
  <2>2. Populated(p)'
      BY <2>1, NoRevokeHere DEF rowVars, Populated
  <2> QED BY <1>1, <2>2
<1>3. CASE Ship(p)
    BY <1>1, <1>3, QuietKeeps DEF Ship, Quiet, rowVars
<1>4. CASE CommitCreate(p) \/ CommitRotate(p)
  <2>1. /\ members'[p] = plan[p].members /\ revoke'[p] = NoRevoke
        /\ plan[p].op \in {"create", "rotate"}
      BY <1>0, <1>4, PlanAlone DEF CommitCreate, CommitRotate, TypeOK
  <2>2. Cardinality(members'[p]) >= 2
      BY <1>0, <2>1 DEF GoodPlan, EnoughMembers
  <2> QED BY <1>1, <2>1, <2>2, NoRevokeHere
<1>5. CASE CommitDestroy(p)
  <2>1. status'[p] = "destroyed" /\ revoke'[p] = NoRevoke
      BY <1>0, <1>5, PlanAlone DEF CommitDestroy, TypeOK
  <2> QED BY <1>1, <2>1, NoRevokeHere
<1> QED BY <1>2, <1>3, <1>4, <1>5 DEF Finish, Abandon

LEMMA ImportPopulates ==
    ASSUME IInv, ~Overlap, EnoughMembers, \A q \in Stores : Populated(q),
           NEW p \in Stores, NEW e \in net, Import(p, e)
    PROVE  \A q \in Stores : Populated(q)'
<1>0. TypeOK /\ GoodEnvelope(e) BY DEF IInv, GoodEnvelopes
<1>1. revoke'[p] = NoRevoke
    BY DEF Import, ImportInvite, ImportRotate, VerifyDestroy, MayStart, Idle
<1>2. ASSUME NEW q \in Stores, q # p PROVE Populated(q)'
  <2>1. Quiet(q)
      BY <1>0, <1>2 DEF Import, ImportInvite, ImportRotate, VerifyDestroy,
         AdoptEnvelope, Quiet, rowVars, TypeOK
  <2> QED BY <2>1, QuietKeeps
<1>3. CASE VerifyDestroy(p, e)
    BY <1>1, <1>2, <1>3, NoRevokeHere DEF VerifyDestroy, rowVars, Populated
<1>4. CASE ImportInvite(p, e) \/ ImportRotate(p, e)
  <2>1. members'[p] = e.members /\ e.kind # "destroy"
      BY <1>0, <1>4 DEF ImportInvite, ImportRotate, IsInvite, AdoptEnvelope, TypeOK
  <2>2. Cardinality(members'[p]) >= 2
      BY <1>0, <2>1 DEF GoodEnvelope, EnoughMembers
  <2> QED BY <1>1, <1>2, <2>2, NoRevokeHere
<1> QED BY <1>3, <1>4 DEF Import

LEMMA DropPopulates ==
    ASSUME IInv, ~Overlap, \A q \in Stores : Populated(q), NEW p \in Stores,
           \/ ApplyDestroy(p) \/ RevokeApply(p)
           \/ \E r \in Labels : Revoke(p, r)
    PROVE  \A q \in Stores : Populated(q)'
<1>0. TypeOK BY DEF IInv
<1>1. ASSUME NEW q \in Stores, q # p PROVE Populated(q)'
  <2>1. Quiet(q)
      BY <1>0, <1>1 DEF ApplyDestroy, RevokeApply, Revoke, LeafRemoved,
         RevokeRead, DropRow, Quiet, rowVars, TypeOK
  <2> QED BY <2>1, QuietKeeps
<1>2. CASE ApplyDestroy(p)
  <2>1. status'[p] = "destroyed" /\ revoke'[p] = NoRevoke
      BY <1>0, <1>2 DEF ApplyDestroy, Populated, GoodRevoke, TypeOK
  <2> QED BY <1>1, <2>1, NoRevokeHere
<1>3. ASSUME NEW r, DropRow(p, r, TooFewWithout(p, r)), revoke'[p] = NoRevoke,
             status[p] = "live"
      PROVE  Populated(p)'
  <2>1. /\ members'[p] = members[p] \ {r}
        /\ status'[p] = "live" => ~TooFewWithout(p, r)
      BY <1>0, <1>3 DEF DropRow, TypeOK
  <2>2. Cardinality(members[p] \ {r}) \in Nat
      BY <1>0, CountMembers DEF TypeOK
  <2>3. status'[p] = "live" => Cardinality(members'[p]) >= 2
      BY <2>1, <2>2 DEF TooFewWithout
  <2> QED BY <1>3, <2>3, NoRevokeHere
<1>4. CASE RevokeApply(p)
  <2>1. /\ status[p] = "live" /\ revoke'[p] = NoRevoke
        /\ DropRow(p, revoke[p].label, TooFewWithout(p, revoke[p].label))
      BY <1>0, <1>4 DEF RevokeApply, Populated, GoodRevoke, TypeOK
  <2> QED BY <1>1, <1>3, <2>1
<1>5. CASE \E r \in Labels : LeafRemoved(p, r)
  <2> PICK r \in Labels : LeafRemoved(p, r) BY <1>5
  <2>1. /\ status[p] = "live" /\ revoke'[p] = NoRevoke
        /\ DropRow(p, r, TooFewWithout(p, r))
      BY DEF LeafRemoved, MayStart, Idle
  <2> QED BY <1>1, <1>3, <2>1
<1>6. CASE \E r \in Labels : RevokeRead(p, r)
  <2> PICK r \in Labels : RevokeRead(p, r) BY <1>6
  <2>1. /\ plan[p] = NoPlan /\ tear[p] = NoKey /\ status[p] = "live"
        /\ UNCHANGED <<status, members, plan, tear>>
        /\ revoke'[p] = [label |-> r, few |-> TooFewWithout(p, r)]
      BY <1>0 DEF RevokeRead, MayStart, Idle, rowVars, TypeOK
  <2>2. /\ revoke'[p].label = r /\ revoke'[p].few = TooFewWithout(p, r)
        /\ TooFewWithout(p, r)' = TooFewWithout(p, r)
      BY <2>1 DEF TooFewWithout
  <2>3. GoodRevoke(p)'
      BY <2>1, <2>2, Zenon DEF GoodRevoke
  <2>4. Populated(p)'
      BY <2>1, <2>3 DEF Populated
  <2> QED BY <1>1, <2>4
<1> QED BY <1>2, <1>4, <1>5, <1>6 DEF Revoke

LEMMA EnoughStep ==
    ASSUME IInv, ~Overlap, EnoughMembers, [Next]_vars
    PROVE  EnoughMembers'
<1>1. \A q \in Stores : Populated(q)
    BY DEF EnoughMembers, Populated
<1>2. \A k \in drawn' : Cardinality(issued'[k].members) >= 2
    BY GrantsStep
<1>3. \A q \in Stores : Populated(q)'
  <2>1. CASE Create \/ Remove
      BY <1>1, <2>1, PlanPopulates
  <2>2. CASE \E p \in Stores : Finish(p) \/ Abandon(p) \/ Ship(p)
      BY <1>1, <2>2, FinishPopulates
  <2>3. CASE \E p \in Stores : \E e \in net : Import(p, e)
      BY <1>1, <2>3, ImportPopulates
  <2>4. CASE \E p \in Stores : ApplyDestroy(p) \/ RevokeApply(p)
      BY <1>1, <2>4, DropPopulates
  <2>5. CASE \E p \in Stores, r \in Labels : Revoke(p, r)
      BY <1>1, <2>5, DropPopulates
  <2>6. CASE \E p \in Labels : Sign(p)
      BY <1>1, <2>6, QuietKeeps DEF Sign, rowVars, Quiet
  <2>7. CASE UNCHANGED vars
      BY <1>1, <2>7, QuietKeeps DEF vars, rowVars, Quiet
  <2> QED BY <2>1, <2>2, <2>3, <2>4, <2>5, <2>6, <2>7 DEF Next
<1> QED BY <1>2, <1>3 DEF EnoughMembers, Populated

(* When the commands of a store do not overlap, a live row always names    *)
(* two members, whatever else crashes or is delivered late: a removal or a *)
(* revoke that would leave one destroys the bridge instead.                *)
THEOREM TwoMembers == ~Overlap => (Spec => []LiveHasTwoMembers)
<1> SUFFICES ASSUME ~Overlap PROVE Spec => []LiveHasTwoMembers
    OBVIOUS
<1>1. Init => EnoughMembers
  <2> SUFFICES ASSUME Init PROVE EnoughMembers
      OBVIOUS
  <2> QED BY DEF Init, EnoughMembers, GoodRevoke
<1>2. IInv /\ EnoughMembers /\ [Next]_vars => EnoughMembers'
    BY EnoughStep
<1>3. EnoughMembers => LiveHasTwoMembers
    BY DEF EnoughMembers, LiveHasTwoMembers
<1> QED BY <1>1, <1>2, <1>3, Invariance, PTL DEF Spec

-----------------------------------------------------------------------------
(* Envelopes and row land together.                                        *)

Commits(p) == CommitCreate(p) \/ CommitRotate(p)

(* A plan that moves on, or ends, still delivers only its own key.         *)
LEMMA OwnPlanKept ==
    ASSUME History, NEW p \in Stores, OwnPlan(p), GoodPlan(p),
           \/ plan'[p] = plan[p]
           \/ plan'[p] = [plan[p] EXCEPT !.written = TRUE] /\ plan[p].op # "none"
           \/ plan'[p] = NoPlan,
           plan[p] \in Plans
    PROVE  OwnPlan(p)'
<1>1. /\ NoPlan.op = "none" /\ NoPlan.packages = {}
    BY DEF NoPlan
<1>2. CASE plan'[p] = NoPlan
    BY <1>1, <1>2 DEF OwnPlan
<1>3. CASE \/ plan'[p] = plan[p]
           \/ plan'[p] = [plan[p] EXCEPT !.written = TRUE] /\ plan[p].op # "none"
  <2>1. /\ plan'[p].op = plan[p].op /\ plan'[p].key = plan[p].key
        /\ plan'[p].packages = plan[p].packages
        /\ plan[p].op = "none" => plan'[p] = plan[p]
      BY <1>3 DEF Plans
  <2>2. plan[p].op = "destroy" => drawn' # {}
      BY DEF OwnPlan, History
  <2>3. plan[p].op \in {"create", "rotate"} =>
            issued'[plan[p].key].by = issued[plan[p].key].by
      BY DEF History, GoodPlan
  <2> QED BY <2>1, <2>2, <2>3 DEF OwnPlan
<1> QED BY <1>2, <1>3

LEMMA NewPlanOwned ==
    ASSUME IInv, \A q \in Stores : OwnPlan(q), Create \/ Remove
    PROVE  \A q \in Stores : OwnPlan(q)'
<1>0. TypeOK /\ History
    BY KeysStayDrawn DEF IInv, Next
<1>1. ASSUME NEW p \in Stores, NEW q \in Stores, q # p, NEW x,
             plan' = [plan EXCEPT ![p] = x]
      PROVE  OwnPlan(q)'
    BY <1>0, <1>1, OwnPlanKept DEF IInv, TypeOK
<1>2. ASSUME NEW p \in Stores, NEW M \in SUBSET Labels, NEW S \in SUBSET Labels,
             NEW self \in BOOLEAN, NEW k \in Keys, PlanCreate(p, M, S, self, k)
      PROVE  OwnPlan(p)'
  <2>1. /\ plan'[p].op = "create" /\ plan'[p].key = k
        /\ plan'[p].packages = PackagesForRoster("invite", 1, k, M, S, NoKey)
      BY <1>0, <1>2 DEF PlanCreate, TypeOK
  <2>2. \A e \in plan'[p].packages : e.key = k
      BY <2>1 DEF PackagesForRoster
  <2>3. issued'[k].by = p
      BY <1>2 DEF PlanCreate, Draw
  <2> QED BY <2>1, <2>2, <2>3 DEF OwnPlan
<1>3. ASSUME NEW p \in Labels, NEW r \in Labels, NEW k \in Keys,
             PlanRotate(p, r, k)
      PROVE  OwnPlan(p)'
  <2> DEFINE M == members[p] \ {r}
             S == SupervisorsFor(M, members[p] \union supers[p])
  <2>1. /\ plan'[p].op = "rotate" /\ plan'[p].key = k
        /\ plan'[p].packages =
             PackagesForRoster("rotate", gen[p] + 1, k, M, S, sealed[p])
             \union DestroyPackages(DroppedParties(p, M, S), p, M, S)
      BY <1>0, <1>3, LabelsAreStores DEF PlanRotate, TypeOK
  <2> HIDE DEF M, S
  <2>2. \A e \in PackagesForRoster("rotate", gen[p] + 1, k, M, S, sealed[p]) :
            e.key = k
      BY DEF PackagesForRoster
  <2>3. \A e \in DestroyPackages(DroppedParties(p, M, S), p, M, S) :
            e.kind = "destroy"
      BY DEF DestroyPackages
  <2>4. issued'[k].by = p
      BY <1>3 DEF PlanRotate, Draw
  <2> QED BY <2>1, <2>2, <2>3, <2>4 DEF OwnPlan
<1>4. ASSUME NEW p \in Labels, NEW r \in Labels, PlanDestroy(p, r)
      PROVE  OwnPlan(p)'
  <2> DEFINE M == members[p] \ {r}
             S == SupervisorsFor(M, members[p] \union supers[p])
  <2>1. /\ plan'[p].op = "destroy" /\ status[p] = "live"
        /\ plan'[p].packages =
             DestroyPackages(members[p] \union supers[p], p, M, S)
      BY <1>0, <1>4, LabelsAreStores DEF PlanDestroy, CanRemove, TypeOK
  <2> HIDE DEF M, S
  <2>2. \A e \in DestroyPackages(members[p] \union supers[p], p, M, S) :
            e.kind = "destroy"
      BY DEF DestroyPackages
  <2>3. drawn' # {}
      BY <2>1, <1>0, RowHoldsKey, LabelsAreStores DEF History
  <2> QED BY <2>1, <2>2, <2>3 DEF OwnPlan
<1>5. CASE Create
  <2>1. PICK p \in Stores, M \in SUBSET Labels, S \in SUBSET Labels,
             self \in BOOLEAN, k \in Keys : PlanCreate(p, M, S, self, k)
      BY <1>5 DEF Create
  <2>2. OwnPlan(p)'
      BY <1>2, <2>1
  <2>3. PICK x : plan' = [plan EXCEPT ![p] = x]
      BY <2>1 DEF PlanCreate
  <2> QED BY <1>1, <2>2, <2>3
<1>6. CASE Remove
  <2>1. ASSUME NEW p \in Labels, NEW r \in Labels, PlanDestroy(p, r)
        PROVE  \A q \in Stores : OwnPlan(q)'
      BY <1>1, <1>4, <2>1, LabelsAreStores DEF PlanDestroy
  <2>2. ASSUME NEW p \in Labels, NEW r \in Labels, NEW k \in Keys,
               PlanRotate(p, r, k)
        PROVE  \A q \in Stores : OwnPlan(q)'
      BY <1>1, <1>3, <2>2, LabelsAreStores DEF PlanRotate
  <2> QED BY <1>6, <2>1, <2>2 DEF Remove
<1> QED BY <1>5, <1>6

(* What a command in flight does to its plan.                              *)
LEMMA PlanMoves ==
    ASSUME IInv, [Next]_vars, ~Create, ~Remove, NEW p \in Stores
    PROVE  \/ plan'[p] = plan[p]
           \/ plan'[p] = [plan[p] EXCEPT !.written = TRUE] /\ plan[p].op # "none"
           \/ plan'[p] = NoPlan
<1>0. TypeOK BY DEF IInv
<1>1. CASE UNCHANGED plan
    BY <1>1
<1>2. ASSUME NEW q \in Stores, Finish(q) \/ Abandon(q) \/ Ship(q)
      PROVE  \/ plan'[p] = plan[p]
             \/ plan'[p] = [plan[p] EXCEPT !.written = TRUE] /\ plan[p].op # "none"
             \/ plan'[p] = NoPlan
  <2>1. CASE WritePackages(q)
    <3>1. /\ plan[q].op # "none"
          /\ plan' = [plan EXCEPT ![q] = [plan[q] EXCEPT !.written = TRUE]]
        BY <2>1, Zenon DEF WritePackages
    <3> QED BY <1>0, <3>1 DEF TypeOK
  <2>2. CASE Ship(q)
      BY <2>2 DEF Ship
  <2>3. CASE (Finish(q) /\ ~WritePackages(q)) \/ Abandon(q)
    <3>1. plan' = [plan EXCEPT ![q] = NoPlan]
        BY <2>3 DEF Finish, Abandon, WriteFails, CommitFails, CommitCreate,
           CommitRotate, CommitDestroy, Crash
    <3> QED BY <1>0, <3>1 DEF TypeOK
  <2> QED BY <1>2, <2>1, <2>2, <2>3
<1>3. CASE \E q \in Stores : \E e \in net : Import(q, e)
    BY <1>1, <1>3 DEF Import, ImportInvite, ImportRotate, VerifyDestroy
<1>4. CASE \E q \in Stores : ApplyDestroy(q) \/ RevokeApply(q)
    BY <1>1, <1>4 DEF ApplyDestroy, RevokeApply
<1>5. CASE \E q \in Stores, r \in Labels : Revoke(q, r)
    BY <1>1, <1>5 DEF Revoke, LeafRemoved, RevokeRead
<1>6. CASE \E q \in Labels : Sign(q)
    BY <1>1, <1>6 DEF Sign
<1>7. CASE UNCHANGED vars
    BY <1>1, <1>7 DEF vars
<1> QED BY <1>2, <1>3, <1>4, <1>5, <1>6, <1>7 DEF Next

LEMMA PlansOwned ==
    ASSUME IInv, \A q \in Stores : OwnPlan(q), [Next]_vars
    PROVE  \A q \in Stores : OwnPlan(q)'
<1>1. CASE Create \/ Remove
    BY <1>1, NewPlanOwned
<1>2. CASE ~Create /\ ~Remove
    BY <1>2, PlanMoves, OwnPlanKept, KeysStayDrawn DEF IInv, TypeOK
<1> QED BY <1>1, <1>2

(* Only a commit adds to the envelopes that no running command would       *)
(* delete, and only those are shipped.                                     *)
LEMMA KeptMoves ==
    ASSUME IInv, ~Crashes, \A q \in Stores : OwnPlan(q), [Next]_vars
    PROVE  /\ \A e \in net' : e \in net \/ \E p \in Stores : e \in Kept(p)
           /\ \A p \in Stores : \A e \in Kept(p)' :
                 \/ e \in Kept(p)
                 \/ e \in plan[p].packages /\ (Commits(p) \/ CommitDestroy(p))
<1>0. TypeOK BY DEF IInv
<1>a. NoPlan.written = FALSE /\ NoPlan.op = "none" BY DEF NoPlan
<1>1. CASE UNCHANGED <<plan, files, net>>
    BY <1>1 DEF Kept
<1>2. ASSUME NEW p \in Stores, plan[p] = NoPlan, UNCHANGED <<files, net>>,
             NEW x, x.written = FALSE, plan' = [plan EXCEPT ![p] = x]
      PROVE  /\ net' = net
             /\ \A q \in Stores : \A e \in Kept(q)' : e \in Kept(q)
  <2>1. ASSUME NEW q \in Stores, q # p PROVE Kept(q)' = Kept(q)
      BY <1>0, <1>2, <2>1 DEF Kept, TypeOK
  <2>2. Kept(p)' = Kept(p)
      BY <1>0, <1>a, <1>2 DEF Kept, TypeOK
  <2> QED BY <1>2, <2>1, <2>2
<1>3. CASE Create
  <2>1. PICK p \in Stores, M \in SUBSET Labels, S \in SUBSET Labels,
             self \in BOOLEAN, k \in Keys : PlanCreate(p, M, S, self, k)
      BY <1>3 DEF Create
  <2> DEFINE x == [op |-> "create", written |-> FALSE, expect |-> 0, key |-> k,
                   members |-> M, supers |-> S, self |-> self,
                   packages |-> PackagesForRoster("invite", 1, k, M, S, NoKey)]
  <2>2. plan' = [plan EXCEPT ![p] = x] /\ x.written = FALSE /\ drawn = {}
        /\ UNCHANGED <<files, net>>
      BY <2>1 DEF PlanCreate
  <2>3. plan[p] = NoPlan
    <3>1. /\ OwnPlan(p) /\ GoodPlan(p)
          /\ plan[p].op \in {"none", "create", "rotate", "destroy"}
        BY <1>0 DEF IInv, TypeOK, Plans
    <3> QED BY <2>2, <3>1 DEF OwnPlan, GoodPlan
  <2> HIDE DEF x
  <2> QED BY <1>2, <2>2, <2>3
<1>4. CASE Remove
  <2>1. ASSUME NEW p \in Labels, NEW r \in Labels, PlanDestroy(p, r)
        PROVE  /\ plan[p] = NoPlan /\ UNCHANGED <<files, net>>
               /\ \E x : x.written = FALSE /\ plan' = [plan EXCEPT ![p] = x]
      BY <2>1 DEF PlanDestroy
  <2>2. ASSUME NEW p \in Labels, NEW r \in Labels, NEW k \in Keys,
               PlanRotate(p, r, k)
        PROVE  /\ plan[p] = NoPlan /\ UNCHANGED <<files, net>>
               /\ \E x : x.written = FALSE /\ plan' = [plan EXCEPT ![p] = x]
      BY <2>2 DEF PlanRotate
  <2>3. PICK p \in Stores : /\ plan[p] = NoPlan /\ UNCHANGED <<files, net>>
               /\ \E x : x.written = FALSE /\ plan' = [plan EXCEPT ![p] = x]
      BY <1>4, <2>1, <2>2, LabelsAreStores DEF Remove
  <2> QED BY <1>2, <2>3
<1>5. ASSUME NEW p \in Stores, Finish(p) \/ Abandon(p) \/ Ship(p)
      PROVE  /\ \A e \in net' : e \in net \/ \E q \in Stores : e \in Kept(q)
             /\ \A q \in Stores : \A e \in Kept(q)' :
                   \/ e \in Kept(q)
                   \/ e \in plan[q].packages /\ (Commits(q) \/ CommitDestroy(q))
  <2>0. plan[p] \in Plans /\ OwnPlan(p) BY <1>0 DEF TypeOK
  <2>1. ASSUME NEW q \in Stores, q # p PROVE Kept(q)' = Kept(q)
    <3>1. plan'[q] = plan[q] /\ files'[q] = files[q]
        BY <1>0, <1>5, <2>1 DEF Finish, Abandon, WritePackages, WriteFails,
           CommitFails, CommitCreate, CommitRotate, CommitDestroy, Crash, Ship, TypeOK
    <3> QED BY <3>1 DEF Kept
  <2>2. CASE Ship(p)
    <3>1. Kept(p) = files[p] /\ net' = net \union files[p] /\ files'[p] = {}
        BY <1>0, <1>a, <2>2 DEF Ship, Kept, TypeOK
    <3> QED BY <2>1, <3>1 DEF Kept
  <2>3. CASE WritePackages(p)
    <3>1. /\ plan' = [plan EXCEPT ![p] = [plan[p] EXCEPT !.written = TRUE]]
          /\ net' = net /\ ~plan[p].written
          /\ files' = [files EXCEPT ![p] = files[p] \union plan[p].packages]
        BY <2>3, Zenon DEF WritePackages
    <3>2. plan'[p] = [plan[p] EXCEPT !.written = TRUE]
        BY <1>0, <3>1 DEF TypeOK
    <3>3. plan'[p].packages = plan[p].packages /\ plan'[p].written
        BY <2>0, <3>2 DEF Plans
    <3>4. files'[p] = files[p] \union plan[p].packages
        BY <1>0, <3>1 DEF TypeOK
    <3>5. Kept(p)' \subseteq Kept(p)
        BY <3>1, <3>3, <3>4 DEF Kept
    <3> QED BY <2>1, <3>1, <3>5
  <2>4. CASE WriteFails(p)
    <3>1. ~plan[p].written /\ plan'[p] = NoPlan /\ UNCHANGED <<files, net>>
        BY <1>0, <2>4 DEF WriteFails, TypeOK
    <3>2. Kept(p)' = Kept(p)
        BY <1>a, <3>1 DEF Kept
    <3> QED BY <2>1, <3>1, <3>2
  <2>5. CASE CommitFails(p)
    <3>1. /\ plan[p].written /\ plan'[p] = NoPlan /\ net' = net
          /\ files'[p] = files[p] \ plan[p].packages
        BY <1>0, <2>5 DEF CommitFails, TypeOK
    <3>2. Kept(p)' = Kept(p)
        BY <1>a, <3>1 DEF Kept
    <3> QED BY <2>1, <3>1, <3>2
  <2>6. CASE Commits(p) \/ CommitDestroy(p)
    <3>1. plan[p].written /\ plan'[p] = NoPlan /\ UNCHANGED <<files, net>>
        BY <1>0, <2>6 DEF Commits, CommitCreate, CommitRotate, CommitDestroy, TypeOK
    <3>2. Kept(p)' \subseteq Kept(p) \union plan[p].packages
        BY <1>a, <3>1 DEF Kept
    <3> QED BY <2>1, <2>6, <3>1, <3>2
  <2>7. ~Crash(p) BY DEF Crash
  <2> QED BY <1>5, <2>2, <2>3, <2>4, <2>5, <2>6, <2>7 DEF Finish, Abandon, Commits
<1>6. CASE \E p \in Stores : \E e \in net : Import(p, e)
    BY <1>1, <1>6 DEF Import, ImportInvite, ImportRotate, VerifyDestroy
<1>7. CASE \E p \in Stores : ApplyDestroy(p) \/ RevokeApply(p)
    BY <1>1, <1>7 DEF ApplyDestroy, RevokeApply
<1>8. CASE \E p \in Stores, r \in Labels : Revoke(p, r)
    BY <1>1, <1>8 DEF Revoke, LeafRemoved, RevokeRead
<1>9. CASE \E p \in Labels : Sign(p)
    BY <1>1, <1>9 DEF Sign
<1>10. CASE UNCHANGED vars
    BY <1>1, <1>10 DEF vars
<1>11. CASE \E p \in Stores : Finish(p) \/ Abandon(p) \/ Ship(p)
    BY <1>5, <1>11
<1> QED BY <1>3, <1>4, <1>6, <1>7, <1>8, <1>9, <1>10, <1>11 DEF Next

(* A row keeps its key, takes the one its own command committed, or the    *)
(* one of a delivered envelope, and never goes back.                       *)
RowMove(q) ==
    /\ status[q] # "none" => (status'[q] # "none" /\ gen'[q] >= gen[q])
    /\ status'[q] # "none" =>
          \/ (status[q] # "none" /\ key'[q] = key[q])
          \/ (Commits(q) /\ key'[q] = plan[q].key)
          \/ \E e \in net : e.kind # "destroy" /\ key'[q] = e.key

LEMMA RowStaysOrEnds ==
    ASSUME NEW q \in Stores, gen[q] \in Nat, gen'[q] = gen[q], key'[q] = key[q],
           status'[q] # status[q] => (status[q] # "none" /\ status'[q] = "destroyed")
    PROVE  RowMove(q)
BY DEF RowMove

LEMMA RowMoves ==
    ASSUME IInv, [Next]_vars, NEW q \in Stores
    PROVE  RowMove(q)
<1>0. TypeOK /\ gen[q] \in Nat BY DEF IInv, TypeOK
<1>2. CASE UNCHANGED rowVars
    BY <1>0, <1>2, RowStaysOrEnds DEF rowVars
<1>3. CASE Create \/ Remove
  <2>1. CASE Create
      BY <1>2, <2>1 DEF Create, PlanCreate
  <2>2. CASE Remove
      BY <1>2, <2>2 DEF Remove, PlanRotate, PlanDestroy
  <2> QED BY <1>3, <2>1, <2>2
<1>4. ASSUME NEW p \in Stores, Finish(p) \/ Abandon(p) \/ Ship(p)
      PROVE  RowMove(q)
  <2>1. CASE WritePackages(p) \/ Abandon(p) \/ Ship(p)
      BY <1>2, <2>1
         DEF WritePackages, Abandon, WriteFails, CommitFails, Crash, Ship
  <2>2. CASE CommitDestroy(p)
    <3>1. /\ gen'[q] = gen[q] /\ key'[q] = key[q]
          /\ status'[q] # status[q] =>
                (status[q] # "none" /\ status'[q] = "destroyed")
        BY <1>0, <2>2 DEF CommitDestroy, StillAtPlannedGeneration, TypeOK
    <3> QED BY <1>0, <3>1, RowStaysOrEnds
  <2>3. CASE Commits(p) /\ p # q
    <3>1. gen'[q] = gen[q] /\ key'[q] = key[q] /\ status'[q] = status[q]
        BY <1>0, <2>3 DEF Commits, CommitCreate, CommitRotate, TypeOK
    <3> QED BY <1>0, <3>1, RowStaysOrEnds
  <2>4. CASE Commits(p) /\ p = q
    <3>1. /\ key'[q] = plan[q].key
          /\ status[q] # "none" => status'[q] # "none" /\ gen'[q] = gen[q] + 1
        BY <1>0, <2>4
           DEF Commits, CommitCreate, CommitRotate, StillAtPlannedGeneration, TypeOK
    <3> QED BY <1>0, <2>4, <3>1 DEF RowMove
  <2> QED BY <1>4, <2>1, <2>2, <2>3, <2>4 DEF Finish, Commits
<1>5. ASSUME NEW p \in Stores, NEW e \in net, Import(p, e)
      PROVE  RowMove(q)
  <2>1. CASE VerifyDestroy(p, e)
      BY <1>2, <2>1 DEF VerifyDestroy
  <2>2. CASE (ImportInvite(p, e) \/ ImportRotate(p, e)) /\ p # q
    <3>1. gen'[q] = gen[q] /\ key'[q] = key[q] /\ status'[q] = status[q]
        BY <1>0, <2>2 DEF ImportInvite, ImportRotate, AdoptEnvelope, TypeOK
    <3> QED BY <1>0, <3>1, RowStaysOrEnds
  <2>3. CASE (ImportInvite(p, e) \/ ImportRotate(p, e)) /\ p = q
    <3>1. /\ key'[q] = e.key /\ e.kind # "destroy"
          /\ status[q] # "none" => status'[q] # "none" /\ gen'[q] = gen[q] + 1
        BY <1>0, <2>3 DEF ImportInvite, ImportRotate, IsInvite, AdoptEnvelope, TypeOK
    <3> QED BY <1>0, <3>1 DEF RowMove
  <2> QED BY <1>5, <2>1, <2>2, <2>3 DEF Import
<1>6. ASSUME NEW p \in Stores,
             \/ ApplyDestroy(p) \/ RevokeApply(p)
             \/ \E r \in Labels : LeafRemoved(p, r)
      PROVE  RowMove(q)
  <2>1. /\ key' = key /\ gen' = gen /\ status[p] # "none"
      BY <1>6 DEF IInv, ApplyDestroy, RevokeApply, LeafRemoved, DropRow, GoodRow
  <2>2. status'[q] # status[q] => (q = p /\ status'[q] = "destroyed")
      BY <1>0, <1>6 DEF ApplyDestroy, RevokeApply, LeafRemoved, DropRow, TypeOK
  <2> QED BY <1>0, <2>1, <2>2, RowStaysOrEnds
<1>7. CASE \E p \in Stores, r \in Labels : RevokeRead(p, r)
    BY <1>2, <1>7 DEF RevokeRead
<1>8. CASE \E p \in Labels : Sign(p)
    BY <1>2, <1>8 DEF Sign
<1>9. CASE UNCHANGED vars
    BY <1>2, <1>9 DEF vars
<1> QED BY <1>3, <1>4, <1>5, <1>6, <1>7, <1>8, <1>9 DEF Next, Revoke

(* Only a commit publishes a key.                                          *)
LEMMA PublishedMoves ==
    ASSUME IInv, ~Crashes, \A q \in Stores : OwnPlan(q), [Next]_vars,
           NEW k, Published(k)'
    PROVE  \/ Published(k)
           \/ \E p \in Stores : Commits(p) /\ k = plan[p].key
<1>1. CASE \E e \in net' : e.kind # "destroy" /\ e.key = k
    BY <1>1, KeptMoves DEF Published
<1>2. CASE \E p \in Stores : \E e \in Kept(p)' : e.kind # "destroy" /\ e.key = k
  <2>1. PICK p \in Stores : \E e \in Kept(p)' : e.kind # "destroy" /\ e.key = k
      BY <1>2
  <2>2. PICK e \in Kept(p)' : e.kind # "destroy" /\ e.key = k
      BY <2>1
  <2>3. CASE e \in Kept(p)
      BY <2>2, <2>3 DEF Published
  <2>4. CASE e \in plan[p].packages /\ (Commits(p) \/ CommitDestroy(p))
    <3>1. plan[p].op # "destroy" /\ e.key = plan[p].key
        BY <2>2, <2>4 DEF OwnPlan
    <3> QED BY <2>2, <2>4, <3>1 DEF CommitDestroy
  <2> QED BY <2>3, <2>4, KeptMoves
<1>3. CASE \E p \in Stores : status'[p] # "none" /\ key'[p] = k
    BY <1>3, RowMoves DEF Published, RowMove
<1> QED BY <1>1, <1>2, <1>3 DEF Published

LEMMA CommitRecords ==
    ASSUME IInv, NEW p \in Stores, OwnPlan(p), Commits(p), NEW k, k = plan[p].key
    PROVE  k \in drawn /\ Recorded(k)'
<1>0. TypeOK /\ GoodPlan(p) /\ DrawnKeys BY DEF IInv
<1>1. /\ plan[p].key \in drawn /\ issued' = issued
      /\ issued[plan[p].key].by = p
    BY <1>0 DEF Commits, CommitCreate, CommitRotate, GoodPlan, OwnPlan
<1>2. /\ status'[p] = "live" /\ gen'[p] = issued[plan[p].key].gen
      /\ gen'[p] \in Nat
  <2>1. CASE CommitCreate(p)
    <3>1. status'[p] = "live" /\ gen'[p] = 1 /\ plan[p].op = "create"
        BY <1>0, <2>1 DEF CommitCreate, TypeOK
    <3> QED BY <1>0, <1>1, <3>1 DEF GoodPlan, DrawnKeys
  <2>2. CASE CommitRotate(p)
    <3>1. /\ status'[p] = "live" /\ gen'[p] = plan[p].expect + 1
          /\ plan[p].op = "rotate" /\ plan[p].expect \in Nat
        BY <1>0, <2>2
           DEF CommitRotate, StillAtPlannedGeneration, TypeOK, Plans
    <3> QED BY <1>0, <3>1 DEF GoodPlan
  <2> QED BY <2>1, <2>2 DEF Commits
<1> QED BY <1>1, <1>2 DEF Recorded

LEMMA RecordedStays ==
    ASSUME IInv, [Next]_vars, NEW k \in drawn, Recorded(k)
    PROVE  Recorded(k)'
<1>1. k \in drawn' /\ issued'[k] = issued[k]
    BY KeysStayDrawn DEF History
<1>2. issued[k].by \in Stores /\ issued[k].gen \in Nat
    BY DEF IInv, TypeOK, Issues
<1>3. /\ gen[issued[k].by] \in Nat /\ gen'[issued[k].by] \in Nat
    BY <1>2, NextGood DEF IInv, TypeOK
<1> QED BY <1>1, <1>2, <1>3, RowMoves DEF Recorded, RowMove

LEMMA PublishedDrawn ==
    ASSUME IInv, NEW k, Published(k)
    PROVE  k \in drawn
<1>1. \A p \in Stores : Kept(p) \subseteq files[p]
    BY DEF Kept
<1> QED BY <1>1 DEF Published, IInv, GoodEnvelopes, GoodEnvelope, GoodRow

LEMMA DeliveryKept ==
    ASSUME IInv, ~Crashes, Delivery, [Next]_vars
    PROVE  Delivery'
<1>1. \A q \in Stores : OwnPlan(q)'
    BY PlansOwned DEF Delivery
<1>2. ASSUME NEW k \in drawn', Published(k)' PROVE Recorded(k)'
  <2>1. CASE \E p \in Stores : Commits(p) /\ k = plan[p].key
      BY <2>1, CommitRecords DEF Delivery
  <2>2. CASE Published(k) /\ k \in drawn
      BY <2>2, RecordedStays DEF Delivery
  <2> QED BY <1>2, <2>1, <2>2, PublishedDrawn, PublishedMoves DEF Delivery
<1> QED BY <1>1, <1>2 DEF Delivery

LEMMA DeliveryInit == Init => Delivery
<1> SUFFICES ASSUME Init PROVE Delivery
    OBVIOUS
<1>1. NoPlan.op = "none" /\ NoPlan.packages = {}
    BY DEF NoPlan
<1> QED BY <1>1 DEF Init, Delivery, OwnPlan

(* Unless a command is killed half way, whoever imports an invite or a     *)
(* rotation finds its writer's store already at that generation: write,    *)
(* commit and keep leave both the envelopes and the row, or neither,       *)
(* whichever of them fails and whatever other command commits in between.  *)
THEOREM LandTogether == ~Crashes => (Spec => []BothOrNeither)
<1> SUFFICES ASSUME ~Crashes PROVE Spec => []BothOrNeither
    OBVIOUS
<1>1. IInv /\ Delivery /\ [Next]_vars => Delivery'
    BY DeliveryKept
<1>2. IInv /\ Delivery => BothOrNeither
  <2> SUFFICES ASSUME IInv, Delivery, NEW e \in net,
                      e.kind \in {"invite", "rotate"}
               PROVE  Recorded(e.key)
      BY DEF BothOrNeither, Recorded
  <2>1. Published(e.key)
      BY DEF Published
  <2>2. e.key \in drawn
      BY DEF IInv, GoodEnvelopes, GoodEnvelope
  <2> QED BY <2>1, <2>2 DEF Delivery
<1> QED BY <1>1, <1>2, DeliveryInit, Invariance, PTL DEF Spec

-----------------------------------------------------------------------------
(* One label rotates: the bridge does not fork.                            *)

OneRotator == \A p, q \in Rotators : p = q

LEMMA KeysOwnedKept ==
    ASSUME IInv, KeysOwned, [Next]_vars
    PROVE  KeysOwned'
<1>0. TypeOK BY DEF IInv
<1>1. CASE UNCHANGED <<drawn, issued>>
    BY <1>1 DEF KeysOwned
<1>2. CASE Create
  <2>1. PICK p \in Stores, M \in SUBSET Labels, S \in SUBSET Labels,
             self \in BOOLEAN, k \in Keys : PlanCreate(p, M, S, self, k)
      BY <1>2 DEF Create
  <2>2. drawn = {} /\ k \notin drawn /\ Draw(k, p, M, NoKey, 1)
      BY <2>1 DEF PlanCreate
  <2>3. /\ drawn' = {k}
        /\ issued'[k] = [members |-> M, parent |-> NoKey, gen |-> 1, by |-> p]
      BY <1>0, <2>2, DrawFacts
  <2>4. issued'[k].parent = NoKey /\ issued'[k].gen = 1
      BY <2>3
  <2> QED BY <2>3, <2>4 DEF KeysOwned
<1>3. ASSUME NEW p \in Labels, NEW r \in Labels, NEW k \in Keys,
             PlanRotate(p, r, k)
      PROVE  KeysOwned'
  <2>1. /\ p \in Rotators /\ status[p] = "live" /\ k \notin drawn
        /\ Draw(k, p, members[p] \ {r}, key[p], gen[p] + 1)
      BY <1>3 DEF PlanRotate, CanRemove
  <2> DEFINE M == members[p] \ {r}
             par == key[p]
             g == gen[p] + 1
  <2>2. /\ p \in Stores /\ M \in SUBSET Labels /\ par \in Keys
        /\ g \in Nat /\ g >= 1
      BY <1>0, <2>1, RowHoldsKey, LabelsAreStores DEF TypeOK
  <2>3. k \notin drawn /\ Draw(k, p, M, par, g)
      BY <2>1
  <2> HIDE DEF M, par, g
  <2>4. /\ drawn' = drawn \union {k}
        /\ issued'[k] = [members |-> M, parent |-> par, gen |-> g, by |-> p]
        /\ \A d \in drawn : issued'[d] = issued[d]
      BY <1>0, <2>2, <2>3, DrawFacts
  <2>5. issued'[k].parent = par /\ issued'[k].by = p /\ issued'[k].gen = g
      BY <2>4
  <2>6. /\ issued'[k].parent # NoKey /\ issued'[k].by \in Rotators
        /\ issued'[k].gen >= 1
      BY <2>1, <2>2, <2>5, BridgeAssumption
  <2> QED BY <2>4, <2>6 DEF KeysOwned
<1>4. CASE Remove
    BY <1>1, <1>3, <1>4 DEF Remove, PlanDestroy
<1>5. CASE \E p \in Stores : Finish(p) \/ Abandon(p) \/ Ship(p)
    BY <1>1, <1>5 DEF Finish, Abandon, WritePackages, WriteFails, CommitFails,
       CommitCreate, CommitRotate, CommitDestroy, Crash, Ship
<1>6. CASE \E p \in Stores : \E e \in net : Import(p, e)
    BY <1>1, <1>6 DEF Import, ImportInvite, ImportRotate, VerifyDestroy
<1>7. CASE \E p \in Stores : ApplyDestroy(p) \/ RevokeApply(p)
    BY <1>1, <1>7 DEF ApplyDestroy, RevokeApply
<1>8. CASE \E p \in Stores, r \in Labels : Revoke(p, r)
    BY <1>1, <1>8 DEF Revoke, LeafRemoved, RevokeRead
<1>9. CASE \E p \in Labels : Sign(p)
    BY <1>1, <1>9 DEF Sign
<1>10. CASE UNCHANGED vars
    BY <1>1, <1>10 DEF vars
<1> QED BY <1>2, <1>4, <1>5, <1>6, <1>7, <1>8, <1>9, <1>10 DEF Next

LEMMA OneCommit ==
    ASSUME IInv, NEW p \in Stores, NEW q \in Stores, Commits(p), Commits(q)
    PROVE  p = q
<1>1. plan' = [plan EXCEPT ![p] = NoPlan] /\ plan'[q] = NoPlan
    BY DEF Commits, CommitCreate, CommitRotate, IInv, TypeOK
<1>2. plan[q] # NoPlan
    BY DEF Commits, CommitCreate, CommitRotate, NoPlan
<1> QED BY <1>1, <1>2

(* The one rotating label never draws a second key for a generation that   *)
(* was published: its own store has left the generation before.            *)
LEMMA CommitAlone ==
    ASSUME IInv, OneRotator, Delivery, KeysOwned, NEW p \in Stores, Commits(p),
           NEW l \in drawn, Published(l),
           issued[l].gen = issued[plan[p].key].gen
    PROVE  l = plan[p].key
<1>0. GoodPlan(p) /\ OwnPlan(p) /\ DrawnKeys /\ TypeOK
    BY DEF IInv, Delivery
<1>1. CASE CommitCreate(p)
  <2>1. /\ plan[p].key \in drawn /\ issued[plan[p].key].parent = NoKey
        /\ issued[plan[p].key].gen = 1
      BY <1>0, <1>1 DEF CommitCreate, GoodPlan, DrawnKeys
  <2>2. issued[l].parent = NoKey
    <3>1. CASE issued[l].parent # NoKey
      <4>1. /\ issued[l].parent \in drawn
            /\ issued[l].gen = issued[issued[l].parent].gen + 1
          BY <1>0, <3>1 DEF DrawnKeys
      <4>2. issued[issued[l].parent].gen >= 1 /\ issued[issued[l].parent].gen \in Nat
          BY <1>0, <4>1 DEF KeysOwned, TypeOK, Issues
      <4> QED BY <2>1, <4>1, <4>2
    <3> QED BY <3>1
  <2> QED BY <2>1, <2>2 DEF KeysOwned
<1>2. CASE CommitRotate(p)
  <2>1. /\ plan[p].key \in drawn /\ issued[plan[p].key].parent # NoKey
        /\ issued[plan[p].key].gen = plan[p].expect + 1
        /\ issued[plan[p].key].by = p
        /\ gen[p] = plan[p].expect /\ gen[p] \in Nat
      BY <1>0, <1>2 DEF CommitRotate, StillAtPlannedGeneration, GoodPlan, OwnPlan, TypeOK
  <2>2. issued[l].parent # NoKey
    <3>1. CASE issued[l].parent = NoKey
      <4>1. issued[l].gen = 1
          BY <1>0, <3>1 DEF DrawnKeys
      <4>2. /\ issued[plan[p].key].parent \in drawn
            /\ issued[plan[p].key].gen = issued[issued[plan[p].key].parent].gen + 1
          BY <1>0, <2>1 DEF DrawnKeys
      <4>3. /\ issued[issued[plan[p].key].parent].gen >= 1
            /\ issued[issued[plan[p].key].parent].gen \in Nat
          BY <1>0, <4>2 DEF KeysOwned, TypeOK, Issues
      <4> DEFINE n == issued[issued[plan[p].key].parent].gen
      <4>4. 1 = n + 1 /\ n >= 1 /\ n \in Nat
          BY <4>1, <4>2, <4>3
      <4> HIDE DEF n
      <4> QED BY <4>4
    <3> QED BY <3>1
  <2>3. issued[l].by = p
      BY <2>1, <2>2 DEF KeysOwned, OneRotator
  <2>4. gen[p] >= issued[l].gen
      BY <2>3 DEF Delivery, Recorded
  <2> QED BY <2>1, <2>4
<1> QED BY <1>1, <1>2 DEF Commits

LEMMA OneKeyKept ==
    ASSUME IInv, ~Crashes, OneRotator, Delivery, KeysOwned, OneKeyPerGeneration,
           [Next]_vars
    PROVE  OneKeyPerGeneration'
<1>0. History BY KeysStayDrawn
<1>1. SUFFICES ASSUME NEW k \in drawn', NEW l \in drawn', Published(k)',
                      Published(l)', issued'[k].gen = issued'[l].gen
               PROVE  k = l
    BY DEF OneKeyPerGeneration
<1>2. ASSUME NEW d, Published(d)'
      PROVE  /\ d \in drawn /\ issued'[d] = issued[d]
             /\ Published(d) \/ \E p \in Stores : Commits(p) /\ d = plan[p].key
  <2>1. Published(d) \/ \E p \in Stores : Commits(p) /\ d = plan[p].key
      BY <1>2, PublishedMoves DEF Delivery
  <2>2. d \in drawn
      BY <2>1, PublishedDrawn, CommitRecords DEF Delivery
  <2> QED BY <1>0, <2>1, <2>2 DEF History
<1>3. issued[k].gen = issued[l].gen /\ k \in drawn /\ l \in drawn
    BY <1>1, <1>2
<1>4. CASE Published(k) /\ Published(l)
    BY <1>3, <1>4 DEF OneKeyPerGeneration
<1>5. ASSUME NEW p \in Stores, Commits(p), k = plan[p].key PROVE k = l
  <2>1. CASE Published(l)
      BY <1>3, <1>5, <2>1, CommitAlone
  <2>2. CASE \E q \in Stores : Commits(q) /\ l = plan[q].key
      BY <1>5, <2>2, OneCommit
  <2> QED BY <1>1, <1>2, <2>1, <2>2
<1>6. ASSUME NEW p \in Stores, Commits(p), l = plan[p].key PROVE k = l
  <2>1. CASE Published(k)
      BY <1>3, <1>6, <2>1, CommitAlone
  <2>2. CASE \E q \in Stores : Commits(q) /\ k = plan[q].key
      BY <1>5, <2>2
  <2> QED BY <1>1, <1>2, <2>1, <2>2
<1> QED BY <1>1, <1>2, <1>4, <1>5, <1>6

LEMMA OwnedInit ==
    Init => KeysOwned /\ OneKeyPerGeneration
BY DEF Init, KeysOwned, OneKeyPerGeneration

(* When one label rotates and no command is killed half way, two live rows *)
(* of one generation hold one key: the envelopes of a rotation that failed *)
(* and was run again never compete with those of the one that landed.      *)
(* Revokes, overlapping commands and late or repeated imports do not       *)
(* matter.                                                                 *)
THEOREM NoFork == ~Crashes /\ OneRotator => (Spec => []SameGenerationSameKey)
<1> SUFFICES ASSUME ~Crashes, OneRotator PROVE Spec => []SameGenerationSameKey
    OBVIOUS
<1>1. IInv /\ Delivery /\ [Next]_vars => Delivery'
    BY DeliveryKept
<1>2. IInv /\ KeysOwned /\ [Next]_vars => KeysOwned'
    BY KeysOwnedKept
<1>3. IInv /\ Delivery /\ KeysOwned /\ OneKeyPerGeneration /\ [Next]_vars
        => OneKeyPerGeneration'
    BY OneKeyKept
<1>4. IInv /\ OneKeyPerGeneration => SameGenerationSameKey
  <2> SUFFICES ASSUME IInv, OneKeyPerGeneration, NEW p \in Stores, NEW q \in Stores,
                      status[p] = "live", status[q] = "live", gen[p] = gen[q]
               PROVE  key[p] = key[q]
      BY DEF SameGenerationSameKey
  <2>1. /\ key[p] \in drawn /\ gen[p] = issued[key[p]].gen
        /\ key[q] \in drawn /\ gen[q] = issued[key[q]].gen
      BY DEF IInv, GoodRow
  <2>2. Published(key[p]) /\ Published(key[q])
      BY DEF Published
  <2> QED BY <2>1, <2>2 DEF OneKeyPerGeneration
<1> QED BY <1>1, <1>2, <1>3, <1>4, DeliveryInit, OwnedInit, Invariance, PTL DEF Spec

-----------------------------------------------------------------------------
(* One label rotates and nobody is revoked: who stays is not torn down.    *)

(* A rotation's destroy notices go to parties that it leaves out, and what *)
(* it keeps was on the roster.                                             *)
LEMMA RotationKeeps ==
    ASSUME TypeOK, NEW p \in Stores, NEW M \in SUBSET Labels,
           NEW S \in SUBSET Labels,
           NEW e \in DestroyPackages(DroppedParties(p, M, S), p, M, S)
    PROVE  e.to \notin M \union S
BY DEF DestroyPackages, DroppedParties

LEMMA RotateFair ==
    ASSUME IInv, NEW p \in Stores, NEW r \in Labels, NEW k \in Keys,
           PlanRotate(p, r, k)
    PROVE  FairPlan(p)'
<1> DEFINE M == members[p] \ {r}
           S == SupervisorsFor(M, members[p] \union supers[p])
<1>0. TypeOK BY DEF IInv
<1>1. /\ plan'[p].op = "rotate" /\ plan'[p].members = M /\ plan'[p].supers = S
      /\ plan'[p].packages =
           PackagesForRoster("rotate", gen[p] + 1, k, M, S, sealed[p])
           \union DestroyPackages(DroppedParties(p, M, S), p, M, S)
      /\ p \in Rotators /\ members' = members /\ supers' = supers
    BY <1>0 DEF PlanRotate, TypeOK, rowVars
<1>2. /\ M \in SUBSET Labels /\ S \in SUBSET Labels
      /\ M \union S \subseteq members[p] \union supers[p]
    BY <1>0 DEF TypeOK, SupervisorsFor
<1> HIDE DEF M, S
<1>3. \A e \in PackagesForRoster("rotate", gen[p] + 1, k, M, S, sealed[p]) :
          e.kind # "destroy"
    BY DEF PackagesForRoster
<1>4. \A e \in DestroyPackages(DroppedParties(p, M, S), p, M, S) :
          e.to \notin M \union S
    BY <1>0, <1>2, RotationKeeps
<1>5. \A e \in plan'[p].packages : e.kind = "destroy" => e.to \notin M \union S
    BY <1>1, <1>3, <1>4
<1> QED BY <1>1, <1>2, <1>5 DEF FairPlan

LEMMA NewPlanFair ==
    ASSUME IInv, \A q \in Stores : FairPlan(q), Create \/ Remove
    PROVE  \A q \in Stores : FairPlan(q)'
<1>0. TypeOK BY DEF IInv
<1>1. ASSUME NEW p \in Stores, NEW q \in Stores, q # p, UNCHANGED rowVars,
             NEW x, plan' = [plan EXCEPT ![p] = x]
      PROVE  FairPlan(q)'
  <2>1. plan'[q] = plan[q] BY <1>0, <1>1 DEF TypeOK
  <2> QED BY <1>1, <2>1 DEF FairPlan, rowVars
<1>2. CASE Create
  <2>1. PICK p \in Stores, M \in SUBSET Labels, S \in SUBSET Labels,
             self \in BOOLEAN, k \in Keys : PlanCreate(p, M, S, self, k)
      BY <1>2 DEF Create
  <2>2. /\ plan'[p].op = "create"
        /\ plan'[p].packages = PackagesForRoster("invite", 1, k, M, S, NoKey)
      BY <1>0, <2>1 DEF PlanCreate, TypeOK
  <2>3. \A e \in plan'[p].packages : e.kind # "destroy"
      BY <2>2 DEF PackagesForRoster
  <2>4. FairPlan(p)'
      BY <2>2, <2>3 DEF FairPlan
  <2>5. /\ UNCHANGED rowVars
        /\ \E x : plan' = [plan EXCEPT ![p] = x]
      BY <2>1 DEF PlanCreate
  <2> QED BY <1>1, <2>4, <2>5
<1>3. ASSUME NEW p \in Labels, NEW r \in Labels, PlanDestroy(p, r)
      PROVE  \A q \in Stores : FairPlan(q)'
  <2>1. /\ plan'[p].op = "destroy" /\ p \in Rotators /\ status'[p] = "live"
      BY <1>0, <1>3, LabelsAreStores DEF PlanDestroy, CanRemove, TypeOK, rowVars
  <2>2. FairPlan(p)'
      BY <2>1 DEF FairPlan
  <2>3. /\ UNCHANGED rowVars
        /\ \E x : plan' = [plan EXCEPT ![p] = x]
      BY <1>3 DEF PlanDestroy
  <2> QED BY <1>1, <2>2, <2>3, LabelsAreStores
<1>4. ASSUME NEW p \in Labels, NEW r \in Labels, NEW k \in Keys,
             PlanRotate(p, r, k)
      PROVE  \A q \in Stores : FairPlan(q)'
  <2>1. FairPlan(p)'
      BY <1>4, RotateFair, LabelsAreStores
  <2>2. /\ UNCHANGED rowVars
        /\ \E x : plan' = [plan EXCEPT ![p] = x]
      BY <1>4 DEF PlanRotate
  <2> QED BY <1>1, <2>1, <2>2, LabelsAreStores
<1> QED BY <1>2, <1>3, <1>4 DEF Remove

(* The rotating label's row is written by its own commands once it exists: *)
(* no rotation it could import is ahead of it.                             *)
RosterMove(p) ==
    \/ status[p] = "none"
    \/ CommitRotate(p)
    \/ (members'[p] = members[p] /\ supers'[p] = supers[p] /\ gen'[p] = gen[p]
        /\ status'[p] \in {status[p], "destroyed"})

NoRevokes == Revokers = {} /\ \A p \in Stores : revoke[p] = NoRevoke

LEMMA RosterMoves ==
    ASSUME IInv, OneRotator, Delivery, KeysOwned, NoRevokes, [Next]_vars,
           NEW p \in Rotators
    PROVE  RosterMove(p)
<1>0. TypeOK /\ p \in Stores
    BY BridgeAssumption DEF IInv, Stores
<1>1. CASE UNCHANGED rowVars
    BY <1>1 DEF rowVars, RosterMove
<1>2. CASE Create
    BY <1>1, <1>2 DEF Create, PlanCreate
<1>3. CASE Remove
    BY <1>1, <1>3 DEF Remove, PlanRotate, PlanDestroy
<1>4. ASSUME NEW q \in Stores, Finish(q) \/ Abandon(q) \/ Ship(q)
      PROVE  RosterMove(p)
  <2>1. CASE WritePackages(q) \/ Abandon(q) \/ Ship(q)
      BY <1>1, <2>1
         DEF WritePackages, Abandon, WriteFails, CommitFails, Crash, Ship
  <2>2. CASE CommitDestroy(q)
      BY <1>0, <2>2 DEF CommitDestroy, RosterMove, TypeOK
  <2>3. CASE CommitCreate(q)
      BY <1>0, <2>3 DEF CommitCreate, RosterMove, TypeOK
  <2>4. CASE CommitRotate(q)
      BY <1>0, <2>4 DEF CommitRotate, RosterMove, TypeOK
  <2> QED BY <1>4, <2>1, <2>2, <2>3, <2>4 DEF Finish
<1>5. ASSUME NEW q \in Stores, NEW e \in net, Import(q, e)
      PROVE  RosterMove(p)
  <2>1. CASE VerifyDestroy(q, e)
      BY <1>1, <2>1 DEF VerifyDestroy
  <2>2. CASE ImportInvite(q, e)
      BY <1>0, <2>2 DEF ImportInvite, AdoptEnvelope, RosterMove, TypeOK
  <2>3. CASE ImportRotate(q, e) /\ q # p
    <3>1. /\ members'[p] = members[p] /\ supers'[p] = supers[p]
          /\ gen'[p] = gen[p] /\ status'[p] = status[p]
        BY <1>0, <2>3 DEF ImportRotate, AdoptEnvelope, TypeOK
    <3> QED BY <3>1 DEF RosterMove
  <2>4. CASE ImportRotate(p, e)
    <3>1. /\ status[p] = "live" /\ e.kind # "destroy" /\ e.auth = key[p]
          /\ e.gen = gen[p] + 1
        BY <2>4 DEF ImportRotate, Authentic
    <3>2. e.key \in drawn /\ issued[e.key].parent = key[p] /\ e.gen = issued[e.key].gen
        BY <3>1 DEF IInv, GoodEnvelopes, GoodEnvelope
    <3>3. key[p] # NoKey
        BY <1>0, <3>1, RowHoldsKey, BridgeAssumption
    <3>4. issued[e.key].by = p
        BY <3>2, <3>3 DEF KeysOwned, OneRotator
    <3>5. Published(e.key)
        BY <3>1 DEF Published
    <3>6. gen[p] >= e.gen /\ gen[p] \in Nat
        BY <1>0, <3>2, <3>4, <3>5 DEF Delivery, Recorded, TypeOK
    <3> QED BY <3>1, <3>6
  <2> QED BY <1>5, <2>1, <2>2, <2>3, <2>4 DEF Import
<1>6. CASE \E q \in Stores : ApplyDestroy(q) \/ RevokeApply(q)
    BY <1>0, <1>6 DEF ApplyDestroy, RevokeApply, NoRevokes, RosterMove, TypeOK
<1>7. CASE \E q \in Stores, r \in Labels : Revoke(q, r)
    BY <1>7 DEF Revoke, LeafRemoved, RevokeRead, NoRevokes
<1>8. CASE \E q \in Labels : Sign(q)
    BY <1>1, <1>8 DEF Sign
<1>9. CASE UNCHANGED vars
    BY <1>1, <1>9 DEF vars
<1> QED BY <1>2, <1>3, <1>4, <1>5, <1>6, <1>7, <1>8, <1>9 DEF Next

LEMMA NoRevokesKept ==
    ASSUME IInv, NoRevokes, [Next]_vars
    PROVE  NoRevokes'
<1>0. TypeOK BY DEF IInv
<1>1. CASE UNCHANGED revoke
    BY <1>1 DEF NoRevokes
<1>2. CASE Create
    BY <1>1, <1>2 DEF Create, PlanCreate
<1>3. CASE Remove
    BY <1>1, <1>3 DEF Remove, PlanRotate, PlanDestroy
<1>4. CASE \E p \in Stores : Finish(p) \/ Abandon(p) \/ Ship(p)
    BY <1>0, <1>1, <1>4 DEF Finish, Abandon, WritePackages, WriteFails, CommitFails,
       CommitCreate, CommitRotate, CommitDestroy, Crash, Ship, NoRevokes, TypeOK
<1>5. CASE \E p \in Stores : \E e \in net : Import(p, e)
    BY <1>1, <1>5 DEF Import, ImportInvite, ImportRotate, VerifyDestroy
<1>6. CASE \E p \in Stores : ApplyDestroy(p) \/ RevokeApply(p)
    BY <1>1, <1>6 DEF ApplyDestroy, RevokeApply, NoRevokes
<1>7. CASE \E p \in Stores, r \in Labels : Revoke(p, r)
    BY <1>7 DEF Revoke, LeafRemoved, RevokeRead, NoRevokes
<1>8. CASE \E p \in Labels : Sign(p)
    BY <1>1, <1>8 DEF Sign
<1>9. CASE UNCHANGED vars
    BY <1>1, <1>9 DEF vars
<1> QED BY <1>2, <1>3, <1>4, <1>5, <1>6, <1>7, <1>8, <1>9 DEF Next

LEMMA FairPlansKept ==
    ASSUME IInv, OneRotator, Delivery, KeysOwned, NoRevokes,
           \A q \in Stores : FairPlan(q), [Next]_vars
    PROVE  \A q \in Stores : FairPlan(q)'
<1>1. CASE Create \/ Remove
    BY <1>1, NewPlanFair
<1>2. ASSUME ~Create, ~Remove, NEW q \in Stores PROVE FairPlan(q)'
  <2>0. plan[q] \in Plans /\ GoodPlan(q) /\ FairPlan(q) /\ gen[q] \in Nat
      BY DEF IInv, TypeOK
  <2>1. CASE plan'[q] = NoPlan
      BY <2>1 DEF FairPlan, NoPlan
  <2>2. CASE plan'[q] # NoPlan
    <3>1. /\ plan'[q].op = plan[q].op /\ plan'[q].expect = plan[q].expect
          /\ plan'[q].members = plan[q].members /\ plan'[q].supers = plan[q].supers
          /\ plan'[q].packages = plan[q].packages
        BY <1>2, <2>0, <2>2, PlanMoves DEF Plans
    <3>2. plan[q].op = "destroy" => status'[q] # "none"
        BY <2>0, RowMoves DEF FairPlan, RowMove
    <3>3. ASSUME plan[q].op = "rotate", status'[q] = "live",
                 gen'[q] = plan[q].expect
          PROVE  plan[q].members \union plan[q].supers
                     \subseteq members'[q] \union supers'[q]
      <4>1. q \in Rotators /\ status[q] # "none"
          BY <2>0, <3>3 DEF FairPlan, GoodPlan
      <4>2. ~CommitRotate(q)
          BY <2>2 DEF CommitRotate, IInv, TypeOK
      <4>3. /\ members'[q] = members[q] /\ supers'[q] = supers[q]
            /\ gen'[q] = gen[q] /\ status[q] = "live"
          BY <3>3, <4>1, <4>2, RosterMoves DEF RosterMove
      <4> QED BY <2>0, <3>3, <4>3 DEF FairPlan
    <3> QED BY <2>0, <3>1, <3>2, <3>3 DEF FairPlan
  <2> QED BY <2>1, <2>2
<1> QED BY <1>1, <1>2

(* Only a removal that commits makes anybody leave.                        *)
LEMMA LeaversMove ==
    ASSUME IInv, ~Crashes, Delivery, NoRevokes, \A p \in Stores : FairPlan(p),
           [Next]_vars, NEW q \in Stores, Leaving(q)'
    PROVE  \/ Leaving(q)
           \/ \E p \in Stores : CommitDestroy(p)
           \/ \E p \in Stores : /\ CommitRotate(p)
                                /\ q \notin plan[p].members \union plan[p].supers
<1>0. TypeOK /\ \A p \in Stores : OwnPlan(p) BY DEF IInv, Delivery
<1>1. CASE \E e \in net' : e.kind = "destroy" /\ e.to = q
    BY <1>0, <1>1, KeptMoves DEF Leaving
<1>2. CASE \E p \in Stores : \E e \in Kept(p)' : e.kind = "destroy" /\ e.to = q
  <2>1. PICK p \in Stores : \E e \in Kept(p)' : e.kind = "destroy" /\ e.to = q
      BY <1>2
  <2>2. PICK e \in Kept(p)' : e.kind = "destroy" /\ e.to = q
      BY <2>1
  <2>3. CASE e \in Kept(p)
      BY <2>2, <2>3 DEF Leaving
  <2>4. CASE e \in plan[p].packages /\ (Commits(p) \/ CommitDestroy(p))
    <3>1. FairPlan(p) OBVIOUS
    <3>2. ~CommitCreate(p)
        BY <2>2, <2>4, <3>1 DEF FairPlan, CommitCreate
    <3>3. CommitRotate(p) => q \notin plan[p].members \union plan[p].supers
        BY <2>2, <2>4, <3>1 DEF FairPlan, CommitRotate
    <3> QED BY <2>4, <3>2, <3>3 DEF Commits
  <2> QED BY <1>0, <2>3, <2>4, KeptMoves
<1>3. CASE status'[q] = "destroyed" \/ tear'[q] # NoKey
  <2>1. ASSUME status'[q] = status[q], tear'[q] = tear[q]
        PROVE  Leaving(q)
      BY <1>3, <2>1 DEF Leaving
  <2>2. CASE UNCHANGED <<rowVars, tear>>
      BY <2>1, <2>2 DEF rowVars
  <2>3. CASE Create
      BY <2>2, <2>3 DEF Create, PlanCreate
  <2>4. CASE Remove
      BY <2>2, <2>4 DEF Remove, PlanRotate, PlanDestroy
  <2>5. ASSUME NEW p \in Stores, Finish(p) \/ Abandon(p) \/ Ship(p), ~CommitDestroy(p)
        PROVE  Leaving(q)
    <3>1. tear' = tear
        BY <2>5 DEF Finish, Abandon, WritePackages, WriteFails, CommitFails,
           CommitCreate, CommitRotate, Crash, Ship
    <3>2. status'[q] = status[q] \/ status'[q] = "live"
        BY <1>0, <2>5 DEF Finish, Abandon, WritePackages, WriteFails, CommitFails,
           CommitCreate, CommitRotate, Crash, Ship, rowVars, TypeOK
    <3> QED BY <1>3, <3>1, <3>2 DEF Leaving
  <2>6. ASSUME NEW p \in Stores, NEW e \in net, Import(p, e)
        PROVE  Leaving(q)
    <3>1. CASE VerifyDestroy(p, e)
      <4>1. CASE p = q
          BY <3>1, <4>1 DEF VerifyDestroy, Leaving
      <4>2. CASE p # q
        <5>1. status'[q] = status[q] /\ tear'[q] = tear[q]
            BY <1>0, <3>1, <4>2 DEF VerifyDestroy, rowVars, TypeOK
        <5> QED BY <2>1, <5>1
      <4> QED BY <4>1, <4>2
    <3>2. CASE ImportInvite(p, e) \/ ImportRotate(p, e)
      <4>1. tear' = tear /\ (status'[q] = status[q] \/ status'[q] = "live")
          BY <1>0, <3>2 DEF ImportInvite, ImportRotate, TypeOK
      <4> QED BY <1>3, <4>1 DEF Leaving
    <3> QED BY <2>6, <3>1, <3>2 DEF Import
  <2>7. ASSUME NEW p \in Stores, ApplyDestroy(p) PROVE Leaving(q)
    <3>1. CASE p = q
        BY <2>7, <3>1 DEF ApplyDestroy, Leaving
    <3>2. CASE p # q
      <4>1. status'[q] = status[q] /\ tear'[q] = tear[q]
          BY <1>0, <2>7, <3>2 DEF ApplyDestroy, TypeOK
      <4> QED BY <2>1, <4>1
    <3> QED BY <3>1, <3>2
  <2>8. ~ \E p \in Stores : RevokeApply(p) \/ \E r \in Labels : Revoke(p, r)
      BY DEF RevokeApply, Revoke, LeafRemoved, RevokeRead, NoRevokes
  <2>9. CASE \E p \in Labels : Sign(p)
      BY <2>2, <2>9 DEF Sign
  <2>10. CASE UNCHANGED vars
      BY <2>2, <2>10 DEF vars
  <2> QED BY <2>3, <2>4, <2>5, <2>6, <2>7, <2>8, <2>9, <2>10 DEF Next
<1> QED BY <1>1, <1>2, <1>3 DEF Leaving

(* Nobody who leaves is on the rotating label's roster.                    *)
OffRoster(q, p) ==
    /\ status[p] # "none"
    /\ status[p] = "live" => q \notin members[p] \union supers[p]

LEMMA LeaversKept ==
    ASSUME IInv, ~Crashes, OneRotator, Revokers = {}, Delivery, KeysOwned,
           LeaversLeft, [Next]_vars
    PROVE  LeaversLeft'
<1>0. /\ TypeOK /\ NoRevokes /\ \A p \in Stores : FairPlan(p)
      /\ \A q \in Stores, p \in Rotators : Leaving(q) => OffRoster(q, p)
      /\ Rotators \subseteq Stores
    BY BridgeAssumption DEF IInv, LeaversLeft, NoRevokes, OffRoster, Stores
<1>1. NoRevokes' /\ \A p \in Stores : FairPlan(p)'
    BY <1>0, NoRevokesKept, FairPlansKept
<1>2. ASSUME NEW q \in Stores, NEW p \in Rotators, Leaving(q)'
      PROVE  OffRoster(q, p)'
  <2>0. RosterMove(p) BY <1>0, RosterMoves
  <2>1. CASE \E r \in Stores : CommitDestroy(r)
    <3>1. PICK r \in Stores : CommitDestroy(r) BY <2>1
    <3>2. FairPlan(r) /\ plan[r].op = "destroy" /\ status'[r] = "destroyed"
        BY <1>0, <3>1 DEF CommitDestroy, TypeOK
    <3>3. r = p
        BY <3>2 DEF FairPlan, OneRotator
    <3> QED BY <3>2, <3>3 DEF OffRoster
  <2>2. ASSUME CommitRotate(p)
        PROVE  /\ status'[p] = "live" /\ status[p] = "live"
               /\ members'[p] = plan[p].members /\ supers'[p] = plan[p].supers
               /\ plan[p].members \union plan[p].supers
                     \subseteq members[p] \union supers[p]
    <3>1. /\ status'[p] = "live" /\ status[p] = "live"
          /\ members'[p] = plan[p].members /\ supers'[p] = plan[p].supers
          /\ plan[p].op = "rotate" /\ gen[p] = plan[p].expect
        BY <1>0, <2>2 DEF CommitRotate, StillAtPlannedGeneration, TypeOK
    <3> QED BY <1>0, <3>1 DEF FairPlan
  <2>3. CASE \E r \in Stores : /\ CommitRotate(r)
                               /\ q \notin plan[r].members \union plan[r].supers
    <3>1. PICK r \in Stores : /\ CommitRotate(r)
                              /\ q \notin plan[r].members \union plan[r].supers
        BY <2>3
    <3>2. r = p
        BY <1>0, <3>1 DEF FairPlan, CommitRotate, OneRotator
    <3> QED BY <2>2, <3>1, <3>2 DEF OffRoster
  <2>4. CASE Leaving(q)
    <3>1. OffRoster(q, p) BY <1>0, <2>4
    <3>2. CASE CommitRotate(p)
        BY <2>2, <3>1, <3>2 DEF OffRoster
    <3>3. CASE ~CommitRotate(p)
      <4>1. /\ members'[p] = members[p] /\ supers'[p] = supers[p]
            /\ status'[p] \in {status[p], "destroyed"}
          BY <2>0, <3>1, <3>3 DEF RosterMove, OffRoster
      <4> QED BY <3>1, <4>1 DEF OffRoster
    <3> QED BY <3>2, <3>3
  <2> QED BY <1>0, <1>2, <2>1, <2>3, <2>4, LeaversMove
<1> QED BY <1>1, <1>2 DEF LeaversLeft, NoRevokes, OffRoster

(* When one label rotates, nobody is revoked and no command is killed half *)
(* way, a party of that label's current roster is never torn down: every   *)
(* destroy notice, however late, was written for somebody that label has   *)
(* left out since, and nobody comes back.                                  *)
THEOREM StayersSurvive ==
    ~Crashes /\ OneRotator /\ Revokers = {} => (Spec => []StayingPartiesSurvive)
<1> SUFFICES ASSUME ~Crashes, OneRotator, Revokers = {}
             PROVE  Spec => []StayingPartiesSurvive
    OBVIOUS
<1>1. IInv /\ Delivery /\ [Next]_vars => Delivery'
    BY DeliveryKept
<1>2. IInv /\ KeysOwned /\ [Next]_vars => KeysOwned'
    BY KeysOwnedKept
<1>3. IInv /\ Delivery /\ KeysOwned /\ LeaversLeft /\ [Next]_vars => LeaversLeft'
    BY LeaversKept
<1>4. IInv /\ LeaversLeft => StayingPartiesSurvive
  <2> SUFFICES ASSUME IInv, LeaversLeft, NEW p \in Rotators, status[p] = "live",
                      NEW q \in members[p] \union supers[p]
               PROVE  status[q] # "destroyed"
      BY DEF StayingPartiesSurvive
  <2>1. q \in Stores
      BY BridgeAssumption DEF IInv, TypeOK, Stores
  <2> QED BY <2>1 DEF LeaversLeft, Leaving
<1>5. Init => LeaversLeft
  <2> SUFFICES ASSUME Init PROVE LeaversLeft
      OBVIOUS
  <2>1. NoPlan.op = "none" /\ NoPlan.written = FALSE
      BY DEF NoPlan
  <2>2. \A p \in Stores : FairPlan(p) /\ revoke[p] = NoRevoke
      BY <2>1 DEF Init, FairPlan
  <2>3. \A q \in Stores : ~Leaving(q)
      BY <2>1 DEF Init, Leaving, Kept
  <2> QED BY <2>2, <2>3 DEF LeaversLeft
<1> QED BY <1>1, <1>2, <1>3, <1>4, <1>5, DeliveryInit, OwnedInit, Invariance, PTL
        DEF Spec

=============================================================================
