------------------------ MODULE PrivateBridgeProofs ------------------------
(* Safety of PrivateBridge for every set of labels, stores and keys.       *)
EXTENDS PrivateBridge, TLAPS

(* The envelopes of a roster are well formed.                              *)
LEMMA PackagesTyped ==
    ASSUME NEW kind \in Kinds, NEW g \in Nat, NEW k \in Keys,
           NEW M \in SUBSET Labels, NEW S \in SUBSET Labels,
           NEW auth \in Keys \union {NoKey}
    PROVE  PackagesForRoster(kind, g, k, M, S, auth) \subseteq Envelopes
<1> SUFFICES ASSUME NEW e \in PackagesForRoster(kind, g, k, M, S, auth)
             PROVE  e \in Envelopes
    OBVIOUS
<1>1. CASE \E l \in M :
        e = [kind |-> kind, to |-> l, role |-> "member", gen |-> g,
             key |-> k, auth |-> auth, secret |-> TRUE,
             members |-> M, supers |-> S]
    BY <1>1 DEF Envelopes
<1>2. CASE \E l \in S :
        e = [kind |-> "supervisor", to |-> l, role |-> "supervisor",
             gen |-> g, key |-> k, auth |-> auth, secret |-> FALSE,
             members |-> M, supers |-> S]
    BY <1>2 DEF Envelopes, Kinds
<1> QED BY <1>1, <1>2 DEF PackagesForRoster

(* So are the destroy notices of a store that holds a key.                 *)
LEMMA NoticesTyped ==
    ASSUME TypeOK, NEW p \in Stores, key[p] \in Keys,
           NEW to \in SUBSET Labels,
           NEW M \in SUBSET Labels, NEW S \in SUBSET Labels
    PROVE  DestroyPackages(to, p, M, S) \subseteq Envelopes
<1> SUFFICES ASSUME NEW e \in DestroyPackages(to, p, M, S)
             PROVE  e \in Envelopes
    OBVIOUS
<1>1. PICK l \in to :
        e = [kind |-> "destroy", to |-> l,
             role |-> IF l \in members[p] THEN "member" ELSE "supervisor",
             gen |-> gen[p], key |-> key[p], auth |-> sealed[p],
             secret |-> FALSE, members |-> M, supers |-> S]
    BY DEF DestroyPackages
<1>2. gen[p] \in Nat /\ sealed[p] \in Keys \union {NoKey}
    BY DEF TypeOK
<1> QED BY <1>1, <1>2 DEF Envelopes, Kinds

(* Drawing a fresh key keeps the history of the others.                    *)
LEMMA DrawFacts ==
    ASSUME TypeOK, NEW k \in Keys, k \notin drawn, NEW p \in Stores,
           NEW M \in SUBSET Labels, NEW par \in Keys \union {NoKey},
           NEW g \in Nat, Draw(k, p, M, par, g)
    PROVE  /\ drawn' = drawn \union {k}
           /\ drawn' \in SUBSET Keys
           /\ issued' \in [drawn' -> Issues]
           /\ issued'[k] = [members |-> M, parent |-> par, gen |-> g, by |-> p]
           /\ \A d \in drawn : issued'[d] = issued[d]
BY DEF Draw, TypeOK, Issues

LEMMA NoPlanTyped == NoPlan \in Plans
BY DEF NoPlan, Plans

LEMMA NoRevokeTyped == NoRevoke \in Revokes
BY DEF NoRevoke, Revokes

LEMMA LabelsAreStores == Labels \subseteq Stores
BY DEF Stores

LEMMA InitTyped == Init => TypeOK
BY NoPlanTyped, NoRevokeTyped DEF Init, TypeOK


-----------------------------------------------------------------------------
(* Type correctness, one step per action.                                  *)

(* A row that exists holds a drawn key.                                    *)
LEMMA RowHoldsKey ==
    ASSUME IInv, NEW p \in Stores, status[p] # "none"
    PROVE  key[p] \in drawn /\ key[p] \in Keys
BY DEF IInv, GoodRow, TypeOK

LEMMA NextTyped == IInv /\ [Next]_vars => TypeOK'
<1> SUFFICES ASSUME IInv, [Next]_vars
             PROVE  TypeOK'
    OBVIOUS
<1>0. TypeOK BY DEF IInv
<1> USE <1>0, BridgeAssumption, NoPlanTyped, NoRevokeTyped, LabelsAreStores
<1>1. ASSUME NEW p \in Stores, NEW M \in SUBSET Labels,
             NEW S \in SUBSET Labels, NEW self \in BOOLEAN, NEW k \in Keys,
             PlanCreate(p, M, S, self, k)
      PROVE  TypeOK'
  <2>1. drawn' \in SUBSET Keys /\ issued' \in [drawn' -> Issues]
      BY <1>1, DrawFacts DEF PlanCreate
  <2>2. plan' \in [Stores -> Plans]
    <3>1. PackagesForRoster("invite", 1, k, M, S, NoKey) \subseteq Envelopes
        BY PackagesTyped DEF Kinds
    <3>2. [op |-> "create", written |-> FALSE, expect |-> 0, key |-> k,
           members |-> M, supers |-> S, self |-> self,
           packages |-> PackagesForRoster("invite", 1, k, M, S, NoKey)]
             \in Plans
        BY <3>1 DEF Plans
    <3> QED BY <1>1, <3>2 DEF PlanCreate, TypeOK
  <2> QED BY <1>1, <2>1, <2>2 DEF PlanCreate, TypeOK, rowVars
<1>2. ASSUME NEW p \in Labels, NEW r \in Labels, NEW k \in Keys,
             PlanRotate(p, r, k)
      PROVE  TypeOK'
  <2> DEFINE M == members[p] \ {r}
             S == SupervisorsFor(M, members[p] \union supers[p])
             out == DroppedParties(p, M, S)
             pkgs == PackagesForRoster("rotate", gen[p] + 1, k, M, S, sealed[p])
                     \union DestroyPackages(out, p, M, S)
  <2>1. /\ p \in Stores /\ gen[p] \in Nat
        /\ key[p] \in Keys \union {NoKey} /\ sealed[p] \in Keys \union {NoKey}
        /\ members[p] \in SUBSET Labels /\ supers[p] \in SUBSET Labels
      BY DEF TypeOK
  <2>2. M \in SUBSET Labels /\ S \in SUBSET Labels /\ out \in SUBSET Labels
      BY <2>1 DEF SupervisorsFor, DroppedParties
  <2>3. key[p] \in Keys
      BY <1>2, RowHoldsKey DEF PlanRotate, CanRemove
  <2>4. pkgs \subseteq Envelopes
    <3> HIDE DEF M, S
    <3>0. gen[p] + 1 \in Nat /\ "rotate" \in Kinds
        BY <2>1 DEF Kinds
    <3>1. PackagesForRoster("rotate", gen[p] + 1, k, M, S, sealed[p])
             \subseteq Envelopes
        BY <2>1, <2>2, <3>0, PackagesTyped
    <3>2. DestroyPackages(out, p, M, S) \subseteq Envelopes
        BY <2>1, <2>2, <2>3, NoticesTyped
    <3> QED BY <3>1, <3>2
  <2>5. [op |-> "rotate", written |-> FALSE, expect |-> gen[p], key |-> k,
         members |-> M, supers |-> S, self |-> TRUE, packages |-> pkgs]
           \in Plans
      BY <2>1, <2>2, <2>4 DEF Plans
  <2>6. drawn' \in SUBSET Keys /\ issued' \in [drawn' -> Issues]
    <3>1. k \notin drawn /\ Draw(k, p, M, key[p], gen[p] + 1)
        BY <1>2 DEF PlanRotate
    <3>2. gen[p] + 1 \in Nat
        BY <2>1
    <3> HIDE DEF M, S
    <3> QED BY <2>1, <2>2, <3>1, <3>2, DrawFacts
  <2>7. plan' \in [Stores -> Plans]
      BY <1>2, <2>5 DEF PlanRotate, TypeOK
  <2> QED BY <1>2, <2>6, <2>7 DEF PlanRotate, TypeOK, rowVars
<1>3. ASSUME NEW p \in Labels, NEW r \in Labels, PlanDestroy(p, r)
      PROVE  TypeOK'
  <2> DEFINE M == members[p] \ {r}
             S == SupervisorsFor(M, members[p] \union supers[p])
             pkgs == DestroyPackages(members[p] \union supers[p], p, M, S)
  <2>1. /\ p \in Stores /\ gen[p] \in Nat
        /\ key[p] \in Keys \union {NoKey}
        /\ members[p] \in SUBSET Labels /\ supers[p] \in SUBSET Labels
      BY DEF TypeOK
  <2>2. M \in SUBSET Labels /\ S \in SUBSET Labels
      BY <2>1 DEF SupervisorsFor
  <2>3. key[p] \in Keys
      BY <1>3, RowHoldsKey DEF PlanDestroy, CanRemove
  <2>4. pkgs \subseteq Envelopes
      BY <2>1, <2>2, <2>3, NoticesTyped
  <2>5. [op |-> "destroy", written |-> FALSE, expect |-> gen[p],
         key |-> NoKey, members |-> {}, supers |-> {}, self |-> TRUE,
         packages |-> pkgs] \in Plans
      BY <2>1, <2>4 DEF Plans
  <2>6. plan' \in [Stores -> Plans]
      BY <1>3, <2>5 DEF PlanDestroy, TypeOK
  <2> QED BY <1>3, <2>6 DEF PlanDestroy, TypeOK, rowVars
<1>4. ASSUME NEW p \in Stores, WritePackages(p)
      PROVE  TypeOK'
  <2>1. plan[p] \in Plans BY DEF TypeOK
  <2>2. plan[p].packages \in SUBSET Envelopes BY <2>1 DEF Plans
  <2>3. [plan[p] EXCEPT !.written = TRUE] \in Plans BY <2>1 DEF Plans
  <2> QED BY <1>4, <2>2, <2>3 DEF WritePackages, TypeOK, rowVars
<1>5. ASSUME NEW p \in Stores, WriteFails(p)
      PROVE  TypeOK'
    BY <1>5 DEF WriteFails, TypeOK, rowVars
<1>6. ASSUME NEW p \in Stores, CommitCreate(p)
      PROVE  TypeOK'
  <2>1. plan[p] \in Plans BY DEF TypeOK
  <2> QED BY <1>6, <2>1 DEF CommitCreate, TypeOK, Plans
<1>7. ASSUME NEW p \in Stores, CommitRotate(p)
      PROVE  TypeOK'
  <2>1. plan[p] \in Plans BY DEF TypeOK
  <2> QED BY <1>7, <2>1 DEF CommitRotate, TypeOK, Plans
<1>8. ASSUME NEW p \in Stores, CommitDestroy(p)
      PROVE  TypeOK'
    BY <1>8 DEF CommitDestroy, TypeOK
<1>9. ASSUME NEW p \in Stores, CommitFails(p)
      PROVE  TypeOK'
    BY <1>9 DEF CommitFails, TypeOK, rowVars
<1>10. ASSUME NEW p \in Stores, Crash(p)
      PROVE  TypeOK'
    BY <1>10 DEF Crash, TypeOK, rowVars
<1>11. ASSUME NEW p \in Stores, Ship(p)
      PROVE  TypeOK'
    BY <1>11 DEF Ship, TypeOK, rowVars
<1>12. ASSUME NEW p \in Stores, NEW e \in net,
              ImportInvite(p, e) \/ ImportRotate(p, e)
       PROVE  TypeOK'
  <2>1. e \in Envelopes BY DEF TypeOK
  <2>2. /\ e.gen \in Nat /\ e.key \in Keys
        /\ e.members \in SUBSET Labels /\ e.supers \in SUBSET Labels
      BY <2>1 DEF Envelopes
  <2>3. /\ gen' \in [Stores -> Nat] /\ key' \in [Stores -> Keys \union {NoKey}]
        /\ members' \in [Stores -> SUBSET Labels]
        /\ supers' \in [Stores -> SUBSET Labels]
        /\ sealed' \in [Stores -> Keys \union {NoKey}]
      BY <1>12, <2>2 DEF ImportInvite, ImportRotate, AdoptEnvelope, TypeOK
  <2>4. /\ status' \in [Stores -> {"none", "live", "destroyed"}]
        /\ UNCHANGED <<tagged, plan, files, net, tear, revoke, sigs, drawn, issued>>
      BY <1>12 DEF ImportInvite, ImportRotate, TypeOK
  <2> QED BY <2>3, <2>4 DEF TypeOK
<1>13. ASSUME NEW p \in Stores, NEW e \in net, VerifyDestroy(p, e)
       PROVE  TypeOK'
    BY <1>13 DEF VerifyDestroy, TypeOK, rowVars
<1>14. ASSUME NEW p \in Stores, ApplyDestroy(p)
       PROVE  TypeOK'
    BY <1>14 DEF ApplyDestroy, TypeOK
<1>15. ASSUME NEW p \in Stores, RevokeApply(p)
       PROVE  TypeOK'
    BY <1>15 DEF RevokeApply, DropRow, TypeOK
<1>16. ASSUME NEW p \in Stores, NEW r \in Labels, LeafRemoved(p, r)
       PROVE  TypeOK'
    BY <1>16 DEF LeafRemoved, DropRow, TypeOK
<1>17. ASSUME NEW p \in Stores, NEW r \in Labels, RevokeRead(p, r)
       PROVE  TypeOK'
  <2>1. [label |-> r, few |-> TooFewWithout(p, r)] \in Revokes
      BY DEF Revokes, TooFewWithout
  <2> QED BY <1>17, <2>1 DEF RevokeRead, TypeOK, rowVars
<1>18. ASSUME NEW p \in Labels, Sign(p)
       PROVE  TypeOK'
  <2>1. p \in Stores /\ gen[p] \in Nat /\ sealed[p] \in Keys
      BY <1>18 DEF Sign, TypeOK
  <2>2. key[p] \in Keys
      BY <1>18, <2>1, RowHoldsKey DEF Sign
  <2> QED BY <1>18, <2>1, <2>2 DEF Sign, TypeOK, rowVars
<1>19. CASE UNCHANGED vars
    BY <1>19 DEF vars, rowVars, TypeOK
<1> QED
    BY <1>1, <1>2, <1>3, <1>4, <1>5, <1>6, <1>7, <1>8, <1>9, <1>10, <1>11,
       <1>12, <1>13, <1>14, <1>15, <1>16, <1>17, <1>18, <1>19
       DEF Next, Create, Remove, Finish, Abandon, Import, Revoke


-----------------------------------------------------------------------------
(* What keeps each part of the invariant.  History: keys are only added.   *)

History ==
    /\ drawn \subseteq drawn'
    /\ \A d \in drawn : issued'[d] = issued[d]

LEMMA EnvelopeKept ==
    ASSUME History, NEW e, GoodEnvelope(e)
    PROVE  GoodEnvelope(e)'
BY DEF History, GoodEnvelope

(* Envelopes that only move between plan, directory and carrier.           *)
LEMMA EnvelopesKept ==
    ASSUME IInv, History,
           \A e \in net' : e \in net \/ \E p \in Stores : e \in files[p],
           \A p \in Stores : \A e \in files'[p] \union plan'[p].packages :
               e \in files[p] \union plan[p].packages
    PROVE  GoodEnvelopes'
<1>1. \A e : e \in net => GoodEnvelope(e)
    BY DEF IInv, GoodEnvelopes
<1>2. \A p \in Stores : \A e : e \in files[p] \union plan[p].packages =>
          GoodEnvelope(e)
    BY DEF IInv, GoodEnvelopes
<1>3. ASSUME NEW e \in net' PROVE GoodEnvelope(e)'
    BY <1>1, <1>2, <1>3, EnvelopeKept
<1>4. ASSUME NEW p \in Stores, NEW e \in files'[p] \union plan'[p].packages
      PROVE  GoodEnvelope(e)'
    BY <1>2, <1>4, EnvelopeKept
<1> QED BY <1>3, <1>4 DEF GoodEnvelopes

LEMMA PlanKept ==
    ASSUME IInv, History, NEW p \in Stores,
           plan'[p] = plan[p], gen'[p] = gen[p], key'[p] = key[p],
           status[p] # "none" => status'[p] # "none"
    PROVE  GoodPlan(p)'
<1>1. GoodPlan(p) BY DEF IInv
<1> QED BY <1>1 DEF GoodPlan, History

LEMMA EmptyPlan ==
    ASSUME NEW p \in Stores, plan'[p].op \in {"none", "destroy"}
    PROVE  GoodPlan(p)'
BY DEF GoodPlan

LEMMA RowKept ==
    ASSUME IInv, History, NEW p \in Stores,
           status'[p] = status[p], gen'[p] = gen[p], key'[p] = key[p],
           members'[p] = members[p], sealed'[p] = sealed[p],
           tear'[p] \in {tear[p], NoKey}, revoke'[p] \in {revoke[p], NoRevoke}
    PROVE  GoodRow(p)'
<1>1. GoodRow(p) BY DEF IInv
<1> QED BY <1>1 DEF GoodRow, History

LEMMA SignaturesKept ==
    ASSUME IInv, History, sigs' = sigs
    PROVE  GoodSignatures'
BY DEF IInv, GoodSignatures, History

LEMMA SameKeys ==
    ASSUME IInv, UNCHANGED <<drawn, issued>>
    PROVE  History /\ DrawnKeys'
BY DEF IInv, History, DrawnKeys

(* A fresh key enters the history as the child of the key it replaces.     *)
LEMMA FreshKey ==
    ASSUME IInv, NEW k \in Keys, k \notin drawn, NEW p \in Stores,
           NEW M \in SUBSET Labels, NEW par \in Keys \union {NoKey},
           NEW g \in Nat, Draw(k, p, M, par, g),
           IF par = NoKey THEN g = 1
           ELSE /\ par \in drawn /\ g = issued[par].gen + 1
                /\ M \subseteq issued[par].members /\ M # issued[par].members
    PROVE  History /\ DrawnKeys'
<1>1. /\ drawn' = drawn \union {k}
      /\ issued'[k] = [members |-> M, parent |-> par, gen |-> g, by |-> p]
      /\ \A d \in drawn : issued'[d] = issued[d]
    BY DrawFacts DEF IInv
<1>2. History BY <1>1 DEF History
<1>3. DrawnKeys BY DEF IInv
<1>4. /\ issued'[k].members = M /\ issued'[k].parent = par
      /\ issued'[k].gen = g
    BY <1>1
<1>5. ASSUME NEW d \in drawn' PROVE
        IF issued'[d].parent = NoKey
        THEN issued'[d].gen = 1
        ELSE /\ issued'[d].parent \in drawn'
             /\ issued'[d].gen = issued'[issued'[d].parent].gen + 1
             /\ issued'[d].members \subseteq issued'[issued'[d].parent].members
             /\ issued'[d].members # issued'[issued'[d].parent].members
  <2>1. CASE d = k
      BY <2>1, <1>1, <1>4
  <2>2. CASE d \in drawn
      BY <2>2, <1>1, <1>3 DEF DrawnKeys
  <2> QED BY <2>1, <2>2, <1>1
<1> QED BY <1>2, <1>5 DEF DrawnKeys


-----------------------------------------------------------------------------
(* The parts of the invariant that a step establishes beside TypeOK'.      *)
Rest ==
    /\ DrawnKeys
    /\ GoodEnvelopes
    /\ \A p \in Stores : GoodPlan(p)
    /\ \A p \in Stores : GoodRow(p)
    /\ GoodSignatures

(* A creation is planned: no key was drawn before.                         *)
LEMMA PlanCreateStep ==
    ASSUME IInv, NEW p \in Stores, NEW M \in SUBSET Labels,
           NEW S \in SUBSET Labels, NEW self \in BOOLEAN, NEW k \in Keys,
           PlanCreate(p, M, S, self, k)
    PROVE  Rest'
<1> DEFINE pk == PackagesForRoster("invite", 1, k, M, S, NoKey)
<1>0. TypeOK BY DEF IInv
<1>1. k \notin drawn /\ Draw(k, p, M, NoKey, 1)
    BY DEF PlanCreate
<1>2. History /\ DrawnKeys'
    BY <1>1, FreshKey
<1>3. /\ drawn' = drawn \union {k}
      /\ issued'[k] = [members |-> M, parent |-> NoKey, gen |-> 1, by |-> p]
    BY <1>0, <1>1, DrawFacts
<1>4. /\ plan'[p] = [op |-> "create", written |-> FALSE, expect |-> 0,
                     key |-> k, members |-> M, supers |-> S, self |-> self,
                     packages |-> pk]
      /\ \A q \in Stores : q # p => plan'[q] = plan[q]
      /\ UNCHANGED <<rowVars, files, net, tear, revoke, sigs>>
    BY <1>0 DEF PlanCreate, TypeOK
<1>5. \A e \in pk : GoodEnvelope(e)'
    BY <1>3 DEF GoodEnvelope, PackagesForRoster
<1>6. GoodEnvelopes'
  <2>1. ASSUME NEW e \in net' PROVE GoodEnvelope(e)'
      BY <1>2, <1>4, <2>1, EnvelopeKept DEF IInv, GoodEnvelopes
  <2>2. ASSUME NEW q \in Stores,
               NEW e \in files'[q] \union plan'[q].packages
        PROVE  GoodEnvelope(e)'
    <3>1. e \in pk \/ e \in files[q] \union plan[q].packages
        BY <1>4, <2>2
    <3> HIDE DEF pk
    <3> QED BY <1>2, <1>5, <3>1, EnvelopeKept DEF IInv, GoodEnvelopes
  <2> QED BY <2>1, <2>2 DEF GoodEnvelopes
<1>7. \A q \in Stores : GoodPlan(q)'
  <2>1. GoodPlan(p)'
      BY <1>3, <1>4 DEF GoodPlan
  <2>2. ASSUME NEW q \in Stores, q # p PROVE GoodPlan(q)'
      BY <1>2, <1>4, <2>2, PlanKept DEF rowVars
  <2> QED BY <2>1, <2>2
<1>8. \A q \in Stores : GoodRow(q)'
    BY <1>2, <1>4, RowKept DEF rowVars
<1>9. GoodSignatures'
    BY <1>2, <1>4, SignaturesKept
<1> QED BY <1>2, <1>6, <1>7, <1>8, <1>9 DEF Rest


(* A rotation is planned: the new key is a child of the row's key, with a  *)
(* smaller roster, and its envelopes are signed with the sealed secret.    *)
LEMMA PlanRotateStep ==
    ASSUME IInv, NEW p \in Labels, NEW r \in Labels, NEW k \in Keys,
           PlanRotate(p, r, k)
    PROVE  Rest'
<1> DEFINE M == members[p] \ {r}
           S == SupervisorsFor(M, members[p] \union supers[p])
           out == DroppedParties(p, M, S)
           ros == PackagesForRoster("rotate", gen[p] + 1, k, M, S, sealed[p])
           des == DestroyPackages(out, p, M, S)
<1>0. TypeOK /\ p \in Stores /\ GoodRow(p)
    BY LabelsAreStores DEF IInv
<1>1. /\ k \notin drawn /\ Draw(k, p, M, key[p], gen[p] + 1)
      /\ CanRemove(p, r)
    BY DEF PlanRotate
<1>2. /\ plan'[p] = [op |-> "rotate", written |-> FALSE, expect |-> gen[p],
                     key |-> k, members |-> M, supers |-> S, self |-> TRUE,
                     packages |-> ros \union des]
      /\ \A q \in Stores : q # p => plan'[q] = plan[q]
      /\ UNCHANGED <<rowVars, files, net, tear, revoke, sigs>>
    BY <1>0 DEF PlanRotate, TypeOK
<1>3. /\ key[p] \in drawn /\ key[p] \in Keys /\ sealed[p] = key[p]
      /\ gen[p] \in Nat /\ gen[p] = issued[key[p]].gen
      /\ members[p] \subseteq issued[key[p]].members
      /\ r \in members[p]
      /\ key[p] # NoKey
    BY <1>0, <1>1, BridgeAssumption DEF CanRemove, GoodRow, TypeOK
<1>4. /\ M \in SUBSET Labels /\ M \subseteq issued[key[p]].members
      /\ M # issued[key[p]].members
    BY <1>0, <1>3 DEF TypeOK
<1> HIDE DEF M, S, out
<1>5. gen[p] + 1 \in Nat BY <1>3
<1>6. History /\ DrawnKeys'
    BY <1>0, <1>1, <1>3, <1>4, <1>5, FreshKey
<1>7. /\ drawn' = drawn \union {k}
      /\ issued'[k] = [members |-> M, parent |-> key[p],
                       gen |-> gen[p] + 1, by |-> p]
      /\ \A d \in drawn : issued'[d] = issued[d]
    BY <1>0, <1>1, <1>3, <1>4, <1>5, DrawFacts
<1>8. \A e \in ros : GoodEnvelope(e)'
    BY <1>3, <1>7 DEF GoodEnvelope, PackagesForRoster
<1>9. \A e \in des : GoodEnvelope(e)'
    BY <1>3, <1>7 DEF GoodEnvelope, DestroyPackages
<1>10. GoodEnvelopes'
  <2>1. ASSUME NEW e \in net' PROVE GoodEnvelope(e)'
      BY <1>2, <1>6, <2>1, EnvelopeKept DEF IInv, GoodEnvelopes
  <2>2. ASSUME NEW q \in Stores,
               NEW e \in files'[q] \union plan'[q].packages
        PROVE  GoodEnvelope(e)'
    <3>1. e \in ros \/ e \in des \/ e \in files[q] \union plan[q].packages
        BY <1>2, <2>2
    <3> HIDE DEF ros, des
    <3> QED BY <1>6, <1>8, <1>9, <3>1, EnvelopeKept DEF IInv, GoodEnvelopes
  <2> QED BY <2>1, <2>2 DEF GoodEnvelopes
<1>11. \A q \in Stores : GoodPlan(q)'
  <2>1. GoodPlan(p)'
      BY <1>1, <1>2, <1>3, <1>5, <1>7 DEF GoodPlan, rowVars, CanRemove
  <2>2. ASSUME NEW q \in Stores, q # p PROVE GoodPlan(q)'
      BY <1>2, <1>6, <2>2, PlanKept DEF rowVars
  <2> QED BY <2>1, <2>2
<1>12. \A q \in Stores : GoodRow(q)'
    BY <1>2, <1>6, RowKept DEF rowVars
<1>13. GoodSignatures'
    BY <1>2, <1>6, SignaturesKept
<1> QED BY <1>6, <1>10, <1>11, <1>12, <1>13 DEF Rest

(* A destruction is planned: its notices name the row's key.               *)
LEMMA PlanDestroyStep ==
    ASSUME IInv, NEW p \in Labels, NEW r \in Labels, PlanDestroy(p, r)
    PROVE  Rest'
<1> DEFINE M == members[p] \ {r}
           S == SupervisorsFor(M, members[p] \union supers[p])
           des == DestroyPackages(members[p] \union supers[p], p, M, S)
<1>0. TypeOK /\ p \in Stores /\ GoodRow(p)
    BY LabelsAreStores DEF IInv
<1>1. /\ plan'[p] = [op |-> "destroy", written |-> FALSE, expect |-> gen[p],
                     key |-> NoKey, members |-> {}, supers |-> {},
                     self |-> TRUE, packages |-> des]
      /\ \A q \in Stores : q # p => plan'[q] = plan[q]
      /\ UNCHANGED <<rowVars, files, net, tear, revoke, sigs, drawn, issued>>
    BY <1>0 DEF PlanDestroy, TypeOK
<1>2. key[p] \in drawn
    BY <1>0, RowHoldsKey DEF PlanDestroy, CanRemove
<1>3. History /\ DrawnKeys'
    BY <1>1, SameKeys
<1> HIDE DEF M, S
<1>9. plan'[p].op = "destroy" /\ plan'[p].packages = des
  <2> HIDE DEF des
  <2> QED BY <1>1
<1>4. \A e \in des : GoodEnvelope(e)'
    BY <1>1, <1>2 DEF GoodEnvelope, DestroyPackages
<1>5. GoodEnvelopes'
  <2>1. ASSUME NEW e \in net' PROVE GoodEnvelope(e)'
      BY <1>1, <1>3, <2>1, EnvelopeKept DEF IInv, GoodEnvelopes
  <2>2. ASSUME NEW q \in Stores,
               NEW e \in files'[q] \union plan'[q].packages
        PROVE  GoodEnvelope(e)'
    <3>1. e \in des \/ e \in files[q] \union plan[q].packages
        BY <1>1, <1>9, <2>2
    <3> HIDE DEF des
    <3> QED BY <1>3, <1>4, <3>1, EnvelopeKept DEF IInv, GoodEnvelopes
  <2> QED BY <2>1, <2>2 DEF GoodEnvelopes
<1>6. \A q \in Stores : GoodPlan(q)'
  <2>1. GoodPlan(p)'
      BY <1>0, <1>9, EmptyPlan
  <2>2. ASSUME NEW q \in Stores, q # p PROVE GoodPlan(q)'
      BY <1>1, <1>3, <2>2, PlanKept DEF rowVars
  <2> QED BY <2>1, <2>2
<1>7. \A q \in Stores : GoodRow(q)'
    BY <1>1, <1>3, RowKept DEF rowVars
<1>8. GoodSignatures'
    BY <1>1, <1>3, SignaturesKept
<1> QED BY <1>3, <1>5, <1>6, <1>7, <1>8 DEF Rest


(* Writing, giving up, crashing and shipping only move envelopes.          *)
LEMMA DeliveryStep ==
    ASSUME IInv, NEW p \in Stores,
           \/ WritePackages(p) \/ WriteFails(p) \/ CommitFails(p)
           \/ Crash(p) \/ Ship(p)
    PROVE  Rest'
<1>0. TypeOK BY DEF IInv
<1>1. History /\ DrawnKeys'
    BY SameKeys DEF WritePackages, WriteFails, CommitFails, Crash, Ship
<1>2. UNCHANGED <<rowVars, sigs>>
    BY DEF WritePackages, WriteFails, CommitFails, Crash, Ship
<1>3. NoPlan.op = "none" /\ NoPlan.packages = {}
    BY DEF NoPlan
<1>4. plan[p] \in Plans
    BY <1>0 DEF TypeOK
<1>5. \A q \in Stores : q # p => plan'[q] = plan[q] /\ files'[q] = files[q]
    BY <1>0 DEF WritePackages, WriteFails, CommitFails, Crash, Ship, TypeOK
<1>6. \/ /\ plan'[p].packages = plan[p].packages /\ plan'[p].op = plan[p].op
         /\ plan'[p].key = plan[p].key /\ plan'[p].members = plan[p].members
         /\ plan'[p].expect = plan[p].expect
      \/ plan'[p] = NoPlan
    BY <1>0, <1>4
       DEF WritePackages, WriteFails, CommitFails, Crash, Ship, TypeOK, Plans
<1>7. files'[p] \subseteq files[p] \union plan[p].packages
    BY <1>0 DEF WritePackages, WriteFails, CommitFails, Crash, Ship, TypeOK
<1>8. GoodEnvelopes'
  <2>1. \A e \in net' : e \in net \/ \E q \in Stores : e \in files[q]
      BY DEF WritePackages, WriteFails, CommitFails, Crash, Ship
  <2>2. \A q \in Stores : \A e \in files'[q] \union plan'[q].packages :
            e \in files[q] \union plan[q].packages
      BY <1>3, <1>5, <1>6, <1>7
  <2> QED BY <1>1, <2>1, <2>2, EnvelopesKept
<1>9. \A q \in Stores : GoodPlan(q)'
  <2>1. GoodPlan(p)'
    <3>1. CASE plan'[p] = NoPlan
        BY <3>1, <1>3, EmptyPlan
    <3>2. CASE plan'[p] # NoPlan
      <4>1. GoodPlan(p) BY DEF IInv
      <4> QED BY <3>2, <4>1, <1>1, <1>2, <1>6 DEF GoodPlan, History, rowVars
    <3> QED BY <3>1, <3>2
  <2>2. ASSUME NEW q \in Stores, q # p PROVE GoodPlan(q)'
      BY <1>1, <1>2, <1>5, <2>2, PlanKept DEF rowVars
  <2> QED BY <2>1, <2>2
<1>10. \A q \in Stores : GoodRow(q)'
  <2>1. ASSUME NEW q \in Stores
        PROVE  tear'[q] \in {tear[q], NoKey} /\ revoke'[q] \in {revoke[q], NoRevoke}
      BY <1>0, <2>1
         DEF WritePackages, WriteFails, CommitFails, Crash, Ship, TypeOK
  <2> QED BY <1>1, <1>2, <2>1, RowKept DEF rowVars
<1>11. GoodSignatures'
    BY <1>1, <1>2, SignaturesKept
<1> QED BY <1>1, <1>8, <1>9, <1>10, <1>11 DEF Rest

(* Reading a row for a destroy notice or a revoke: the row exists.         *)
LEMMA ReadStep ==
    ASSUME IInv, NEW p \in Stores,
           \/ \E e \in net : VerifyDestroy(p, e)
           \/ \E r \in Labels : RevokeRead(p, r)
    PROVE  Rest'
<1>0. TypeOK BY DEF IInv
<1>1. History /\ DrawnKeys'
    BY SameKeys DEF VerifyDestroy, RevokeRead
<1>2. UNCHANGED <<rowVars, plan, files, net, sigs>> /\ status[p] = "live"
    BY DEF VerifyDestroy, RevokeRead
<1>3. \A q \in Stores : q # p => tear'[q] = tear[q] /\ revoke'[q] = revoke[q]
    BY <1>0 DEF VerifyDestroy, RevokeRead, TypeOK
<1>4. GoodEnvelopes'
    BY <1>1, <1>2, EnvelopesKept
<1>5. \A q \in Stores : GoodPlan(q)'
    BY <1>1, <1>2, PlanKept DEF rowVars
<1>6. \A q \in Stores : GoodRow(q)'
  <2>1. GoodRow(p)'
    <3>1. GoodRow(p) BY DEF IInv
    <3> QED BY <3>1, <1>1, <1>2 DEF GoodRow, History, rowVars
  <2>2. ASSUME NEW q \in Stores, q # p PROVE GoodRow(q)'
      BY <1>1, <1>2, <1>3, <2>2, RowKept DEF rowVars
  <2> QED BY <2>1, <2>2
<1>7. GoodSignatures'
    BY <1>1, <1>2, SignaturesKept
<1> QED BY <1>1, <1>4, <1>5, <1>6, <1>7 DEF Rest

(* Signing: the sealed secret is the row's, and the signer is a member.    *)
LEMMA SignStep ==
    ASSUME IInv, NEW p \in Labels, Sign(p)
    PROVE  Rest'
<1>0. p \in Stores /\ GoodRow(p)
    BY LabelsAreStores DEF IInv
<1>1. History /\ DrawnKeys'
    BY SameKeys DEF Sign
<1>2. UNCHANGED <<rowVars, plan, files, net, tear, revoke, drawn, issued>>
    BY DEF Sign
<1>3. GoodEnvelopes'
    BY <1>1, <1>2, EnvelopesKept
<1>4. \A q \in Stores : GoodPlan(q)'
    BY <1>1, <1>2, PlanKept DEF rowVars
<1>5. \A q \in Stores : GoodRow(q)'
    BY <1>1, <1>2, RowKept DEF rowVars
<1>6. GoodSignatures'
  <2>1. sealed[p] \in drawn /\ p \in issued[sealed[p]].members
      BY <1>0 DEF Sign, GoodRow
  <2>2. sigs' = sigs \union {[signer |-> p, key |-> sealed[p],
                              salt |-> key[p], gen |-> gen[p]]}
      BY DEF Sign
  <2>3. GoodSignatures BY DEF IInv
  <2> QED BY <1>2, <2>1, <2>2, <2>3 DEF GoodSignatures
<1> QED BY <1>1, <1>3, <1>4, <1>5, <1>6 DEF Rest


(* Committing a plan: the row takes the planned key, or is destroyed.      *)
LEMMA CommitStep ==
    ASSUME IInv, NEW p \in Stores,
           CommitCreate(p) \/ CommitRotate(p) \/ CommitDestroy(p)
    PROVE  Rest'
<1>0. TypeOK /\ GoodPlan(p) /\ GoodRow(p) /\ DrawnKeys BY DEF IInv
<1>1. History /\ DrawnKeys'
    BY SameKeys DEF CommitCreate, CommitRotate, CommitDestroy
<1>2. UNCHANGED <<files, net, tear, revoke, sigs, drawn, issued>>
    BY DEF CommitCreate, CommitRotate, CommitDestroy
<1>3. NoPlan.op = "none" /\ NoPlan.packages = {}
    BY DEF NoPlan
<1>4. plan'[p] = NoPlan /\ \A q \in Stores : q # p =>
          /\ plan'[q] = plan[q] /\ status'[q] = status[q] /\ gen'[q] = gen[q]
          /\ key'[q] = key[q] /\ members'[q] = members[q]
          /\ sealed'[q] = sealed[q]
    BY <1>0 DEF CommitCreate, CommitRotate, CommitDestroy, TypeOK
<1>5. GoodEnvelopes'
  <2>1. \A q \in Stores : \A e \in files'[q] \union plan'[q].packages :
            e \in files[q] \union plan[q].packages
      BY <1>2, <1>3, <1>4
  <2> QED BY <1>1, <1>2, <2>1, EnvelopesKept
<1>6. \A q \in Stores : GoodPlan(q)'
    BY <1>1, <1>3, <1>4, PlanKept, EmptyPlan
<1>7. \A q \in Stores : GoodRow(q)'
  <2>1. GoodRow(p)'
    <3>1. CASE CommitCreate(p)
      <4>1. /\ status'[p] = "live" /\ gen'[p] = 1 /\ key'[p] = plan[p].key
            /\ members'[p] = plan[p].members
            /\ sealed'[p] # NoKey => sealed'[p] = plan[p].key
                                     /\ p \in plan[p].members
          BY <1>0, <3>1 DEF CommitCreate, TypeOK
      <4>2. /\ plan[p].key \in drawn
            /\ plan[p].members = issued[plan[p].key].members
            /\ issued[plan[p].key].gen = 1
          BY <1>0, <3>1 DEF CommitCreate, GoodPlan, DrawnKeys
      <4> QED BY <1>2, <4>1, <4>2 DEF GoodRow
    <3>2. CASE CommitRotate(p)
      <4>1. /\ status'[p] = "live" /\ gen'[p] = plan[p].expect + 1
            /\ key'[p] = plan[p].key /\ members'[p] = plan[p].members
            /\ sealed'[p] # NoKey => sealed'[p] = plan[p].key
                                     /\ p \in plan[p].members
          BY <1>0, <3>2
             DEF CommitRotate, StillAtPlannedGeneration, TypeOK
      <4>2. /\ plan[p].key \in drawn
            /\ plan[p].members = issued[plan[p].key].members
            /\ issued[plan[p].key].gen = plan[p].expect + 1
          BY <1>0, <3>2 DEF CommitRotate, GoodPlan
      <4> QED BY <1>2, <4>1, <4>2 DEF GoodRow
    <3>3. CASE CommitDestroy(p)
      <4>1. /\ status'[p] = "destroyed" /\ gen'[p] = gen[p]
            /\ key'[p] = key[p] /\ members'[p] = members[p]
            /\ sealed'[p] = NoKey /\ status[p] = "live"
          BY <1>0, <3>3
             DEF CommitDestroy, StillAtPlannedGeneration, TypeOK
      <4> QED BY <1>0, <1>2, <4>1 DEF GoodRow
    <3> QED BY <3>1, <3>2, <3>3
  <2>2. ASSUME NEW q \in Stores, q # p PROVE GoodRow(q)'
      BY <1>1, <1>2, <1>4, <2>2, RowKept
  <2> QED BY <2>1, <2>2
<1>8. GoodSignatures'
    BY <1>1, <1>2, SignaturesKept
<1> QED BY <1>1, <1>5, <1>6, <1>7, <1>8 DEF Rest

(* Importing an invite or a rotation: the row takes the envelope's key,    *)
(* and an existing row only moves to a higher generation.                  *)
LEMMA ImportStep ==
    ASSUME IInv, NEW p \in Stores, NEW e \in net,
           ImportInvite(p, e) \/ ImportRotate(p, e)
    PROVE  Rest'
<1>0. TypeOK /\ GoodPlan(p) /\ GoodRow(p) /\ DrawnKeys /\ GoodEnvelope(e)
    BY DEF IInv, GoodEnvelopes
<1>1. History /\ DrawnKeys'
    BY SameKeys DEF ImportInvite, ImportRotate
<1>2. UNCHANGED <<plan, files, net, tear, revoke, sigs, drawn, issued>>
    BY DEF ImportInvite, ImportRotate
<1>3. /\ status'[p] = "live" /\ gen'[p] = e.gen /\ key'[p] = e.key
      /\ members'[p] = e.members
      /\ sealed'[p] = IF e.secret /\ e.role = "member" THEN e.key ELSE NoKey
    BY <1>0 DEF ImportInvite, ImportRotate, AdoptEnvelope, TypeOK
<1>4. \A q \in Stores : q # p =>
          /\ status'[q] = status[q] /\ gen'[q] = gen[q]
          /\ key'[q] = key[q] /\ members'[q] = members[q]
          /\ sealed'[q] = sealed[q]
    BY <1>0 DEF ImportInvite, ImportRotate, AdoptEnvelope, TypeOK
<1>5. /\ e.kind # "destroy" /\ e.to = p /\ RecipientOnRoster(e)
      /\ status[p] = "none" \/ (status[p] = "live" /\ e.gen = gen[p] + 1)
    BY DEF ImportInvite, ImportRotate, IsInvite
<1>6. /\ e.key \in drawn /\ e.gen = issued[e.key].gen
      /\ e.members = issued[e.key].members
    BY <1>0, <1>5 DEF GoodEnvelope
<1>7. GoodEnvelopes'
    BY <1>1, <1>2, EnvelopesKept
<1>8. \A q \in Stores : GoodPlan(q)'
  <2>1. GoodPlan(p)'
    <3>1. CASE plan[p].op # "rotate"
        BY <3>1, <1>0, <1>2 DEF GoodPlan
    <3>2. CASE plan[p].op = "rotate"
      <4>1. gen[p] \in Nat /\ plan[p].expect \in Nat
          BY <1>0 DEF TypeOK, Plans
      <4>2. gen[p] >= plan[p].expect /\ gen'[p] = gen[p] + 1
          BY <3>2, <1>0, <1>3, <1>5 DEF GoodPlan
      <4>3. gen'[p] >= plan[p].expect /\ gen'[p] # plan[p].expect
          BY <4>1, <4>2
      <4> QED BY <3>2, <4>3, <1>0, <1>2, <1>3 DEF GoodPlan
    <3> QED BY <3>1, <3>2
  <2>2. ASSUME NEW q \in Stores, q # p PROVE GoodPlan(q)'
      BY <1>1, <1>2, <1>4, <2>2, PlanKept
  <2> QED BY <2>1, <2>2
<1>9. \A q \in Stores : GoodRow(q)'
  <2>1. GoodRow(p)'
      BY <1>2, <1>3, <1>5, <1>6 DEF GoodRow, RecipientOnRoster
  <2>2. ASSUME NEW q \in Stores, q # p PROVE GoodRow(q)'
      BY <1>1, <1>2, <1>4, <2>2, RowKept
  <2> QED BY <2>1, <2>2
<1>10. GoodSignatures'
    BY <1>1, <1>2, SignaturesKept
<1> QED BY <1>1, <1>7, <1>8, <1>9, <1>10 DEF Rest


(* Destroying or dropping on one store: the row keeps its key, its roster  *)
(* only shrinks, and the sealed secret goes with the status or the label.  *)
LEMMA DropStep ==
    ASSUME IInv, NEW p \in Stores,
           \/ ApplyDestroy(p) \/ RevokeApply(p)
           \/ \E r \in Labels : LeafRemoved(p, r)
    PROVE  Rest'
<1>0. TypeOK /\ GoodRow(p) BY DEF IInv
<1>1. History /\ DrawnKeys'
    BY SameKeys DEF ApplyDestroy, RevokeApply, LeafRemoved
<1>2. UNCHANGED <<gen, key, plan, files, net, sigs, drawn, issued>>
    BY DEF ApplyDestroy, RevokeApply, LeafRemoved, DropRow
<1>3. \A q \in Stores : q # p =>
          /\ status'[q] = status[q] /\ members'[q] = members[q]
          /\ sealed'[q] = sealed[q] /\ tear'[q] = tear[q]
          /\ revoke'[q] = revoke[q]
    BY <1>0 DEF ApplyDestroy, RevokeApply, LeafRemoved, DropRow, TypeOK
<1>4. status[p] # "none"
    BY <1>0 DEF ApplyDestroy, RevokeApply, LeafRemoved, GoodRow
<1> DEFINE Shrinks ==
             /\ status'[p] \in {status[p], "destroyed"}
             /\ members'[p] \subseteq members[p]
             /\ \/ sealed'[p] = NoKey
                \/ /\ sealed'[p] = sealed[p] /\ status'[p] = status[p]
                   /\ p \in members[p] => p \in members'[p]
<1>5. Shrinks
  <2>1. CASE ApplyDestroy(p)
      BY <1>0, <2>1 DEF ApplyDestroy, TypeOK
  <2>2. ASSUME NEW r, NEW few, DropRow(p, r, few) PROVE Shrinks
    <3>1. /\ status'[p] = IF few THEN "destroyed" ELSE status[p]
          /\ members'[p] = members[p] \ {r}
          /\ sealed'[p] = IF few \/ r = p THEN NoKey ELSE sealed[p]
        BY <1>0, <2>2 DEF DropRow, TypeOK
    <3> QED BY <3>1
  <2> QED BY <2>1, <2>2 DEF RevokeApply, LeafRemoved
<1>6. GoodEnvelopes'
    BY <1>1, <1>2, EnvelopesKept
<1>7. \A q \in Stores : GoodPlan(q)'
    BY <1>1, <1>2, <1>3, <1>4, <1>5, PlanKept
<1>8. \A q \in Stores : GoodRow(q)'
  <2>1. GoodRow(p)'
      BY <1>0, <1>2, <1>4, <1>5 DEF GoodRow
  <2>2. ASSUME NEW q \in Stores, q # p PROVE GoodRow(q)'
      BY <1>1, <1>2, <1>3, <2>2, RowKept
  <2> QED BY <2>1, <2>2
<1>9. GoodSignatures'
    BY <1>1, <1>2, SignaturesKept
<1> QED BY <1>1, <1>6, <1>7, <1>8, <1>9 DEF Rest

-----------------------------------------------------------------------------
(* The invariant holds at the start and survives every step.               *)
LEMMA InitGood == Init => IInv
<1> SUFFICES ASSUME Init PROVE IInv
    OBVIOUS
<1>1. TypeOK BY InitTyped
<1>2. NoPlan.op = "none" /\ NoPlan.packages = {}
    BY DEF NoPlan
<1>3. DrawnKeys /\ GoodSignatures
    BY DEF Init, DrawnKeys, GoodSignatures
<1>4. GoodEnvelopes
    BY <1>2 DEF Init, GoodEnvelopes
<1>5. ASSUME NEW p \in Stores PROVE GoodPlan(p) /\ GoodRow(p)
    BY <1>2, <1>5 DEF Init, GoodPlan, GoodRow
<1> QED BY <1>1, <1>3, <1>4, <1>5 DEF IInv

LEMMA StutterGood ==
    ASSUME IInv, UNCHANGED vars
    PROVE  Rest'
<1>1. History /\ DrawnKeys'
    BY SameKeys DEF vars
<1>2. UNCHANGED <<rowVars, plan, files, net, tear, revoke, sigs>>
    BY DEF vars
<1>3. GoodEnvelopes'
    BY <1>1, <1>2, EnvelopesKept
<1>4. \A q \in Stores : GoodPlan(q)' /\ GoodRow(q)'
    BY <1>1, <1>2, PlanKept, RowKept DEF rowVars
<1>5. GoodSignatures'
    BY <1>1, <1>2, SignaturesKept
<1> QED BY <1>1, <1>3, <1>4, <1>5 DEF Rest

LEMMA NextGood == IInv /\ [Next]_vars => IInv'
<1> SUFFICES ASSUME IInv, [Next]_vars PROVE IInv'
    OBVIOUS
<1>1. TypeOK' BY NextTyped
<1>2. Rest'
  <2>1. CASE Create
      BY <2>1, PlanCreateStep DEF Create
  <2>2. CASE Remove
      BY <2>2, PlanDestroyStep, PlanRotateStep DEF Remove
  <2>3. CASE \E p \in Stores : Finish(p) \/ Abandon(p) \/ Ship(p)
      BY <2>3, DeliveryStep, CommitStep DEF Finish, Abandon
  <2>4. CASE \E p \in Stores : \E e \in net : Import(p, e)
      BY <2>4, ImportStep, ReadStep DEF Import
  <2>5. CASE \E p \in Stores : ApplyDestroy(p) \/ RevokeApply(p)
      BY <2>5, DropStep
  <2>6. CASE \E p \in Stores, r \in Labels : Revoke(p, r)
      BY <2>6, DropStep, ReadStep DEF Revoke
  <2>7. CASE \E p \in Labels : Sign(p)
      BY <2>7, SignStep
  <2>8. CASE UNCHANGED vars
      BY <2>8, StutterGood
  <2> QED BY <2>1, <2>2, <2>3, <2>4, <2>5, <2>6, <2>7, <2>8 DEF Next
<1> QED BY <1>1, <1>2 DEF IInv, Rest

(* The inductive invariant holds of every behaviour of the bridge, for any *)
(* people, parents, keys and interleaving of commands.                     *)
THEOREM Invariance == Spec => []IInv
BY InitGood, NextGood, PTL DEF Spec

(* Every row, plan, envelope and signature keeps its type: no commit or    *)
(* import of private_bridge.rs puts "no key" where a key is needed.        *)
THEOREM TypeCorrect == Spec => []TypeOK
<1>1. IInv => TypeOK BY DEF IInv
<1> QED BY <1>1, Invariance, PTL

(* The sealed secret of a store is always its row's current key: no commit *)
(* import, drop or destroy leaves a replaced secret behind.                *)
THEOREM SecretCurrent == Spec => []SealedMatchesRow
<1>1. IInv => SealedMatchesRow BY DEF IInv, GoodRow, SealedMatchesRow
<1> QED BY <1>1, Invariance, PTL

(* The secret of a key reaches only the labels the key was drawn for, and  *)
(* a rotation's labels are strictly fewer than its predecessor's.          *)
THEOREM Exclusion == Spec => []RemovedStaysOut
<1>1. IInv => RemovedStaysOut
    BY DEF IInv, GoodRow, GoodEnvelopes, GoodEnvelope, GoodSignatures,
           DrawnKeys, RemovedStaysOut
<1> QED BY <1>1, Invariance, PTL

(* Two stores with the same key have the same generation, and rosters      *)
(* drawn from the same list.                                               *)
THEOREM RowsAgree == Spec => []RowMatchesKey
<1>1. IInv => RowMatchesKey BY DEF IInv, GoodRow, RowMatchesKey
<1> QED BY <1>1, Invariance, PTL

-----------------------------------------------------------------------------
(* What a step may do to a store's key.                                    *)

LEMMA KeysStayDrawn == IInv /\ [Next]_vars => History
<1> SUFFICES ASSUME IInv, [Next]_vars PROVE History
    OBVIOUS
<1>0. TypeOK BY DEF IInv
<1>1. CASE UNCHANGED <<drawn, issued>>
    BY <1>1 DEF History
<1>2. CASE \E p \in Stores, M \in SUBSET Labels, k \in Keys,
             par \in Keys \union {NoKey}, g \in Nat :
               k \notin drawn /\ Draw(k, p, M, par, g)
    BY <1>0, <1>2, DrawFacts DEF History
<1>3. CASE Create
    BY <1>2, <1>3 DEF Create, PlanCreate
<1>4. CASE \E p, r \in Labels, k \in Keys : PlanRotate(p, r, k)
  <2> PICK p \in Labels, r \in Labels, k \in Keys : PlanRotate(p, r, k)
      BY <1>4
  <2>1. k \notin drawn /\ Draw(k, p, members[p] \ {r}, key[p], gen[p] + 1)
      BY DEF PlanRotate
  <2>2. /\ p \in Stores /\ members[p] \ {r} \in SUBSET Labels
        /\ key[p] \in Keys \union {NoKey} /\ gen[p] + 1 \in Nat
      BY <1>0, LabelsAreStores DEF TypeOK
  <2> QED BY <1>2, <2>1, <2>2
<1>5. CASE \E p, r \in Labels : PlanDestroy(p, r)
    BY <1>1, <1>5 DEF PlanDestroy
<1>6. CASE \E p \in Stores : Finish(p) \/ Abandon(p) \/ Ship(p)
    BY <1>1, <1>6 DEF Finish, Abandon, WritePackages, WriteFails, CommitFails,
       CommitCreate, CommitRotate, CommitDestroy, Crash, Ship
<1>7. CASE \E p \in Stores : \E e \in net : Import(p, e)
    BY <1>1, <1>7 DEF Import, ImportInvite, ImportRotate, VerifyDestroy
<1>8. CASE \E p \in Stores : ApplyDestroy(p) \/ RevokeApply(p)
    BY <1>1, <1>8 DEF ApplyDestroy, RevokeApply
<1>9. CASE \E p \in Stores, r \in Labels : Revoke(p, r)
    BY <1>1, <1>9 DEF Revoke, LeafRemoved, RevokeRead
<1>10. CASE \E p \in Labels : Sign(p)
    BY <1>1, <1>10 DEF Sign
<1>11. CASE UNCHANGED vars
    BY <1>1, <1>11 DEF vars
<1> QED BY <1>3, <1>4, <1>5, <1>6, <1>7, <1>8, <1>9, <1>10, <1>11
        DEF Next, Remove

(* A row that keeps its status and key, and its secret if it was gone.     *)
LEMMA RowStays ==
    ASSUME NEW p \in Stores, IInv, status'[p] = status[p], key'[p] = key[p],
           sealed'[p] \in {sealed[p], NoKey}
    PROVE  KeyMoves(p)
<1>1. GoodRow(p) BY DEF IInv
<1> QED BY <1>1 DEF GoodRow, KeyMoves

LEMMA LineageStep ==
    ASSUME IInv, [Next]_vars
    PROVE  \A q \in Stores : KeyMoves(q)
<1>0. TypeOK /\ DrawnKeys BY DEF IInv
<1>1. CASE UNCHANGED rowVars
    BY <1>1, RowStays DEF rowVars
<1>2. CASE Create
    BY <1>1, <1>2 DEF Create, PlanCreate
<1>3. CASE Remove
    BY <1>1, <1>3 DEF Remove, PlanRotate, PlanDestroy
<1>4. ASSUME NEW p \in Stores, Finish(p) \/ Abandon(p) \/ Ship(p)
      PROVE  \A q \in Stores : KeyMoves(q)
  <2>0. GoodPlan(p) /\ GoodRow(p) BY DEF IInv
  <2>1. CASE WritePackages(p) \/ Abandon(p) \/ Ship(p)
      BY <1>1, <2>1
         DEF WritePackages, Abandon, WriteFails, CommitFails, Crash, Ship
  <2>2. ASSUME NEW q \in Stores, q # p,
               CommitCreate(p) \/ CommitRotate(p) \/ CommitDestroy(p)
        PROVE  KeyMoves(q)
    <3>1. /\ status'[q] = status[q] /\ key'[q] = key[q]
          /\ sealed'[q] = sealed[q]
        BY <1>0, <2>2 DEF CommitCreate, CommitRotate, CommitDestroy, TypeOK
    <3> QED BY <3>1, RowStays
  <2>3. CASE CommitCreate(p)
    <3>1. /\ status[p] = "none" /\ gen'[p] = 1 /\ key'[p] = plan[p].key
          /\ issued' = issued
        BY <1>0, <2>3 DEF CommitCreate, TypeOK
    <3>2. issued[plan[p].key].parent = NoKey
        BY <2>0, <2>3 DEF CommitCreate, GoodPlan
    <3>3. KeyMoves(p) BY <3>1, <3>2 DEF KeyMoves
    <3> QED BY <2>2, <2>3, <3>3
  <2>4. CASE CommitRotate(p)
    <3>1. /\ status[p] = "live" /\ status'[p] = "live"
          /\ gen[p] = plan[p].expect /\ gen'[p] = gen[p] + 1
          /\ key'[p] = plan[p].key /\ issued' = issued
        BY <1>0, <2>4 DEF CommitRotate, StillAtPlannedGeneration, TypeOK
    <3>2. issued[plan[p].key].parent = key[p]
        BY <2>0, <2>4, <3>1 DEF CommitRotate, GoodPlan
    <3>3. KeyMoves(p) BY <3>1, <3>2 DEF KeyMoves
    <3> QED BY <2>2, <2>4, <3>3
  <2>5. CASE CommitDestroy(p)
    <3>1. /\ status[p] = "live" /\ key'[p] = key[p]
        BY <2>5 DEF CommitDestroy, StillAtPlannedGeneration
    <3>2. KeyMoves(p) BY <3>1 DEF KeyMoves
    <3> QED BY <2>2, <2>5, <3>2
  <2> QED BY <1>4, <2>1, <2>3, <2>4, <2>5 DEF Finish
<1>5. ASSUME NEW p \in Stores, NEW e \in net, Import(p, e)
      PROVE  \A q \in Stores : KeyMoves(q)
  <2>1. CASE VerifyDestroy(p, e)
      BY <1>1, <2>1 DEF VerifyDestroy
  <2>2. CASE ImportInvite(p, e) \/ ImportRotate(p, e)
    <3>1. GoodEnvelope(e) BY DEF IInv, GoodEnvelopes
    <3>2. /\ status'[p] = "live" /\ key'[p] = e.key /\ gen'[p] = e.gen
          /\ issued' = issued
        BY <1>0, <2>2
           DEF ImportInvite, ImportRotate, AdoptEnvelope, TypeOK
    <3>3. e.key \in drawn /\ e.kind # "destroy"
        BY <2>2, <3>1 DEF ImportInvite, ImportRotate, IsInvite, GoodEnvelope
    <3>4. ASSUME ImportInvite(p, e) PROVE KeyMoves(p)
      <4>1. status[p] = "none" /\ e.auth = NoKey
          BY <3>1, <3>4 DEF ImportInvite, IsInvite, GoodEnvelope
      <4>2. issued[e.key].parent = NoKey /\ e.gen = 1
          BY <1>0, <3>1, <3>3, <4>1 DEF GoodEnvelope, DrawnKeys
      <4> QED BY <3>2, <4>1, <4>2 DEF KeyMoves
    <3>5. ASSUME ImportRotate(p, e) PROVE KeyMoves(p)
      <4>1. status[p] = "live" /\ e.auth = key[p] /\ e.gen = gen[p] + 1
          BY <3>5 DEF ImportRotate, Authentic
      <4>2. issued[e.key].parent = key[p]
          BY <3>1, <3>3, <4>1 DEF GoodEnvelope
      <4> QED BY <3>2, <4>1, <4>2 DEF KeyMoves
    <3>6. KeyMoves(p)
        BY <2>2, <3>4, <3>5
    <3>7. ASSUME NEW q \in Stores, q # p PROVE KeyMoves(q)
      <4>1. /\ status'[q] = status[q] /\ key'[q] = key[q]
            /\ sealed'[q] = sealed[q]
          BY <1>0, <2>2, <3>7
             DEF ImportInvite, ImportRotate, AdoptEnvelope, TypeOK
      <4> QED BY <4>1, RowStays
    <3> QED BY <3>6, <3>7
  <2> QED BY <1>5, <2>1, <2>2 DEF Import
<1>6. ASSUME NEW p \in Stores,
             \/ ApplyDestroy(p) \/ RevokeApply(p)
             \/ \E r \in Labels : LeafRemoved(p, r)
      PROVE  \A q \in Stores : KeyMoves(q)
  <2>1. key' = key /\ GoodRow(p) /\ status[p] # "none"
      BY <1>6 DEF IInv, ApplyDestroy, RevokeApply, LeafRemoved, DropRow, GoodRow
  <2>2. /\ status'[p] \in {status[p], "destroyed"}
        /\ sealed'[p] \in {sealed[p], NoKey}
      BY <1>0, <1>6 DEF ApplyDestroy, RevokeApply, LeafRemoved, DropRow, TypeOK
  <2>3. KeyMoves(p)
      BY <2>1, <2>2 DEF GoodRow, KeyMoves
  <2>4. ASSUME NEW q \in Stores, q # p PROVE KeyMoves(q)
    <3>1. status'[q] = status[q] /\ sealed'[q] = sealed[q]
        BY <1>0, <1>6, <2>4
           DEF ApplyDestroy, RevokeApply, LeafRemoved, DropRow, TypeOK
    <3> QED BY <2>1, <3>1, RowStays
  <2> QED BY <2>3, <2>4
<1>7. CASE \E p \in Stores, r \in Labels : RevokeRead(p, r)
    BY <1>1, <1>7 DEF RevokeRead
<1>8. CASE \E p \in Labels : Sign(p)
    BY <1>1, <1>8 DEF Sign
<1>9. CASE UNCHANGED vars
    BY <1>1, <1>9 DEF vars
<1> QED BY <1>2, <1>3, <1>4, <1>5, <1>6, <1>7, <1>8, <1>9 DEF Next, Revoke

(* A store follows one line of rotations, one generation at a time, and a  *)
(* destroyed bridge stays destroyed, whatever is imported or committed.    *)
THEOREM Lineage == Spec => KeyLineage
<1>1. IInv /\ [Next]_vars => [\A p \in Stores : KeyMoves(p)]_vars
    BY LineageStep
<1> QED BY <1>1, Invariance, PTL DEF Spec, KeyLineage

(* A signature of a generation a store has left is never accepted there    *)
(* again: the generation of a row never decreases.                         *)
THEOREM StaleSignatures == Spec => StaleSignatureStaysDead
<1>1. ASSUME IInv, [Next]_vars, NEW q \in Labels, NEW x \in sigs
      PROVE  StaysStale(q, x)
  <2>1. /\ IInv' /\ History /\ KeyMoves(q) /\ q \in Stores
        /\ GoodRow(q) /\ GoodRow(q)'
      BY <1>1, NextGood, KeysStayDrawn, LineageStep, LabelsAreStores DEF IInv
  <2>2. x.gen \in Nat /\ gen[q] \in Nat /\ gen'[q] \in Nat
      BY <1>1, <2>1 DEF IInv, TypeOK
  <2>3. SUFFICES ASSUME status[q] # "none", x.gen < gen[q], Verifies(q, x)'
                 PROVE  FALSE
      BY DEF StaysStale
  <2>4. status'[q] = "live" /\ x.gen = gen'[q]
      BY <2>3 DEF Verifies
  <2>5. gen'[q] = gen[q] \/ gen'[q] = gen[q] + 1
    <3>1. CASE key'[q] = key[q]
        BY <3>1, <2>1, <2>3, <2>4 DEF GoodRow, History
    <3>2. CASE key'[q] # key[q]
        BY <3>2, <2>1, <2>3 DEF KeyMoves
    <3> QED BY <3>1, <3>2
  <2> QED BY <2>2, <2>3, <2>4, <2>5
<1>2. IInv /\ [Next]_vars => [\A q \in Labels, x \in sigs : StaysStale(q, x)]_vars
    BY <1>1
<1> QED BY <1>2, Invariance, PTL DEF Spec, StaleSignatureStaysDead

=============================================================================
