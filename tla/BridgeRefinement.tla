-------------------------- MODULE BridgeRefinement --------------------------
(* PrivateBridge implements BridgeAbstract, for every set of labels,       *)
(* stores and keys.                                                        *)
EXTENDS PrivateBridgeProofs, FiniteSetTheorems

LEMMA TwoMembers ==
    ASSUME NEW M \in SUBSET Labels, Cardinality(M) >= 2
    PROVE  Abstract!AtLeastTwo(M)
<1>1. IsFiniteSet(M)
    BY FS_Subset, BridgeAssumption
<1>2. M # {}
    BY FS_EmptySet
<1>3. PICK l \in M : TRUE
    BY <1>2
<1>4. M # {l}
    BY FS_Singleton
<1>5. PICK m \in M : m # l
    BY <1>3, <1>4
<1> QED BY <1>3, <1>5 DEF Abstract!AtLeastTwo

LEMMA InitRefines == Init => Abstract!Init
<1> SUFFICES ASSUME Init PROVE Abstract!Init
    OBVIOUS
<1>1. Line = [k \in {} |-> NoKey]
    BY DEF Init, Line
<1>2. Trusted = [p \in Stores |-> NoKey]
    BY DEF Init, Trusted
<1>3. Closed = {} /\ Signed = {}
    BY DEF Init, Closed, Signed
<1>4. sealed = [p \in Stores |-> NoKey]
    BY DEF Init
<1> QED BY <1>1, <1>2, <1>3, <1>4 DEF Abstract!Init

(* A step that leaves rows, keys and signatures alone is invisible.        *)
LEMMA Invisible ==
    ASSUME UNCHANGED <<status, key, sealed, drawn, issued, sigs>>
    PROVE  UNCHANGED Abstract!vars
BY DEF Abstract!vars, Line, Trusted, Closed, Signed

(* Drawing a key for M grants it.                                          *)
LEMMA DrawGrants ==
    ASSUME IInv, NEW k \in Keys, k \notin drawn, NEW p \in Stores,
           NEW M \in SUBSET Labels, NEW par \in Keys \union {NoKey},
           NEW g \in Nat, Draw(k, p, M, par, g),
           UNCHANGED <<status, key, sealed, sigs>>
    PROVE  /\ DOMAIN Line = drawn
           /\ DOMAIN Line' = DOMAIN Line \union {k}
           /\ Abstract!Grant(k, M, par)
<1>1. /\ drawn' = drawn \union {k}
      /\ issued'[k] = [members |-> M, parent |-> par, gen |-> g, by |-> p]
      /\ \A d \in drawn : issued'[d] = issued[d]
    BY DrawFacts DEF IInv
<1>2. DOMAIN Line = drawn /\ DOMAIN Line' = drawn'
    BY DEF Line
<1>3. Line' = [d \in drawn \union {k} |->
                 IF d = k THEN [members |-> M, prev |-> par] ELSE Line[d]]
    BY <1>1 DEF Line
<1>4. Trusted' = Trusted /\ Closed' = Closed /\ Signed' = Signed
    BY DEF Trusted, Closed, Signed
<1> QED BY <1>1, <1>2, <1>3, <1>4 DEF Abstract!Grant, Abstract!Granted

LEMMA CreateRefines ==
    ASSUME IInv, NEW p \in Stores, NEW M \in SUBSET Labels,
           NEW S \in SUBSET Labels, NEW self \in BOOLEAN, NEW k \in Keys,
           PlanCreate(p, M, S, self, k)
    PROVE  Abstract!Next
<1>1. /\ drawn = {} /\ Cardinality(M) >= 2 /\ Draw(k, p, M, NoKey, 1)
      /\ UNCHANGED <<status, key, sealed, sigs>>
    BY DEF PlanCreate, rowVars
<1>2. /\ DOMAIN Line = drawn /\ DOMAIN Line' = DOMAIN Line \union {k}
      /\ Abstract!Grant(k, M, NoKey)
    BY <1>1, DrawGrants
<1>3. Abstract!Found(k, M)
    BY <1>1, <1>2, TwoMembers DEF Abstract!Found, Abstract!Granted
<1> QED BY <1>1, <1>2, <1>3 DEF Abstract!Next, Abstract!Granted

LEMMA RotateRefines ==
    ASSUME IInv, NEW p \in Labels, NEW r \in Labels, NEW k \in Keys,
           PlanRotate(p, r, k)
    PROVE  Abstract!Next
<1> DEFINE M == members[p] \ {r}
<1>0. TypeOK /\ GoodRow(p) /\ p \in Stores
    BY LabelsAreStores DEF IInv
<1>1. /\ k \notin drawn /\ Draw(k, p, M, key[p], gen[p] + 1)
      /\ Cardinality(M) >= 2 /\ CanRemove(p, r)
      /\ UNCHANGED <<status, key, sealed, sigs>>
    BY DEF PlanRotate, rowVars
<1>2. /\ status[p] = "live" /\ sealed[p] # NoKey /\ sealed[p] = key[p]
      /\ p \in M /\ key[p] \in drawn /\ M \subseteq issued[key[p]].members
      /\ r \in issued[key[p]].members /\ r \notin M
    BY <1>0, <1>1 DEF CanRemove, GoodRow
<1>3. M \in SUBSET Labels /\ key[p] \in Keys \union {NoKey} /\ gen[p] + 1 \in Nat
    BY <1>0 DEF TypeOK
<1> HIDE DEF M
<1>4. /\ DOMAIN Line = drawn /\ DOMAIN Line' = DOMAIN Line \union {k}
      /\ Abstract!Grant(k, M, key[p])
    BY <1>0, <1>1, <1>3, DrawGrants
<1>5. Trusted[p] = key[p] /\ p \notin Closed /\ Line[key[p]].members = issued[key[p]].members
    BY <1>0, <1>2 DEF Trusted, Closed, Line
<1>6. Abstract!Succeed(p, k, M)
    BY <1>1, <1>2, <1>3, <1>4, <1>5, TwoMembers, BridgeAssumption DEF Abstract!Succeed
<1> QED BY <1>1, <1>3, <1>4, <1>6 DEF Abstract!Next, Abstract!Granted

(* A row that takes over a root, or a successor of its key, moves.         *)
LEMMA Moves ==
    ASSUME IInv, NEW p \in Stores, NEW k \in drawn, NEW x,
           status[p] # "destroyed",
           IF status[p] = "none" THEN issued[k].parent = NoKey
           ELSE issued[k].parent = key[p],
           x = NoKey \/ (x = k /\ p \in issued[k].members),
           status' = [status EXCEPT ![p] = "live"],
           key' = [key EXCEPT ![p] = k],
           sealed' = [sealed EXCEPT ![p] = x],
           UNCHANGED <<drawn, issued, sigs>>
    PROVE  Abstract!Next
<1>0. TypeOK BY DEF IInv
<1>1. p \notin Closed /\ k \in DOMAIN Line /\ k \in Keys
    BY <1>0 DEF Closed, Line, TypeOK
<1>2. Line[k].prev = Trusted[p] /\ Line[k].members = issued[k].members
    BY DEF Line, Trusted
<1>3. Trusted' = [Trusted EXCEPT ![p] = k]
    BY <1>0 DEF Trusted, TypeOK
<1>4. Line' = Line /\ Signed' = Signed
    BY DEF Line, Signed
<1>5. Closed' = Closed
    BY <1>0 DEF Closed, TypeOK
<1>6. Abstract!Move(p, k)
    BY <1>1, <1>2, <1>3, <1>4, <1>5 DEF Abstract!Move, Abstract!Granted
<1> QED BY <1>1, <1>6 DEF Abstract!Next

(* A row that loses its secret, and may be destroyed, forgets.             *)
LEMMA Forgets ==
    ASSUME IInv, NEW p \in Stores, NEW st \in {status[p], "destroyed"},
           status[p] # "none",
           status' = [status EXCEPT ![p] = st], key' = key,
           sealed' = [sealed EXCEPT ![p] = NoKey],
           UNCHANGED <<drawn, issued, sigs>>
    PROVE  Abstract!Next
<1>0. TypeOK /\ GoodRow(p) BY DEF IInv
<1>1. Trusted[p] # NoKey
    BY <1>0, BridgeAssumption DEF GoodRow, Trusted, TypeOK
<1>2. Trusted' = Trusted /\ Line' = Line /\ Signed' = Signed
    BY <1>0 DEF Trusted, Line, Signed, TypeOK
<1>3. Closed' \in {Closed, Closed \union {p}}
  <2>1. CASE st = status[p]
    <3>1. status' = status BY <1>0, <2>1 DEF TypeOK
    <3> QED BY <3>1 DEF Closed
  <2>2. CASE st = "destroyed"
    <3>1. \A q \in Stores : status'[q] = IF q = p THEN "destroyed" ELSE status[q]
        BY <1>0, <2>2 DEF TypeOK
    <3>2. Closed' = Closed \union {p}
        BY <3>1 DEF Closed
    <3> QED BY <3>2
  <2> QED BY <2>1, <2>2
<1>4. Abstract!Forget(p)
    BY <1>1, <1>2, <1>3 DEF Abstract!Forget
<1> QED BY <1>4 DEF Abstract!Next

LEMMA CommitRefines ==
    ASSUME IInv, NEW p \in Stores,
           CommitCreate(p) \/ CommitRotate(p) \/ CommitDestroy(p)
    PROVE  Abstract!Next
<1>0. TypeOK /\ GoodPlan(p) /\ GoodRow(p) BY DEF IInv
<1>1. CASE CommitCreate(p)
  <2>1. /\ plan[p].key \in drawn /\ issued[plan[p].key].parent = NoKey
        /\ plan[p].members = issued[plan[p].key].members
      BY <1>0, <1>1 DEF CommitCreate, GoodPlan
  <2> DEFINE x == IF plan[p].self /\ p \in plan[p].members
                  THEN plan[p].key ELSE NoKey
  <2>2. x = NoKey \/ (x = plan[p].key /\ p \in issued[plan[p].key].members)
      BY <2>1
  <2>3. /\ status[p] = "none"
        /\ status' = [status EXCEPT ![p] = "live"]
        /\ key' = [key EXCEPT ![p] = plan[p].key]
        /\ sealed' = [sealed EXCEPT ![p] = x]
        /\ UNCHANGED <<drawn, issued, sigs>>
      BY <1>1 DEF CommitCreate
  <2> HIDE DEF x
  <2> QED BY <2>1, <2>2, <2>3, Moves
<1>2. CASE CommitRotate(p)
  <2>1. status[p] = "live" /\ gen[p] = plan[p].expect
      BY <1>2 DEF CommitRotate, StillAtPlannedGeneration
  <2>2. /\ plan[p].key \in drawn /\ issued[plan[p].key].parent = key[p]
        /\ plan[p].members = issued[plan[p].key].members
      BY <1>0, <1>2, <2>1 DEF CommitRotate, GoodPlan
  <2> DEFINE x == IF p \in plan[p].members THEN plan[p].key ELSE NoKey
  <2>3. x = NoKey \/ (x = plan[p].key /\ p \in issued[plan[p].key].members)
      BY <2>2
  <2>4. status' = [status EXCEPT ![p] = "live"]
      BY <1>0, <1>2, <2>1 DEF CommitRotate, TypeOK
  <2>5. /\ key' = [key EXCEPT ![p] = plan[p].key]
        /\ sealed' = [sealed EXCEPT ![p] = x]
        /\ UNCHANGED <<drawn, issued, sigs>>
      BY <1>2 DEF CommitRotate
  <2> HIDE DEF x
  <2> QED BY <2>1, <2>2, <2>3, <2>4, <2>5, Moves
<1>3. CASE CommitDestroy(p)
  <2>1. /\ status[p] = "live"
        /\ status' = [status EXCEPT ![p] = "destroyed"] /\ key' = key
        /\ sealed' = [sealed EXCEPT ![p] = NoKey]
        /\ UNCHANGED <<drawn, issued, sigs>>
      BY <1>3 DEF CommitDestroy, StillAtPlannedGeneration
  <2> QED BY <2>1, Forgets
<1> QED BY <1>1, <1>2, <1>3

LEMMA ImportRefines ==
    ASSUME IInv, NEW p \in Stores, NEW e \in net,
           ImportInvite(p, e) \/ ImportRotate(p, e)
    PROVE  Abstract!Next
<1>0. TypeOK /\ GoodEnvelope(e) /\ e.to = p
    BY DEF IInv, GoodEnvelopes, ImportInvite, ImportRotate
<1>1. e.kind # "destroy" /\ e.key \in drawn /\ e.auth = issued[e.key].parent
    BY <1>0 DEF ImportInvite, ImportRotate, IsInvite, GoodEnvelope
<1> DEFINE x == IF e.secret /\ e.role = "member" THEN e.key ELSE NoKey
<1>2. x = NoKey \/ (x = e.key /\ p \in issued[e.key].members)
    BY <1>0 DEF GoodEnvelope
<1>3. /\ key' = [key EXCEPT ![p] = e.key]
      /\ sealed' = [sealed EXCEPT ![p] = x]
      /\ UNCHANGED <<drawn, issued, sigs>>
    BY DEF ImportInvite, ImportRotate, AdoptEnvelope
<1> HIDE DEF x
<1>4. CASE ImportInvite(p, e)
  <2>1. /\ status[p] = "none" /\ status' = [status EXCEPT ![p] = "live"]
        /\ e.auth = NoKey
      BY <1>0, <1>4 DEF ImportInvite, IsInvite, GoodEnvelope
  <2> QED BY <1>1, <1>2, <1>3, <2>1, Moves
<1>5. CASE ImportRotate(p, e)
  <2>1. status[p] = "live" /\ e.auth = key[p] /\ status' = status
      BY <1>5 DEF ImportRotate, Authentic
  <2>2. status' = [status EXCEPT ![p] = "live"]
      BY <1>0, <2>1 DEF TypeOK
  <2> QED BY <1>1, <1>2, <1>3, <2>1, <2>2, Moves
<1> QED BY <1>4, <1>5

LEMMA DropRefines ==
    ASSUME IInv, NEW p \in Stores,
           \/ ApplyDestroy(p) \/ RevokeApply(p)
           \/ \E r \in Labels : LeafRemoved(p, r)
    PROVE  Abstract!Next \/ UNCHANGED Abstract!vars
<1>0. TypeOK /\ GoodRow(p) BY DEF IInv
<1>1. status[p] # "none" /\ key' = key /\ UNCHANGED <<drawn, issued, sigs>>
    BY <1>0 DEF ApplyDestroy, RevokeApply, LeafRemoved, DropRow, GoodRow
<1>2. CASE ApplyDestroy(p)
    BY <1>1, <1>2, Forgets DEF ApplyDestroy
<1>3. ASSUME NEW r, NEW few, DropRow(p, r, few)
      PROVE  Abstract!Next \/ UNCHANGED Abstract!vars
  <2>1. CASE few
    <3>1. /\ status' = [status EXCEPT ![p] = "destroyed"]
          /\ sealed' = [sealed EXCEPT ![p] = NoKey]
        BY <1>3, <2>1 DEF DropRow
    <3> QED BY <1>1, <3>1, Forgets
  <2>2. CASE ~few /\ r = p
    <3>1. /\ status' = [status EXCEPT ![p] = status[p]]
          /\ sealed' = [sealed EXCEPT ![p] = NoKey]
        BY <1>3, <2>2 DEF DropRow
    <3> QED BY <1>1, <3>1, Forgets
  <2>3. CASE ~few /\ r # p
    <3>1. status' = status /\ sealed' = sealed
        BY <1>0, <1>3, <2>3 DEF DropRow, TypeOK
    <3> QED BY <1>1, <3>1, Invisible
  <2> QED BY <2>1, <2>2, <2>3
<1> QED BY <1>2, <1>3 DEF RevokeApply, LeafRemoved

LEMMA SignRefines ==
    ASSUME IInv, NEW p \in Labels, Sign(p)
    PROVE  Abstract!Next
<1>1. p \notin Closed /\ sealed[p] # NoKey
    BY DEF Sign, Closed
<1>2. /\ sigs' = sigs \union {[signer |-> p, key |-> sealed[p],
                               salt |-> key[p], gen |-> gen[p]]}
      /\ UNCHANGED <<status, key, sealed, drawn, issued>>
    BY DEF Sign, rowVars
<1>3. Signed' = Signed \union {[signer |-> p, key |-> sealed[p]]}
  <2> DEFINE Mark(x) == [signer |-> x.signer, key |-> x.key]
             new == [signer |-> p, key |-> sealed[p], salt |-> key[p], gen |-> gen[p]]
  <2>1. Signed = {Mark(x) : x \in sigs} /\ Signed' = {Mark(x) : x \in sigs'}
      BY DEF Signed
  <2>2. Mark(new) = [signer |-> p, key |-> sealed[p]]
      OBVIOUS
  <2>3. sigs' = sigs \union {new}
      BY <1>2
  <2> HIDE DEF Mark, new
  <2>4. {Mark(x) : x \in sigs'} = {Mark(x) : x \in sigs} \union {Mark(new)}
      BY <2>3
  <2> QED BY <2>1, <2>2, <2>4
<1>4. Line' = Line /\ Trusted' = Trusted /\ Closed' = Closed
    BY <1>2 DEF Line, Trusted, Closed
<1>5. Abstract!Sign(p)
    BY <1>1, <1>2, <1>3, <1>4 DEF Abstract!Sign
<1> QED BY <1>5 DEF Abstract!Next

LEMMA StepRefines == IInv /\ [Next]_vars => [Abstract!Next]_(Abstract!vars)
<1> SUFFICES ASSUME IInv, [Next]_vars
             PROVE  Abstract!Next \/ UNCHANGED Abstract!vars
    OBVIOUS
<1>1. CASE Create
    BY <1>1, CreateRefines DEF Create
<1>2. CASE Remove
    BY <1>2, RotateRefines, Invisible DEF Remove, PlanDestroy, rowVars
<1>3. ASSUME NEW p \in Stores, Finish(p) \/ Abandon(p) \/ Ship(p)
      PROVE  Abstract!Next \/ UNCHANGED Abstract!vars
  <2>1. CASE WritePackages(p) \/ Abandon(p) \/ Ship(p)
      BY <2>1, Invisible DEF WritePackages, Abandon, WriteFails, CommitFails,
         Crash, Ship, rowVars
  <2> QED BY <1>3, <2>1, CommitRefines DEF Finish
<1>4. ASSUME NEW p \in Stores, NEW e \in net, Import(p, e)
      PROVE  Abstract!Next \/ UNCHANGED Abstract!vars
  <2>1. CASE VerifyDestroy(p, e)
      BY <2>1, Invisible DEF VerifyDestroy, rowVars
  <2> QED BY <1>4, <2>1, ImportRefines DEF Import
<1>5. CASE \E p \in Stores : ApplyDestroy(p) \/ RevokeApply(p)
    BY <1>5, DropRefines
<1>6. ASSUME NEW p \in Stores, NEW r \in Labels, Revoke(p, r)
      PROVE  Abstract!Next \/ UNCHANGED Abstract!vars
  <2>1. CASE RevokeRead(p, r)
      BY <2>1, Invisible DEF RevokeRead, rowVars
  <2> QED BY <1>6, <2>1, DropRefines DEF Revoke
<1>7. CASE \E p \in Labels : Sign(p)
    BY <1>7, SignRefines
<1>8. CASE UNCHANGED vars
    BY <1>8, Invisible DEF vars, rowVars
<1> QED BY <1>1, <1>2, <1>3, <1>4, <1>5, <1>6, <1>7, <1>8 DEF Next

(* Stores that share nothing and exchange envelopes that may be late,      *)
(* repeated, reordered or lost, with overlapping, failing and killed       *)
(* commands (create, remove-member, import, revoke and sign of             *)
(* private_bridge.rs), behave as the abstract bridge: a line of shrinking  *)
(* grants that every store follows one key at a time.                      *)
THEOREM Refinement == Spec => ImplementsAbstract
<1> QED BY InitRefines, StepRefines, Invariance, PTL
        DEF Spec, ImplementsAbstract, Abstract!Spec

=============================================================================
