--------------------------- MODULE PrivateBridge ---------------------------
(***************************************************************************)
(* One private sign bridge (src/private_bridge.rs) over the independent    *)
(* per-person stores that hold it, with the CLI's plan / write / commit    *)
(* delivery of its envelopes (src/bin/keyquorum/main.rs).                  *)
(*                                                                         *)
(* Every label is a person with a store of their own; a desk is a          *)
(* coordinator's store that belongs to no party.  Stores share nothing:    *)
(* they only exchange envelopes (.kqpb files).  `net' holds every envelope *)
(* that ever left its writer, so an envelope may be imported late, twice,  *)
(* out of order, or never.                                                 *)
(*                                                                         *)
(* Abstractions:                                                           *)
(*   - the uid is random, so a retried `create' is another bridge: the     *)
(*     model follows one uid;                                              *)
(*   - a member of Keys stands for one draw of (bridge secret, public key, *)
(*     bridge salt); a signature is the key that made it, and an envelope  *)
(*     is opened only by the store it is addressed to;                     *)
(*   - personal keys are fixed per label (they are compared for equality   *)
(*     by the code, and no operation of this module changes them);         *)
(*   - bridge_events rows, labels of the bridge and .kqbn notices are left *)
(*     out: nothing in this file reads them back.                          *)
(***************************************************************************)
EXTENDS Naturals, FiniteSets

CONSTANTS
    Labels,      \* node labels of the people who may be party to the bridge
    NoLabel,     \* "no parent": parent_node_label returned None
    ParentOf,    \* label -> its direct parent label, or NoLabel
    Desks,       \* coordinator stores that are nobody's label
    Keys,        \* draws of a bridge key (random, never repeated)
    NoKey,
    Volunteers,  \* labels that --supervisor may name without being implied
    Creators,    \* stores on which `create' may be run
    Rotators,    \* labels that may run `remove-member' on their store
    Revokers,    \* stores on which `revoke' may be run
    Revocable,   \* labels whose hardware key may be revoked
    Signers,     \* labels that may sign with the bridge
    Overlap,     \* may two commands of one store interleave?
    Crashes      \* may a command be killed half way?

Stores == Labels \union Desks

ASSUME BridgeAssumption ==
    /\ IsFiniteSet(Labels)
    /\ Labels \intersect Desks = {}
    /\ NoLabel \notin Labels
    /\ NoKey \notin Keys
    /\ ParentOf \in [Labels -> Labels \union {NoLabel}]
    /\ Volunteers \subseteq Labels
    /\ Creators \subseteq Stores
    /\ Rotators \subseteq Labels
    /\ Revokers \subseteq Stores
    /\ Revocable \subseteq Labels
    /\ Signers \subseteq Labels
    /\ Overlap \in BOOLEAN
    /\ Crashes \in BOOLEAN

VARIABLES
    status,      \* store -> "none" | "live" | "destroyed" (destroyed_at set)
    gen,         \* store -> private_bridges.generation
    key,         \* store -> private_bridges.public_key and salt
    members,     \* store -> private_bridge_members with role 'member'
    supers,      \* store -> private_bridge_members with role 'supervisor'
    sealed,      \* store -> the bridge secret sealed for the local label
    tagged,      \* stores whose row carries a tree key_id
    plan,        \* store -> the create / remove-member command in flight
    files,       \* store -> envelopes lying in its output directory
    net,         \* every envelope that was handed to a carrier
    tear,        \* store -> the key a destroy notice was verified against
    revoke,      \* store -> the revoke command that has read the roster
    sigs,        \* signature artifacts made so far
    drawn,       \* keys drawn so far
    issued       \* key -> what was drawn with it (history, for properties)

rowVars == <<status, gen, key, members, supers, sealed, tagged>>
vars == <<rowVars, plan, files, net, tear, revoke, sigs, drawn, issued>>

-----------------------------------------------------------------------------
(* Envelopes and in-flight commands.                                       *)

Kinds == {"invite", "rotate", "destroy", "supervisor"}

Envelopes ==
    [kind: Kinds, to: Labels, role: {"member", "supervisor"}, gen: Nat,
     key: Keys, auth: Keys \union {NoKey}, secret: BOOLEAN,
     members: SUBSET Labels, supers: SUBSET Labels]

Plans ==
    [op: {"none", "create", "rotate", "destroy"}, written: BOOLEAN,
     expect: Nat, key: Keys \union {NoKey}, members: SUBSET Labels,
     supers: SUBSET Labels, self: BOOLEAN, packages: SUBSET Envelopes]

NoPlan == [op |-> "none", written |-> FALSE, expect |-> 0, key |-> NoKey,
           members |-> {}, supers |-> {}, self |-> FALSE, packages |-> {}]

Revokes == [label: Labels \union {NoLabel}, few: BOOLEAN]
NoRevoke == [label |-> NoLabel, few |-> FALSE]

Issues == [members: SUBSET Labels, parent: Keys \union {NoKey}, gen: Nat,
           by: Stores]

(* No other command of store p is half way.                                *)
Idle(p) == plan[p] = NoPlan /\ tear[p] = NoKey /\ revoke[p] = NoRevoke

(* A command may start on p: SQLite lets two processes work on one         *)
(* database between their transactions, and Overlap says whether they do.  *)
MayStart(p) == Overlap \/ Idle(p)

TypeOK ==
    /\ status \in [Stores -> {"none", "live", "destroyed"}]
    /\ gen \in [Stores -> Nat]
    /\ key \in [Stores -> Keys \union {NoKey}]
    /\ members \in [Stores -> SUBSET Labels]
    /\ supers \in [Stores -> SUBSET Labels]
    /\ sealed \in [Stores -> Keys \union {NoKey}]
    /\ tagged \in SUBSET Stores
    /\ plan \in [Stores -> Plans]
    /\ files \in [Stores -> SUBSET Envelopes]
    /\ net \in SUBSET Envelopes
    /\ tear \in [Stores -> Keys \union {NoKey}]
    /\ revoke \in [Stores -> Revokes]
    /\ sigs \in SUBSET [signer: Labels, key: Keys, salt: Keys, gen: Nat]
    /\ drawn \in SUBSET Keys
    /\ issued \in [drawn -> Issues]

Init ==
    /\ status = [p \in Stores |-> "none"]
    /\ gen = [p \in Stores |-> 0]
    /\ key = [p \in Stores |-> NoKey]
    /\ members = [p \in Stores |-> {}]
    /\ supers = [p \in Stores |-> {}]
    /\ sealed = [p \in Stores |-> NoKey]
    /\ tagged = {}
    /\ plan = [p \in Stores |-> NoPlan]
    /\ files = [p \in Stores |-> {}]
    /\ net = {}
    /\ tear = [p \in Stores |-> NoKey]
    /\ revoke = [p \in Stores |-> NoRevoke]
    /\ sigs = {}
    /\ drawn = {}
    /\ issued = [k \in {} |-> 0]

-----------------------------------------------------------------------------
(* Rosters.                                                                *)

(* Direct parents of M outside M: the supervisors M implies.               *)
ImpliedSupervisors(M) == {ParentOf[l] : l \in M} \ ({NoLabel} \union M)

(* supervisor_pubs_for: the implied supervisors that were party before.    *)
SupervisorsFor(M, previous) == ImpliedSupervisors(M) \intersect previous

(* packages_for_roster: one envelope per member, with the secret, and one  *)
(* per supervisor, without; auth is the old key, or NoKey for an invite.   *)
MutSecretForAll(memberKind, g, k, M, S, auth) ==
    { [kind |-> IF l \in M THEN memberKind ELSE "supervisor", to |-> l,
       role |-> IF l \in M THEN "member" ELSE "supervisor", gen |-> g,
       key |-> k, auth |-> auth, secret |-> TRUE,
       members |-> M, supers |-> S] : l \in M \union S }
PackagesForRoster(memberKind, g, k, M, S, auth) ==
    { [kind |-> memberKind, to |-> l, role |-> "member", gen |-> g,
       key |-> k, auth |-> auth, secret |-> TRUE,
       members |-> M, supers |-> S] : l \in M }
    \union
    { [kind |-> "supervisor", to |-> l, role |-> "supervisor", gen |-> g,
       key |-> k, auth |-> auth, secret |-> FALSE,
       members |-> M, supers |-> S] : l \in S }

(* destroy_package_for, for each label of `to'; it names the generation    *)
(* and key the bridge had, signed by that key.                             *)
DestroyPackages(to, p, M, S) ==
    { [kind |-> "destroy", to |-> l,
       role |-> IF l \in members[p] THEN "member" ELSE "supervisor",
       gen |-> gen[p], key |-> key[p], auth |-> sealed[p],
       secret |-> FALSE, members |-> M, supers |-> S] : l \in to }

Draw(k, p, M, par, g) ==
    /\ drawn' = drawn \union {k}
    /\ issued' = [d \in drawn \union {k} |->
                    IF d = k THEN [members |-> M, parent |-> par,
                                   gen |-> g, by |-> p]
                    ELSE issued[d]]

-----------------------------------------------------------------------------
(* bridge private create: plan, write the envelopes, commit.               *)

(* plan_create, after the CLI resolved the parties: at least two members,  *)
(* every implied supervisor present, and --self (if given) a party.        *)
PlanCreate(p, M, S, self, k) ==
    /\ p \in Creators /\ drawn = {} /\ MayStart(p)
    /\ Cardinality(M) >= 2
    /\ ImpliedSupervisors(M) \subseteq S /\ S \intersect M = {}
    /\ S \subseteq ImpliedSupervisors(M) \union Volunteers
    /\ self => p \in M \union S
    /\ Draw(k, p, M, NoKey, 1)
    /\ plan' = [plan EXCEPT ![p] =
         [op |-> "create", written |-> FALSE, expect |-> 0, key |-> k,
          members |-> M, supers |-> S, self |-> self,
          packages |-> PackagesForRoster("invite", 1, k, M, S, NoKey)]]
    /\ UNCHANGED <<rowVars, files, net, tear, revoke, sigs>>

(* write_delivery_packages: files are created, never overwritten.          *)
WritePackages(p) ==
    /\ plan[p].op # "none" /\ ~plan[p].written
    /\ \A e \in plan[p].packages, f \in files[p] : e.to # f.to
    /\ plan' = [plan EXCEPT ![p].written = TRUE]
    /\ files' = [files EXCEPT ![p] = @ \union plan[p].packages]
    /\ UNCHANGED <<rowVars, net, tear, revoke, sigs, drawn, issued>>

(* A file that exists, or any I/O error: the guard removes the files this  *)
(* command created, and the command ends.                                  *)
WriteFails(p) ==
    /\ plan[p].op # "none" /\ ~plan[p].written
    /\ plan' = [plan EXCEPT ![p] = NoPlan]
    /\ UNCHANGED <<rowVars, files, net, tear, revoke, sigs, drawn, issued>>

(* commit_planned_creation, then PendingDelivery::keep.                    *)
CommitCreate(p) ==
    /\ plan[p].op = "create" /\ plan[p].written /\ status[p] = "none"
    /\ status' = [status EXCEPT ![p] = "live"]
    /\ gen' = [gen EXCEPT ![p] = 1]
    /\ key' = [key EXCEPT ![p] = plan[p].key]
    /\ members' = [members EXCEPT ![p] = plan[p].members]
    /\ supers' = [supers EXCEPT ![p] = plan[p].supers]
    /\ sealed' = [sealed EXCEPT ![p] =
                    IF plan[p].self /\ p \in plan[p].members
                    THEN plan[p].key ELSE NoKey]
    /\ tagged' = tagged \union {p}
    /\ plan' = [plan EXCEPT ![p] = NoPlan]
    /\ UNCHANGED <<files, net, tear, revoke, sigs, drawn, issued>>

-----------------------------------------------------------------------------
(* bridge private remove-member: plan, write the envelopes, commit.        *)

(* plan_remove_member's checks: r can be removed by p on p's own store.    *)
CanRemove(p, r) ==
    /\ status[p] = "live"
    /\ p # r
    /\ p \in members[p] /\ sealed[p] # NoKey
    /\ r \in members[p]

(* The parties of p's roster that the new roster (M, S) leaves out.        *)
MutDestroysManagers(p, M, S) == (members[p] \union supers[p]) \ M
MutForgetsNotices(p, M, S) == {}
DroppedParties(p, M, S) == (members[p] \union supers[p]) \ (M \union S)

(* At least two members stay: a new key for them, signed by the old one,   *)
(* and a destroy notice for every party on neither new list.               *)
PlanRotate(p, r, k) ==
    LET M == members[p] \ {r}
        S == SupervisorsFor(M, members[p] \union supers[p])
    IN  /\ p \in Rotators /\ plan[p] = NoPlan /\ MayStart(p)
        /\ CanRemove(p, r)
        /\ Cardinality(M) >= 2
        /\ k \notin drawn
        /\ Draw(k, p, M, key[p], gen[p] + 1)
        /\ plan' = [plan EXCEPT ![p] =
             [op |-> "rotate", written |-> FALSE, expect |-> gen[p],
              key |-> k, members |-> M, supers |-> S, self |-> TRUE,
              packages |->
                PackagesForRoster("rotate", gen[p] + 1, k, M, S, sealed[p])
                \union DestroyPackages(DroppedParties(p, M, S), p, M, S)]]
        /\ UNCHANGED <<rowVars, files, net, tear, revoke, sigs>>

(* Fewer than two stay: a destroy notice for every party.                  *)
PlanDestroy(p, r) ==
    LET M == members[p] \ {r}
        S == SupervisorsFor(M, members[p] \union supers[p])
    IN  /\ p \in Rotators /\ plan[p] = NoPlan /\ MayStart(p)
        /\ CanRemove(p, r)
        /\ Cardinality(M) < 2
        /\ plan' = [plan EXCEPT ![p] =
             [op |-> "destroy", written |-> FALSE, expect |-> gen[p],
              key |-> NoKey, members |-> {}, supers |-> {}, self |-> TRUE,
              packages |->
                DestroyPackages(members[p] \union supers[p], p, M, S)]]
        /\ UNCHANGED <<rowVars, files, net, tear, revoke, sigs, drawn, issued>>

(* UPDATE ... WHERE generation = expected AND destroyed_at IS NULL.        *)
MutNoGenerationGuard(p) == status[p] = "live"
StillAtPlannedGeneration(p) ==
    status[p] = "live" /\ gen[p] = plan[p].expect

(* commit_planned_removal, rotate: persist_rotation replaces generation,   *)
(* key, roster and sealed secret in one transaction.                       *)
CommitRotate(p) ==
    /\ plan[p].op = "rotate" /\ plan[p].written
    /\ StillAtPlannedGeneration(p)
    /\ gen' = [gen EXCEPT ![p] = plan[p].expect + 1]
    /\ key' = [key EXCEPT ![p] = plan[p].key]
    /\ members' = [members EXCEPT ![p] = plan[p].members]
    /\ supers' = [supers EXCEPT ![p] = plan[p].supers]
    /\ sealed' = [sealed EXCEPT ![p] =
                    IF p \in plan[p].members THEN plan[p].key ELSE NoKey]
    /\ plan' = [plan EXCEPT ![p] = NoPlan]
    /\ UNCHANGED <<status, tagged, files, net, tear, revoke, sigs, drawn,
                   issued>>

(* commit_planned_removal, destroy: the roster rows stay.                  *)
CommitDestroy(p) ==
    /\ plan[p].op = "destroy" /\ plan[p].written
    /\ StillAtPlannedGeneration(p)
    /\ status' = [status EXCEPT ![p] = "destroyed"]
    /\ sealed' = [sealed EXCEPT ![p] = NoKey]
    /\ plan' = [plan EXCEPT ![p] = NoPlan]
    /\ UNCHANGED <<gen, key, members, supers, tagged, files, net, tear,
                   revoke, sigs, drawn, issued>>

(* The guard failed, or the database did: PendingDelivery::drop deletes    *)
(* the envelopes this command wrote.                                       *)
MutKeepsFiles(p) ==
    /\ plan[p].op # "none" /\ plan[p].written
    /\ plan' = [plan EXCEPT ![p] = NoPlan]
    /\ UNCHANGED <<rowVars, files, net, tear, revoke, sigs, drawn, issued>>
CommitFails(p) ==
    /\ plan[p].op # "none" /\ plan[p].written
    /\ files' = [files EXCEPT ![p] = @ \ plan[p].packages]
    /\ plan' = [plan EXCEPT ![p] = NoPlan]
    /\ UNCHANGED <<rowVars, net, tear, revoke, sigs, drawn, issued>>

(* The machine goes down: memory is lost, no destructor runs, and the      *)
(* files written so far stay where they are.  A crash in the middle of the *)
(* writes leaves some of them; an envelope that was not written and one    *)
(* that is never imported act alike, so leaving all stands for leaving     *)
(* some, and a crash before the first write is WriteFails.                 *)
Crash(p) ==
    /\ Crashes /\ ~Idle(p)
    /\ plan[p].op # "none" => plan[p].written
    /\ plan' = [plan EXCEPT ![p] = NoPlan]
    /\ tear' = [tear EXCEPT ![p] = NoKey]
    /\ revoke' = [revoke EXCEPT ![p] = NoRevoke]
    /\ UNCHANGED <<rowVars, files, net, sigs, drawn, issued>>

(* No command is writing: the operator hands the directory to a carrier.   *)
MutShipsEarly(p) ==
    /\ files[p] # {}
    /\ net' = net \union files[p]
    /\ files' = [files EXCEPT ![p] = {}]
    /\ UNCHANGED <<rowVars, plan, tear, revoke, sigs, drawn, issued>>
Ship(p) ==
    /\ plan[p] = NoPlan /\ files[p] # {}
    /\ net' = net \union files[p]
    /\ files' = [files EXCEPT ![p] = {}]
    /\ UNCHANGED <<rowVars, plan, tear, revoke, sigs, drawn, issued>>

-----------------------------------------------------------------------------
(* bridge private import: import_package on the recipient's store.         *)

(* An invite, or the unauthenticated generation-1 envelope a supervisor    *)
(* gets in its place.                                                      *)
IsInvite(e) ==
    \/ e.kind = "invite"
    \/ e.kind = "supervisor" /\ e.gen = 1 /\ e.auth = NoKey

(* validate_decoded_recipient: the recipient is on the roster, in its role. *)
RecipientOnRoster(e) ==
    IF e.role = "member" THEN e.to \in e.members ELSE e.to \in e.supers

(* verify_update_auth: signed by the bridge key this store holds.          *)
Authentic(p, e) == e.auth = key[p]

(* replace_roster_and_secret.                                              *)
MutKeepsOldRows(p, e) ==
    /\ gen' = [gen EXCEPT ![p] = e.gen]
    /\ key' = [key EXCEPT ![p] = e.key]
    /\ members' = [members EXCEPT ![p] = @ \union e.members]
    /\ supers' = [supers EXCEPT ![p] = e.supers]
    /\ sealed' = [sealed EXCEPT ![p] =
                    IF e.secret /\ e.role = "member" THEN e.key ELSE NoKey]
AdoptEnvelope(p, e) ==
    /\ gen' = [gen EXCEPT ![p] = e.gen]
    /\ key' = [key EXCEPT ![p] = e.key]
    /\ members' = [members EXCEPT ![p] = e.members]
    /\ supers' = [supers EXCEPT ![p] = e.supers]
    /\ sealed' = [sealed EXCEPT ![p] =
                    IF e.secret /\ e.role = "member" THEN e.key ELSE NoKey]

(* insert_from_invite: refused when the uid is known, destroyed or not.    *)
MutReplaysInvite(p, e) ==
    /\ e.to = p /\ MayStart(p)
    /\ IsInvite(e) /\ RecipientOnRoster(e)
    /\ status[p] # "destroyed"
    /\ status' = [status EXCEPT ![p] = "live"]
    /\ AdoptEnvelope(p, e)
    /\ UNCHANGED <<tagged, plan, files, net, tear, revoke, sigs, drawn, issued>>
ImportInvite(p, e) ==
    /\ e.to = p /\ MayStart(p)
    /\ IsInvite(e) /\ RecipientOnRoster(e)
    /\ status[p] = "none"
    /\ status' = [status EXCEPT ![p] = "live"]
    /\ AdoptEnvelope(p, e)
    /\ UNCHANGED <<tagged, plan, files, net, tear, revoke, sigs, drawn, issued>>

(* apply_rotate: exactly the next generation, signed by the current key.   *)
ImportRotate(p, e) ==
    /\ e.to = p /\ MayStart(p)
    /\ e.kind \in {"rotate", "supervisor"} /\ ~IsInvite(e)
    /\ RecipientOnRoster(e)
    /\ status[p] = "live"
    /\ e.gen = gen[p] + 1
    /\ Authentic(p, e)
    /\ AdoptEnvelope(p, e)
    /\ UNCHANGED <<status, tagged, plan, files, net, tear, revoke, sigs,
                   drawn, issued>>

(* apply_destroy reads the row and checks the signature first ...          *)
VerifyDestroy(p, e) ==
    /\ e.to = p /\ tear[p] = NoKey /\ MayStart(p)
    /\ e.kind = "destroy"
    /\ status[p] = "live"
    /\ Authentic(p, e)
    /\ tear' = [tear EXCEPT ![p] = key[p]]
    /\ UNCHANGED <<rowVars, plan, files, net, revoke, sigs, drawn, issued>>

(* ... and then marks the row, whatever its generation is by now.          *)
ApplyDestroy(p) ==
    /\ tear[p] # NoKey
    /\ status' = [status EXCEPT ![p] = "destroyed"]
    /\ sealed' = [sealed EXCEPT ![p] = NoKey]
    /\ tear' = [tear EXCEPT ![p] = NoKey]
    /\ UNCHANGED <<gen, key, members, supers, tagged, plan, files, net,
                   revoke, sigs, drawn, issued>>

-----------------------------------------------------------------------------
(* revoke: the coordinator-side drop of a label.                           *)

(* drop_member_on_coordinator's writes.  The generation stays; the sealed  *)
(* key of the dropped label goes with its row; `few' is what the read said *)
(* about how many members remain.                                          *)
MutKeepsSealed(p, r, few) ==
    /\ members' = [members EXCEPT ![p] = @ \ {r}]
    /\ supers' = [supers EXCEPT ![p] = @ \ {r}]
    /\ status' = [status EXCEPT ![p] = IF few THEN "destroyed" ELSE @]
    /\ sealed' = [sealed EXCEPT ![p] = IF r = p THEN NoKey ELSE @]
    /\ UNCHANGED <<gen, key, tagged>>
DropRow(p, r, few) ==
    /\ members' = [members EXCEPT ![p] = @ \ {r}]
    /\ supers' = [supers EXCEPT ![p] = @ \ {r}]
    /\ status' = [status EXCEPT ![p] = IF few THEN "destroyed" ELSE @]
    /\ sealed' = [sealed EXCEPT ![p] = IF few \/ r = p THEN NoKey ELSE @]
    /\ UNCHANGED <<gen, key, tagged>>

MutCountsTheDropped(p, r) == Cardinality(members[p]) < 2
TooFewWithout(p, r) == Cardinality(members[p] \ {r}) < 2

(* on_leaf_removed, inside the eviction's transaction; it only finds the   *)
(* bridges created on this store, whose rows carry the tree's key_id.      *)
LeafRemoved(p, r) ==
    /\ p \in Revokers /\ r \in Revocable /\ MayStart(p)
    /\ p \in tagged /\ status[p] = "live" /\ r \in members[p]
    /\ DropRow(p, r, TooFewWithout(p, r))
    /\ UNCHANGED <<plan, files, net, tear, revoke, sigs, drawn, issued>>

(* on_member_revoked reads the roster outside any transaction ...          *)
RevokeRead(p, r) ==
    /\ p \in Revokers /\ r \in Revocable
    /\ revoke[p] = NoRevoke /\ MayStart(p)
    /\ status[p] = "live" /\ r \in members[p]
    /\ revoke' = [revoke EXCEPT ![p] =
                    [label |-> r, few |-> TooFewWithout(p, r)]]
    /\ UNCHANGED <<rowVars, plan, files, net, tear, sigs, drawn, issued>>

(* ... and writes in one.                                                  *)
RevokeApply(p) ==
    /\ revoke[p] # NoRevoke
    /\ DropRow(p, revoke[p].label, revoke[p].few)
    /\ revoke' = [revoke EXCEPT ![p] = NoRevoke]
    /\ UNCHANGED <<plan, files, net, tear, sigs, drawn, issued>>

-----------------------------------------------------------------------------
(* Signing.                                                                *)

(* sign_message: the artifact carries the generation and the salt of the   *)
(* row, and is signed with the unsealed bridge secret.                     *)
MutSignsUnsealed(p) ==
    /\ p \in Signers
    /\ status[p] = "live" /\ p \in members[p]
    /\ sigs' = sigs \union {[signer |-> p, key |-> sealed[p],
                             salt |-> key[p], gen |-> gen[p]]}
    /\ UNCHANGED <<rowVars, plan, files, net, tear, revoke, drawn, issued>>
Sign(p) ==
    /\ p \in Signers
    /\ status[p] = "live" /\ p \in members[p] /\ sealed[p] # NoKey
    /\ sigs' = sigs \union {[signer |-> p, key |-> sealed[p],
                             salt |-> key[p], gen |-> gen[p]]}
    /\ UNCHANGED <<rowVars, plan, files, net, tear, revoke, drawn, issued>>

(* verify_message on store q, by q's own label.                            *)
Verifies(q, a) ==
    /\ status[q] = "live"
    /\ a.gen = gen[q] /\ a.salt = key[q]
    /\ a.signer \in members[q] /\ q \in members[q]
    /\ a.key = key[q]

-----------------------------------------------------------------------------
Create == \E p \in Stores, M, S \in SUBSET Labels, self \in BOOLEAN, k \in Keys :
             PlanCreate(p, M, S, self, k)
Remove == \E p, r \in Labels :
             PlanDestroy(p, r) \/ \E k \in Keys : PlanRotate(p, r, k)
Finish(p) == \/ WritePackages(p) \/ CommitCreate(p) \/ CommitRotate(p)
             \/ CommitDestroy(p)
Abandon(p) == WriteFails(p) \/ CommitFails(p) \/ Crash(p)
Import(p, e) == \/ ImportInvite(p, e) \/ ImportRotate(p, e)
                \/ VerifyDestroy(p, e)
Revoke(p, r) == LeafRemoved(p, r) \/ RevokeRead(p, r)

Next ==
    \/ Create
    \/ Remove
    \/ \E p \in Stores : Finish(p) \/ Abandon(p) \/ Ship(p)
    \/ \E p \in Stores : \E e \in net : Import(p, e)
    \/ \E p \in Stores : ApplyDestroy(p) \/ RevokeApply(p)
    \/ \E p \in Stores, r \in Labels : Revoke(p, r)
    \/ \E p \in Labels : Sign(p)

Spec == Init /\ [][Next]_vars

-----------------------------------------------------------------------------
(* Safety.                                                                 *)

(* The secret a store keeps sealed is the one of the row's current key,    *)
(* the row is live and the local label is a member: no rotation, drop or   *)
(* destruction leaves an older secret behind, and a supervisor has none.   *)
SealedMatchesRow ==
    \A p \in Stores : sealed[p] # NoKey =>
        sealed[p] = key[p] /\ status[p] = "live" /\ p \in members[p]

(* The secret of a key reaches only the labels that key was drawn for, in  *)
(* a store, in an envelope on the way, or as a signature; and the labels   *)
(* of a rotation are strictly fewer than those of the key it replaces.     *)
(* So whoever was removed never holds, nor signs with, any later secret of *)
(* that line, however envelopes are delayed, repeated or interleaved.      *)
RemovedStaysOut ==
    /\ \A p \in Stores : sealed[p] # NoKey =>
          sealed[p] \in drawn /\ p \in issued[sealed[p]].members
    /\ \A e \in net : e.secret =>
          e.key \in drawn /\ e.to \in issued[e.key].members
    /\ \A a \in sigs : a.key \in drawn /\ a.signer \in issued[a.key].members
    /\ \A k \in drawn : issued[k].parent # NoKey =>
          /\ issued[k].parent \in drawn
          /\ issued[k].members \subseteq issued[issued[k].parent].members
          /\ issued[k].members # issued[issued[k].parent].members

(* Stores that hold the same key agree: the generation is the key's, and   *)
(* the roster is the one drawn with it, less what was dropped locally.     *)
RowMatchesKey ==
    \A p \in Stores : status[p] # "none" =>
        /\ key[p] \in drawn
        /\ gen[p] = issued[key[p]].gen
        /\ members[p] \subseteq issued[key[p]].members

(* One step of store p: it starts with a first key, leaves a key only for  *)
(* a rotation of it, and stays destroyed.                                  *)
KeyMoves(p) ==
    /\ status[p] = "none" /\ status'[p] # "none" =>
          issued'[key'[p]].parent = NoKey /\ gen'[p] = 1
    /\ status[p] # "none" /\ key'[p] # key[p] =>
          /\ status[p] = "live" /\ status'[p] = "live"
          /\ issued'[key'[p]].parent = key[p]
          /\ gen'[p] = gen[p] + 1
    /\ status[p] = "destroyed" =>
          status'[p] = "destroyed" /\ sealed'[p] = NoKey

(* A store moves from one key to another only along one authenticated      *)
(* rotation of the key it holds: it never skips a generation, never jumps  *)
(* between concurrent rotations, never falls back, and never leaves the    *)
(* destroyed state, whatever is imported again.                            *)
KeyLineage == [][\A p \in Stores : KeyMoves(p)]_vars

(* What q rejects as a signature of an older generation, it still rejects  *)
(* after the step.                                                         *)
StaysStale(q, x) ==
    status[q] # "none" /\ x.gen < gen[q] => ~Verifies(q, x)'

(* A signature of a generation that a store has left is never accepted     *)
(* there again.                                                            *)
StaleSignatureStaysDead == [][\A q \in Labels, x \in sigs : StaysStale(q, x)]_vars

(* With one label rotating and no revoke or crash, two stores at the same  *)
(* generation hold the same key: the bridge does not fork.                 *)
SameGenerationSameKey ==
    \A p, q \in Stores :
        status[p] = "live" /\ status[q] = "live" /\ gen[p] = gen[q] =>
            key[p] = key[q]

(* A party of the rotating member's current roster is never torn down by a *)
(* destroy notice: not the manager who was removed as a member and stays   *)
(* as a supervisor, and not by a notice of an earlier removal.             *)
StayingPartiesSurvive ==
    \A p \in Rotators : status[p] = "live" =>
        \A q \in members[p] \union supers[p] : status[q] # "destroyed"

(* A bridge that is live has at least two members: README "A two-person    *)
(* bridge is destroyed when one member is removed".                        *)
LiveHasTwoMembers ==
    \A p \in Stores : status[p] = "live" => Cardinality(members[p]) >= 2

(* Envelopes and row land together: once an invite or a rotation left its  *)
(* writer, the writer's store has recorded that generation.  README        *)
(* "Either both land or neither does".                                     *)
BothOrNeither ==
    \A e \in net : e.kind \in {"invite", "rotate"} =>
        LET p == issued[e.key].by
        IN  status[p] # "none" /\ gen[p] >= issued[e.key].gen

-----------------------------------------------------------------------------
(* The inductive invariant behind the safety properties (its proof is in   *)
(* PrivateBridgeProofs).                                                   *)

(* Every key was drawn for a creation, or for a rotation of a drawn key    *)
(* that leaves somebody out.                                               *)
DrawnKeys ==
    \A k \in drawn :
        IF issued[k].parent = NoKey
        THEN issued[k].gen = 1
        ELSE /\ issued[k].parent \in drawn
             /\ issued[k].gen = issued[issued[k].parent].gen + 1
             /\ issued[k].members \subseteq issued[issued[k].parent].members
             /\ issued[k].members # issued[issued[k].parent].members

(* An envelope says of its key what was drawn, is signed by the key that   *)
(* one replaces, and carries the secret to members only.                   *)
GoodEnvelope(e) ==
    /\ e.key \in drawn
    /\ e.kind = "invite" => e.auth = NoKey
    /\ e.kind # "destroy" =>
          /\ e.gen = issued[e.key].gen
          /\ e.auth = issued[e.key].parent
          /\ e.members = issued[e.key].members
    /\ e.secret => e.kind # "destroy" /\ e.to \in issued[e.key].members

GoodEnvelopes ==
    /\ \A e \in net : GoodEnvelope(e)
    /\ \A p \in Stores : \A e \in files[p] \union plan[p].packages :
          GoodEnvelope(e)

(* A plan names a drawn key.  A rotation's row may have moved on since it  *)
(* was planned, and then its generation is a later one: a row that is      *)
(* still at the planned generation still holds the key that was replaced.  *)
GoodPlan(p) ==
    /\ plan[p].op \in {"create", "rotate"} =>
          /\ plan[p].key \in drawn
          /\ plan[p].members = issued[plan[p].key].members
    /\ plan[p].op = "create" =>
          issued[plan[p].key].parent = NoKey
    /\ plan[p].op = "rotate" =>
          /\ status[p] # "none"
          /\ issued[plan[p].key].gen = plan[p].expect + 1
          /\ issued[plan[p].key].parent # NoKey
          /\ gen[p] >= plan[p].expect
          /\ gen[p] = plan[p].expect => key[p] = issued[plan[p].key].parent

GoodRow(p) ==
    /\ IF status[p] = "none"
       THEN sealed[p] = NoKey /\ tear[p] = NoKey /\ revoke[p] = NoRevoke
       ELSE /\ key[p] \in drawn
            /\ gen[p] = issued[key[p]].gen
            /\ members[p] \subseteq issued[key[p]].members
    /\ sealed[p] # NoKey =>
          sealed[p] = key[p] /\ status[p] = "live" /\ p \in members[p]

GoodSignatures ==
    \A a \in sigs : /\ a.key \in drawn
                    /\ a.signer \in issued[a.key].members

IInv ==
    /\ TypeOK
    /\ DrawnKeys
    /\ GoodEnvelopes
    /\ \A p \in Stores : GoodPlan(p)
    /\ \A p \in Stores : GoodRow(p)
    /\ GoodSignatures

-----------------------------------------------------------------------------
(* The abstract bridge this one implements: the line is the history of     *)
(* draws, a store trusts the key of its row.                               *)

Line == [k \in drawn |-> [members |-> issued[k].members, prev |-> issued[k].parent]]
Trusted == [p \in Stores |-> IF status[p] = "none" THEN NoKey ELSE key[p]]
Closed == {p \in Stores : status[p] = "destroyed"}
Signed == {[signer |-> x.signer, key |-> x.key] : x \in sigs}

Abstract == INSTANCE BridgeAbstract WITH
    line <- Line, at <- Trusted, closed <- Closed, holds <- sealed,
    signed <- Signed

(* Every behaviour of stores that exchange envelopes, late, twice, out of  *)
(* order or never, with overlapping and failing commands, is one of        *)
(* BridgeAbstract: keys come in a line of shrinking grants, only who has   *)
(* the secret of a key grants the next, a store follows the line one key   *)
(* at a time, and signs only with what it was granted.                     *)
ImplementsAbstract == Abstract!Spec

-----------------------------------------------------------------------------
(* What the repository says of a revoke, and the code does not guarantee.  *)

(* README "that label is dropped from every live private bridge": nothing  *)
(* adds a member to a bridge, so a live roster never grows back.           *)
DroppedStaysDropped ==
    [][\A p \in Stores : status[p] = "live" =>
           members'[p] \subseteq members[p]]_vars

-----------------------------------------------------------------------------
(* Liveness.                                                               *)

(* Nothing in the code imports or ships by itself: these are the people    *)
(* the README addresses, who let a started command end, hand its envelopes *)
(* over, and import what is addressed to them as long as it is accepted.   *)
Fairness ==
    \A p \in Stores :
        /\ WF_vars(Finish(p) \/ Abandon(p))
        /\ SF_vars(Ship(p))
        /\ WF_vars(\E e \in net : Import(p, e))
        /\ WF_vars(ApplyDestroy(p))

FairSpec == Spec /\ Fairness

(* Everyone on p's roster is live on p's key, and nobody else is, but for  *)
(* a coordinator's row that does not name its own store: no envelope is    *)
(* ever addressed to that one.                                             *)
Agrees(p) ==
    \A q \in Labels :
        IF status[p] = "live" /\ q \in members[p] \union supers[p]
        THEN status[q] = "live" /\ key[q] = key[p]
        ELSE status[q] = "live" => q \notin members[q] \union supers[q]

(* With one label rotating, and no revoke or crash, the stores settle on   *)
(* that label's last key: every party follows, in spite of reordered and   *)
(* repeated envelopes and of commands that failed and were run again, and  *)
(* every label that was dropped from the roster stops tracking the bridge. *)
Convergence ==
    <>[](\A p \in Rotators : status[p] # "none" => Agrees(p))

=============================================================================
