# A TLA+ model of KeyQuorum

KeyQuorum splits secrets over hardware keys, keeps the resulting trees in
personal SQLite stores, lets groups of people share a signing key (a *private
sign bridge*), and synchronises the public part of a tree through a hosted
relay. There is no central authority for any of this: each person has a store,
each command is a process that reads, prompts, and commits later, and stores
learn of each other's changes only through files and pulls that may be late,
repeated, reordered or lost. That is what these modules are about.

Paths below are relative to the repository (`src/...` there).

## 1. The system

| Component | State | Operations | Hard part | Correct when |
|---|---|---|---|---|
| private sign bridges (`private_bridge.rs`) | per store: row (generation, public key, salt, destroyed_at), roster with roles, secret sealed to the local label | create, remove-member (rotate or destroy), import of four envelope kinds, revoke hooks, sign, verify | every store is a replica without a leader; envelopes come in any order; two members may rotate at once; a command plans, writes files, then commits | secrets reach only those they were drawn for; a store follows one line of keys; old signatures stay dead; everyone settles on one key |
| envelope delivery (`main.rs`) | `.kqpb` files in a directory, the plan in memory | write, commit, keep, clean up | failing writes and commits, killed processes | envelopes and row land together |
| key tree (`key_tree.rs`, `pss.rs`) | `key_nodes` with sealed Shamir shares, hardware keys, revocations | split, reconstruct, add, revoke [--evict], bind to a new key | shares are gathered one by one before the transaction; shares of different polynomials do not mix | qualified sets, and only those, reconstruct; evicted shares are useless |
| pairings (`key_tree.rs`) | whitelist `key_node_bridges`, established `key_node_links` | allow, deny, add, remove, bind --peer | several statements without a transaction | pairings of those who stay survive |
| public tree (`relay/org_tree.rs`, `key_tree.rs`) | relay: one JSON document and generation per tree; stores: `public_generation` and rows | relay push (merge), tree publish (replace), relay pull / tree fetch (slice, apply) | stale senders, overtaken answers, partial copies | slices stand on their own; a reader holds one generation; merges leave alone what the sender does not hold |
| relay mailbox (`relay/mailbox.rs`) | envelopes by recipient, in order of arrival | push, pull in pages, to files or with --import | lost, repeated and late requests; pages while others push | nothing is skipped, everything arrives |
| relay API keys (`relay/api_key.rs`, `host.rs`), credentials (`db/relay_credential.rs`) | licensee issuer, hashed keys with scope, binding, expiry; one kept key per relay and scope in a store | bootstrap, create, rotate, revoke, keycheck, authenticate, loadkey | several host processes; check, then use | one issuer; one live key per grant; a dead key admits nobody, a live one is not thrown away |
| PIN gate (`pin.rs`), share links (`sharing.rs`) | attempt counter, lock, window; uses, expiry | set, verify, relock; create, redeem, revoke | every statement by itself; prompts in between | limits hold; no token without its PIN |
| locked files (`locked_files.rs`, `quorum.rs`), vault (`vault.rs`) | a row and a ciphertext file; rows | lock, unlock, add, get | file and row in two steps | no file without row, no row without its file |
| export bundles, crypto | | seal, open | I/O | out of scope, see section 8 |

Interactions: `revoke` drops pairings, evicts the leaf (key tree), drops the
label from private bridges, and marks the key, in four transactions. `relay
push` carries bridge envelopes and the sender's public tree in one request; `relay
pull` applies slices, then imports envelopes. Node labels of the tree are the
party labels of bridges, and a label's parent is an implied supervisor.

## 2. Modules

| Module | Models | Extends |
|---|---|---|
| `PrivateBridge` | one bridge over all stores, with delivery, crashes, revoke and signatures | |
| `MCPrivateBridge` | manager `s`, employees `a`, `b` of the department, and `c` without a parent | `PrivateBridge` |
| `PrivateBridgeProofs` | theorems about `PrivateBridge` | `PrivateBridge`, `TLAPS` |
| `BridgeDeliveryProofs` | theorems about `PrivateBridge` that need a restriction on its commands | `PrivateBridgeProofs` |
| `KeyTree` | one tree in one store and the commands at work on it | |
| `KeyTreeProofs` | theorems about `KeyTree` | `KeyTree`, `TLAPS` |
| `MCKeyTree` | root 2-of-2 over a department (2 of 4, 5, 6; 7 may join) and leaf 3 | `KeyTree` |
| `OrgSync` | one public tree: the relay's document, the stores, requests and answers between them | |
| `MCOrgSync` | the tree of the repository's README, an operator and a member | `OrgSync` |
| `OrgSyncProofs` | theorems about `OrgSync` | `OrgSync`, `TLAPS` |
| `BridgeAbstract` | what a private bridge promises: a line of keys, who is granted each, who trusts which | |
| `BridgeRefinement` | `PrivateBridge` implements `BridgeAbstract` | `PrivateBridgeProofs` |
| `Mailbox` | envelopes through the relay, from a directory of the sender to the reader's store | |
| `MCMailbox` | two senders, two readers, two bridges | `Mailbox` |
| `MailboxAbstract` | what the mailbox promises: a log of envelopes, a queue over it for each reader, stores that move by one | |
| `MailboxProofs` | theorems about `Mailbox`, and that it implements `MailboxAbstract` | `Mailbox`, `TLAPS` |
| `RelayKeys` | issuer and API keys of one relay, its host commands, and clients with stores that keep keys | |
| `MCRelayKeys` | two host commands, two processes on one store | `RelayKeys` |
| `RelayKeysProofs` | theorems about `RelayKeys` | `RelayKeys`, `TLAPS` |
| `Access` | PIN gate, share links, vault, password- and quorum-locked files of one store | |
| `MCAccess` | two commands at a time | `Access` |
| `AccessProofs` | theorems about `Access` | `Access`, `TLAPS` |

The models share no variables. They meet at interfaces: `OrgSync` and `Mailbox`
model the two halves of one request, `RelayKeys` decides whether a request is
served at all, `Mailbox` delivers what `PrivateBridge` lets arrive in any order,
and `Access` takes the tree that a quorum lock builds from `KeyTree`.
`PROJECT.json` maps each definition to its lines.

### PrivateBridge

A store's row is `status`, `gen`, `key`, `members`, `supers`, `sealed`,
`tagged`. One `Keys` element is one draw of secret, public key and salt. `net`
is the set of envelopes that ever left their writer and never shrinks, so any
envelope can be imported at any time and again. `plan`, `files`, `tear` and
`revoke` are commands between their steps:

* `create` and `remove-member` are `PlanCreate` / `PlanRotate` / `PlanDestroy`
  (read), `WritePackages` (files), `CommitCreate` / `CommitRotate` /
  `CommitDestroy` (transaction, guarded by the planned generation), and then
  `Ship`. `WriteFails`, `CommitFails` clean up as `PendingDelivery` does; `Crash`
  does not.
* `ImportInvite`, `ImportRotate`, `VerifyDestroy` + `ApplyDestroy` are
  `import_package`; a destroy notice is verified before its transaction.
* `LeafRemoved` is the hook inside an eviction's transaction; `RevokeRead` +
  `RevokeApply` is the other hook, which counts members before its transaction.

`drawn`, `issued` are history: for each key who drew it, for whom, after which.

`BridgeAbstract` forgets plans, files, envelopes, rosters and generations. Its
state is the line of keys with the members each was granted to, the key each
store trusts (`at`), those for whom the bridge is over (`closed`), the secret a
store holds, and what was signed with which key. A key is granted only by
somebody who holds the secret of the one it follows, to a proper part of its
members, at least two; a store moves only along the line, holds a secret only if
the key was granted to its label, and signs only with what it holds. The mapping
(`Line`, `Trusted`, `Closed`, `Signed` in `PrivateBridge`) takes the line from
`drawn` and the rest from the rows.

### KeyTree

A share is `[split, deal, value, deltas, x]`: a point of a polynomial named by
its deal and the zero polynomials added since. Interpolating shares of one
polynomial gives its value, any mixture gives noise; this is the only thing
assumed of Shamir and of the refresh. A command is a process `cmd[p]`: `Begin`,
`Collect` per leaf (from the store, or from a raw file kept from earlier), then
its commit. `revoke` is `StartRevoke`, `DropBindings`, `CommitEvict`,
`RevokeKey`, in the order of `apply_hardware_revoke`; `Fail` ends a command
anywhere. `seen` and `mixed` are history.

`reconstruct_node` and `reconstruct_up_to_root` are the recursive functions
`Reconstruct` and `ReconstructVia`; one step of each is an operator (`Resolve`,
`Climb`), so that a proof can speak of the assignments of values to nodes that
satisfy the code's recursion. What they are measured against, `Quorums`, is read
off the thresholds alone: the least set of splits that is closed under "has its
quorum".

### OrgSync

A tree is `[gen, nodes, white, links]`. `StartPush` / `StartPublish` export the
store; `PostInbox` merges (`Valid`, `Merge`, `Persist`), `PutTree` replaces;
`GetSlice` answers a pull with `Slice(doc, fp)`, and `Pull` applies it. Requests
and answers are separate steps, so edits, pushes and other pulls come in
between; `PushFails`, `PullFails` lose or refuse them; `PushTimesOut` leaves a
request with the relay, which `LateRequest` executes at any later time; with two
pulls one answer can overtake another. `sealed` has, for each leaf whose share a
store keeps, the key it is sealed to. Operators' tree commands appear by their effect on
rows. `log` is history.

The loop of `visible_from_maps` and the climbs of `walk_ancestors` only ever add,
and stop when there is nothing to add. They are modelled by what they stop at:
`VisibleFrom` follows the least set of links that leaves none to follow, and
`Lineage` is the least set closed under `Parent`. That is a definition without
recursion, which a proof can use for trees of any size.

### Mailbox

An envelope is `[to, bridge, gen]`; a store imports exactly the next generation
of a bridge, which is what `import_package` does. `push` is the file a sender
waits for; the first failure ends a command, and the next one starts over
(`StartPush`). `PushTimesOut` and `LatePost` are the relay going on without its
client. `pull` is the rest of a page, as the set of its row ids: the command
takes the least next; `WriteFile` refuses a file that exists, as
`write_owner_only` does. People who pull to files go on after the cursor that
was printed or the last file they have; `--import` is run as the repository's
README shows it.

`MailboxAbstract` knows no requests, pages or cursors. Under the refinement
mapping its log is the table and a reader's place in it the last file of the
output directory. A stored row is `Accept`, a written file `Receive` of the first
row for that reader behind its place, an import `Apply` of the next generation;
everything else is invisible. An import may overtake `Receive`, since
`relay pull --import` needs no file.

### RelayKeys

`keys` is the table, a row its bearer. The host commands interleave between the
count and the insert of the issuer and its print; create and rotate are one
statement and one transaction. `cmd[p]` is the command of client process `p` on
its store `Db[p]`: keycheck, then keep or delete, then send. `Overlap` says
whether two processes may work on one store at a time; nothing in the code
prevents it. The DELETE after a dead answer names relay and scope, so
`DeleteStored` clears whichever key is there by then. A TTL may be negative: the
key is born expired. The relay authenticates, then works (`Authenticate`,
`Serve`), with its connection locked against other handlers but not against
commands on the host. `root` and `dead` are history: the first key of a line of
rotations, and whether the key was dead when the request went out.

### Access

A process may be interrupted between any two statements and at each prompt, and
killed (`Kill`). Locking is `WriteCiphertext`, then `InsertRow` or
`InsertFails`; `--pin` and a share's PIN are set after the row (`SetPin`,
`PinRefused`), and only then a share's token is printed. The gate is `Ask`
(`verification_required`) and `VerifyPin`, whose mismatch goes on with
`CountAttempt`, `CheckAttempts`, `LockPin` and whose match with `AcceptPin`.
`wrong`, `lost` and `shut` are history.

## 3. Runs

Deadlock checking is off in all runs: the bounds, not the code, end behaviours
(no key left to draw, no edit or generation left).

| Run | Distinct states | Shows |
|---|---|---|
| `bridge_fork` | 139 204 | their manager creates the bridge, two members rotate concurrently and a third is revoked, with interleaved commands per store: `SealedMatchesRow`, `RemovedStaysOut`, `RowMatchesKey`, `KeyLineage`, and the refinement `ImplementsAbstract` |
| `bridge_crash` | 287 540 | killed commands, stray envelopes, signatures: `TypeOK`, `LiveHasTwoMembers`, `StaleSignatureStaysDead` |
| `bridge_converge` | 43 783 | one rotating member, failing writes and commits: `SameGenerationSameKey`, `StayingPartiesSurvive`, `BothOrNeither`, and the liveness property `Convergence` |
| `keytree_ops` | 122 064 | adds, evictions, rebinds, revokes, pairings, stale raw shares: `TypeOK`, `QuorumReconstructs`, `PathAgrees`, `SecretStaysReachable`, `EvictedShareUseless`, `SurvivorPairsStay` |
| `org_sync` | 781 423 | operator and member push, publish and pull around each other, one request late: `TypeOK`, `SlicesApply`, `ReaderHoldsOneGeneration`, `MergeStaysValid`, `ShareFitsKey`, `OthersStayInPlace` |
| `access` | 2 947 432 | two commands lock, add, share, guess and redeem: `TypeOK`, `GuessesBounded`, `LockedStaysShut`, `TokenGated`, `CiphertextKept`, `NoUntrackedFile`, `RedeemedByRight` |
| `relay_keys` | 3 078 636 | two host commands and two processes that take turns on a store, with keys that expire: `TypeOK`, `IssuerKept`, `RotationKeepsGrant`, `CheckAgreesWithUse`, `DeadKeyNotServed`, `LiveCredentialKept` |
| `mailbox` | 62 844 | pushes and pulls that fail, repeat and come late: `PagesComplete`, that they implement `MailboxAbstract` (`ImplementsQueue`), and the liveness property `EnvelopesArrive` |

Bounds, and why they are enough to be interesting:

* Three keys allow a creation and two rotations: two concurrent ones (a fork),
  or two in a row (an envelope overtaken). Four labels allow a manager who is
  both parent and member, and rosters that shrink to two. `bridge_crash` has
  two keys and three labels since a killed command doubles every step. Keys are
  interchangeable, so `bridge_fork` and `bridge_crash` use them as a symmetry
  set; `bridge_converge` checks liveness and does not.
* `MaxDraws` = 2 allows an eviction and an add in either order, or two
  evictions, with one split over leaves and one over a split and a leaf.
* `MaxEdits` = 2, `MaxGen` = 2, `MaxLate` = 1, both stores pulling: a pairing or a
  rebind, a push that overtakes an earlier one, a publish, and answers in the
  wrong order.
* `access`: two commands are what it takes to pass a limit together, with
  `MaxAttempts` = 2 so that the limit is reached by one as well; a row and its
  share, a PIN, one kill, one replaced PIN and one tick of the clock.
* `relay_keys`: three rows allow two rotations of one key or of two, with one
  tick from live to expired (a key born expired, from a negative TTL, is like
  one that has expired; the model and the proofs have it, the run does not).
  Host commands, and the clients of the store, are symmetry sets.
* `mailbox`: pages of one row, so that every second row is on a next page, and
  two bridges of which one has two updates.

`LiveHasTwoMembers`, `BothOrNeither` and `LiveCredentialKept` hold under restrictions, and these are part
of the result. The first needs one command at a time per store: `revoke` counts
the remaining members before its transaction, and a removal that commits in
between leaves a live bridge with one member. The second needs commands that end
by themselves: `PendingDelivery` cleans up in a destructor, and a killed process
leaves envelopes of a generation that its store never recorded. The third needs
one command at a time per store (`Overlap` = FALSE), which the code does not
enforce. With `Overlap` = TRUE, one host command and two keys TLC finds it violated: a
relay command reads a stored key and is told that it is dead, `loadkey` of a second
process stores the replacement, and the first one's DELETE
(`relay_credential.rs:148`), by relay and scope and not by the hash that was
checked, takes the replacement away. The other properties of `RelayKeys` hold
with overlapping commands: they are proved without a hypothesis, and the inductive
invariant was also checked with two host commands, two overlapping clients, two
keys and TTLs of 1 and -1 (1 948 060 states).

What the runs do not state as a property, but the models show: a member whose
own store ran the revoke can no longer rotate the departed label out; revoking a
manager drops the row that names the direct parent of members who stay; after
two revokes without `--evict` under one parent neither leaf can be evicted; a
member's push of a slice pulled earlier makes an evicted leaf active again in
the relay's document, since for nodes the sender holds its word counts; a pull
between a local rebind and its push puts the old key back and erases the share;
a row that was to have a PIN stays without one when the PIN is refused; a killed
lock leaves a ciphertext at a path that `create_new` then refuses.

Every property has a mutant: a plausible bug in a mapped definition (`Mut...`,
defined just before it) under which TLC finds the property violated.

## 4. Findings

Runs that end in a violation, each of one sentence of the repository:

* `bridge_readmit` - "that label is dropped from every live private bridge"
  (README.md): a rotation planned elsewhere puts it back.
* `keytree_rebind` - "The share bytes ... stay the same" (`rebind_leaf`): read
  and update are not one transaction, and an eviction in between is undone for
  that leaf, which no longer fits its siblings.
* `org_push` - "`relay push` also uploads every public tree in `--db`"
  (README.md): a whitelist row whose peer left the slice is kept by
  `apply_public_tree`, exported, and refused by the relay. Removing one pairing
  stops the other side from pushing anything.
* `mailbox_again` - "recover a missed update by pulling again and importing"
  (README.md): `relay pull --import` ends at the first envelope that was
  imported already, and never gets to the missed one.

## 5. Fairness

`bridge_converge`, `mailbox` and `mailbox_again` use fairness. No part of the code runs by
itself; the assumption is on the people the README addresses. A started command
ends (`WF` of finish or abandon), an envelope that lies in the output directory
of a finished command is eventually handed over (`SF` of `Ship`: another command
may interrupt it), an import that stays possible is eventually run (`WF`), and
an import that has verified a destroy notice applies it (`WF`). Nothing is
assumed about creating, removing or retrying. `Convergence` is stated for one
rotating member without revokes: with two the code promises no convergence, and
`bridge_fork` shows what it does promise.

In `Mailbox` people push again (`WF` of `StartPush`) and pull again to files (`SF`
of `PullFiles`, which a running pull disables), a request that is tried again and
again is not lost every time (`SF` of each `PostInbox`), nor does a pull die
every time before it writes a file (`SF` of `WriteFile`); a pull goes on or dies,
and a file whose update is next gets imported (`WF`). Without the last two
`SF`s a reader whose every command is killed would refute the property, and the
code cannot help that. `ImportSpec`, for `mailbox_again`, adds that people run
`relay pull --import` again and that its imports are not killed every time; the
property fails all the same.

## 6. Proofs

`PrivateBridgeProofs` proves, for any labels, parents, desks, keys, with
overlapping and killed commands (the constants are only assumed to be of their
kinds, `BridgeAssumption`):

| Theorem | States |
|---|---|
| `Invariance` | `Spec => []IInv` |
| `TypeCorrect` | `Spec => []TypeOK` |
| `SecretCurrent` | `Spec => []SealedMatchesRow` |
| `Exclusion` | `Spec => []RemovedStaysOut` |
| `RowsAgree` | `Spec => []RowMatchesKey` |
| `Lineage` | `Spec => KeyLineage` |
| `StaleSignatures` | `Spec => StaleSignatureStaysDead` |

None of the safety properties is inductive. A row can be trusted only if the
envelope it came from could, so `IInv` adds `GoodEnvelopes`: in a directory, in
a plan or on its way, an envelope says of its key what was drawn with it, and is
authenticated by the key it replaces. A commit can be trusted only if the plan
still fits the row: `GoodPlan` says that while a row is at the planned
generation it still holds the key that the plan replaces, which is exactly what
the generation guard of `commit_planned_removal` relies on. `DrawnKeys` makes keys
a forest along which generations grow by one and rosters shrink, so a store that
only moves from parent to child never returns to a generation, and an old
signature never verifies again; `GoodRow` and `GoodSignatures` tie rows, sealed
secrets and signatures to that forest. The proof has one lemma per action group
(`PlanCreateStep`, `PlanRotateStep`, ..., `DropStep`), over lemmas for what a
step leaves alone (`EnvelopesKept`, `PlanKept`, `RowKept`, `SignaturesKept`).

`BridgeDeliveryProofs` proves the properties that the code does not guarantee
without a restriction, each with the restriction as its hypothesis:

| Theorem | States |
|---|---|
| `TwoMembers` | `~Overlap => (Spec => []LiveHasTwoMembers)` |
| `LandTogether` | `~Crashes => (Spec => []BothOrNeither)` |
| `NoFork` | `~Crashes /\ OneRotator => (Spec => []SameGenerationSameKey)` |
| `StayersSurvive` | `~Crashes /\ OneRotator /\ Revokers = {} => (Spec => []StayingPartiesSurvive)` |

`OneRotator` says that `Rotators` has at most one label. `bridge_crash` satisfies
the first hypothesis, `bridge_converge` all four. TLC finds a counterexample to
each property as soon as one conjunct of its hypothesis is dropped, so none
could be left out. What a theorem does not name is free: crashes in the first,
overlapping commands in the other three, several rotating labels and revokes in
the second, revokes in the third.

The invariants, on top of `IInv`: `EnoughMembers` says that a revoke between its read
and its write is alone on its store, so the count it read still holds.
`Delivery` speaks of the envelopes that no running command would delete again
(`Kept`): a key is published by a commit and by nothing else (`PublishedMoves`),
in the step that also records it (`CommitRecords`), and rows never go back
(`RowMoves`). A published key of a generation therefore means that the store that drew
it has left the generation before, and its guarded commit cannot publish a
second one (`CommitAlone`, for `OneKeyPerGeneration`). For the same reason the
rotating label never has a rotation to import (`RosterMoves`), so its roster
changes by its own commits only and shrinks; `LeaversLeft` says that whoever is
destroyed, or may still receive a notice, is off it.

`BridgeRefinement` proves `Refinement`: `Spec => ImplementsAbstract`. From `IInv`, the
initial states map to the initial state, a commit of a creation or a rotation
does not touch the line (the plan drew the key), the plan does, and an import
maps to `Move`; drops, destructions and revokes map to `Forget`. The step that
needs the invariant most is a rotation's plan: the planner holds the current
secret and shrinks the roster of a row that may have been dropped from locally,
so that the new members are a proper part of those the key was granted to.

`RelayKeysProofs` proves, for any host commands, clients, stores, scopes, bindings
and bounds (`RelayKeysAssumption` says only of what kind they are):

| Theorem | States |
|---|---|
| `Inductive` | `Spec => []IInv` |
| `TypeCorrect` | `Spec => []TypeOK` |
| `IssuerSafe` | `Spec => []IssuerKept` |
| `RotationSafe` | `Spec => []RotationKeepsGrant` |
| `CheckSafe` | `Spec => []CheckAgreesWithUse` |
| `DeadKeySafe` | `Spec => []DeadKeyNotServed` |
| `DeadAnswerFirst` | `Spec => DeletedAfterDeadAnswer` |
| `LiveSafe` | `~Overlap => (Spec => LiveCredentialKept)` |

Here `IInv` adds `PrintsIssuer` (who is about to print a token inserted it),
`RootsExist` (a new key begins a new line, so it shares a grant with nobody),
`DeadStaysDead` (a dead key is not revived while its request is under way),
`DeletesDead` (a command about to delete was told that the key it read is dead)
and `ChecksStored` (if commands do not overlap, at most one client of a store is
at work, and the key it checks is still the one that is kept).
`DeletedAfterDeadAnswer`, which holds whatever overlaps, says that a key is
deleted only by a command that was told that a key of that store and scope is
dead; `LiveSafe` adds that it is the same key, which needs its hypothesis, as
section 3 shows. Two lemmas carry the proof: `NextTable`, that a step
leaves the table, revokes a row, appends a fresh one or rotates, and `Monotone`,
that rows never change but to become revoked and time does not go back. Then
one lemma per step of a client's command.

`AccessProofs` proves, for any rows, paths, commands, limits and clock bounds:

| Theorem | States |
|---|---|
| `Inductive` | `Spec => []IInv` |
| `TypeCorrect` | `Spec => []TypeOK` |
| `GuessesSafe` | `Spec => []GuessesBounded` |
| `LockSafe` | `Spec => []LockedStaysShut` |
| `TokenSafe` | `Spec => []TokenGated` |
| `CiphertextSafe` | `Spec => []CiphertextKept` |
| `UntrackedSafe` | `Spec => []NoUntrackedFile` |
| `RedeemSafe` | `Spec => RedeemedByRight` |

`verify_pin` is five statements without a transaction, so the counter in the row
lags behind the guesses. The invariant counts them: the wrong guesses since the
last reset are the recorded attempts, and one for each command that has compared
and not yet counted, and one for each that was killed there. For files
`TagsTellApart` says that what was written once, because `create_new` never writes
over a file, is in one place: no two rows, two commands before their insert, or
two paths carry the same write.

`MailboxProofs` proves, for any people, directories, page size and mode of
pulling:

| Theorem | States |
|---|---|
| `Inductive` | `Spec => []IInv` |
| `TypeCorrect` | `Spec => []TypeOK` |
| `PagesSafe` | `Spec => []PagesComplete` |
| `QueueRefinement` | `Spec => ImplementsQueue` |
| `OnceAndWhole` | `Spec => [](RowsOnce /\ LineWhole)` |

The invariant relates the three places a reader's position may be in: the files
there are (`FilesEnd`, and `PagesComplete`: all rows for the reader up to the last
file), the page at work (`PageGoesOn`: what is left of it begins where the files
end and has no gap) and the printed cursor (`CursorIsLast`). Rows are only
appended, so a page that was complete stays so. `PageGoesOn` is also what the
refinement rests on: the least row of what is left is the next one of the
reader's queue. `OnceAndWhole` follows from the steps of the abstract
specification alone (`QueueKeeps`): no envelope has two rows, and every
generation a store went through was a row for that reader, without a gap.

`OrgSyncProofs` proves, for any tree, stores, fingerprints, pairings and
requests in flight (`OrgAssumption`: the parents form a tree):

| Theorem | States |
|---|---|
| `Inductive` | `Spec => []IInv` |
| `TypeCorrect` | `Spec => []TypeOK` |
| `ShareSafe` | `Spec => []ShareFitsKey` |
| `ReaderSafe` | `Spec => []ReaderHoldsOneGeneration` |
| `SlicesSafe` | `Spec => []SlicesApply` |
| `MergeSafe` | `Spec => []MergeStaysValid` |
| `OthersSafe` | `Spec => OthersStayInPlace` |

Two lemmas about the operators carry it: a slice of a valid document is valid
(`SliceValid`: what is visible is closed under parents, and a whitelist row that
covers a link is visible with it), and the merge of a valid request into a valid
document is valid (`MergeValid`). `IInv` adds that every document there ever was
is valid (`DocumentValid`, `LogNumbered`) and that an answer under way is a
slice of one of them (`AnswersAreSlices`).

`KeyTreeProofs` proves, for any tree, keys, processes and number of polynomials
(`TreeAssumption`: parents and children form a finite tree without a cycle, each
split with a threshold that its first children meet):

| Theorem | States |
|---|---|
| `Inductive` | `Spec => []IInv` |
| `TypeCorrect` | `Spec => []TypeOK` |
| `SecretSafe` | `Spec => []SecretStaysReachable` |
| `EvictedSafe` | `Serial => (Spec => []EvictedShareUseless)` |
| `PairsSafe` | `Serial => (Spec => SurvivorPairsStay)` |
| `QuorumSafe` | `Serial => (Spec => []QuorumReconstructs)` |
| `PathSafe` | `Serial => (Spec => []PathAgrees)` |

`Serial` says that `bind` is not used, or that there is one process. It is what
the finding `keytree_rebind` leaves of these properties: a rebind that reads, is
overtaken by an eviction and writes puts a share of the old polynomial back into
a row. Everything else may run concurrently, with shares from raw files of any
age. `keytree_ops` satisfies it with one process that rebinds; `IInv` was also
checked for two processes without rebinds (119 064 states), and its part outside
`Serial` for two processes with them (11 024 496 states).

In `IInv`, `SharesKnown` says that every share in a row or in the hands of a
command was once sealed for that leaf and is made of polynomials already drawn.
So a refresh or a deal, whose polynomial is new, cannot lie on an evicted share;
that gives `EvictedShareUseless`. `OneDeal` says that the active leaves of a split hold
distinct points of one polynomial, unless a commit took in a mixture, and
`UpperSplitsFixed` that under a split over splits nothing is ever dealt again,
as `add` and `evict` refuse it; so the values of splits, which are shares of the
first deal, still fit their sibling leaves.

What reconstruction computes is proved without induction over the tree. `Value(S)`
names the result: a leaf's own share if it is in S, and the secret for the
splits in `Quorums(S)`. `ReconstructValue` shows that it satisfies the code's
recursion, and `ReconstructIs` that the recursion has one solution: of the
splits where two solutions differ, take one with no such split below it, and
there they agree after all. `ViaValue` does the same for the climb to the root,
with the least set of nodes on the way that get a value.

Every safety and action property that a passing run checks is stated by a
theorem. Only model-checked: liveness (`Convergence`, `EnvelopesArrive`), which
is out of the prover's reach.

## 7. Plan

1. `RevokeWorkflow`: `apply_hardware_revoke` over `KeyTree` and `PrivateBridge`,
   ended between any two of its transactions.
2. Two trees with one label in `OrgSync`.

## 8. Not modelled

Byte formats of envelopes, artifacts, bundles, tree specifications and key
files; the AEAD, Shamir field arithmetic, password derivation and signatures
(ideal); export bundles (a row is read, a new file is written; these commands do
not ask for the PIN); the audit rows `unlock_events` and `bridge_events`;
registration of hardware keys, but for the keys that trees use; migrations; the
choice among several relay URLs; HTTP limits and TLS rules; `project_local`,
which no command calls; a pull with both `--output-dir` and `--import` (`Mailbox` has
them as two ways of pulling); two trees with one label. Each is listed with its reason
in `PROJECT.json`, and the hazards there that no property covers say why.
