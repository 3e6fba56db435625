------------------------------- MODULE Access -------------------------------
(***************************************************************************)
(* What a personal store keeps behind a password, a quorum, a PIN or a     *)
(* share link: vault credentials (src/vault.rs), password-locked files     *)
(* (src/locked_files.rs), quorum-locked files (src/quorum.rs), share links *)
(* (src/sharing.rs), and the PIN gate in front of them (src/pin.rs), as    *)
(* the commands of src/bin/keyquorum/main.rs run them.                     *)
(*                                                                         *)
(* A command is a process that may be interrupted between any two SQL      *)
(* statements or file operations, since none of these commands opens a     *)
(* transaction around them, and while it waits at a prompt.                *)
(*                                                                         *)
(* Abstractions:                                                           *)
(*   - one id space for the rows of all tables, and one name for the       *)
(*     password or quorum that protects a row: whoever gets to that step   *)
(*     has it, so that only the gate and the files are told apart;         *)
(*   - a PIN that is typed is the right one or not; a ciphertext is the    *)
(*     number of the lock command that wrote it;                           *)
(*   - time is a counter that advances by its own action;                  *)
(*   - a user deletes files that rows refer to, and no others.             *)
(***************************************************************************)
EXTENDS Naturals, Sequences, FiniteSets

CONSTANTS
    Procs,        \* commands that may run at the same time
    Paths,        \* values of --encrypted-path
    Limits,       \* values of --max-uses, 0 for none
    MaxAttempts,  \* MAX_ATTEMPTS of pin.rs
    Ttl,          \* seconds that a PIN window or a share lasts
    Kinds,        \* the tables that commands write in this instance
    MaxRows, MaxPins, MaxWrites, MaxTime, MaxKills, MaxResets   \* bounds

AllKinds == {"credential", "file", "quorum", "share"}

ASSUME AccessAssumption ==
    /\ IsFiniteSet(Procs) /\ Limits \subseteq Nat
    /\ MaxAttempts \in Nat \ {0} /\ Ttl \in Nat \ {0}
    /\ Kinds \subseteq AllKinds
    /\ MaxRows \in Nat /\ MaxPins \in Nat /\ MaxWrites \in Nat
    /\ MaxTime \in Nat /\ MaxKills \in Nat /\ MaxResets \in Nat

VARIABLES
    now,
    disk,    \* path -> the ciphertext there, 0 for no file
    rows,    \* credentials, password_locked_files, files and *_shares
    pins,    \* id -> its row of pins, for the ids that have one
    tokens,  \* shares whose token was handed out
    cmd,     \* process -> the command it runs
    wrong,   \* id -> wrong PINs judged since the counter was last reset
    lost,    \* ciphertexts whose command was killed, or whose file a user deleted
    count    \* ciphertexts written, commands killed, PINs replaced so far

vars == <<now, disk, rows, pins, tokens, cmd, wrong, lost, count>>

Ids == 1..Len(rows)
Idle == [pc |-> "idle"]

Row(kind, path, tag, asked, limit) ==
    [kind |-> kind, path |-> path, tag |-> tag, asked |-> asked,
     limit |-> limit, uses |-> 0, expires |-> now + Ttl, revoked |-> FALSE]

RowRecords ==
    [kind: AllKinds, path: Paths \union {"none"}, tag: Nat, asked: BOOLEAN,
     limit: Nat, uses: Nat, expires: Nat, revoked: BOOLEAN]
PinRows == [every: BOOLEAN, attempts: Nat, locked: BOOLEAN, until: Nat]

(* A command between its statements: about to insert the row of a file it  *)
(* wrote, at the prompt for a new PIN, or between the gate and the use of  *)
(* a row.                                                                  *)
Inserting == [pc: {"insert"}, kind: {"file", "quorum"}, path: Paths, tag: Nat,
              asked: BOOLEAN]
Prompting == [pc: {"setpin"}, id: Nat, every: BOOLEAN]
AtGate == [pc: {"verify", "bump", "count", "lock", "accept", "use"}, id: Nat,
           how: {"pin", "window", "open"}, every: BOOLEAN, shut: BOOLEAN]

(* Rows, PINs and commands have their shapes; a command past the gate, or  *)
(* at a statement of verify_pin, is about a row that exists.               *)
TypeOK ==
    /\ now \in 0..MaxTime
    /\ disk \in [Paths -> 0..MaxWrites]
    /\ rows \in Seq(RowRecords) /\ Len(rows) <= MaxRows
    /\ pins \in [DOMAIN pins -> PinRows] /\ DOMAIN pins \subseteq Ids
    /\ tokens \subseteq {i \in Ids : rows[i].kind = "share"}
    /\ cmd \in [Procs -> {Idle} \union Inserting \union Prompting \union AtGate]
    /\ \A p \in Procs : cmd[p].pc \notin {"idle", "insert"} => cmd[p].id \in Ids
    /\ \A p \in Procs : cmd[p].pc \in {"verify", "bump", "count", "lock", "accept"} =>
                          cmd[p].id \in DOMAIN pins
    /\ wrong \in [1..MaxRows -> Nat]
    /\ lost \subseteq 1..MaxWrites
    /\ count \in [writes: 0..MaxWrites, kills: 0..MaxKills, resets: 0..MaxResets]

Init ==
    /\ now = 0
    /\ disk = [f \in Paths |-> 0]
    /\ rows = <<>>
    /\ pins = [i \in {} |-> 0]
    /\ tokens = {}
    /\ cmd = [p \in Procs |-> Idle]
    /\ wrong = [i \in 1..MaxRows |-> 0]
    /\ lost = {}
    /\ count = [writes |-> 0, kills |-> 0, resets |-> 0]

(* The bound on new rows, and on those made with --pin.                    *)
Room(asked) ==
    /\ Len(rows) < MaxRows
    /\ asked => Cardinality({i \in Ids : rows[i].asked}) < MaxPins

Goto(p, c) == cmd' = [cmd EXCEPT ![p] = c]
Done(p) == Goto(p, Idle)

-----------------------------------------------------------------------------
(* Commands that make a row: access --state 0, vault add, share create.    *)

(* write_owner_only: create_new refuses a path that is in use.             *)
MutOverwrites(p, kind, path, asked) ==
    /\ cmd[p] = Idle /\ count.writes < MaxWrites /\ Room(asked)
    /\ kind \in Kinds \intersect {"file", "quorum"} /\ (asked => kind = "file")
    /\ disk' = [disk EXCEPT ![path] = count.writes + 1]
    /\ count' = [count EXCEPT !.writes = @ + 1]
    /\ Goto(p, [pc |-> "insert", kind |-> kind, path |-> path,
                tag |-> count.writes + 1, asked |-> asked])
    /\ UNCHANGED <<now, rows, pins, tokens, wrong, lost>>
WriteCiphertext(p, kind, path, asked) ==
    /\ cmd[p] = Idle /\ count.writes < MaxWrites /\ Room(asked)
    /\ kind \in Kinds \intersect {"file", "quorum"} /\ (asked => kind = "file")
    /\ disk[path] = 0
    /\ disk' = [disk EXCEPT ![path] = count.writes + 1]
    /\ count' = [count EXCEPT !.writes = @ + 1]
    /\ Goto(p, [pc |-> "insert", kind |-> kind, path |-> path,
                tag |-> count.writes + 1, asked |-> asked])
    /\ UNCHANGED <<now, rows, pins, tokens, wrong, lost>>

(* A command that was given --pin prompts for it once the row is there.    *)
AfterInsert(p, id, asked, every) ==
    IF asked THEN Goto(p, [pc |-> "setpin", id |-> id, every |-> every])
             ELSE Done(p)

(* lock_file: the INSERT; the tables are UNIQUE in encrypted_path, each by *)
(* itself.  quorum::lock_file builds the key tree in the same transaction. *)
InsertRow(p) ==
    LET c == cmd[p]
    IN  /\ c.pc = "insert" /\ Room(c.asked)
        /\ \A i \in Ids : ~(rows[i].kind = c.kind /\ rows[i].path = c.path)
        /\ rows' = Append(rows, Row(c.kind, c.path, c.tag, c.asked, 0))
        /\ AfterInsert(p, Len(rows) + 1, c.asked, FALSE)
        /\ UNCHANGED <<now, disk, pins, tokens, wrong, lost, count>>

(* ... or it fails, for a path that has a row or for any other reason, and *)
(* the file that was just written is removed.                              *)
MutLeavesFile(p) ==
    /\ cmd[p].pc = "insert"
    /\ Done(p)
    /\ UNCHANGED <<now, disk, rows, pins, tokens, wrong, lost, count>>
InsertFails(p) ==
    /\ cmd[p].pc = "insert"
    /\ disk' = [disk EXCEPT ![cmd[p].path] = 0]
    /\ Done(p)
    /\ UNCHANGED <<now, rows, pins, tokens, wrong, lost, count>>

(* vault::add_credential.                                                  *)
AddCredential(p, asked) ==
    /\ cmd[p] = Idle /\ "credential" \in Kinds /\ Room(asked)
    /\ rows' = Append(rows, Row("credential", "none", 0, asked, 0))
    /\ AfterInsert(p, Len(rows) + 1, asked, FALSE)
    /\ UNCHANGED <<now, disk, pins, tokens, wrong, lost, count>>

(* create_share: the token is printed by the last step of the command.     *)
MutPrintsFirst(p, of, limit, asked, every) ==
    /\ cmd[p] = Idle /\ "share" \in Kinds /\ Room(asked)
    /\ of \in Ids /\ rows[of].kind \in {"credential", "file"}
    /\ (every => asked)
    /\ rows' = Append(rows, Row("share", "none", 0, asked, limit))
    /\ AfterInsert(p, Len(rows) + 1, asked, every)
    /\ tokens' = tokens \union {Len(rows) + 1}
    /\ UNCHANGED <<now, disk, pins, wrong, lost, count>>
CreateShare(p, of, limit, asked, every) ==
    /\ cmd[p] = Idle /\ "share" \in Kinds /\ Room(asked)
    /\ of \in Ids /\ rows[of].kind \in {"credential", "file"}
    /\ (every => asked)
    /\ rows' = Append(rows, Row("share", "none", 0, asked, limit))
    /\ AfterInsert(p, Len(rows) + 1, asked, every)
    /\ tokens' = IF asked THEN tokens ELSE tokens \union {Len(rows) + 1}
    /\ UNCHANGED <<now, disk, pins, wrong, lost, count>>

FreshPin(every) == [every |-> every, attempts |-> 0, locked |-> FALSE, until |-> 0]

(* set_pin, and print_share after it.                                      *)
MutAlwaysToken(p) ==
    LET id == cmd[p].id
    IN  /\ cmd[p].pc = "setpin"
        /\ pins' = [i \in DOMAIN pins \union {id} |->
                      IF i = id THEN FreshPin(cmd[p].every) ELSE pins[i]]
        /\ tokens' = tokens \union {id}
        /\ Done(p)
        /\ UNCHANGED <<now, disk, rows, wrong, lost, count>>
SetPin(p) ==
    LET id == cmd[p].id
    IN  /\ cmd[p].pc = "setpin"
        /\ pins' = [i \in DOMAIN pins \union {id} |->
                      IF i = id THEN FreshPin(cmd[p].every) ELSE pins[i]]
        /\ tokens' = IF rows[id].kind = "share" THEN tokens \union {id} ELSE tokens
        /\ Done(p)
        /\ UNCHANGED <<now, disk, rows, wrong, lost, count>>

(* InvalidPin: the command ends, the row stays, no token is printed.       *)
PinRefused(p) ==
    /\ cmd[p].pc = "setpin"
    /\ Done(p)
    /\ UNCHANGED <<now, disk, rows, pins, tokens, wrong, lost, count>>

-----------------------------------------------------------------------------
(* Commands that use a row: access --state 1, vault get, share redeem.     *)

(* verification_required, for a PIN row r.                                 *)
WindowOpen(r) == ~r.every /\ r.until > now
MutForgetsLock(r) == ~WindowOpen(r)
VerificationRequired(r) == r.locked \/ ~WindowOpen(r)

(* The gate as every command begins it.  `shut' is history: the PIN was    *)
(* locked when the command began.                                          *)
Ask(p, id) ==
    /\ cmd[p] = Idle
    /\ rows[id].kind # "quorum" /\ (rows[id].kind = "share" => id \in tokens)
    /\ LET prompt == id \in DOMAIN pins /\ VerificationRequired(pins[id])
       IN  Goto(p, [pc |-> IF prompt THEN "verify" ELSE "use", id |-> id,
                    how |-> IF prompt THEN "pin"
                            ELSE IF id \in DOMAIN pins THEN "window" ELSE "open",
                    every |-> FALSE, shut |-> id \in DOMAIN pins /\ pins[id].locked])
    /\ UNCHANGED <<now, disk, rows, pins, tokens, wrong, lost, count>>

(* verify_pin up to the comparison, with the row read once: a locked PIN   *)
(* ends the command, an open window lets it pass whatever was typed.       *)
VerifyPin(p, right) ==
    LET c == cmd[p]
        r == pins[c.id]
    IN  /\ c.pc = "verify"
        /\ \/ r.locked /\ Done(p) /\ UNCHANGED wrong
           \/ ~r.locked /\ WindowOpen(r) /\ Goto(p, [c EXCEPT !.pc = "use"])
              /\ UNCHANGED wrong
           \/ ~r.locked /\ ~WindowOpen(r) /\ right
              /\ Goto(p, [c EXCEPT !.pc = "accept", !.every = r.every])
              /\ UNCHANGED wrong
           \/ ~r.locked /\ ~WindowOpen(r) /\ ~right
              /\ Goto(p, [c EXCEPT !.pc = "bump"])
              /\ wrong' = [wrong EXCEPT ![c.id] = @ + 1]
        /\ UNCHANGED <<now, disk, rows, pins, tokens, lost, count>>

(* The three statements after a mismatch ...                               *)
CountAttempt(p) ==
    /\ cmd[p].pc = "bump"
    /\ pins' = [pins EXCEPT ![cmd[p].id].attempts = @ + 1]
    /\ Goto(p, [cmd[p] EXCEPT !.pc = "count"])
    /\ UNCHANGED <<now, disk, rows, tokens, wrong, lost, count>>

MutLockAtExactly(p) ==
    /\ cmd[p].pc = "count"
    /\ IF pins[cmd[p].id].attempts = MaxAttempts
       THEN Goto(p, [cmd[p] EXCEPT !.pc = "lock"]) ELSE Done(p)
    /\ UNCHANGED <<now, disk, rows, pins, tokens, wrong, lost, count>>
CheckAttempts(p) ==
    /\ cmd[p].pc = "count"
    /\ IF pins[cmd[p].id].attempts >= MaxAttempts
       THEN Goto(p, [cmd[p] EXCEPT !.pc = "lock"]) ELSE Done(p)
    /\ UNCHANGED <<now, disk, rows, pins, tokens, wrong, lost, count>>

LockPin(p) ==
    /\ cmd[p].pc = "lock"
    /\ pins' = [pins EXCEPT ![cmd[p].id].locked = TRUE]
    /\ Done(p)
    /\ UNCHANGED <<now, disk, rows, tokens, wrong, lost, count>>

(* ... and the one after a match.  It does not look at locked_at again.    *)
AcceptPin(p) ==
    LET id == cmd[p].id
    IN  /\ cmd[p].pc = "accept"
        /\ pins' = [pins EXCEPT ![id].attempts = 0,
                                ![id].until = IF cmd[p].every THEN @ ELSE now + Ttl]
        /\ wrong' = [wrong EXCEPT ![id] = 0]
        /\ Goto(p, [cmd[p] EXCEPT !.pc = "use"])
        /\ UNCHANGED <<now, disk, rows, tokens, lost, count>>

(* redeem_share: the conditions and the count in one UPDATE, and a reason  *)
(* read afterwards when it matched no row.                                 *)
Redeemable(r) == ~r.revoked /\ r.expires > now /\ (r.limit = 0 \/ r.uses < r.limit)
MutChecksAtLookup(p) ==
    LET id == cmd[p].id
        r == rows[id]
    IN  /\ cmd[p].pc = "use" /\ r.kind = "share"
        /\ rows' = IF r.expires > now /\ (r.limit = 0 \/ r.uses < r.limit)
                   THEN [rows EXCEPT ![id].uses = @ + 1] ELSE rows
        /\ Done(p)
        /\ UNCHANGED <<now, disk, pins, tokens, wrong, lost, count>>
RedeemShare(p) ==
    LET id == cmd[p].id
    IN  /\ cmd[p].pc = "use" /\ rows[id].kind = "share"
        /\ rows' = IF Redeemable(rows[id]) THEN [rows EXCEPT ![id].uses = @ + 1]
                   ELSE rows
        /\ Done(p)
        /\ UNCHANGED <<now, disk, pins, tokens, wrong, lost, count>>

(* get_credential, unlock_file: they read the row and the file.            *)
OpenRow(p) ==
    /\ cmd[p].pc = "use" /\ rows[cmd[p].id].kind \in {"credential", "file"}
    /\ Done(p)
    /\ UNCHANGED <<now, disk, rows, pins, tokens, wrong, lost, count>>

-----------------------------------------------------------------------------
(* One-statement commands, time, and what happens to commands and files.   *)

Relock(id) ==
    /\ id \in DOMAIN pins
    /\ pins' = [pins EXCEPT ![id].until = 0]
    /\ UNCHANGED <<now, disk, rows, tokens, cmd, wrong, lost, count>>

(* revoke_share.                                                           *)
RevokeShare(id) ==
    /\ rows[id].kind = "share"
    /\ rows' = [rows EXCEPT ![id].revoked = TRUE]
    /\ UNCHANGED <<now, disk, pins, tokens, cmd, wrong, lost, count>>

(* set_pin for a resource that has one, through the library: no command    *)
(* does so.                                                                *)
ReplacePin(id, every) ==
    /\ id \in DOMAIN pins /\ count.resets < MaxResets
    /\ pins' = [pins EXCEPT ![id] = FreshPin(every)]
    /\ wrong' = [wrong EXCEPT ![id] = 0]
    /\ cmd' = [p \in Procs |-> IF "shut" \in DOMAIN cmd[p] /\ cmd[p].id = id
                               THEN [cmd[p] EXCEPT !.shut = FALSE] ELSE cmd[p]]
    /\ count' = [count EXCEPT !.resets = @ + 1]
    /\ UNCHANGED <<now, disk, rows, tokens, lost>>

Tick ==
    /\ now < MaxTime
    /\ now' = now + 1
    /\ UNCHANGED <<disk, rows, pins, tokens, cmd, wrong, lost, count>>

(* The process ends at once: nothing is cleaned up.                        *)
Kill(p) ==
    /\ cmd[p] # Idle /\ count.kills < MaxKills
    /\ Done(p)
    /\ lost' = IF cmd[p].pc = "insert" THEN lost \union {cmd[p].tag} ELSE lost
    /\ count' = [count EXCEPT !.kills = @ + 1]
    /\ UNCHANGED <<now, disk, rows, pins, tokens, wrong>>

UserDeletes(id) ==
    /\ rows[id].kind \in {"file", "quorum"} /\ disk[rows[id].path] = rows[id].tag
    /\ disk' = [disk EXCEPT ![rows[id].path] = 0]
    /\ lost' = lost \union {rows[id].tag}
    /\ UNCHANGED <<now, rows, pins, tokens, cmd, wrong, count>>

-----------------------------------------------------------------------------
Make(p) ==
    \/ \E kind \in Kinds, path \in Paths, asked \in BOOLEAN :
          WriteCiphertext(p, kind, path, asked)
    \/ InsertRow(p) \/ InsertFails(p)
    \/ \E asked \in BOOLEAN : AddCredential(p, asked)
    \/ \E of \in Ids, limit \in Limits, asked, every \in BOOLEAN :
          CreateShare(p, of, limit, asked, every)
    \/ SetPin(p) \/ PinRefused(p)

UseRow(p) ==
    \/ \E id \in Ids : Ask(p, id)
    \/ \E right \in BOOLEAN : VerifyPin(p, right)
    \/ CountAttempt(p) \/ CheckAttempts(p) \/ LockPin(p) \/ AcceptPin(p)
    \/ RedeemShare(p) \/ OpenRow(p)

Next ==
    \/ \E p \in Procs : Make(p) \/ UseRow(p) \/ Kill(p)
    \/ \E id \in Ids : Relock(id) \/ RevokeShare(id) \/ UserDeletes(id)
    \/ \E id \in Ids, every \in BOOLEAN : ReplacePin(id, every)
    \/ Tick

Spec == Init /\ [][Next]_vars

-----------------------------------------------------------------------------
(* Properties.                                                             *)

(* The attempt limit, as far as separate statements can keep it: between   *)
(* two resets, wrong PINs beyond the limit are judged at most once per     *)
(* other command that had read the row before it was locked, and once per  *)
(* command that was killed between counting and locking.                   *)
GuessesBounded ==
    \A i \in 1..MaxRows :
        wrong[i] <= (MaxAttempts - 1) + Cardinality(Procs) + count.kills

(* A command that begins when the PIN is locked never gets past the gate,  *)
(* even if another command's correct PIN, read before the lock, opens a    *)
(* window after it.  Only a new PIN ends a lockout.                        *)
LockedStaysShut ==
    \A p \in Procs : cmd[p].pc \in {"accept", "use"} => ~cmd[p].shut

(* A share made with --pin is never redeemed without one: its token is not *)
(* known to anyone before its PIN is there, killed or failed commands      *)
(* included.                                                               *)
TokenGated ==
    \A p \in Procs : cmd[p].pc = "use" /\ rows[cmd[p].id].kind = "share"
                       /\ rows[cmd[p].id].asked => cmd[p].how # "open"

(* A use is counted only for a share that is neither revoked, expired nor  *)
(* used up at that moment, whatever happened to it, or to its other        *)
(* holders, since this command looked it up and prompted for the PIN.      *)
RedeemedByRight ==
    [][\A i \in Ids : rows'[i].uses # rows[i].uses =>
          /\ rows'[i].uses = rows[i].uses + 1
          /\ ~rows[i].revoked /\ now < rows[i].expires
          /\ rows[i].limit # 0 => rows'[i].uses <= rows[i].limit
          /\ rows[i].asked => \E p \in Procs : cmd[p].pc = "use" /\ cmd[p].id = i
                                                /\ cmd[p].how # "open"]_vars

(* The ciphertext of a locked file is the one its own command wrote, for   *)
(* as long as the user leaves it there: no other lock command, successful, *)
(* refused or killed, touches it.                                          *)
CiphertextKept ==
    \A i \in Ids : rows[i].kind \in {"file", "quorum"} /\ rows[i].tag \notin lost =>
        disk[rows[i].path] = rows[i].tag

(* A ciphertext without a row belongs to a command that is still at work   *)
(* or was killed there.                                                    *)
NoUntrackedFile ==
    \A f \in Paths : disk[f] # 0 =>
        \/ \E i \in Ids : rows[i].tag = disk[f]
        \/ \E p \in Procs : cmd[p].pc = "insert" /\ cmd[p].tag = disk[f]
        \/ disk[f] \in lost

-----------------------------------------------------------------------------
(* The inductive invariant (its proof is in AccessProofs).                 *)

(* A PIN is set once by the command that made its row, and nobody guesses  *)
(* it before.                                                              *)
PinSetOnce ==
    /\ \A p \in Procs : cmd[p].pc = "setpin" => cmd[p].id \notin DOMAIN pins
    /\ \A p, q \in Procs : cmd[p].pc = "setpin" /\ cmd[q].pc = "setpin"
                             /\ cmd[p].id = cmd[q].id => p = q
    /\ \A i \in 1..MaxRows : i \notin DOMAIN pins => wrong[i] = 0

(* The commands that judged a wrong PIN of i and have not counted it, and  *)
(* those that counted it and have not come to the lock.                    *)
Uncounted(i) == {p \in Procs : cmd[p].pc = "bump" /\ cmd[p].id = i}
Counting(i) == {p \in Procs : cmd[p].pc \in {"count", "lock"} /\ cmd[p].id = i}

(* What was judged is counted, or about to be, or its command was killed;  *)
(* and while the PIN is not locked, what was judged beyond the limit is    *)
(* with commands that will lock it, or were killed.                        *)
GuessesCounted ==
    \A i \in DOMAIN pins :
        /\ wrong[i] <= pins[i].attempts + Cardinality(Uncounted(i)) + count.kills
        /\ ~pins[i].locked =>
              wrong[i] <= (MaxAttempts - 1) + Cardinality(Uncounted(i))
                            + Cardinality(Counting(i)) + count.kills

(* A lock that a command saw when it began is still there when it verifies. *)
ShutIsLocked ==
    \A p \in Procs : cmd[p].pc = "verify" /\ cmd[p].shut => pins[cmd[p].id].locked

(* Whoever is at a statement of verify_pin was prompted.                   *)
Prompted ==
    \A p \in Procs : cmd[p].pc \in {"verify", "bump", "count", "lock", "accept"} =>
                        cmd[p].how = "pin"

(* A share made with --pin has its PIN before its token is handed out.     *)
TokensHavePins == \A i \in tokens : rows[i].asked => i \in DOMAIN pins

(* A tag names one lock command, its file and its row; the file of a       *)
(* command that is about to insert its row is the one it wrote.            *)
IsFile(r) == r.kind \in {"file", "quorum"}
RowsHaveTags ==
    /\ \A i \in Ids : IsFile(rows[i]) =>
          rows[i].path \in Paths /\ rows[i].tag \in 1..count.writes
    /\ \A i, j \in Ids : IsFile(rows[i]) /\ IsFile(rows[j])
                           /\ rows[i].tag = rows[j].tag => i = j
CommandsHaveTags ==
    /\ \A p \in Procs : cmd[p].pc = "insert" =>
          /\ cmd[p].tag \in 1..count.writes /\ disk[cmd[p].path] = cmd[p].tag
          /\ \A i \in Ids : IsFile(rows[i]) => rows[i].tag # cmd[p].tag
    /\ \A p, q \in Procs : cmd[p].pc = "insert" /\ cmd[q].pc = "insert"
                             /\ cmd[p].tag = cmd[q].tag => p = q
FilesHaveTags ==
    /\ \A f \in Paths : disk[f] <= count.writes
    /\ \A f, g \in Paths : disk[f] = disk[g] /\ disk[f] # 0 => f = g
TagsTellApart == RowsHaveTags /\ CommandsHaveTags /\ FilesHaveTags

IInv ==
    /\ TypeOK /\ PinSetOnce
    /\ GuessesCounted /\ GuessesBounded
    /\ ShutIsLocked /\ LockedStaysShut
    /\ Prompted /\ TokensHavePins /\ TokenGated
    /\ TagsTellApart /\ CiphertextKept /\ NoUntrackedFile

=============================================================================
