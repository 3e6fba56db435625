----------------------------- MODULE RelayKeys -----------------------------
(***************************************************************************)
(* API keys of the relay: minting, rotation and revocation by commands on  *)
(* the host (src/bin/keyquorum/host.rs) and over HTTP, the table and its   *)
(* checks (src/relay/api_key.rs, src/relay/server.rs), and the copy that a *)
(* personal store keeps of a key and revalidates before use                *)
(* (src/db/relay_credential.rs, resolve_relay_auth and run_loadkey in      *)
(* src/bin/keyquorum/main.rs).                                             *)
(*                                                                         *)
(* Abstractions:                                                           *)
(*   - a bearer is the row number of its key (hashes do not collide), and  *)
(*     the licensee issuer the name of the command that drew it; a token   *)
(*     that was printed is known to everybody;                             *)
(*   - there is one relay URL;                                             *)
(*   - last_used_at, last_checked_at, labels and listings are left out;    *)
(*   - what a served request does to mailbox and trees is in the modules   *)
(*     Mailbox and OrgSync; here it is known by the scope it needs.        *)
(***************************************************************************)
EXTENDS Integers, Sequences, FiniteSets

CONSTANTS
    Hosts,         \* commands on the relay host: keys create, rotate; serve
    Stores,        \* personal stores
    Clients,       \* processes that run commands on them
    Db,            \* client -> its store
    Overlap,       \* whether the commands on one store may overlap
    Scopes,        \* of "inbox.push", "inbox.pull", "admin"
    Fingerprints,  \* recipients a pull key can be bound to
    Ttls,          \* --ttl-seconds, which may be negative
    MaxKeys,       \* rows of api_keys (bound of the model)
    MaxTime        \* bound of the clock

None == "none"
Never == 0     \* expires_at IS NULL

ASSUME RelayKeysAssumption ==
    /\ Scopes \subseteq {"inbox.push", "inbox.pull", "admin"}
    /\ Db \in [Clients -> Stores] /\ Overlap \in BOOLEAN
    /\ Ttls \subseteq Int \ {0} /\ None \notin Fingerprints \union Hosts
    /\ MaxKeys \in Nat /\ MaxTime \in Nat

VARIABLES
    now,     \* the relay's clock
    issuer,  \* licensee_issuer: the command whose token it is, or None
    shown,   \* issuer tokens that were printed
    keys,    \* api_keys
    host,    \* host command -> its step
    cred,    \* store -> scope -> the key it keeps, 0 for none
    cmd,     \* client -> its command
    mutex    \* the client whose request the relay is working on, or None

vars == <<now, issuer, shown, keys, host, cred, cmd, mutex>>
hostVars == <<issuer, shown, host>>
clientVars == <<cred, cmd, mutex>>

Idle == [pc |-> "idle"]

KeyRows == [scope : Scopes, fp : Fingerprints \union {None}, expires : Nat,
            revoked : BOOLEAN, root : Nat]
HostSteps == [pc : {"insert", "print", "mint"}, op : {"keys", "serve"}]
Waiting == {"checkStored", "checkProvided", "persist", "delete", "send", "sent"}

(* The step of a command on a personal store, the key it works with, the   *)
(* scope it needs (None for loadkey), the key to revoke (0 for none), and  *)
(* whether its key was dead when the request went out (history).           *)
Commands == [pc : Waiting \union {"authed"}, key : Nat,
             need : Scopes \union {"admin", None}, arg : Nat, dead : BOOLEAN]

(* A key kept under a scope is a key of that scope, and a client's command *)
(* works on keys that exist.                                               *)
TypeOK ==
    /\ now \in Nat
    /\ issuer \in Hosts \union {None} /\ shown \subseteq Hosts
    /\ keys \in Seq(KeyRows)
    /\ \A k \in DOMAIN keys : keys[k].scope = "inbox.pull" <=> keys[k].fp # None
    /\ host \in [Hosts -> {Idle} \union HostSteps]
    /\ cred \in [Stores -> [Scopes -> Nat]]
    /\ \A s \in Stores, c \in Scopes : cred[s][c] # 0 =>
          cred[s][c] \in DOMAIN keys /\ keys[cred[s][c]].scope = c
    /\ cmd \in [Clients -> {Idle} \union Commands]
    /\ \A p \in Clients : cmd[p] # Idle =>
          cmd[p].key \in DOMAIN keys /\ cmd[p].arg \in DOMAIN keys \union {0}
    /\ mutex \in Clients \union {None}

Init ==
    /\ now = 1
    /\ issuer = None /\ shown = {} /\ keys = <<>>
    /\ host = [h \in Hosts |-> Idle]
    /\ cred = [s \in Stores |-> [c \in Scopes |-> 0]]
    /\ cmd = [p \in Clients |-> Idle]
    /\ mutex = None

Tick ==
    /\ now < MaxTime /\ now' = now + 1
    /\ UNCHANGED <<hostVars, keys, clientVars>>

-----------------------------------------------------------------------------
(* The table.                                                              *)

(* authenticate's WHERE clause.                                            *)
Authenticates(k, scope) ==
    /\ ~keys[k].revoked
    /\ keys[k].expires = Never \/ keys[k].expires > now
    /\ keys[k].scope = scope

(* check_hash, behind POST /keycheck.                                      *)
MutCheckLate(k) ==
    ~(keys[k].revoked \/ (keys[k].expires # Never /\ keys[k].expires < now))
KeyCheck(k) ==
    ~(keys[k].revoked \/ (keys[k].expires # Never /\ keys[k].expires <= now))

(* create: only pull keys are bound to a recipient, and they have to be;   *)
(* ttl is 0 when none was given, and an expiry that is no date is refused. *)
Create(scope, fp, ttl) ==
    /\ scope = "inbox.pull" <=> fp # None
    /\ ttl # 0 => now + ttl > 0
    /\ keys' = Append(keys, [scope |-> scope, fp |-> fp,
                 expires |-> IF ttl = 0 THEN Never ELSE now + ttl,
                 revoked |-> FALSE, root |-> Len(keys) + 1])

(* rotate, in one transaction: the replacement has the scope, the binding  *)
(* and the expiry of the old key, which is revoked.                        *)
MutRotatesAgain(k) ==
    keys' = Append([keys EXCEPT ![k].revoked = TRUE],
                   [keys[k] EXCEPT !.revoked = FALSE])
Rotate(k) ==
    /\ ~keys[k].revoked
    /\ keys' = Append([keys EXCEPT ![k].revoked = TRUE], keys[k])

-----------------------------------------------------------------------------
(* Commands on the host.                                                   *)

(* authorize_mint with a licensee key (from the flag, the environment or   *)
(* the prompt).  One that is not the issuer's ends the command.            *)
Authorize(h, token) ==
    /\ host[h] = Idle /\ token = issuer /\ Len(keys) < MaxKeys
    /\ host' = [host EXCEPT ![h] = [pc |-> "mint", op |-> "keys"]]
    /\ UNCHANGED <<now, issuer, shown, keys, clientVars>>

(* bootstrap_licensee_if_empty: the count, the insert (id 1 is the primary *)
(* key: the second of two fails and ends its command), the print.          *)
CountIssuers(h, op) ==
    /\ host[h] = Idle /\ issuer = None
    /\ host' = [host EXCEPT ![h] = [pc |-> "insert", op |-> op]]
    /\ UNCHANGED <<now, issuer, shown, keys, clientVars>>

MutReplacesIssuer(h) ==
    /\ host[h].pc = "insert"
    /\ issuer' = h
    /\ host' = [host EXCEPT ![h].pc = "print"]
    /\ UNCHANGED <<now, shown, keys, clientVars>>
InsertIssuer(h) ==
    /\ host[h].pc = "insert"
    /\ IF issuer = None
       THEN issuer' = h /\ host' = [host EXCEPT ![h].pc = "print"]
       ELSE issuer' = issuer /\ host' = [host EXCEPT ![h] = Idle]
    /\ UNCHANGED <<now, shown, keys, clientVars>>

PrintIssuer(h) ==
    /\ host[h].pc = "print"
    /\ shown' = shown \union {h}
    /\ host' = [host EXCEPT ![h] = IF @.op = "serve" THEN Idle ELSE [@ EXCEPT !.pc = "mint"]]
    /\ UNCHANGED <<now, issuer, keys, clientVars>>

(* keys create or keys rotate, authorised.                                 *)
Mint(h) ==
    /\ host[h].pc = "mint" /\ Len(keys) < MaxKeys
    /\ \/ \E scope \in Scopes, fp \in Fingerprints \union {None}, ttl \in Ttls \union {0} :
             Create(scope, fp, ttl)
       \/ \E k \in DOMAIN keys : Rotate(k)
    /\ host' = [host EXCEPT ![h] = Idle]
    /\ UNCHANGED <<now, issuer, shown, clientVars>>

(* A rotation that finds the key revoked, an error, or a killed command.   *)
HostFails(h) ==
    /\ host[h] # Idle
    /\ host' = [host EXCEPT ![h] = Idle]
    /\ UNCHANGED <<now, issuer, shown, keys, clientVars>>

(* keys revoke: needs no licensee key.                                     *)
Revoke(k) ==
    /\ keys' = [keys EXCEPT ![k].revoked = TRUE]
    /\ UNCHANGED <<now, hostVars, clientVars>>

-----------------------------------------------------------------------------
(* Commands on a personal store.                                           *)

Step(p, pc) == cmd' = [cmd EXCEPT ![p].pc = pc]
End(p) == cmd' = [cmd EXCEPT ![p] = Idle]

(* Nobody else works on the store of p, unless commands may overlap.       *)
Alone(p) == Overlap \/ \A q \in Clients : Db[q] = Db[p] => cmd[q] = Idle

Begin(p, pc, key, need, arg) ==
    /\ cmd[p] = Idle /\ Alone(p)
    /\ cmd' = [cmd EXCEPT ![p] = [pc |-> pc, key |-> key, need |-> need,
                                  arg |-> arg, dead |-> FALSE]]
    /\ UNCHANGED <<now, hostVars, keys, cred, mutex>>

(* loadkey, or a relay command with --api-key.                             *)
ProvideKey(p, key, need) == Begin(p, "checkProvided", key, need, 0)

(* A relay command that finds a stored key for its scope.                  *)
UseStored(p, need) ==
    cred[Db[p]][need] # 0 /\ Begin(p, "checkStored", cred[Db[p]][need], need, 0)

(* A request of an administrator's HTTP client.                            *)
AdminRevoke(p, key, k) == Begin(p, "send", key, "admin", k)

(* The keycheck of a provided key, which then has to have the scope.       *)
CheckProvided(p) ==
    /\ cmd[p].pc = "checkProvided" /\ mutex = None
    /\ IF KeyCheck(cmd[p].key) /\ cmd[p].need \in {None, keys[cmd[p].key].scope}
       THEN Step(p, "persist") ELSE End(p)
    /\ UNCHANGED <<now, hostVars, keys, cred, mutex>>

(* relay_credential::save: one key per relay and scope.                    *)
Save(s, scope, key) == cred' = [cred EXCEPT ![s][scope] = key]

(* persist_checked_key: under the scope that the relay answered.           *)
MutOneSlot(p) ==
    /\ cmd[p].pc = "persist"
    /\ cred' = [cred EXCEPT ![Db[p]] = [c \in Scopes |-> cmd[p].key]]
    /\ IF cmd[p].need = None THEN End(p) ELSE Step(p, "send")
    /\ UNCHANGED <<now, hostVars, keys, mutex>>
Persist(p) ==
    /\ cmd[p].pc = "persist"
    /\ Save(Db[p], keys[cmd[p].key].scope, cmd[p].key)
    /\ IF cmd[p].need = None THEN End(p) ELSE Step(p, "send")
    /\ UNCHANGED <<now, hostVars, keys, mutex>>

(* The keycheck of a stored key; if it is dead, the row of that scope is   *)
(* deleted, whichever key it holds by then.                                *)
CheckStored(p) ==
    /\ cmd[p].pc = "checkStored" /\ mutex = None
    /\ Step(p, IF KeyCheck(cmd[p].key) THEN "send" ELSE "delete")
    /\ UNCHANGED <<now, hostVars, keys, cred, mutex>>

DeleteStored(p) ==
    /\ cmd[p].pc = "delete"
    /\ cred' = [cred EXCEPT ![Db[p]][cmd[p].need] = 0]
    /\ End(p)
    /\ UNCHANGED <<now, hostVars, keys, mutex>>

Send(p) ==
    /\ cmd[p].pc = "send"
    /\ cmd' = [cmd EXCEPT ![p] = [@ EXCEPT !.pc = "sent",
                                  !.dead = ~Authenticates(cmd[p].key, cmd[p].need)]]
    /\ UNCHANGED <<now, hostVars, keys, cred, mutex>>

(* A handler: authenticate, then the work.  Handlers exclude each other,   *)
(* but not the commands on the host, which have connections of their own.  *)
MutTrustsKeycheck(p) ==
    /\ cmd[p].pc = "sent" /\ mutex = None
    /\ IF cmd[p].arg = 0 \/ Authenticates(cmd[p].key, cmd[p].need)
       THEN Step(p, "authed") /\ mutex' = p
       ELSE End(p) /\ mutex' = mutex
    /\ UNCHANGED <<now, hostVars, keys, cred>>
Authenticate(p) ==
    /\ cmd[p].pc = "sent" /\ mutex = None
    /\ IF Authenticates(cmd[p].key, cmd[p].need)
       THEN Step(p, "authed") /\ mutex' = p
       ELSE End(p) /\ mutex' = mutex
    /\ UNCHANGED <<now, hostVars, keys, cred>>

Serve(p) ==
    /\ cmd[p].pc = "authed"
    /\ keys' = IF cmd[p].arg = 0 THEN keys
               ELSE [keys EXCEPT ![cmd[p].arg].revoked = TRUE]
    /\ mutex' = None /\ End(p)
    /\ UNCHANGED <<now, hostVars, cred>>

(* A lost request or answer, a timeout, a killed command.                  *)
MutDeletesOnError(p) ==
    /\ cmd[p].pc \in Waiting
    /\ cred' = [cred EXCEPT ![Db[p]] = [c \in Scopes |->
                  IF cmd[p].pc = "checkStored" /\ c = cmd[p].need THEN 0 ELSE @[c]]]
    /\ End(p)
    /\ UNCHANGED <<now, hostVars, keys, mutex>>
CommandFails(p) ==
    /\ cmd[p].pc \in Waiting
    /\ End(p)
    /\ UNCHANGED <<now, hostVars, keys, cred, mutex>>

-----------------------------------------------------------------------------
Next ==
    \/ Tick
    \/ \E h \in Hosts, token \in shown : Authorize(h, token)
    \/ \E h \in Hosts, op \in {"keys", "serve"} : CountIssuers(h, op)
    \/ \E h \in Hosts : InsertIssuer(h) \/ PrintIssuer(h) \/ Mint(h) \/ HostFails(h)
    \/ \E k \in DOMAIN keys : Revoke(k)
    \/ \E p \in Clients, key \in DOMAIN keys :
          \/ \E need \in Scopes \union {None} : ProvideKey(p, key, need)
          \/ \E k \in DOMAIN keys : AdminRevoke(p, key, k)
    \/ \E p \in Clients, need \in Scopes : UseStored(p, need)
    \/ \E p \in Clients : CheckProvided(p) \/ Persist(p) \/ CheckStored(p) \/ DeleteStored(p)
    \/ \E p \in Clients : Send(p) \/ Authenticate(p) \/ Serve(p) \/ CommandFails(p)

Spec == Init /\ [][Next]_vars

-----------------------------------------------------------------------------
(* Properties.                                                             *)

(* A token that was printed as the licensee issuer is the issuer, however  *)
(* many first commands race for it ("Only this key can mint").             *)
IssuerKept == shown \subseteq {issuer}

(* However rotations, creations and revocations of several commands mix, a *)
(* key and its replacements share scope, binding and expiry, and at most   *)
(* one of them is not revoked.                                             *)
RotationKeepsGrant ==
    \A i, j \in DOMAIN keys : keys[i].root = keys[j].root =>
        /\ keys[i].scope = keys[j].scope /\ keys[i].fp = keys[j].fp
        /\ keys[i].expires = keys[j].expires
        /\ i # j => keys[i].revoked \/ keys[j].revoked

(* keycheck and authenticate, two queries, agree at every instant, the one *)
(* of expiry included: no command is told its key is good and refused.     *)
CheckAgreesWithUse ==
    \A k \in DOMAIN keys : KeyCheck(k) <=> Authenticates(k, keys[k].scope)

(* A request whose key was dead, or of another scope, when it went out is  *)
(* never served: what the keycheck said before does not count.             *)
DeadKeyNotServed ==
    \A p \in Clients : cmd[p].pc = "authed" => ~cmd[p].dead

(* A stored key that goes away is dead: it is not deleted because a check  *)
(* was lost or timed out, nor in place of the key that was checked.  The   *)
(* DELETE of resolve_relay_auth names relay and scope only, so this needs  *)
(* commands that do not overlap on a store.                                *)
LiveCredentialKept ==
    [][\A s \in Stores, c \in Scopes :
          cred[s][c] # 0 /\ cred'[s][c] = 0 => ~KeyCheck(cred[s][c])]_vars

-----------------------------------------------------------------------------
(* The inductive invariant (its proof is in RelayKeysProofs).              *)

(* Who is about to print an issuer token inserted it.                      *)
PrintsIssuer == \A h \in Hosts : host[h].pc = "print" => issuer = h

(* A key's line begins with a key, so a new key begins a new line.         *)
RootsExist == \A k \in DOMAIN keys : keys[k].root \in DOMAIN keys

(* A dead key stays dead until its request arrives.                        *)
DeadStaysDead ==
    \A p \in Clients : cmd[p].pc = "sent" /\ cmd[p].dead =>
        ~Authenticates(cmd[p].key, cmd[p].need)

(* A command that waits for the answer about a stored key needs its scope, *)
(* and one that is about to delete was told that its key is dead.          *)
DeletesDead ==
    \A p \in Clients :
        /\ cmd[p].pc \in {"checkStored", "delete"} => cmd[p].need \in Scopes
        /\ cmd[p].pc = "delete" => ~KeyCheck(cmd[p].key)

(* If commands do not overlap, then the key that is checked is still the   *)
(* stored one.                                                             *)
ChecksStored ==
    ~Overlap =>
        /\ \A p, q \in Clients :
              p # q /\ Db[p] = Db[q] => cmd[p] = Idle \/ cmd[q] = Idle
        /\ \A p \in Clients : cmd[p].pc \in {"checkStored", "delete"} =>
              cred[Db[p]][cmd[p].need] = cmd[p].key

IInv ==
    /\ TypeOK
    /\ PrintsIssuer /\ IssuerKept
    /\ RootsExist /\ RotationKeepsGrant
    /\ DeadStaysDead /\ DeadKeyNotServed
    /\ DeletesDead /\ ChecksStored

=============================================================================
