-------------------------- MODULE RelayKeysProofs --------------------------
(* Safety of RelayKeys for every set of host commands, stores and keys.    *)
EXTENDS RelayKeys, TLAPS

(* What a step leaves of the rows that exist: everything but that they may *)
(* be revoked; and the clock does not go back.                             *)
Monotone ==
    /\ now' \in Nat /\ now <= now'
    /\ DOMAIN keys \subseteq DOMAIN keys'
    /\ \A k \in DOMAIN keys :
          /\ keys'[k].scope = keys[k].scope /\ keys'[k].fp = keys[k].fp
          /\ keys'[k].expires = keys[k].expires /\ keys'[k].root = keys[k].root
          /\ keys[k].revoked => keys'[k].revoked

LEMMA InitGood == Init => IInv
BY DEF Init, IInv, TypeOK, PrintsIssuer, IssuerKept, RootsExist,
   RotationKeepsGrant, DeadStaysDead, DeadKeyNotServed, DeletesDead,
   ChecksStored, Idle

(* Revoking a row keeps the table well formed.                             *)
LEMMA RevokeTable ==
    ASSUME keys \in Seq(KeyRows), NEW k \in DOMAIN keys,
           keys' = [keys EXCEPT ![k].revoked = TRUE]
    PROVE  /\ keys' \in Seq(KeyRows) /\ DOMAIN keys' = DOMAIN keys
           /\ \A i \in DOMAIN keys :
                /\ keys'[i].scope = keys[i].scope /\ keys'[i].fp = keys[i].fp
                /\ keys'[i].expires = keys[i].expires
                /\ keys'[i].root = keys[i].root
                /\ keys[i].revoked \/ i = k => keys'[i].revoked
<1>1. keys[k] \in KeyRows
    OBVIOUS
<1>2. [keys[k] EXCEPT !.revoked = TRUE] \in KeyRows
    BY <1>1 DEF KeyRows
<1>3. keys' = [i \in DOMAIN keys |->
                 IF i = k THEN [keys[k] EXCEPT !.revoked = TRUE] ELSE keys[i]]
    BY Zenon
<1>4. keys' \in Seq(KeyRows) /\ DOMAIN keys' = DOMAIN keys
    BY <1>2, <1>3
<1>5. ASSUME NEW i \in DOMAIN keys
      PROVE  /\ keys'[i].scope = keys[i].scope /\ keys'[i].fp = keys[i].fp
             /\ keys'[i].expires = keys[i].expires
             /\ keys'[i].root = keys[i].root
             /\ keys[i].revoked \/ i = k => keys'[i].revoked
  <2>1. keys[i] \in KeyRows
      OBVIOUS
  <2>2. CASE i = k
    <3>1. keys'[i] = [keys[i] EXCEPT !.revoked = TRUE]
        BY <1>3, <2>2
    <3> QED BY <2>1, <2>2, <3>1 DEF KeyRows
  <2>3. CASE i # k
    <3>1. keys'[i] = keys[i]
        BY <1>3, <2>3
    <3>2. keys[i].revoked \in BOOLEAN
        BY <2>1 DEF KeyRows
    <3> QED BY <2>3, <3>1, <3>2
  <2> QED BY <2>2, <2>3
<1> QED BY <1>4, <1>5

LEMMA AppendTable ==
    ASSUME NEW t \in Seq(KeyRows), NEW row \in KeyRows
    PROVE  /\ Append(t, row) \in Seq(KeyRows)
           /\ DOMAIN Append(t, row) = DOMAIN t \union {Len(t) + 1}
           /\ \A i \in DOMAIN t : Append(t, row)[i] = t[i]
           /\ Append(t, row)[Len(t) + 1] = row
           /\ Len(t) + 1 \notin DOMAIN t
           /\ DOMAIN t \subseteq Nat /\ 0 \notin DOMAIN t
OBVIOUS

(* What one step does to the table: nothing, a revocation, a new key, or a *)
(* rotation.                                                               *)
TableStep ==
    \/ keys' = keys
    \/ \E k \in DOMAIN keys : keys' = [keys EXCEPT ![k].revoked = TRUE]
    \/ \E row \in KeyRows :
          /\ row.scope = "inbox.pull" <=> row.fp # None
          /\ row.root = Len(keys) + 1 /\ keys' = Append(keys, row)
    \/ \E k \in DOMAIN keys : Rotate(k)

LEMMA CreateRow ==
    ASSUME TypeOK, NEW scope \in Scopes, NEW fp \in Fingerprints \union {None},
           NEW ttl \in Ttls \union {0}, Create(scope, fp, ttl)
    PROVE  TableStep
<1> DEFINE row == [scope |-> scope, fp |-> fp,
                   expires |-> IF ttl = 0 THEN Never ELSE now + ttl,
                   revoked |-> FALSE, root |-> Len(keys) + 1]
<1>1. now \in Nat /\ ttl \in Int /\ Never \in Nat /\ Len(keys) + 1 \in Nat
    BY RelayKeysAssumption DEF TypeOK, Never
<1>2. (IF ttl = 0 THEN Never ELSE now + ttl) \in Nat
    BY <1>1 DEF Create
<1>3. row \in KeyRows
    BY <1>1, <1>2 DEF KeyRows
<1>4. /\ row.scope = "inbox.pull" <=> row.fp # None
      /\ row.root = Len(keys) + 1 /\ keys' = Append(keys, row)
    BY DEF Create
<1> QED BY <1>3, <1>4 DEF TableStep

LEMMA NextTable ==
    ASSUME TypeOK, [Next]_vars
    PROVE  TableStep /\ now' \in Nat /\ now <= now'
<1>1. now \in Nat
    BY DEF TypeOK
<1>2. CASE keys' = keys /\ now' = now
    BY <1>1, <1>2 DEF TableStep
<1>3. CASE Tick
    BY <1>1, <1>3 DEF Tick, TableStep
<1>4. ASSUME NEW h \in Hosts, Mint(h) PROVE TableStep /\ now' = now
    BY <1>4, CreateRow DEF Mint, TableStep
<1>5. ASSUME NEW k \in DOMAIN keys, Revoke(k) PROVE TableStep /\ now' = now
    BY <1>5 DEF Revoke, TableStep
<1>6. ASSUME NEW p \in Clients, Serve(p) PROVE TableStep /\ now' = now
  <2>1. cmd[p] # Idle
      BY <1>6 DEF Serve, Idle
  <2>2. cmd[p].arg \in DOMAIN keys \union {0}
      BY <2>1 DEF TypeOK
  <2> QED BY <1>6, <2>2 DEF Serve, TableStep
<1>7. ASSUME NEW h \in Hosts,
             \/ \E token \in shown : Authorize(h, token)
             \/ \E op \in {"keys", "serve"} : CountIssuers(h, op)
             \/ InsertIssuer(h) \/ PrintIssuer(h) \/ HostFails(h)
      PROVE  keys' = keys /\ now' = now
    BY <1>7 DEF Authorize, CountIssuers, InsertIssuer, PrintIssuer, HostFails
<1>8. ASSUME NEW p \in Clients,
             \/ \E key, need : ProvideKey(p, key, need)
             \/ \E key, k : AdminRevoke(p, key, k)
             \/ \E need : UseStored(p, need)
      PROVE  keys' = keys /\ now' = now
    BY <1>8 DEF ProvideKey, AdminRevoke, UseStored, Begin
<1>9. ASSUME NEW p \in Clients,
             \/ CheckProvided(p) \/ Persist(p) \/ CheckStored(p) \/ DeleteStored(p)
             \/ Send(p) \/ Authenticate(p) \/ CommandFails(p)
      PROVE  keys' = keys /\ now' = now
    BY <1>9 DEF CheckProvided, Persist, CheckStored, DeleteStored, Send,
                Authenticate, CommandFails
<1>10. CASE UNCHANGED vars
    BY <1>2, <1>10 DEF vars
<1>11. CASE Next
    BY <1>1, <1>2, <1>3, <1>4, <1>5, <1>6, <1>7, <1>8, <1>9, <1>11 DEF Next
<1> QED BY <1>10, <1>11

(* A rotation: the row, revoked, and a copy of it at the end.              *)
LEMMA RotateTable ==
    ASSUME keys \in Seq(KeyRows), NEW k \in DOMAIN keys, Rotate(k)
    PROVE  /\ ~keys[k].revoked
           /\ keys' \in Seq(KeyRows)
           /\ DOMAIN keys' = DOMAIN keys \union {Len(keys) + 1}
           /\ Len(keys) + 1 \notin DOMAIN keys
           /\ keys'[Len(keys) + 1] = keys[k]
           /\ \A i \in DOMAIN keys :
                /\ keys'[i].scope = keys[i].scope /\ keys'[i].fp = keys[i].fp
                /\ keys'[i].expires = keys[i].expires
                /\ keys'[i].root = keys[i].root
                /\ keys[i].revoked \/ i = k => keys'[i].revoked
<1> DEFINE t == [keys EXCEPT ![k].revoked = TRUE]
<1>1. ~keys[k].revoked /\ keys' = Append(t, keys[k]) /\ keys[k] \in KeyRows
    BY DEF Rotate
<1>2. [keys[k] EXCEPT !.revoked = TRUE] \in KeyRows
    BY <1>1 DEF KeyRows
<1>3. t = [i \in DOMAIN keys |->
             IF i = k THEN [keys[k] EXCEPT !.revoked = TRUE] ELSE keys[i]]
    BY Zenon
<1>4. t \in Seq(KeyRows) /\ DOMAIN t = DOMAIN keys /\ Len(t) = Len(keys)
    BY <1>2, <1>3
<1>5. ASSUME NEW i \in DOMAIN keys
      PROVE  /\ t[i].scope = keys[i].scope /\ t[i].fp = keys[i].fp
             /\ t[i].expires = keys[i].expires /\ t[i].root = keys[i].root
             /\ keys[i].revoked \/ i = k => t[i].revoked
  <2>1. keys[i] \in KeyRows
      OBVIOUS
  <2>2. CASE i = k
    <3>1. t[i] = [keys[i] EXCEPT !.revoked = TRUE]
        BY <1>3, <2>2
    <3> HIDE DEF t
    <3> QED BY <2>1, <2>2, <3>1 DEF KeyRows
  <2>3. CASE i # k
    <3>1. t[i] = keys[i]
        BY <1>3, <2>3
    <3>2. keys[i].revoked \in BOOLEAN
        BY <2>1 DEF KeyRows
    <3> HIDE DEF t
    <3> QED BY <2>3, <3>1, <3>2
  <2> QED BY <2>2, <2>3
<1> HIDE DEF t
<1>6. /\ keys' \in Seq(KeyRows)
      /\ DOMAIN keys' = DOMAIN t \union {Len(t) + 1}
      /\ \A i \in DOMAIN t : keys'[i] = t[i]
      /\ keys'[Len(t) + 1] = keys[k]
      /\ Len(t) + 1 \notin DOMAIN t
    BY <1>1, <1>4, AppendTable
<1> QED BY <1>1, <1>4, <1>5, <1>6

LEMMA TableMonotone ==
    ASSUME keys \in Seq(KeyRows), TableStep, now' \in Nat, now <= now'
    PROVE  Monotone /\ keys' \in Seq(KeyRows)
<1>1. CASE keys' = keys
    BY <1>1 DEF Monotone
<1>2. CASE \E k \in DOMAIN keys : keys' = [keys EXCEPT ![k].revoked = TRUE]
    BY <1>2, RevokeTable DEF Monotone
<1>3. CASE \E row \in KeyRows : keys' = Append(keys, row)
    BY <1>3, AppendTable DEF Monotone
<1>4. CASE \E k \in DOMAIN keys : Rotate(k)
    BY <1>4, RotateTable DEF Monotone
<1> QED BY <1>1, <1>2, <1>3, <1>4 DEF TableStep

(* So a dead key stays dead, for the check and for the use.                *)
LEMMA DeadForever ==
    ASSUME TypeOK, Monotone, NEW k \in DOMAIN keys
    PROVE  /\ ~KeyCheck(k) => ~KeyCheck(k)'
           /\ \A c : ~Authenticates(k, c) => ~Authenticates(k, c)'
<1>1. keys[k] \in KeyRows /\ now \in Nat
    BY DEF TypeOK
<1>2. keys[k].expires \in Nat
    BY <1>1 DEF KeyRows
<1>3. now' \in Nat /\ now <= now' /\ keys'[k].expires = keys[k].expires
      /\ keys'[k].scope = keys[k].scope /\ (keys[k].revoked => keys'[k].revoked)
    BY DEF Monotone
<1> QED BY <1>1, <1>2, <1>3 DEF KeyCheck, Authenticates, Never

-----------------------------------------------------------------------------
(* The table.                                                              *)

LEMMA LinesKept ==
    ASSUME IInv, [Next]_vars
    PROVE  RootsExist' /\ RotationKeepsGrant'
<1>0. keys \in Seq(KeyRows) /\ RootsExist /\ RotationKeepsGrant /\ TableStep
    BY NextTable DEF IInv, TypeOK
<1>a. \A i \in DOMAIN keys : keys[i].root \in DOMAIN keys
    BY <1>0 DEF RootsExist
<1> USE DEF RootsExist, RotationKeepsGrant
<1>1. CASE keys' = keys
    BY <1>0, <1>1
<1>2. ASSUME NEW k \in DOMAIN keys, keys' = [keys EXCEPT ![k].revoked = TRUE]
      PROVE  RootsExist' /\ RotationKeepsGrant'
  <2>1. DOMAIN keys' = DOMAIN keys /\ \A i \in DOMAIN keys :
                /\ keys'[i].scope = keys[i].scope /\ keys'[i].fp = keys[i].fp
                /\ keys'[i].expires = keys[i].expires
                /\ keys'[i].root = keys[i].root
                /\ keys[i].revoked \/ i = k => keys'[i].revoked
      BY <1>0, <1>2, RevokeTable
  <2> QED BY <1>0, <2>1
<1>3. ASSUME NEW row \in KeyRows, row.root = Len(keys) + 1,
             keys' = Append(keys, row)
      PROVE  RootsExist' /\ RotationKeepsGrant'
  <2>1. /\ DOMAIN keys' = DOMAIN keys \union {Len(keys) + 1}
        /\ \A i \in DOMAIN keys : keys'[i] = keys[i]
        /\ keys'[Len(keys) + 1] = row /\ Len(keys) + 1 \notin DOMAIN keys
      BY <1>0, <1>3, AppendTable
  <2> DEFINE n == Len(keys) + 1
  <2>2. row.root = n
      BY <1>3
  <2>3. /\ DOMAIN keys' = DOMAIN keys \union {n} /\ n \notin DOMAIN keys
        /\ keys'[n].root = n
      BY <2>1, <2>2
  <2>4. \A i \in DOMAIN keys : keys'[i] = keys[i] /\ keys'[i].root # n
      BY <1>a, <2>1
  <2> HIDE DEF n
  <2>5. RootsExist'
      BY <1>a, <2>3, <2>4
  <2>6. RotationKeepsGrant
      BY <1>0
  <2>7. RotationKeepsGrant'
      BY <2>3, <2>4, <2>6
  <2> QED BY <2>5, <2>7
<1>4. ASSUME NEW k \in DOMAIN keys, Rotate(k)
      PROVE  RootsExist' /\ RotationKeepsGrant'
  <2> DEFINE n == Len(keys) + 1
  <2>1. /\ ~keys[k].revoked
        /\ DOMAIN keys' = DOMAIN keys \union {n} /\ n \notin DOMAIN keys
        /\ keys'[n] = keys[k]
        /\ \A i \in DOMAIN keys :
                /\ keys'[i].scope = keys[i].scope /\ keys'[i].fp = keys[i].fp
                /\ keys'[i].expires = keys[i].expires
                /\ keys'[i].root = keys[i].root
                /\ keys[i].revoked \/ i = k => keys'[i].revoked
      BY <1>0, <1>4, RotateTable
  <2> HIDE DEF n
  <2>2. RootsExist'
    <3>1. \A i \in DOMAIN keys : keys'[i].root \in DOMAIN keys'
        BY <1>a, <2>1
    <3>2. keys'[n].root \in DOMAIN keys'
        BY <1>a, <2>1
    <3> QED BY <2>1, <3>1, <3>2
  <2>3. \A i \in DOMAIN keys : keys[i].root = keys[k].root =>
           /\ keys[i].scope = keys[k].scope /\ keys[i].fp = keys[k].fp
           /\ keys[i].expires = keys[k].expires /\ keys'[i].revoked
      BY <1>0, <2>1
  <2>4. \A i, j \in DOMAIN keys : keys'[i].root = keys'[j].root =>
           /\ keys'[i].scope = keys'[j].scope /\ keys'[i].fp = keys'[j].fp
           /\ keys'[i].expires = keys'[j].expires
           /\ i # j => keys'[i].revoked \/ keys'[j].revoked
      BY <1>0, <2>1
  <2>5. RotationKeepsGrant'
      BY <2>1, <2>3, <2>4
  <2> QED BY <2>2, <2>5
<1> QED BY <1>0, <1>1, <1>2, <1>3, <1>4 DEF TableStep

(* The table keeps its type; a pull key stays bound.                       *)
LEMMA TableKept ==
    ASSUME TypeOK, [Next]_vars
    PROVE  /\ Monotone /\ keys' \in Seq(KeyRows)
           /\ \A k \in DOMAIN keys' : keys'[k].scope = "inbox.pull" <=> keys'[k].fp # None
<1>1. /\ keys \in Seq(KeyRows) /\ TableStep /\ now' \in Nat /\ now <= now'
      /\ \A k \in DOMAIN keys : keys[k].scope = "inbox.pull" <=> keys[k].fp # None
    BY NextTable DEF TypeOK
<1>2. Monotone /\ keys' \in Seq(KeyRows)
    BY <1>1, TableMonotone
<1> DEFINE Bound(row) == row.scope = "inbox.pull" <=> row.fp # None
<1>3. \A k \in DOMAIN keys : Bound(keys'[k])
    BY <1>1, <1>2 DEF Monotone
<1>4. CASE keys' = keys
    BY <1>2, <1>3, <1>4
<1>5. ASSUME NEW k \in DOMAIN keys, keys' = [keys EXCEPT ![k].revoked = TRUE]
      PROVE  \A i \in DOMAIN keys' : Bound(keys'[i])
    BY <1>1, <1>3, <1>5, RevokeTable
<1>6. ASSUME NEW row \in KeyRows, Bound(row), keys' = Append(keys, row)
      PROVE  \A i \in DOMAIN keys' : Bound(keys'[i])
    BY <1>1, <1>3, <1>6, AppendTable
<1>7. ASSUME NEW k \in DOMAIN keys, Rotate(k)
      PROVE  \A i \in DOMAIN keys' : Bound(keys'[i])
    BY <1>1, <1>3, <1>7, RotateTable
<1> QED BY <1>1, <1>2, <1>4, <1>5, <1>6, <1>7 DEF TableStep

-----------------------------------------------------------------------------
(* The issuer and the commands on the host.                                *)

HostGood ==
    /\ issuer \in Hosts \union {None} /\ shown \subseteq Hosts
    /\ host \in [Hosts -> {Idle} \union HostSteps]
    /\ PrintsIssuer /\ IssuerKept

LEMMA HostKept ==
    ASSUME IInv, [Next]_vars
    PROVE  HostGood'
<1>1. HostGood /\ None \notin Hosts
    BY RelayKeysAssumption DEF IInv, TypeOK, HostGood
<1> USE DEF HostGood, PrintsIssuer, IssuerKept
<1>2. CASE UNCHANGED hostVars
    BY <1>1, <1>2 DEF hostVars
<1>3. ASSUME NEW h \in Hosts, NEW v \in {Idle} \union HostSteps, v.pc # "print",
             host' = [host EXCEPT ![h] = v], issuer' = issuer, shown' = shown
      PROVE  HostGood'
    BY <1>1, <1>3
<1>4. Idle.pc # "print"
    BY DEF Idle
<1>5. ASSUME NEW h \in Hosts, NEW token \in shown, Authorize(h, token) PROVE HostGood'
  <2>1. [pc |-> "mint", op |-> "keys"] \in HostSteps
      BY DEF HostSteps
  <2> QED BY <1>3, <1>5, <2>1 DEF Authorize
<1>6. ASSUME NEW h \in Hosts, NEW op \in {"keys", "serve"}, CountIssuers(h, op)
      PROVE  HostGood'
  <2>1. [pc |-> "insert", op |-> op] \in HostSteps
      BY DEF HostSteps
  <2> QED BY <1>3, <1>6, <2>1 DEF CountIssuers
<1>7. ASSUME NEW h \in Hosts, InsertIssuer(h) PROVE HostGood'
  <2>1. CASE issuer = None
    <3>1. host[h] \in HostSteps
        BY <1>1, <1>7 DEF InsertIssuer, Idle
    <3>2. [host[h] EXCEPT !.pc = "print"] \in HostSteps
        BY <3>1 DEF HostSteps
    <3>3. /\ host' = [host EXCEPT ![h] = [host[h] EXCEPT !.pc = "print"]]
          /\ issuer' = h /\ shown' = shown
        BY <1>7, <2>1 DEF InsertIssuer
    <3>4. shown = {}
        BY <1>1, <2>1
    <3>5. \A x \in Hosts : host[x].pc # "print"
        BY <1>1, <2>1
    <3> QED BY <1>1, <3>2, <3>3, <3>4, <3>5
  <2>2. CASE issuer # None
      BY <1>3, <1>4, <1>7, <2>2 DEF InsertIssuer
  <2> QED BY <2>1, <2>2
<1>8. ASSUME NEW h \in Hosts, PrintIssuer(h) PROVE HostGood'
  <2>1. issuer = h /\ shown' = shown \union {h} /\ issuer' = issuer
      BY <1>1, <1>8 DEF PrintIssuer
  <2>2. host[h] \in HostSteps
      BY <1>1, <1>8 DEF PrintIssuer, Idle
  <2> DEFINE v == IF host[h].op = "serve" THEN Idle ELSE [host[h] EXCEPT !.pc = "mint"]
  <2>3. v \in {Idle} \union HostSteps /\ v.pc # "print"
      BY <1>4, <2>2 DEF HostSteps
  <2>4. host' = [host EXCEPT ![h] = v]
      BY <1>8 DEF PrintIssuer
  <2> HIDE DEF v
  <2> QED BY <1>1, <2>1, <2>3, <2>4
<1>9. ASSUME NEW h \in Hosts, Mint(h) \/ HostFails(h) PROVE HostGood'
    BY <1>3, <1>4, <1>9 DEF Mint, HostFails
<1>10. ASSUME Tick \/ \E k \in DOMAIN keys : Revoke(k) PROVE UNCHANGED hostVars
    BY <1>10 DEF Tick, Revoke
<1>11. ASSUME NEW p \in Clients,
             \/ \E key, need : ProvideKey(p, key, need)
             \/ \E key, k : AdminRevoke(p, key, k)
             \/ \E need : UseStored(p, need)
      PROVE  UNCHANGED hostVars
    BY <1>11 DEF ProvideKey, AdminRevoke, UseStored, Begin
<1>12. ASSUME NEW p \in Clients,
             \/ CheckProvided(p) \/ Persist(p) \/ CheckStored(p) \/ DeleteStored(p)
             \/ Send(p) \/ Authenticate(p) \/ Serve(p) \/ CommandFails(p)
      PROVE  UNCHANGED hostVars
    BY <1>12 DEF CheckProvided, Persist, CheckStored, DeleteStored, Send,
                Authenticate, Serve, CommandFails
<1>13. CASE UNCHANGED vars
    BY <1>2, <1>13 DEF vars, hostVars
<1> HIDE DEF HostGood
<1>14. CASE Next
    BY <1>2, <1>5, <1>6, <1>7, <1>8, <1>9, <1>10, <1>11, <1>12, <1>14 DEF Next
<1> QED BY <1>13, <1>14

-----------------------------------------------------------------------------
(* The stores and the commands on them.                                    *)

(* What holds of the keys w that a store keeps, and of a command v.        *)
CredOK(w) == \A c \in Scopes : w[c] # 0 => w[c] \in DOMAIN keys /\ keys[w[c]].scope = c
CmdOK(v) ==
    /\ v # Idle => v.key \in DOMAIN keys /\ v.arg \in DOMAIN keys \union {0}
    /\ v.pc = "sent" /\ v.dead => ~Authenticates(v.key, v.need)
    /\ v.pc = "authed" => ~v.dead
    /\ v.pc \in {"checkStored", "delete"} => v.need \in Scopes
    /\ v.pc = "delete" => ~KeyCheck(v.key)

StoresGood ==
    /\ cred \in [Stores -> [Scopes -> Nat]]
    /\ cmd \in [Clients -> {Idle} \union Commands]
    /\ mutex \in Clients \union {None}
    /\ \A s \in Stores : CredOK(cred[s])
    /\ \A p \in Clients : CmdOK(cmd[p])

LEMMA IInvParts ==
    IInv <=> /\ now \in Nat /\ keys \in Seq(KeyRows)
             /\ \A k \in DOMAIN keys : keys[k].scope = "inbox.pull" <=> keys[k].fp # None
             /\ HostGood /\ RootsExist /\ RotationKeepsGrant /\ StoresGood /\ ChecksStored
BY DEF IInv, TypeOK, HostGood, StoresGood, CredOK, CmdOK, DeadStaysDead,
   DeadKeyNotServed, DeletesDead

LEMMA DbStore == \A p \in Clients : Db[p] \in Stores
BY RelayKeysAssumption

LEMMA CredMonotone ==
    ASSUME Monotone, NEW w, CredOK(w)
    PROVE  CredOK(w)'
BY DEF Monotone, CredOK

LEMMA CmdMonotone ==
    ASSUME TypeOK, Monotone, NEW v \in {Idle} \union Commands, CmdOK(v)
    PROVE  CmdOK(v)'
<1>1. CASE v = Idle
    BY <1>1 DEF CmdOK, Idle
<1>2. CASE v # Idle
  <2>1. v.key \in DOMAIN keys /\ DOMAIN keys \subseteq DOMAIN keys'
      BY <1>2 DEF CmdOK, Monotone
  <2>2. /\ ~KeyCheck(v.key) => ~KeyCheck(v.key)'
        /\ ~Authenticates(v.key, v.need) => ~Authenticates(v.key, v.need)'
      BY <2>1, DeadForever
  <2> QED BY <2>1, <2>2 DEF CmdOK
<1> QED BY <1>1, <1>2

(* What a store keeps, when one entry of it changes or none.               *)
LEMMA CredsKept ==
    ASSUME Monotone, StoresGood, NEW s \in Stores, NEW w \in [Scopes -> Nat],
           cred' = [cred EXCEPT ![s] = w], CredOK(w)'
    PROVE  cred' \in [Stores -> [Scopes -> Nat]] /\ \A x \in Stores : CredOK(cred[x])'
<1>1. cred' \in [Stores -> [Scopes -> Nat]]
    BY DEF StoresGood
<1>2. ASSUME NEW x \in Stores PROVE CredOK(cred[x])'
  <2>1. CASE x = s
    <3>1. cred'[x] = w
        BY <2>1 DEF StoresGood
    <3> QED BY <3>1 DEF CredOK
  <2>2. CASE x # s
    <3>1. PICK cw : cw = cred[x]
        OBVIOUS
    <3>2. CredOK(cw) /\ cred'[x] = cw
        BY <2>2, <3>1 DEF StoresGood
    <3>3. CredOK(cw)'
        BY <3>2, CredMonotone
    <3> QED BY <3>2, <3>3 DEF CredOK
  <2> QED BY <2>1, <2>2
<1> QED BY <1>1, <1>2

LEMMA CredsStay ==
    ASSUME Monotone, StoresGood, cred' = cred
    PROVE  cred' \in [Stores -> [Scopes -> Nat]] /\ \A x \in Stores : CredOK(cred[x])'
<1>1. ASSUME NEW x \in Stores PROVE CredOK(cred[x])'
  <2>1. PICK cw : cw = cred[x]
      OBVIOUS
  <2>2. CredOK(cw) /\ cred'[x] = cw
      BY <2>1 DEF StoresGood
  <2>3. CredOK(cw)'
      BY <2>2, CredMonotone
  <2> QED BY <2>2, <2>3 DEF CredOK
<1> QED BY <1>1 DEF StoresGood

(* A step of one client leaves the commands of the others as they were.    *)
LEMMA OneClient ==
    ASSUME TypeOK, Monotone, StoresGood, NEW p \in Clients,
           NEW v \in {Idle} \union Commands, cmd' = [cmd EXCEPT ![p] = v],
           cred' \in [Stores -> [Scopes -> Nat]], \A x \in Stores : CredOK(cred[x])',
           mutex' \in Clients \union {None}, CmdOK(v)'
    PROVE  StoresGood'
<1>1. cmd' \in [Clients -> {Idle} \union Commands]
    BY DEF StoresGood
<1>2. ASSUME NEW q \in Clients PROVE CmdOK(cmd[q])'
  <2>1. CASE q = p
    <3>1. cmd'[q] = v
        BY <2>1 DEF StoresGood
    <3> QED BY <3>1 DEF CmdOK, KeyCheck, Authenticates
  <2>2. CASE q # p
    <3>1. PICK cv : cv = cmd[q]
        OBVIOUS
    <3>2. CmdOK(cv) /\ cv \in {Idle} \union Commands /\ cmd'[q] = cv
        BY <2>2, <3>1 DEF StoresGood
    <3>3. CmdOK(cv)'
        BY <3>2, CmdMonotone
    <3> QED BY <3>2, <3>3 DEF CmdOK, KeyCheck, Authenticates
  <2> QED BY <2>1, <2>2
<1> QED BY <1>1, <1>2 DEF StoresGood

LEMMA OneCommand ==
    ASSUME TypeOK, Monotone, StoresGood, NEW p \in Clients,
           NEW v \in {Idle} \union Commands, cmd' = [cmd EXCEPT ![p] = v],
           cred' = cred, mutex' \in Clients \union {None}, CmdOK(v)'
    PROVE  StoresGood'
BY CredsStay, OneClient

LEMMA Ends ==
    ASSUME TypeOK, Monotone, StoresGood, NEW p \in Clients, End(p),
           cred' = cred, mutex' \in Clients \union {None}
    PROVE  StoresGood'
<1>1. PICK v : v = Idle
    OBVIOUS
<1>2. CmdOK(v)'
    BY <1>1 DEF CmdOK, Idle
<1>3. cmd' = [cmd EXCEPT ![p] = v] /\ v \in {Idle} \union Commands
    BY <1>1 DEF End
<1> QED BY <1>2, <1>3, OneCommand

LEMMA Begins ==
    ASSUME TypeOK, Monotone, StoresGood, NEW p \in Clients,
           NEW pc \in {"checkProvided", "checkStored", "send"},
           NEW key \in DOMAIN keys, NEW need \in Scopes \union {"admin", None},
           NEW arg \in DOMAIN keys \union {0}, Begin(p, pc, key, need, arg),
           pc = "checkStored" => need \in Scopes
    PROVE  StoresGood'
<1>1. PICK v : v = [pc |-> pc, key |-> key, need |-> need, arg |-> arg, dead |-> FALSE]
    OBVIOUS
<1>2. DOMAIN keys \subseteq Nat /\ DOMAIN keys \subseteq DOMAIN keys'
    BY DEF TypeOK, Monotone
<1>3. v \in Commands
    BY <1>1, <1>2 DEF Commands, Waiting
<1>4. CmdOK(v)'
    BY <1>1, <1>2 DEF CmdOK, Idle
<1>5. cmd' = [cmd EXCEPT ![p] = v] /\ cred' = cred /\ mutex' \in Clients \union {None}
    BY <1>1 DEF Begin, StoresGood
<1> QED BY <1>3, <1>4, <1>5, OneCommand

(* A command goes on to a step that waits for nothing it read before.      *)
LEMMA Steps ==
    ASSUME TypeOK, Monotone, StoresGood, NEW p \in Clients, cmd[p] # Idle,
           NEW pc \in {"persist", "send"}, Step(p, pc),
           cred' = cred, mutex' \in Clients \union {None}
    PROVE  StoresGood'
<1>1. PICK v : v = [cmd[p] EXCEPT !.pc = pc]
    OBVIOUS
<1>2. cmd[p] \in Commands /\ DOMAIN keys \subseteq DOMAIN keys'
    BY DEF StoresGood, Monotone
<1>3. v \in Commands /\ v.pc = pc /\ v.key = cmd[p].key /\ v.arg = cmd[p].arg
    BY <1>1, <1>2 DEF Commands, Waiting
<1>4. CmdOK(cmd[p])
    BY DEF StoresGood
<1>5. CmdOK(v)'
    BY <1>2, <1>3, <1>4 DEF CmdOK
<1>6. cmd' = [cmd EXCEPT ![p] = v]
    BY <1>1 DEF Step
<1> QED BY <1>3, <1>5, <1>6, OneCommand

LEMMA PersistKept ==
    ASSUME TypeOK, Monotone, StoresGood, NEW p \in Clients, Persist(p)
    PROVE  StoresGood'
<1>1. /\ cmd[p] \in Commands /\ cmd[p].key \in DOMAIN keys
      /\ cmd[p].arg \in DOMAIN keys \union {0}
    BY DEF Persist, StoresGood, CmdOK, Idle
<1>2. keys[cmd[p].key] \in KeyRows /\ cmd[p].key \in Nat /\ keys' = keys
    BY <1>1 DEF TypeOK, Persist
<1>3. keys[cmd[p].key].scope \in Scopes /\ Db[p] \in Stores
    BY <1>2, DbStore DEF KeyRows
<1>4. PICK w : w = [cred[Db[p]] EXCEPT ![keys[cmd[p].key].scope] = cmd[p].key]
    OBVIOUS
<1>5. w \in [Scopes -> Nat] /\ cred' = [cred EXCEPT ![Db[p]] = w]
    BY <1>2, <1>3, <1>4 DEF StoresGood, Persist, Save
<1>6. CredOK(w)'
    BY <1>1, <1>2, <1>3, <1>4 DEF StoresGood, CredOK
<1>7. cred' \in [Stores -> [Scopes -> Nat]] /\ \A x \in Stores : CredOK(cred[x])'
    BY <1>3, <1>5, <1>6, CredsKept
<1>8. mutex' \in Clients \union {None}
    BY DEF Persist, StoresGood
<1>9. CASE cmd[p].need = None
  <2>1. PICK v : v = Idle
      OBVIOUS
  <2>2. CmdOK(v)'
      BY <2>1 DEF CmdOK, Idle
  <2>3. cmd' = [cmd EXCEPT ![p] = v] /\ v \in {Idle} \union Commands
      BY <1>9, <2>1 DEF Persist, End
  <2> QED BY <1>7, <1>8, <2>2, <2>3, OneClient
<1>10. CASE cmd[p].need # None
  <2>1. PICK v : v = [cmd[p] EXCEPT !.pc = "send"]
      OBVIOUS
  <2>2. v \in Commands /\ v.pc = "send" /\ v.key = cmd[p].key /\ v.arg = cmd[p].arg
      BY <1>1, <2>1 DEF Commands, Waiting
  <2>3. CmdOK(v)'
      BY <1>1, <1>2, <2>2 DEF CmdOK
  <2>4. cmd' = [cmd EXCEPT ![p] = v]
      BY <1>10, <2>1 DEF Persist, Step
  <2> QED BY <1>7, <1>8, <2>2, <2>3, <2>4, OneClient
<1> QED BY <1>9, <1>10

LEMMA CheckStoredKept ==
    ASSUME TypeOK, Monotone, StoresGood, NEW p \in Clients, CheckStored(p)
    PROVE  StoresGood'
<1>1. /\ cmd[p] # Idle /\ cmd[p] \in Commands /\ cmd[p].key \in DOMAIN keys
      /\ cmd[p].arg \in DOMAIN keys \union {0} /\ cmd[p].need \in Scopes
    BY DEF CheckStored, StoresGood, CmdOK, Idle
<1>2. cred' = cred /\ mutex' \in Clients \union {None} /\ keys' = keys /\ now' = now
    BY DEF CheckStored, StoresGood
<1>3. CASE KeyCheck(cmd[p].key)
    BY <1>1, <1>2, <1>3, Steps DEF CheckStored
<1>4. CASE ~KeyCheck(cmd[p].key)
  <2>1. PICK v : v = [cmd[p] EXCEPT !.pc = "delete"]
      OBVIOUS
  <2>2. /\ v \in Commands /\ v.pc = "delete" /\ v.key = cmd[p].key
        /\ v.arg = cmd[p].arg /\ v.need = cmd[p].need
      BY <1>1, <2>1 DEF Commands, Waiting
  <2>3. ~KeyCheck(v.key)'
      BY <1>2, <1>4, <2>2 DEF KeyCheck
  <2>4. CmdOK(v)'
      BY <1>1, <1>2, <2>2, <2>3 DEF CmdOK
  <2>5. cmd' = [cmd EXCEPT ![p] = v]
      BY <1>4, <2>1 DEF CheckStored, Step
  <2> QED BY <1>2, <2>2, <2>4, <2>5, OneCommand
<1> QED BY <1>3, <1>4

LEMMA DeleteKept ==
    ASSUME TypeOK, Monotone, StoresGood, NEW p \in Clients, DeleteStored(p)
    PROVE  StoresGood'
<1>1. cmd[p].need \in Scopes /\ Db[p] \in Stores /\ CredOK(cred[Db[p]]) /\ keys' = keys
    BY DbStore DEF DeleteStored, StoresGood, CmdOK
<1>2. PICK w : w = [cred[Db[p]] EXCEPT ![cmd[p].need] = 0]
    OBVIOUS
<1>3. w \in [Scopes -> Nat] /\ cred' = [cred EXCEPT ![Db[p]] = w]
    BY <1>1, <1>2 DEF DeleteStored, StoresGood
<1>4. CredOK(w)'
    BY <1>1, <1>2 DEF CredOK, StoresGood
<1>5. cred' \in [Stores -> [Scopes -> Nat]] /\ \A x \in Stores : CredOK(cred[x])'
    BY <1>1, <1>3, <1>4, CredsKept
<1>6. PICK v : v = Idle
    OBVIOUS
<1>7. CmdOK(v)'
    BY <1>6 DEF CmdOK, Idle
<1>8. /\ cmd' = [cmd EXCEPT ![p] = v] /\ v \in {Idle} \union Commands
      /\ mutex' \in Clients \union {None}
    BY <1>6 DEF DeleteStored, End, StoresGood
<1> QED BY <1>5, <1>7, <1>8, OneClient

LEMMA SendKept ==
    ASSUME TypeOK, Monotone, StoresGood, NEW p \in Clients, Send(p)
    PROVE  StoresGood'
<1>1. /\ cmd[p] \in Commands /\ cmd[p].key \in DOMAIN keys
      /\ cmd[p].arg \in DOMAIN keys \union {0}
    BY DEF Send, StoresGood, CmdOK, Idle
<1>2. cred' = cred /\ mutex' \in Clients \union {None} /\ keys' = keys /\ now' = now
    BY DEF Send, StoresGood
<1>3. PICK d \in BOOLEAN : d = ~Authenticates(cmd[p].key, cmd[p].need)
    OBVIOUS
<1>4. PICK v : v = [cmd[p] EXCEPT !.pc = "sent", !.dead = d]
    OBVIOUS
<1>5. /\ v \in Commands /\ v.pc = "sent" /\ v.dead = d /\ v.key = cmd[p].key
      /\ v.arg = cmd[p].arg /\ v.need = cmd[p].need
    BY <1>1, <1>4 DEF Commands, Waiting
<1>6. d => ~Authenticates(v.key, v.need)'
    BY <1>2, <1>3, <1>5 DEF Authenticates
<1>7. CmdOK(v)'
    BY <1>1, <1>2, <1>5, <1>6 DEF CmdOK
<1>8. cmd' = [cmd EXCEPT ![p] = v]
    BY <1>3, <1>4, Zenon DEF Send
<1> QED BY <1>2, <1>5, <1>7, <1>8, OneCommand

LEMMA AuthenticateKept ==
    ASSUME TypeOK, Monotone, StoresGood, NEW p \in Clients, Authenticate(p)
    PROVE  StoresGood'
<1>1. /\ cmd[p] \in Commands /\ cmd[p].key \in DOMAIN keys
      /\ cmd[p].arg \in DOMAIN keys \union {0} /\ cmd[p].pc = "sent"
      /\ cmd[p].dead => ~Authenticates(cmd[p].key, cmd[p].need)
    BY DEF Authenticate, StoresGood, CmdOK, Idle
<1>2. cred' = cred /\ mutex' \in Clients \union {None} /\ keys' = keys
    BY DEF Authenticate, StoresGood
<1>3. CASE ~Authenticates(cmd[p].key, cmd[p].need)
    BY <1>2, <1>3, Ends DEF Authenticate
<1>4. CASE Authenticates(cmd[p].key, cmd[p].need)
  <2>1. PICK v : v = [cmd[p] EXCEPT !.pc = "authed"]
      OBVIOUS
  <2>2. /\ v \in Commands /\ v.pc = "authed" /\ v.key = cmd[p].key
        /\ v.arg = cmd[p].arg /\ ~v.dead
      BY <1>1, <1>4, <2>1 DEF Commands, Waiting
  <2>3. CmdOK(v)'
      BY <1>1, <1>2, <2>2 DEF CmdOK
  <2>4. cmd' = [cmd EXCEPT ![p] = v]
      BY <1>4, <2>1 DEF Authenticate, Step
  <2> QED BY <1>2, <2>2, <2>3, <2>4, OneCommand
<1> QED BY <1>3, <1>4

(* Steps of everybody but the clients.                                     *)
LEMMA OthersStep ==
    ASSUME \/ Tick
           \/ \E h \in Hosts, token \in shown : Authorize(h, token)
           \/ \E h \in Hosts, op \in {"keys", "serve"} : CountIssuers(h, op)
           \/ \E h \in Hosts :
                 InsertIssuer(h) \/ PrintIssuer(h) \/ Mint(h) \/ HostFails(h)
           \/ \E k \in DOMAIN keys : Revoke(k)
    PROVE  UNCHANGED clientVars
BY DEF Tick, Authorize, CountIssuers, InsertIssuer, PrintIssuer, Mint, HostFails, Revoke

LEMMA StoresKept ==
    ASSUME IInv, [Next]_vars
    PROVE  StoresGood'
<1>1. TypeOK /\ Monotone /\ StoresGood
    BY TableKept, IInvParts DEF IInv
<1>2. CASE UNCHANGED clientVars
  <2>1. cred' = cred /\ cmd' = cmd /\ mutex' = mutex
      BY <1>2 DEF clientVars
  <2>2. ASSUME NEW p \in Clients PROVE StoresGood'
    <3>1. PICK v : v = cmd[p]
        OBVIOUS
    <3>2. CmdOK(v) /\ v \in {Idle} \union Commands
        BY <1>1, <3>1 DEF StoresGood
    <3>3. cmd' = [cmd EXCEPT ![p] = v] /\ mutex' \in Clients \union {None}
        BY <1>1, <2>1, <3>1 DEF StoresGood
    <3>4. CmdOK(v)'
        BY <1>1, <3>2, CmdMonotone
    <3> QED BY <1>1, <2>1, <3>2, <3>3, <3>4, OneCommand
  <2>3. CASE Clients = {}
      BY <1>1, <2>1, <2>3, CredsStay DEF StoresGood
  <2> QED BY <2>2, <2>3
<1>3. ASSUME NEW p \in Clients, NEW key \in DOMAIN keys,
             NEW need \in Scopes \union {None}, ProvideKey(p, key, need)
      PROVE  StoresGood'
    BY <1>1, <1>3, Begins DEF ProvideKey
<1>4. ASSUME NEW p \in Clients, NEW key \in DOMAIN keys, NEW k \in DOMAIN keys,
             AdminRevoke(p, key, k)
      PROVE  StoresGood'
    BY <1>1, <1>4, Begins DEF AdminRevoke
<1>5. ASSUME NEW p \in Clients, NEW need \in Scopes, UseStored(p, need)
      PROVE  StoresGood'
  <2>1. cred[Db[p]][need] \in DOMAIN keys
      BY <1>1, <1>5, DbStore DEF UseStored, StoresGood, CredOK
  <2> QED BY <1>1, <1>5, <2>1, Begins DEF UseStored
<1>6. ASSUME NEW p \in Clients, CheckProvided(p) PROVE StoresGood'
  <2>1. cmd[p] # Idle /\ cred' = cred /\ mutex' \in Clients \union {None}
      BY <1>1, <1>6 DEF CheckProvided, StoresGood, Idle
  <2>2. Step(p, "persist") \/ End(p)
      BY <1>6 DEF CheckProvided
  <2> QED BY <1>1, <2>1, <2>2, Steps, Ends
<1>7. ASSUME NEW p \in Clients, Serve(p) \/ CommandFails(p) PROVE StoresGood'
  <2>1. End(p) /\ cred' = cred /\ mutex' \in Clients \union {None}
      BY <1>1, <1>7 DEF Serve, CommandFails, StoresGood
  <2> QED BY <1>1, <2>1, Ends
<1>8. ASSUME NEW p \in Clients,
             \/ Persist(p) \/ CheckStored(p) \/ DeleteStored(p)
             \/ Send(p) \/ Authenticate(p)
      PROVE  StoresGood'
    BY <1>1, <1>8, PersistKept, CheckStoredKept, DeleteKept, SendKept, AuthenticateKept
<1>9. CASE UNCHANGED vars
    BY <1>2, <1>9 DEF vars, clientVars
<1>10. CASE Next
    BY <1>2, <1>3, <1>4, <1>5, <1>6, <1>7, <1>8, <1>10, OthersStep DEF Next
<1> QED BY <1>9, <1>10

-----------------------------------------------------------------------------
(* Commands that do not overlap.                                           *)

(* While a client works, or begins, nobody else works on its store: what   *)
(* it does there is seen by no other command.                              *)
LEMMA AloneStep ==
    ASSUME ~Overlap, ChecksStored, StoresGood, NEW p \in Clients,
           cmd[p] # Idle \/ Alone(p), NEW v, cmd' = [cmd EXCEPT ![p] = v],
           \A x \in Stores \ {Db[p]} : cred'[x] = cred[x],
           v.pc \in {"checkStored", "delete"} => cred'[Db[p]][v.need] = v.key
    PROVE  ChecksStored'
<1>1. \A q \in Clients : q # p /\ Db[q] = Db[p] => cmd[q] = Idle
    BY DEF ChecksStored, Alone
<1>2. cmd'[p] = v /\ \A q \in Clients : q # p => cmd'[q] = cmd[q]
    BY DEF StoresGood
<1>3. ASSUME NEW q \in Clients, NEW r \in Clients, q # r, Db[q] = Db[r]
      PROVE  cmd'[q] = Idle \/ cmd'[r] = Idle
    BY <1>1, <1>2, <1>3 DEF ChecksStored
<1>4. ASSUME NEW q \in Clients, cmd'[q].pc \in {"checkStored", "delete"}
      PROVE  cred'[Db[q]][cmd'[q].need] = cmd'[q].key
  <2>1. CASE q = p
      BY <1>2, <1>4, <2>1
  <2>2. CASE q # p
    <3>1. cmd'[q] = cmd[q] /\ Db[q] # Db[p]
        BY <1>1, <1>2, <1>4, <2>2 DEF Idle
    <3>2. cred'[Db[q]] = cred[Db[q]]
        BY <3>1, DbStore
    <3> QED BY <1>4, <3>1, <3>2 DEF ChecksStored
  <2> QED BY <2>1, <2>2
<1> QED BY <1>3, <1>4 DEF ChecksStored

LEMMA AloneKept ==
    ASSUME IInv, [Next]_vars
    PROVE  ChecksStored'
<1> SUFFICES ASSUME ~Overlap PROVE ChecksStored'
    BY DEF ChecksStored
<1>1. ChecksStored /\ StoresGood
    BY IInvParts
<1>2. CASE UNCHANGED <<cred, cmd>>
    BY <1>1, <1>2 DEF ChecksStored
<1>3. ASSUME NEW p \in Clients, NEW pc, NEW key, NEW need, NEW arg,
             Begin(p, pc, key, need, arg),
             pc \in {"checkStored", "delete"} => cred[Db[p]][need] = key
      PROVE  ChecksStored'
  <2>1. PICK v : v = [pc |-> pc, key |-> key, need |-> need, arg |-> arg, dead |-> FALSE]
      OBVIOUS
  <2>2. Alone(p) /\ cmd' = [cmd EXCEPT ![p] = v] /\ cred' = cred
      BY <1>3, <2>1 DEF Begin
  <2>3. v.pc = pc /\ v.need = need /\ v.key = key
      BY <2>1
  <2> QED BY <1>1, <1>3, <2>2, <2>3, AloneStep
<1>4. ASSUME NEW p \in Clients, NEW key, NEW need, ProvideKey(p, key, need)
      PROVE  ChecksStored'
    BY <1>3, <1>4 DEF ProvideKey
<1>5. ASSUME NEW p \in Clients, NEW key, NEW k, AdminRevoke(p, key, k)
      PROVE  ChecksStored'
    BY <1>3, <1>5 DEF AdminRevoke
<1>6. ASSUME NEW p \in Clients, NEW need, UseStored(p, need) PROVE ChecksStored'
    BY <1>3, <1>6 DEF UseStored
<1>7. ASSUME NEW p \in Clients, cmd[p] # Idle, End(p),
             \A x \in Stores \ {Db[p]} : cred'[x] = cred[x]
      PROVE  ChecksStored'
  <2>1. cmd' = [cmd EXCEPT ![p] = Idle] /\ Idle.pc = "idle"
      BY <1>7 DEF End, Idle
  <2> QED BY <1>1, <1>7, <2>1, AloneStep
<1>8. ASSUME NEW p \in Clients, cmd[p] # Idle, NEW v,
             v.pc \notin {"checkStored", "delete"}, cmd' = [cmd EXCEPT ![p] = v],
             \A x \in Stores \ {Db[p]} : cred'[x] = cred[x]
      PROVE  ChecksStored'
    BY <1>1, <1>8, AloneStep
<1>9. ASSUME NEW p \in Clients, NEW pc, cmd[p] \in Commands,
             pc \notin {"checkStored", "delete"}, Step(p, pc),
             \A x \in Stores \ {Db[p]} : cred'[x] = cred[x]
      PROVE  ChecksStored'
  <2>1. PICK v : v = [cmd[p] EXCEPT !.pc = pc]
      OBVIOUS
  <2>2. v.pc = pc /\ cmd[p] # Idle
      BY <1>9, <2>1 DEF Commands, Idle
  <2>3. cmd' = [cmd EXCEPT ![p] = v]
      BY <1>9, <2>1 DEF Step
  <2> QED BY <1>8, <1>9, <2>2, <2>3
<1>10. ASSUME NEW p \in Clients, cmd[p].pc # "idle" PROVE cmd[p] \in Commands /\ cmd[p] # Idle
    BY <1>1, <1>10 DEF StoresGood, Idle
<1>11. ASSUME NEW p \in Clients, CheckProvided(p) \/ Authenticate(p) PROVE ChecksStored'
  <2>1. cmd[p] \in Commands /\ cmd[p] # Idle /\ cred' = cred
      BY <1>10, <1>11 DEF CheckProvided, Authenticate
  <2>2. End(p) \/ Step(p, "persist") \/ Step(p, "authed")
      BY <1>11 DEF CheckProvided, Authenticate
  <2> QED BY <1>7, <1>9, <2>1, <2>2
<1>12. ASSUME NEW p \in Clients, Persist(p) PROVE ChecksStored'
  <2>1. cmd[p] \in Commands /\ cmd[p] # Idle
      BY <1>10, <1>12 DEF Persist
  <2>2. \A x \in Stores \ {Db[p]} : cred'[x] = cred[x]
      BY <1>1, <1>12 DEF Persist, Save, StoresGood
  <2>3. End(p) \/ Step(p, "send")
      BY <1>12 DEF Persist
  <2> QED BY <1>7, <1>9, <2>1, <2>2, <2>3
<1>13. ASSUME NEW p \in Clients, DeleteStored(p) PROVE ChecksStored'
  <2>1. \A x \in Stores \ {Db[p]} : cred'[x] = cred[x]
      BY <1>1, <1>13 DEF DeleteStored, StoresGood
  <2> QED BY <1>7, <1>10, <1>13, <2>1 DEF DeleteStored
<1>14. ASSUME NEW p \in Clients, CheckStored(p) PROVE ChecksStored'
  <2>1. /\ cmd[p] \in Commands /\ cmd[p] # Idle /\ cred' = cred
        /\ cred[Db[p]][cmd[p].need] = cmd[p].key
      BY <1>1, <1>10, <1>14 DEF CheckStored, ChecksStored
  <2>2. PICK pc : Step(p, pc)
      BY <1>14 DEF CheckStored
  <2>3. PICK v : v = [cmd[p] EXCEPT !.pc = pc]
      OBVIOUS
  <2>4. v.key = cmd[p].key /\ v.need = cmd[p].need
      BY <2>1, <2>3 DEF Commands
  <2>5. cmd' = [cmd EXCEPT ![p] = v]
      BY <2>2, <2>3 DEF Step
  <2> QED BY <1>1, <2>1, <2>4, <2>5, AloneStep
<1>15. ASSUME NEW p \in Clients, Send(p) PROVE ChecksStored'
  <2>1. cmd[p] \in Commands /\ cmd[p] # Idle /\ cred' = cred
      BY <1>10, <1>15 DEF Send
  <2>2. PICK d : d = ~Authenticates(cmd[p].key, cmd[p].need)
      OBVIOUS
  <2>3. PICK v : v = [cmd[p] EXCEPT !.pc = "sent", !.dead = d]
      OBVIOUS
  <2>4. v.pc = "sent"
      BY <2>1, <2>3 DEF Commands
  <2>5. cmd' = [cmd EXCEPT ![p] = v]
      BY <1>15, <2>2, <2>3, Zenon DEF Send
  <2> QED BY <1>8, <2>1, <2>4, <2>5
<1>16. ASSUME NEW p \in Clients, Serve(p) \/ CommandFails(p) PROVE ChecksStored'
  <2>1. cmd[p] # Idle
      BY <1>16 DEF Serve, CommandFails, Waiting, Idle
  <2> QED BY <1>7, <1>16, <2>1 DEF Serve, CommandFails
<1>17. CASE UNCHANGED vars
    BY <1>2, <1>17 DEF vars
<1>18. CASE UNCHANGED clientVars
    BY <1>2, <1>18 DEF clientVars
<1>19. CASE Next
    BY <1>4, <1>5, <1>6, <1>11, <1>12, <1>13, <1>14, <1>15, <1>16, <1>18, <1>19,
       OthersStep DEF Next
<1> QED BY <1>17, <1>19

-----------------------------------------------------------------------------
LEMMA NextGood ==
    ASSUME IInv, [Next]_vars
    PROVE  IInv'
<1>1. Monotone /\ keys' \in Seq(KeyRows)
      /\ \A k \in DOMAIN keys' : keys'[k].scope = "inbox.pull" <=> keys'[k].fp # None
    BY TableKept DEF IInv
<1>2. now' \in Nat
    BY <1>1 DEF Monotone
<1>3. HostGood' /\ StoresGood' /\ RootsExist' /\ RotationKeepsGrant' /\ ChecksStored'
    BY HostKept, StoresKept, LinesKept, AloneKept
<1>4. TypeOK' /\ PrintsIssuer' /\ IssuerKept'
    BY <1>1, <1>2, <1>3 DEF TypeOK, HostGood, StoresGood, CredOK, CmdOK
<1>5. DeadStaysDead' /\ DeadKeyNotServed' /\ DeletesDead'
    BY <1>3 DEF StoresGood, CmdOK, DeadStaysDead, DeadKeyNotServed, DeletesDead
<1> QED BY <1>3, <1>4, <1>5 DEF IInv

(* IInv is inductive: it holds in every state of every instance of the     *)
(* relay's key table, host commands and personal stores.                   *)
THEOREM Inductive == Spec => []IInv
<1>1. Init => IInv
    BY InitGood
<1>2. IInv /\ [Next]_vars => IInv'
    BY NextGood
<1> QED BY <1>1, <1>2, PTL DEF Spec

(* Type correctness of the key table, the host commands and the stores.    *)
THEOREM TypeCorrect == Spec => []TypeOK
<1>1. IInv => TypeOK
    BY DEF IInv
<1> QED BY <1>1, Inductive, PTL

(* However many first commands race for the licensee issuer, a token that  *)
(* was printed as the issuer is the one the relay accepts.                 *)
THEOREM IssuerSafe == Spec => []IssuerKept
<1>1. IInv => IssuerKept
    BY DEF IInv
<1> QED BY <1>1, Inductive, PTL

(* However rotations mix, a key and its replacements carry one grant and   *)
(* at most one of them is live.                                            *)
THEOREM RotationSafe == Spec => []RotationKeepsGrant
<1>1. IInv => RotationKeepsGrant
    BY DEF IInv
<1> QED BY <1>1, Inductive, PTL

(* keycheck and authenticate agree about every key at every instant.       *)
THEOREM CheckSafe == Spec => []CheckAgreesWithUse
<1>1. ASSUME IInv, NEW k \in DOMAIN keys
      PROVE  KeyCheck(k) <=> Authenticates(k, keys[k].scope)
  <2>1. keys[k] \in KeyRows /\ now \in Nat
      BY <1>1 DEF IInv, TypeOK
  <2>2. keys[k].expires \in Nat
      BY <2>1 DEF KeyRows
  <2> QED BY <2>1, <2>2 DEF KeyCheck, Authenticates
<1>2. IInv => CheckAgreesWithUse
    BY <1>1 DEF CheckAgreesWithUse
<1> QED BY <1>2, Inductive, PTL

(* A request sent with a dead key, or one of another scope, is not served. *)
THEOREM DeadKeySafe == Spec => []DeadKeyNotServed
<1>1. IInv => DeadKeyNotServed
    BY DEF IInv
<1> QED BY <1>1, Inductive, PTL

(* What makes a stored key go away: the DELETE of a command that was told  *)
(* that a key it had read from that place is dead.                         *)
Told(p, s, c) ==
    Db[p] = s /\ cmd[p].pc = "delete" /\ cmd[p].need = c /\ ~KeyCheck(cmd[p].key)

LEMMA StepDeletes ==
    ASSUME IInv, [Next]_vars, NEW x \in Stores, NEW c \in Scopes,
           cred[x][c] # 0, cred'[x][c] = 0
    PROVE  \E p \in Clients : Told(p, x, c)
<1>1. TypeOK /\ StoresGood /\ cred \in [Stores -> [Scopes -> Nat]]
    BY IInvParts DEF IInv, StoresGood
<1>2. cred' # cred
    OBVIOUS
<1>3. ASSUME NEW p \in Clients, DeleteStored(p) PROVE Told(p, x, c)
  <2>1. /\ ~KeyCheck(cmd[p].key) /\ cmd[p].need \in Scopes /\ cmd[p].pc = "delete"
        /\ cred' = [cred EXCEPT ![Db[p]][cmd[p].need] = 0]
      BY <1>1, <1>3 DEF DeleteStored, StoresGood, CmdOK
  <2>2. x = Db[p] /\ c = cmd[p].need
      BY <1>1, <2>1, DbStore
  <2> QED BY <2>1, <2>2 DEF Told
<1>4. ASSUME NEW p \in Clients, Persist(p) PROVE FALSE
  <2>1. cmd[p].key \in DOMAIN keys
      BY <1>1, <1>4 DEF Persist, StoresGood, CmdOK, Idle
  <2>2. cmd[p].key # 0
      BY <1>1, <2>1 DEF TypeOK
  <2>3. cred' = [cred EXCEPT ![Db[p]][keys[cmd[p].key].scope] = cmd[p].key]
      BY <1>4 DEF Persist, Save
  <2> QED BY <1>1, <2>2, <2>3, DbStore
<1>5. ASSUME NEW p \in Clients,
             \/ \E key, need : ProvideKey(p, key, need)
             \/ \E key, k : AdminRevoke(p, key, k)
             \/ \E need : UseStored(p, need)
      PROVE  cred' = cred
    BY <1>5 DEF ProvideKey, AdminRevoke, UseStored, Begin
<1>6. ASSUME NEW p \in Clients,
             \/ CheckProvided(p) \/ CheckStored(p) \/ Send(p)
             \/ Authenticate(p) \/ Serve(p) \/ CommandFails(p)
      PROVE  cred' = cred
    BY <1>6 DEF CheckProvided, CheckStored, Send, Authenticate, Serve, CommandFails
<1>7. CASE UNCHANGED vars
    BY <1>2, <1>7 DEF vars
<1>8. CASE UNCHANGED clientVars
    BY <1>2, <1>8 DEF clientVars
<1>9. CASE Next
    BY <1>2, <1>3, <1>4, <1>5, <1>6, <1>8, <1>9, OthersStep DEF Next
<1> QED BY <1>7, <1>9

(* Whatever overlaps, a stored key goes away only after a dead answer: a   *)
(* check that is lost or times out deletes nothing.                        *)
DeletedAfterDeadAnswer ==
    [][\A s \in Stores, c \in Scopes :
          cred[s][c] # 0 /\ cred'[s][c] = 0 => \E p \in Clients : Told(p, s, c)]_vars

(* resolve_relay_auth deletes only after the relay said that the key it    *)
(* had read is dead, also when commands overlap on a store.                *)
THEOREM DeadAnswerFirst == Spec => DeletedAfterDeadAnswer
<1>1. IInv /\ [Next]_vars =>
        [\A s \in Stores, c \in Scopes :
           cred[s][c] # 0 /\ cred'[s][c] = 0 => \E p \in Clients : Told(p, s, c)]_vars
    BY StepDeletes
<1> QED BY <1>1, Inductive, PTL DEF Spec, DeletedAfterDeadAnswer

LEMMA AloneKeepsLive ==
    ASSUME ~Overlap, IInv, [Next]_vars, NEW s \in Stores, NEW c \in Scopes,
           cred[s][c] # 0, cred'[s][c] = 0
    PROVE  ~KeyCheck(cred[s][c])
<1>1. PICK p \in Clients : Told(p, s, c)
    BY StepDeletes
<1>2. ChecksStored
    BY DEF IInv
<1>3. cred[s][c] = cmd[p].key
    BY <1>1, <1>2 DEF ChecksStored, Told
<1> QED BY <1>1, <1>3 DEF Told

(* If the commands on a store do not overlap, the key that                 *)
(* resolve_relay_auth deletes is the one it checked, and so a dead one.    *)
(* With overlapping commands it may be a good key that loadkey stored      *)
(* after the check.                                                        *)
THEOREM LiveSafe == ~Overlap => (Spec => LiveCredentialKept)
<1> SUFFICES ASSUME ~Overlap PROVE Spec => LiveCredentialKept
    OBVIOUS
<1>1. IInv /\ [Next]_vars =>
        [\A s \in Stores, c \in Scopes :
           cred[s][c] # 0 /\ cred'[s][c] = 0 => ~KeyCheck(cred[s][c])]_vars
    BY AloneKeepsLive
<1> QED BY <1>1, Inductive, PTL DEF Spec, LiveCredentialKept

=============================================================================
