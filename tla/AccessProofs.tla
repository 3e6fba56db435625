---------------------------- MODULE AccessProofs ----------------------------
(* Safety of Access for every number of commands, rows, PINs and files.    *)
EXTENDS Access, FiniteSetTheorems, TLAPS

CommandSteps == {Idle} \union Inserting \union Prompting \union AtGate
GateSteps == {"verify", "bump", "count", "lock", "accept", "use"}

(* The step a command is at tells its shape.                               *)
LEMMA Shapes ==
    ASSUME NEW c \in CommandSteps
    PROVE  /\ c.pc \in {"idle", "insert", "setpin"} \union GateSteps
           /\ c.pc = "idle" <=> c = Idle
           /\ c.pc = "insert" => c \in Inserting
           /\ c.pc = "setpin" => c \in Prompting
           /\ c.pc \in GateSteps => c \in AtGate
<1>1. CASE c = Idle
    BY <1>1 DEF Idle, GateSteps
<1>2. CASE c \in Inserting
    BY <1>2 DEF Inserting, Idle, GateSteps
<1>3. CASE c \in Prompting
    BY <1>3 DEF Prompting, Idle, GateSteps
<1>4. CASE c \in AtGate
    BY <1>4 DEF AtGate, Idle, GateSteps
<1> QED BY <1>1, <1>2, <1>3, <1>4 DEF CommandSteps

(* Goto moves one command.                                                 *)
LEMMA Moves ==
    ASSUME cmd \in [Procs -> CommandSteps], NEW p \in Procs,
           NEW c \in CommandSteps, Goto(p, c)
    PROVE  /\ cmd' \in [Procs -> CommandSteps]
           /\ cmd'[p] = c /\ \A q \in Procs \ {p} : cmd'[q] = cmd[q]
BY DEF Goto

LEMMA Ends ==
    ASSUME cmd \in [Procs -> CommandSteps], NEW p \in Procs, Done(p)
    PROVE  /\ cmd' \in [Procs -> CommandSteps]
           /\ cmd'[p] = Idle /\ cmd'[p].pc = "idle"
           /\ \A q \in Procs \ {p} : cmd'[q] = cmd[q]
<1>1. Idle \in CommandSteps /\ Goto(p, Idle)
    BY DEF CommandSteps, Done
<1>2. Idle.pc = "idle"
    BY DEF Idle
<1> QED BY <1>1, <1>2, Moves

(* A command at the gate goes on.                                          *)
LEMMA GoesOn ==
    ASSUME NEW c \in AtGate, NEW pc \in GateSteps
    PROVE  LET d == [c EXCEPT !.pc = pc]
           IN  /\ d \in AtGate /\ d \in CommandSteps /\ d.pc = pc /\ d.id = c.id
               /\ d.how = c.how /\ d.shut = c.shut /\ d.every = c.every
BY DEF AtGate, GateSteps, CommandSteps

(* The table of rows: a new row, or a row of which a field changes.        *)
LEMMA AppendRow ==
    ASSUME rows \in Seq(RowRecords), NEW r \in RowRecords, rows' = Append(rows, r)
    PROVE  /\ rows' \in Seq(RowRecords) /\ Len(rows') = Len(rows) + 1
           /\ Ids' = Ids \union {Len(rows) + 1} /\ Len(rows) + 1 \notin Ids
           /\ Len(rows) + 1 \in Nat
           /\ rows'[Len(rows) + 1] = r /\ \A i \in Ids : rows'[i] = rows[i]
BY DEF Ids

LEMMA ChangeRow ==
    ASSUME rows \in Seq(RowRecords), NEW k \in Ids, NEW r \in RowRecords,
           rows' = [rows EXCEPT ![k] = r]
    PROVE  /\ rows' \in Seq(RowRecords) /\ Len(rows') = Len(rows) /\ Ids' = Ids
           /\ rows'[k] = r /\ \A i \in Ids \ {k} : rows'[i] = rows[i]
BY DEF Ids

(* What TypeOK says, with the set of commands by its name.                 *)
LEMMA Typed ==
    TypeOK <=>
    /\ now \in 0..MaxTime
    /\ disk \in [Paths -> 0..MaxWrites]
    /\ rows \in Seq(RowRecords) /\ Len(rows) <= MaxRows
    /\ pins \in [DOMAIN pins -> PinRows] /\ DOMAIN pins \subseteq Ids
    /\ tokens \subseteq {i \in Ids : rows[i].kind = "share"}
    /\ cmd \in [Procs -> CommandSteps]
    /\ \A p \in Procs : cmd[p].pc \notin {"idle", "insert"} => cmd[p].id \in Ids
    /\ \A p \in Procs : cmd[p].pc \in GateSteps \ {"use"} => cmd[p].id \in DOMAIN pins
    /\ wrong \in [1..MaxRows -> Nat]
    /\ lost \subseteq 1..MaxWrites
    /\ count \in [writes: 0..MaxWrites, kills: 0..MaxKills, resets: 0..MaxResets]
<1>1. GateSteps \ {"use"} = {"verify", "bump", "count", "lock", "accept"}
    BY DEF GateSteps
<1> QED BY <1>1 DEF TypeOK, CommandSteps

LEMMA TypedNext ==
    ASSUME now' \in 0..MaxTime,
           disk' \in [Paths -> 0..MaxWrites],
           rows' \in Seq(RowRecords), Len(rows') <= MaxRows,
           pins' \in [DOMAIN pins' -> PinRows], DOMAIN pins' \subseteq Ids',
           tokens' \subseteq {i \in Ids' : rows'[i].kind = "share"},
           cmd' \in [Procs -> CommandSteps],
           \A p \in Procs : cmd'[p].pc \notin {"idle", "insert"} => cmd'[p].id \in Ids',
           \A p \in Procs : cmd'[p].pc \in GateSteps \ {"use"} => cmd'[p].id \in DOMAIN pins',
           wrong' \in [1..MaxRows -> Nat],
           lost' \subseteq 1..MaxWrites,
           count' \in [writes: 0..MaxWrites, kills: 0..MaxKills, resets: 0..MaxResets]
    PROVE  TypeOK'
<1>1. GateSteps \ {"use"} = {"verify", "bump", "count", "lock", "accept"}
    BY DEF GateSteps
<1> QED BY <1>1 DEF TypeOK, CommandSteps

(* The conditions of TypeOK on commands, for a step of command p to c.     *)
LEMMA CommandMoves ==
    ASSUME TypeOK, NEW p \in Procs, NEW c \in CommandSteps, Goto(p, c),
           Ids \subseteq Ids', DOMAIN pins \subseteq DOMAIN pins',
           c.pc \notin {"idle", "insert"} => c.id \in Ids',
           c.pc \in GateSteps \ {"use"} => c.id \in DOMAIN pins'
    PROVE  /\ cmd' \in [Procs -> CommandSteps]
           /\ \A q \in Procs : cmd'[q].pc \notin {"idle", "insert"} => cmd'[q].id \in Ids'
           /\ \A q \in Procs : cmd'[q].pc \in GateSteps \ {"use"} =>
                                 cmd'[q].id \in DOMAIN pins'
<1>1. /\ cmd' \in [Procs -> CommandSteps]
      /\ cmd'[p] = c /\ \A q \in Procs \ {p} : cmd'[q] = cmd[q]
    BY Moves, Typed
<1>2. /\ \A q \in Procs : cmd[q].pc \notin {"idle", "insert"} => cmd[q].id \in Ids
      /\ \A q \in Procs : cmd[q].pc \in GateSteps \ {"use"} => cmd[q].id \in DOMAIN pins
    BY Typed
<1> QED BY <1>1, <1>2

LEMMA CommandEnds ==
    ASSUME TypeOK, NEW p \in Procs, Done(p),
           Ids \subseteq Ids', DOMAIN pins \subseteq DOMAIN pins'
    PROVE  /\ cmd' \in [Procs -> CommandSteps]
           /\ \A q \in Procs : cmd'[q].pc \notin {"idle", "insert"} => cmd'[q].id \in Ids'
           /\ \A q \in Procs : cmd'[q].pc \in GateSteps \ {"use"} =>
                                 cmd'[q].id \in DOMAIN pins'
<1>1. Idle \in CommandSteps /\ Idle.pc = "idle" /\ Goto(p, Idle)
    BY DEF CommandSteps, Idle, Done
<1>2. "idle" \notin GateSteps
    BY DEF GateSteps
<1> QED BY <1>1, <1>2, CommandMoves

(* A command makes a row and, if it was given --pin, prompts for it.       *)
LEMMA RowMade ==
    ASSUME TypeOK, NEW p \in Procs, NEW r \in RowRecords, NEW asked \in BOOLEAN,
           NEW every \in BOOLEAN, Room(asked), rows' = Append(rows, r),
           AfterInsert(p, Len(rows) + 1, asked, every), pins' = pins
    PROVE  /\ rows' \in Seq(RowRecords) /\ Len(rows') <= MaxRows
           /\ Ids' = Ids \union {Len(rows) + 1} /\ Len(rows) + 1 \notin Ids
           /\ rows'[Len(rows) + 1] = r /\ \A i \in Ids : rows'[i] = rows[i]
           /\ cmd' \in [Procs -> CommandSteps]
           /\ cmd'[p] = IF asked THEN [pc |-> "setpin", id |-> Len(rows) + 1,
                                      every |-> every] ELSE Idle
           /\ \A q \in Procs \ {p} : cmd'[q] = cmd[q]
           /\ \A q \in Procs : cmd'[q].pc \notin {"idle", "insert"} => cmd'[q].id \in Ids'
           /\ \A q \in Procs : cmd'[q].pc \in GateSteps \ {"use"} =>
                                 cmd'[q].id \in DOMAIN pins'
<1> DEFINE c == [pc |-> "setpin", id |-> Len(rows) + 1, every |-> every]
<1>1. rows \in Seq(RowRecords) /\ Len(rows) < MaxRows /\ MaxRows \in Nat
    BY Typed, AccessAssumption DEF Room
<1>2. /\ rows' \in Seq(RowRecords) /\ Len(rows') = Len(rows) + 1
      /\ Ids' = Ids \union {Len(rows) + 1} /\ Len(rows) + 1 \notin Ids
      /\ Len(rows) + 1 \in Nat
      /\ rows'[Len(rows) + 1] = r /\ \A i \in Ids : rows'[i] = rows[i]
    BY <1>1, AppendRow
<1>3. Len(rows') <= MaxRows
    BY <1>1, <1>2
<1>4. c \in CommandSteps /\ c.pc = "setpin" /\ c.id = Len(rows) + 1
    BY <1>2 DEF CommandSteps, Prompting
<1>5. "setpin" \notin GateSteps /\ Ids \subseteq Ids' /\ cmd \in [Procs -> CommandSteps]
    BY <1>2, Typed DEF GateSteps
<1>6. CASE asked
  <2>1. Goto(p, c)
      BY <1>6 DEF AfterInsert
  <2> HIDE DEF c
  <2>2. /\ cmd' \in [Procs -> CommandSteps]
        /\ \A q \in Procs : cmd'[q].pc \notin {"idle", "insert"} => cmd'[q].id \in Ids'
        /\ \A q \in Procs : cmd'[q].pc \in GateSteps \ {"use"} =>
                              cmd'[q].id \in DOMAIN pins'
      BY <1>2, <1>4, <1>5, <2>1, CommandMoves
  <2>3. cmd'[p] = c /\ \A q \in Procs \ {p} : cmd'[q] = cmd[q]
      BY <1>4, <1>5, <2>1, Moves
  <2> QED BY <1>2, <1>3, <1>6, <2>2, <2>3 DEF c
<1>7. CASE ~asked
  <2>1. Done(p)
      BY <1>7 DEF AfterInsert
  <2>2. /\ cmd' \in [Procs -> CommandSteps]
        /\ \A q \in Procs : cmd'[q].pc \notin {"idle", "insert"} => cmd'[q].id \in Ids'
        /\ \A q \in Procs : cmd'[q].pc \in GateSteps \ {"use"} =>
                              cmd'[q].id \in DOMAIN pins'
      BY <1>5, <2>1, CommandEnds
  <2>3. cmd'[p] = Idle /\ \A q \in Procs \ {p} : cmd'[q] = cmd[q]
      BY <1>5, <2>1, Ends
  <2> QED BY <1>2, <1>3, <1>7, <2>2, <2>3
<1> QED BY <1>6, <1>7

-----------------------------------------------------------------------------
(* What each step does, field by field.                                    *)

Others(p) == \A q \in Procs \ {p} : cmd'[q] = cmd[q]

LEMMA WriteEffect ==
    ASSUME TypeOK, NEW p \in Procs, NEW kind \in Kinds, NEW path \in Paths,
           NEW asked \in BOOLEAN, WriteCiphertext(p, kind, path, asked)
    PROVE  /\ TypeOK' /\ Others(p)
           /\ cmd[p] = Idle /\ cmd'[p] \in Inserting /\ cmd'[p].pc = "insert"
           /\ cmd'[p].path = path /\ cmd'[p].tag = count.writes + 1
           /\ disk[path] = 0 /\ disk'[path] = count.writes + 1
           /\ \A f \in Paths \ {path} : disk'[f] = disk[f]
           /\ count'.writes = count.writes + 1 /\ count'.kills = count.kills
           /\ count.writes \in Nat
           /\ UNCHANGED <<now, rows, pins, tokens, wrong, lost>>
<1> DEFINE c == [pc |-> "insert", kind |-> kind, path |-> path,
                 tag |-> count.writes + 1, asked |-> asked]
<1>1. /\ cmd \in [Procs -> CommandSteps] /\ disk \in [Paths -> 0..MaxWrites]
      /\ count \in [writes: 0..MaxWrites, kills: 0..MaxKills, resets: 0..MaxResets]
      /\ MaxWrites \in Nat
    BY Typed, AccessAssumption
<1>2. /\ Goto(p, c) /\ count.writes < MaxWrites /\ kind \in {"file", "quorum"}
      /\ disk' = [disk EXCEPT ![path] = count.writes + 1]
      /\ count' = [count EXCEPT !.writes = @ + 1]
      /\ disk[path] = 0 /\ cmd[p] = Idle
      /\ UNCHANGED <<now, rows, pins, tokens, wrong, lost>>
    BY DEF WriteCiphertext
<1>3. count.writes \in 0..MaxWrites /\ count.kills \in 0..MaxKills
    BY <1>1
<1>4. count.writes + 1 \in 0..MaxWrites /\ count.writes + 1 \in Nat /\ count.writes \in Nat
    BY <1>1, <1>2, <1>3
<1>5. /\ count' \in [writes: 0..MaxWrites, kills: 0..MaxKills, resets: 0..MaxResets]
      /\ count'.writes = count.writes + 1 /\ count'.kills = count.kills
    BY <1>1, <1>2, <1>4
<1>6. /\ disk' \in [Paths -> 0..MaxWrites] /\ disk'[path] = count.writes + 1
      /\ \A f \in Paths \ {path} : disk'[f] = disk[f]
    BY <1>1, <1>2, <1>4
<1>7. c \in Inserting /\ c \in CommandSteps /\ c.pc = "insert" /\ c.path = path
      /\ c.tag = count.writes + 1
    BY <1>2, <1>4 DEF Inserting, CommandSteps
<1>8. "insert" \notin GateSteps
    BY DEF GateSteps
<1>9. Ids' = Ids
    BY <1>2 DEF Ids
<1> HIDE DEF c
<1>10. /\ cmd' \in [Procs -> CommandSteps]
       /\ \A q \in Procs : cmd'[q].pc \notin {"idle", "insert"} => cmd'[q].id \in Ids'
       /\ \A q \in Procs : cmd'[q].pc \in GateSteps \ {"use"} => cmd'[q].id \in DOMAIN pins'
    BY <1>2, <1>7, <1>8, <1>9, CommandMoves
<1>11. cmd'[p] = c /\ Others(p)
    BY <1>1, <1>2, <1>7, Moves DEF Others
<1>12. TypeOK'
  <2>1. /\ now' \in 0..MaxTime /\ rows' \in Seq(RowRecords) /\ Len(rows') <= MaxRows
        /\ pins' \in [DOMAIN pins' -> PinRows] /\ DOMAIN pins' \subseteq Ids'
        /\ tokens' \subseteq {i \in Ids' : rows'[i].kind = "share"}
        /\ wrong' \in [1..MaxRows -> Nat] /\ lost' \subseteq 1..MaxWrites
      BY <1>2, <1>9, Typed
  <2> QED BY <2>1, <1>5, <1>6, <1>10, TypedNext
<1> QED BY <1>2, <1>4, <1>5, <1>6, <1>7, <1>11, <1>12

(* A step of a command that leaves files and rows alone.                   *)
LEMMA PinStep ==
    ASSUME TypeOK, NEW p \in Procs, NEW c \in CommandSteps, Goto(p, c),
           c.pc \notin {"idle", "insert"} => c.id \in Ids,
           c.pc \in GateSteps \ {"use"} => c.id \in DOMAIN pins,
           UNCHANGED <<now, disk, rows, tokens, lost, count>>,
           pins' \in [DOMAIN pins -> PinRows], wrong' \in [1..MaxRows -> Nat]
    PROVE  TypeOK' /\ cmd'[p] = c /\ Others(p)
<1>1. Ids' = Ids /\ DOMAIN pins' = DOMAIN pins /\ cmd \in [Procs -> CommandSteps]
    BY Typed DEF Ids
<1>2. /\ cmd' \in [Procs -> CommandSteps]
      /\ \A q \in Procs : cmd'[q].pc \notin {"idle", "insert"} => cmd'[q].id \in Ids'
      /\ \A q \in Procs : cmd'[q].pc \in GateSteps \ {"use"} => cmd'[q].id \in DOMAIN pins'
    BY <1>1, CommandMoves
<1>3. /\ now' \in 0..MaxTime /\ disk' \in [Paths -> 0..MaxWrites]
      /\ rows' \in Seq(RowRecords) /\ Len(rows') <= MaxRows
      /\ tokens' \subseteq {i \in Ids' : rows'[i].kind = "share"}
      /\ DOMAIN pins' \subseteq Ids' /\ lost' \subseteq 1..MaxWrites
      /\ count' \in [writes: 0..MaxWrites, kills: 0..MaxKills, resets: 0..MaxResets]
    BY <1>1, Typed
<1>4. TypeOK'
    BY <1>1, <1>2, <1>3, TypedNext
<1> QED BY <1>1, <1>4, Moves DEF Others

LEMMA PinEnds ==
    ASSUME TypeOK, NEW p \in Procs, Done(p),
           UNCHANGED <<now, disk, rows, tokens, lost, count>>,
           pins' \in [DOMAIN pins -> PinRows], wrong' \in [1..MaxRows -> Nat]
    PROVE  TypeOK' /\ cmd'[p] = Idle /\ cmd'[p].pc = "idle" /\ Others(p)
<1>1. Idle \in CommandSteps /\ Idle.pc = "idle" /\ Goto(p, Idle)
    BY DEF CommandSteps, Idle, Done
<1>2. "idle" \notin GateSteps
    BY DEF GateSteps
<1> QED BY <1>1, <1>2, PinStep

LEMMA ChangePin ==
    ASSUME pins \in [DOMAIN pins -> PinRows], NEW i \in DOMAIN pins, NEW r \in PinRows,
           pins' = [pins EXCEPT ![i] = r]
    PROVE  /\ pins' \in [DOMAIN pins -> PinRows] /\ DOMAIN pins' = DOMAIN pins
           /\ pins'[i] = r /\ \A j \in DOMAIN pins \ {i} : pins'[j] = pins[j]
OBVIOUS

LEMMA InsertEffect ==
    ASSUME TypeOK, NEW p \in Procs, InsertRow(p)
    PROVE  /\ TypeOK' /\ Others(p) /\ cmd[p] \in Inserting /\ cmd[p].pc = "insert"
           /\ Ids' = Ids \union {Len(rows) + 1} /\ Len(rows) + 1 \notin Ids
           /\ \A i \in Ids : rows'[i] = rows[i]
           /\ rows'[Len(rows) + 1].kind = cmd[p].kind
           /\ rows'[Len(rows) + 1].path = cmd[p].path
           /\ rows'[Len(rows) + 1].tag = cmd[p].tag
           /\ rows'[Len(rows) + 1].asked = cmd[p].asked
           /\ \/ cmd'[p].pc = "setpin" /\ cmd'[p].id = Len(rows) + 1
              \/ cmd'[p] = Idle /\ cmd'[p].pc = "idle"
           /\ UNCHANGED <<now, disk, pins, tokens, wrong, lost, count>>
<1> DEFINE r == Row(cmd[p].kind, cmd[p].path, cmd[p].tag, cmd[p].asked, 0)
<1>1. cmd[p] \in CommandSteps /\ cmd[p].pc = "insert"
    BY Typed DEF InsertRow
<1>2. cmd[p] \in Inserting
    BY <1>1, Shapes
<1>3. now + Ttl \in Nat
  <2>1. now \in Nat
      BY Typed
  <2>2. Ttl \in Nat
      BY AccessAssumption
  <2> QED BY <2>1, <2>2
<1>4. r \in RowRecords /\ cmd[p].asked \in BOOLEAN
    BY <1>2, <1>3 DEF Row, RowRecords, Inserting, AllKinds
<1>5. /\ r.kind = cmd[p].kind /\ r.path = cmd[p].path /\ r.tag = cmd[p].tag
      /\ r.asked = cmd[p].asked
    BY DEF Row
<1>6. /\ Room(cmd[p].asked) /\ rows' = Append(rows, r)
      /\ AfterInsert(p, Len(rows) + 1, cmd[p].asked, FALSE)
      /\ UNCHANGED <<now, disk, pins, tokens, wrong, lost, count>>
    BY DEF InsertRow
<1> HIDE DEF r
<1>7. /\ rows' \in Seq(RowRecords) /\ Len(rows') <= MaxRows
      /\ Ids' = Ids \union {Len(rows) + 1} /\ Len(rows) + 1 \notin Ids
      /\ rows'[Len(rows) + 1] = r /\ \A i \in Ids : rows'[i] = rows[i]
      /\ cmd' \in [Procs -> CommandSteps]
      /\ cmd'[p] = IF cmd[p].asked THEN [pc |-> "setpin", id |-> Len(rows) + 1,
                                        every |-> FALSE] ELSE Idle
      /\ \A q \in Procs \ {p} : cmd'[q] = cmd[q]
      /\ \A q \in Procs : cmd'[q].pc \notin {"idle", "insert"} => cmd'[q].id \in Ids'
      /\ \A q \in Procs : cmd'[q].pc \in GateSteps \ {"use"} => cmd'[q].id \in DOMAIN pins'
    BY <1>4, <1>6, RowMade
<1>8. TypeOK'
  <2>1. /\ now' \in 0..MaxTime /\ disk' \in [Paths -> 0..MaxWrites]
        /\ pins' \in [DOMAIN pins' -> PinRows] /\ DOMAIN pins' \subseteq Ids'
        /\ tokens' \subseteq {i \in Ids' : rows'[i].kind = "share"}
        /\ wrong' \in [1..MaxRows -> Nat] /\ lost' \subseteq 1..MaxWrites
        /\ count' \in [writes: 0..MaxWrites, kills: 0..MaxKills, resets: 0..MaxResets]
      BY <1>6, <1>7, Typed
  <2> QED BY <2>1, <1>7, TypedNext
<1>9. \/ cmd'[p].pc = "setpin" /\ cmd'[p].id = Len(rows) + 1
      \/ cmd'[p] = Idle /\ cmd'[p].pc = "idle"
    BY <1>7 DEF Idle
<1> QED BY <1>1, <1>2, <1>5, <1>6, <1>7, <1>8, <1>9 DEF Others

(* A row that is not about a file: AddCredential, CreateShare.             *)
LEMMA PlainRowEffect ==
    ASSUME TypeOK, NEW p \in Procs, NEW kind \in {"credential", "share"},
           NEW limit \in Nat, NEW asked \in BOOLEAN, NEW every \in BOOLEAN,
           Room(asked), rows' = Append(rows, Row(kind, "none", 0, asked, limit)),
           AfterInsert(p, Len(rows) + 1, asked, every),
           UNCHANGED <<now, disk, pins, wrong, lost, count>>,
           tokens' = tokens \/ (kind = "share" /\ tokens' = tokens \union {Len(rows) + 1})
    PROVE  /\ TypeOK' /\ Others(p)
           /\ Ids' = Ids \union {Len(rows) + 1} /\ Len(rows) + 1 \notin Ids
           /\ \A i \in Ids : rows'[i] = rows[i]
           /\ rows'[Len(rows) + 1].kind = kind
           /\ rows'[Len(rows) + 1].asked = asked
           /\ \/ cmd'[p].pc = "setpin" /\ cmd'[p].id = Len(rows) + 1
              \/ cmd'[p] = Idle /\ cmd'[p].pc = "idle"
<1> DEFINE r == Row(kind, "none", 0, asked, limit)
<1>3. now + Ttl \in Nat
  <2>1. now \in Nat
      BY Typed
  <2>2. Ttl \in Nat
      BY AccessAssumption
  <2> QED BY <2>1, <2>2
<1>4. r \in RowRecords
    BY <1>3 DEF Row, RowRecords, AllKinds
<1>5. r.kind = kind /\ r.asked = asked
    BY DEF Row
<1> HIDE DEF r
<1>7. /\ rows' \in Seq(RowRecords) /\ Len(rows') <= MaxRows
      /\ Ids' = Ids \union {Len(rows) + 1} /\ Len(rows) + 1 \notin Ids
      /\ rows'[Len(rows) + 1] = r /\ \A i \in Ids : rows'[i] = rows[i]
      /\ cmd' \in [Procs -> CommandSteps]
      /\ cmd'[p] = IF asked THEN [pc |-> "setpin", id |-> Len(rows) + 1,
                                  every |-> every] ELSE Idle
      /\ \A q \in Procs \ {p} : cmd'[q] = cmd[q]
      /\ \A q \in Procs : cmd'[q].pc \notin {"idle", "insert"} => cmd'[q].id \in Ids'
      /\ \A q \in Procs : cmd'[q].pc \in GateSteps \ {"use"} => cmd'[q].id \in DOMAIN pins'
    BY <1>4, RowMade DEF r
<1>8. TypeOK'
  <2>1. /\ now' \in 0..MaxTime /\ disk' \in [Paths -> 0..MaxWrites]
        /\ pins' \in [DOMAIN pins' -> PinRows] /\ DOMAIN pins' \subseteq Ids'
        /\ wrong' \in [1..MaxRows -> Nat] /\ lost' \subseteq 1..MaxWrites
        /\ count' \in [writes: 0..MaxWrites, kills: 0..MaxKills, resets: 0..MaxResets]
      BY <1>7, Typed
  <2>2. tokens' \subseteq {i \in Ids' : rows'[i].kind = "share"}
      BY <1>5, <1>7, Typed
  <2> QED BY <2>1, <2>2, <1>7, TypedNext
<1>9. \/ cmd'[p].pc = "setpin" /\ cmd'[p].id = Len(rows) + 1
      \/ cmd'[p] = Idle /\ cmd'[p].pc = "idle"
    BY <1>7 DEF Idle
<1> QED BY <1>5, <1>7, <1>8, <1>9 DEF Others

LEMMA SetPinEffect ==
    ASSUME TypeOK, NEW p \in Procs, SetPin(p)
    PROVE  /\ TypeOK' /\ Others(p) /\ cmd[p].pc = "setpin" /\ cmd[p].id \in Ids
           /\ cmd'[p] = Idle /\ cmd'[p].pc = "idle"
           /\ DOMAIN pins' = DOMAIN pins \union {cmd[p].id}
           /\ pins'[cmd[p].id].attempts = 0
           /\ \A i \in DOMAIN pins \ {cmd[p].id} : pins'[i] = pins[i]
           /\ tokens' \subseteq tokens \union {cmd[p].id}
           /\ UNCHANGED <<now, disk, rows, wrong, lost, count>>
<1> DEFINE id == cmd[p].id
<1>1. cmd[p] \in CommandSteps /\ cmd[p].pc = "setpin"
    BY Typed DEF SetPin
<1>2. cmd[p] \in Prompting /\ id \in Ids
    BY <1>1, Shapes, Typed
<1>3. FreshPin(cmd[p].every) \in PinRows /\ FreshPin(cmd[p].every).attempts = 0
    BY <1>2 DEF Prompting, FreshPin, PinRows
<1>4. /\ pins' = [i \in DOMAIN pins \union {id} |->
                    IF i = id THEN FreshPin(cmd[p].every) ELSE pins[i]]
      /\ tokens' = IF rows[id].kind = "share" THEN tokens \union {id} ELSE tokens
      /\ Done(p)
      /\ UNCHANGED <<now, disk, rows, wrong, lost, count>>
    BY DEF SetPin
<1>5. pins \in [DOMAIN pins -> PinRows] /\ cmd \in [Procs -> CommandSteps]
    BY Typed
<1>6. /\ DOMAIN pins' = DOMAIN pins \union {id} /\ pins' \in [DOMAIN pins' -> PinRows]
      /\ pins'[id].attempts = 0
      /\ \A i \in DOMAIN pins \ {id} : pins'[i] = pins[i]
    BY <1>3, <1>4, <1>5
<1>7. Ids' = Ids
    BY <1>4 DEF Ids
<1>8. /\ cmd' \in [Procs -> CommandSteps]
      /\ \A q \in Procs : cmd'[q].pc \notin {"idle", "insert"} => cmd'[q].id \in Ids'
      /\ \A q \in Procs : cmd'[q].pc \in GateSteps \ {"use"} => cmd'[q].id \in DOMAIN pins'
    BY <1>4, <1>6, <1>7, CommandEnds
<1>9. cmd'[p] = Idle /\ cmd'[p].pc = "idle" /\ Others(p)
    BY <1>4, <1>5, Ends DEF Others
<1>10. TypeOK'
  <2>1. /\ now' \in 0..MaxTime /\ disk' \in [Paths -> 0..MaxWrites]
        /\ rows' \in Seq(RowRecords) /\ Len(rows') <= MaxRows
        /\ DOMAIN pins \subseteq Ids'
        /\ tokens \subseteq {i \in Ids' : rows'[i].kind = "share"}
        /\ wrong' \in [1..MaxRows -> Nat] /\ lost' \subseteq 1..MaxWrites
        /\ count' \in [writes: 0..MaxWrites, kills: 0..MaxKills, resets: 0..MaxResets]
      BY <1>4, <1>7, Typed
  <2>2. /\ DOMAIN pins' \subseteq Ids'
        /\ tokens' \subseteq {i \in Ids' : rows'[i].kind = "share"}
      BY <2>1, <1>2, <1>4, <1>6, <1>7
  <2> QED BY <2>1, <2>2, <1>6, <1>8, TypedNext
<1> QED BY <1>1, <1>2, <1>4, <1>6, <1>9, <1>10

(* A command ends and leaves rows, PINs and guesses alone.                 *)
LEMMA EndEffect ==
    ASSUME TypeOK, NEW p \in Procs, Done(p), UNCHANGED <<now, rows, pins, tokens, wrong>>,
           disk' \in [Paths -> 0..MaxWrites], lost' \subseteq 1..MaxWrites,
           count' \in [writes: 0..MaxWrites, kills: 0..MaxKills, resets: 0..MaxResets]
    PROVE  TypeOK' /\ Others(p) /\ cmd'[p] = Idle /\ cmd'[p].pc = "idle"
<1>1. Ids' = Ids /\ cmd \in [Procs -> CommandSteps]
    BY Typed DEF Ids
<1>2. /\ cmd' \in [Procs -> CommandSteps]
      /\ \A q \in Procs : cmd'[q].pc \notin {"idle", "insert"} => cmd'[q].id \in Ids'
      /\ \A q \in Procs : cmd'[q].pc \in GateSteps \ {"use"} => cmd'[q].id \in DOMAIN pins'
    BY <1>1, CommandEnds
<1>3. /\ now' \in 0..MaxTime /\ rows' \in Seq(RowRecords) /\ Len(rows') <= MaxRows
      /\ pins' \in [DOMAIN pins' -> PinRows] /\ DOMAIN pins' \subseteq Ids'
      /\ tokens' \subseteq {i \in Ids' : rows'[i].kind = "share"}
      /\ wrong' \in [1..MaxRows -> Nat]
    BY <1>1, Typed
<1> QED BY <1>1, <1>2, <1>3, TypedNext, Ends DEF Others

LEMMA InsertFailsEffect ==
    ASSUME TypeOK, NEW p \in Procs, InsertFails(p)
    PROVE  /\ TypeOK' /\ Others(p) /\ cmd[p] \in Inserting /\ cmd[p].pc = "insert"
           /\ cmd'[p] = Idle /\ cmd'[p].pc = "idle"
           /\ disk'[cmd[p].path] = 0
           /\ \A f \in Paths \ {cmd[p].path} : disk'[f] = disk[f]
           /\ UNCHANGED <<now, rows, pins, tokens, wrong, lost, count>>
<1>1. cmd[p] \in CommandSteps /\ cmd[p].pc = "insert"
    BY Typed DEF InsertFails
<1>2. cmd[p] \in Inserting /\ cmd[p].path \in Paths
    BY <1>1, Shapes DEF Inserting
<1>3. /\ disk \in [Paths -> 0..MaxWrites] /\ MaxWrites \in Nat /\ lost \subseteq 1..MaxWrites
      /\ count \in [writes: 0..MaxWrites, kills: 0..MaxKills, resets: 0..MaxResets]
    BY Typed, AccessAssumption
<1>4. /\ disk' = [disk EXCEPT ![cmd[p].path] = 0] /\ Done(p)
      /\ UNCHANGED <<now, rows, pins, tokens, wrong, lost, count>>
    BY DEF InsertFails
<1>5. /\ disk' \in [Paths -> 0..MaxWrites] /\ disk'[cmd[p].path] = 0
      /\ \A f \in Paths \ {cmd[p].path} : disk'[f] = disk[f]
    BY <1>2, <1>3, <1>4
<1> QED BY <1>1, <1>2, <1>3, <1>4, <1>5, EndEffect

LEMMA KillEffect ==
    ASSUME TypeOK, NEW p \in Procs, Kill(p),
           cmd[p].pc = "insert" => cmd[p].tag \in 1..MaxWrites
    PROVE  /\ TypeOK' /\ Others(p) /\ cmd'[p] = Idle /\ cmd'[p].pc = "idle"
           /\ lost' = IF cmd[p].pc = "insert" THEN lost \union {cmd[p].tag} ELSE lost
           /\ count'.writes = count.writes /\ count'.kills = count.kills + 1
           /\ count.kills \in Nat
           /\ UNCHANGED <<now, disk, rows, pins, tokens, wrong>>
<1>1. /\ Done(p) /\ count.kills < MaxKills
      /\ lost' = IF cmd[p].pc = "insert" THEN lost \union {cmd[p].tag} ELSE lost
      /\ count' = [count EXCEPT !.kills = @ + 1]
      /\ UNCHANGED <<now, disk, rows, pins, tokens, wrong>>
    BY DEF Kill
<1>2. /\ count \in [writes: 0..MaxWrites, kills: 0..MaxKills, resets: 0..MaxResets]
      /\ disk' \in [Paths -> 0..MaxWrites] /\ lost \subseteq 1..MaxWrites /\ MaxKills \in Nat
    BY <1>1, Typed, AccessAssumption
<1>3. count.kills \in 0..MaxKills /\ count.kills \in Nat
    BY <1>2
<1>4. count.kills + 1 \in 0..MaxKills
    BY <1>1, <1>2, <1>3
<1>5. /\ count' \in [writes: 0..MaxWrites, kills: 0..MaxKills, resets: 0..MaxResets]
      /\ count'.writes = count.writes /\ count'.kills = count.kills + 1
    BY <1>1, <1>2, <1>4
<1>6. lost' \subseteq 1..MaxWrites
    BY <1>1, <1>2
<1> QED BY <1>1, <1>2, <1>3, <1>5, <1>6, EndEffect

(* What stays of the rows when one of them is used or revoked.             *)
SameRows ==
    /\ Ids' = Ids
    /\ \A i \in Ids : /\ rows'[i].kind = rows[i].kind /\ rows'[i].path = rows[i].path
                      /\ rows'[i].tag = rows[i].tag /\ rows'[i].asked = rows[i].asked

LEMMA SameRowsStutter == rows' = rows => SameRows
BY DEF SameRows, Ids

LEMMA RowUpdate ==
    ASSUME rows \in Seq(RowRecords), NEW k \in Ids, NEW r \in RowRecords,
           rows' = [rows EXCEPT ![k] = r], r.kind = rows[k].kind,
           r.path = rows[k].path, r.tag = rows[k].tag, r.asked = rows[k].asked
    PROVE  rows' \in Seq(RowRecords) /\ Len(rows') = Len(rows) /\ SameRows
<1>1. /\ rows' \in Seq(RowRecords) /\ Len(rows') = Len(rows) /\ Ids' = Ids
      /\ rows'[k] = r /\ \A i \in Ids \ {k} : rows'[i] = rows[i]
    BY ChangeRow
<1> QED BY <1>1 DEF SameRows

LEMMA UsedRow ==
    ASSUME NEW r \in RowRecords
    PROVE  LET used == [r EXCEPT !.uses = @ + 1]
           IN  /\ used \in RowRecords /\ used.kind = r.kind /\ used.path = r.path
               /\ used.tag = r.tag /\ used.asked = r.asked
               /\ used.uses = r.uses + 1
<1>1. r.uses + 1 \in Nat
    BY DEF RowRecords
<1> QED BY <1>1 DEF RowRecords

LEMMA RevokedRow ==
    ASSUME NEW r \in RowRecords
    PROVE  LET dead == [r EXCEPT !.revoked = TRUE]
           IN  /\ dead \in RowRecords /\ dead.kind = r.kind /\ dead.path = r.path
               /\ dead.tag = r.tag /\ dead.asked = r.asked /\ dead.uses = r.uses
BY DEF RowRecords

(* The types of what a step on rows alone keeps.                           *)
LEMMA RowsOnly ==
    ASSUME TypeOK, SameRows, rows' \in Seq(RowRecords), Len(rows') = Len(rows),
           UNCHANGED <<now, disk, pins, tokens, wrong, lost, count>>
    PROVE  /\ now' \in 0..MaxTime /\ disk' \in [Paths -> 0..MaxWrites]
           /\ Len(rows') <= MaxRows
           /\ pins' \in [DOMAIN pins' -> PinRows] /\ DOMAIN pins' \subseteq Ids'
           /\ tokens' \subseteq {i \in Ids' : rows'[i].kind = "share"}
           /\ wrong' \in [1..MaxRows -> Nat] /\ lost' \subseteq 1..MaxWrites
           /\ count' \in [writes: 0..MaxWrites, kills: 0..MaxKills, resets: 0..MaxResets]
BY Typed DEF SameRows

LEMMA RedeemEffect ==
    ASSUME TypeOK, NEW p \in Procs, RedeemShare(p)
    PROVE  /\ TypeOK' /\ Others(p) /\ cmd[p].pc = "use"
           /\ cmd'[p] = Idle /\ cmd'[p].pc = "idle" /\ SameRows
           /\ UNCHANGED <<now, disk, pins, tokens, wrong, lost, count>>
<1> DEFINE id == cmd[p].id
<1>1. cmd[p].pc = "use" /\ cmd \in [Procs -> CommandSteps] /\ rows \in Seq(RowRecords)
    BY Typed DEF RedeemShare
<1>2. id \in Ids
    BY <1>1, Typed
<1>3. rows[id] \in RowRecords
    BY <1>1, <1>2 DEF Ids
<1>4. /\ Done(p) /\ UNCHANGED <<now, disk, pins, tokens, wrong, lost, count>>
      /\ rows' = rows \/ rows' = [rows EXCEPT ![id].uses = @ + 1]
    BY DEF RedeemShare
<1>5. rows' = rows \/ rows' = [rows EXCEPT ![id] = [rows[id] EXCEPT !.uses = @ + 1]]
    BY <1>4, Zenon
<1>6. rows' \in Seq(RowRecords) /\ Len(rows') = Len(rows) /\ SameRows
  <2>1. CASE rows' = rows
      BY <2>1, <1>1, SameRowsStutter
  <2>2. CASE rows' = [rows EXCEPT ![id] = [rows[id] EXCEPT !.uses = @ + 1]]
      BY <2>2, <1>1, <1>2, <1>3, UsedRow, RowUpdate
  <2> QED BY <2>1, <2>2, <1>5
<1>7. Ids' = Ids
    BY <1>6 DEF SameRows
<1>8. /\ cmd' \in [Procs -> CommandSteps]
      /\ \A q \in Procs : cmd'[q].pc \notin {"idle", "insert"} => cmd'[q].id \in Ids'
      /\ \A q \in Procs : cmd'[q].pc \in GateSteps \ {"use"} => cmd'[q].id \in DOMAIN pins'
    BY <1>4, <1>7, CommandEnds
<1>9. TypeOK'
    BY <1>4, <1>6, <1>8, RowsOnly, TypedNext
<1> QED BY <1>1, <1>4, <1>6, <1>9, Ends DEF Others

(* A step that moves no command.                                           *)
LEMMA NoCommand ==
    ASSUME TypeOK, cmd' = cmd, Ids' = Ids, DOMAIN pins' = DOMAIN pins
    PROVE  /\ cmd' \in [Procs -> CommandSteps]
           /\ \A q \in Procs : cmd'[q].pc \notin {"idle", "insert"} => cmd'[q].id \in Ids'
           /\ \A q \in Procs : cmd'[q].pc \in GateSteps \ {"use"} => cmd'[q].id \in DOMAIN pins'
BY Typed

LEMMA RevokeEffect ==
    ASSUME TypeOK, NEW id \in Ids, RevokeShare(id)
    PROVE  /\ TypeOK' /\ SameRows /\ \A i \in Ids : rows'[i].uses = rows[i].uses
           /\ UNCHANGED <<now, disk, pins, tokens, cmd, wrong, lost, count>>
<1>1. rows \in Seq(RowRecords) /\ rows[id] \in RowRecords
    BY Typed DEF Ids
<1>2. /\ UNCHANGED <<now, disk, pins, tokens, cmd, wrong, lost, count>>
      /\ rows' = [rows EXCEPT ![id].revoked = TRUE]
    BY DEF RevokeShare
<1>3. rows' = [rows EXCEPT ![id] = [rows[id] EXCEPT !.revoked = TRUE]]
    BY <1>2, Zenon
<1>4. rows' \in Seq(RowRecords) /\ Len(rows') = Len(rows) /\ SameRows
    BY <1>1, <1>3, RevokedRow, RowUpdate
<1>5. \A i \in Ids : rows'[i].uses = rows[i].uses
    BY <1>1, <1>3, RevokedRow, ChangeRow
<1>6. Ids' = Ids
    BY <1>4 DEF SameRows
<1>7. TypeOK'
    BY <1>2, <1>4, <1>6, NoCommand, RowsOnly, TypedNext
<1> QED BY <1>2, <1>4, <1>5, <1>7

LEMMA DeleteEffect ==
    ASSUME TypeOK, NEW id \in Ids, UserDeletes(id), rows[id].path \in Paths,
           rows[id].tag \in 1..MaxWrites
    PROVE  /\ TypeOK' /\ IsFile(rows[id]) /\ disk[rows[id].path] = rows[id].tag
           /\ disk'[rows[id].path] = 0
           /\ \A f \in Paths \ {rows[id].path} : disk'[f] = disk[f]
           /\ lost' = lost \union {rows[id].tag}
           /\ UNCHANGED <<now, rows, pins, tokens, cmd, wrong, count>>
<1>1. /\ UNCHANGED <<now, rows, pins, tokens, cmd, wrong, count>>
      /\ lost' = lost \union {rows[id].tag} /\ IsFile(rows[id])
      /\ disk[rows[id].path] = rows[id].tag
      /\ disk' = [disk EXCEPT ![rows[id].path] = 0]
    BY DEF UserDeletes, IsFile
<1>2. disk \in [Paths -> 0..MaxWrites] /\ MaxWrites \in Nat /\ Ids' = Ids
    BY <1>1, Typed, AccessAssumption DEF Ids
<1>3. /\ disk' \in [Paths -> 0..MaxWrites] /\ disk'[rows[id].path] = 0
      /\ \A f \in Paths \ {rows[id].path} : disk'[f] = disk[f]
    BY <1>1, <1>2
<1>4. TypeOK'
  <2>1. /\ now' \in 0..MaxTime /\ rows' \in Seq(RowRecords) /\ Len(rows') <= MaxRows
        /\ pins' \in [DOMAIN pins' -> PinRows] /\ DOMAIN pins' \subseteq Ids'
        /\ tokens' \subseteq {i \in Ids' : rows'[i].kind = "share"}
        /\ wrong' \in [1..MaxRows -> Nat] /\ lost' \subseteq 1..MaxWrites
        /\ count' \in [writes: 0..MaxWrites, kills: 0..MaxKills, resets: 0..MaxResets]
      BY <1>1, <1>2, Typed
  <2> QED BY <2>1, <1>1, <1>2, <1>3, NoCommand, TypedNext
<1> QED BY <1>1, <1>3, <1>4

(* A command moves from one statement of the gate to the next.             *)
LEMMA GateStep ==
    ASSUME TypeOK, NEW p \in Procs, NEW c \in AtGate, Goto(p, c), c.id \in Ids,
           c.pc # "use" => c.id \in DOMAIN pins,
           UNCHANGED <<now, disk, rows, tokens, lost, count>>,
           pins' \in [DOMAIN pins -> PinRows], wrong' \in [1..MaxRows -> Nat]
    PROVE  TypeOK' /\ cmd'[p] = c /\ Others(p)
<1>1. c \in CommandSteps
    BY DEF CommandSteps
<1> QED BY <1>1, PinStep

LEMMA AskEffect ==
    ASSUME TypeOK, NEW p \in Procs, NEW id \in Ids, Ask(p, id)
    PROVE  /\ TypeOK' /\ Others(p) /\ cmd[p] = Idle /\ cmd[p].pc = "idle"
           /\ cmd'[p].id = id /\ (rows[id].kind = "share" => id \in tokens)
           /\ \/ /\ cmd'[p].pc = "verify" /\ cmd'[p].how = "pin"
                 /\ cmd'[p].shut => pins[id].locked
              \/ /\ cmd'[p].pc = "use" /\ ~cmd'[p].shut
                 /\ id \in DOMAIN pins => cmd'[p].how # "open"
           /\ UNCHANGED <<now, disk, rows, pins, tokens, wrong, lost, count>>
<1> DEFINE prompt == id \in DOMAIN pins /\ VerificationRequired(pins[id])
           c == [pc |-> IF prompt THEN "verify" ELSE "use", id |-> id,
                 how |-> IF prompt THEN "pin"
                         ELSE IF id \in DOMAIN pins THEN "window" ELSE "open",
                 every |-> FALSE, shut |-> id \in DOMAIN pins /\ pins[id].locked]
<1>1. /\ Goto(p, c) /\ cmd[p] = Idle /\ (rows[id].kind = "share" => id \in tokens)
      /\ UNCHANGED <<now, disk, rows, pins, tokens, wrong, lost, count>>
    BY DEF Ask
<1>2. /\ pins \in [DOMAIN pins -> PinRows] /\ wrong \in [1..MaxRows -> Nat]
      /\ rows \in Seq(RowRecords)
    BY Typed
<1>3. (id \in DOMAIN pins /\ pins[id].locked) \in BOOLEAN /\ id \in Nat
    BY <1>2 DEF Ids
<1>4. c \in AtGate
    BY <1>3 DEF AtGate
<1>5. c.id = id /\ (c.pc # "use" => c.id \in DOMAIN pins)
    OBVIOUS
<1>6. \/ /\ c.pc = "verify" /\ c.how = "pin" /\ (c.shut => pins[id].locked)
      \/ /\ c.pc = "use" /\ ~c.shut /\ (id \in DOMAIN pins => c.how # "open")
  <2>1. CASE prompt
      BY <2>1
  <2>2. CASE ~prompt
    <3>1. ~(id \in DOMAIN pins /\ pins[id].locked)
        BY <2>2 DEF VerificationRequired
    <3> QED BY <2>2, <3>1
  <2> QED BY <2>1, <2>2
<1> HIDE DEF c
<1>7. TypeOK' /\ cmd'[p] = c /\ Others(p)
    BY <1>1, <1>2, <1>4, <1>5, GateStep
<1>8. cmd[p].pc = "idle"
    BY <1>1 DEF Idle
<1> QED BY <1>1, <1>5, <1>6, <1>7, <1>8

(* What a command at a statement of verify_pin is about.                   *)
LEMMA Judging ==
    ASSUME TypeOK, NEW p \in Procs, cmd[p].pc \in GateSteps \ {"use"}
    PROVE  /\ cmd[p] \in AtGate /\ cmd[p].id \in Ids /\ cmd[p].id \in DOMAIN pins
           /\ pins[cmd[p].id] \in PinRows /\ cmd[p].id \in 1..MaxRows
           /\ wrong \in [1..MaxRows -> Nat] /\ pins \in [DOMAIN pins -> PinRows]
<1>1. cmd[p] \in CommandSteps /\ cmd[p].pc \notin {"idle", "insert"}
    BY Typed DEF GateSteps
<1>2. cmd[p] \in AtGate
    BY <1>1, Shapes
<1>3. cmd[p].id \in Ids /\ cmd[p].id \in DOMAIN pins /\ pins[cmd[p].id] \in PinRows
    BY <1>1, Typed
<1>4. Len(rows) \in Nat /\ Len(rows) <= MaxRows /\ MaxRows \in Nat
    BY Typed, AccessAssumption
<1> QED BY <1>2, <1>3, <1>4, Typed DEF Ids

LEMMA VerifyEffect ==
    ASSUME TypeOK, NEW p \in Procs, NEW right \in BOOLEAN, VerifyPin(p, right)
    PROVE  /\ TypeOK' /\ Others(p) /\ cmd[p].pc = "verify"
           /\ \/ cmd'[p] = Idle /\ cmd'[p].pc = "idle" /\ wrong' = wrong
              \/ /\ ~pins[cmd[p].id].locked /\ cmd'[p].pc \in {"use", "accept"}
                 /\ cmd'[p].id = cmd[p].id /\ cmd'[p].how = cmd[p].how
                 /\ cmd'[p].shut = cmd[p].shut /\ wrong' = wrong
              \/ /\ ~pins[cmd[p].id].locked /\ cmd'[p].pc = "bump"
                 /\ cmd'[p].id = cmd[p].id /\ cmd'[p].how = cmd[p].how
                 /\ wrong' = [wrong EXCEPT ![cmd[p].id] = @ + 1]
           /\ UNCHANGED <<now, disk, rows, pins, tokens, lost, count>>
<1> DEFINE c == cmd[p]
           r == pins[c.id]
           u == [c EXCEPT !.pc = "use"]
           a == [c EXCEPT !.pc = "accept", !.every = r.every]
           b == [c EXCEPT !.pc = "bump"]
<1>1. /\ c.pc = "verify"
      /\ \/ Done(p) /\ wrong' = wrong
         \/ ~r.locked /\ Goto(p, u) /\ wrong' = wrong
         \/ ~r.locked /\ Goto(p, a) /\ wrong' = wrong
         \/ ~r.locked /\ Goto(p, b) /\ wrong' = [wrong EXCEPT ![c.id] = @ + 1]
      /\ UNCHANGED <<now, disk, rows, pins, tokens, lost, count>>
    BY DEF VerifyPin
<1>2. /\ c \in AtGate /\ c.id \in Ids /\ c.id \in DOMAIN pins /\ r \in PinRows
      /\ c.id \in 1..MaxRows /\ wrong \in [1..MaxRows -> Nat]
      /\ pins \in [DOMAIN pins -> PinRows]
    BY <1>1, Judging DEF GateSteps
<1>3. CASE Done(p) /\ wrong' = wrong
    BY <1>1, <1>2, <1>3, PinEnds
<1>4. CASE ~r.locked /\ Goto(p, u) /\ wrong' = wrong
  <2>1. u \in AtGate /\ u.pc = "use" /\ u.id = c.id /\ u.how = c.how /\ u.shut = c.shut
      BY <1>2, GoesOn DEF GateSteps
  <2> HIDE DEF u
  <2>2. TypeOK' /\ cmd'[p] = u /\ Others(p)
      BY <1>1, <1>2, <1>4, <2>1, GateStep
  <2> QED BY <1>1, <1>4, <2>1, <2>2
<1>5. CASE ~r.locked /\ Goto(p, a) /\ wrong' = wrong
  <2>1. a \in AtGate /\ a.pc = "accept" /\ a.id = c.id /\ a.how = c.how /\ a.shut = c.shut
      BY <1>2 DEF AtGate, PinRows
  <2> HIDE DEF a
  <2>2. TypeOK' /\ cmd'[p] = a /\ Others(p)
      BY <1>1, <1>2, <1>5, <2>1, GateStep
  <2> QED BY <1>1, <1>5, <2>1, <2>2
<1>6. CASE ~r.locked /\ Goto(p, b) /\ wrong' = [wrong EXCEPT ![c.id] = @ + 1]
  <2>1. b \in AtGate /\ b.pc = "bump" /\ b.id = c.id /\ b.how = c.how
      BY <1>2, GoesOn DEF GateSteps
  <2>2. wrong' \in [1..MaxRows -> Nat]
      BY <1>2, <1>6
  <2> HIDE DEF b
  <2>3. TypeOK' /\ cmd'[p] = b /\ Others(p)
      BY <1>1, <1>2, <1>6, <2>1, <2>2, GateStep
  <2> QED BY <1>1, <1>6, <2>1, <2>3
<1> QED BY <1>1, <1>3, <1>4, <1>5, <1>6

(* A command at the gate goes on to pc, and a PIN row changes.             *)
LEMMA GateMove ==
    ASSUME TypeOK, NEW p \in Procs, cmd[p].pc \in GateSteps \ {"use"},
           NEW pc \in GateSteps, Goto(p, [cmd[p] EXCEPT !.pc = pc]),
           UNCHANGED <<now, disk, rows, tokens, lost, count>>,
           pins' \in [DOMAIN pins -> PinRows], wrong' \in [1..MaxRows -> Nat]
    PROVE  /\ TypeOK' /\ Others(p) /\ cmd'[p].pc = pc /\ cmd'[p].id = cmd[p].id
           /\ cmd'[p].how = cmd[p].how /\ cmd'[p].shut = cmd[p].shut
<1> DEFINE d == [cmd[p] EXCEPT !.pc = pc]
<1>1. cmd[p] \in AtGate /\ cmd[p].id \in Ids /\ cmd[p].id \in DOMAIN pins
    BY Judging
<1>2. /\ d \in AtGate /\ d.pc = pc /\ d.id = cmd[p].id /\ d.how = cmd[p].how
      /\ d.shut = cmd[p].shut
    BY <1>1, GoesOn
<1> HIDE DEF d
<1>3. Goto(p, d)
    BY DEF d
<1>4. TypeOK' /\ cmd'[p] = d /\ Others(p)
    BY <1>1, <1>2, <1>3, GateStep
<1> QED BY <1>2, <1>4

LEMMA CountEffect ==
    ASSUME TypeOK, NEW p \in Procs, CountAttempt(p)
    PROVE  /\ TypeOK' /\ Others(p) /\ cmd[p].pc = "bump" /\ cmd'[p].pc = "count"
           /\ cmd[p].id \in DOMAIN pins
           /\ cmd'[p].id = cmd[p].id /\ cmd'[p].how = cmd[p].how
           /\ DOMAIN pins' = DOMAIN pins
           /\ pins'[cmd[p].id].attempts = pins[cmd[p].id].attempts + 1
           /\ pins'[cmd[p].id].locked = pins[cmd[p].id].locked
           /\ \A i \in DOMAIN pins \ {cmd[p].id} : pins'[i] = pins[i]
           /\ UNCHANGED <<now, disk, rows, tokens, wrong, lost, count>>
<1> DEFINE id == cmd[p].id
           r == [pins[id] EXCEPT !.attempts = @ + 1]
<1>1. /\ cmd[p].pc = "bump" /\ pins' = [pins EXCEPT ![id].attempts = @ + 1]
      /\ Goto(p, [cmd[p] EXCEPT !.pc = "count"])
      /\ UNCHANGED <<now, disk, rows, tokens, wrong, lost, count>>
    BY DEF CountAttempt
<1>2. /\ "count" \in GateSteps /\ cmd[p].pc \in GateSteps \ {"use"}
    BY <1>1 DEF GateSteps
<1>3. /\ id \in DOMAIN pins /\ pins[id] \in PinRows
      /\ wrong \in [1..MaxRows -> Nat] /\ pins \in [DOMAIN pins -> PinRows]
    BY <1>2, Judging
<1>4. pins' = [pins EXCEPT ![id] = r]
    BY <1>1, Zenon
<1>5. pins[id].attempts + 1 \in Nat
    BY <1>3 DEF PinRows
<1>6. r \in PinRows /\ r.attempts = pins[id].attempts + 1 /\ r.locked = pins[id].locked
    BY <1>3, <1>5 DEF PinRows
<1> HIDE DEF r
<1>7. /\ pins' \in [DOMAIN pins -> PinRows] /\ DOMAIN pins' = DOMAIN pins
      /\ pins'[id] = r /\ \A j \in DOMAIN pins \ {id} : pins'[j] = pins[j]
    BY <1>3, <1>4, <1>6, ChangePin
<1>8. /\ TypeOK' /\ Others(p) /\ cmd'[p].pc = "count" /\ cmd'[p].id = cmd[p].id
      /\ cmd'[p].how = cmd[p].how
    BY <1>1, <1>2, <1>3, <1>7, GateMove
<1> QED BY <1>1, <1>3, <1>6, <1>7, <1>8

LEMMA CheckEffect ==
    ASSUME TypeOK, NEW p \in Procs, CheckAttempts(p)
    PROVE  /\ TypeOK' /\ Others(p) /\ cmd[p].pc = "count" /\ cmd[p].id \in DOMAIN pins
           /\ \/ /\ cmd'[p].pc = "lock" /\ cmd'[p].id = cmd[p].id
                 /\ cmd'[p].how = cmd[p].how
              \/ /\ cmd'[p] = Idle /\ cmd'[p].pc = "idle"
                 /\ pins[cmd[p].id].attempts < MaxAttempts
           /\ UNCHANGED <<now, disk, rows, pins, tokens, wrong, lost, count>>
<1>1. /\ cmd[p].pc = "count"
      /\ UNCHANGED <<now, disk, rows, pins, tokens, wrong, lost, count>>
    BY DEF CheckAttempts
<1>2. /\ "lock" \in GateSteps /\ cmd[p].pc \in GateSteps \ {"use"}
    BY <1>1 DEF GateSteps
<1>3. /\ cmd[p].id \in DOMAIN pins /\ pins[cmd[p].id] \in PinRows
      /\ wrong \in [1..MaxRows -> Nat] /\ pins \in [DOMAIN pins -> PinRows]
    BY <1>2, Judging
<1>4. pins[cmd[p].id].attempts \in Nat /\ MaxAttempts \in Nat
    BY <1>3, AccessAssumption DEF PinRows
<1>5. CASE pins[cmd[p].id].attempts >= MaxAttempts
  <2>1. Goto(p, [cmd[p] EXCEPT !.pc = "lock"])
      BY <1>5 DEF CheckAttempts
  <2> QED BY <1>1, <1>2, <1>3, <2>1, GateMove
<1>6. CASE ~(pins[cmd[p].id].attempts >= MaxAttempts)
  <2>1. Done(p) /\ pins[cmd[p].id].attempts < MaxAttempts
      BY <1>4, <1>6 DEF CheckAttempts
  <2> QED BY <1>1, <1>3, <2>1, PinEnds
<1> QED BY <1>5, <1>6

LEMMA LockEffect ==
    ASSUME TypeOK, NEW p \in Procs, LockPin(p)
    PROVE  /\ TypeOK' /\ Others(p) /\ cmd[p].pc = "lock" /\ cmd[p].id \in DOMAIN pins
           /\ cmd'[p] = Idle /\ cmd'[p].pc = "idle"
           /\ DOMAIN pins' = DOMAIN pins /\ pins'[cmd[p].id].locked
           /\ pins'[cmd[p].id].attempts = pins[cmd[p].id].attempts
           /\ \A i \in DOMAIN pins \ {cmd[p].id} : pins'[i] = pins[i]
           /\ UNCHANGED <<now, disk, rows, tokens, wrong, lost, count>>
<1> DEFINE id == cmd[p].id
           r == [pins[id] EXCEPT !.locked = TRUE]
<1>1. /\ cmd[p].pc = "lock" /\ pins' = [pins EXCEPT ![id].locked = TRUE] /\ Done(p)
      /\ UNCHANGED <<now, disk, rows, tokens, wrong, lost, count>>
    BY DEF LockPin
<1>2. cmd[p].pc \in GateSteps \ {"use"}
    BY <1>1 DEF GateSteps
<1>3. /\ id \in DOMAIN pins /\ pins[id] \in PinRows
      /\ wrong \in [1..MaxRows -> Nat] /\ pins \in [DOMAIN pins -> PinRows]
    BY <1>2, Judging
<1>4. pins' = [pins EXCEPT ![id] = r]
    BY <1>1, Zenon
<1>5. r \in PinRows /\ r.attempts = pins[id].attempts /\ r.locked
    BY <1>3 DEF PinRows
<1> HIDE DEF r
<1>6. /\ pins' \in [DOMAIN pins -> PinRows] /\ DOMAIN pins' = DOMAIN pins
      /\ pins'[id] = r /\ \A j \in DOMAIN pins \ {id} : pins'[j] = pins[j]
    BY <1>3, <1>4, <1>5, ChangePin
<1> QED BY <1>1, <1>3, <1>5, <1>6, PinEnds

LEMMA AcceptEffect ==
    ASSUME TypeOK, NEW p \in Procs, AcceptPin(p)
    PROVE  /\ TypeOK' /\ Others(p) /\ cmd[p].pc = "accept" /\ cmd[p].id \in DOMAIN pins
           /\ cmd'[p].pc = "use" /\ cmd'[p].id = cmd[p].id
           /\ cmd'[p].how = cmd[p].how /\ cmd'[p].shut = cmd[p].shut
           /\ DOMAIN pins' = DOMAIN pins
           /\ pins'[cmd[p].id].locked = pins[cmd[p].id].locked
           /\ pins'[cmd[p].id].attempts = 0
           /\ \A i \in DOMAIN pins \ {cmd[p].id} : pins'[i] = pins[i]
           /\ wrong' = [wrong EXCEPT ![cmd[p].id] = 0]
           /\ UNCHANGED <<now, disk, rows, tokens, lost, count>>
<1> DEFINE id == cmd[p].id
           t == IF cmd[p].every THEN pins[id].until ELSE now + Ttl
           r == [pins[id] EXCEPT !.attempts = 0, !.until = t]
<1>1. /\ cmd[p].pc = "accept"
      /\ pins' = [pins EXCEPT ![id].attempts = 0,
                              ![id].until = IF cmd[p].every THEN @ ELSE now + Ttl]
      /\ wrong' = [wrong EXCEPT ![id] = 0]
      /\ Goto(p, [cmd[p] EXCEPT !.pc = "use"])
      /\ UNCHANGED <<now, disk, rows, tokens, lost, count>>
    BY DEF AcceptPin
<1>2. "use" \in GateSteps /\ cmd[p].pc \in GateSteps \ {"use"}
    BY <1>1 DEF GateSteps
<1>3. /\ id \in DOMAIN pins /\ pins[id] \in PinRows /\ id \in 1..MaxRows
      /\ wrong \in [1..MaxRows -> Nat] /\ pins \in [DOMAIN pins -> PinRows]
    BY <1>2, Judging
<1>4. t \in Nat
  <2>1. now \in Nat
      BY Typed
  <2>2. Ttl \in Nat
      BY AccessAssumption
  <2>3. pins[id].until \in Nat
      BY <1>3 DEF PinRows
  <2>4. now + Ttl \in Nat
      BY <2>1, <2>2
  <2> HIDE DEF id
  <2> QED BY <2>3, <2>4
<1>5. r \in PinRows /\ r.attempts = 0 /\ r.locked = pins[id].locked
    BY <1>3, <1>4 DEF PinRows
<1>6. pins' = [pins EXCEPT ![id] = r]
    BY <1>1, <1>3 DEF PinRows
<1> HIDE DEF r
<1>7. /\ pins' \in [DOMAIN pins -> PinRows] /\ DOMAIN pins' = DOMAIN pins
      /\ pins'[id] = r /\ \A j \in DOMAIN pins \ {id} : pins'[j] = pins[j]
    BY <1>3, <1>6, <1>5, ChangePin
<1>8. wrong' \in [1..MaxRows -> Nat]
    BY <1>1, <1>3
<1>9. /\ TypeOK' /\ Others(p) /\ cmd'[p].pc = "use" /\ cmd'[p].id = cmd[p].id
      /\ cmd'[p].how = cmd[p].how /\ cmd'[p].shut = cmd[p].shut
    BY <1>1, <1>2, <1>7, <1>8, GateMove
<1> QED BY <1>1, <1>3, <1>5, <1>7, <1>9

(* A command ends and nothing else happens.                                *)
LEMMA QuietEnd ==
    ASSUME TypeOK, NEW p \in Procs, Done(p),
           UNCHANGED <<now, disk, rows, pins, tokens, wrong, lost, count>>
    PROVE  TypeOK' /\ Others(p) /\ cmd'[p] = Idle /\ cmd'[p].pc = "idle"
<1>1. pins' \in [DOMAIN pins -> PinRows] /\ wrong' \in [1..MaxRows -> Nat]
    BY Typed
<1> QED BY <1>1, PinEnds

LEMMA RelockEffect ==
    ASSUME TypeOK, NEW id \in Ids, Relock(id)
    PROVE  /\ TypeOK' /\ DOMAIN pins' = DOMAIN pins
           /\ \A i \in DOMAIN pins : /\ pins'[i].locked = pins[i].locked
                                     /\ pins'[i].attempts = pins[i].attempts
           /\ UNCHANGED <<now, disk, rows, tokens, cmd, wrong, lost, count>>
<1> DEFINE r == [pins[id] EXCEPT !.until = 0]
<1>1. /\ id \in DOMAIN pins /\ pins' = [pins EXCEPT ![id].until = 0]
      /\ UNCHANGED <<now, disk, rows, tokens, cmd, wrong, lost, count>>
    BY DEF Relock
<1>2. pins \in [DOMAIN pins -> PinRows] /\ pins[id] \in PinRows
    BY <1>1, Typed
<1>3. pins' = [pins EXCEPT ![id] = r]
    BY <1>1, Zenon
<1>4. r \in PinRows /\ r.attempts = pins[id].attempts /\ r.locked = pins[id].locked
    BY <1>2 DEF PinRows
<1> HIDE DEF r
<1>5. /\ pins' \in [DOMAIN pins -> PinRows] /\ DOMAIN pins' = DOMAIN pins
      /\ pins'[id] = r /\ \A j \in DOMAIN pins \ {id} : pins'[j] = pins[j]
    BY <1>1, <1>2, <1>3, <1>4, ChangePin
<1>6. Ids' = Ids
    BY <1>1 DEF Ids
<1>7. TypeOK'
  <2>1. /\ now' \in 0..MaxTime /\ rows' \in Seq(RowRecords) /\ Len(rows') <= MaxRows
        /\ disk' \in [Paths -> 0..MaxWrites] /\ DOMAIN pins' \subseteq Ids'
        /\ tokens' \subseteq {i \in Ids' : rows'[i].kind = "share"}
        /\ wrong' \in [1..MaxRows -> Nat] /\ lost' \subseteq 1..MaxWrites
        /\ count' \in [writes: 0..MaxWrites, kills: 0..MaxKills, resets: 0..MaxResets]
      BY <1>1, <1>5, <1>6, Typed
  <2>2. pins' \in [DOMAIN pins' -> PinRows]
      BY <1>5
  <2> QED BY <2>1, <2>2, <1>1, <1>5, <1>6, NoCommand, TypedNext
<1> QED BY <1>1, <1>4, <1>5, <1>7

(* What a new PIN does to a command that another PIN had shut out.         *)
Reopen(c, id) ==
    IF "shut" \in DOMAIN c /\ c.id = id THEN [c EXCEPT !.shut = FALSE] ELSE c

LEMMA Reopened ==
    ASSUME NEW c \in CommandSteps, NEW id
    PROVE  /\ Reopen(c, id) \in CommandSteps /\ Reopen(c, id).pc = c.pc
           /\ c.pc \notin GateSteps => Reopen(c, id) = c
           /\ c.pc \in GateSteps =>
                /\ Reopen(c, id).id = c.id /\ Reopen(c, id).how = c.how
                /\ c.id # id => Reopen(c, id).shut = c.shut
                /\ c.id = id => Reopen(c, id).shut = FALSE
<1> DEFINE d == Reopen(c, id)
<1>1. CASE c.pc \in GateSteps
  <2>1. c \in AtGate
      BY <1>1, Shapes
  <2>2. "shut" \in DOMAIN c
      BY <2>1 DEF AtGate
  <2>3. CASE c.id = id
    <3>1. d = [c EXCEPT !.shut = FALSE]
        BY <2>2, <2>3 DEF Reopen
    <3>2. /\ d \in AtGate /\ d.pc = c.pc /\ d.id = c.id /\ d.how = c.how
          /\ d.shut = FALSE
        BY <3>1, <2>1 DEF AtGate
    <3> QED BY <3>2, <2>3, <1>1 DEF CommandSteps
  <2>4. CASE c.id # id
      BY <2>4, <1>1 DEF Reopen
  <2> QED BY <2>3, <2>4
<1>2. CASE c.pc \notin GateSteps
  <2>1. c = Idle \/ c \in Inserting \/ c \in Prompting
      BY <1>2, Shapes
  <2>2. "shut" \notin DOMAIN c
      BY <2>1 DEF Idle, Inserting, Prompting
  <2> QED BY <2>2, <1>2 DEF Reopen
<1> QED BY <1>1, <1>2

LEMMA ReplaceEffect ==
    ASSUME TypeOK, NEW id \in Ids, NEW every \in BOOLEAN, ReplacePin(id, every)
    PROVE  /\ TypeOK' /\ id \in DOMAIN pins /\ DOMAIN pins' = DOMAIN pins
           /\ pins'[id].attempts = 0
           /\ \A i \in DOMAIN pins \ {id} : pins'[i] = pins[i]
           /\ wrong' = [wrong EXCEPT ![id] = 0]
           /\ \A q \in Procs :
                 /\ cmd'[q].pc = cmd[q].pc
                 /\ cmd[q].pc \notin GateSteps => cmd'[q] = cmd[q]
                 /\ cmd[q].pc \in GateSteps =>
                      /\ cmd'[q].id = cmd[q].id /\ cmd'[q].how = cmd[q].how
                      /\ cmd[q].id # id => cmd'[q].shut = cmd[q].shut
                      /\ cmd[q].id = id => cmd'[q].shut = FALSE
           /\ count'.writes = count.writes /\ count'.kills = count.kills
           /\ UNCHANGED <<now, disk, rows, tokens, lost>>
<1>1. /\ id \in DOMAIN pins /\ count.resets < MaxResets
      /\ pins' = [pins EXCEPT ![id] = FreshPin(every)]
      /\ wrong' = [wrong EXCEPT ![id] = 0]
      /\ cmd' = [p \in Procs |-> IF "shut" \in DOMAIN cmd[p] /\ cmd[p].id = id
                                 THEN [cmd[p] EXCEPT !.shut = FALSE] ELSE cmd[p]]
      /\ count' = [count EXCEPT !.resets = @ + 1]
      /\ UNCHANGED <<now, disk, rows, tokens, lost>>
    BY DEF ReplacePin
<1>2. /\ pins \in [DOMAIN pins -> PinRows] /\ wrong \in [1..MaxRows -> Nat]
      /\ cmd \in [Procs -> CommandSteps] /\ MaxResets \in Nat
      /\ count \in [writes: 0..MaxWrites, kills: 0..MaxKills, resets: 0..MaxResets]
    BY Typed, AccessAssumption
<1>3. FreshPin(every) \in PinRows /\ FreshPin(every).attempts = 0
    BY DEF FreshPin, PinRows
<1>4. /\ pins' \in [DOMAIN pins -> PinRows] /\ DOMAIN pins' = DOMAIN pins
      /\ pins'[id] = FreshPin(every) /\ \A j \in DOMAIN pins \ {id} : pins'[j] = pins[j]
    BY <1>1, <1>2, <1>3, ChangePin
<1>5. count.resets \in 0..MaxResets
    BY <1>2
<1>6. count.resets + 1 \in 0..MaxResets
    BY <1>1, <1>2, <1>5
<1>7. /\ count' \in [writes: 0..MaxWrites, kills: 0..MaxKills, resets: 0..MaxResets]
      /\ count'.writes = count.writes /\ count'.kills = count.kills
    BY <1>1, <1>2, <1>6
<1>8. \A q \in Procs :
         /\ cmd'[q] \in CommandSteps /\ cmd'[q].pc = cmd[q].pc
         /\ cmd[q].pc \notin GateSteps => cmd'[q] = cmd[q]
         /\ cmd[q].pc \in GateSteps =>
              /\ cmd'[q].id = cmd[q].id /\ cmd'[q].how = cmd[q].how
              /\ cmd[q].id # id => cmd'[q].shut = cmd[q].shut
              /\ cmd[q].id = id => cmd'[q].shut = FALSE
  <2> SUFFICES ASSUME NEW q \in Procs
               PROVE  /\ cmd'[q] \in CommandSteps /\ cmd'[q].pc = cmd[q].pc
                      /\ cmd[q].pc \notin GateSteps => cmd'[q] = cmd[q]
                      /\ cmd[q].pc \in GateSteps =>
                           /\ cmd'[q].id = cmd[q].id /\ cmd'[q].how = cmd[q].how
                           /\ cmd[q].id # id => cmd'[q].shut = cmd[q].shut
                           /\ cmd[q].id = id => cmd'[q].shut = FALSE
      OBVIOUS
  <2>1. cmd[q] \in CommandSteps
      BY <1>2
  <2>2. cmd'[q] = Reopen(cmd[q], id)
      BY <1>1 DEF Reopen
  <2>3. /\ Reopen(cmd[q], id) \in CommandSteps /\ Reopen(cmd[q], id).pc = cmd[q].pc
        /\ cmd[q].pc \notin GateSteps => Reopen(cmd[q], id) = cmd[q]
        /\ cmd[q].pc \in GateSteps =>
             /\ Reopen(cmd[q], id).id = cmd[q].id /\ Reopen(cmd[q], id).how = cmd[q].how
             /\ cmd[q].id # id => Reopen(cmd[q], id).shut = cmd[q].shut
             /\ cmd[q].id = id => Reopen(cmd[q], id).shut = FALSE
      BY <2>1, Reopened, Zenon
  <2> QED BY <2>2, <2>3, Zenon
<1>9. Ids' = Ids /\ "setpin" \notin GateSteps
    BY <1>1 DEF Ids, GateSteps
<1>10. TypeOK'
  <2>1. /\ now' \in 0..MaxTime /\ rows' \in Seq(RowRecords) /\ Len(rows') <= MaxRows
        /\ disk' \in [Paths -> 0..MaxWrites] /\ DOMAIN pins' \subseteq Ids'
        /\ tokens' \subseteq {i \in Ids' : rows'[i].kind = "share"}
        /\ lost' \subseteq 1..MaxWrites
      BY <1>1, <1>4, <1>9, Typed
  <2>2. pins' \in [DOMAIN pins' -> PinRows] /\ wrong' \in [1..MaxRows -> Nat]
      BY <1>1, <1>2, <1>4
  <2>3. cmd' \in [Procs -> CommandSteps]
      BY <1>1, <1>8
  <2>4. \A q \in Procs : cmd[q].pc \in GateSteps \/ cmd'[q] = cmd[q]
      BY <1>8
  <2>5. \A q \in Procs : cmd'[q].pc \notin {"idle", "insert"} => cmd'[q].id \in Ids'
      BY <1>8, <1>9, <2>4, Typed
  <2>6. \A q \in Procs : cmd'[q].pc \in GateSteps \ {"use"} => cmd'[q].id \in DOMAIN pins'
      BY <1>8, <1>4, Typed
  <2> QED BY <2>1, <2>2, <2>3, <2>5, <2>6, <1>7, TypedNext
<1> QED BY <1>1, <1>3, <1>4, <1>7, <1>8, <1>10

LEMMA TickEffect ==
    ASSUME TypeOK, Tick
    PROVE  TypeOK' /\ UNCHANGED <<disk, rows, pins, tokens, cmd, wrong, lost, count>>
<1>1. /\ now' = now + 1 /\ now < MaxTime
      /\ UNCHANGED <<disk, rows, pins, tokens, cmd, wrong, lost, count>>
    BY DEF Tick
<1>2. now' \in 0..MaxTime
    BY <1>1, Typed, AccessAssumption
<1>3. /\ rows' \in Seq(RowRecords) /\ Len(rows') <= MaxRows /\ Ids' = Ids
      /\ disk' \in [Paths -> 0..MaxWrites] /\ DOMAIN pins' \subseteq Ids'
      /\ pins' \in [DOMAIN pins' -> PinRows]
      /\ tokens' \subseteq {i \in Ids' : rows'[i].kind = "share"}
      /\ wrong' \in [1..MaxRows -> Nat] /\ lost' \subseteq 1..MaxWrites
      /\ count' \in [writes: 0..MaxWrites, kills: 0..MaxKills, resets: 0..MaxResets]
    BY <1>1, Typed DEF Ids
<1> QED BY <1>1, <1>2, <1>3, NoCommand, TypedNext

-----------------------------------------------------------------------------
(* Files and rows: every step keeps the tags apart and each ciphertext     *)
(* with its row.                                                           *)

Files == TagsTellApart /\ CiphertextKept /\ NoUntrackedFile

InsertsStay ==
    \A q \in Procs : /\ cmd'[q].pc = "insert" <=> cmd[q].pc = "insert"
                     /\ cmd[q].pc = "insert" => /\ cmd'[q].tag = cmd[q].tag
                                                /\ cmd'[q].path = cmd[q].path

LEMMA InsertsStayPut ==
    ASSUME NEW p \in Procs, Others(p), cmd[p].pc # "insert", cmd'[p].pc # "insert"
    PROVE  InsertsStay
BY DEF Others, InsertsStay

(* A step that leaves files alone.                                         *)
LEMMA FilesFrame ==
    ASSUME Files, SameRows, InsertsStay, disk' = disk, lost' = lost,
           count'.writes = count.writes
    PROVE  Files'
<1>1. RowsHaveTags'
    BY DEF Files, TagsTellApart, RowsHaveTags, SameRows, IsFile
<1>2. CommandsHaveTags'
    BY DEF Files, TagsTellApart, CommandsHaveTags, SameRows, InsertsStay, IsFile
<1>3. FilesHaveTags'
    BY DEF Files, TagsTellApart, FilesHaveTags
<1>4. CiphertextKept'
    BY DEF Files, CiphertextKept, SameRows
<1>5. NoUntrackedFile'
    BY DEF Files, NoUntrackedFile, SameRows, InsertsStay
<1> QED BY <1>1, <1>2, <1>3, <1>4, <1>5 DEF Files, TagsTellApart

LEMMA FilesWrite ==
    ASSUME TypeOK, Files, NEW p \in Procs, NEW kind \in Kinds, NEW path \in Paths,
           NEW asked \in BOOLEAN, WriteCiphertext(p, kind, path, asked)
    PROVE  Files'
<1> DEFINE n == count.writes
<1>1. /\ Others(p) /\ cmd[p] = Idle /\ cmd'[p].pc = "insert"
      /\ cmd'[p].path = path /\ cmd'[p].tag = n + 1
      /\ disk[path] = 0 /\ disk'[path] = n + 1
      /\ \A f \in Paths \ {path} : disk'[f] = disk[f]
      /\ count'.writes = n + 1 /\ n \in Nat /\ rows' = rows /\ lost' = lost
    BY WriteEffect
<1>2. /\ disk \in [Paths -> 0..MaxWrites] /\ cmd \in [Procs -> CommandSteps]
      /\ rows \in Seq(RowRecords) /\ Ids' = Ids /\ MaxWrites \in Nat
    BY <1>1, Typed, AccessAssumption DEF Ids
<1>3. cmd[p].pc # "insert"
    BY <1>1 DEF Idle
<1>4. \A q \in Procs : cmd[q].pc = "insert" => cmd[q].path \in Paths
    BY <1>2, Shapes DEF Inserting
<1>5. RowsHaveTags /\ CommandsHaveTags /\ FilesHaveTags
    BY DEF Files, TagsTellApart
<1>6. \A f \in Paths : disk[f] \in Nat /\ disk[f] <= n
    BY <1>2, <1>5 DEF FilesHaveTags
<1>7. RowsHaveTags'
    BY <1>1, <1>2, <1>5 DEF RowsHaveTags
<1>8. CommandsHaveTags'
  <2>1. ASSUME NEW q \in Procs, cmd'[q].pc = "insert"
        PROVE  /\ cmd'[q].tag \in 1..(n + 1) /\ disk'[cmd'[q].path] = cmd'[q].tag
               /\ \A i \in Ids : IsFile(rows[i]) => rows[i].tag # cmd'[q].tag
               /\ q # p => cmd'[q].tag \in 1..n
    <3>1. CASE q = p
        BY <1>1, <1>5, <3>1 DEF RowsHaveTags
    <3>2. CASE q # p
      <4>1. cmd'[q] = cmd[q] /\ cmd[q].pc = "insert"
          BY <1>1, <2>1, <3>2 DEF Others
      <4>2. /\ cmd[q].tag \in 1..n /\ disk[cmd[q].path] = cmd[q].tag
            /\ \A i \in Ids : IsFile(rows[i]) => rows[i].tag # cmd[q].tag
          BY <4>1, <1>5 DEF CommandsHaveTags
      <4>3. cmd[q].path \in Paths \ {path}
          BY <4>1, <4>2, <1>1, <1>4
      <4> QED BY <4>1, <4>2, <4>3, <1>1
    <3> QED BY <3>1, <3>2
  <2>2. ASSUME NEW q \in Procs, NEW r \in Procs, cmd'[q].pc = "insert",
               cmd'[r].pc = "insert", cmd'[q].tag = cmd'[r].tag
        PROVE  q = r
    <3>1. CASE q = p \/ r = p
        BY <3>1, <2>1, <2>2, <1>1
    <3>2. CASE q # p /\ r # p
        BY <3>2, <2>2, <1>1, <1>5 DEF Others, CommandsHaveTags
    <3> QED BY <3>1, <3>2
  <2> QED BY <2>1, <2>2, <1>1, <1>2 DEF CommandsHaveTags
<1>9. FilesHaveTags'
  <2>1. \A f \in Paths : disk'[f] <= n + 1
      BY <1>1, <1>6
  <2>2. \A f, g \in Paths : disk'[f] = disk'[g] /\ disk'[f] # 0 => f = g
      BY <1>1, <1>5, <1>6 DEF FilesHaveTags
  <2> QED BY <2>1, <2>2, <1>1 DEF FilesHaveTags
<1>10. CiphertextKept'
  <2> SUFFICES ASSUME NEW i \in Ids, IsFile(rows[i]), rows[i].tag \notin lost
               PROVE  disk'[rows[i].path] = rows[i].tag
      BY <1>1, <1>2 DEF CiphertextKept, IsFile
  <2>1. rows[i].path \in Paths /\ rows[i].tag \in 1..n
      BY <1>5 DEF RowsHaveTags
  <2>2. disk[rows[i].path] = rows[i].tag
      BY DEF Files, CiphertextKept, IsFile
  <2> QED BY <2>1, <2>2, <1>1
<1>11. NoUntrackedFile'
  <2> SUFFICES ASSUME NEW f \in Paths, disk'[f] # 0
               PROVE  \/ \E i \in Ids : rows[i].tag = disk'[f]
                      \/ \E q \in Procs : cmd'[q].pc = "insert" /\ cmd'[q].tag = disk'[f]
                      \/ disk'[f] \in lost
      BY <1>1, <1>2 DEF NoUntrackedFile
  <2>1. CASE f = path
      BY <2>1, <1>1
  <2>2. CASE f # path
      BY <2>2, <1>1, <1>3 DEF Files, NoUntrackedFile, Others
  <2> QED BY <2>1, <2>2
<1> QED BY <1>7, <1>8, <1>9, <1>10, <1>11 DEF Files, TagsTellApart

LEMMA FilesInsert ==
    ASSUME TypeOK, Files, NEW p \in Procs, InsertRow(p)
    PROVE  Files'
<1> DEFINE k == Len(rows) + 1
<1>1. /\ Others(p) /\ cmd[p] \in Inserting /\ cmd[p].pc = "insert"
      /\ Ids' = Ids \union {k} /\ k \notin Ids
      /\ \A i \in Ids : rows'[i] = rows[i]
      /\ rows'[k].kind = cmd[p].kind /\ rows'[k].path = cmd[p].path
      /\ rows'[k].tag = cmd[p].tag
      /\ cmd'[p].pc # "insert" /\ UNCHANGED <<disk, lost, count>>
    BY InsertEffect
<1> HIDE DEF k
<1>2. cmd[p].path \in Paths /\ cmd[p].kind \in {"file", "quorum"}
    BY <1>1 DEF Inserting
<1>3. RowsHaveTags /\ CommandsHaveTags /\ FilesHaveTags
    BY DEF Files, TagsTellApart
<1>4. /\ cmd[p].tag \in 1..count.writes /\ disk[cmd[p].path] = cmd[p].tag
      /\ \A i \in Ids : IsFile(rows[i]) => rows[i].tag # cmd[p].tag
    BY <1>1, <1>3 DEF CommandsHaveTags
<1>5. RowsHaveTags'
    BY <1>1, <1>2, <1>3, <1>4 DEF RowsHaveTags, IsFile
<1>6. \A q \in Procs : cmd'[q].pc = "insert" => q # p /\ cmd'[q] = cmd[q]
    BY <1>1 DEF Others
<1>7. CommandsHaveTags'
  <2>1. ASSUME NEW q \in Procs, cmd'[q].pc = "insert"
        PROVE  /\ cmd[q].tag \in 1..count.writes /\ disk[cmd[q].path] = cmd[q].tag
               /\ \A i \in Ids' : IsFile(rows'[i]) => rows'[i].tag # cmd[q].tag
    <3>1. q # p /\ cmd[q].pc = "insert"
        BY <2>1, <1>6
    <3>2. cmd[q].tag # cmd[p].tag
        BY <3>1, <1>1, <1>3 DEF CommandsHaveTags
    <3> QED BY <3>1, <3>2, <1>1, <1>3 DEF CommandsHaveTags
  <2> QED BY <2>1, <1>1, <1>3, <1>6 DEF CommandsHaveTags
<1>8. FilesHaveTags'
    BY <1>1, <1>3 DEF FilesHaveTags
<1>9. CiphertextKept'
    BY <1>1, <1>4 DEF Files, CiphertextKept
<1>10. NoUntrackedFile'
  <2> SUFFICES ASSUME NEW f \in Paths, disk[f] # 0
               PROVE  \/ \E i \in Ids' : rows'[i].tag = disk[f]
                      \/ \E q \in Procs : cmd'[q].pc = "insert" /\ cmd'[q].tag = disk[f]
                      \/ disk[f] \in lost
      BY <1>1 DEF NoUntrackedFile
  <2>1. CASE \E i \in Ids : rows[i].tag = disk[f]
      BY <2>1, <1>1
  <2>2. ASSUME NEW q \in Procs, cmd[q].pc = "insert", cmd[q].tag = disk[f]
        PROVE  \/ \E i \in Ids' : rows'[i].tag = disk[f]
               \/ \E x \in Procs : cmd'[x].pc = "insert" /\ cmd'[x].tag = disk[f]
    <3>1. CASE q = p
        BY <3>1, <2>2, <1>1
    <3>2. CASE q # p
        BY <3>2, <2>2, <1>1 DEF Others
    <3> QED BY <3>1, <3>2
  <2>3. CASE disk[f] \in lost
      BY <2>3
  <2> QED BY <2>1, <2>2, <2>3 DEF Files, NoUntrackedFile
<1> QED BY <1>5, <1>7, <1>8, <1>9, <1>10 DEF Files, TagsTellApart

(* A row that is about no file.                                            *)
LEMMA FilesPlainRow ==
    ASSUME Files, NEW k, Ids' = Ids \union {k}, k \notin Ids,
           \A i \in Ids : rows'[i] = rows[i], ~IsFile(rows'[k]), InsertsStay,
           UNCHANGED <<disk, lost, count>>
    PROVE  Files'
<1>1. RowsHaveTags /\ CommandsHaveTags /\ FilesHaveTags
    BY DEF Files, TagsTellApart
<1>2. RowsHaveTags'
    BY <1>1 DEF RowsHaveTags
<1>3. CommandsHaveTags'
    BY <1>1 DEF CommandsHaveTags, InsertsStay
<1>4. FilesHaveTags'
    BY <1>1 DEF FilesHaveTags
<1>5. CiphertextKept'
    BY DEF Files, CiphertextKept, IsFile
<1>6. NoUntrackedFile'
    BY DEF Files, NoUntrackedFile, InsertsStay
<1> QED BY <1>2, <1>3, <1>4, <1>5, <1>6 DEF Files, TagsTellApart

(* A file goes and nothing else refers to it: its command ends, or the     *)
(* user deleted it.                                                        *)
LEMMA FilesGone ==
    ASSUME TypeOK, Files, NEW path \in Paths, NEW tag \in Nat \ {0}, disk[path] = tag,
           disk'[path] = 0, \A f \in Paths \ {path} : disk'[f] = disk[f],
           rows' = rows, count' = count, lost' = lost \/ lost' = lost \union {tag},
           \A i \in Ids : IsFile(rows[i]) /\ rows[i].tag = tag => tag \in lost',
           \A q \in Procs : cmd'[q].pc = "insert" =>
                              cmd'[q] = cmd[q] /\ cmd[q].tag # tag,
           \A q \in Procs : cmd[q].pc = "insert" /\ cmd[q].tag # tag => cmd'[q] = cmd[q]
    PROVE  Files'
<1>1. RowsHaveTags /\ CommandsHaveTags /\ FilesHaveTags /\ Ids' = Ids
    BY DEF Files, TagsTellApart, Ids
<1>2. cmd \in [Procs -> CommandSteps] /\ disk \in [Paths -> 0..MaxWrites]
      /\ \A q \in Procs : cmd[q].pc = "insert" => cmd[q].path \in Paths
    BY Typed, Shapes DEF Inserting
<1>3. RowsHaveTags'
    BY <1>1 DEF RowsHaveTags
<1>4. CommandsHaveTags'
  <2>1. ASSUME NEW q \in Procs, cmd'[q].pc = "insert"
        PROVE  disk'[cmd[q].path] = cmd[q].tag
    <3>1. disk[cmd[q].path] = cmd[q].tag /\ cmd[q].path \in Paths /\ cmd[q].tag # tag
        BY <2>1, <1>1, <1>2 DEF CommandsHaveTags
    <3> QED BY <3>1
  <2> QED BY <2>1, <1>1 DEF CommandsHaveTags
<1>5. FilesHaveTags'
  <2>1. \A f \in Paths : disk'[f] = disk[f] \/ disk'[f] = 0
      OBVIOUS
  <2>2. \A f \in Paths : disk[f] \in Nat /\ (disk[f] <= count.writes)
      BY <1>1, <1>2 DEF FilesHaveTags
  <2>3. count.writes \in Nat
      BY Typed
  <2>4. \A f \in Paths : disk'[f] <= count.writes
      BY <2>1, <2>2, <2>3
  <2>5. \A f, g \in Paths : disk'[f] = disk'[g] /\ disk'[f] # 0 => f = g
      BY <1>1 DEF FilesHaveTags
  <2> QED BY <2>4, <2>5 DEF FilesHaveTags
<1>6. CiphertextKept'
  <2> SUFFICES ASSUME NEW i \in Ids, IsFile(rows[i]), rows[i].tag \notin lost'
               PROVE  disk'[rows[i].path] = rows[i].tag
      BY <1>1 DEF CiphertextKept, IsFile
  <2>1. disk[rows[i].path] = rows[i].tag /\ rows[i].path \in Paths
      BY <1>1 DEF Files, CiphertextKept, IsFile, RowsHaveTags
  <2>2. rows[i].tag # tag
      OBVIOUS
  <2> QED BY <2>1, <2>2
<1>7. NoUntrackedFile'
  <2> SUFFICES ASSUME NEW f \in Paths, disk'[f] # 0
               PROVE  \/ \E i \in Ids : rows[i].tag = disk'[f]
                      \/ \E q \in Procs : cmd'[q].pc = "insert" /\ cmd'[q].tag = disk'[f]
                      \/ disk'[f] \in lost'
      BY <1>1 DEF NoUntrackedFile
  <2>1. f # path /\ disk'[f] = disk[f]
      OBVIOUS
  <2>2. disk[f] # tag
      BY <2>1, <1>1 DEF FilesHaveTags
  <2>3. \/ \E i \in Ids : rows[i].tag = disk[f]
        \/ \E q \in Procs : cmd[q].pc = "insert" /\ cmd[q].tag = disk[f]
        \/ disk[f] \in lost
      BY <2>1 DEF Files, NoUntrackedFile
  <2> QED BY <2>1, <2>2, <2>3
<1> QED BY <1>3, <1>4, <1>5, <1>6, <1>7 DEF Files, TagsTellApart

LEMMA FilesInsertFails ==
    ASSUME TypeOK, Files, NEW p \in Procs, InsertFails(p)
    PROVE  Files'
<1>1. /\ Others(p) /\ cmd[p] \in Inserting /\ cmd[p].pc = "insert"
      /\ cmd'[p].pc = "idle" /\ disk'[cmd[p].path] = 0
      /\ \A f \in Paths \ {cmd[p].path} : disk'[f] = disk[f]
      /\ UNCHANGED <<rows, lost, count>>
    BY InsertFailsEffect
<1>2. cmd[p].path \in Paths
    BY <1>1 DEF Inserting
<1>3. /\ cmd[p].tag \in Nat \ {0} /\ disk[cmd[p].path] = cmd[p].tag
      /\ \A i \in Ids : IsFile(rows[i]) => rows[i].tag # cmd[p].tag
      /\ \A q \in Procs \ {p} : cmd[q].pc = "insert" => cmd[q].tag # cmd[p].tag
    BY <1>1 DEF Files, TagsTellApart, CommandsHaveTags
<1> QED BY <1>1, <1>2, <1>3, FilesGone DEF Others

LEMMA FilesDelete ==
    ASSUME TypeOK, Files, NEW id \in Ids, UserDeletes(id)
    PROVE  Files'
<1>1. IsFile(rows[id]) /\ disk[rows[id].path] = rows[id].tag
    BY DEF UserDeletes, IsFile
<1>2. rows[id].path \in Paths /\ rows[id].tag \in 1..count.writes
    BY <1>1 DEF Files, TagsTellApart, RowsHaveTags
<1>3. count.writes \in 0..MaxWrites /\ MaxWrites \in Nat
    BY Typed, AccessAssumption
<1>4. rows[id].tag \in 1..MaxWrites /\ rows[id].tag \in Nat \ {0}
    BY <1>2, <1>3
<1>5. /\ disk'[rows[id].path] = 0
      /\ \A f \in Paths \ {rows[id].path} : disk'[f] = disk[f]
      /\ lost' = lost \union {rows[id].tag}
      /\ UNCHANGED <<rows, cmd, count>>
    BY <1>2, <1>4, DeleteEffect
<1>6. \A q \in Procs : cmd[q].pc = "insert" => cmd[q].tag # rows[id].tag
    BY <1>1 DEF Files, TagsTellApart, CommandsHaveTags
<1> QED BY <1>1, <1>2, <1>4, <1>5, <1>6, FilesGone

(* A tag that a command holds was handed out.                              *)
LEMMA InsertingTags ==
    ASSUME TypeOK, Files, NEW p \in Procs, cmd[p].pc = "insert"
    PROVE  cmd[p].tag \in 1..MaxWrites
<1>1. count.writes \in 0..MaxWrites /\ MaxWrites \in Nat
    BY Typed, AccessAssumption
<1>2. cmd[p].tag \in 1..count.writes
    BY DEF Files, TagsTellApart, CommandsHaveTags
<1> QED BY <1>1, <1>2

LEMMA FilesKill ==
    ASSUME TypeOK, Files, NEW p \in Procs, Kill(p)
    PROVE  Files'
<1>1. /\ Others(p) /\ cmd'[p].pc = "idle" /\ UNCHANGED <<disk, rows>>
      /\ lost' = IF cmd[p].pc = "insert" THEN lost \union {cmd[p].tag} ELSE lost
      /\ count'.writes = count.writes
    BY InsertingTags, KillEffect
<1>2. CASE cmd[p].pc # "insert"
    BY <1>1, <1>2, InsertsStayPut, SameRowsStutter, FilesFrame
<1>3. CASE cmd[p].pc = "insert"
  <2>1. RowsHaveTags /\ CommandsHaveTags /\ FilesHaveTags /\ Ids' = Ids
      BY <1>1 DEF Files, TagsTellApart, Ids
  <2>2. \A q \in Procs : cmd'[q].pc = "insert" => q # p /\ cmd'[q] = cmd[q]
      BY <1>1 DEF Others
  <2>3. RowsHaveTags'
      BY <1>1, <2>1 DEF RowsHaveTags
  <2>4. CommandsHaveTags'
      BY <1>1, <2>1, <2>2 DEF CommandsHaveTags
  <2>5. FilesHaveTags'
      BY <1>1, <2>1 DEF FilesHaveTags
  <2>6. CiphertextKept'
      BY <1>1, <2>1 DEF Files, CiphertextKept
  <2>7. NoUntrackedFile'
    <3> SUFFICES ASSUME NEW f \in Paths, disk[f] # 0
                 PROVE  \/ \E i \in Ids : rows[i].tag = disk[f]
                        \/ \E q \in Procs : cmd'[q].pc = "insert" /\ cmd'[q].tag = disk[f]
                        \/ disk[f] \in lost'
        BY <1>1, <2>1 DEF NoUntrackedFile
    <3>1. ASSUME NEW q \in Procs, cmd[q].pc = "insert", cmd[q].tag = disk[f]
          PROVE  \/ \E x \in Procs : cmd'[x].pc = "insert" /\ cmd'[x].tag = disk[f]
                 \/ disk[f] \in lost'
      <4>1. CASE q = p
          BY <4>1, <3>1, <1>1, <1>3
      <4>2. CASE q # p
          BY <4>2, <3>1, <1>1 DEF Others
      <4> QED BY <4>1, <4>2
    <3> QED BY <3>1, <1>1 DEF Files, NoUntrackedFile
  <2> QED BY <2>3, <2>4, <2>5, <2>6, <2>7 DEF Files, TagsTellApart
<1> QED BY <1>2, <1>3

-----------------------------------------------------------------------------
(* Guesses: how many commands judged a wrong PIN and where they are now.   *)

LEMMA SomeCommands ==
    ASSUME NEW A \in SUBSET Procs
    PROVE  IsFiniteSet(A) /\ Cardinality(A) \in Nat /\ Cardinality(Procs) \in Nat
BY AccessAssumption, FS_Subset, FS_CardinalityType

LEMMA TwoSets ==
    ASSUME NEW A \in SUBSET Procs, NEW B \in SUBSET Procs, A \cap B = {}
    PROVE  Cardinality(A) + Cardinality(B) <= Cardinality(Procs)
<1>1. /\ IsFiniteSet(A) /\ IsFiniteSet(B) /\ A \union B \in SUBSET Procs
      /\ IsFiniteSet(Procs)
    BY SomeCommands, AccessAssumption
<1>2. /\ Cardinality(A) \in Nat /\ Cardinality(B) \in Nat
      /\ Cardinality(A \union B) \in Nat /\ Cardinality(Procs) \in Nat
    BY <1>1, SomeCommands
<1>3. Cardinality(A \union B) = Cardinality(A) + Cardinality(B) - Cardinality(A \cap B)
    BY <1>1, FS_Union
<1>4. Cardinality(A \cap B) = 0
    BY FS_EmptySet
<1>5. Cardinality(A \union B) <= Cardinality(Procs)
    BY <1>1, FS_Subset
<1> QED BY <1>2, <1>3, <1>4, <1>5

LEMMA OneMore ==
    ASSUME NEW A \in SUBSET Procs, NEW p \in Procs \ A
    PROVE  Cardinality(A \union {p}) = Cardinality(A) + 1
<1>1. IsFiniteSet(A) /\ p \notin A
    BY SomeCommands
<1> QED BY <1>1, FS_AddElement

LEMMA OneLess ==
    ASSUME NEW A \in SUBSET Procs, NEW p \in A
    PROVE  Cardinality(A) = Cardinality(A \ {p}) + 1
<1>1. A \ {p} \in SUBSET Procs /\ p \in Procs \ (A \ {p}) /\ (A \ {p}) \union {p} = A
    OBVIOUS
<1> QED BY <1>1, OneMore

(* What GuessesCounted says of one PIN.                                    *)
CountedAt(i) ==
    /\ wrong[i] <= pins[i].attempts + Cardinality(Uncounted(i)) + count.kills
    /\ ~pins[i].locked => wrong[i] <= (MaxAttempts - 1) + Cardinality(Uncounted(i))
                                        + Cardinality(Counting(i)) + count.kills

LEMMA Guessers ==
    ASSUME NEW i
    PROVE  /\ Uncounted(i) \in SUBSET Procs /\ Counting(i) \in SUBSET Procs
           /\ Uncounted(i) \cap Counting(i) = {}
           /\ Cardinality(Uncounted(i)) \in Nat /\ Cardinality(Counting(i)) \in Nat
           /\ Cardinality(Uncounted(i)) + Cardinality(Counting(i)) <= Cardinality(Procs)
<1>1. /\ Uncounted(i) \in SUBSET Procs /\ Counting(i) \in SUBSET Procs
      /\ Uncounted(i) \cap Counting(i) = {}
    BY DEF Uncounted, Counting
<1> QED BY <1>1, SomeCommands, TwoSets

LEMMA GuessersNext ==
    ASSUME NEW i
    PROVE  /\ Uncounted(i)' \in SUBSET Procs /\ Counting(i)' \in SUBSET Procs
           /\ Uncounted(i)' \cap Counting(i)' = {}
           /\ Cardinality(Uncounted(i)') \in Nat /\ Cardinality(Counting(i)') \in Nat
           /\ Cardinality(Uncounted(i)') + Cardinality(Counting(i)') <= Cardinality(Procs)
<1>1. /\ Uncounted(i)' \in SUBSET Procs /\ Counting(i)' \in SUBSET Procs
      /\ Uncounted(i)' \cap Counting(i)' = {}
    BY DEF Uncounted, Counting
<1> QED BY <1>1, SomeCommands, TwoSets

(* The numbers that CountedAt compares.                                    *)
LEMMA GuessTypes ==
    ASSUME TypeOK, NEW i \in DOMAIN pins
    PROVE  /\ i \in 1..MaxRows /\ wrong[i] \in Nat /\ pins[i].attempts \in Nat
           /\ pins[i].locked \in BOOLEAN /\ count.kills \in Nat
           /\ MaxAttempts - 1 \in Nat
<1>1. Len(rows) \in Nat /\ Len(rows) <= MaxRows /\ MaxRows \in Nat /\ i \in Ids
    BY Typed, AccessAssumption
<1>2. i \in 1..MaxRows
    BY <1>1 DEF Ids
<1>3. pins[i] \in PinRows /\ wrong \in [1..MaxRows -> Nat] /\ count.kills \in 0..MaxKills
    BY Typed
<1> QED BY <1>2, <1>3, AccessAssumption DEF PinRows

GuessersStay ==
    \A q \in Procs :
        /\ cmd'[q].pc = "bump" <=> cmd[q].pc = "bump"
        /\ cmd'[q].pc \in {"count", "lock"} <=> cmd[q].pc \in {"count", "lock"}
        /\ cmd[q].pc \in {"bump", "count", "lock"} => cmd'[q].id = cmd[q].id

LEMMA SameGuessers ==
    ASSUME GuessersStay, NEW i
    PROVE  Uncounted(i)' = Uncounted(i) /\ Counting(i)' = Counting(i)
BY DEF GuessersStay, Uncounted, Counting

(* A step that judges, counts and locks nothing.                           *)
LEMMA CountsFrame ==
    ASSUME GuessesCounted, GuessersStay, DOMAIN pins' = DOMAIN pins,
           \A i \in DOMAIN pins : /\ pins'[i].attempts = pins[i].attempts
                                  /\ pins'[i].locked = pins[i].locked,
           wrong' = wrong, count'.kills = count.kills
    PROVE  GuessesCounted'
<1> SUFFICES ASSUME NEW i \in DOMAIN pins PROVE CountedAt(i)'
    BY DEF GuessesCounted, CountedAt
<1>1. Uncounted(i)' = Uncounted(i) /\ Counting(i)' = Counting(i)
    BY SameGuessers
<1>2. CountedAt(i)
    BY DEF GuessesCounted, CountedAt
<1> QED BY <1>1, <1>2 DEF CountedAt

(* No guess is added.                                                      *)
LEMMA BoundFrame ==
    ASSUME TypeOK, GuessesBounded, count'.kills \in {count.kills, count.kills + 1},
           \A i \in 1..MaxRows : wrong'[i] = wrong[i] \/ wrong'[i] = 0
    PROVE  GuessesBounded'
<1> SUFFICES ASSUME NEW i \in 1..MaxRows
             PROVE  wrong'[i] <= (MaxAttempts - 1) + Cardinality(Procs) + count'.kills
    BY DEF GuessesBounded
<1>1. /\ wrong[i] \in Nat /\ count.kills \in Nat /\ MaxAttempts - 1 \in Nat
      /\ Cardinality(Procs) \in Nat
  <2>1. wrong[i] \in Nat /\ count.kills \in Nat
      BY Typed
  <2>2. MaxAttempts - 1 \in Nat
      BY AccessAssumption
  <2> QED BY <2>1, <2>2, SomeCommands
<1>2. wrong[i] <= (MaxAttempts - 1) + Cardinality(Procs) + count.kills
    BY DEF GuessesBounded
<1> QED BY <1>1, <1>2

(* The setpin commands stay as they are.                                   *)
LEMMA SetOnceFrame ==
    ASSUME PinSetOnce, DOMAIN pins' = DOMAIN pins,
           \A q \in Procs : cmd'[q].pc = "setpin" =>
                              cmd[q].pc = "setpin" /\ cmd'[q].id = cmd[q].id,
           \A i \in 1..MaxRows : i \notin DOMAIN pins => wrong'[i] = wrong[i]
    PROVE  PinSetOnce'
BY DEF PinSetOnce

Guesses == PinSetOnce /\ GuessesCounted /\ GuessesBounded

LEMMA GuessersStayPut ==
    ASSUME NEW p \in Procs, Others(p), cmd[p].pc \notin {"bump", "count", "lock"},
           cmd'[p].pc \notin {"bump", "count", "lock"}
    PROVE  GuessersStay
BY DEF Others, GuessersStay

(* A step of command p that judges nothing and asks for no new PIN.        *)
LEMMA GuessesFrame ==
    ASSUME TypeOK, Guesses, GuessersStay, DOMAIN pins' = DOMAIN pins,
           \A q \in Procs : cmd'[q].pc = "setpin" =>
                              cmd[q].pc = "setpin" /\ cmd'[q].id = cmd[q].id,
           \A i \in DOMAIN pins : /\ pins'[i].attempts = pins[i].attempts
                                  /\ pins'[i].locked = pins[i].locked,
           wrong' = wrong, count'.kills = count.kills
    PROVE  Guesses'
<1>1. GuessesCounted'
    BY CountsFrame DEF Guesses
<1>2. GuessesBounded'
    BY BoundFrame DEF Guesses
<1>3. PinSetOnce'
    BY SetOnceFrame DEF Guesses
<1> QED BY <1>1, <1>2, <1>3 DEF Guesses

(* The same, for a step that changes nothing but the command's own place.  *)
LEMMA GuessesQuiet ==
    ASSUME TypeOK, Guesses, NEW p \in Procs, Others(p),
           cmd[p].pc \notin {"bump", "count", "lock"},
           cmd'[p].pc \notin {"bump", "count", "lock", "setpin"},
           pins' = pins, wrong' = wrong, count'.kills = count.kills
    PROVE  Guesses'
<1>1. GuessersStay
    BY GuessersStayPut
<1>2. \A q \in Procs : cmd'[q].pc = "setpin" => cmd[q].pc = "setpin" /\ cmd'[q].id = cmd[q].id
    BY DEF Others
<1> QED BY <1>1, <1>2, GuessesFrame

(* A new row, and perhaps a prompt for its PIN.                            *)
LEMMA GuessesNewRow ==
    ASSUME TypeOK, Guesses, NEW p \in Procs, Others(p),
           cmd[p].pc \notin {"bump", "count", "lock"},
           NEW k, k \notin Ids,
           \/ cmd'[p].pc = "setpin" /\ cmd'[p].id = k
           \/ cmd'[p].pc = "idle",
           pins' = pins, wrong' = wrong, count' = count
    PROVE  Guesses'
<1>1. GuessersStay
    BY GuessersStayPut
<1>2. GuessesCounted' /\ GuessesBounded'
    BY <1>1, CountsFrame, BoundFrame DEF Guesses
<1>3. /\ DOMAIN pins \subseteq Ids
      /\ \A q \in Procs : cmd[q].pc = "setpin" => cmd[q].id \in Ids
    BY Typed
<1>4. PinSetOnce'
  <2>1. \A q \in Procs : cmd'[q].pc = "setpin" =>
            \/ q = p /\ cmd'[q].id = k
            \/ q # p /\ cmd'[q].id = cmd[q].id /\ cmd[q].pc = "setpin"
      BY DEF Others
  <2> QED BY <2>1, <1>3 DEF PinSetOnce, Guesses
<1> QED BY <1>2, <1>4 DEF Guesses

LEMMA GuessesSetPin ==
    ASSUME TypeOK, Guesses, NEW p \in Procs, SetPin(p)
    PROVE  Guesses'
<1> DEFINE id == cmd[p].id
<1>1. /\ TypeOK' /\ Others(p) /\ cmd[p].pc = "setpin" /\ id \in Ids
      /\ cmd'[p].pc = "idle" /\ DOMAIN pins' = DOMAIN pins \union {id}
      /\ \A i \in DOMAIN pins \ {id} : pins'[i] = pins[i]
      /\ wrong' = wrong /\ count' = count
    BY SetPinEffect
<1>2. GuessersStay
    BY <1>1, GuessersStayPut
<1>3. id \notin DOMAIN pins /\ id \in 1..MaxRows
  <2>1. Len(rows) \in Nat /\ Len(rows) <= MaxRows /\ MaxRows \in Nat
      BY Typed, AccessAssumption
  <2> QED BY <2>1, <1>1 DEF Guesses, PinSetOnce, Ids
<1>4. wrong[id] = 0
    BY <1>3 DEF Guesses, PinSetOnce
<1>5. GuessesCounted'
  <2> SUFFICES ASSUME NEW i \in DOMAIN pins' PROVE CountedAt(i)'
      BY DEF GuessesCounted, CountedAt
  <2>1. Uncounted(i)' = Uncounted(i) /\ Counting(i)' = Counting(i)
      BY <1>2, SameGuessers
  <2>2. CASE i = id
    <3>1. /\ pins'[id].attempts \in Nat /\ count.kills \in Nat /\ MaxAttempts - 1 \in Nat
      <4>1. pins'[id] \in PinRows /\ count.kills \in 0..MaxKills
          BY <1>1, Typed DEF TypeOK
      <4> QED BY <4>1, AccessAssumption DEF PinRows
    <3>2. Cardinality(Uncounted(id)) \in Nat /\ Cardinality(Counting(id)) \in Nat
        BY Guessers
    <3> QED BY <3>1, <3>2, <2>1, <2>2, <1>1, <1>4 DEF CountedAt
  <2>3. CASE i # id
    <3>1. i \in DOMAIN pins /\ pins'[i] = pins[i]
        BY <2>3, <1>1
    <3> QED BY <3>1, <2>1, <1>1 DEF Guesses, GuessesCounted, CountedAt
  <2> QED BY <2>2, <2>3
<1>6. GuessesBounded'
    BY <1>1, BoundFrame DEF Guesses
<1>7. PinSetOnce'
  <2>1. \A q \in Procs : cmd'[q].pc = "setpin" => q # p /\ cmd'[q] = cmd[q]
      BY <1>1 DEF Others
  <2> QED BY <2>1, <1>1 DEF Guesses, PinSetOnce
<1> QED BY <1>5, <1>6, <1>7 DEF Guesses

LEMMA GuessesVerify ==
    ASSUME TypeOK, Guesses, NEW p \in Procs, NEW right \in BOOLEAN, VerifyPin(p, right)
    PROVE  Guesses'
<1> SUFFICES ASSUME NEW id, id = cmd[p].id PROVE Guesses'
    OBVIOUS
<1>1. /\ TypeOK' /\ Others(p) /\ cmd[p].pc = "verify" /\ pins' = pins /\ count' = count
      /\ \/ cmd'[p].pc \in {"idle", "use", "accept"} /\ wrong' = wrong
         \/ /\ ~pins[id].locked /\ cmd'[p].pc = "bump"
            /\ cmd'[p].id = id /\ wrong' = [wrong EXCEPT ![id] = @ + 1]
    BY VerifyEffect
<1>2. id \in DOMAIN pins /\ id \in 1..MaxRows /\ wrong \in [1..MaxRows -> Nat]
    BY <1>1, Judging DEF GateSteps
<1>3. CASE cmd'[p].pc \in {"idle", "use", "accept"} /\ wrong' = wrong
    BY <1>1, <1>3, GuessesQuiet
<1>4. CASE ~pins[id].locked /\ cmd'[p].pc = "bump" /\ cmd'[p].id = id
           /\ wrong' = [wrong EXCEPT ![id] = @ + 1]
  <2>1. /\ Uncounted(id)' = Uncounted(id) \union {p} /\ p \notin Uncounted(id)
        /\ Counting(id)' = Counting(id)
        /\ \A j : j # id => Uncounted(j)' = Uncounted(j) /\ Counting(j)' = Counting(j)
      BY <1>1, <1>4 DEF Others, Uncounted, Counting
  <2>2. Cardinality(Uncounted(id)') = Cardinality(Uncounted(id)) + 1
      BY <2>1, Guessers, OneMore
  <2>3. wrong'[id] = wrong[id] + 1 /\ \A j \in 1..MaxRows : j # id => wrong'[j] = wrong[j]
      BY <1>2, <1>4
  <2>4. /\ wrong[id] \in Nat /\ pins[id].attempts \in Nat /\ count.kills \in Nat
        /\ MaxAttempts - 1 \in Nat /\ Cardinality(Uncounted(id)) \in Nat
        /\ Cardinality(Counting(id)) \in Nat /\ Cardinality(Procs) \in Nat
      BY <1>2, GuessTypes, Guessers, SomeCommands
  <2>5. CountedAt(id)
      BY <1>2 DEF Guesses, GuessesCounted, CountedAt
  <2>6. /\ wrong'[id] <= pins[id].attempts + Cardinality(Uncounted(id)') + count.kills
        /\ wrong'[id] <= (MaxAttempts - 1) + Cardinality(Uncounted(id)')
                           + Cardinality(Counting(id)') + count.kills
      BY <1>4, <2>1, <2>2, <2>3, <2>4, <2>5 DEF CountedAt
  <2>7. GuessesCounted'
    <3> SUFFICES ASSUME NEW i \in DOMAIN pins PROVE CountedAt(i)'
        BY <1>1 DEF GuessesCounted, CountedAt
    <3>1. CASE i = id
        BY <3>1, <2>6, <1>1 DEF CountedAt
    <3>2. CASE i # id
      <4>1. Uncounted(i)' = Uncounted(i) /\ Counting(i)' = Counting(i)
          BY <3>2, <2>1
      <4>2. wrong'[i] = wrong[i]
          BY <3>2, <2>3, GuessTypes
      <4> QED BY <4>1, <4>2, <1>1 DEF Guesses, GuessesCounted, CountedAt
    <3> QED BY <3>1, <3>2
  <2>8. GuessesBounded'
    <3> SUFFICES ASSUME NEW i \in 1..MaxRows
                 PROVE  wrong'[i] <= (MaxAttempts - 1) + Cardinality(Procs) + count.kills
        BY <1>1 DEF GuessesBounded
    <3>1. CASE i = id
      <4>1. /\ Cardinality(Uncounted(id)') + Cardinality(Counting(id)') <= Cardinality(Procs)
            /\ Cardinality(Uncounted(id)') \in Nat /\ Cardinality(Counting(id)') \in Nat
          BY GuessersNext
      <4> QED BY <3>1, <4>1, <2>3, <2>4, <2>6
    <3>2. CASE i # id
        BY <3>2, <2>3 DEF Guesses, GuessesBounded
    <3> QED BY <3>1, <3>2
  <2>9. PinSetOnce'
    <3>1. \A q \in Procs : cmd'[q].pc = "setpin" =>
                             cmd[q].pc = "setpin" /\ cmd'[q].id = cmd[q].id
        BY <1>1, <1>4 DEF Others
    <3> QED BY <3>1, <2>3, <1>1, <1>2, SetOnceFrame DEF Guesses
  <2> QED BY <2>7, <2>8, <2>9 DEF Guesses
<1> QED BY <1>1, <1>3, <1>4

LEMMA GuessesCount ==
    ASSUME TypeOK, Guesses, NEW p \in Procs, CountAttempt(p)
    PROVE  Guesses'
<1> SUFFICES ASSUME NEW id, id = cmd[p].id PROVE Guesses'
    OBVIOUS
<1>1. /\ Others(p) /\ cmd[p].pc = "bump" /\ cmd'[p].pc = "count"
      /\ id \in DOMAIN pins /\ cmd'[p].id = id /\ DOMAIN pins' = DOMAIN pins
      /\ pins'[id].attempts = pins[id].attempts + 1
      /\ pins'[id].locked = pins[id].locked
      /\ \A i \in DOMAIN pins \ {id} : pins'[i] = pins[i]
      /\ wrong' = wrong /\ count' = count
    BY CountEffect
<1>2. /\ Uncounted(id)' = Uncounted(id) \ {p} /\ p \in Uncounted(id)
      /\ Counting(id)' = Counting(id) \union {p} /\ p \notin Counting(id)
      /\ \A j : j # id => Uncounted(j)' = Uncounted(j) /\ Counting(j)' = Counting(j)
    BY <1>1 DEF Others, Uncounted, Counting
<1>3. /\ Cardinality(Uncounted(id)) = Cardinality(Uncounted(id)') + 1
      /\ Cardinality(Counting(id)') = Cardinality(Counting(id)) + 1
    BY <1>2, Guessers, OneMore, OneLess
<1>4. GuessesCounted'
  <2> SUFFICES ASSUME NEW i \in DOMAIN pins PROVE CountedAt(i)'
      BY <1>1 DEF GuessesCounted, CountedAt
  <2>1. CountedAt(i)
      BY DEF Guesses, GuessesCounted, CountedAt
  <2>2. CASE i = id
    <3>1. /\ wrong[id] \in Nat /\ pins[id].attempts \in Nat /\ count.kills \in Nat
          /\ MaxAttempts - 1 \in Nat /\ Cardinality(Uncounted(id)') \in Nat
          /\ Cardinality(Counting(id)) \in Nat
        BY <1>1, GuessTypes, Guessers, GuessersNext
    <3>2. /\ wrong[id] <= pins[id].attempts + 1 + Cardinality(Uncounted(id)') + count.kills
          /\ ~pins[id].locked =>
               wrong[id] <= (MaxAttempts - 1) + Cardinality(Uncounted(id)')
                              + Cardinality(Counting(id)') + count.kills
        BY <3>1, <2>1, <2>2, <1>3 DEF CountedAt
    <3> QED BY <3>2, <2>2, <1>1 DEF CountedAt
  <2>3. CASE i # id
    <3>1. /\ Uncounted(i)' = Uncounted(i) /\ Counting(i)' = Counting(i)
          /\ pins'[i] = pins[i]
        BY <2>3, <1>1, <1>2
    <3> QED BY <3>1, <2>1, <1>1 DEF CountedAt
  <2> QED BY <2>2, <2>3
<1>5. GuessesBounded'
    BY <1>1, BoundFrame DEF Guesses
<1>6. PinSetOnce'
  <2>1. \A q \in Procs : cmd'[q].pc = "setpin" =>
                           cmd[q].pc = "setpin" /\ cmd'[q].id = cmd[q].id
      BY <1>1 DEF Others
  <2> QED BY <2>1, <1>1, SetOnceFrame DEF Guesses
<1> QED BY <1>4, <1>5, <1>6 DEF Guesses

(* A command that stops counting below the limit leaves nothing above it.  *)
LEMMA GuessesCheck ==
    ASSUME TypeOK, Guesses, NEW p \in Procs, CheckAttempts(p)
    PROVE  Guesses'
<1> SUFFICES ASSUME NEW id, id = cmd[p].id PROVE Guesses'
    OBVIOUS
<1>1. /\ Others(p) /\ cmd[p].pc = "count" /\ id \in DOMAIN pins
      /\ \/ cmd'[p].pc = "lock" /\ cmd'[p].id = id
         \/ cmd'[p].pc = "idle" /\ pins[id].attempts < MaxAttempts
      /\ pins' = pins /\ wrong' = wrong /\ count' = count
    BY CheckEffect
<1>2. \A q \in Procs : cmd'[q].pc = "setpin" =>
                         cmd[q].pc = "setpin" /\ cmd'[q].id = cmd[q].id
    BY <1>1 DEF Others
<1>3. CASE cmd'[p].pc = "lock" /\ cmd'[p].id = id
  <2>1. GuessersStay
      BY <1>1, <1>3 DEF Others, GuessersStay
  <2> QED BY <2>1, <1>1, <1>2, GuessesFrame
<1>4. CASE cmd'[p].pc = "idle" /\ pins[id].attempts < MaxAttempts
  <2>1. /\ Uncounted(id)' = Uncounted(id)
        /\ \A j : j # id => Uncounted(j)' = Uncounted(j) /\ Counting(j)' = Counting(j)
      BY <1>1, <1>4 DEF Others, Uncounted, Counting
  <2>2. GuessesCounted'
    <3> SUFFICES ASSUME NEW i \in DOMAIN pins PROVE CountedAt(i)'
        BY <1>1 DEF GuessesCounted, CountedAt
    <3>1. CountedAt(i)
        BY DEF Guesses, GuessesCounted, CountedAt
    <3>2. CASE i = id
      <4>1. /\ wrong[id] \in Nat /\ pins[id].attempts \in Nat /\ count.kills \in Nat
            /\ MaxAttempts \in Nat /\ Cardinality(Uncounted(id)) \in Nat
            /\ Cardinality(Counting(id)') \in Nat
          BY <1>1, GuessTypes, Guessers, GuessersNext, AccessAssumption
      <4>2. wrong[id] <= pins[id].attempts + Cardinality(Uncounted(id)) + count.kills
          BY <3>1, <3>2 DEF CountedAt
      <4>3. wrong[id] <= (MaxAttempts - 1) + Cardinality(Uncounted(id))
                           + Cardinality(Counting(id)') + count.kills
          BY <4>1, <4>2, <1>4
      <4> QED BY <4>2, <4>3, <3>2, <2>1, <1>1 DEF CountedAt
    <3>3. CASE i # id
      <4>1. Uncounted(i)' = Uncounted(i) /\ Counting(i)' = Counting(i)
          BY <3>3, <2>1
      <4> QED BY <4>1, <3>1, <1>1 DEF CountedAt
    <3> QED BY <3>2, <3>3
  <2>3. GuessesBounded' /\ PinSetOnce'
      BY <1>1, <1>2, BoundFrame, SetOnceFrame DEF Guesses
  <2> QED BY <2>2, <2>3 DEF Guesses
<1> QED BY <1>1, <1>3, <1>4

LEMMA GuessesLock ==
    ASSUME TypeOK, Guesses, NEW p \in Procs, LockPin(p)
    PROVE  Guesses'
<1> SUFFICES ASSUME NEW id, id = cmd[p].id PROVE Guesses'
    OBVIOUS
<1>1. /\ Others(p) /\ cmd[p].pc = "lock" /\ id \in DOMAIN pins
      /\ cmd'[p].pc = "idle" /\ DOMAIN pins' = DOMAIN pins /\ pins'[id].locked
      /\ pins'[id].attempts = pins[id].attempts
      /\ \A i \in DOMAIN pins \ {id} : pins'[i] = pins[i]
      /\ wrong' = wrong /\ count' = count
    BY LockEffect
<1>2. /\ Uncounted(id)' = Uncounted(id)
      /\ \A j : j # id => Uncounted(j)' = Uncounted(j) /\ Counting(j)' = Counting(j)
    BY <1>1 DEF Others, Uncounted, Counting
<1>3. GuessesCounted'
  <2> SUFFICES ASSUME NEW i \in DOMAIN pins PROVE CountedAt(i)'
      BY <1>1 DEF GuessesCounted, CountedAt
  <2>1. CountedAt(i)
      BY DEF Guesses, GuessesCounted, CountedAt
  <2>2. CASE i = id
      BY <2>1, <2>2, <1>1, <1>2 DEF CountedAt
  <2>3. CASE i # id
    <3>1. /\ Uncounted(i)' = Uncounted(i) /\ Counting(i)' = Counting(i)
          /\ pins'[i] = pins[i]
        BY <2>3, <1>1, <1>2
    <3> QED BY <3>1, <2>1, <1>1 DEF CountedAt
  <2> QED BY <2>2, <2>3
<1>4. \A q \in Procs : cmd'[q].pc = "setpin" =>
                         cmd[q].pc = "setpin" /\ cmd'[q].id = cmd[q].id
    BY <1>1 DEF Others
<1>5. GuessesBounded' /\ PinSetOnce'
    BY <1>1, <1>4, BoundFrame, SetOnceFrame DEF Guesses
<1> QED BY <1>3, <1>5 DEF Guesses

(* The guesses at a PIN start again: a right PIN, or a new one.            *)
LEMMA GuessesReset ==
    ASSUME TypeOK, TypeOK', Guesses, GuessersStay, NEW id \in DOMAIN pins,
           DOMAIN pins' = DOMAIN pins,
           \A i \in DOMAIN pins \ {id} : pins'[i] = pins[i],
           wrong' = [wrong EXCEPT ![id] = 0], count'.kills = count.kills,
           \A q \in Procs : cmd'[q].pc = "setpin" =>
                              cmd[q].pc = "setpin" /\ cmd'[q].id = cmd[q].id
    PROVE  Guesses'
<1>1. wrong \in [1..MaxRows -> Nat] /\ id \in 1..MaxRows
    BY Typed, GuessTypes
<1>2. wrong'[id] = 0 /\ \A j \in 1..MaxRows : j # id => wrong'[j] = wrong[j]
    BY <1>1
<1>3. GuessesCounted'
  <2> SUFFICES ASSUME NEW i \in DOMAIN pins PROVE CountedAt(i)'
      BY DEF GuessesCounted, CountedAt
  <2>1. Uncounted(i)' = Uncounted(i) /\ Counting(i)' = Counting(i)
      BY SameGuessers
  <2>2. CASE i = id
    <3>1. pins'[id] \in PinRows
        BY DEF TypeOK
    <3>2. /\ pins'[id].attempts \in Nat /\ count.kills \in Nat /\ MaxAttempts - 1 \in Nat
        BY <3>1, GuessTypes DEF PinRows
    <3>3. Cardinality(Uncounted(id)) \in Nat /\ Cardinality(Counting(id)) \in Nat
        BY Guessers
    <3> QED BY <3>2, <3>3, <2>1, <2>2, <1>2 DEF CountedAt
  <2>3. CASE i # id
    <3>1. pins'[i] = pins[i] /\ wrong'[i] = wrong[i]
        BY <2>3, <1>2, GuessTypes
    <3> QED BY <3>1, <2>1 DEF Guesses, GuessesCounted, CountedAt
  <2> QED BY <2>2, <2>3
<1>4. GuessesBounded'
    BY <1>2, BoundFrame DEF Guesses
<1>5. PinSetOnce'
    BY <1>2, SetOnceFrame DEF Guesses
<1> QED BY <1>3, <1>4, <1>5 DEF Guesses

LEMMA GuessesAccept ==
    ASSUME TypeOK, Guesses, NEW p \in Procs, AcceptPin(p)
    PROVE  Guesses'
<1>1. /\ TypeOK' /\ Others(p) /\ cmd[p].pc = "accept" /\ cmd[p].id \in DOMAIN pins
      /\ cmd'[p].pc = "use" /\ DOMAIN pins' = DOMAIN pins
      /\ \A i \in DOMAIN pins \ {cmd[p].id} : pins'[i] = pins[i]
      /\ wrong' = [wrong EXCEPT ![cmd[p].id] = 0] /\ count' = count
    BY AcceptEffect
<1>2. GuessersStay
    BY <1>1, GuessersStayPut
<1>3. \A q \in Procs : cmd'[q].pc = "setpin" =>
                         cmd[q].pc = "setpin" /\ cmd'[q].id = cmd[q].id
    BY <1>1 DEF Others
<1> QED BY <1>1, <1>2, <1>3, GuessesReset

LEMMA GuessesReplace ==
    ASSUME TypeOK, Guesses, NEW id \in Ids, NEW every \in BOOLEAN, ReplacePin(id, every)
    PROVE  Guesses'
<1>1. /\ TypeOK' /\ id \in DOMAIN pins /\ DOMAIN pins' = DOMAIN pins
      /\ \A i \in DOMAIN pins \ {id} : pins'[i] = pins[i]
      /\ wrong' = [wrong EXCEPT ![id] = 0] /\ count'.kills = count.kills
      /\ \A q \in Procs : /\ cmd'[q].pc = cmd[q].pc
                          /\ cmd[q].pc \notin GateSteps => cmd'[q] = cmd[q]
                          /\ cmd[q].pc \in GateSteps => cmd'[q].id = cmd[q].id
    BY ReplaceEffect
<1>2. {"bump", "count", "lock"} \subseteq GateSteps /\ "setpin" \notin GateSteps
    BY DEF GateSteps
<1>3. GuessersStay
    BY <1>1, <1>2 DEF GuessersStay
<1>4. \A q \in Procs : cmd'[q].pc = "setpin" =>
                         cmd[q].pc = "setpin" /\ cmd'[q].id = cmd[q].id
    BY <1>1, <1>2
<1> QED BY <1>1, <1>3, <1>4, GuessesReset

(* A killed command takes at most one guess that was not counted, or not   *)
(* locked, with it.                                                        *)
LEMMA GuessesKill ==
    ASSUME TypeOK, Guesses, NEW p \in Procs, Kill(p),
           cmd[p].pc = "insert" => cmd[p].tag \in 1..MaxWrites
    PROVE  Guesses'
<1>1. /\ Others(p) /\ cmd'[p].pc = "idle" /\ pins' = pins /\ wrong' = wrong
      /\ count'.kills = count.kills + 1 /\ count.kills \in Nat
    BY KillEffect
<1>2. GuessesCounted'
  <2> SUFFICES ASSUME NEW i \in DOMAIN pins PROVE CountedAt(i)'
      BY <1>1 DEF GuessesCounted, CountedAt
  <2>1. CountedAt(i)
      BY DEF Guesses, GuessesCounted, CountedAt
  <2>2. /\ wrong[i] \in Nat /\ pins[i].attempts \in Nat /\ MaxAttempts - 1 \in Nat
        /\ Cardinality(Uncounted(i)) \in Nat /\ Cardinality(Counting(i)) \in Nat
        /\ Cardinality(Uncounted(i)') \in Nat /\ Cardinality(Counting(i)') \in Nat
      BY GuessTypes, Guessers, GuessersNext
  <2>3. Uncounted(i)' = Uncounted(i) \ {p} /\ Counting(i)' = Counting(i) \ {p}
      BY <1>1 DEF Others, Uncounted, Counting
  <2>4. /\ Cardinality(Uncounted(i)) <= Cardinality(Uncounted(i)') + 1
        /\ Cardinality(Uncounted(i)) + Cardinality(Counting(i))
             <= Cardinality(Uncounted(i)') + Cardinality(Counting(i)') + 1
    <3>1. CASE p \in Uncounted(i)
      <4>1. p \notin Counting(i)
          BY <3>1, Guessers
      <4>2. Cardinality(Uncounted(i)) = Cardinality(Uncounted(i)') + 1
          BY <3>1, <2>3, Guessers, OneLess
      <4>3. Counting(i)' = Counting(i)
          BY <4>1, <2>3
      <4> QED BY <4>2, <4>3, <2>2
    <3>2. CASE p \in Counting(i)
      <4>1. p \notin Uncounted(i)
          BY <3>2, Guessers
      <4>2. Cardinality(Counting(i)) = Cardinality(Counting(i)') + 1
          BY <3>2, <2>3, Guessers, OneLess
      <4>3. Uncounted(i)' = Uncounted(i)
          BY <4>1, <2>3
      <4> QED BY <4>2, <4>3, <2>2
    <3>3. CASE p \notin Uncounted(i) /\ p \notin Counting(i)
      <4>1. Uncounted(i)' = Uncounted(i) /\ Counting(i)' = Counting(i)
          BY <3>3, <2>3
      <4> QED BY <4>1, <2>2
    <3> QED BY <3>1, <3>2, <3>3
  <2>5. /\ wrong[i] <= pins[i].attempts + Cardinality(Uncounted(i)') + (count.kills + 1)
        /\ ~pins[i].locked =>
             wrong[i] <= (MaxAttempts - 1) + Cardinality(Uncounted(i)')
                           + Cardinality(Counting(i)') + (count.kills + 1)
      BY <2>1, <2>2, <2>4, <1>1 DEF CountedAt
  <2> QED BY <2>5, <1>1 DEF CountedAt
<1>3. \A q \in Procs : cmd'[q].pc = "setpin" =>
                         cmd[q].pc = "setpin" /\ cmd'[q].id = cmd[q].id
    BY <1>1 DEF Others
<1>4. GuessesBounded' /\ PinSetOnce'
    BY <1>1, <1>3, BoundFrame, SetOnceFrame DEF Guesses
<1> QED BY <1>2, <1>4 DEF Guesses

-----------------------------------------------------------------------------
(* The gate: what is known of a command from the statement it is at.       *)

GateOk(q) ==
    /\ cmd[q].pc = "verify" /\ cmd[q].shut => pins[cmd[q].id].locked
    /\ cmd[q].pc \in {"accept", "use"} => ~cmd[q].shut
    /\ cmd[q].pc \in {"verify", "bump", "count", "lock", "accept"} => cmd[q].how = "pin"
    /\ cmd[q].pc = "use" /\ rows[cmd[q].id].kind = "share" /\ rows[cmd[q].id].asked =>
          cmd[q].how # "open"

Gates == TokensHavePins /\ \A q \in Procs : GateOk(q)

LEMMA GatesParts ==
    Gates <=> /\ ShutIsLocked /\ LockedStaysShut /\ Prompted
              /\ TokensHavePins /\ TokenGated
BY DEF Gates, GateOk, ShutIsLocked, LockedStaysShut, Prompted, TokenGated

LEMMA GatesPartsNext ==
    Gates' <=> /\ ShutIsLocked' /\ LockedStaysShut' /\ Prompted'
               /\ TokensHavePins' /\ TokenGated'
BY DEF Gates, GateOk, ShutIsLocked, LockedStaysShut, Prompted, TokenGated

LEMMA OutsideGate ==
    ASSUME NEW q \in Procs, cmd'[q].pc \in {"idle", "insert", "setpin"}
    PROVE  GateOk(q)'
BY DEF GateOk

(* Rows keep their kind and their --pin, and locks stay.                   *)
GateKept ==
    /\ Ids \subseteq Ids'
    /\ \A i \in Ids : rows'[i].kind = rows[i].kind /\ rows'[i].asked = rows[i].asked
    /\ DOMAIN pins \subseteq DOMAIN pins'
    /\ \A i \in DOMAIN pins : pins[i].locked => pins'[i].locked

LEMMA SameAtGate ==
    ASSUME TypeOK, GateKept, NEW q \in Procs, GateOk(q), cmd'[q] = cmd[q]
    PROVE  GateOk(q)'
<1>1. cmd[q].pc \in {"idle", "insert", "setpin"} \union GateSteps
    BY Typed, Shapes
<1>2. CASE cmd[q].pc \in {"idle", "insert", "setpin"}
    BY <1>2, OutsideGate
<1>3. CASE cmd[q].pc \in GateSteps
  <2>1. cmd[q].id \in Ids /\ (cmd[q].pc # "use" => cmd[q].id \in DOMAIN pins)
      BY <1>3, Typed DEF GateSteps
  <2> QED BY <2>1 DEF GateOk, GateKept
<1> QED BY <1>1, <1>2, <1>3

(* Command p takes a step, and no token is handed out.                     *)
LEMMA GatesFrame ==
    ASSUME TypeOK, Gates, GateKept, NEW p \in Procs, Others(p), GateOk(p)',
           tokens' = tokens
    PROVE  Gates'
<1>1. \A q \in Procs : GateOk(q)'
  <2> SUFFICES ASSUME NEW q \in Procs PROVE GateOk(q)'
      OBVIOUS
  <2>1. CASE q = p
      BY <2>1
  <2>2. CASE q # p
      BY <2>2, SameAtGate DEF Others, Gates
  <2> QED BY <2>1, <2>2
<1>2. TokensHavePins'
    BY Typed DEF Gates, TokensHavePins, GateKept
<1> QED BY <1>1, <1>2 DEF Gates

(* No command takes a step.                                                *)
LEMMA GatesStill ==
    ASSUME TypeOK, Gates, GateKept, cmd' = cmd, tokens' = tokens
    PROVE  Gates'
<1>1. \A q \in Procs : GateOk(q)'
    BY SameAtGate DEF Gates
<1>2. TokensHavePins'
    BY Typed DEF Gates, TokensHavePins, GateKept
<1> QED BY <1>1, <1>2 DEF Gates

LEMMA KeptBySame ==
    ASSUME SameRows, DOMAIN pins' = DOMAIN pins,
           \A i \in DOMAIN pins : pins[i].locked => pins'[i].locked
    PROVE  GateKept
BY DEF SameRows, GateKept

(* A new row k; its token is handed out only if there is no PIN to come.   *)
LEMMA GatesNewRow ==
    ASSUME TypeOK, Gates, NEW p \in Procs, Others(p), NEW k, Ids' = Ids \union {k},
           k \notin Ids, \A i \in Ids : rows'[i] = rows[i], pins' = pins,
           cmd'[p].pc \in {"idle", "setpin"},
           tokens' = tokens \/ (tokens' = tokens \union {k} /\ ~rows'[k].asked)
    PROVE  Gates'
<1>1. GateKept
    BY DEF GateKept
<1>2. \A q \in Procs : GateOk(q)'
  <2> SUFFICES ASSUME NEW q \in Procs PROVE GateOk(q)'
      OBVIOUS
  <2>1. CASE q = p
      BY <2>1, OutsideGate
  <2>2. CASE q # p
      BY <2>2, <1>1, SameAtGate DEF Others, Gates
  <2> QED BY <2>1, <2>2
<1>3. TokensHavePins'
    BY Typed DEF Gates, TokensHavePins
<1> QED BY <1>2, <1>3 DEF Gates

LEMMA GatesSetPin ==
    ASSUME TypeOK, Gates, NEW p \in Procs, SetPin(p), cmd[p].id \notin DOMAIN pins
    PROVE  Gates'
<1>1. /\ Others(p) /\ cmd[p].id \in Ids /\ cmd'[p].pc = "idle"
      /\ DOMAIN pins' = DOMAIN pins \union {cmd[p].id}
      /\ \A i \in DOMAIN pins \ {cmd[p].id} : pins'[i] = pins[i]
      /\ tokens' \subseteq tokens \union {cmd[p].id} /\ rows' = rows
    BY SetPinEffect
<1>2. GateKept
    BY <1>1 DEF GateKept, Ids
<1>3. \A q \in Procs : GateOk(q)'
  <2> SUFFICES ASSUME NEW q \in Procs PROVE GateOk(q)'
      OBVIOUS
  <2>1. CASE q = p
      BY <2>1, <1>1, OutsideGate
  <2>2. CASE q # p
      BY <2>2, <1>1, <1>2, SameAtGate DEF Others, Gates
  <2> QED BY <2>1, <2>2
<1>4. TokensHavePins'
    BY <1>1 DEF Gates, TokensHavePins
<1> QED BY <1>3, <1>4 DEF Gates

LEMMA GatesAsk ==
    ASSUME TypeOK, Gates, NEW p \in Procs, NEW id \in Ids, Ask(p, id)
    PROVE  Gates'
<1>1. /\ Others(p) /\ cmd'[p].id = id /\ (rows[id].kind = "share" => id \in tokens)
      /\ \/ /\ cmd'[p].pc = "verify" /\ cmd'[p].how = "pin"
            /\ cmd'[p].shut => pins[id].locked
         \/ /\ cmd'[p].pc = "use" /\ ~cmd'[p].shut
            /\ id \in DOMAIN pins => cmd'[p].how # "open"
      /\ UNCHANGED <<rows, pins, tokens>>
    BY AskEffect
<1>2. GateKept
    BY <1>1, SameRowsStutter, KeptBySame
<1>3. GateOk(p)'
  <2>1. CASE cmd'[p].pc = "verify"
      BY <2>1, <1>1 DEF GateOk
  <2>2. CASE cmd'[p].pc = "use"
    <3>1. rows[id].kind = "share" /\ rows[id].asked => cmd'[p].how # "open"
        BY <2>2, <1>1 DEF Gates, TokensHavePins
    <3> QED BY <3>1, <2>2, <1>1 DEF GateOk
  <2> QED BY <2>1, <2>2, <1>1
<1> QED BY <1>1, <1>2, <1>3, GatesFrame

LEMMA GatesVerify ==
    ASSUME TypeOK, Gates, NEW p \in Procs, NEW right \in BOOLEAN, VerifyPin(p, right)
    PROVE  Gates'
<1>1. /\ Others(p) /\ cmd[p].pc = "verify"
      /\ \/ cmd'[p].pc = "idle"
         \/ /\ ~pins[cmd[p].id].locked /\ cmd'[p].pc \in {"use", "accept"}
            /\ cmd'[p].how = cmd[p].how /\ cmd'[p].shut = cmd[p].shut
         \/ cmd'[p].pc = "bump" /\ cmd'[p].how = cmd[p].how
      /\ UNCHANGED <<rows, pins, tokens>>
    BY VerifyEffect
<1>2. GateKept
    BY <1>1, SameRowsStutter, KeptBySame
<1>3. cmd[p].how = "pin" /\ (cmd[p].shut => pins[cmd[p].id].locked)
    BY <1>1 DEF Gates, GateOk
<1>4. GateOk(p)'
  <2>1. CASE cmd'[p].pc = "idle"
      BY <2>1, OutsideGate
  <2>2. CASE cmd'[p].pc \in {"use", "accept"} /\ cmd'[p].how = "pin" /\ ~cmd'[p].shut
      BY <2>2 DEF GateOk
  <2>3. CASE cmd'[p].pc = "bump" /\ cmd'[p].how = "pin"
      BY <2>3 DEF GateOk
  <2> QED BY <2>1, <2>2, <2>3, <1>1, <1>3
<1> QED BY <1>1, <1>2, <1>4, GatesFrame

(* A statement of verify_pin after the comparison.                         *)
LEMMA GatesJudged ==
    ASSUME TypeOK, Gates, NEW p \in Procs, Others(p), rows' = rows, tokens' = tokens,
           DOMAIN pins' = DOMAIN pins,
           \A i \in DOMAIN pins : pins[i].locked => pins'[i].locked,
           cmd[p].pc \in {"bump", "count", "lock"},
           \/ cmd'[p].pc = "idle"
           \/ cmd'[p].pc \in {"count", "lock"} /\ cmd'[p].how = cmd[p].how
    PROVE  Gates'
<1>1. GateKept
    BY SameRowsStutter, KeptBySame
<1>2. cmd[p].how = "pin"
    BY DEF Gates, GateOk
<1>3. GateOk(p)'
    BY <1>2 DEF GateOk
<1> QED BY <1>1, <1>3, GatesFrame

LEMMA GatesAccept ==
    ASSUME TypeOK, Gates, NEW p \in Procs, AcceptPin(p)
    PROVE  Gates'
<1> SUFFICES ASSUME NEW id, id = cmd[p].id PROVE Gates'
    OBVIOUS
<1>1. /\ Others(p) /\ cmd[p].pc = "accept" /\ cmd'[p].pc = "use"
      /\ cmd'[p].how = cmd[p].how /\ cmd'[p].shut = cmd[p].shut
      /\ DOMAIN pins' = DOMAIN pins /\ pins'[id].locked = pins[id].locked
      /\ \A i \in DOMAIN pins \ {id} : pins'[i] = pins[i]
      /\ UNCHANGED <<rows, tokens>>
    BY AcceptEffect
<1>2. GateKept
  <2>1. \A i \in DOMAIN pins : pins[i].locked => pins'[i].locked
      BY <1>1
  <2> QED BY <2>1, <1>1, SameRowsStutter, KeptBySame
<1>3. cmd[p].how = "pin" /\ ~cmd[p].shut
    BY <1>1 DEF Gates, GateOk
<1>4. GateOk(p)'
    BY <1>1, <1>3 DEF GateOk
<1> QED BY <1>1, <1>2, <1>4, GatesFrame

LEMMA GatesReplace ==
    ASSUME TypeOK, Gates, NEW id \in Ids, NEW every \in BOOLEAN, ReplacePin(id, every)
    PROVE  Gates'
<1>1. /\ id \in DOMAIN pins /\ DOMAIN pins' = DOMAIN pins
      /\ \A i \in DOMAIN pins \ {id} : pins'[i] = pins[i]
      /\ \A q \in Procs :
            /\ cmd'[q].pc = cmd[q].pc
            /\ cmd[q].pc \notin GateSteps => cmd'[q] = cmd[q]
            /\ cmd[q].pc \in GateSteps =>
                 /\ cmd'[q].id = cmd[q].id /\ cmd'[q].how = cmd[q].how
                 /\ cmd[q].id # id => cmd'[q].shut = cmd[q].shut
                 /\ cmd[q].id = id => cmd'[q].shut = FALSE
      /\ UNCHANGED <<rows, tokens>>
    BY ReplaceEffect
<1>2. ASSUME NEW q \in Procs PROVE GateOk(q)'
  <2>1. cmd[q].pc \in {"idle", "insert", "setpin"} \union GateSteps
      BY Typed, Shapes
  <2>2. CASE cmd[q].pc \in {"idle", "insert", "setpin"}
      BY <2>2, <1>1, OutsideGate
  <2>3. CASE cmd[q].pc \in GateSteps
    <3>1. cmd[q].pc # "use" => cmd[q].id \in DOMAIN pins
        BY <2>3, Typed DEF GateSteps
    <3>2. GateOk(q)
        BY DEF Gates
    <3>3. CASE cmd[q].id = id
      <4>1. ~cmd'[q].shut /\ cmd'[q].id = cmd[q].id /\ cmd'[q].how = cmd[q].how
            /\ cmd'[q].pc = cmd[q].pc
          BY <1>1, <2>3, <3>3
      <4> QED BY <4>1, <3>2, <1>1 DEF GateOk
    <3>4. CASE cmd[q].id # id
      <4>1. /\ cmd'[q].shut = cmd[q].shut /\ cmd'[q].id = cmd[q].id
            /\ cmd'[q].how = cmd[q].how /\ cmd'[q].pc = cmd[q].pc
          BY <1>1, <2>3, <3>4
      <4>2. cmd[q].pc # "use" => pins'[cmd[q].id] = pins[cmd[q].id]
          BY <3>1, <3>4, <1>1
      <4> QED BY <4>1, <4>2, <3>2, <1>1 DEF GateOk
    <3> QED BY <3>3, <3>4
  <2> QED BY <2>1, <2>2, <2>3
<1>3. TokensHavePins'
    BY <1>1 DEF Gates, TokensHavePins
<1> QED BY <1>2, <1>3 DEF Gates

-----------------------------------------------------------------------------
(* The inductive invariant, and what follows.                              *)

LEMMA IInvParts == IInv <=> TypeOK /\ Files /\ Guesses /\ Gates
BY GatesParts DEF IInv, Files, Guesses

LEMMA IInvPartsNext == IInv' <=> TypeOK' /\ Files' /\ Guesses' /\ Gates'
BY GatesPartsNext DEF IInv, Files, Guesses

LEMMA IdleIsIdle == Idle.pc = "idle"
BY DEF Idle

LEMMA InitIInv == Init => IInv
<1> SUFFICES ASSUME Init PROVE IInv
    OBVIOUS
<1>1. /\ now = 0 /\ disk = [f \in Paths |-> 0] /\ rows = <<>> /\ pins = [i \in {} |-> 0]
      /\ tokens = {} /\ cmd = [p \in Procs |-> Idle] /\ lost = {}
      /\ wrong = [i \in 1..MaxRows |-> 0]
      /\ count = [writes |-> 0, kills |-> 0, resets |-> 0]
    BY DEF Init
<1>2. /\ MaxTime \in Nat /\ MaxWrites \in Nat /\ MaxRows \in Nat /\ MaxKills \in Nat
      /\ MaxResets \in Nat /\ MaxAttempts - 1 \in Nat
    BY AccessAssumption
<1>3. Ids = {} /\ DOMAIN pins = {} /\ \A p \in Procs : cmd[p].pc = "idle"
    BY <1>1, IdleIsIdle DEF Ids
<1>4. TypeOK
  <2>1. /\ rows \in Seq(RowRecords) /\ Len(rows) <= MaxRows
        /\ pins \in [DOMAIN pins -> PinRows]
      BY <1>1, <1>2
  <2>2. cmd \in [Procs -> CommandSteps] /\ disk \in [Paths -> 0..MaxWrites]
        /\ wrong \in [1..MaxRows -> Nat]
        /\ count \in [writes: 0..MaxWrites, kills: 0..MaxKills, resets: 0..MaxResets]
        /\ now \in 0..MaxTime
      BY <1>1, <1>2 DEF CommandSteps
  <2>3. "idle" \notin GateSteps
      BY DEF GateSteps
  <2> QED BY <2>1, <2>2, <2>3, <1>1, <1>3, Typed
<1>5. Files
  <2>1. RowsHaveTags /\ CommandsHaveTags
      BY <1>3 DEF RowsHaveTags, CommandsHaveTags
  <2>2. FilesHaveTags
      BY <1>1 DEF FilesHaveTags
  <2>3. CiphertextKept /\ NoUntrackedFile
      BY <1>1, <1>3 DEF CiphertextKept, NoUntrackedFile
  <2> QED BY <2>1, <2>2, <2>3 DEF Files, TagsTellApart
<1>6. Guesses
  <2>1. PinSetOnce /\ GuessesCounted
      BY <1>1, <1>3 DEF PinSetOnce, GuessesCounted
  <2>2. GuessesBounded
    <3>1. {} \in SUBSET Procs /\ Cardinality(Procs) \in Nat
        BY SomeCommands
    <3> QED BY <3>1, <1>1, <1>2 DEF GuessesBounded
  <2> QED BY <2>1, <2>2 DEF Guesses
<1>7. Gates
    BY <1>1, <1>3 DEF Gates, GateOk, TokensHavePins
<1> QED BY <1>4, <1>5, <1>6, <1>7, IInvParts

LEMMA MakeStep ==
    ASSUME IInv, NEW p \in Procs, Make(p)
    PROVE  IInv'
<1>0. TypeOK /\ Files /\ Guesses /\ Gates
    BY IInvParts
<1>1. ASSUME NEW kind \in Kinds, NEW path \in Paths, NEW asked \in BOOLEAN,
             WriteCiphertext(p, kind, path, asked)
      PROVE  IInv'
  <2>1. /\ TypeOK' /\ Others(p) /\ cmd[p].pc = "idle" /\ cmd'[p].pc = "insert"
        /\ count'.kills = count.kills /\ UNCHANGED <<rows, pins, tokens, wrong>>
      BY <1>0, <1>1, WriteEffect, IdleIsIdle
  <2>2. Files'
      BY <1>0, <1>1, FilesWrite
  <2>3. Guesses'
      BY <1>0, <2>1, GuessesQuiet
  <2>4. GateKept /\ GateOk(p)'
      BY <2>1, SameRowsStutter, KeptBySame, OutsideGate
  <2>5. Gates'
      BY <1>0, <2>1, <2>4, GatesFrame
  <2> QED BY <2>1, <2>2, <2>3, <2>5, IInvPartsNext
<1>2. ASSUME InsertRow(p) PROVE IInv'
  <2>1. /\ TypeOK' /\ Others(p) /\ cmd[p].pc = "insert"
        /\ Ids' = Ids \union {Len(rows) + 1} /\ Len(rows) + 1 \notin Ids
        /\ \A i \in Ids : rows'[i] = rows[i]
        /\ \/ cmd'[p].pc = "setpin" /\ cmd'[p].id = Len(rows) + 1
           \/ cmd'[p].pc = "idle"
        /\ UNCHANGED <<pins, tokens, wrong, count>>
      BY <1>0, <1>2, InsertEffect
  <2>2. Files'
      BY <1>0, <1>2, FilesInsert
  <2>3. Guesses'
      BY <1>0, <2>1, GuessesNewRow
  <2>4. Gates'
      BY <1>0, <2>1, GatesNewRow
  <2> QED BY <2>1, <2>2, <2>3, <2>4, IInvPartsNext
<1>3. ASSUME InsertFails(p) PROVE IInv'
  <2>1. /\ TypeOK' /\ Others(p) /\ cmd[p].pc = "insert" /\ cmd'[p].pc = "idle"
        /\ UNCHANGED <<rows, pins, tokens, wrong, count>>
      BY <1>0, <1>3, InsertFailsEffect
  <2>2. Files'
      BY <1>0, <1>3, FilesInsertFails
  <2>3. Guesses'
      BY <1>0, <2>1, GuessesQuiet
  <2>4. GateKept /\ GateOk(p)'
      BY <2>1, SameRowsStutter, KeptBySame, OutsideGate
  <2>5. Gates'
      BY <1>0, <2>1, <2>4, GatesFrame
  <2> QED BY <2>1, <2>2, <2>3, <2>5, IInvPartsNext
<1>4. ASSUME NEW kind \in {"credential", "share"}, NEW limit \in Nat,
             NEW asked \in BOOLEAN, NEW every \in BOOLEAN, cmd[p] = Idle, Room(asked),
             rows' = Append(rows, Row(kind, "none", 0, asked, limit)),
             AfterInsert(p, Len(rows) + 1, asked, every),
             UNCHANGED <<now, disk, pins, wrong, lost, count>>,
             \/ tokens' = tokens
             \/ kind = "share" /\ ~asked /\ tokens' = tokens \union {Len(rows) + 1}
      PROVE  IInv'
  <2>1. /\ TypeOK' /\ Others(p)
        /\ Ids' = Ids \union {Len(rows) + 1} /\ Len(rows) + 1 \notin Ids
        /\ \A i \in Ids : rows'[i] = rows[i]
        /\ rows'[Len(rows) + 1].kind = kind /\ rows'[Len(rows) + 1].asked = asked
        /\ \/ cmd'[p].pc = "setpin" /\ cmd'[p].id = Len(rows) + 1
           \/ cmd'[p].pc = "idle"
      BY <1>0, <1>4, PlainRowEffect
  <2>2. cmd[p].pc = "idle" /\ ~IsFile(rows'[Len(rows) + 1])
      BY <1>4, <2>1, IdleIsIdle DEF IsFile
  <2>3. Files'
      BY <1>0, <1>4, <2>1, <2>2, InsertsStayPut, FilesPlainRow
  <2>4. Guesses'
      BY <1>0, <1>4, <2>1, <2>2, GuessesNewRow
  <2>5. Gates'
      BY <1>0, <1>4, <2>1, GatesNewRow
  <2> QED BY <2>1, <2>3, <2>4, <2>5, IInvPartsNext
<1>5. ASSUME NEW asked \in BOOLEAN, AddCredential(p, asked) PROVE IInv'
    BY <1>4, <1>5 DEF AddCredential
<1>6. ASSUME NEW of \in Ids, NEW limit \in Limits, NEW asked \in BOOLEAN,
             NEW every \in BOOLEAN, CreateShare(p, of, limit, asked, every)
      PROVE  IInv'
  <2>1. limit \in Nat
      BY AccessAssumption
  <2>2. \/ tokens' = tokens
        \/ ~asked /\ tokens' = tokens \union {Len(rows) + 1}
      BY <1>6 DEF CreateShare
  <2> QED BY <2>1, <2>2, <1>4, <1>6 DEF CreateShare
<1>7. ASSUME SetPin(p) PROVE IInv'
  <2>1. /\ TypeOK' /\ Others(p) /\ cmd[p].pc = "setpin" /\ cmd'[p].pc = "idle"
        /\ UNCHANGED <<disk, rows, lost, count>>
      BY <1>0, <1>7, SetPinEffect
  <2>2. Files'
      BY <1>0, <2>1, InsertsStayPut, SameRowsStutter, FilesFrame
  <2>3. Guesses'
      BY <1>0, <1>7, GuessesSetPin
  <2>4. cmd[p].id \notin DOMAIN pins
      BY <1>0, <2>1 DEF Guesses, PinSetOnce
  <2>5. Gates'
      BY <1>0, <1>7, <2>4, GatesSetPin
  <2> QED BY <2>1, <2>2, <2>3, <2>5, IInvPartsNext
<1>8. ASSUME PinRefused(p) PROVE IInv'
  <2>1. /\ Done(p) /\ cmd[p].pc = "setpin"
        /\ UNCHANGED <<now, disk, rows, pins, tokens, wrong, lost, count>>
      BY <1>8 DEF PinRefused
  <2>2. TypeOK' /\ Others(p) /\ cmd'[p].pc = "idle"
      BY <1>0, <2>1, QuietEnd
  <2>3. Files'
      BY <1>0, <2>1, <2>2, InsertsStayPut, SameRowsStutter, FilesFrame
  <2>4. Guesses'
      BY <1>0, <2>1, <2>2, GuessesQuiet
  <2>5. GateKept /\ GateOk(p)'
      BY <2>1, <2>2, SameRowsStutter, KeptBySame, OutsideGate
  <2>6. Gates'
      BY <1>0, <2>1, <2>2, <2>5, GatesFrame
  <2> QED BY <2>2, <2>3, <2>4, <2>6, IInvPartsNext
<1> QED BY <1>1, <1>2, <1>3, <1>5, <1>6, <1>7, <1>8 DEF Make

LEMMA UseStep ==
    ASSUME IInv, NEW p \in Procs, UseRow(p)
    PROVE  IInv'
<1>0. TypeOK /\ Files /\ Guesses /\ Gates
    BY IInvParts
<1>1. ASSUME NEW id \in Ids, Ask(p, id) PROVE IInv'
  <2>1. /\ TypeOK' /\ Others(p) /\ cmd[p].pc = "idle" /\ cmd'[p].pc \in {"verify", "use"}
        /\ UNCHANGED <<disk, rows, pins, wrong, lost, count>>
      BY <1>0, <1>1, AskEffect
  <2>2. Files'
      BY <1>0, <2>1, InsertsStayPut, SameRowsStutter, FilesFrame
  <2>3. Guesses'
      BY <1>0, <2>1, GuessesQuiet
  <2> QED BY <1>0, <1>1, <2>1, <2>2, <2>3, GatesAsk, IInvPartsNext
<1>2. ASSUME NEW right \in BOOLEAN, VerifyPin(p, right) PROVE IInv'
  <2>1. /\ TypeOK' /\ Others(p) /\ cmd[p].pc = "verify" /\ cmd'[p].pc # "insert"
        /\ UNCHANGED <<disk, rows, lost, count>>
      BY <1>0, <1>2, VerifyEffect
  <2>2. Files'
      BY <1>0, <2>1, InsertsStayPut, SameRowsStutter, FilesFrame
  <2> QED BY <1>0, <1>2, <2>1, <2>2, GuessesVerify, GatesVerify, IInvPartsNext
<1>3. ASSUME CountAttempt(p) PROVE IInv'
  <2> SUFFICES ASSUME NEW id, id = cmd[p].id PROVE IInv'
      OBVIOUS
  <2>1. /\ TypeOK' /\ Others(p) /\ cmd[p].pc = "bump" /\ cmd'[p].pc = "count"
        /\ cmd'[p].how = cmd[p].how /\ DOMAIN pins' = DOMAIN pins
        /\ pins'[id].locked = pins[id].locked
        /\ \A i \in DOMAIN pins \ {id} : pins'[i] = pins[i]
        /\ UNCHANGED <<disk, rows, tokens, lost, count>>
      BY <1>0, <1>3, CountEffect
  <2>2. Files'
      BY <1>0, <2>1, InsertsStayPut, SameRowsStutter, FilesFrame
  <2>3. \A i \in DOMAIN pins : pins[i].locked => pins'[i].locked
      BY <2>1
  <2>4. Gates'
      BY <1>0, <2>1, <2>3, GatesJudged
  <2> QED BY <1>0, <1>3, <2>1, <2>2, <2>4, GuessesCount, IInvPartsNext
<1>4. ASSUME CheckAttempts(p) PROVE IInv'
  <2>1. /\ TypeOK' /\ Others(p) /\ cmd[p].pc = "count"
        /\ \/ cmd'[p].pc = "lock" /\ cmd'[p].how = cmd[p].how
           \/ cmd'[p].pc = "idle"
        /\ UNCHANGED <<disk, rows, pins, tokens, lost, count>>
      BY <1>0, <1>4, CheckEffect
  <2>2. Files'
      BY <1>0, <2>1, InsertsStayPut, SameRowsStutter, FilesFrame
  <2>3. Gates'
      BY <1>0, <2>1, GatesJudged
  <2> QED BY <1>0, <1>4, <2>1, <2>2, <2>3, GuessesCheck, IInvPartsNext
<1>5. ASSUME LockPin(p) PROVE IInv'
  <2> SUFFICES ASSUME NEW id, id = cmd[p].id PROVE IInv'
      OBVIOUS
  <2>1. /\ TypeOK' /\ Others(p) /\ cmd[p].pc = "lock" /\ cmd'[p].pc = "idle"
        /\ DOMAIN pins' = DOMAIN pins /\ pins'[id].locked
        /\ \A i \in DOMAIN pins \ {id} : pins'[i] = pins[i]
        /\ UNCHANGED <<disk, rows, tokens, lost, count>>
      BY <1>0, <1>5, LockEffect
  <2>2. Files'
      BY <1>0, <2>1, InsertsStayPut, SameRowsStutter, FilesFrame
  <2>3. \A i \in DOMAIN pins : pins[i].locked => pins'[i].locked
      BY <2>1
  <2>4. Gates'
      BY <1>0, <2>1, <2>3, GatesJudged
  <2> QED BY <1>0, <1>5, <2>1, <2>2, <2>4, GuessesLock, IInvPartsNext
<1>6. ASSUME AcceptPin(p) PROVE IInv'
  <2>1. /\ TypeOK' /\ Others(p) /\ cmd[p].pc = "accept" /\ cmd'[p].pc = "use"
        /\ UNCHANGED <<disk, rows, lost, count>>
      BY <1>0, <1>6, AcceptEffect
  <2>2. Files'
      BY <1>0, <2>1, InsertsStayPut, SameRowsStutter, FilesFrame
  <2> QED BY <1>0, <1>6, <2>1, <2>2, GuessesAccept, GatesAccept, IInvPartsNext
<1>7. ASSUME TypeOK', Others(p), cmd[p].pc = "use", cmd'[p].pc = "idle", SameRows,
             UNCHANGED <<disk, pins, tokens, wrong, lost, count>>
      PROVE  IInv'
  <2>1. Files'
      BY <1>0, <1>7, InsertsStayPut, FilesFrame
  <2>2. Guesses'
      BY <1>0, <1>7, GuessesQuiet
  <2>3. GateKept /\ GateOk(p)'
      BY <1>7, KeptBySame, OutsideGate
  <2>4. Gates'
      BY <1>0, <1>7, <2>3, GatesFrame
  <2> QED BY <1>7, <2>1, <2>2, <2>4, IInvPartsNext
<1>8. ASSUME RedeemShare(p) PROVE IInv'
    BY <1>0, <1>7, <1>8, RedeemEffect
<1>9. ASSUME OpenRow(p) PROVE IInv'
  <2>1. /\ Done(p) /\ cmd[p].pc = "use"
        /\ UNCHANGED <<now, disk, rows, pins, tokens, wrong, lost, count>>
      BY <1>9 DEF OpenRow
  <2> QED BY <1>0, <1>7, <2>1, QuietEnd, SameRowsStutter
<1> QED BY <1>1, <1>2, <1>3, <1>4, <1>5, <1>6, <1>8, <1>9 DEF UseRow

LEMMA KillStep ==
    ASSUME IInv, NEW p \in Procs, Kill(p)
    PROVE  IInv'
<1>0. TypeOK /\ Files /\ Guesses /\ Gates
    BY IInvParts
<1>1. cmd[p].pc = "insert" => cmd[p].tag \in 1..MaxWrites
    BY <1>0, InsertingTags
<1>2. /\ TypeOK' /\ Others(p) /\ cmd'[p].pc = "idle"
      /\ UNCHANGED <<rows, pins, tokens>>
    BY <1>0, <1>1, KillEffect
<1>3. Files' /\ Guesses'
    BY <1>0, <1>1, FilesKill, GuessesKill
<1>4. GateKept /\ GateOk(p)'
    BY <1>2, SameRowsStutter, KeptBySame, OutsideGate
<1>5. Gates'
    BY <1>0, <1>2, <1>4, GatesFrame
<1> QED BY <1>2, <1>3, <1>5, IInvPartsNext

(* A step that moves no command and leaves guesses alone.                  *)
LEMMA StillStep ==
    ASSUME IInv, TypeOK', Files', SameRows, DOMAIN pins' = DOMAIN pins,
           \A i \in DOMAIN pins : /\ pins'[i].locked = pins[i].locked
                                  /\ pins'[i].attempts = pins[i].attempts,
           UNCHANGED <<tokens, cmd, wrong, count>>
    PROVE  IInv'
<1>0. TypeOK /\ Files /\ Guesses /\ Gates
    BY IInvParts
<1>1. GuessersStay
    BY DEF GuessersStay
<1>2. Guesses'
    BY <1>0, <1>1, GuessesFrame
<1>3. GateKept
    BY KeptBySame
<1>4. Gates'
    BY <1>0, <1>3, GatesStill
<1> QED BY <1>2, <1>4, IInvPartsNext

LEMMA OtherSteps ==
    ASSUME IInv,
           \/ \E id \in Ids : Relock(id) \/ RevokeShare(id) \/ UserDeletes(id)
           \/ \E id \in Ids, every \in BOOLEAN : ReplacePin(id, every)
           \/ Tick \/ UNCHANGED vars
    PROVE  IInv'
<1>0. TypeOK /\ Files /\ Guesses /\ Gates
    BY IInvParts
<1>1. cmd' = cmd => InsertsStay
    BY DEF InsertsStay
<1>2. ASSUME NEW id \in Ids, Relock(id) PROVE IInv'
  <2>1. /\ TypeOK' /\ DOMAIN pins' = DOMAIN pins
        /\ \A i \in DOMAIN pins : /\ pins'[i].locked = pins[i].locked
                                  /\ pins'[i].attempts = pins[i].attempts
        /\ UNCHANGED <<now, disk, rows, tokens, cmd, wrong, lost, count>>
      BY <1>0, <1>2, RelockEffect
  <2>2. Files'
      BY <1>0, <1>1, <2>1, SameRowsStutter, FilesFrame
  <2> QED BY <2>1, <2>2, SameRowsStutter, StillStep
<1>3. ASSUME NEW id \in Ids, RevokeShare(id) PROVE IInv'
  <2>1. /\ TypeOK' /\ SameRows
        /\ UNCHANGED <<now, disk, pins, tokens, cmd, wrong, lost, count>>
      BY <1>0, <1>3, RevokeEffect
  <2>2. Files'
      BY <1>0, <1>1, <2>1, FilesFrame
  <2> QED BY <2>1, <2>2, StillStep
<1>4. ASSUME NEW id \in Ids, UserDeletes(id) PROVE IInv'
  <2>1. rows[id].path \in Paths /\ rows[id].tag \in 1..MaxWrites
    <3>1. IsFile(rows[id])
        BY <1>4 DEF UserDeletes, IsFile
    <3>2. rows[id].path \in Paths /\ rows[id].tag \in 1..count.writes
        BY <1>0, <3>1 DEF Files, TagsTellApart, RowsHaveTags
    <3>3. count.writes \in 0..MaxWrites /\ MaxWrites \in Nat
        BY <1>0, Typed, AccessAssumption
    <3> QED BY <3>2, <3>3
  <2>2. TypeOK' /\ UNCHANGED <<now, rows, pins, tokens, cmd, wrong, count>>
      BY <1>0, <1>4, <2>1, DeleteEffect
  <2>3. Files'
      BY <1>0, <1>4, FilesDelete
  <2> QED BY <2>2, <2>3, SameRowsStutter, StillStep
<1>5. ASSUME NEW id \in Ids, NEW every \in BOOLEAN, ReplacePin(id, every) PROVE IInv'
  <2>1. /\ TypeOK' /\ count'.writes = count.writes /\ UNCHANGED <<disk, rows, lost>>
        /\ \A q \in Procs : /\ cmd'[q].pc = cmd[q].pc
                            /\ cmd[q].pc \notin GateSteps => cmd'[q] = cmd[q]
      BY <1>0, <1>5, ReplaceEffect
  <2>2. InsertsStay
      BY <2>1 DEF InsertsStay, GateSteps
  <2>3. Files'
      BY <1>0, <2>1, <2>2, SameRowsStutter, FilesFrame
  <2> QED BY <1>0, <1>5, <2>1, <2>3, GuessesReplace, GatesReplace, IInvPartsNext
<1>6. ASSUME Tick PROVE IInv'
  <2>1. TypeOK' /\ UNCHANGED <<disk, rows, pins, tokens, cmd, wrong, lost, count>>
      BY <1>0, <1>6, TickEffect
  <2>2. Files'
      BY <1>0, <1>1, <2>1, SameRowsStutter, FilesFrame
  <2> QED BY <2>1, <2>2, SameRowsStutter, StillStep
<1>7. ASSUME UNCHANGED vars PROVE IInv'
  <2>1. UNCHANGED <<now, disk, rows, pins, tokens, cmd, wrong, lost, count>>
      BY <1>7 DEF vars
  <2>2. TypeOK'
      BY <1>0, <2>1 DEF TypeOK, Ids
  <2>3. Files'
      BY <1>0, <1>1, <2>1, SameRowsStutter, FilesFrame
  <2> QED BY <2>1, <2>2, <2>3, SameRowsStutter, StillStep
<1> QED BY <1>2, <1>3, <1>4, <1>5, <1>6, <1>7

(* IInv is an inductive invariant: whatever commands run, however they are *)
(* interleaved at their SQL statements, prompts and file operations, and   *)
(* wherever they are killed.                                               *)
THEOREM Inductive == Spec => []IInv
<1>1. IInv /\ [Next]_vars => IInv'
    BY MakeStep, UseStep, KillStep, OtherSteps DEF Next
<1> QED BY <1>1, InitIInv, PTL DEF Spec

(* Rows, PINs and commands keep their shapes, and a command at a statement *)
(* of verify_pin is about a PIN that exists.                               *)
THEOREM TypeCorrect == Spec => []TypeOK
<1>1. IInv => TypeOK
    BY DEF IInv
<1> QED BY <1>1, Inductive, PTL

(* verify_pin judges no more wrong PINs between two resets than the limit, *)
(* one per concurrent command and one per killed command, for any number   *)
(* of commands.                                                            *)
THEOREM GuessesSafe == Spec => []GuessesBounded
<1>1. IInv => GuessesBounded
    BY DEF IInv
<1> QED BY <1>1, Inductive, PTL

(* A command that began at a locked PIN never passes the gate.             *)
THEOREM LockSafe == Spec => []LockedStaysShut
<1>1. IInv => LockedStaysShut
    BY DEF IInv
<1> QED BY <1>1, Inductive, PTL

(* A share made with --pin is never at its use without one.                *)
THEOREM TokenSafe == Spec => []TokenGated
<1>1. IInv => TokenGated
    BY DEF IInv
<1> QED BY <1>1, Inductive, PTL

(* No lock command, however it ends, replaces or removes the ciphertext of *)
(* another one's row.                                                      *)
THEOREM CiphertextSafe == Spec => []CiphertextKept
<1>1. IInv => CiphertextKept
    BY DEF IInv
<1> QED BY <1>1, Inductive, PTL

(* A ciphertext without a row belongs to a command at work, or killed.     *)
THEOREM UntrackedSafe == Spec => []NoUntrackedFile
<1>1. IInv => NoUntrackedFile
    BY DEF IInv
<1> QED BY <1>1, Inductive, PTL

-----------------------------------------------------------------------------
(* Share links.                                                            *)

UsesStay == \A i \in Ids : rows'[i].uses = rows[i].uses

(* Only redeem_share counts a use.                                         *)
LEMMA OnlyRedeemCounts ==
    ASSUME TypeOK, Files, [Next]_vars
    PROVE  UsesStay \/ \E p \in Procs : RedeemShare(p)
<1>1. rows' = rows => UsesStay
    BY DEF UsesStay
<1>2. (\A i \in Ids : rows'[i] = rows[i]) => UsesStay
    BY DEF UsesStay
<1>3. \A r : rows' = Append(rows, r) => UsesStay
    BY Typed DEF UsesStay, Ids
<1>4. ASSUME NEW p \in Procs, Make(p) PROVE UsesStay
    BY <1>1, <1>3, <1>4 DEF Make, WriteCiphertext, InsertRow, InsertFails, AddCredential,
                           CreateShare, SetPin, PinRefused
<1>5. ASSUME NEW p \in Procs, UseRow(p) PROVE UsesStay \/ RedeemShare(p)
    BY <1>1, <1>5 DEF UseRow, Ask, VerifyPin, CountAttempt, CheckAttempts, LockPin,
                      AcceptPin, OpenRow
<1>6. ASSUME NEW id \in Ids, RevokeShare(id) PROVE UsesStay
    BY <1>6, RevokeEffect DEF UsesStay
<1>7. ASSUME \/ \E p \in Procs : Kill(p)
             \/ \E id \in Ids : Relock(id) \/ UserDeletes(id)
             \/ \E id \in Ids, every \in BOOLEAN : ReplacePin(id, every)
             \/ Tick \/ UNCHANGED vars
      PROVE  rows' = rows
    BY <1>7 DEF Kill, Relock, UserDeletes, ReplacePin, Tick, vars
<1> QED BY <1>1, <1>4, <1>5, <1>6, <1>7 DEF Next

(* A use of a share is counted only while it may be redeemed, up to its    *)
(* limit, and behind its PIN.                                              *)
THEOREM RedeemSafe == Spec => RedeemedByRight
<1> DEFINE ByRight(i) ==
        rows'[i].uses # rows[i].uses =>
          /\ rows'[i].uses = rows[i].uses + 1
          /\ ~rows[i].revoked /\ now < rows[i].expires
          /\ rows[i].limit # 0 => rows'[i].uses <= rows[i].limit
          /\ rows[i].asked => \E p \in Procs : cmd[p].pc = "use" /\ cmd[p].id = i
                                                /\ cmd[p].how # "open"
<1>1. ASSUME IInv, [Next]_vars, NEW i \in Ids PROVE ByRight(i)
  <2>0. TypeOK /\ Files /\ TokenGated
      BY <1>1, IInvParts, GatesParts
  <2>1. CASE UsesStay
      BY <2>1, <1>1 DEF UsesStay
  <2>2. ASSUME NEW p \in Procs, RedeemShare(p) PROVE ByRight(i)
    <3>1. /\ cmd[p].pc = "use" /\ rows[cmd[p].id].kind = "share"
          /\ rows' = IF Redeemable(rows[cmd[p].id])
                     THEN [rows EXCEPT ![cmd[p].id].uses = @ + 1] ELSE rows
        BY <2>2 DEF RedeemShare
    <3>2. rows \in Seq(RowRecords) /\ cmd[p].id \in Ids /\ rows[i] \in RowRecords
      <4>1. rows \in Seq(RowRecords) /\ cmd[p].id \in Ids
          BY <2>0, <3>1, Typed
      <4> QED BY <4>1, <1>1 DEF Ids
    <3>3. CASE Redeemable(rows[cmd[p].id]) /\ cmd[p].id = i
      <4>1. rows' = [rows EXCEPT ![i] = [rows[i] EXCEPT !.uses = @ + 1]]
          BY <3>1, <3>3, Zenon
      <4>2. rows'[i].uses = rows[i].uses + 1
        <5> DEFINE r == [rows[i] EXCEPT !.uses = @ + 1]
        <5>1. r \in RowRecords /\ r.uses = rows[i].uses + 1
            BY <3>2, UsedRow
        <5> HIDE DEF r
        <5>2. rows' = [rows EXCEPT ![i] = r]
            BY <4>1 DEF r
        <5>3. rows'[i] = r
            BY <5>1, <5>2, <3>2, <1>1, ChangeRow
        <5> QED BY <5>1, <5>3
      <4>3. ~rows[i].revoked /\ rows[i].expires > now
            /\ (rows[i].limit = 0 \/ rows[i].uses < rows[i].limit)
          BY <3>3 DEF Redeemable
      <4>4. rows[i].uses \in Nat /\ rows[i].limit \in Nat /\ rows[i].expires \in Nat
            /\ now \in Nat
        <5>1. now \in Nat
            BY <2>0, Typed
        <5>2. /\ rows[i].uses \in Nat /\ rows[i].limit \in Nat
              /\ rows[i].expires \in Nat
            BY <3>2 DEF RowRecords
        <5> QED BY <5>1, <5>2
      <4>5. now < rows[i].expires /\ (rows[i].limit # 0 => rows'[i].uses <= rows[i].limit)
          BY <4>2, <4>3, <4>4
      <4>6. rows[i].asked => cmd[p].how # "open"
          BY <2>0, <3>1, <3>3 DEF TokenGated
      <4> QED BY <4>2, <4>3, <4>5, <4>6, <3>1, <3>3
    <3>4. CASE Redeemable(rows[cmd[p].id]) /\ cmd[p].id # i
      <4>1. rows'[i] = rows[i]
          BY <3>1, <3>2, <3>4, <1>1 DEF Ids
      <4> QED BY <4>1
    <3>5. CASE ~Redeemable(rows[cmd[p].id])
        BY <3>1, <3>5
    <3> QED BY <3>3, <3>4, <3>5
  <2> QED BY <2>0, <2>1, <2>2, <1>1, OnlyRedeemCounts
<1>2. IInv /\ [Next]_vars => [\A i \in Ids : ByRight(i)]_vars
    BY <1>1
<1> QED BY <1>2, Inductive, PTL DEF Spec, RedeemedByRight

=============================================================================
