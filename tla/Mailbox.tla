------------------------------ MODULE Mailbox ------------------------------
(***************************************************************************)
(* Envelopes through the relay: `relay push' of a directory, the mailbox   *)
(* table and its pages (src/relay/mailbox.rs, src/relay/server.rs), and    *)
(* `relay pull' to a directory or straight into a store                    *)
(* (src/bin/keyquorum/main.rs), over a client that gives up after a while  *)
(* (src/relay/client.rs).                                                  *)
(*                                                                         *)
(* Abstractions:                                                           *)
(*   - an envelope is [to, bridge, gen]: for its recipient, one line of    *)
(*     private-bridge updates per bridge (module PrivateBridge has more),  *)
(*     of which a store imports exactly the next one;                      *)
(*   - a request with a dead API key (module RelayKeys), a lost request    *)
(*     and a lost answer look alike to the client: the command fails;      *)
(*   - the trees that travel with the first push are in module OrgSync.    *)
(*   - a pull writes files or imports; one that does both is left out.     *)
(***************************************************************************)
EXTENDS Naturals, Sequences, FiniteSets

CONSTANTS
    Senders, Readers, Bridges,
    Dir,       \* sender -> the .kqpb files of its directory, sorted by path
    Page,      \* --limit
    Modes,     \* how people pull: "files" (--output-dir), "import" (--import)
    MaxLate    \* requests the relay still works on after their client gave up

Envelopes == UNION {{Dir[s][i] : i \in DOMAIN Dir[s]} : s \in Senders}

ASSUME MailboxAssumption ==
    /\ Page \in Nat \ {0} /\ MaxLate \in Nat
    /\ Modes \subseteq {"files", "import"}
    /\ \A s \in Senders : Dir[s] \in Seq(Envelopes)
    /\ \A e \in Envelopes : e.to \in Readers /\ e.bridge \in Bridges
                            /\ e.gen \in Nat \ {0}

VARIABLES
    box,    \* the mailbox table; the row id is the position
    push,   \* sender -> the file it waits for an answer about, 0 for none
    late,   \* envelopes of abandoned requests that the relay still has
    files,  \* reader -> ids in its output directory
    gen,    \* reader -> bridge -> the generation its store has, 0 for none
    pull,   \* reader -> its pull command: the rest of the page and next_after
    cursor  \* reader -> mode -> the --after that its last pull printed, or 0

vars == <<box, push, late, files, gen, pull, cursor>>

NoPull == [mode |-> "none"]

(* The page a pull command works on.                                       *)
Pulls == [mode: Modes, todo: SUBSET Nat, next: Nat]

(* Ids point into the mailbox, to rows for that reader.                    *)
TypeOK ==
    /\ box \in Seq(Envelopes)
    /\ push \in [Senders -> Nat] /\ \A s \in Senders : push[s] <= Len(Dir[s])
    /\ late \subseteq Envelopes
    /\ gen \in [Readers -> [Bridges -> Nat]]
    /\ files \in [Readers -> SUBSET DOMAIN box]
    /\ \A r \in Readers : \A i \in files[r] : box[i].to = r
    /\ pull \in [Readers -> {NoPull} \union Pulls]
    /\ \A r \in Readers : pull[r] # NoPull =>
          \A i \in pull[r].todo : i \in DOMAIN box /\ box[i].to = r
    /\ cursor \in [Readers -> [Modes -> Nat]]

Init ==
    /\ box = <<>>
    /\ push = [s \in Senders |-> 0]
    /\ late = {}
    /\ files = [r \in Readers |-> {}]
    /\ gen = [r \in Readers |-> [b \in Bridges |-> 0]]
    /\ pull = [r \in Readers |-> NoPull]
    /\ cursor = [r \in Readers |-> [m \in Modes |-> 0]]

-----------------------------------------------------------------------------
(* The table.                                                              *)

(* mailbox::store: INSERT OR IGNORE on recipient and content.              *)
MutOnePerBridge(e) ==
    IF \E i \in DOMAIN box : box[i].to = e.to /\ box[i].bridge = e.bridge
    THEN box ELSE Append(box, e)
MutInsertAlways(e) == Append(box, e)
Store(e) == IF \E i \in DOMAIN box : box[i] = e THEN box ELSE Append(box, e)

(* The n smallest ids of S, and the last id of S.                          *)
Smallest(S, n) == {i \in S : Cardinality({j \in S : j < i}) < n}
LastOf(S) == IF S = {} THEN 0 ELSE CHOOSE i \in S : \A j \in S : j <= i

(* mailbox::list_after: one row more than the page is fetched, and tells   *)
(* whether there is a next page.                                           *)
MutNoOrder(r, after) ==
    LET rest == {i \in DOMAIN box : box[i].to = r /\ i > after}
        page == {i \in rest : Cardinality({j \in rest : j > i}) < Page}
    IN  [todo |-> page, next |-> IF Cardinality(rest) > Page THEN LastOf(page) ELSE 0]
ListAfter(r, after) ==
    LET rest == {i \in DOMAIN box : box[i].to = r /\ i > after}
        page == Smallest(rest, Page)
    IN  [todo |-> page, next |-> IF Cardinality(rest) > Page THEN LastOf(page) ELSE 0]

-----------------------------------------------------------------------------
(* relay push: the files of the directory one after the other; the first   *)
(* failure ends the command, and running it again begins with the first.   *)

StartPush(s) ==
    /\ push[s] = 0 /\ Dir[s] # <<>>
    /\ push' = [push EXCEPT ![s] = 1]
    /\ UNCHANGED <<box, late, files, gen, pull, cursor>>

(* post_inbox, answered in time: on to the next file.                      *)
PostInbox(s, i) ==
    /\ push[s] = i /\ i # 0
    /\ box' = Store(Dir[s][i])
    /\ push' = [push EXCEPT ![s] = IF i < Len(Dir[s]) THEN i + 1 ELSE 0]
    /\ UNCHANGED <<late, files, gen, pull, cursor>>

(* The request is lost or refused; or the client gives up (its timeouts    *)
(* are 10 to 30 seconds) while the relay goes on.                          *)
PushFails(s) ==
    /\ push[s] # 0
    /\ push' = [push EXCEPT ![s] = 0]
    /\ UNCHANGED <<box, late, files, gen, pull, cursor>>

PushTimesOut(s) ==
    /\ push[s] # 0 /\ Cardinality(late) < MaxLate
    /\ late' = late \union {Dir[s][push[s]]}
    /\ push' = [push EXCEPT ![s] = 0]
    /\ UNCHANGED <<box, files, gen, pull, cursor>>

LatePost(e) ==
    /\ e \in late
    /\ box' = Store(e)
    /\ late' = late \ {e}
    /\ UNCHANGED <<push, files, gen, pull, cursor>>

-----------------------------------------------------------------------------
(* relay pull.                                                             *)

(* get_inbox: one page.  An empty one ends the command.                    *)
GetInbox(r, mode, after) ==
    LET page == ListAfter(r, after)
    IN  /\ pull[r] = NoPull /\ page.todo # {}
        /\ pull' = [pull EXCEPT ![r] = [mode |-> mode, todo |-> page.todo,
                                        next |-> page.next]]
        /\ cursor' = [cursor EXCEPT ![r][mode] = 0]
        /\ UNCHANGED <<box, push, late, files, gen>>

LastFile(r) == LastOf(files[r])

(* --output-dir: people pass the --after that was printed, or go on after  *)
(* the last file they have ...                                             *)
PullFiles(r) ==
    /\ "files" \in Modes
    /\ LET printed == cursor[r]["files"]
       IN  GetInbox(r, "files", IF printed # 0 THEN printed ELSE LastFile(r))
(* ... while --import is run as the README shows it, or with that --after. *)
PullImport(r) ==
    "import" \in Modes /\ GetInbox(r, "import", cursor[r]["import"])

(* The command is at row i of its page; the rows come in ascending order.  *)
At(r, mode, i) ==
    /\ pull[r] # NoPull /\ pull[r].mode = mode
    /\ i \in pull[r].todo /\ \A j \in pull[r].todo : i <= j

(* --output-dir: `<id>.kqpb', which must not exist yet.                    *)
WriteFile(r) ==
    \E i \in DOMAIN box :
        /\ At(r, "files", i) /\ i \notin files[r]
        /\ files' = [files EXCEPT ![r] = @ \union {i}]
        /\ pull' = [pull EXCEPT ![r].todo = @ \ {i}]
        /\ UNCHANGED <<box, push, late, gen, cursor>>

(* The page is done; with more to come the command prints the cursor.      *)
EndPage(r) ==
    /\ pull[r] # NoPull /\ pull[r].todo = {}
    /\ cursor' = [cursor EXCEPT ![r][pull[r].mode] = pull[r].next]
    /\ pull' = [pull EXCEPT ![r] = NoPull]
    /\ UNCHANGED <<box, push, late, files, gen>>

(* A file that cannot be written, or a killed command.                     *)
PullDies(r) ==
    /\ pull[r] # NoPull
    /\ pull' = [pull EXCEPT ![r] = NoPull]
    /\ UNCHANGED <<box, push, late, files, gen, cursor>>

(* import_package: exactly the next generation, or an error.               *)
Importable(r, i) == gen[r][box[i].bridge] = box[i].gen - 1
Install(r, i) == gen' = [gen EXCEPT ![r][box[i].bridge] = box[i].gen]

ImportNext(r) ==
    \E i \in DOMAIN box :
        /\ At(r, "import", i) /\ Importable(r, i) /\ Install(r, i)
        /\ pull' = [pull EXCEPT ![r].todo = @ \ {i}]
        /\ UNCHANGED <<box, push, late, files, cursor>>

(* The first envelope that fails to import ends the command.               *)
ImportFails(r) ==
    /\ \E i \in DOMAIN box : At(r, "import", i) /\ ~Importable(r, i)
    /\ pull' = [pull EXCEPT ![r] = NoPull]
    /\ UNCHANGED <<box, push, late, files, gen, cursor>>

(* private-bridge import --file.                                           *)
ImportFile(r, i) ==
    /\ i \in files[r] /\ Importable(r, i) /\ Install(r, i)
    /\ UNCHANGED <<box, push, late, files, pull, cursor>>

-----------------------------------------------------------------------------
Next ==
    \/ \E s \in Senders : StartPush(s) \/ PushFails(s) \/ PushTimesOut(s)
    \/ \E s \in Senders : \E i \in DOMAIN Dir[s] : PostInbox(s, i)
    \/ \E e \in late : LatePost(e)
    \/ \E r \in Readers : PullFiles(r) \/ WriteFile(r) \/ EndPage(r) \/ PullDies(r)
    \/ \E r \in Readers : PullImport(r) \/ ImportNext(r) \/ ImportFails(r)
    \/ \E r \in Readers : \E i \in files[r] : ImportFile(r, i)

Spec == Init /\ [][Next]_vars

(* People push again and pull again, a pull command goes on or dies, not   *)
(* every request is lost and not every command dies, and files are         *)
(* imported as they become next.                                           *)
Ids == 1..Cardinality(Envelopes)
PullGoesOn(r) ==
    WriteFile(r) \/ EndPage(r) \/ PullDies(r) \/ ImportNext(r) \/ ImportFails(r)
Fairness ==
    /\ \A s \in Senders : WF_vars(StartPush(s))
    /\ \A s \in Senders : \A i \in DOMAIN Dir[s] : SF_vars(PostInbox(s, i))
    /\ \A r \in Readers : WF_vars(PullGoesOn(r))
    /\ \A r \in Readers : SF_vars(PullFiles(r)) /\ SF_vars(WriteFile(r))
    /\ \A r \in Readers : \A i \in Ids : WF_vars(i \in DOMAIN box /\ ImportFile(r, i))

FairSpec == Spec /\ Fairness

(* The same with readers who run `relay pull --import' again and again.    *)
ImportSpec ==
    /\ FairSpec
    /\ \A r \in Readers : SF_vars(PullImport(r)) /\ SF_vars(ImportNext(r))

-----------------------------------------------------------------------------
(* Properties.                                                             *)

(* Pages leave no holes: whoever follows the cursors has every envelope    *)
(* for them up to the last one, though others are stored between pages.    *)
PagesComplete ==
    \A r \in Readers :
        files[r] = {i \in DOMAIN box : box[i].to = r /\ i <= LastFile(r)}

(* Every envelope of a pushed directory is imported in the end, across     *)
(* lost and repeated pushes, rows in any order, pages and dying commands,  *)
(* by pulling to files and importing these.                                *)
EnvelopesArrive ==
    \A e \in Envelopes : <>(gen[e.to][e.bridge] >= e.gen)

(* README "recover a missed update by pulling again and importing": an     *)
(* update that is next for a store and in the mailbox is imported by       *)
(* running `relay pull --import' again.                                    *)
PullAgainRecovers ==
    \A e \in Envelopes :
        ((\E i \in DOMAIN box : box[i] = e) /\ gen[e.to][e.bridge] = e.gen - 1)
            ~> gen[e.to][e.bridge] >= e.gen

-----------------------------------------------------------------------------
(* Pushing, pulling and importing implement a log and a queue per reader   *)
(* (module MailboxAbstract): however requests are lost, repeated and late  *)
(* and commands die, an envelope is accepted once, a directory receives    *)
(* its envelopes in the order of their rows with none left out, and a      *)
(* store moves on by one accepted envelope that is for it.                 *)
Received == [r \in Readers |-> LastFile(r)]
Queue == INSTANCE MailboxAbstract WITH log <- box, got <- Received
ImplementsQueue == Queue!Spec

-----------------------------------------------------------------------------
(* The inductive invariant (its proof is in MailboxProofs).                *)

(* The files of a reader have a last one.                                  *)
FilesEnd ==
    \A r \in Readers : files[r] # {} => \E m \in files[r] : \A j \in files[r] : j <= m

(* The rest of a page that is being written goes on after the last file,   *)
(* without a hole, and ends at next_after if there is one.                 *)
PageGoesOn ==
    \A r \in Readers : pull[r] # NoPull /\ pull[r].mode = "files" =>
        /\ cursor[r]["files"] = 0
        /\ \A i \in pull[r].todo : LastFile(r) < i
        /\ \A i \in pull[r].todo : \A j \in DOMAIN box :
              box[j].to = r /\ LastFile(r) < j /\ j <= i => j \in pull[r].todo
        /\ pull[r].next # 0 =>
              IF pull[r].todo = {} THEN pull[r].next = LastFile(r)
              ELSE pull[r].next \in pull[r].todo /\ \A i \in pull[r].todo : i <= pull[r].next

(* The --after that was printed is the last file.                          *)
CursorIsLast ==
    \A r \in Readers : "files" \in Modes => cursor[r]["files"] \in {0, LastFile(r)}

IInv == TypeOK /\ FilesEnd /\ PagesComplete /\ PageGoesOn /\ CursorIsLast

=============================================================================
