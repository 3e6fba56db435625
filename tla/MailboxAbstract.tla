-------------------------- MODULE MailboxAbstract --------------------------
(***************************************************************************)
(* What the relay's mailbox promises, without directories, requests, pages *)
(* or cursors: one log of envelopes, in which each is accepted once and    *)
(* stays; for each reader a queue over it; and stores whose bridges move   *)
(* one generation at a time, by envelopes of the log that are for them.    *)
(* Mailbox implements it.                                                  *)
(***************************************************************************)
EXTENDS Naturals, Sequences

CONSTANTS Readers, Bridges, Envelopes

VARIABLES
    log,  \* the accepted envelopes
    got,  \* reader -> the place in the log of the last one it received, or 0
    gen   \* reader -> bridge -> the generation its store has, or 0

vars == <<log, got, gen>>

Init ==
    /\ log = <<>>
    /\ got = [r \in Readers |-> 0]
    /\ gen = [r \in Readers |-> [b \in Bridges |-> 0]]

Accept(e) ==
    /\ \A i \in DOMAIN log : log[i] # e
    /\ log' = Append(log, e)
    /\ UNCHANGED <<got, gen>>

(* A reader receives the first envelope for it that it does not have yet.  *)
Receive(r, i) ==
    /\ log[i].to = r /\ got[r] < i
    /\ \A j \in DOMAIN log : log[j].to = r /\ got[r] < j => i <= j
    /\ got' = [got EXCEPT ![r] = i]
    /\ UNCHANGED <<log, gen>>

Apply(r, i) ==
    /\ log[i].to = r
    /\ log[i].gen = gen[r][log[i].bridge] + 1
    /\ gen' = [gen EXCEPT ![r][log[i].bridge] = @ + 1]
    /\ UNCHANGED <<log, got>>

Next ==
    \/ \E e \in Envelopes : Accept(e)
    \/ \E r \in Readers : \E i \in DOMAIN log : Receive(r, i) \/ Apply(r, i)

Spec == Init /\ [][Next]_vars

=============================================================================
