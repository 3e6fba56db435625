----------------------------- MODULE MCMailbox -----------------------------
(* Alice founds a bridge with r, and Bob issues its second generation; the *)
(* two push from their own devices, so the rows come in either order.      *)
(* Alice's directory also holds an envelope of another bridge, for q.      *)
EXTENDS Mailbox

Envelope(t, b, g) == [to |-> t, bridge |-> b, gen |-> g]

MCDir ==
    [s \in Senders |->
       IF s = "alice" THEN <<Envelope("r", "b1", 1), Envelope("q", "b2", 1)>>
       ELSE <<Envelope("r", "b1", 2)>>]

=============================================================================
