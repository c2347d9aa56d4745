--------------------------- MODULE MessageChannel ---------------------------
(***************************************************************************)
(* What a client of CoreIPC is promised about one direction of a           *)
(* connection, whatever queues, threads and waits a message passes: it is  *)
(* delivered at most once and only if the peer sent it; nothing is sent by *)
(* or delivered to an end that was invalidated or closed; and, if the      *)
(* channel is ordered, after a message that does not ask to be dispatched  *)
(* during synchronous waits no message sent before it is delivered.        *)
(* Connection implements this.                                             *)
(***************************************************************************)
EXTENDS Naturals, Sequences

CONSTANT InOrder      \* whether the channel promises an order

VARIABLES sent,       \* how many messages the sender has sent
          sending,    \* the sender's end is in use
          delivered,  \* the messages passed to the receiver, oldest first
          receiving   \* the receiver's end is in use

vars == <<sent, sending, delivered, receiving>>

Init ==
  /\ sent = 0
  /\ sending = TRUE
  /\ delivered = <<>>
  /\ receiving = TRUE

Send ==
  /\ sending
  /\ sent' = sent + 1
  /\ UNCHANGED <<sending, delivered, receiving>>

\* The message with this serial number, flagged or not, may be delivered next.
Deliverable(m) ==
  \A i \in DOMAIN delivered :
    /\ delivered[i].serial # m.serial
    /\ InOrder /\ m.serial < delivered[i].serial => delivered[i].flagged

Deliver ==
  /\ receiving
  /\ \E m \in [serial : 1 .. sent, flagged : BOOLEAN] :
       /\ Deliverable(m)
       /\ delivered' = Append(delivered, m)
  /\ UNCHANGED <<sent, sending, receiving>>

\* One end, or both, go out of use, for good.
Disconnect ==
  /\ sending' \in {sending, FALSE}
  /\ receiving' \in {receiving, FALSE}
  /\ UNCHANGED <<sent, delivered>>

Next == Send \/ Deliver \/ Disconnect

Spec == Init /\ [][Next]_vars
=============================================================================
