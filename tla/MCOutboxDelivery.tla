-------------------------- MODULE MCOutboxDelivery --------------------------
(* Instances of OutboxDelivery for TLC. *)
EXTENDS OutboxDelivery

CONSTANTS m1, m2, alice

\* One message.
OnePeer == [m \in {m1} |-> alice]
\* Two messages to the same recipient.
SamePeer == [m \in {m1, m2} |-> alice]
=============================================================================
