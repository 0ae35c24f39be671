--------------------------- MODULE DirectMessages ---------------------------
(***************************************************************************)
(* What durable delivery promises the two users of a conversation, without *)
(* passes, leases, retries, envelopes on the wire, crashes and restarts:   *)
(* what becomes of a message at its sender (dm_messages and the outbox row *)
(* in src/src/storage/conversation.rs) and at its recipient (the mailbox   *)
(* and the bubbles of src/src/bin/boru/app/chat.rs), and what one of them  *)
(* may conclude about the other.  OutboxDelivery implements this           *)
(* specification.                                                          *)
(***************************************************************************)
EXTENDS Naturals

CONSTANTS Messages, Peers, RecipientOf

VARIABLES
  sent,      \* the sender's record of each message
  retired,   \* messages the sender has stopped retrying for good
  outdated,  \* messages whose lifetime is over
  stored,    \* messages the recipient has durably accepted
  bubbles,   \* how often the recipient's user was shown each message
  replaced   \* how often a recipient's unreadable mailbox was replaced

promise == <<sent, retired, outdated, stored, bubbles, replaced>>

\* A database of an older version may hold messages that were never sent.
Init ==
  /\ sent \in [Messages -> {"absent", "unacked"}]
  /\ retired = {} /\ outdated = {} /\ stored = {}
  /\ bubbles = [m \in Messages |-> 0]
  /\ replaced = [p \in Peers |-> 0]

Queue(m) ==
  /\ sent[m] = "absent"
  /\ sent' = [sent EXCEPT ![m] = "unacked"]
  /\ UNCHANGED <<retired, outdated, stored, bubbles, replaced>>

\* Nobody receives what nobody sent, nor what is out of date.
Store(m) ==
  /\ sent[m] # "absent"
  /\ m \notin outdated
  /\ stored' = stored \cup {m}
  /\ UNCHANGED <<sent, retired, outdated, bubbles, replaced>>

\* The recipient's mailbox was unreadable: a new one is begun with this message.
StoreAnew(m) ==
  /\ sent[m] # "absent"
  /\ m \notin outdated
  /\ stored' = stored \cup {m}
  /\ replaced' = [replaced EXCEPT ![RecipientOf[m]] = @ + 1]
  /\ UNCHANGED <<sent, retired, outdated, bubbles>>

\* A message is shown after it was stored, and never twice, unless a mailbox
\* that may have held it was replaced: once more for each.
Show(m) ==
  /\ m \in stored
  /\ bubbles[m] <= replaced[RecipientOf[m]]
  /\ bubbles' = [bubbles EXCEPT ![m] = @ + 1]
  /\ UNCHANGED <<sent, retired, outdated, stored, replaced>>

\* "Delivered" at the sender: the recipient has the message, and retrying ends
\* in the same step.
Acknowledge(m) ==
  /\ sent[m] = "unacked"
  /\ m \in stored
  /\ sent' = [sent EXCEPT ![m] = "acked"]
  /\ retired' = retired \cup {m}
  /\ UNCHANGED <<outdated, stored, bubbles, replaced>>

\* Without an acknowledgement only the end of its lifetime retires a message.
GiveUp(m) ==
  /\ sent[m] \in {"unacked", "deleted"}
  /\ m \in outdated
  /\ retired' = retired \cup {m}
  /\ UNCHANGED <<sent, outdated, stored, bubbles, replaced>>

Outdate(m) ==
  /\ outdated' = outdated \cup {m}
  /\ UNCHANGED <<sent, retired, stored, bubbles, replaced>>

\* The sender's user deletes the conversation with p; the recipient keeps it.
Delete(p) ==
  /\ sent' = [m \in Messages |-> IF RecipientOf[m] = p /\ sent[m] # "absent"
                                  THEN "deleted" ELSE sent[m]]
  /\ UNCHANGED <<retired, outdated, stored, bubbles, replaced>>

Next ==
  \/ \E m \in Messages : \/ Queue(m) \/ Store(m) \/ StoreAnew(m) \/ Show(m)
                         \/ Acknowledge(m) \/ GiveUp(m) \/ Outdate(m)
  \/ \E p \in Peers : Delete(p)

Spec == Init /\ [][Next]_promise
=============================================================================
