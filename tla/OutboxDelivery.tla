--------------------------- MODULE OutboxDelivery ---------------------------
(***************************************************************************)
(* Durable delivery of direct messages from one sender to its contacts:    *)
(*                                                                         *)
(*  - the sender's SQLite tables dm_messages, dm_outbox and outbox         *)
(*    (src/src/storage/conversation.rs, src/src/storage/schema.rs);        *)
(*  - the single OutboxDeliveryWorker that claims due outbox rows under a  *)
(*    lease, attempts them and records the outcome                         *)
(*    (src/src/outbox_delivery.rs, wired in src/src/bin/boru/main.rs);     *)
(*  - each recipient's inbox: the bounded event channel of inbox.rs, the   *)
(*    MailboxStore acceptance and the acknowledgement (mailbox.rs and      *)
(*    bin/boru/app/chat.rs);                                               *)
(*  - the network between them, and crashes of either side.                *)
(*                                                                         *)
(* Wall-clock deadlines (retry backoff, lease, envelope lifetime) are      *)
(* abstracted to facts that become true at an arbitrary moment.  A pass    *)
(* of the worker reads the clock once, so what is due and which leases     *)
(* have lapsed is fixed when the pass begins (passDue, passStale).         *)
(***************************************************************************)
EXTENDS Integers, Sequences, FiniteSets

CONSTANTS
  Messages,       \* logical message ids (one send intent each)
  Peers,          \* recipients
  RecipientOf,    \* the recipient bound to a message at admission
  AllPeers,       \* names a run_once pass, as opposed to run_once_for_peer
  NoMsg,          \* no envelope is being handled by a recipient
  BatchSize,      \* claim_batch_size
  ClaimLimit,     \* claim_limit: attempts of a run_once pass
  PeerLimit,      \* max_attempts of a run_once_for_peer pass
  MaxConcurrent,  \* max_concurrent deliveries
  InboxCapacity,  \* capacity of a recipient's inbox event channel
  MaxFaults,      \* bound: crashes and storage errors in a behaviour
  Events          \* which environment events may happen

EventKinds == {"revoke", "expire", "delete", "open", "netchange", "legacy",
               "hint"}

ASSUME OutboxAssumption ==
  /\ RecipientOf \in [Messages -> Peers]
  /\ AllPeers \notin Peers
  /\ NoMsg \notin Messages
  /\ BatchSize \in Nat \ {0}
  /\ ClaimLimit \in Nat \ {0}
  /\ PeerLimit \in Nat \ {0}
  /\ MaxConcurrent \in Nat \ {0}
  /\ InboxCapacity \in Nat \ {0}
  /\ MaxFaults \in Nat
  /\ Events \subseteq EventKinds

VARIABLES
  \* Sender, durable.
  canon,       \* dm_messages: the canonical row of each message
  envelope,    \* canonical rows whose envelope IS NOT NULL
  dmOutbox,    \* dm_outbox: messages whose envelope is kept for sending
  status,      \* outbox.status, "NoRow" when the row is absent
  due,         \* unacknowledged outbox rows with next_attempt_at_ms <= now
  lease,       \* outbox.lease_owner and locked_until_ms
  rowids,      \* outbox rows in rowid order
  retried,     \* rows whose next_attempt_at_ms was rewritten since insertion
  \* Sender, the worker's memory.
  pc,          \* where the current pass is
  passPeer,    \* AllPeers, or the peer of a run_once_for_peer pass
  passDue,     \* rows with next_attempt_at_ms <= the pass's `now`
  passStale,   \* leases with locked_until_ms <= the pass's `now`
  attempted,   \* attempts started in this pass
  batch,       \* claimed rows not yet scheduled
  scheduled,   \* scheduled_peers of the current batch
  task,        \* the delivery task of each message
  obsolete,    \* tasks started under an older generation
  \* Environment.
  authorised,  \* recipients the contact policy allows
  envExpired,  \* envelopes older than DEFAULT_MAILBOX_TTL
  deliverNet,  \* envelopes on their way to the recipient
  ackNet,      \* acknowledgements on their way to the sender
  faults,      \* crashes and storage errors so far
  \* Recipients.
  inboxQueue,  \* inbox event channel (memory)
  mailbox,     \* entries and dedup records in the mailbox files (durable)
  accepted,    \* history: messages that were ever saved in a mailbox file
  losses,      \* history: mailbox files replaced because they were unreadable
  handling,    \* envelope saved but not yet projected and acknowledged
  fresh,       \* whether that envelope was newly inserted
  shown        \* how many bubbles each message created

rows      == <<status, due, lease, rowids, retried>>
sender    == <<canon, envelope, dmOutbox, rows>>
passVars  == <<pc, passPeer, passDue, passStale, attempted, batch, scheduled>>
worker    == <<passVars, task, obsolete>>
wires     == <<deliverNet, ackNet>>
recipient == <<inboxQueue, mailbox, accepted, losses, handling, fresh, shown>>
vars      == <<sender, worker, authorised, envExpired, wires, faults, recipient>>

Statuses == {"NoRow", "Pending", "Sent", "Acked", "Expired"}
Phases   == {"none", "queued", "sending", "ok", "retry", "unauth", "expired"}
Outcomes == {"ok", "retry", "unauth", "expired"}
Open     == {"Pending", "Sent"}

Range(q) == {q[i] : i \in DOMAIN q}
-----------------------------------------------------------------------------
(***************************************************************************)
(* Admission.  A database written by an older version may hold canonical   *)
(* rows without their outbox projections ("legacy"); otherwise it starts   *)
(* empty.  migrate_v28 could fill the envelope column only from dm_outbox, *)
(* so a legacy row with neither has no envelope at all.                    *)
(***************************************************************************)
Init ==
  /\ canon \in [Messages -> IF "legacy" \in Events THEN {"absent", "unacked"}
                                                    ELSE {"absent"}]
  /\ envelope \in SUBSET {m \in Messages : canon[m] = "unacked"}
  /\ dmOutbox \in SUBSET envelope
  /\ status = [m \in Messages |-> "NoRow"]
  /\ due = {}
  /\ lease = [m \in Messages |-> "free"]
  /\ rowids = <<>>
  /\ retried = {}
  /\ pc = "idle" /\ passPeer = AllPeers /\ passDue = {} /\ passStale = {}
  /\ attempted = 0 /\ batch = <<>> /\ scheduled = {}
  /\ task = [m \in Messages |-> "none"]
  /\ obsolete = {}
  /\ authorised = Peers
  /\ envExpired = {}
  /\ deliverNet = {} /\ ackNet = {}
  /\ faults = 0
  /\ inboxQueue = [p \in Peers |-> <<>>]
  /\ mailbox = {} /\ accepted = {}
  /\ losses = [p \in Peers |-> 0]
  /\ handling = [p \in Peers |-> NoMsg]
  /\ fresh = [p \in Peers |-> FALSE]
  /\ shown = [m \in Messages |-> 0]

\* queue_outgoing_dm: message, envelope and retry row in one transaction.
\* A repeated request key returns the stored message and changes nothing.
\* The row is due now: for a pass already running, only if it began in the
\* same millisecond.
QueueOutgoingDm(m) ==
  /\ canon[m] = "absent"
  /\ canon' = [canon EXCEPT ![m] = "unacked"]
  /\ envelope' = envelope \cup {m}
  /\ dmOutbox' = dmOutbox \cup {m}
  /\ status' = [status EXCEPT ![m] = "Pending"]
  /\ due' = due \cup {m}
  /\ rowids' = Append(rowids, m)
  /\ passDue' = passDue \/ (pc # "idle" /\ passDue' = passDue \cup {m})
  /\ UNCHANGED <<lease, retried, pc, passPeer, passStale, attempted, batch,
                 scheduled, task, obsolete, authorised, envExpired, wires, faults,
                 recipient>>

\* delete_chat_history removes the canonical and mailbox rows of the
\* conversation with p.
DeleteChatHistory(p) ==
  LET gone == {m \in Messages : RecipientOf[m] = p
                                  /\ canon[m] \in {"unacked", "acked"}}
  IN /\ "delete" \in Events
     /\ gone # {}
     /\ canon' = [m \in Messages |-> IF m \in gone THEN "deleted" ELSE canon[m]]
     /\ envelope' = envelope \ gone
     /\ dmOutbox' = dmOutbox \ gone
     /\ UNCHANGED <<rows, worker, authorised, envExpired, wires, faults, recipient>>

\* Mutant: expired rows are revived too.
RecoverCrashState_RevivesExpired ==
  /\ status' = [m \in Messages |-> IF status[m] \in {"Sent", "Expired"} THEN "Pending"
                                                                     ELSE status[m]]
  /\ due' = due \cup {m \in Messages : status[m] \in Open}
  /\ UNCHANGED <<retried, lease, rowids>>

(***************************************************************************)
(* recover_crash_state, run by every Storage::open: Sent rows go back to   *)
(* Pending, every Pending row becomes due, lapsed leases are cleared.      *)
(***************************************************************************)
RecoverCrashState ==
  /\ status' = [m \in Messages |-> IF status[m] = "Sent" THEN "Pending" ELSE status[m]]
  /\ due' = due \cup {m \in Messages : status[m] \in Open}
  /\ retried' = retried \cup {m \in Messages : status[m] = "Sent"
                                \/ (status[m] = "Pending" /\ m \notin due)}
  /\ lease' = [m \in Messages |-> IF lease[m] = "stale" THEN "free" ELSE lease[m]]
  /\ UNCHANGED rowids

\* Another part of the running application opens the same database.  What it
\* reschedules is due for a pass already running only in the same millisecond.
StorageOpen ==
  /\ "open" \in Events
  /\ RecoverCrashState
  /\ \/ passDue' = passDue \ {m \in Messages : status[m] = "Sent"}
     \/ pc # "idle" /\ passDue' = passDue \cup {m \in Messages : status[m] \in Open}
  /\ UNCHANGED <<canon, envelope, dmOutbox, pc, passPeer, passStale, attempted,
                 batch, scheduled, task, obsolete, authorised, envExpired, wires,
                 faults, recipient>>
-----------------------------------------------------------------------------
(***************************************************************************)
(* The delivery worker.                                                    *)
(***************************************************************************)
PassLimit == IF passPeer = AllPeers THEN ClaimLimit ELSE PeerLimit

\* A tick, a trigger or a reachability hint starts a pass; `now` is read once.
BeginPass(p) ==
  /\ pc = "idle"
  /\ p = AllPeers \/ "hint" \in Events
  /\ pc' = "repair"
  /\ passPeer' = p
  /\ passDue' = due
  /\ passStale' = {m \in Messages : lease[m] = "stale"}
  /\ attempted' = 0
  /\ UNCHANGED <<sender, batch, scheduled, task, obsolete, authorised, envExpired,
                 wires, faults, recipient>>

\* Mutant: a message that still has its mailbox row is taken to be whole.
RepairProjections_TrustsMailbox ==
  LET missing == {m \in envelope : canon[m] = "unacked" /\ m \notin dmOutbox}
  IN /\ pc = "repair"
     /\ pc' = "recover"
     /\ dmOutbox' = dmOutbox \cup missing
     /\ status' = [m \in Messages |-> IF m \in missing THEN "Pending" ELSE status[m]]
     /\ UNCHANGED <<canon, envelope, due, rowids, passDue, lease, retried,
                    passPeer, passStale, attempted, batch, scheduled, task,
                    obsolete, authorised, envExpired, wires, faults, recipient>>

\* repair_pending_dm_projections: INSERT OR IGNORE of both projections of
\* every unacknowledged canonical row whose envelope IS NOT NULL.
RepairProjections ==
  LET unacked == {m \in envelope : canon[m] = "unacked"}
      missing == {m \in unacked : status[m] = "NoRow"}
  IN /\ pc = "repair"
     /\ pc' = "recover"
     /\ dmOutbox' = dmOutbox \cup unacked
     /\ status' = [m \in Messages |-> IF m \in missing THEN "Pending" ELSE status[m]]
     /\ due' = due \cup missing
     /\ passDue' = passDue \cup missing
     /\ \E n \in 0..Cardinality(missing) : \E q \in [1..n -> missing] :
          /\ Range(q) = missing
          /\ rowids' = rowids \o q
     /\ UNCHANGED <<canon, envelope, lease, retried, passPeer, passStale,
                    attempted, batch, scheduled, task, obsolete, authorised,
                    envExpired, wires, faults, recipient>>

\* recover_stale_outbox_leases.  Its error is ignored: a lapsed lease can be
\* claimed whether or not it was cleared first.
RecoverStaleLeases ==
  /\ pc = "recover"
  /\ pc' = "claim"
  /\ \/ lease' = [m \in Messages |-> IF m \in passStale /\ lease[m] = "stale"
                                        /\ status[m] \notin {"Acked", "Expired"}
                                      THEN "free" ELSE lease[m]]
     \/ UNCHANGED lease
  /\ UNCHANGED <<canon, envelope, dmOutbox, status, due, rowids, retried,
                 passPeer, passDue, passStale, attempted, batch, scheduled, task,
                 obsolete, authorised, envExpired, wires, faults, recipient>>

Claimable ==
  {m \in Messages : /\ status[m] \in Open
                    /\ m \in passDue
                    /\ lease[m] = "free" \/ (m \in passStale /\ lease[m] = "stale")
                    /\ passPeer \in {AllPeers, RecipientOf[m]}}

Before(a, b) == \E i, j \in DOMAIN rowids : i < j /\ rowids[i] = a /\ rowids[j] = b

\* ORDER BY next_attempt_at_ms, rowid.  Rows never rescheduled keep their
\* insertion order; where a rescheduled row falls depends on its backoff.
\* The per-peer claim orders by rowid alone.
ClaimedFirst(a, b) ==
  Before(a, b) /\ (passPeer = AllPeers => a \notin retried /\ b \notin retried)

\* A claim takes the first rows in order, as many as the limit allows.
IsClaim(q, limit) ==
  /\ \A i, j \in DOMAIN q : i < j => q[i] # q[j] /\ ~ClaimedFirst(q[j], q[i])
  /\ \A m \in Claimable \ Range(q) :
        /\ Len(q) = limit
        /\ \A i \in DOMAIN q : ~ClaimedFirst(m, q[i])

ClaimSize ==
  LET left == PassLimit - attempted
  IN IF passPeer # AllPeers THEN 1
     ELSE IF BatchSize < left THEN BatchSize ELSE left

Drained == \A m \in Messages : task[m] = "none"

\* Mutant: the next batch is claimed without waiting for the previous one.
ClaimRows_NoDrain ==
  /\ pc = "claim"
  /\ attempted < PassLimit
  /\ \E n \in 1..ClaimSize : \E q \in [1..n -> Claimable] :
       /\ IsClaim(q, ClaimSize)
       /\ batch' = q
       /\ lease' = [m \in Messages |-> IF m \in Range(q) THEN "live" ELSE lease[m]]
       /\ passStale' = passStale \ Range(q)
  /\ scheduled' = {}
  /\ pc' = "schedule"
  /\ UNCHANGED <<canon, envelope, dmOutbox, status, due, rowids, retried,
                 passPeer, passDue, attempted, task, obsolete, authorised,
                 envExpired, wires, faults, recipient>>

\* claim_n_due_outbox / claim_due_outbox_for_peer, after the previous batch
\* has been awaited.
ClaimRows ==
  /\ pc = "claim" /\ Drained
  /\ attempted < PassLimit
  /\ \E n \in 1..ClaimSize : \E q \in [1..n -> Claimable] :
       /\ IsClaim(q, ClaimSize)
       /\ batch' = q
       /\ lease' = [m \in Messages |-> IF m \in Range(q) THEN "live" ELSE lease[m]]
       /\ passStale' = passStale \ Range(q)
  /\ scheduled' = {}
  /\ pc' = "schedule"
  /\ UNCHANGED <<canon, envelope, dmOutbox, status, due, rowids, retried,
                 passPeer, passDue, attempted, task, obsolete, authorised,
                 envExpired, wires, faults, recipient>>

\* run_once returns: its local variables are gone.
LeavePass ==
  /\ pc' = "idle" /\ passPeer' = AllPeers /\ passDue' = {} /\ passStale' = {}
  /\ attempted' = 0 /\ batch' = <<>> /\ scheduled' = {}

\* No budget left, or nothing claimable.
EndPass ==
  /\ pc = "claim" /\ Drained
  /\ attempted >= PassLimit \/ Claimable = {}
  /\ LeavePass
  /\ UNCHANGED <<sender, task, obsolete, authorised, envExpired, wires, faults,
                 recipient>>

\* Mutant: an attempt does not count against the budget of the pass.
ScheduleRow_Uncounted ==
  /\ pc = "schedule"
  /\ task' = [task EXCEPT ![Head(batch)] = "queued"]
  /\ batch' = Tail(batch)
  /\ pc' = IF Tail(batch) = <<>> THEN "claim" ELSE "schedule"
  /\ UNCHANGED <<sender, passPeer, passDue, passStale, attempted, scheduled,
                 obsolete, authorised, envExpired, wires, faults, recipient>>

\* One claimed row: the first for its peer gets a task, any other has its
\* lease released and stays due.
ScheduleRow ==
  /\ pc = "schedule"
  /\ LET m == Head(batch)
         p == RecipientOf[m]
     IN \/ /\ p \notin scheduled /\ attempted < PassLimit
           /\ scheduled' = scheduled \cup {p}
           /\ attempted' = attempted + 1
           /\ task' = [task EXCEPT ![m] = "queued"]
           /\ UNCHANGED lease
        \/ /\ p \in scheduled \/ attempted >= PassLimit
           /\ lease' = [lease EXCEPT ![m] = "free"]
           /\ UNCHANGED <<scheduled, attempted, task>>
  /\ batch' = Tail(batch)
  /\ pc' = IF Tail(batch) = <<>> THEN "claim" ELSE "schedule"
  /\ UNCHANGED <<canon, envelope, dmOutbox, status, due, rowids, retried,
                 passPeer, passDue, passStale, obsolete, authorised, envExpired,
                 wires, faults, recipient>>

Running == {m \in Messages : task[m] \notin {"none", "queued"}}

\* The task checks the contact policy and looks the envelope up.  In a
\* run_once pass it first takes a slot of the semaphore and its peer's permit.
StartAttempt(m) ==
  /\ task[m] = "queued"
  /\ passPeer = AllPeers =>
       /\ Cardinality(Running) < MaxConcurrent
       /\ \A k \in Running : RecipientOf[k] # RecipientOf[m]
  /\ task' = [task EXCEPT ![m] =
       IF RecipientOf[m] \notin authorised THEN "unauth"
       ELSE IF m \notin dmOutbox THEN "retry"
       ELSE IF m \in envExpired THEN "expired" ELSE "sending"]
  /\ UNCHANGED <<sender, passVars, obsolete, authorised, envExpired, wires, faults,
                 recipient>>

\* send_deliver returns once the bytes are written and the stream finished.
TransportDeliver(m) ==
  /\ task[m] = "sending"
  /\ task' = [task EXCEPT ![m] = "ok"]
  /\ deliverNet' = deliverNet \cup {m}
  /\ UNCHANGED <<sender, passVars, obsolete, authorised, envExpired, ackNet, faults,
                 recipient>>

\* A connection error, or delivery_timeout; the bytes may have left already.
TransportFails(m) ==
  /\ task[m] = "sending"
  /\ task' = [task EXCEPT ![m] = "retry"]
  /\ deliverNet' \in {deliverNet, deliverNet \cup {m}}
  /\ UNCHANGED <<sender, passVars, obsolete, authorised, envExpired, ackNet, faults,
                 recipient>>

\* Mutant: a status value the other statements do not know.
FinishedStatus_Failed(outcome) == IF outcome = "ok" THEN "Sent" ELSE "Failed"

\* Mutant: a transport failure is taken for a terminal one.
FinishedStatus_GivesUp(outcome) == IF outcome = "ok" THEN "Sent" ELSE "Expired"

\* finish_outbox_attempt classifies the error text; only "expired" of the
\* texts this transport produces is a terminal one.
FinishedStatus(outcome) ==
  CASE outcome = "ok"      -> "Sent"
    [] outcome = "expired" -> "Expired"
    [] OTHER               -> "Pending"

\* UPDATE outbox ... WHERE lease_owner = owner AND status != Acked.
FinishOutboxAttempt(m) ==
  IF lease[m] # "free" /\ status[m] # "Acked"
  THEN /\ status' = [status EXCEPT ![m] = FinishedStatus(task[m])]
       /\ due' = due \ {m}
       /\ passDue' = passDue \ {m}
       /\ retried' = retried \cup {m}
       /\ lease' = [lease EXCEPT ![m] = "free"]
  ELSE UNCHANGED <<status, due, passDue, retried, lease>>

\* The end of a task: an attempt from an older generation only gives its
\* lease back.
FinishTask(m) ==
  /\ task[m] \in Outcomes
  /\ \/ /\ m \notin obsolete
        /\ FinishOutboxAttempt(m)
     \/ /\ m \in obsolete
        /\ lease' = [lease EXCEPT ![m] = "free"]
        /\ UNCHANGED <<status, due, passDue, retried>>
  /\ task' = [task EXCEPT ![m] = "none"]
  /\ obsolete' = obsolete \ {m}
  /\ UNCHANGED <<canon, envelope, dmOutbox, rowids, pc, passPeer, passStale,
                 attempted, batch, scheduled, authorised, envExpired, wires,
                 faults, recipient>>

\* A storage error abandons the pass (repair, claim) or loses the record of
\* an attempt, whose lease then has to lapse.
StorageError ==
  /\ faults < MaxFaults
  /\ faults' = faults + 1
  /\ \/ /\ pc = "repair" \/ (pc = "claim" /\ Drained)
        /\ LeavePass
        /\ UNCHANGED <<task, obsolete>>
     \/ /\ \E m \in Messages : /\ task[m] \in Outcomes
                                /\ task' = [task EXCEPT ![m] = "none"]
                                /\ obsolete' = obsolete \ {m}
        /\ UNCHANGED passVars
  /\ UNCHANGED <<sender, authorised, envExpired, wires, recipient>>

\* OutboxRecoveryHandle::network_changed bumps the generation.
NetworkChanged ==
  /\ "netchange" \in Events
  /\ obsolete' = obsolete \cup {m \in Messages : task[m] # "none"}
  /\ UNCHANGED <<sender, passVars, task, authorised, envExpired, wires, faults,
                 recipient>>

\* The process dies and is started again: memory is lost, and opening the
\* database recovers the outbox.
SenderCrash ==
  /\ faults < MaxFaults
  /\ faults' = faults + 1
  /\ RecoverCrashState
  /\ LeavePass
  /\ task' = [m \in Messages |-> "none"]
  /\ obsolete' = {}
  /\ UNCHANGED <<canon, envelope, dmOutbox, authorised, envExpired, wires,
                 recipient>>
-----------------------------------------------------------------------------
(***************************************************************************)
(* Acknowledgements, deadlines and the environment.                        *)
(***************************************************************************)
\* process_outgoing_ack: one transaction; a duplicate or an acknowledgement
\* for an unknown message changes nothing.
ProcessOutgoingAck(m) ==
  /\ m \in ackNet
  /\ ackNet' = ackNet \ {m}
  /\ IF canon[m] = "unacked" /\ m \in dmOutbox
     THEN /\ canon' = [canon EXCEPT ![m] = "acked"]
          /\ dmOutbox' = dmOutbox \ {m}
          /\ status' = [status EXCEPT ![m] = IF @ = "NoRow" THEN @ ELSE "Acked"]
          /\ lease' = [lease EXCEPT ![m] = "free"]
          /\ due' = due \ {m}
     ELSE UNCHANGED <<canon, dmOutbox, status, lease, due>>
  /\ UNCHANGED <<envelope, rowids, retried, worker, authorised, envExpired,
                 deliverNet, faults, recipient>>

BackoffElapses(m) ==
  /\ status[m] \in Open /\ m \notin due
  /\ due' = due \cup {m}
  /\ UNCHANGED <<canon, envelope, dmOutbox, status, lease, rowids, retried,
                 worker, authorised, envExpired, wires, faults, recipient>>

LeaseElapses(m) ==
  /\ lease[m] = "live"
  /\ lease' = [lease EXCEPT ![m] = "stale"]
  /\ UNCHANGED <<canon, envelope, dmOutbox, status, due, rowids, retried, worker,
                 authorised, envExpired, wires, faults, recipient>>

EnvelopeExpires(m) ==
  /\ "expire" \in Events
  /\ m \notin envExpired
  /\ envExpired' = envExpired \cup {m}
  /\ UNCHANGED <<sender, worker, authorised, wires, faults, recipient>>

\* The user removes or restores the contact.
ChangeAuthorisation(p) ==
  /\ "revoke" \in Events
  /\ authorised' = IF p \in authorised THEN authorised \ {p} ELSE authorised \cup {p}
  /\ UNCHANGED <<sender, worker, envExpired, wires, faults, recipient>>

\* A connection dies with bytes still in it.
Lose(m) ==
  /\ m \in deliverNet \cup ackNet
  /\ \/ deliverNet' = deliverNet \ {m} /\ UNCHANGED ackNet
     \/ ackNet' = ackNet \ {m} /\ UNCHANGED deliverNet
  /\ UNCHANGED <<sender, worker, authorised, envExpired, faults, recipient>>
-----------------------------------------------------------------------------
(***************************************************************************)
(* Recipients.                                                             *)
(***************************************************************************)
\* handle_request (Deliver): a first delivery and a replay alike go to the
\* event channel; a full channel rejects the request.
ReceiveDeliver(m) ==
  LET p == RecipientOf[m]
  IN /\ m \in deliverNet
     /\ deliverNet' = deliverNet \ {m}
     /\ inboxQueue' = IF Len(inboxQueue[p]) < InboxCapacity
                      THEN [inboxQueue EXCEPT ![p] = Append(@, m)]
                      ELSE inboxQueue
     /\ UNCHANGED <<sender, worker, authorised, envExpired, ackNet, faults, mailbox,
                    accepted, losses, handling, fresh, shown>>

\* The next event of p's inbox is handled.
NextEnvelope(p) ==
  /\ handling[p] = NoMsg /\ inboxQueue[p] # <<>>
  /\ inboxQueue' = [inboxQueue EXCEPT ![p] = Tail(@)]
  /\ UNCHANGED <<sender, worker, authorised, envExpired, wires, shown>>

\* Mutant: the mailbox is not consulted for an earlier acceptance.
AcceptEnvelope_NoDedup(p) ==
  /\ NextEnvelope(p)
  /\ mailbox' = mailbox \cup {Head(inboxQueue[p])}
  /\ accepted' = accepted \cup {Head(inboxQueue[p])}
  /\ fresh' = [fresh EXCEPT ![p] = TRUE]
  /\ handling' = [handling EXCEPT ![p] = Head(inboxQueue[p])]
  /\ UNCHANGED <<losses, faults>>

\* Mutant: the lifetime of an envelope is not checked on arrival.
AcceptEnvelope_AnyAge(p) ==
  /\ NextEnvelope(p)
  /\ mailbox' = mailbox \cup {Head(inboxQueue[p])}
  /\ accepted' = accepted \cup {Head(inboxQueue[p])}
  /\ fresh' = [fresh EXCEPT ![p] = Head(inboxQueue[p]) \notin mailbox]
  /\ handling' = [handling EXCEPT ![p] = Head(inboxQueue[p])]
  /\ UNCHANGED <<losses, faults>>

\* EnvelopeReceived: validate, deduplicate against the mailbox file, save it.
AcceptEnvelope(p) ==
  /\ NextEnvelope(p)
  /\ LET m == Head(inboxQueue[p])
     IN IF m \in envExpired
        THEN UNCHANGED <<mailbox, accepted, handling, fresh>>
        ELSE /\ mailbox' = mailbox \cup {m}
             /\ accepted' = accepted \cup {m}
             /\ fresh' = [fresh EXCEPT ![p] = m \notin mailbox]
             /\ handling' = [handling EXCEPT ![p] = m]
  /\ UNCHANGED <<losses, faults>>

\* The mailbox file cannot be read, parsed or has another version: the error is
\* swallowed, and an empty mailbox accepts the envelope and is saved over it.
LoadFails(p) ==
  /\ faults < MaxFaults
  /\ faults' = faults + 1
  /\ NextEnvelope(p)
  /\ LET m == Head(inboxQueue[p])
     IN /\ m \notin envExpired
        /\ mailbox' = {k \in mailbox : RecipientOf[k] # p} \cup {m}
        /\ accepted' = accepted \cup {m}
        /\ handling' = [handling EXCEPT ![p] = m]
  /\ fresh' = [fresh EXCEPT ![p] = TRUE]
  /\ losses' = [losses EXCEPT ![p] = @ + 1]

\* Mutant: the envelope is acknowledged although it could not be saved.
SaveFails_Acks(p) ==
  /\ faults < MaxFaults
  /\ faults' = faults + 1
  /\ NextEnvelope(p)
  /\ handling' = [handling EXCEPT ![p] = Head(inboxQueue[p])]
  /\ UNCHANGED <<mailbox, accepted, losses, fresh>>

\* The mailbox file cannot be written: no projection, no acknowledgement.
SaveFails(p) ==
  /\ faults < MaxFaults
  /\ faults' = faults + 1
  /\ NextEnvelope(p)
  /\ UNCHANGED <<mailbox, accepted, losses, handling, fresh>>

\* A new message becomes a bubble; new or replayed, it is acknowledged.
ProjectAndAck(p) ==
  /\ handling[p] # NoMsg
  /\ shown' = IF fresh[p] THEN [shown EXCEPT ![handling[p]] = @ + 1] ELSE shown
  /\ ackNet' = ackNet \cup {handling[p]}
  /\ handling' = [handling EXCEPT ![p] = NoMsg]
  /\ fresh' = [fresh EXCEPT ![p] = FALSE]
  /\ UNCHANGED <<sender, worker, authorised, envExpired, deliverNet, faults,
                 inboxQueue, mailbox, accepted, losses>>

RecipientCrash(p) ==
  /\ faults < MaxFaults
  /\ faults' = faults + 1
  /\ inboxQueue' = [inboxQueue EXCEPT ![p] = <<>>]
  /\ handling' = [handling EXCEPT ![p] = NoMsg]
  /\ fresh' = [fresh EXCEPT ![p] = FALSE]
  /\ UNCHANGED <<sender, worker, authorised, envExpired, wires, mailbox, accepted,
                 losses, shown>>
-----------------------------------------------------------------------------
Worker ==
  \/ \E p \in Peers \cup {AllPeers} : BeginPass(p)
  \/ RepairProjections \/ RecoverStaleLeases
  \/ ClaimRows \/ ScheduleRow \/ EndPass
  \/ \E m \in Messages : \/ StartAttempt(m) \/ TransportDeliver(m)
                         \/ TransportFails(m) \/ FinishTask(m)

Environment ==
  \/ \E m \in Messages : \/ QueueOutgoingDm(m) \/ ProcessOutgoingAck(m)
                         \/ BackoffElapses(m) \/ LeaseElapses(m)
                         \/ EnvelopeExpires(m) \/ Lose(m)
  \/ \E p \in Peers : DeleteChatHistory(p) \/ ChangeAuthorisation(p)
  \/ StorageOpen \/ NetworkChanged \/ StorageError \/ SenderCrash

Recipient ==
  \/ \E m \in Messages : ReceiveDeliver(m)
  \/ \E p \in Peers : \/ AcceptEnvelope(p) \/ LoadFails(p) \/ SaveFails(p)
                      \/ ProjectAndAck(p) \/ RecipientCrash(p)

Next == Worker \/ Environment \/ Recipient

Spec == Init /\ [][Next]_vars

(***************************************************************************)
(* Fairness.  Tasks and handlers that can run do run (the tokio runtime),  *)
(* and deadlines pass.  The network is unreliable but not forever: an      *)
(* envelope sent again and again is eventually written, and one that keeps *)
(* arriving eventually finds room in the event channel.                    *)
(***************************************************************************)
HasRoom(m) == Len(inboxQueue[RecipientOf[m]]) < InboxCapacity

Fairness ==
  /\ WF_vars(BeginPass(AllPeers))
  /\ WF_vars(RepairProjections) /\ WF_vars(RecoverStaleLeases)
  /\ WF_vars(ClaimRows) /\ WF_vars(ScheduleRow) /\ WF_vars(EndPass)
  /\ \A m \in Messages :
       /\ WF_vars(StartAttempt(m)) /\ WF_vars(FinishTask(m))
       /\ WF_vars(TransportDeliver(m) \/ TransportFails(m))
       /\ SF_vars(TransportDeliver(m))
       /\ WF_vars(BackoffElapses(m)) /\ WF_vars(LeaseElapses(m))
       /\ SF_vars(ReceiveDeliver(m) /\ HasRoom(m))
       /\ SF_vars(ProcessOutgoingAck(m))
  /\ \A p \in Peers : WF_vars(AcceptEnvelope(p)) /\ WF_vars(ProjectAndAck(p))

FairSpec == Spec /\ Fairness
-----------------------------------------------------------------------------
(***************************************************************************)
(* Properties.                                                             *)
(***************************************************************************)
TypeOK ==
  /\ canon \in [Messages -> {"absent", "unacked", "acked", "deleted"}]
  /\ envelope \subseteq Messages
  /\ dmOutbox \subseteq Messages
  /\ status \in [Messages -> Statuses]
  /\ due \subseteq Messages
  /\ lease \in [Messages -> {"free", "live", "stale"}]
  /\ rowids \in Seq(Messages)
  /\ retried \subseteq Messages
  /\ pc \in {"idle", "repair", "recover", "claim", "schedule"}
  /\ passPeer \in Peers \cup {AllPeers}
  /\ passDue \subseteq Messages
  /\ passStale \subseteq Messages
  /\ attempted \in Nat
  /\ batch \in Seq(Messages)
  /\ scheduled \subseteq Peers
  /\ task \in [Messages -> Phases]
  /\ obsolete \subseteq Messages
  /\ authorised \subseteq Peers
  /\ envExpired \subseteq Messages
  /\ deliverNet \subseteq Messages
  /\ ackNet \subseteq Messages
  /\ faults \in Nat
  /\ inboxQueue \in [Peers -> Seq(Messages)]
  /\ mailbox \subseteq Messages
  /\ accepted \subseteq Messages
  /\ losses \in [Peers -> Nat]
  /\ handling \in [Peers -> Messages \cup {NoMsg}]
  /\ fresh \in [Peers -> BOOLEAN]
  /\ shown \in [Messages -> Nat]

\* "Delivered" is shown only for a message its recipient has durably saved,
\* whatever was lost, replayed or crashed on the way
\* (process_outgoing_ack_inner; EnvelopeReceived saves before it acks).
AckedOnlyIfAccepted ==
  \A m \in Messages : canon[m] = "acked" \/ m \in ackNet => m \in accepted

\* A message creates at most one bubble for every mailbox its recipient has
\* had, however often it is resent and wherever the recipient crashes: only a
\* mailbox file that could not be read, whose dedup records are lost with it,
\* makes a resent message appear again, and once (accept_incoming_with_status).
PresentedOncePerMailbox ==
  \A m \in Messages : shown[m] <= 1 + losses[RecipientOf[m]]

\* At most one delivery is in flight for a recipient, over both kinds of
\* pass and across batches (scheduled_peers, PeerOrderGuard, batch drain).
OneInFlightPerPeer ==
  \A m, k \in Running : RecipientOf[m] = RecipientOf[k] => m = k

\* An unacknowledged message never drops out of retrying: its row is missing
\* only until the next repair, and is given up only once the envelope's
\* lifetime is over -- never through a race between an acknowledgement, a
\* late completion, a crash recovery and a revocation.  A legacy row without
\* an envelope is not repaired (conversation.rs:714): it has nothing to send.
UnackedStaysRetryable ==
  \A m \in Messages : canon[m] = "unacked" =>
     /\ status[m] # "Acked"
     /\ status[m] = "Expired" => m \in envExpired
     /\ m \in envelope /\ pc \in {"recover", "claim", "schedule"}
          => status[m] # "NoRow" /\ m \in dmOutbox

\* A late completion, a crash recovery or a reopened database never revives
\* an acknowledged or an expired row; only a late acknowledgement still turns
\* Expired into Acked (finish_outbox_attempt, recover_crash_state).
TerminalRowsStayTerminal ==
  [][\A m \in Messages :
        /\ status[m] = "Acked" => status'[m] = "Acked"
        /\ status[m] = "Expired" => status'[m] = "Expired"
                                      \/ canon'[m] = "acked"]_vars

\* A row that is being attempted is not claimed a second time, even when its
\* lease lapses or is cleared under the running attempt.
NoClaimWhileRunning ==
  [][\A m \in Running : task'[m] # "queued" /\ (m \in Range(batch') => m \in Range(batch))]_vars

\* Every pass ends: rows given back because of a path change or a busy peer
\* cannot keep the claim loop going (the budget total_attempted).
PassTerminates == pc # "idle" ~> pc = "idle"

\* A queued message is eventually acknowledged unless it is deleted, its
\* lifetime ends or its recipient is removed from the contacts, or it is a
\* legacy row that has no envelope to send.
EventuallyAcked ==
  \A m \in Messages :
    canon[m] = "unacked" ~> \/ canon[m] # "unacked"
                            \/ m \in envExpired
                            \/ RecipientOf[m] \notin authorised
                            \/ m \notin envelope
-----------------------------------------------------------------------------
(***************************************************************************)
(* What the two users can rely on.                                         *)
(***************************************************************************)
Retired == {m \in Messages : status[m] \in {"Acked", "Expired"}}

Promise == INSTANCE DirectMessages
             WITH sent <- canon, retired <- Retired, outdated <- envExpired,
                  stored <- accepted, bubbles <- shown, replaced <- losses

\* However passes, late completions, duplicates, deletions, crashes and restarts
\* interleave, delivery keeps the promise of DirectMessages: nothing is stored
\* that was not sent, a message is shown after it was stored and once for every
\* mailbox its recipient has had, the sender learns of it only once it was stored,
\* and retrying stops for good with that acknowledgement or the end of the
\* message's lifetime, and for no other reason.
KeepsPromise == Promise!Spec
=============================================================================
