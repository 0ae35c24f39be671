------------------------ MODULE OutboxDeliveryProofs ------------------------
(***************************************************************************)
(* Theorems about OutboxDelivery, for every set of messages and recipients *)
(* and every limit.                                                        *)
(***************************************************************************)
EXTENDS OutboxDelivery, TLAPS

\* The claim loop only reaches its scheduling step with rows in hand.
TypeInv == TypeOK /\ (pc = "schedule" => batch # <<>>)

\* What a recipient is handling it has saved; what its mailbox does not hold,
\* and what is new to it, has been shown at most once for every mailbox lost.
ReceiptInv ==
  /\ AckedOnlyIfAccepted
  /\ \A p \in Peers : \A i \in 1..Len(inboxQueue[p]) : RecipientOf[inboxQueue[p][i]] = p
  /\ \A p \in Peers : handling[p] # NoMsg =>
        handling[p] \in accepted \cap mailbox /\ RecipientOf[handling[p]] = p
  /\ \A m \in Messages : m \notin mailbox => shown[m] <= losses[RecipientOf[m]]
  /\ \A p \in Peers : fresh[p] => handling[p] # NoMsg /\ shown[handling[p]] <= losses[p]
  /\ PresentedOncePerMailbox

\* Only an envelope past its lifetime makes an attempt end as "expired".
RetryInv ==
  /\ UnackedStaysRetryable
  /\ \A m \in Messages : task[m] = "expired" => m \in envExpired

\* A row that is absent or terminal holds no lease, so that no completion can
\* write to it; an unsent message has no row.
RowInv ==
  \A m \in Messages : /\ canon[m] = "absent" => status[m] = "NoRow"
                      /\ status[m] \notin Open => lease[m] = "free"

\* The rows of a batch are distinct and have no task yet; between passes and
\* before the first claim no task exists; a pass for one peer holds one row.
TaskInv ==
  /\ \A i, j \in 1..Len(batch) : i # j => batch[i] # batch[j]
  /\ \A i \in 1..Len(batch) : task[batch[i]] = "none"
  /\ pc \in {"idle", "repair", "recover"} => Drained
  /\ pc # "schedule" => batch = <<>>
  /\ passPeer # AllPeers =>
       /\ Len(batch) <= 1
       /\ batch # <<>> => Drained
       /\ \A m, k \in Messages : task[m] # "none" /\ task[k] # "none" => m = k
  /\ OneInFlightPerPeer

LEMMA TypeInit == Init => TypeInv
  BY OutboxAssumption DEF Init, TypeInv, TypeOK, Statuses, Phases

LEMMA TypeSender == TypeInv /\ Environment => TypeInv'
<1> SUFFICES ASSUME TypeInv, Environment PROVE TypeInv'
  OBVIOUS
<1> USE OutboxAssumption DEF TypeInv, TypeOK, Statuses, Phases, Open, Outcomes
<1>1. ASSUME NEW m \in Messages, QueueOutgoingDm(m) PROVE TypeInv'
  BY <1>1, SMTT(30) DEF QueueOutgoingDm, wires, recipient
<1>2. ASSUME NEW m \in Messages, ProcessOutgoingAck(m) PROVE TypeInv'
  BY <1>2, ZenonT(30) DEF ProcessOutgoingAck, worker, passVars, recipient
<1>3. ASSUME NEW m \in Messages, BackoffElapses(m) PROVE TypeInv'
  BY <1>3 DEF BackoffElapses, worker, passVars, wires, recipient
<1>4. ASSUME NEW m \in Messages, LeaseElapses(m) PROVE TypeInv'
  BY <1>4 DEF LeaseElapses, worker, passVars, wires, recipient
<1>5. ASSUME NEW m \in Messages, EnvelopeExpires(m) PROVE TypeInv'
  BY <1>5 DEF EnvelopeExpires, sender, rows, worker, passVars, wires, recipient
<1>6. ASSUME NEW m \in Messages, Lose(m) PROVE TypeInv'
  BY <1>6 DEF Lose, sender, rows, worker, passVars, recipient
<1>7. ASSUME NEW p \in Peers, DeleteChatHistory(p) PROVE TypeInv'
  BY <1>7 DEF DeleteChatHistory, rows, worker, passVars, wires, recipient
<1>8. ASSUME NEW p \in Peers, ChangeAuthorisation(p) PROVE TypeInv'
  BY <1>8 DEF ChangeAuthorisation, sender, rows, worker, passVars, wires, recipient
<1>9. CASE StorageOpen
  BY <1>9 DEF StorageOpen, RecoverCrashState, wires, recipient
<1>10. CASE NetworkChanged
  BY <1>10 DEF NetworkChanged, sender, rows, passVars, wires, recipient
<1>11. CASE StorageError
  <2>1. faults' \in Nat /\ UNCHANGED <<sender, authorised, envExpired, wires, recipient>>
    BY <1>11 DEF StorageError
  <2>2. CASE LeavePass /\ UNCHANGED <<task, obsolete>>
    BY <2>1, <2>2 DEF LeavePass, sender, rows, wires, recipient
  <2>3. CASE /\ \E k \in Messages : /\ task[k] \in Outcomes
                                   /\ task' = [task EXCEPT ![k] = "none"]
                                   /\ obsolete' = obsolete \ {k}
             /\ UNCHANGED passVars
    <3>1. task' \in [Messages -> Phases] /\ obsolete' \subseteq Messages
      BY <2>3
    <3> QED BY <2>1, <2>3, <3>1 DEF passVars, sender, rows, wires, recipient
  <2> QED BY <1>11, <2>2, <2>3 DEF StorageError
<1>12. CASE SenderCrash
  BY <1>12 DEF SenderCrash, RecoverCrashState, LeavePass, wires, recipient
<1> QED BY <1>1, <1>2, <1>3, <1>4, <1>5, <1>6, <1>7, <1>8, <1>9, <1>10, <1>11, <1>12 DEF Environment

LEMMA TypeWorker == TypeInv /\ Worker => TypeInv'
<1> SUFFICES ASSUME TypeInv, Worker PROVE TypeInv'
  OBVIOUS
<1> USE OutboxAssumption DEF TypeInv, TypeOK, Statuses, Phases, Open, Outcomes
<1>1. ASSUME NEW p \in Peers \cup {AllPeers}, BeginPass(p) PROVE TypeInv'
  BY <1>1 DEF BeginPass, sender, rows, wires, recipient
<1>2. CASE RepairProjections
  <2>1. rowids' \in Seq(Messages)
    BY <1>2 DEF RepairProjections
  <2> QED BY <1>2, <2>1 DEF RepairProjections, wires, recipient
<1>3. CASE RecoverStaleLeases
  BY <1>3 DEF RecoverStaleLeases, wires, recipient
<1>4. CASE ClaimRows
  <2>1. ClaimSize \in Int
    BY DEF ClaimSize, PassLimit
  <2>2. batch' \in Seq(Messages) /\ batch' # <<>>
    BY <1>4, <2>1 DEF ClaimRows, Claimable
  <2>3. lease' \in [Messages -> {"free", "live", "stale"}] /\ passStale' \subseteq Messages
    BY <1>4 DEF ClaimRows
  <2> QED BY <1>4, <2>2, <2>3 DEF ClaimRows, wires, recipient
<1>5. CASE ScheduleRow
  <2>1. Head(batch) \in Messages /\ Tail(batch) \in Seq(Messages)
    BY <1>5 DEF ScheduleRow
  <2>2. RecipientOf[Head(batch)] \in Peers
    BY <2>1
  <2>3. /\ scheduled' \subseteq Peers /\ attempted' \in Nat
        /\ task' \in [Messages -> Phases]
        /\ lease' \in [Messages -> {"free", "live", "stale"}]
    <3> DEFINE k == Head(batch)
    <3>1. \/ /\ scheduled' = scheduled \cup {RecipientOf[k]}
             /\ attempted' = attempted + 1
             /\ task' = [task EXCEPT ![k] = "queued"]
             /\ UNCHANGED lease
          \/ /\ lease' = [lease EXCEPT ![k] = "free"]
             /\ UNCHANGED <<scheduled, attempted, task>>
      BY <1>5 DEF ScheduleRow
    <3> HIDE DEF k
    <3>2. k \in Messages /\ RecipientOf[k] \in Peers
      BY <2>1, <2>2 DEF k
    <3>3. task' \in [Messages -> Phases]
      BY <3>1, <3>2
    <3>4. lease' \in [Messages -> {"free", "live", "stale"}]
      BY <3>1, <3>2
    <3> QED BY <3>1, <3>2, <3>3, <3>4
  <2>4. batch' = Tail(batch) /\ pc' = IF batch' = <<>> THEN "claim" ELSE "schedule"
    BY <1>5 DEF ScheduleRow
  <2> QED BY <1>5, <2>1, <2>3, <2>4 DEF ScheduleRow, wires, recipient
<1>6. CASE EndPass
  BY <1>6 DEF EndPass, LeavePass, sender, rows, wires, recipient
<1>7. ASSUME NEW m \in Messages, StartAttempt(m) PROVE TypeInv'
  BY <1>7 DEF StartAttempt, sender, rows, passVars, wires, recipient
<1>8. ASSUME NEW m \in Messages, TransportDeliver(m) PROVE TypeInv'
  BY <1>8 DEF TransportDeliver, sender, rows, passVars, recipient
<1>9. ASSUME NEW m \in Messages, TransportFails(m) PROVE TypeInv'
  BY <1>9 DEF TransportFails, sender, rows, passVars, recipient
<1>10. ASSUME NEW m \in Messages, FinishTask(m) PROVE TypeInv'
  <2>1. /\ status' \in [Messages -> Statuses] /\ due' \subseteq Messages
        /\ passDue' \subseteq Messages /\ retried' \subseteq Messages
        /\ lease' \in [Messages -> {"free", "live", "stale"}]
    <3>1. FinishedStatus(task[m]) \in Statuses
      BY DEF FinishedStatus
    <3>2. CASE m \notin obsolete
      <4>1. FinishOutboxAttempt(m)
        BY <1>10, <3>2 DEF FinishTask
      <4>2. CASE lease[m] # "free" /\ status[m] # "Acked"
        <5>1. status' \in [Messages -> Statuses]
          BY <3>1, <4>1, <4>2 DEF FinishOutboxAttempt
        <5>2. lease' \in [Messages -> {"free", "live", "stale"}]
          BY <4>1, <4>2 DEF FinishOutboxAttempt
        <5>3. /\ due' \subseteq Messages /\ passDue' \subseteq Messages
              /\ retried' \subseteq Messages
          BY <4>1, <4>2 DEF FinishOutboxAttempt
        <5> QED BY <5>1, <5>2, <5>3
      <4>3. CASE ~(lease[m] # "free" /\ status[m] # "Acked")
        BY <4>1, <4>3 DEF FinishOutboxAttempt
      <4> QED BY <4>2, <4>3
    <3>3. CASE m \in obsolete
      <4>1. /\ lease' = [lease EXCEPT ![m] = "free"]
            /\ UNCHANGED <<status, due, passDue, retried>>
        BY <1>10, <3>3 DEF FinishTask
      <4> QED BY <4>1
    <3> QED BY <3>2, <3>3
  <2>2. task' \in [Messages -> Phases] /\ obsolete' \subseteq Messages
    BY <1>10 DEF FinishTask
  <2> QED BY <1>10, <2>1, <2>2 DEF FinishTask, wires, recipient
<1> QED BY <1>1, <1>2, <1>3, <1>4, <1>5, <1>6, <1>7, <1>8, <1>9, <1>10 DEF Worker

LEMMA TypeRecipient == TypeInv /\ Recipient => TypeInv'
<1> SUFFICES ASSUME TypeInv, Recipient PROVE TypeInv'
  OBVIOUS
<1> USE OutboxAssumption DEF TypeInv, TypeOK, Statuses, Phases
<1>1. ASSUME NEW m \in Messages, ReceiveDeliver(m) PROVE TypeInv'
  <2>1. RecipientOf[m] \in Peers /\ inboxQueue[RecipientOf[m]] \in Seq(Messages)
    OBVIOUS
  <2>2. inboxQueue' \in [Peers -> Seq(Messages)]
    BY <1>1, <2>1 DEF ReceiveDeliver
  <2> QED BY <1>1, <2>2 DEF ReceiveDeliver, sender, rows, worker, passVars
<1>2. ASSUME NEW p \in Peers, NextEnvelope(p)
      PROVE  /\ Head(inboxQueue[p]) \in Messages
             /\ inboxQueue' \in [Peers -> Seq(Messages)]
             /\ UNCHANGED <<sender, worker, authorised, envExpired, wires, shown>>
  <2>1. inboxQueue[p] \in Seq(Messages) /\ inboxQueue[p] # <<>>
    BY <1>2 DEF NextEnvelope
  <2>2. Head(inboxQueue[p]) \in Messages /\ Tail(inboxQueue[p]) \in Seq(Messages)
    BY <2>1
  <2> QED BY <1>2, <2>2 DEF NextEnvelope
<1>3. ASSUME NEW p \in Peers, AcceptEnvelope(p) \/ LoadFails(p) \/ SaveFails(p) PROVE TypeInv'
  <2> DEFINE m == Head(inboxQueue[p])
  <2>1. NextEnvelope(p)
    BY <1>3 DEF AcceptEnvelope, LoadFails, SaveFails
  <2>2. m \in Messages
    BY <1>2, <2>1
  <2>3. fresh' \in [Peers -> BOOLEAN]
    BY <1>3, Zenon DEF AcceptEnvelope, LoadFails, SaveFails
  <2>4. /\ mailbox' \subseteq mailbox \cup {m} /\ accepted' \subseteq accepted \cup {m}
        /\ handling' = handling \/ handling' = [handling EXCEPT ![p] = m]
    BY <1>3 DEF AcceptEnvelope, LoadFails, SaveFails
  <2>5. /\ losses' = losses \/ losses' = [losses EXCEPT ![p] = @ + 1]
        /\ faults' = faults \/ faults' = faults + 1
    BY <1>3 DEF AcceptEnvelope, LoadFails, SaveFails
  <2> HIDE DEF m
  <2>6. mailbox' \subseteq Messages /\ accepted' \subseteq Messages
    BY <2>2, <2>4
  <2>7. handling' \in [Peers -> Messages \cup {NoMsg}]
    BY <2>2, <2>4
  <2>8. losses' \in [Peers -> Nat]
    <3>1. losses \in [Peers -> Nat] /\ losses[p] + 1 \in Nat
      OBVIOUS
    <3> HIDE DEF TypeInv, TypeOK
    <3> QED BY <2>5, <3>1
  <2>9. faults' \in Nat
    BY <2>5
  <2> QED BY <1>2, <2>1, <2>3, <2>6, <2>7, <2>8, <2>9 DEF sender, rows, worker, passVars, wires
<1>4. ASSUME NEW p \in Peers, ProjectAndAck(p) PROVE TypeInv'
  <2>1. handling[p] \in Messages
    BY <1>4 DEF ProjectAndAck
  <2>2. fresh' \in [Peers -> BOOLEAN]
    BY <1>4 DEF ProjectAndAck
  <2>3. shown' \in [Messages -> Nat]
    BY <1>4, <2>1 DEF ProjectAndAck
  <2>4. ackNet' \subseteq Messages /\ handling' \in [Peers -> Messages \cup {NoMsg}]
    BY <1>4, <2>1 DEF ProjectAndAck
  <2> QED BY <1>4, <2>2, <2>3, <2>4 DEF ProjectAndAck, sender, rows, worker, passVars
<1>5. ASSUME NEW p \in Peers, RecipientCrash(p) PROVE TypeInv'
  <2>1. /\ inboxQueue' \in [Peers -> Seq(Messages)]
        /\ handling' \in [Peers -> Messages \cup {NoMsg}]
    BY <1>5 DEF RecipientCrash
  <2>2. fresh' \in [Peers -> BOOLEAN] /\ faults' \in Nat
    BY <1>5 DEF RecipientCrash
  <2> QED BY <1>5, <2>1, <2>2 DEF RecipientCrash, sender, rows, worker, passVars, wires
<1> QED BY <1>1, <1>2, <1>3, <1>4, <1>5 DEF Recipient

LEMMA TypeStep == TypeInv /\ [Next]_vars => TypeInv'
<1> SUFFICES ASSUME TypeInv, [Next]_vars PROVE TypeInv'
  OBVIOUS
<1>1. CASE UNCHANGED vars
  BY <1>1 DEF vars, sender, rows, worker, passVars, wires, recipient, TypeInv, TypeOK
<1> QED BY <1>1, TypeSender, TypeWorker, TypeRecipient DEF Next

\* Every reachable state is well typed, and the scheduling step always has a
\* claimed row to look at (run_once, the `for row in batch` loop).
THEOREM TypeCorrect == Spec => []TypeOK
<1>1. Init => TypeInv
  BY TypeInit
<1>2. TypeInv /\ [Next]_vars => TypeInv'
  BY TypeStep
<1>3. TypeInv => TypeOK
  BY DEF TypeInv
<1> QED BY <1>1, <1>2, <1>3, PTL DEF Spec
-----------------------------------------------------------------------------
(***************************************************************************)
(* Receipts.                                                               *)
(***************************************************************************)
LEMMA ReceiptFrame ==
  ReceiptInv /\ UNCHANGED <<canon, ackNet, recipient>> => ReceiptInv'
  BY DEF ReceiptInv, AckedOnlyIfAccepted, PresentedOncePerMailbox, recipient

LEMMA WorkerFrame == Worker => UNCHANGED <<canon, ackNet, recipient>>
<1> USE DEF sender, wires
<1>1. ASSUME NEW p \in Peers \cup {AllPeers}, BeginPass(p)
      PROVE  UNCHANGED <<canon, ackNet, recipient>>
  BY <1>1 DEF BeginPass
<1>2. RepairProjections \/ RecoverStaleLeases \/ ClaimRows \/ ScheduleRow \/ EndPass
      => UNCHANGED <<canon, ackNet, recipient>>
  BY DEF RepairProjections, RecoverStaleLeases, ClaimRows, ScheduleRow, EndPass
<1>3. ASSUME NEW m \in Messages,
             StartAttempt(m) \/ TransportDeliver(m) \/ TransportFails(m) \/ FinishTask(m)
      PROVE  UNCHANGED <<canon, ackNet, recipient>>
  BY <1>3 DEF StartAttempt, TransportDeliver, TransportFails, FinishTask
<1> QED BY <1>1, <1>2, <1>3 DEF Worker

LEMMA ReceiptEnvironment ==
  TypeInv /\ ReceiptInv /\ Environment => ReceiptInv'
<1> SUFFICES ASSUME TypeInv, ReceiptInv, Environment PROVE ReceiptInv'
  OBVIOUS
<1> USE DEF TypeInv, TypeOK
<1>1. ASSUME UNCHANGED recipient, ackNet' \subseteq ackNet,
             \A m \in Messages : canon'[m] = "acked" => canon[m] = "acked" \/ m \in ackNet
      PROVE  ReceiptInv'
  BY <1>1 DEF ReceiptInv, AckedOnlyIfAccepted, PresentedOncePerMailbox, recipient
<1>2. ASSUME NEW m \in Messages, QueueOutgoingDm(m) PROVE ReceiptInv'
  BY <1>1, <1>2 DEF QueueOutgoingDm, wires
<1>3. ASSUME NEW m \in Messages, ProcessOutgoingAck(m) PROVE ReceiptInv'
  BY <1>1, <1>3 DEF ProcessOutgoingAck
<1>4. ASSUME NEW m \in Messages, BackoffElapses(m) \/ LeaseElapses(m) \/ EnvelopeExpires(m)
      PROVE  ReceiptInv'
  BY <1>4, ReceiptFrame DEF BackoffElapses, LeaseElapses, EnvelopeExpires, wires, sender
<1>5. ASSUME NEW m \in Messages, Lose(m) PROVE ReceiptInv'
  BY <1>1, <1>5 DEF Lose, sender
<1>6. ASSUME NEW p \in Peers, DeleteChatHistory(p) PROVE ReceiptInv'
  BY <1>1, <1>6 DEF DeleteChatHistory, wires
<1>7. ASSUME NEW p \in Peers, ChangeAuthorisation(p) PROVE ReceiptInv'
  BY <1>7, ReceiptFrame DEF ChangeAuthorisation, wires, sender
<1>8. StorageOpen \/ NetworkChanged \/ StorageError \/ SenderCrash => ReceiptInv'
  BY ReceiptFrame DEF StorageOpen, NetworkChanged, StorageError, SenderCrash, wires, sender
<1> QED BY <1>2, <1>3, <1>4, <1>5, <1>6, <1>7, <1>8 DEF Environment

\* What taking the next event leaves to be shown of the invariant.
LEMMA ReceiptTake ==
  ASSUME TypeInv, ReceiptInv, NEW p \in Peers, NextEnvelope(p)
  PROVE  /\ Head(inboxQueue[p]) \in Messages
         /\ RecipientOf[Head(inboxQueue[p])] = p
         /\ UNCHANGED <<canon, ackNet, shown>>
         /\ \A r \in Peers : \A i \in 1..Len(inboxQueue'[r]) : RecipientOf[inboxQueue'[r][i]] = r
<1>1. /\ inboxQueue \in [Peers -> Seq(Messages)]
      /\ \A r \in Peers : \A i \in 1..Len(inboxQueue[r]) : RecipientOf[inboxQueue[r][i]] = r
  BY DEF TypeInv, TypeOK, ReceiptInv
<1>2. /\ inboxQueue[p] # <<>> /\ inboxQueue' = [inboxQueue EXCEPT ![p] = Tail(@)]
      /\ UNCHANGED <<canon, ackNet, shown>>
  BY DEF NextEnvelope, sender, wires
<1>3. inboxQueue[p] \in Seq(Messages) /\ inboxQueue'[p] = Tail(inboxQueue[p])
  BY <1>1, <1>2
<1>4. 1 \in 1..Len(inboxQueue[p]) /\ Head(inboxQueue[p]) = inboxQueue[p][1]
        /\ Head(inboxQueue[p]) \in Messages
  BY <1>2, <1>3
<1>5. ASSUME NEW r \in Peers, NEW i \in 1..Len(inboxQueue'[r])
      PROVE  RecipientOf[inboxQueue'[r][i]] = r
  <2>1. CASE r # p
    BY <1>1, <1>2, <2>1
  <2>2. CASE r = p
    <3> DEFINE q == inboxQueue[p]
    <3>1. q \in Seq(Messages) /\ q # <<>> /\ inboxQueue'[p] = Tail(q) /\ i \in 1..Len(Tail(q))
      BY <1>2, <1>3, <2>2
    <3> HIDE DEF q
    <3>2. i + 1 \in 1..Len(q) /\ Tail(q)[i] = q[i + 1]
      BY <3>1
    <3> QED BY <1>1, <2>2, <3>1, <3>2 DEF q
  <2> QED BY <2>1, <2>2
<1> QED BY <1>1, <1>2, <1>4, <1>5

LEMMA ReceiptRecipient ==
  TypeInv /\ ReceiptInv /\ Recipient => ReceiptInv'
<1> SUFFICES ASSUME TypeInv, ReceiptInv, Recipient PROVE ReceiptInv'
  OBVIOUS
<1>t. /\ inboxQueue \in [Peers -> Seq(Messages)]
      /\ shown \in [Messages -> Nat] /\ losses \in [Peers -> Nat]
      /\ handling \in [Peers -> Messages \cup {NoMsg}] /\ fresh \in [Peers -> BOOLEAN]
  BY DEF TypeInv, TypeOK
<1>q. \A p \in Peers : \A i \in 1..Len(inboxQueue[p]) : RecipientOf[inboxQueue[p][i]] = p
  BY DEF ReceiptInv
<1>a. \A m \in Messages : canon[m] = "acked" \/ m \in ackNet => m \in accepted
  BY DEF ReceiptInv, AckedOnlyIfAccepted
<1>h. \A p \in Peers : handling[p] # NoMsg =>
        /\ handling[p] \in accepted /\ handling[p] \in mailbox
        /\ RecipientOf[handling[p]] = p /\ handling[p] \in Messages
  BY <1>t DEF ReceiptInv
<1>m. \A m \in Messages : m \notin mailbox => shown[m] <= losses[RecipientOf[m]]
  BY DEF ReceiptInv
<1>f. \A p \in Peers : fresh[p] => handling[p] # NoMsg /\ shown[handling[p]] <= losses[p]
  BY DEF ReceiptInv
<1>s. \A m \in Messages : shown[m] <= 1 + losses[RecipientOf[m]]
  BY DEF ReceiptInv, PresentedOncePerMailbox
<1>r. \A m \in Messages : /\ RecipientOf[m] \in Peers /\ losses[RecipientOf[m]] \in Nat
                          /\ shown[m] \in Nat
  BY <1>t, OutboxAssumption
<1>2. ASSUME NEW m \in Messages, ReceiveDeliver(m) PROVE ReceiptInv'
  <2> DEFINE p == RecipientOf[m]
  <2>1. p \in Peers /\ inboxQueue[p] \in Seq(Messages)
    BY <1>t, <1>r
  <2>2. \/ inboxQueue' = inboxQueue
        \/ inboxQueue' = [inboxQueue EXCEPT ![p] = Append(@, m)]
    BY <1>2 DEF ReceiveDeliver
  <2>3. \A r \in Peers : \A i \in 1..Len(inboxQueue'[r]) : RecipientOf[inboxQueue'[r][i]] = r
    <3> SUFFICES ASSUME NEW r \in Peers, NEW i \in 1..Len(inboxQueue'[r])
                 PROVE  RecipientOf[inboxQueue'[r][i]] = r
      OBVIOUS
    <3>1. CASE inboxQueue'[r] = inboxQueue[r]
      BY <1>q, <3>1
    <3>2. CASE inboxQueue'[r] # inboxQueue[r]
      <4>1. r = p /\ inboxQueue'[r] = Append(inboxQueue[r], m)
        BY <1>t, <2>1, <2>2, <3>2
      <4>2. i = Len(inboxQueue[r]) + 1 \/ i \in 1..Len(inboxQueue[r])
        BY <2>1, <4>1
      <4>3. CASE i = Len(inboxQueue[r]) + 1
        BY <2>1, <4>1, <4>3
      <4>4. CASE i \in 1..Len(inboxQueue[r])
        <5>1. inboxQueue'[r][i] = inboxQueue[r][i]
          BY <2>1, <4>1, <4>4
        <5> QED BY <1>q, <4>4, <5>1
      <4> QED BY <4>2, <4>3, <4>4
    <3> QED BY <3>1, <3>2
  <2>4. UNCHANGED <<canon, ackNet, mailbox, accepted, losses, handling, fresh, shown>>
    BY <1>2 DEF ReceiveDeliver, sender
  <2> QED BY <2>3, <2>4 DEF ReceiptInv, AckedOnlyIfAccepted, PresentedOncePerMailbox
<1>3. ASSUME NEW p \in Peers, NEW m \in Messages, NextEnvelope(p), m = Head(inboxQueue[p]),
             accepted' = accepted \cup {m},
             handling' = [handling EXCEPT ![p] = m],
             {k \in mailbox : RecipientOf[k] # p} \cup {m} \subseteq mailbox',
             \A r \in Peers : losses'[r] \in Nat /\ losses[r] <= losses'[r],
             \A k \in Messages : k \notin mailbox' => shown[k] <= losses'[RecipientOf[k]],
             fresh'[p] => shown[m] <= losses'[p],
             \A r \in Peers : r # p => fresh'[r] = fresh[r]
      PROVE  ReceiptInv'
  <2>1. /\ RecipientOf[m] = p /\ m # NoMsg /\ UNCHANGED <<canon, ackNet, shown>>
        /\ \A r \in Peers : \A i \in 1..Len(inboxQueue'[r]) : RecipientOf[inboxQueue'[r][i]] = r
    BY <1>3, ReceiptTake, OutboxAssumption
  <2>2. \A r \in Peers : handling'[r] = IF r = p THEN m ELSE handling[r]
    BY <1>t, <1>3
  <2>3. ASSUME NEW r \in Peers, handling'[r] # NoMsg
        PROVE  handling'[r] \in accepted' \cap mailbox' /\ RecipientOf[handling'[r]] = r
    BY <1>h, <1>3, <2>1, <2>2, <2>3
  <2>4. ASSUME NEW r \in Peers, fresh'[r]
        PROVE  handling'[r] # NoMsg /\ shown'[handling'[r]] <= losses'[r]
    <3>1. CASE r = p
      BY <1>3, <2>1, <2>2, <2>4, <3>1
    <3>2. CASE r # p
      <4>1. fresh[r] /\ handling'[r] = handling[r]
        BY <1>3, <2>2, <2>4, <3>2
      <4>2. /\ handling[r] \in Messages /\ handling[r] # NoMsg
            /\ shown[handling[r]] <= losses[r] /\ shown[handling[r]] \in Nat
            /\ losses[r] \in Nat
        BY <1>t, <1>h, <1>f, <1>r, <4>1
      <4>3. losses'[r] \in Nat /\ losses[r] <= losses'[r]
        BY <1>3
      <4> QED BY <2>1, <4>1, <4>2, <4>3
    <3> QED BY <3>1, <3>2
  <2>5. ASSUME NEW k \in Messages PROVE shown'[k] <= 1 + losses'[RecipientOf[k]]
    <3>1. /\ shown[k] <= 1 + losses[RecipientOf[k]] /\ shown[k] \in Nat
          /\ RecipientOf[k] \in Peers /\ losses[RecipientOf[k]] \in Nat
      BY <1>r, <1>s
    <3>2. losses'[RecipientOf[k]] \in Nat /\ losses[RecipientOf[k]] <= losses'[RecipientOf[k]]
      BY <1>3, <3>1
    <3> QED BY <2>1, <3>1, <3>2
  <2>6. \A k \in Messages : canon'[k] = "acked" \/ k \in ackNet' => k \in accepted'
    BY <1>a, <1>3, <2>1
  <2> QED BY <1>3, <2>1, <2>3, <2>4, <2>5, <2>6
          DEF ReceiptInv, AckedOnlyIfAccepted, PresentedOncePerMailbox
<1>4. ASSUME NEW p \in Peers, NextEnvelope(p),
             UNCHANGED <<mailbox, accepted, losses, handling, fresh>>
      PROVE  ReceiptInv'
  <2>1. /\ UNCHANGED <<canon, ackNet, shown>>
        /\ \A r \in Peers : \A i \in 1..Len(inboxQueue'[r]) : RecipientOf[inboxQueue'[r][i]] = r
    BY <1>4, ReceiptTake
  <2> QED BY <1>4, <2>1 DEF ReceiptInv, AckedOnlyIfAccepted, PresentedOncePerMailbox
<1>5. ASSUME NEW p \in Peers, AcceptEnvelope(p) PROVE ReceiptInv'
  <2> DEFINE m == Head(inboxQueue[p])
  <2>1. NextEnvelope(p) /\ losses' = losses
    BY <1>5 DEF AcceptEnvelope
  <2>2. m \in Messages /\ RecipientOf[m] = p
    BY <2>1, ReceiptTake
  <2>3. CASE m \in envExpired
    BY <1>4, <1>5, <2>1, <2>3 DEF AcceptEnvelope
  <2>4. CASE m \notin envExpired
    <3>1. /\ mailbox' = mailbox \cup {m} /\ accepted' = accepted \cup {m}
          /\ fresh' = [fresh EXCEPT ![p] = m \notin mailbox]
          /\ handling' = [handling EXCEPT ![p] = m]
      BY <1>5, <2>4 DEF AcceptEnvelope
    <3>2. fresh'[p] => m \notin mailbox
      BY <1>t, <3>1, Zenon
    <3>3. \A r \in Peers : r # p => fresh'[r] = fresh[r]
      BY <1>t, <3>1
    <3> HIDE DEF m
    <3>4. \A k \in Messages : k \notin mailbox' => shown[k] <= losses'[RecipientOf[k]]
      BY <1>m, <2>1, <3>1
    <3>5. fresh'[p] => shown[m] <= losses'[p]
      BY <1>m, <2>1, <2>2, <3>2
    <3>6. \A r \in Peers : losses'[r] \in Nat /\ losses[r] <= losses'[r]
      BY <1>t, <2>1
    <3>7. m = Head(inboxQueue[p])
      BY DEF m
    <3> QED BY <1>3, <2>1, <2>2, <3>1, <3>3, <3>4, <3>5, <3>6, <3>7
  <2> QED BY <2>3, <2>4
<1>6. ASSUME NEW p \in Peers, LoadFails(p) PROVE ReceiptInv'
  <2> DEFINE m == Head(inboxQueue[p])
  <2>1. NextEnvelope(p)
    BY <1>6 DEF LoadFails
  <2>2. m \in Messages /\ RecipientOf[m] = p
    BY <2>1, ReceiptTake
  <2>3. /\ mailbox' = {k \in mailbox : RecipientOf[k] # p} \cup {m}
        /\ accepted' = accepted \cup {m}
        /\ handling' = [handling EXCEPT ![p] = m]
        /\ fresh' = [fresh EXCEPT ![p] = TRUE]
        /\ losses' = [losses EXCEPT ![p] = @ + 1]
    BY <1>6 DEF LoadFails
  <2>4. m = Head(inboxQueue[p])
    OBVIOUS
  <2> HIDE DEF m
  <2>5. losses'[p] = losses[p] + 1 /\ \A r \in Peers : r # p => losses'[r] = losses[r]
    BY <1>t, <2>3
  <2>6. \A r \in Peers : losses'[r] \in Nat /\ losses[r] <= losses'[r]
    <3> SUFFICES ASSUME NEW r \in Peers PROVE losses'[r] \in Nat /\ losses[r] <= losses'[r]
      OBVIOUS
    <3>1. losses[r] \in Nat
      BY <1>t
    <3> QED BY <2>5, <3>1
  <2>7. ASSUME NEW k \in Messages, k \notin mailbox' PROVE shown[k] <= losses'[RecipientOf[k]]
    <3>1. CASE RecipientOf[k] = p
      BY <1>r, <1>s, <2>5, <3>1
    <3>2. CASE RecipientOf[k] # p
      <4>1. k \notin mailbox
        BY <2>3, <2>7, <3>2
      <4> QED BY <1>m, <1>r, <2>5, <3>2, <4>1
    <3> QED BY <3>1, <3>2
  <2>8. shown[m] <= losses'[p]
    BY <1>r, <1>s, <2>2, <2>5
  <2>9. \A r \in Peers : r # p => fresh'[r] = fresh[r]
    BY <1>t, <2>3
  <2>10. {k \in mailbox : RecipientOf[k] # p} \cup {m} \subseteq mailbox'
    BY <2>3
  <2> QED BY <1>3, <2>1, <2>2, <2>3, <2>4, <2>6, <2>7, <2>8, <2>9, <2>10
<1>7. ASSUME NEW p \in Peers, SaveFails(p) PROVE ReceiptInv'
  BY <1>4, <1>7 DEF SaveFails
<1>8. ASSUME NEW p \in Peers, ProjectAndAck(p) PROVE ReceiptInv'
  <2> DEFINE m == handling[p]
  <2>1. m \in Messages /\ m \in accepted /\ m \in mailbox /\ RecipientOf[m] = p
    BY <1>h, <1>8 DEF ProjectAndAck
  <2>2. /\ ackNet' = ackNet \cup {m}
        /\ handling' = [handling EXCEPT ![p] = NoMsg]
        /\ fresh' = [fresh EXCEPT ![p] = FALSE]
        /\ UNCHANGED <<canon, inboxQueue, mailbox, accepted, losses>>
    BY <1>8 DEF ProjectAndAck, sender
  <2>3. \/ fresh[p] /\ shown' = [shown EXCEPT ![m] = @ + 1]
        \/ shown' = shown
    BY <1>8 DEF ProjectAndAck
  <2>4. fresh[p] => shown[m] <= losses[p]
    BY <1>f
  <2> HIDE DEF m
  <2>5. \A k \in Messages : k # m => shown'[k] = shown[k]
    BY <1>t, <2>3
  <2>6. shown'[m] <= 1 + losses[RecipientOf[m]]
    <3>1. CASE fresh[p] /\ shown' = [shown EXCEPT ![m] = @ + 1]
      <4>1. shown'[m] = shown[m] + 1
        BY <1>t, <2>1, <3>1
      <4> QED BY <1>r, <2>1, <2>4, <3>1, <4>1
    <3> QED BY <1>s, <2>1, <2>3, <3>1
  <2>7. \A k \in Messages : shown'[k] <= 1 + losses'[RecipientOf[k]]
    BY <1>s, <2>2, <2>5, <2>6
  <2>8. \A k \in Messages : k \notin mailbox' => shown'[k] <= losses'[RecipientOf[k]]
    BY <1>m, <2>1, <2>2, <2>5
  <2>9. \A r \in Peers : handling'[r] = IF r = p THEN NoMsg ELSE handling[r]
    BY <1>t, <2>2
  <2>10. \A r \in Peers : fresh'[r] => r # p /\ fresh[r]
    <3>1. ~fresh'[p]
      BY <1>t, <2>2
    <3>2. \A r \in Peers : r # p => fresh'[r] = fresh[r]
      BY <1>t, <2>2
    <3> QED BY <3>1, <3>2, Zenon
  <2>11. ASSUME NEW r \in Peers, fresh'[r]
         PROVE  handling'[r] # NoMsg /\ shown'[handling'[r]] <= losses'[r]
    <3>1. r # p /\ handling'[r] = handling[r] /\ handling[r] # NoMsg
            /\ shown[handling[r]] <= losses[r]
      BY <1>f, <2>9, <2>10, <2>11
    <3>2. RecipientOf[handling[r]] = r /\ handling[r] \in Messages
      BY <1>h, <3>1
    <3>3. shown'[handling[r]] = shown[handling[r]]
      BY <2>1, <2>5, <3>1, <3>2
    <3> QED BY <2>2, <3>1, <3>3
  <2>12. \A k \in Messages : canon'[k] = "acked" \/ k \in ackNet' => k \in accepted'
    BY <1>a, <2>1, <2>2
  <2>13. \A r \in Peers : handling'[r] # NoMsg =>
           handling'[r] \in accepted' \cap mailbox' /\ RecipientOf[handling'[r]] = r
    BY <1>h, <2>2, <2>9
  <2>14. \A r \in Peers : \A i \in 1..Len(inboxQueue'[r]) : RecipientOf[inboxQueue'[r][i]] = r
    BY <1>q, <2>2
  <2> QED BY <2>7, <2>8, <2>11, <2>12, <2>13, <2>14
          DEF ReceiptInv, AckedOnlyIfAccepted, PresentedOncePerMailbox
<1>9. ASSUME NEW p \in Peers, RecipientCrash(p) PROVE ReceiptInv'
  <2>1. UNCHANGED <<canon, ackNet, mailbox, accepted, losses, shown>>
    BY <1>9 DEF RecipientCrash, sender, wires
  <2>2. \A r \in Peers : inboxQueue'[r] \in {inboxQueue[r], <<>>}
    BY <1>t, <1>9 DEF RecipientCrash
  <2>3. \A r \in Peers : handling'[r] = IF r = p THEN NoMsg ELSE handling[r]
    BY <1>t, <1>9 DEF RecipientCrash
  <2>4. \A r \in Peers : fresh'[r] => r # p /\ fresh[r]
    <3>1. fresh' = [fresh EXCEPT ![p] = FALSE]
      BY <1>9 DEF RecipientCrash
    <3>2. ~fresh'[p]
      BY <1>t, <3>1
    <3>3. \A r \in Peers : r # p => fresh'[r] = fresh[r]
      BY <1>t, <3>1
    <3> QED BY <3>2, <3>3, Zenon
  <2>5. \A r \in Peers : \A i \in 1..Len(inboxQueue'[r]) : RecipientOf[inboxQueue'[r][i]] = r
    <3> SUFFICES ASSUME NEW r \in Peers, NEW i \in 1..Len(inboxQueue'[r])
                 PROVE  RecipientOf[inboxQueue'[r][i]] = r
      OBVIOUS
    <3>1. inboxQueue'[r] # <<>>
      OBVIOUS
    <3>2. inboxQueue'[r] = inboxQueue[r]
      BY <2>2, <3>1
    <3> QED BY <1>q, <3>2
  <2> QED BY <2>1, <2>3, <2>4, <2>5
          DEF ReceiptInv, AckedOnlyIfAccepted, PresentedOncePerMailbox
<1> QED BY <1>2, <1>5, <1>6, <1>7, <1>8, <1>9 DEF Recipient

LEMMA ReceiptInvariant == Spec => []ReceiptInv
<1>1. Init => ReceiptInv
  BY OutboxAssumption DEF Init, ReceiptInv, AckedOnlyIfAccepted, PresentedOncePerMailbox
<1>2. TypeInv /\ ReceiptInv /\ [Next]_vars => ReceiptInv'
  <2> SUFFICES ASSUME TypeInv, ReceiptInv, [Next]_vars PROVE ReceiptInv'
    OBVIOUS
  <2>1. CASE UNCHANGED vars
    BY <2>1, ReceiptFrame DEF vars, sender, wires
  <2> QED BY <2>1, ReceiptFrame, WorkerFrame, ReceiptEnvironment, ReceiptRecipient DEF Next
<1> QED BY <1>1, <1>2, TypeInit, TypeStep, PTL DEF Spec

\* An acknowledged message has been durably accepted by its recipient
\* (EnvelopeReceived saves before it acknowledges; process_outgoing_ack).
THEOREM AckedImpliesAccepted == Spec => []AckedOnlyIfAccepted
<1>1. ReceiptInv => AckedOnlyIfAccepted
  BY DEF ReceiptInv
<1> QED BY <1>1, ReceiptInvariant, PTL

\* However often a message is resent and wherever the recipient crashes, it
\* becomes at most one bubble for every mailbox the recipient has had: one, and
\* one more only for each mailbox file that could not be read and was replaced
\* (accept_incoming_with_status, MailboxStore::load in EnvelopeReceived).
THEOREM OneBubblePerMailbox == Spec => []PresentedOncePerMailbox
<1>1. ReceiptInv => PresentedOncePerMailbox
  BY DEF ReceiptInv
<1> QED BY <1>1, ReceiptInvariant, PTL
-----------------------------------------------------------------------------
(***************************************************************************)
(* Retries.                                                                *)
(***************************************************************************)
LEMMA RowStep == TypeInv /\ RowInv /\ [Next]_vars => RowInv'
<1> SUFFICES ASSUME TypeInv, RowInv, [Next]_vars PROVE RowInv'
  OBVIOUS
<1> USE DEF TypeInv, TypeOK, RowInv, Open
<1>1. CASE UNCHANGED <<canon, status, lease>>
  BY <1>1
<1>2. ASSUME NEW m \in Messages, QueueOutgoingDm(m) PROVE RowInv'
  BY <1>2 DEF QueueOutgoingDm
<1>3. ASSUME NEW m \in Messages, ProcessOutgoingAck(m) PROVE RowInv'
  BY <1>3 DEF ProcessOutgoingAck
<1>4. ASSUME NEW m \in Messages, LeaseElapses(m) PROVE RowInv'
  BY <1>4 DEF LeaseElapses
<1>5. ASSUME NEW p \in Peers, DeleteChatHistory(p) PROVE RowInv'
  BY <1>5 DEF DeleteChatHistory, rows
<1>6. CASE StorageOpen \/ SenderCrash
  BY <1>6 DEF StorageOpen, SenderCrash, RecoverCrashState
<1>7. CASE RepairProjections
  BY <1>7 DEF RepairProjections
<1>8. CASE RecoverStaleLeases
  BY <1>8 DEF RecoverStaleLeases
<1>9. CASE ClaimRows
  <2>1. UNCHANGED <<canon, status>>
    BY <1>9 DEF ClaimRows
  <2>2. \A m \in Messages : lease'[m] # lease[m] => m \in Claimable
    BY <1>9 DEF ClaimRows, Range
  <2> QED BY <2>1, <2>2 DEF Claimable
<1>10. CASE ScheduleRow
  BY <1>10 DEF ScheduleRow
<1>11. ASSUME NEW m \in Messages, FinishTask(m) PROVE RowInv'
  <2>1. CASE m \notin obsolete
    <3>1. FinishOutboxAttempt(m) /\ UNCHANGED canon
      BY <1>11, <2>1 DEF FinishTask
    <3>2. CASE lease[m] # "free" /\ status[m] # "Acked"
      <4>1. status' = [status EXCEPT ![m] = FinishedStatus(task[m])]
              /\ lease' = [lease EXCEPT ![m] = "free"]
        BY <3>1, <3>2 DEF FinishOutboxAttempt
      <4>2. canon[m] # "absent"
        BY <3>2
      <4> QED BY <3>1, <4>1, <4>2
    <3>3. CASE ~(lease[m] # "free" /\ status[m] # "Acked")
      BY <3>1, <3>3 DEF FinishOutboxAttempt
    <3> QED BY <3>2, <3>3
  <2>2. CASE m \in obsolete
    BY <1>11, <2>2 DEF FinishTask
  <2> QED BY <2>1, <2>2
<1>12. Environment \/ Worker \/ Recipient \/ UNCHANGED vars
  BY DEF Next
<1>13. CASE Environment
  BY <1>1, <1>2, <1>3, <1>4, <1>5, <1>6, <1>13
     DEF Environment, BackoffElapses, EnvelopeExpires, Lose, ChangeAuthorisation,
         NetworkChanged, StorageError, sender, rows
<1>14. CASE Worker
  BY <1>1, <1>7, <1>8, <1>9, <1>10, <1>11, <1>14
     DEF Worker, BeginPass, EndPass, StartAttempt, TransportDeliver, TransportFails,
         sender, rows
<1>15. CASE Recipient \/ UNCHANGED vars
  BY <1>1, <1>15 DEF Recipient, ReceiveDeliver, NextEnvelope, AcceptEnvelope, LoadFails, SaveFails, ProjectAndAck,
                     RecipientCrash, vars, sender, rows
<1> QED BY <1>12, <1>13, <1>14, <1>15

LEMMA RowInvariant == Spec => []RowInv
<1>1. Init => RowInv
  BY DEF Init, RowInv
<1> QED BY <1>1, RowStep, TypeInit, TypeStep, PTL DEF Spec

\* Only a late acknowledgement of an expired message writes to a terminal row.
LEMMA TerminalStep ==
  ASSUME TypeInv, RowInv, [Next]_vars, NEW m \in Messages,
         status[m] \in {"Acked", "Expired"}
  PROVE  \/ status'[m] = status[m]
         \/ status'[m] = "Acked" /\ canon'[m] = "acked"
<1> USE DEF TypeInv, TypeOK, RowInv, Open
<1>1. CASE UNCHANGED status
  BY <1>1
<1>2. ASSUME NEW k \in Messages, QueueOutgoingDm(k)
      PROVE  status'[m] = status[m]
  BY <1>2 DEF QueueOutgoingDm
<1>3. ASSUME NEW k \in Messages, ProcessOutgoingAck(k)
      PROVE  status'[m] = status[m] \/ (status'[m] = "Acked" /\ canon'[m] = "acked")
  BY <1>3 DEF ProcessOutgoingAck
<1>4. StorageOpen \/ SenderCrash => status'[m] = status[m]
  BY DEF StorageOpen, SenderCrash, RecoverCrashState
<1>5. RepairProjections => status'[m] = status[m]
  BY DEF RepairProjections
<1>6. ASSUME NEW k \in Messages, FinishTask(k)
      PROVE  status'[m] = status[m]
  <2>1. CASE k \in obsolete \/ ~(lease[k] # "free" /\ status[k] # "Acked")
    BY <1>6, <2>1 DEF FinishTask, FinishOutboxAttempt
  <2>2. CASE k \notin obsolete /\ lease[k] # "free" /\ status[k] # "Acked"
    <3>1. status' = [status EXCEPT ![k] = FinishedStatus(task[k])]
      BY <1>6, <2>2 DEF FinishTask, FinishOutboxAttempt
    <3>2. k # m
      BY <2>2
    <3> QED BY <3>1, <3>2
  <2> QED BY <2>1, <2>2
<1>7. Environment \/ Worker \/ Recipient \/ UNCHANGED vars
  BY DEF Next
<1>8. CASE Environment
  BY <1>1, <1>2, <1>3, <1>4, <1>8
     DEF Environment, BackoffElapses, LeaseElapses, EnvelopeExpires, Lose,
         DeleteChatHistory, ChangeAuthorisation, NetworkChanged, StorageError, sender, rows
<1>9. CASE Worker
  BY <1>1, <1>5, <1>6, <1>9
     DEF Worker, BeginPass, RecoverStaleLeases, ClaimRows, ScheduleRow, EndPass,
         StartAttempt, TransportDeliver, TransportFails, sender, rows
<1>10. CASE Recipient \/ UNCHANGED vars
  BY <1>1, <1>10 DEF Recipient, ReceiveDeliver, NextEnvelope, AcceptEnvelope, LoadFails, SaveFails,
                     ProjectAndAck, RecipientCrash, vars, sender, rows
<1> QED BY <1>7, <1>8, <1>9, <1>10

\* No completion, recovery or repair revives an acknowledged or expired row
\* (finish_outbox_attempt, recover_crash_state, repair_pending_dm_projections).
THEOREM TerminalRows == Spec => TerminalRowsStayTerminal
<1> DEFINE A == \A m \in Messages :
                  /\ status[m] = "Acked" => status'[m] = "Acked"
                  /\ status[m] = "Expired" => status'[m] = "Expired" \/ canon'[m] = "acked"
<1>1. TypeInv /\ RowInv /\ [Next]_vars => A
  BY TerminalStep DEF Open
<1>2. A => [A]_vars
  OBVIOUS
<1>3. TypeInv /\ RowInv /\ [Next]_vars => [A]_vars
  BY <1>1, <1>2
<1>4. Spec => [][A]_vars
  <2> HIDE DEF A
  <2> QED BY <1>3, RowInvariant, TypeInit, TypeStep, PTL DEF Spec
<1> QED BY <1>4 DEF TerminalRowsStayTerminal

LEMMA RetryStep == TypeInv /\ RetryInv /\ [Next]_vars => RetryInv'
<1> SUFFICES ASSUME TypeInv, RetryInv, [Next]_vars PROVE RetryInv'
  OBVIOUS
<1> USE DEF TypeInv, TypeOK, RetryInv, UnackedStaysRetryable
<1>1. CASE UNCHANGED <<canon, envelope, status, dmOutbox, task, envExpired, pc>>
  BY <1>1
<1>2. ASSUME NEW m \in Messages, QueueOutgoingDm(m) PROVE RetryInv'
  BY <1>2 DEF QueueOutgoingDm
<1>3. ASSUME NEW m \in Messages, ProcessOutgoingAck(m) PROVE RetryInv'
  BY <1>3 DEF ProcessOutgoingAck, worker, passVars
<1>4. ASSUME NEW m \in Messages, EnvelopeExpires(m) PROVE RetryInv'
  BY <1>4 DEF EnvelopeExpires, worker, passVars, sender, rows
<1>5. ASSUME NEW p \in Peers, DeleteChatHistory(p) PROVE RetryInv'
  BY <1>5 DEF DeleteChatHistory, rows, worker, passVars
<1>6. CASE StorageOpen
  BY <1>6 DEF StorageOpen, RecoverCrashState
<1>7. CASE SenderCrash
  BY <1>7 DEF SenderCrash, RecoverCrashState, LeavePass
<1>8. CASE StorageError
  <2>1. \A m \in Messages : task'[m] \in {"none", task[m]}
    BY <1>8 DEF StorageError
  <2>2. pc' \in {"idle", pc} /\ UNCHANGED <<canon, envelope, status, dmOutbox, envExpired>>
    BY <1>8 DEF StorageError, LeavePass, passVars, sender, rows
  <2> QED BY <2>1, <2>2
<1>9. CASE RepairProjections
  BY <1>9 DEF RepairProjections
<1>10. CASE RecoverStaleLeases \/ ClaimRows
  BY <1>10 DEF RecoverStaleLeases, ClaimRows
<1>11. CASE ScheduleRow
  <2>1. \A m \in Messages : task'[m] \in {"queued", task[m]}
    BY <1>11 DEF ScheduleRow
  <2> QED BY <1>11, <2>1 DEF ScheduleRow
<1>12. CASE EndPass
  BY <1>12 DEF EndPass, LeavePass, sender, rows
<1>13. ASSUME NEW p \in Peers \cup {AllPeers}, BeginPass(p) PROVE RetryInv'
  BY <1>13 DEF BeginPass, sender, rows
<1>14. ASSUME NEW m \in Messages, StartAttempt(m) PROVE RetryInv'
  BY <1>14 DEF StartAttempt, sender, rows, passVars
<1>15. ASSUME NEW m \in Messages, TransportDeliver(m) \/ TransportFails(m) PROVE RetryInv'
  BY <1>15 DEF TransportDeliver, TransportFails, sender, rows, passVars
<1>16. ASSUME NEW m \in Messages, FinishTask(m) PROVE RetryInv'
  <2>1. UNCHANGED <<canon, envelope, dmOutbox, envExpired, pc>> /\ task' = [task EXCEPT ![m] = "none"]
    BY <1>16 DEF FinishTask
  <2>2. \A k \in Messages : status'[k] = status[k] \/ (k = m /\ status'[k] = FinishedStatus(task[k]))
    BY <1>16 DEF FinishTask, FinishOutboxAttempt
  <2>3. /\ FinishedStatus(task[m]) \in {"Sent", "Expired", "Pending"}
        /\ FinishedStatus(task[m]) = "Expired" => task[m] = "expired"
    BY DEF FinishedStatus
  <2> QED BY <2>1, <2>2, <2>3
<1>17. Environment \/ Worker \/ Recipient \/ UNCHANGED vars
  BY DEF Next
<1>18. CASE Environment
  BY <1>1, <1>2, <1>3, <1>4, <1>5, <1>6, <1>7, <1>8, <1>18
     DEF Environment, BackoffElapses, LeaseElapses, Lose, ChangeAuthorisation,
         NetworkChanged, sender, rows, worker, passVars
<1>19. CASE Worker
  BY <1>9, <1>10, <1>11, <1>12, <1>13, <1>14, <1>15, <1>16, <1>19 DEF Worker
<1>20. CASE Recipient \/ UNCHANGED vars
  BY <1>1, <1>20 DEF Recipient, ReceiveDeliver, NextEnvelope, AcceptEnvelope, LoadFails, SaveFails, ProjectAndAck,
                     RecipientCrash, vars, sender, rows, worker, passVars
<1> QED BY <1>17, <1>18, <1>19, <1>20

\* No interleaving of acknowledgements, late completions, recoveries, repairs
\* and deletions takes an unacknowledged message out of the retry loop before
\* its envelope's lifetime is over; the message of an older database that has
\* no envelope is the one that repair_pending_dm_projections leaves alone.
THEOREM UnackedRetryable == Spec => []UnackedStaysRetryable
<1>1. Init => RetryInv
  BY DEF Init, RetryInv, UnackedStaysRetryable
<1>2. RetryInv => UnackedStaysRetryable
  BY DEF RetryInv
<1> QED BY <1>1, <1>2, RetryStep, TypeInit, TypeStep, PTL DEF Spec
-----------------------------------------------------------------------------
(***************************************************************************)
(* Tasks.                                                                  *)
(***************************************************************************)
\* What is left of a claimed batch when its first row is scheduled.
LEMMA TailShifts ==
  ASSUME NEW S, NEW s \in Seq(S), s # <<>>
  PROVE  /\ Len(Tail(s)) = Len(s) - 1
         /\ \A i \in 1..Len(Tail(s)) : i + 1 \in 1..Len(s) /\ Tail(s)[i] = s[i + 1]
<1>1. Len(Tail(s)) = Len(s) - 1 /\ Len(s) \in Nat
  OBVIOUS
<1>2. ASSUME NEW i \in 1..Len(Tail(s))
      PROVE  i + 1 \in 1..Len(s) /\ Tail(s)[i] = s[i + 1]
  BY <1>1, <1>2
<1> QED BY <1>1, <1>2

LEMMA TaskStep == TypeInv /\ TaskInv /\ [Next]_vars => TaskInv'
<1> SUFFICES ASSUME TypeInv, TaskInv, [Next]_vars PROVE TaskInv'
  OBVIOUS
<1> USE OutboxAssumption DEF TypeInv, TypeOK, TaskInv, Drained, OneInFlightPerPeer, Running
<1>1. CASE UNCHANGED <<batch, task, pc, passPeer>>
  BY <1>1
<1>2. CASE LeavePass /\ \A m \in Messages : task'[m] = "none"
  BY <1>2 DEF LeavePass
<1>3. ASSUME NEW p \in Peers \cup {AllPeers}, BeginPass(p) PROVE TaskInv'
  <2>1. batch = <<>> /\ Drained
    BY <1>3 DEF BeginPass
  <2>2. UNCHANGED <<batch, task>> /\ pc' = "repair"
    BY <1>3 DEF BeginPass
  <2> QED BY <2>1, <2>2
<1>4. CASE RepairProjections \/ RecoverStaleLeases
  <2>1. UNCHANGED <<batch, task, passPeer>> /\ pc \in {"repair", "recover"}
          /\ pc' \in {"recover", "claim"}
    BY <1>4 DEF RepairProjections, RecoverStaleLeases
  <2> QED BY <2>1
<1>5. CASE ClaimRows
  <2>1. ClaimSize \in Int /\ (passPeer # AllPeers => ClaimSize = 1)
    BY DEF ClaimSize, PassLimit
  <2>2. PICK n \in 1..ClaimSize : \E q \in [1..n -> Claimable] :
          IsClaim(q, ClaimSize) /\ batch' = q
    BY <1>5 DEF ClaimRows
  <2>3. batch' \in [1..n -> Messages] /\ IsClaim(batch', ClaimSize)
    BY <2>2 DEF Claimable
  <2>4. batch' \in Seq(Messages) /\ Len(batch') = n /\ DOMAIN batch' = 1..n
    BY <2>1, <2>3
  <2>5. \A i, j \in 1..n : i < j => batch'[i] # batch'[j]
    BY <2>3, <2>4 DEF IsClaim
  <2>6. \A i, j \in 1..n : i # j => batch'[i] # batch'[j]
    BY <2>1, <2>5
  <2>7. Drained /\ UNCHANGED <<task, passPeer>> /\ pc' = "schedule"
    BY <1>5 DEF ClaimRows
  <2> QED BY <2>1, <2>3, <2>4, <2>6, <2>7
<1>6. CASE ScheduleRow
  <2> DEFINE k == Head(batch)
  <2>1. pc = "schedule" /\ batch # <<>> /\ batch \in Seq(Messages)
    BY <1>6 DEF ScheduleRow
  <2>2. k \in Messages /\ k = batch[1] /\ 1 \in 1..Len(batch) /\ task[k] = "none"
    BY <2>1
  <2>3. /\ batch' = Tail(batch) /\ UNCHANGED passPeer
        /\ pc' = IF batch' = <<>> THEN "claim" ELSE "schedule"
        /\ task' = task \/ task' = [task EXCEPT ![k] = "queued"]
    BY <1>6 DEF ScheduleRow
  <2>4. /\ Len(batch') = Len(batch) - 1
        /\ \A i \in 1..Len(batch') : i + 1 \in 1..Len(batch) /\ batch'[i] = batch[i + 1]
    <3>1. /\ Len(Tail(batch)) = Len(batch) - 1
          /\ \A i \in 1..Len(Tail(batch)) :
                i + 1 \in 1..Len(batch) /\ Tail(batch)[i] = batch[i + 1]
      BY <2>1, TailShifts
    <3> QED BY <2>3, <3>1
  <2>5. ASSUME NEW i \in 1..Len(batch'), NEW j \in 1..Len(batch'), i # j
        PROVE  batch'[i] # batch'[j]
    <3>1. i + 1 # j + 1
      BY <2>1, <2>4, <2>5
    <3>2. batch[i + 1] # batch[j + 1]
      BY <2>4, <3>1
    <3> QED BY <2>4, <3>2
  <2>6. ASSUME NEW i \in 1..Len(batch')
        PROVE  batch'[i] # k /\ batch'[i] \in Messages
    <3>1. i + 1 # 1
      BY <2>1, <2>4
    <3>2. batch[i + 1] # batch[1]
      BY <2>2, <2>4, <3>1
    <3>3. batch[i + 1] \in Messages
      BY <2>1, <2>4
    <3> QED BY <2>2, <2>4, <3>2, <3>3
  <2>7. \A i \in 1..Len(batch') : task'[batch'[i]] = "none"
    BY <2>3, <2>4, <2>6
  <2>8. \A m \in Messages : task'[m] \notin {"none", "queued"} => task[m] = task'[m]
    BY <2>3
  <2>9. passPeer' # AllPeers =>
          /\ batch' = <<>>
          /\ \A m, j \in Messages : task'[m] # "none" /\ task'[j] # "none" => m = j
    <3> SUFFICES ASSUME passPeer # AllPeers
                 PROVE  /\ batch' = <<>>
                        /\ \A m, j \in Messages : task'[m] # "none" /\ task'[j] # "none" => m = j
      BY <2>3
    <3>1. Len(batch) <= 1 /\ \A m \in Messages : task[m] = "none"
      BY <2>1
    <3>2. batch' = <<>>
      BY <2>1, <2>3, <2>4, <3>1
    <3>3. \A m \in Messages : task'[m] # "none" => m = k
      BY <2>2, <2>3, <3>1
    <3> QED BY <3>2, <3>3
  <2>10. OneInFlightPerPeer'
    BY <2>8
  <2> QED BY <2>3, <2>4, <2>5, <2>7, <2>9, <2>10
<1>7. CASE EndPass
  BY <1>2, <1>7 DEF EndPass
<1>8. CASE SenderCrash
  BY <1>2, <1>8 DEF SenderCrash
<1>9. CASE StorageError
  <2>1. CASE (pc = "repair" \/ (pc = "claim" /\ Drained)) /\ LeavePass /\ UNCHANGED task
    BY <1>2, <2>1
  <2>2. CASE \E m \in Messages : task' = [task EXCEPT ![m] = "none"] /\ UNCHANGED passVars
    BY <2>2 DEF passVars
  <2> QED BY <1>9, <2>1, <2>2 DEF StorageError
<1>10. ASSUME NEW m \in Messages, task[m] # "none", task'[m] # "none",
              \A k \in Messages : k # m => task'[k] = task[k],
              UNCHANGED <<batch, pc, passPeer>>, OneInFlightPerPeer'
       PROVE  TaskInv'
  <2>1. ~Drained
    BY <1>10
  <2>2. \A i \in 1..Len(batch) : batch[i] \in Messages /\ batch[i] # m
    BY <1>10
  <2>3. \A i \in 1..Len(batch') : task'[batch'[i]] = "none"
    BY <1>10, <2>2
  <2>4. \A k \in Messages : task'[k] # "none" => task[k] # "none"
    BY <1>10
  <2>5. pc' \notin {"idle", "repair", "recover"}
    BY <1>10, <2>1
  <2>6. passPeer' # AllPeers =>
          batch' = <<>> /\ \A i, j \in Messages : task'[i] # "none" /\ task'[j] # "none" => i = j
    BY <1>10, <2>1, <2>4
  <2>7. batch' = batch /\ pc' = pc
    BY <1>10
  <2>8. /\ \A i, j \in 1..Len(batch') : i # j => batch'[i] # batch'[j]
        /\ pc' # "schedule" => batch' = <<>>
    BY <2>7
  <2> QED BY <1>10, <2>3, <2>5, <2>6, <2>8
<1>11. ASSUME NEW m \in Messages, StartAttempt(m) PROVE TaskInv'
  <2>1. UNCHANGED <<batch, pc, passPeer>> /\ task[m] = "queued"
    BY <1>11 DEF StartAttempt, passVars
  <2>2. \A k \in Messages : k # m => task'[k] = task[k]
    BY <1>11 DEF StartAttempt
  <2>3. task'[m] # "none" /\ ~Drained
    BY <1>11 DEF StartAttempt
  <2>4. OneInFlightPerPeer'
    <3>1. CASE passPeer = AllPeers
      BY <1>11, <2>2, <3>1 DEF StartAttempt
    <3>2. CASE passPeer # AllPeers
      BY <2>1, <2>2, <3>2, ZenonT(30)
    <3> QED BY <3>1, <3>2
  <2> QED BY <1>10, <2>1, <2>2, <2>3, <2>4
<1>12. ASSUME NEW m \in Messages, TransportDeliver(m) \/ TransportFails(m) PROVE TaskInv'
  <2>1. UNCHANGED <<batch, pc, passPeer>> /\ task[m] = "sending"
    BY <1>12 DEF TransportDeliver, TransportFails, passVars
  <2>2. task'[m] \in {"ok", "retry"} /\ \A k \in Messages : k # m => task'[k] = task[k]
    BY <1>12 DEF TransportDeliver, TransportFails
  <2>3. \A k \in Messages : task'[k] \notin {"none", "queued"}
                            => task[k] \notin {"none", "queued"}
    BY <2>1, <2>2
  <2>4. OneInFlightPerPeer'
    BY <2>3
  <2> QED BY <1>10, <2>1, <2>2, <2>4
<1>13. ASSUME NEW m \in Messages, FinishTask(m) PROVE TaskInv'
  <2>1. UNCHANGED <<batch, pc, passPeer>> /\ task' = [task EXCEPT ![m] = "none"]
    BY <1>13 DEF FinishTask
  <2> QED BY <2>1
<1>14. Environment \/ Worker \/ Recipient \/ UNCHANGED vars
  BY DEF Next
<1>15. CASE Environment
  BY <1>1, <1>8, <1>9, <1>15
     DEF Environment, QueueOutgoingDm, ProcessOutgoingAck, BackoffElapses, LeaseElapses,
         EnvelopeExpires, Lose, DeleteChatHistory, ChangeAuthorisation, StorageOpen,
         NetworkChanged, worker, passVars
<1>16. CASE Worker
  BY <1>3, <1>4, <1>5, <1>6, <1>7, <1>11, <1>12, <1>13, <1>16 DEF Worker
<1>17. CASE Recipient \/ UNCHANGED vars
  BY <1>1, <1>17 DEF Recipient, ReceiveDeliver, NextEnvelope, AcceptEnvelope, LoadFails, SaveFails, ProjectAndAck,
                     RecipientCrash, vars, worker, passVars
<1> QED BY <1>14, <1>15, <1>16, <1>17

LEMMA TaskInvariant == Spec => []TaskInv
<1>1. Init => TaskInv
  BY DEF Init, TaskInv, Drained, OneInFlightPerPeer, Running
<1> QED BY <1>1, TaskStep, TypeInit, TypeStep, PTL DEF Spec

\* However passes, batches and reachability hints interleave, a recipient has
\* at most one delivery in flight (scheduled_peers, PeerOrderGuard, the drain).
THEOREM OneInFlight == Spec => []OneInFlightPerPeer
<1>1. TaskInv => OneInFlightPerPeer
  BY DEF TaskInv
<1> QED BY <1>1, TaskInvariant, PTL

LEMMA ClaimStep ==
  ASSUME TypeInv, TaskInv, [Next]_vars, NEW m \in Running
  PROVE  task'[m] # "queued" /\ (m \in Range(batch') => m \in Range(batch))
<1> USE DEF TypeInv, TypeOK, TaskInv, Running, Range
<1>1. m \in Messages /\ task[m] \notin {"none", "queued"}
  OBVIOUS
<1> DEFINE Safe == task'[m] # "queued" /\ (m \in Range(batch') => m \in Range(batch))
<1>2. ASSUME batch' = batch \/ batch' = <<>>,
             task'[m] = task[m] \/ task'[m] \in {"none"} \cup Outcomes
      PROVE  Safe
  BY <1>1, <1>2 DEF Outcomes
<1>3. ASSUME ClaimRows PROVE Safe
  BY <1>1, <1>3 DEF ClaimRows, Drained
<1>4. ASSUME ScheduleRow PROVE Safe
  <2>1. batch \in Seq(Messages) /\ batch # <<>> /\ batch' = Tail(batch)
    BY <1>4 DEF ScheduleRow
  <2>2. Head(batch) = batch[1] /\ 1 \in 1..Len(batch) /\ Head(batch) # m
    BY <1>1, <2>1
  <2>3. task'[m] = task[m]
    BY <1>1, <1>4, <2>2 DEF ScheduleRow
  <2>4. \A i \in DOMAIN batch' : i + 1 \in DOMAIN batch /\ batch'[i] = batch[i + 1]
    BY <2>1
  <2> QED BY <1>1, <2>3, <2>4
<1>5. ASSUME NEW k \in Messages, StartAttempt(k) PROVE Safe
  <2>1. k # m
    BY <1>1, <1>5 DEF StartAttempt
  <2>2. task'[m] = task[m] /\ batch' = batch
    BY <1>1, <1>5, <2>1 DEF StartAttempt, passVars
  <2> QED BY <1>2, <2>2
<1>6. ASSUME NEW k \in Messages, TransportDeliver(k) \/ TransportFails(k) \/ FinishTask(k)
      PROVE  Safe
  <2>1. task'[m] = task[m] \/ task'[m] \in {"ok", "retry", "none"}
    BY <1>1, <1>6 DEF TransportDeliver, TransportFails, FinishTask
  <2>2. batch' = batch
    BY <1>6 DEF TransportDeliver, TransportFails, FinishTask, passVars
  <2> QED BY <1>2, <2>1, <2>2 DEF Outcomes
<1>7. StorageError \/ SenderCrash => Safe
  <2>1. ASSUME StorageError PROVE Safe
    <3>1. task'[m] = task[m] \/ task'[m] = "none"
      BY <1>1, <2>1 DEF StorageError
    <3>2. batch' = batch \/ batch' = <<>>
      BY <2>1 DEF StorageError, LeavePass, passVars
    <3> QED BY <1>2, <3>1, <3>2
  <2>2. ASSUME SenderCrash PROVE Safe
    BY <1>1, <1>2, <2>2 DEF SenderCrash, LeavePass
  <2> QED BY <2>1, <2>2
<1>8. CASE UNCHANGED <<task, batch>>
  BY <1>2, <1>8
<1>9. Environment \/ Worker \/ Recipient \/ UNCHANGED vars
  BY DEF Next
<1>10. CASE Environment
  BY <1>7, <1>8, <1>10
     DEF Environment, QueueOutgoingDm, ProcessOutgoingAck, BackoffElapses, LeaseElapses,
         EnvelopeExpires, Lose, DeleteChatHistory, ChangeAuthorisation, StorageOpen,
         NetworkChanged, worker, passVars
<1>11. CASE Worker
  <2>1. ASSUME EndPass PROVE Safe
    BY <1>2, <2>1 DEF EndPass, LeavePass
  <2>2. ASSUME NEW p \in Peers \cup {AllPeers}, BeginPass(p) PROVE Safe
    BY <1>8, <2>2 DEF BeginPass
  <2>3. RepairProjections \/ RecoverStaleLeases => Safe
    BY <1>8 DEF RepairProjections, RecoverStaleLeases
  <2> QED BY <1>3, <1>4, <1>5, <1>6, <1>11, <2>1, <2>2, <2>3 DEF Worker
<1>12. CASE Recipient \/ UNCHANGED vars
  BY <1>8, <1>12 DEF Recipient, ReceiveDeliver, NextEnvelope, AcceptEnvelope, LoadFails, SaveFails, ProjectAndAck,
                     RecipientCrash, vars, worker, passVars
<1> QED BY <1>9, <1>10, <1>11, <1>12

\* A row whose attempt is running is never claimed or scheduled again, even
\* after its lease lapsed or was cleared by another Storage::open.
THEOREM ClaimedOnce == Spec => NoClaimWhileRunning
<1> DEFINE A == \A m \in Running :
                  task'[m] # "queued" /\ (m \in Range(batch') => m \in Range(batch))
<1>1. TypeInv /\ TaskInv /\ [Next]_vars => [A]_vars
  BY ClaimStep
<1>2. Spec => [][A]_vars
  <2> HIDE DEF A
  <2> QED BY <1>1, TaskInvariant, TypeInit, TypeStep, PTL DEF Spec
<1> QED BY <1>2 DEF NoClaimWhileRunning
-----------------------------------------------------------------------------
(***************************************************************************)
(* The promise to the users.                                               *)
(*                                                                         *)
(* What has left any trace outside the tables has a retry row, and         *)
(* an acknowledged message has been retired by its acknowledgement.        *)
(***************************************************************************)
Traced(m) ==
  \/ m \in accepted \cup deliverNet
  \/ \E p \in Peers : \E i \in 1..Len(inboxQueue[p]) : inboxQueue[p][i] = m
  \/ task[m] # "none"
  \/ \E i \in 1..Len(batch) : batch[i] = m

TraceInv ==
  \A m \in Messages : /\ Traced(m) => status[m] # "NoRow"
                      /\ canon[m] = "acked" => status[m] = "Acked"

\* A row is never taken out of the outbox.
LEMMA RowsRemain ==
  ASSUME TypeInv, [Next]_vars, NEW m \in Messages, status[m] # "NoRow"
  PROVE  status'[m] # "NoRow"
<1> USE DEF TypeInv, TypeOK
<1>1. CASE UNCHANGED status
  BY <1>1
<1>2. ASSUME NEW k \in Messages, QueueOutgoingDm(k) PROVE status'[m] # "NoRow"
  BY <1>2 DEF QueueOutgoingDm
<1>3. ASSUME NEW k \in Messages, ProcessOutgoingAck(k) PROVE status'[m] # "NoRow"
  BY <1>3 DEF ProcessOutgoingAck
<1>4. StorageOpen \/ SenderCrash => status'[m] # "NoRow"
  BY DEF StorageOpen, SenderCrash, RecoverCrashState
<1>5. RepairProjections => status'[m] # "NoRow"
  BY DEF RepairProjections
<1>6. ASSUME NEW k \in Messages, FinishTask(k) PROVE status'[m] # "NoRow"
  <2>1. status'[m] = status[m] \/ status'[m] = FinishedStatus(task[m])
    BY <1>6 DEF FinishTask, FinishOutboxAttempt
  <2> QED BY <2>1 DEF FinishedStatus
<1>7. Environment \/ Worker \/ Recipient \/ UNCHANGED vars
  BY DEF Next
<1>8. CASE Environment
  BY <1>1, <1>2, <1>3, <1>4, <1>8
     DEF Environment, BackoffElapses, LeaseElapses, EnvelopeExpires, Lose,
         DeleteChatHistory, ChangeAuthorisation, NetworkChanged, StorageError, sender, rows
<1>9. CASE Worker
  BY <1>1, <1>5, <1>6, <1>9
     DEF Worker, BeginPass, RecoverStaleLeases, ClaimRows, ScheduleRow, EndPass,
         StartAttempt, TransportDeliver, TransportFails, sender, rows
<1>10. CASE Recipient \/ UNCHANGED vars
  BY <1>1, <1>10 DEF Recipient, ReceiveDeliver, NextEnvelope, AcceptEnvelope, LoadFails, SaveFails,
                     ProjectAndAck, RecipientCrash, vars, sender, rows
<1> QED BY <1>7, <1>8, <1>9, <1>10

\* The first trace of a message is its claim.
LEMMA FirstTrace ==
  ASSUME TypeInv, [Next]_vars, NEW m \in Messages, Traced(m)'
  PROVE  Traced(m) \/ status[m] \in Open
<1> USE DEF TypeInv, TypeOK, Traced
<1>1. CASE UNCHANGED <<recipient, deliverNet>> /\ batch' \in {batch, <<>>}
             /\ (task[m] = "none" => task'[m] = "none")
  BY <1>1 DEF recipient
<1>2. CASE ClaimRows
  <2>1. PICK n \in 1..ClaimSize : \E q \in [1..n -> Claimable] : batch' = q
    BY <1>2 DEF ClaimRows
  <2>2. PICK q \in [1..n -> Claimable] : batch' = q
    BY <2>1
  <2>3. ClaimSize \in Int
    BY OutboxAssumption DEF ClaimSize, PassLimit
  <2>4. n \in Nat /\ Len(batch') = n
    BY <2>2, <2>3
  <2>5. \A i \in 1..Len(batch') : status[batch'[i]] \in Open
    BY <2>2, <2>4 DEF Claimable
  <2>6. UNCHANGED <<recipient, deliverNet, task>>
    BY <1>2 DEF ClaimRows, wires
  <2> QED BY <2>5, <2>6 DEF recipient
<1>3. CASE ScheduleRow
  <2>1. /\ Len(batch) \in Nat /\ Len(batch) # 0 /\ Head(batch) = batch[1]
        /\ Len(Tail(batch)) = Len(batch) - 1
        /\ \A i \in 1..(Len(batch) - 1) : Tail(batch)[i] = batch[i + 1]
    BY <1>3 DEF ScheduleRow
  <2>2. task'[m] # task[m] => m = batch[1]
    BY <1>3, <2>1 DEF ScheduleRow
  <2>3. batch' = Tail(batch) /\ UNCHANGED <<recipient, deliverNet>>
    BY <1>3 DEF ScheduleRow, wires
  <2>4. 1 \in 1..Len(batch) /\ \A i \in 1..(Len(batch) - 1) : i + 1 \in 1..Len(batch)
    BY <2>1
  <2>5. CASE m \in accepted' \cup deliverNet'
               \/ \E p \in Peers : \E i \in 1..Len(inboxQueue'[p]) : inboxQueue'[p][i] = m
    BY <2>3, <2>5 DEF recipient
  <2>6. CASE task'[m] # "none"
    BY <2>2, <2>4, <2>6
  <2>7. ASSUME NEW i \in 1..Len(batch'), batch'[i] = m PROVE Traced(m)
    <3>1. i \in 1..(Len(batch) - 1) /\ batch[i + 1] = m
      BY <2>1, <2>3, <2>7
    <3> QED BY <2>4, <3>1
  <2> QED BY <2>5, <2>6, <2>7
<1>4. ASSUME NEW k \in Messages, StartAttempt(k) PROVE Traced(m) \/ status[m] \in Open
  BY <1>4 DEF StartAttempt, passVars, wires, recipient
<1>5. ASSUME NEW k \in Messages, TransportDeliver(k) \/ TransportFails(k)
      PROVE  Traced(m) \/ status[m] \in Open
  BY <1>5 DEF TransportDeliver, TransportFails, passVars, recipient
<1>6. ASSUME NEW k \in Messages, ReceiveDeliver(k) PROVE Traced(m) \/ status[m] \in Open
  <2>1. CASE m \in accepted' \cup deliverNet' \/ task'[m] # "none"
               \/ \E i \in 1..Len(batch') : batch'[i] = m
    BY <1>6, <2>1 DEF ReceiveDeliver, worker, passVars
  <2>2. ASSUME NEW p \in Peers, NEW i \in 1..Len(inboxQueue'[p]), inboxQueue'[p][i] = m
        PROVE  Traced(m)
    <3>1. inboxQueue'[p] \in {inboxQueue[p], Append(inboxQueue[p], k)} /\ k \in deliverNet
      BY <1>6 DEF ReceiveDeliver
    <3> DEFINE q == inboxQueue[p]
    <3>2. q \in Seq(Messages) /\ Len(q) \in Nat
      OBVIOUS
    <3>3. CASE inboxQueue'[p] = q
      BY <2>2, <3>3
    <3>4. CASE inboxQueue'[p] = Append(q, k)
      <4>1. i \in 1..(Len(q) + 1) /\ Append(q, k)[i] = IF i <= Len(q) THEN q[i] ELSE k
        BY <3>2, <3>4
      <4>2. CASE i <= Len(q)
        <5>1. i \in 1..Len(q) /\ q[i] = m
          BY <2>2, <3>2, <3>4, <4>1, <4>2
        <5> QED BY <5>1
      <4>3. CASE ~(i <= Len(q))
        BY <2>2, <3>1, <3>4, <4>1, <4>3
      <4> QED BY <4>2, <4>3
    <3> QED BY <3>1, <3>3, <3>4
  <2> QED BY <2>1, <2>2
<1>7. ASSUME NEW r \in Peers, AcceptEnvelope(r) \/ LoadFails(r) \/ SaveFails(r)
      PROVE  Traced(m) \/ status[m] \in Open
  <2>1. inboxQueue[r] \in Seq(Messages) /\ inboxQueue[r] # <<>>
    BY <1>7 DEF AcceptEnvelope, LoadFails, SaveFails, NextEnvelope
  <2>2. /\ Len(inboxQueue[r]) \in Nat \ {0} /\ 1 \in 1..Len(inboxQueue[r])
        /\ Head(inboxQueue[r]) = inboxQueue[r][1]
        /\ Len(Tail(inboxQueue[r])) = Len(inboxQueue[r]) - 1
        /\ \A i \in 1..Len(Tail(inboxQueue[r])) :
             i + 1 \in 1..Len(inboxQueue[r]) /\ Tail(inboxQueue[r])[i] = inboxQueue[r][i + 1]
    BY <2>1
  <2>3. /\ inboxQueue' = [inboxQueue EXCEPT ![r] = Tail(inboxQueue[r])]
        /\ accepted' \subseteq accepted \cup {inboxQueue[r][1]}
        /\ UNCHANGED <<deliverNet, task, batch>>
    BY <1>7, <2>2 DEF AcceptEnvelope, LoadFails, SaveFails, NextEnvelope, worker, passVars, wires
  <2>4. ASSUME NEW p \in Peers, NEW i \in 1..Len(inboxQueue'[p]), inboxQueue'[p][i] = m
        PROVE  Traced(m)
    BY <2>2, <2>3, <2>4
  <2> QED BY <2>2, <2>3, <2>4
<1>8. ASSUME NEW r \in Peers, ProjectAndAck(r) \/ RecipientCrash(r)
      PROVE  Traced(m) \/ status[m] \in Open
  <2>1. /\ \A p \in Peers : inboxQueue'[p] \in {inboxQueue[p], <<>>}
        /\ UNCHANGED <<accepted, deliverNet, task, batch>>
    BY <1>8 DEF ProjectAndAck, RecipientCrash, worker, passVars, wires
  <2> QED BY <2>1
<1>9. ASSUME NEW k \in Messages, Lose(k) PROVE Traced(m) \/ status[m] \in Open
  BY <1>9 DEF Lose, worker, passVars, recipient
<1>10. Environment \/ Worker \/ Recipient \/ UNCHANGED vars
  BY DEF Next
<1>11. CASE Environment
  <2>1. CASE StorageError \/ SenderCrash
    BY <1>1, <2>1 DEF StorageError, SenderCrash, LeavePass, passVars, wires
  <2>2. CASE StorageOpen \/ NetworkChanged
    BY <1>1, <2>2 DEF StorageOpen, NetworkChanged, passVars, wires
  <2>3. CASE \E k \in Messages : \/ QueueOutgoingDm(k) \/ ProcessOutgoingAck(k)
                                 \/ BackoffElapses(k) \/ LeaseElapses(k) \/ EnvelopeExpires(k)
    BY <1>1, <2>3 DEF QueueOutgoingDm, ProcessOutgoingAck, BackoffElapses, LeaseElapses,
                      EnvelopeExpires, worker, passVars, wires
  <2>4. CASE \E p \in Peers : DeleteChatHistory(p) \/ ChangeAuthorisation(p)
    BY <1>1, <2>4 DEF DeleteChatHistory, ChangeAuthorisation, worker, passVars, wires
  <2> QED BY <1>9, <1>11, <2>1, <2>2, <2>3, <2>4 DEF Environment
<1>12. CASE Worker
  <2>1. CASE RepairProjections \/ RecoverStaleLeases \/ EndPass
               \/ \E p \in Peers \cup {AllPeers} : BeginPass(p)
    BY <1>1, <2>1 DEF RepairProjections, RecoverStaleLeases, EndPass, LeavePass, BeginPass, wires
  <2>2. CASE \E k \in Messages : FinishTask(k)
    BY <1>1, <2>2 DEF FinishTask, wires
  <2> QED BY <1>2, <1>3, <1>4, <1>5, <1>12, <2>1, <2>2 DEF Worker
<1>13. CASE Recipient
  BY <1>6, <1>7, <1>8, <1>13 DEF Recipient
<1>14. CASE UNCHANGED vars
  BY <1>1, <1>14 DEF vars, worker, passVars, wires
<1> QED BY <1>10, <1>11, <1>12, <1>13, <1>14

LEMMA TraceStep ==
  TypeInv /\ ReceiptInv /\ RowInv /\ TraceInv /\ [Next]_vars => TraceInv'
<1> SUFFICES ASSUME TypeInv, ReceiptInv, RowInv, TraceInv, [Next]_vars, NEW m \in Messages
             PROVE  /\ Traced(m)' => status'[m] # "NoRow"
                    /\ canon'[m] = "acked" => status'[m] = "Acked"
  BY DEF TraceInv
<1>1. Traced(m)' => status'[m] # "NoRow"
  BY FirstTrace, RowsRemain DEF TraceInv, Open
<1>2. CASE canon[m] = "acked"
  <2>1. status[m] = "Acked"
    BY <1>2 DEF TraceInv
  <2> QED BY <1>1, <2>1, TerminalStep
<1>3. CASE canon[m] # "acked"
  <2> USE DEF TypeInv, TypeOK
  <2>1. CASE canon'[m] = canon[m]
    BY <1>1, <1>3, <2>1
  <2>2. ASSUME NEW k \in Messages, ProcessOutgoingAck(k), canon'[m] # canon[m]
        PROVE  status'[m] = "Acked"
    <3>1. m = k /\ m \in ackNet /\ status'[m] = IF status[m] = "NoRow" THEN "NoRow" ELSE "Acked"
      BY <2>2 DEF ProcessOutgoingAck
    <3>2. Traced(m)
      BY <3>1 DEF ReceiptInv, AckedOnlyIfAccepted, Traced
    <3> QED BY <3>1, <3>2 DEF TraceInv
  <2>3. ASSUME NEW k \in Messages, QueueOutgoingDm(k) PROVE canon'[m] # "acked"
    BY <1>3, <2>3 DEF QueueOutgoingDm
  <2>4. ASSUME NEW p \in Peers, DeleteChatHistory(p) PROVE canon'[m] # "acked"
    BY <1>3, <2>4 DEF DeleteChatHistory
  <2>5. Environment \/ Worker \/ Recipient \/ UNCHANGED vars
    BY DEF Next
  <2>6. CASE Environment
    BY <1>1, <2>1, <2>2, <2>3, <2>4, <2>6
       DEF Environment, BackoffElapses, LeaseElapses, EnvelopeExpires, Lose, StorageOpen,
           SenderCrash, ChangeAuthorisation, NetworkChanged, StorageError, sender
  <2>7. CASE Worker
    BY <1>1, <2>1, <2>7
       DEF Worker, BeginPass, RepairProjections, RecoverStaleLeases, ClaimRows, ScheduleRow,
           EndPass, StartAttempt, TransportDeliver, TransportFails, FinishTask, sender
  <2>8. CASE Recipient \/ UNCHANGED vars
    BY <1>1, <2>1, <2>8 DEF Recipient, ReceiveDeliver, NextEnvelope, AcceptEnvelope, LoadFails, SaveFails,
                            ProjectAndAck, RecipientCrash, vars, sender
  <2> QED BY <1>1, <2>5, <2>6, <2>7, <2>8
<1> QED BY <1>1, <1>2, <1>3

\* The states and steps in which the refinement is shown.
PromiseInv == TypeInv /\ ReceiptInv /\ RetryInv /\ RowInv /\ TraceInv

Same == UNCHANGED <<canon, envExpired, accepted, losses, shown>>

\* Who is retired depends on the status alone.
LEMMA SameRetired ==
  ASSUME \A m \in Messages : status'[m] \in {"Acked", "Expired"} <=> status[m] \in {"Acked", "Expired"}
  PROVE  Retired' = Retired
  BY DEF Retired

\* Passes, repairs, recoveries, crashes, lost packets and lapsed leases are no
\* steps of the promise.
LEMMA Unseen ==
  ASSUME Same, Retired' = Retired
  PROVE  UNCHANGED Promise!promise
  BY DEF Same, Promise!promise

LEMMA PromiseEnvironment ==
  ASSUME PromiseInv, Environment
  PROVE  [Promise!Next]_Promise!promise
<1> USE DEF PromiseInv, TypeInv, TypeOK
<1>1. CASE Same /\ UNCHANGED status
  BY <1>1, SameRetired, Unseen
<1>2. ASSUME NEW m \in Messages, QueueOutgoingDm(m) PROVE Promise!Queue(m)
  <2>1. status[m] = "NoRow"
    BY <1>2 DEF QueueOutgoingDm, RowInv
  <2>2. Retired' = Retired
    <3>1. status' = [status EXCEPT ![m] = "Pending"]
      BY <1>2 DEF QueueOutgoingDm
    <3> QED BY <2>1, <3>1, SameRetired
  <2> QED BY <1>2, <2>2 DEF QueueOutgoingDm, Promise!Queue, recipient
<1>3. ASSUME NEW m \in Messages, ProcessOutgoingAck(m)
      PROVE  Promise!Acknowledge(m) \/ UNCHANGED Promise!promise
  <2>1. UNCHANGED <<envExpired, accepted, losses, shown>>
    BY <1>3 DEF ProcessOutgoingAck, recipient
  <2>2. CASE canon[m] = "unacked" /\ m \in dmOutbox
    <3>1. m \in accepted /\ status[m] # "NoRow"
      BY <1>3 DEF ProcessOutgoingAck, ReceiptInv, AckedOnlyIfAccepted, TraceInv, Traced
    <3>2. /\ canon' = [canon EXCEPT ![m] = "acked"]
          /\ status' = [status EXCEPT ![m] = "Acked"]
      BY <1>3, <2>2, <3>1 DEF ProcessOutgoingAck
    <3>3. Retired' = Retired \cup {m}
      BY <3>2 DEF Retired
    <3> QED BY <2>1, <2>2, <3>1, <3>2, <3>3 DEF Promise!Acknowledge
  <2>3. CASE ~(canon[m] = "unacked" /\ m \in dmOutbox)
    BY <1>3, <2>1, <2>3, SameRetired, Unseen DEF ProcessOutgoingAck, Same
  <2> QED BY <2>2, <2>3
<1>4. ASSUME NEW m \in Messages, EnvelopeExpires(m) PROVE Promise!Outdate(m)
  <2>1. Retired' = Retired
    BY <1>4, SameRetired DEF EnvelopeExpires, sender, rows
  <2> QED BY <1>4, <2>1 DEF EnvelopeExpires, Promise!Outdate, sender, recipient
<1>5. ASSUME NEW p \in Peers, DeleteChatHistory(p)
      PROVE  Promise!Delete(p)
  <2>1. Retired' = Retired
    BY <1>5, SameRetired DEF DeleteChatHistory, rows
  <2>2. canon' = [m \in Messages |-> IF RecipientOf[m] = p /\ canon[m] # "absent"
                                      THEN "deleted" ELSE canon[m]]
    BY <1>5 DEF DeleteChatHistory
  <2> QED BY <1>5, <2>1, <2>2 DEF DeleteChatHistory, Promise!Delete, recipient
<1>6. CASE StorageOpen \/ SenderCrash
  <2>1. status' = [m \in Messages |-> IF status[m] = "Sent" THEN "Pending" ELSE status[m]]
    BY <1>6 DEF StorageOpen, SenderCrash, RecoverCrashState
  <2>2. Retired' = Retired
    BY <2>1, SameRetired
  <2>3. Same
    BY <1>6 DEF StorageOpen, SenderCrash, Same, recipient
  <2> QED BY <2>2, <2>3, Unseen
<1>7. CASE StorageError \/ NetworkChanged
  BY <1>1, <1>7 DEF StorageError, NetworkChanged, Same, sender, rows, recipient
<1>8. ASSUME NEW m \in Messages, BackoffElapses(m) \/ LeaseElapses(m) \/ Lose(m)
      PROVE  UNCHANGED Promise!promise
  <2>1. Same /\ UNCHANGED status
    BY <1>8 DEF BackoffElapses, LeaseElapses, Lose, Same, sender, rows, recipient
  <2> QED BY <2>1, SameRetired, Unseen
<1>9. ASSUME NEW p \in Peers, ChangeAuthorisation(p) PROVE UNCHANGED Promise!promise
  <2>1. Same /\ UNCHANGED status
    BY <1>9 DEF ChangeAuthorisation, Same, sender, rows, recipient
  <2> QED BY <2>1, SameRetired, Unseen
<1> QED BY <1>2, <1>3, <1>4, <1>5, <1>6, <1>7, <1>8, <1>9 DEF Environment, Promise!Next

\* Of all that the worker does only the end of an attempt on an outdated
\* envelope is a step of the promise.
LEMMA PromiseWorker ==
  ASSUME PromiseInv, Worker
  PROVE  [Promise!Next]_Promise!promise
<1> USE DEF PromiseInv, TypeInv, TypeOK
<1>1. ASSUME Same, UNCHANGED status PROVE UNCHANGED Promise!promise
  BY <1>1, SameRetired, Unseen
<1>2. CASE RepairProjections
  <2>1. Same
    BY <1>2 DEF RepairProjections, Same, recipient
  <2>2. \A m \in Messages : \/ status'[m] = status[m]
                            \/ status[m] = "NoRow" /\ status'[m] = "Pending"
    BY <1>2 DEF RepairProjections
  <2>3. Retired' = Retired
    BY <2>2, SameRetired
  <2> QED BY <2>1, <2>3, Unseen
<1>3. CASE RecoverStaleLeases \/ ClaimRows \/ ScheduleRow \/ EndPass
             \/ \E p \in Peers \cup {AllPeers} : BeginPass(p)
  <2>1. Same /\ UNCHANGED status
    BY <1>3 DEF RecoverStaleLeases, ClaimRows, ScheduleRow, EndPass, BeginPass, Same,
                sender, rows, recipient
  <2> QED BY <1>1, <2>1
<1>4. ASSUME NEW m \in Messages, StartAttempt(m) \/ TransportDeliver(m) \/ TransportFails(m)
      PROVE  UNCHANGED Promise!promise
  <2>1. Same /\ UNCHANGED status
    BY <1>4 DEF StartAttempt, TransportDeliver, TransportFails, Same, sender, rows, recipient
  <2> QED BY <1>1, <2>1
<1>5. ASSUME NEW m \in Messages, FinishTask(m)
      PROVE  Promise!GiveUp(m) \/ UNCHANGED Promise!promise
  <2>1. Same
    BY <1>5 DEF FinishTask, Same, recipient
  <2>2. CASE UNCHANGED status
    BY <1>1, <2>1, <2>2
  <2>3. CASE status' # status
    <3>1. lease[m] # "free" /\ status' = [status EXCEPT ![m] = FinishedStatus(task[m])]
      BY <1>5, <2>3 DEF FinishTask, FinishOutboxAttempt
    <3>2. status[m] \in Open
      BY <3>1 DEF RowInv
    <3>3. CASE task[m] = "expired"
      <4>1. m \in envExpired
        BY <3>3 DEF RetryInv
      <4>2. canon[m] \in {"unacked", "deleted"}
        BY <3>2 DEF RowInv, TraceInv, Open
      <4>3. Retired' = Retired \cup {m}
        BY <3>1, <3>3 DEF Retired, FinishedStatus
      <4> QED BY <2>1, <4>1, <4>2, <4>3 DEF Promise!GiveUp, Same
    <3>4. CASE task[m] # "expired"
      <4>1. FinishedStatus(task[m]) \in {"Sent", "Pending"}
        BY <3>4 DEF FinishedStatus
      <4>2. Retired' = Retired
        BY <3>1, <3>2, <4>1, SameRetired DEF Open
      <4> QED BY <2>1, <4>2, Unseen
    <3> QED BY <3>3, <3>4
  <2> QED BY <2>2, <2>3
<1> QED BY <1>2, <1>3, <1>4, <1>5 DEF Worker, Promise!Next

\* At the recipient, storing and showing are.
LEMMA PromiseRecipient ==
  ASSUME PromiseInv, Recipient
  PROVE  [Promise!Next]_Promise!promise
<1> USE DEF PromiseInv, TypeInv, TypeOK
<1>1. Retired' = Retired /\ UNCHANGED <<canon, envExpired>>
  BY SameRetired DEF Recipient, ReceiveDeliver, NextEnvelope, AcceptEnvelope, LoadFails, SaveFails, ProjectAndAck,
                     RecipientCrash, sender, rows
<1>2. ASSUME NEW p \in Peers, AcceptEnvelope(p) \/ LoadFails(p)
      PROVE  \/ UNCHANGED Promise!promise
             \/ \E m \in Messages : Promise!Store(m) \/ Promise!StoreAnew(m)
  <2>1. inboxQueue[p] \in Seq(Messages) /\ inboxQueue[p] # <<>> /\ UNCHANGED shown
    BY <1>2 DEF AcceptEnvelope, LoadFails, NextEnvelope
  <2>2. PICK m \in Messages : m = inboxQueue[p][1] /\ m = Head(inboxQueue[p])
                                /\ 1 \in 1..Len(inboxQueue[p])
    BY <2>1
  <2>3. canon[m] # "absent" /\ RecipientOf[m] = p
    BY <2>2 DEF TraceInv, Traced, RowInv, ReceiptInv
  <2>4. CASE AcceptEnvelope(p) /\ m \in envExpired
    BY <1>1, <2>1, <2>2, <2>4, Unseen DEF AcceptEnvelope, Same
  <2>5. CASE AcceptEnvelope(p) /\ m \notin envExpired
    <3>1. accepted' = accepted \cup {m} /\ UNCHANGED losses
      BY <2>2, <2>5 DEF AcceptEnvelope
    <3> QED BY <1>1, <2>1, <2>3, <2>5, <3>1 DEF Promise!Store
  <2>6. CASE LoadFails(p)
    <3>1. /\ m \notin envExpired /\ accepted' = accepted \cup {m}
          /\ losses' = [losses EXCEPT ![p] = @ + 1]
      BY <2>2, <2>6 DEF LoadFails
    <3> QED BY <1>1, <2>1, <2>3, <3>1 DEF Promise!StoreAnew
  <2> QED BY <1>2, <2>4, <2>5, <2>6
<1>3. ASSUME NEW p \in Peers, ProjectAndAck(p)
      PROVE  UNCHANGED Promise!promise \/ \E m \in Messages : Promise!Show(m)
  <2>1. handling[p] \in Messages /\ handling[p] \in accepted /\ UNCHANGED <<accepted, losses>>
    BY <1>3 DEF ProjectAndAck, ReceiptInv
  <2>2. CASE fresh[p]
    <3>1. RecipientOf[handling[p]] = p /\ shown[handling[p]] <= losses[p]
      BY <2>1, <2>2, OutboxAssumption DEF ReceiptInv
    <3>2. shown' = [shown EXCEPT ![handling[p]] = @ + 1]
      BY <1>3, <2>2 DEF ProjectAndAck
    <3> QED BY <1>1, <2>1, <3>1, <3>2 DEF Promise!Show
  <2>3. CASE ~fresh[p]
    BY <1>1, <1>3, <2>1, <2>3, Unseen DEF ProjectAndAck, Same
  <2> QED BY <2>2, <2>3
<1>4. ASSUME NEW p \in Peers, SaveFails(p) \/ RecipientCrash(p) PROVE UNCHANGED Promise!promise
  BY <1>1, <1>4, Unseen DEF SaveFails, NextEnvelope, RecipientCrash, Same
<1>5. ASSUME NEW m \in Messages, ReceiveDeliver(m) PROVE UNCHANGED Promise!promise
  BY <1>1, <1>5, Unseen DEF ReceiveDeliver, Same
<1> QED BY <1>2, <1>3, <1>4, <1>5 DEF Recipient, Promise!Next

\* Delivery implements DirectMessages for any messages, recipients and limits and
\* any number of crashes: at every step the two users see at most what that
\* specification allows (queue_outgoing_dm, process_outgoing_ack,
\* finish_outbox_attempt, accept_incoming_with_status, EnvelopeReceived).
THEOREM DeliveryKeepsPromise == Spec => KeepsPromise
<1>1. Init => TraceInv /\ Promise!Init
  BY DEF Init, TraceInv, Traced, Promise!Init, Retired
<1>2. Spec => []PromiseInv
  <2>1. Init => RetryInv
    BY DEF Init, RetryInv, UnackedStaysRetryable
  <2> QED BY <1>1, <2>1, TypeInit, TypeStep, ReceiptInvariant, RowInvariant, RetryStep,
             TraceStep, PTL DEF Spec, PromiseInv
<1>3. PromiseInv /\ [Next]_vars => [Promise!Next]_Promise!promise
  <2> SUFFICES ASSUME PromiseInv, [Next]_vars PROVE [Promise!Next]_Promise!promise
    OBVIOUS
  <2>1. CASE UNCHANGED vars
    BY <2>1, SameRetired, Unseen DEF vars, sender, rows, recipient, Same
  <2> QED BY <2>1, PromiseEnvironment, PromiseWorker, PromiseRecipient DEF Next
<1> QED BY <1>1, <1>2, <1>3, PTL DEF Spec, KeepsPromise, Promise!Spec

=============================================================================
