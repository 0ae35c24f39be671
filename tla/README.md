# Verification of boru

TLA+ models of boru's own protocol logic, TLC runs that check them on small
instances and TLAPS proofs for every size. Paths below are relative to the
repository; `outbox_delivery.rs` stands for `src/src/outbox_delivery.rs` and so on.

| Module | Contents |
|---|---|
| `OutboxDelivery` | durable delivery of direct messages: tables, worker, inbox, recipient |
| `DirectMessages` | what delivery promises the two users of a conversation; `OutboxDelivery` implements it |
| `MCOutboxDelivery` | instances of it for TLC |
| `OutboxDeliveryProofs` | its theorems, the refinement among them |
| `Plumtree` | the epidemic broadcast tree of one gossip topic |
| `Flooding` | what it promises: who may be given which message; `Plumtree` implements it |
| `PlumtreeRepair` | a broadcast that runs alone over what earlier ones left |
| `MCPlumtree` | overlays, symmetry and scheduling constraints for TLC |
| `PlumtreeProofs` | theorems about its timers, queues and records |
| `PlumtreeStreamProofs` | theorems about what travels between its nodes |
| `PlumtreeTreeProofs` | theorems about what broadcasts achieve: delivery, spanning trees, the refinement |
| `HyParView` | the membership layer of one gossip topic |
| `MCHyParView`, `HyParViewProofs` | its nodes for TLC; types and well-formed views |
| `HyParViewMutualProofs` | views agree while nothing fails |
| `Calls` | call signalling between the call actors of several nodes |
| `CallLifecycle` | what the actors promise their applications; `Calls` implements it |
| `MCCalls`, `CallsProofs` | who may call whom, for TLC; the theorems, the refinement among them |
| `Friendship` | friend requests, relationships, and how both are saved |
| `MCFriendship`, `FriendshipProofs` | its peers for TLC; its theorems |

To repeat the work, in this directory: `tlc -config Outbox.cfg MCOutboxDelivery`
and likewise for the other configurations, each with the MC module of its
component; `tlapm OutboxDeliveryProofs.tla` and likewise for the other `*Proofs` modules.

## 1. Inventory

boru is a peer-to-peer chat application on iroh (QUIC connections between public
keys). Three areas carry its own protocol logic.

**Gossip.** A topic is a swarm of peers. `proto/` is a pure state machine
(events in, events out), `net/` the actor that runs it.

| Component | State | Operations | Hard part | Correct means |
|---|---|---|---|---|
| Plumtree (`proto/plumtree.rs`) | eager and lazy push peers, queued announcements, announcers of missing payloads, seen ids, payload cache, timer flags | broadcast, on_gossip, on_prune, on_ihave, on_graft, three timers, neighbour up and down | flags that stand for timers; links that change between a payload and its announcement; crossing broadcasts that prune the same link at both ends | every payload reaches everyone once; no payload is forgotten; no timer is lost |
| HyParView (`proto/hyparview.rs`) | active and passive view, pending neighbour requests, marks of announced disconnects | join, forward-join, neighbour, shuffle, disconnect, peer disconnected | requests that cross; capacity with pending requests; marks that outlive their connection | views stay bounded and disjoint; links become symmetric; who joins gets a neighbour |
| Topic and multiplexer (`proto/topic.rs`, `proto/state.rs`) | the two machines of a topic; peers to topics | route events and messages, close connections | a peer shared by several topics | a connection is open while some topic uses it |
| Network actor (`net/actor.rs`, `peer.rs`, `util.rs`, `dialer.rs`) | peer states, send queues, timers, connections | dial, accept, retry, write, read | bounded channels in a cycle, replacement connections, cool-downs | messages go to the live connection, nobody waits on everybody |

**Durable direct messages.** The sender keeps a message until its recipient
acknowledged it.

| Component | State | Operations | Hard part | Correct means |
|---|---|---|---|---|
| SQLite rows (`storage/conversation.rs`, `storage/schema.rs`) | `dm_messages`, `dm_outbox`, `outbox` | queue, claim, finish, acknowledge, repair, recover, delete | crash recovery runs on a live database; acknowledgements race completions | a finished row is not revived; an unfinished one not lost |
| Worker (`outbox_delivery.rs`) | leases, batch, tasks, generation | full and per-peer passes, attempts, backoff | one clock reading per pass; path changes under running attempts | one delivery per recipient at a time; passes end; messages arrive |
| Inbox protocol (`inbox.rs`) | bounded event channel | Deliver, Ack, Sync | loss, duplication, a full channel | what is acknowledged was kept |
| Mailbox (`mailbox.rs`, `bin/boru/app/chat.rs`) | accepted envelopes and dedup records | accept, save, reload, show, acknowledge | a crash between save and show, a failing save, an unreadable file | one bubble per message as long as the mailbox can be read |

**Calls and contacts.**

| Component | State | Operations | Hard part | Correct means |
|---|---|---|---|---|
| Calls (`call/manager.rs`, `session.rs`, `wire.rs`) | sessions per call id, wire session tasks, authorised peers | start, offer, accept, reject, busy, hangup, timeout, closed connection, revoke, shut down | causes that end one call at once; calls that cross; reports that outlive their call | one terminal event; no half-open call; no call rings for ever |
| Friend requests (`friend_request.rs`, `friends.rs`, `bin/boru/app/contacts.rs`, `chat.rs`) | pending requests, relationships, a dirty mark, two files | ask, accept, decline, cancel, chat, block, receive | acceptance and chat share a message; saves that overtake each other or fail; crashes between steps; unreadable files | nobody becomes a friend alone; requests and answers are not lost; a block counts |

**Everything else**: whisper sessions (`whisper/`), group encryption and epochs
(`group_*`), mailbox synchronisation and backfill, pairing, downloads and file
offers, discovery and DHT trackers, the control plane, room documents, tunnels,
screen sharing, companion devices, diagnostics and the desktop user interface
(two thirds of the code). `PROJECT.json` lists each with what it would take or
why it is left out. Vendored crates (`patched/`), mobile shells, fuzz targets and
simulations are not parts of the program's logic.

**How they interact.** The network actor feeds connection events, messages and
expired timers to the multiplexer, which routes them to a topic. The topic hands
HyParView's `NeighborUp` and `NeighborDown` to Plumtree, and Plumtree's
`Received` to the application. Independently of gossip, the application queues a direct
message in one transaction, the worker polls (every 30 s, on path changes, and
per peer on reachability hints), opens an inbox connection per attempt, and the
recipient's application accepts, saves, shows and acknowledges over a connection
of its own. SQLite is shared by the worker, the acknowledgement handler, the user
interface and every further `Storage::open`. The inbox admits a peer by the
relationship stored in SQLite, the call actor by a set the application keeps in
step with the relationships. Friend requests and invites are control messages of the
whisper transport, one QUIC stream each.

## 2. Direct-message delivery: `OutboxDelivery`

### State and actions

Sender tables: `canon` and `envelope` (`dm_messages`: the row, and whether it holds an
envelope), `dmOutbox`, and `status`, `due`, `lease`, `rowids` for `outbox`; `retried` is a history of rewritten due times that the
claim order needs. Worker memory: `pc`, `passPeer`,
`passDue`, `passStale`, `attempted`, `batch`, `scheduled`, `task`, `obsolete`.
Wires: `deliverNet`, `ackNet`. Recipients: `inboxQueue` and `handling`, `fresh`
(memory), `mailbox` (what the saved file holds), `accepted` (history: what it ever held),
`losses` (history: how often the file was unreadable and replaced) and `shown`.

A database of an older version may hold message rows without their outbox rows. Migration
v28 could fill the envelope column only from `dm_outbox`, so such a row may lack the
envelope as well; then nothing repairs it (`conversation.rs:714`) and nothing can send it.
`Init` has all of these, and `UnackedStaysRetryable` and `EventuallyAcked` except the last.

| Action | Code |
|---|---|
| `QueueOutgoingDm`, `DeleteChatHistory`, `ProcessOutgoingAck` | the transactions of `conversation.rs` |
| `BeginPass`, `RepairProjections`, `RecoverStaleLeases`, `ClaimRows`, `ScheduleRow`, `EndPass` | `run_with_reconnects`, `run_once`, `run_once_for_peer` and the statements they run |
| `StartAttempt`, `TransportDeliver`, `TransportFails`, `FinishTask` | the policy check, `send_deliver`, and the completion with `finish_outbox_attempt` |
| `StorageOpen`, `SenderCrash` | `recover_crash_state`, on a live database and after a restart |
| `StorageError`, `NetworkChanged` | a failing statement, which ends the pass; a new generation |
| `ReceiveDeliver`, `AcceptEnvelope`, `LoadFails`, `SaveFails`, `ProjectAndAck`, `RecipientCrash` | the inbox handler and the `EnvelopeReceived` handler, split where the program can stop |
| `BackoffElapses`, `LeaseElapses`, `EnvelopeExpires`, `ChangeAuthorisation`, `Lose` | time, the contact policy, the network |

### What is abstracted

- Deadlines are facts that become true at an arbitrary moment, which covers every
  length of a backoff, a lease or a lifetime. A pass reads the clock once, so what
  is due and what has lapsed is fixed when it begins (`passDue`, `passStale`). The
  heartbeat that extends a lease is then a stutter.
- `max_concurrent` of 1 takes the sequential path, which claims one row at a time:
  `BatchSize = 1`. The application uses 4.
- `expire_outbox` and `recover_stale_sending` match no direct-message row, and
  `claim_pending_deliveries`, `retry_outbox_now`, `wake_outbox_for_peer` and the
  `mark_*` calls are not used for them.
- A failing lease release has the effects of `StorageError`. A refused
  delivery or acknowledgement, and one dropped at a full channel, is lost (`Lose`).
- Signatures, encryption and quotas are left out.

### Runs

| Run | Instance | Distinct states | Shows |
|---|---|---|---|
| `Outbox` | 1 message, all events but hints, 1 fault, under `FairSpec` | 340,296 | `TypeOK`, `AckedOnlyIfAccepted`, `PresentedOncePerMailbox`, `UnackedStaysRetryable`, `TerminalRowsStayTerminal`, `NoClaimWhileRunning`, `KeepsPromise`, `PassTerminates`, `EventuallyAcked` |
| `OutboxSamePeer` | 2 messages to one peer, hints | 1,181,849 | `OneInFlightPerPeer` |

One message is enough for the races between acknowledgement, completion,
recovery, deletion and repair: all of them write the row of one message. Two
messages to one recipient are the least for order and slots. The claim limit of 2
lets one pass attempt the same row again, and a channel of capacity 1 is full with one
envelope. One fault is a crash of either side, a storage error, or a mailbox file that
cannot be read or written; the theorems remove these bounds from the safety properties.

`PresentedOncePerMailbox` is not "at most one bubble": the application swallows the error
of a mailbox it cannot read, goes on with an empty one and saves that over the old file
(`chat.rs:7247`). Each such loss may show a resent message once more, and nothing
else may.

**Fairness** (`Outbox`). Tasks that can run do run, since tokio polls ready tasks;
deadlines pass; the full pass starts again since the 30 s sleep ends.
The network is unreliable but not for ever: an envelope that is sent again and
again is eventually written, one that keeps arriving eventually finds room in the
channel, an acknowledgement that is sent again and again eventually arrives
(strong fairness). Reachability hints are excluded: `run_with_reconnects` creates
its sleep anew in every turn, so endless hints starve the full pass (listed as a
hazard). Faults are finite.

### Where the code and its documentation differ

These were seen while modelling; the model has the code's behaviour and the properties
are stated so that they hold of it.

- `delete_chat_history` says it removes the chat-owned records of a conversation
  (`conversation.rs:1650`). The `outbox` rows stay, and are attempted for ever: every attempt
  fails, since the message is gone.
- "A duplicate is acknowledged but never creates another bubble" (`chat.rs:7285`). After a
  mailbox that could not be read it does, which is why `PresentedOncePerMailbox` counts
  mailboxes.
- "recipient is no longer authorized" matches no terminal text, so the row is retried,
  where the documentation says delivery stops after a permanent authorization error
  (`outbox_delivery.rs:785`).
- A row becomes `Sent` when the bytes were written, not after a verified acknowledgement
  (`inbox.rs:982`).
- A crash between save and show leaves an acknowledged message unseen, where exactly-once
  presentation is promised (`chat.rs:7289`).

### Proofs: `OutboxDeliveryProofs`

For any messages, recipients, limits, events and number of faults, from
`OutboxAssumption` (limits are positive, every message has a recipient).

| Theorem | States | Rests on |
|---|---|---|
| `TypeCorrect` | `[]TypeOK` | `TypeInv`: and a row is in hand while the pass schedules |
| `AckedImpliesAccepted` | `[]AckedOnlyIfAccepted` | `ReceiptInv` |
| `OneBubblePerMailbox` | `[]PresentedOncePerMailbox` | `ReceiptInv` |
| `TerminalRows` | `TerminalRowsStayTerminal` | `RowInv` |
| `UnackedRetryable` | `[]UnackedStaysRetryable` | `RetryInv` |
| `OneInFlight` | `[]OneInFlightPerPeer` | `TaskInv` |
| `ClaimedOnce` | `NoClaimWhileRunning` | `TaskInv` |
| `DeliveryKeepsPromise` | `KeepsPromise`, the refinement | `PromiseInv`: all of these but `TaskInv`, and `TraceInv` |

- `ReceiptInv`: an envelope being handled is in the saved mailbox; what the mailbox does not hold,
  and a fresh envelope, was shown at most once for every mailbox lost before. Without the
  part on fresh envelopes the save-then-show sequence could show twice.
- `RowInv`: absent and terminal rows carry no lease, so no claim reaches them.
- `RetryInv`: a task that will report expiry belongs to an envelope whose lifetime is over,
  since the completion may come long after the check.
- `TaskInv`: rows of the batch are distinct and have no task; between passes no
  task is left; tasks of one recipient's rows in one batch are excluded by
  `scheduled`, and a per-peer pass holds one row. The lease is not needed:
  that tasks are drained before the next claim is what protects running attempts.
- `TraceInv`: a message that left any trace outside the tables (in a batch, a
  task, the network, a channel or a mailbox) has a retry row, and the row of an
  acknowledged message is `Acked`. An acknowledgement that met no row would mark the message
  delivered and retire nothing.

**The refinement.** `DirectMessages` has six variables and eight actions and knows
neither passes, leases, packets nor crashes: `Queue`, `Store`, `StoreAnew`, `Show`, `Acknowledge`,
`GiveUp`, `Outdate`, `Delete`. The mapping reads `sent` from `canon`, `stored` from
`accepted`, `bubbles` from `shown`, `replaced` from `losses`, and `retired` from the rows that are
`Acked` or `Expired`. `LoadFails` is `StoreAnew`: the promise names the replaced mailbox, and
allows one more bubble for each. Each step of the detailed specification is one step of
this one or none (`PromiseEnvironment`, `PromiseWorker`, `PromiseRecipient`): every
crash, recovery, repair, claim and retry is none. It says more than the
invariants: a message out of date is never stored, showing follows storing, and the
acknowledgement retires a message in the step that records it.

## 3. The broadcast tree: `Plumtree`

### State and actions

Each node has the fields of `plumtree::State` under shorter names. Timers are
counted per kind next to the flag that is meant to stand for them, because the
flag and the timer can disagree. `net` holds one FIFO stream per directed link.
`view` is what the membership layer reported; `author`, `emitted` and `gaps`
record what the application saw.

| Action | Code |
|---|---|
| `BroadcastSwarm`, `BroadcastNeighbors` | `broadcast` by scope |
| `OnGossipEcho`, `OnGossipDuplicate`, `OnGossipSwarm`, `OnGossipNeighbors` | the branches of `on_gossip`, with `optimize_tree` in the third |
| `OnPrune`, `OnIHave`, `OnGraft` | the other handlers |
| `OnDispatchTimer`, `OnSendGraftTimer`, `OnEvictCacheTimer` | the timers |
| `OnNeighborUp`, `OnNeighborDown` | forwarded by `topic.rs` |
| `ConnectionCloses` | the network actor drops a connection with what it carried |

### What is abstracted

- `IHave` chunks are one packet; the deque of announcers is a set of claims
  numbered by arrival; the round of a `Graft`, which nobody reads, and statistics
  are left out; so is the rejection of a payload whose hash is not its id, which
  changes nothing.
- Timers fire at an arbitrary moment after they were started.
- A content is broadcast once. Ids are hashes of content, so a second broadcast
  of the same bytes would be the same message.
- A stream is FIFO as on one connection. A replacement connection can reorder
  (`net/peer.rs:95`); that belongs to the planned network actor.
- `NeighborDown` may be reported for any peer, at most `MaxChurn` times. Eviction
  that removes something happens at most `MaxEvictions` times, for payloads only
  or, with `IdsExpire`, for ids as well.

### Runs

| Run | Instance | Distinct states | Shows |
|---|---|---|---|
| `PlumtreeLive` | triangle, 2 crossing messages and then a third alone, with fairness | 68,206 | `AdvertisedIsChased`, `QueuedIsDispatched`, `DeliveredAtMostOnce`, `PayloadUnderWay`, `QuietMeansDelivered`, `FirstBroadcastSpans`, `LoneBroadcastRepairsTree`, `EventuallyDelivered`, `ImplementsFlooding` |
| `PlumtreeChurn` | triangle, 2 swarm messages and 1 for neighbours, a link breaks and returns or a node evicts payloads or ids; symmetry | 763,534 | `TypeOK`, `AdvertisedIsChased`, `NeighborsScopeIsOneHop`, `ImplementsFlooding` |

A triangle is the least overlay with duplicates, and so with prunes, lazy links
and grafts. A threshold of 1 makes `optimize_tree` swap links within these
distances (the default of 7 would need paths longer than the overlay). On the
triangle a message for neighbours that was handed on would come back to its
author or reach a member twice, which is how `NeighborsScopeIsOneHop` would fail. A broken link and an
eviction in one behaviour (`SpecOneDisturbance` excludes it) are covered by the proofs.
In `PlumtreeLive` two messages cross, so both ends may prune one link, and the
third meets whatever is left; only then is a graft the one way to a member, so
the run would show little without it. Symmetry
permutes the nodes of a complete overlay and the swarm messages, which no
definition tells apart; it is not used for liveness or where `m3` is special. Deadlock
is not checked because a topic in which everything was delivered may rest.

**When a lone broadcast repairs.** `LoneBroadcastRepairsTree` is stated for
`LoneSpec` (`PlumtreeRepair`): `Lone` is broadcast when all is quiet and the two ends of every
link agree on whether it is eager, and nothing is broadcast after it. The second condition
came out of the proof: the invariant could not be kept without it, and a simulation with three
crossing broadcasts showed why. A `Prune` and a `Graft` that cross
leave `p` eager at `n` and `n` lazy at `p`, and nothing compares the two afterwards. If `p`
announces the next message to `n` over a shorter path, `optimize_tree` prunes the sender in favour of `p`,
but sends `p` no `Graft`, because `p` is eager already (`plumtree.rs:630`); the
sender's link is then lazy, and that of `p` still eager at one end only. The message is still delivered (`QuietMeansDelivered` needs no such condition), but
the eager links need not span until a later announcement grafts them. With the two
crossing broadcasts of `PlumtreeLive` the ends always agree when all is quiet, so there the condition excludes nothing.

**Fairness.** The network actor keeps reading every stream and polling its timer
queue: weak fairness of receiving per link and of each timer. Broadcasts are never
forced.

### Where the code and its documentation differ

Differences without a run of their own: `broadcast_neighbors` follows the eager
links only and lazy neighbours get no announcement (`plumtree.rs:524`), where
`api.rs:375` says "Broadcasts a message to all direct neighbors.". Only the first peer that
forwards our own broadcast back to us is spared from pruning: its echo removes the id from
`locally_authored` (`plumtree.rs:548`), where the comment at 541 exempts every echo. Packets of a neighbour
that has just left add it to a push set again (`plumtree.rs:552`, 645, 711), so later
broadcasts dial it. `MissingMessages` compares hop counts, so a longer path alone
raises it. And a direct message whose attempt failed is overtaken by later ones
to the same recipient (`conversation.rs:1227`), where the comment on
`PeerOrderGuard` says FIFO.

### Proofs: `PlumtreeProofs`

For any nodes, overlay, messages, churn and eviction, from `PlumtreeAssumption`.

| Theorem | States | Rests on |
|---|---|---|
| `TypeCorrect` | `[]TypeOK` | `TypeInv`, in which every field mentions only messages that were broadcast |
| `QueuedAreDispatched` | `[]QueuedIsDispatched` | `DispatchInv`: the flag is set exactly when one timer runs; with none the queues are empty |
| `AdvertisedAreChased` | `[]AdvertisedIsChased` | `ChaseInv`: a set flag means a running timer. The converse fails, since the second timer runs with the flag cleared |
| `DeliveredOnce` | `[]DeliveredAtMostOnce` when ids are retained | `DeliveryInv`: what was broadcast or handed over is among the seen ids |

`TypeInv` is stronger than types because `DeliveredOnce` needs that nobody holds a
payload before its author broadcast it.

### Proofs: `PlumtreeStreamProofs`

| Theorem | States | Rests on |
|---|---|---|
| `NeighborsMessagesGoOneHop` | `[]NeighborsScopeIsOneHop`, for any churn and eviction | `NearInv`, `OneHopInv` |
| `PayloadsAreNotForgotten` | `[]PayloadUnderWay` when `MaxChurn` and `MaxEvictions` are 0 | `NearInv`, `StableInv`, `WayInv` |

- `NearInv`: peers enter a node's push sets, queues, claims and streams only over
  links of the overlay. Handlers add whoever sent a message as a peer, so the push sets
  cannot be kept to the overlay without the streams.
- `OneHopInv`: a copy of a neighbours' message travels on a link of its author, at
  most once per link, and only to a node that has not had it. The id is not
  remembered (`on_gossip` stores nothing for this scope), so that there is never a second copy
  is all that prevents a second delivery.
- `StableInv`: neighbours are eager or lazy, what was received is cached, and who sent
  a payload has received it.
- `WayInv` is the property over every pair of neighbours. The step that needs most is a payload
  that arrives: the receiver has to push or announce it to every other
  neighbour, and the sender to stop owing it. A graft may be answered because the payload is cached; a recorded
  announcement is dropped only when the graft is sent or the payload is in.

The hypothesis of the second theorem is what the property is about: a broken link
loses what it carried, and an evicted payload cannot be sent.

### Proofs: `PlumtreeTreeProofs`

The first three assume `MaxChurn = 0`, `MaxEvictions = 0` and `OverlayConnected` (no part of the
overlay is without a link to the rest); the fourth assumes nothing but `PlumtreeAssumption`.

| Theorem | States | Rests on |
|---|---|---|
| `BroadcastsDoNotStopShort` | `[]QuietMeansDelivered` | `WayInv`, `AuthorInv`, and the two timer invariants |
| `FirstBroadcastLeavesTree` | `[]FirstBroadcastSpans` | `TreeInv` |
| `LoneBroadcastLeavesTree` | `LoneSpec => []LoneBroadcastRepairsTree` | `LoneInv` |
| `PlumtreeImplementsFlooding` | `ImplementsFlooding`, the refinement, for any churn and eviction | `HoldInv`, `OneHopInv`, `DeliveryInv` |

- **Delivery.** If somebody lacks a message that was broadcast, the nodes that lack it are a part of the
  overlay, not all of it since the author has it (`AuthorInv`), so a link leads out of
  the part. By `WayInv` something is on its way over that link: a packet, or a queued announcement with its
  dispatch timer (`DispatchInv`), or a recorded one with its graft timer (`ChaseInv`).
- **The first tree.** While only `m` was broadcast (`Only`), links turn lazy, announcements are queued and prunes
  travel only between nodes that both have `m`, nobody has recorded or asked for anything, and a payload
  travels at most once per link. Every node that has `m` has a `Parent`: a neighbour with a smaller round, over a link
  that is eager at both ends and carries nothing that could prune it. For any cut,
  take the side without the author and of its members one with the least round: its parent is on
  the other side. The least round exists because the naturals are well founded.
- **The repaired tree.** `LoneInv` says of every link, by who has `Lone`, what stage it is in. If neither end has
  it the link is idle and its ends agree (`Untold`). If `a` has it and `b` does not, the link
  is in exactly one of five stages: `Pushed`, `Noted` (queued), `Announced`, `Recorded`, `Asked`; each
  handler moves it to the next, or to `Pushed` after a graft. If both have it, nothing is said of the
  link except through `Bond`: the node a member got `Lone` from, or the one
  `optimize_tree` promoted instead, is nearer to the author, is eager at the member, is eager the other way round or has
  a `Graft` under way that makes it so, and no prune, duplicate or request for `Lone` travels between the two. That a promoted
  peer was lazy at both ends with nothing between (`Recorded`) is where agreeing ends are needed:
  the `Graft` is sent only to a peer that was not eager. When all is quiet bonds are parents, and the argument
  of the first tree ends the proof. TLC checked `LoneInv` exhaustively before, on four nodes from every
  agreeing set of eager links.
- **The refinement.** `Flooding` keeps `author` and `emitted` only: a member is given a message
  by a neighbour that has it (`PassOn`), one for neighbours by its author and once (`Tell`), and a swarm message once
  while ids are retained. `HoldInv` says that who caches or sends a payload has it in this
  sense; every other handler, timer, eviction and membership event is a stutter.

## 4. Membership: `HyParView`

### State and actions

Per node the fields of `hyparview::State`: `active`, `passive`, `pending`
(`pending_neighbor_requests`), `alive` (`alive_disconnect_peers`); `member` says who
holds a state for the topic, `timers` counts the timers the actor holds. A
handler works on the state of one node and fills an outbox, as in the code;
where it draws a random peer the model has one outcome per peer. `net` is what is
under way on each directed link, the end of a connection included.

| Action | Code |
|---|---|
| `Receive` with `Handle` | `handle_message`: `OnJoin`, `OnForwardJoin`, `OnNeighbor`, `OnShuffle`, `OnShuffleReply`, `OnDisconnect`, and `HandleConnectionClosed`, each with `AddActive`, the `Remove*` variants, `Refill`, `AddPassive` as they call them |
| `Ignore` | a message for a topic the node does not hold (`state.rs`) |
| `JoinTopic`, `Quit`, `ShuffleTimer`, `NeighborTimer` | the commands and timers |
| `Break`, `Unreachable` | a connection that ends, a dial that fails (`net/actor.rs`) |

Peer data is left out, and the several topics of one multiplexer. A stream is
ended after a `Disconnect`, so what follows may overtake it (`Deliverable`).

### Runs

| Run | Instance | Distinct states | Shows |
|---|---|---|---|
| `HyParView` | 3 nodes, 2 joins to any contacts, 1 failure, quit or shuffle, under `FairSpec` | 73,299 | `TypeOK`, `ViewsWellFormed`, `UndisturbedViewsAreMutual`, `JoinConnects` |
| `HyParViewMutual` | 2 nodes, 2 joins that name a contact, 1 such event | violation | `ActiveIsBidirectional` |

Three nodes are the least for a forwarded join and a shuffle; two joins let
requests cross; a passive view of one is full at once. Views of two never evict
with three nodes, which is why `UndisturbedViewsAreMutual` can ask for agreement;
eviction is covered by the proof, for every capacity. **Fairness**: the actor reads
every stream and fires its timers; joins and shuffles are not forced.

**The finding.** `src/src/proto.rs:27` promises that active connections are always
bidirectional. An answer to a `Join` enters the peer in `pending_neighbor_requests`
(`hyparview.rs:748`), and only a `Neighbor` message of the peer, its `Disconnect` or the end of the
connection takes it out. In the trace b joins at a, and quits before a's answer is in: it
has no neighbour yet, so it says goodbye to nobody and closes nothing. a keeps b
as active and pending. b joins a again, over the same connection; a has b in its
view already, `send_neighbor` finds the entry and sends nothing. a has b as a neighbour
and b has none. A connection that fails before the answer, with b joining
again before a has noticed, ends the same way. The run is restricted to joins that name a
contact (`AskingSpec`): a node that starts the topic anew without one asks nobody,
which would end in unequal views too and show less.

### Proofs: `HyParViewProofs`

From `HyParViewAssumption`, for any nodes, capacities, walk lengths and
failures: `TypeCorrect` and `ViewsStayWellFormed`. The invariant is `TypeOK /\
ViewsWellFormed`: capacity and disjointness depend on each other (a peer leaves one
view as it enters the other), and that no node becomes its own neighbour needs the
typing of the messages: a `ForwardJoin` never names its receiver. Each
helper has a lemma of its own (what it preserves on one node's state); a
handler's lemma chains them in the order the code calls them.

### Proofs: `HyParViewMutualProofs`

`ViewsBecomeMutual`: `[]UndisturbedViewsAreMutual`, for every walk length, passive
capacity and number of joins, shuffles and timeouts, and for every set of nodes that fits
into an active view (`Cardinality(Nodes) <= ActiveCapacity + 1`). The hypothesis is
the one the property states in words: in a full view somebody is dropped for
another, by a `Disconnect` that the two ends handle at different times.

The property speaks of quiet states; the inductive invariant, `~disturbed => Settled`, says what holds
on the way there:

- `Answered`: whoever counts on a peer (active, or a pending request) is
  counted on by it, or its own `Neighbor` message is still under way to it; and a pending
  request is to a peer that is active already, or a `Neighbor` message is under way between the two.
- `CalmNet`: no `Disconnect` and no end of a connection is under way, and only a `Join` may
  be addressed to a node that has no state for the topic. Such a node ignores what it
  gets, so a `Neighbor` message to it would be lost.
- `Acquainted`: views hold members only, which is what makes the last part of
  `CalmNet` true of the messages built from them.

Each handler is shown to be `Sound` on the state of one node (nobody leaves the
active view, who is newly counted on is asked); one lemma then carries a sound
handler over to the pairs of nodes.

## 5. Calls: `Calls` and `CallLifecycle`

### State and actions

Every attempt has a fresh id and one connection, so state is kept per call and
end: `session`, `terminals` (the terminal events the application got), `link`,
`arriving`, `offering`, `wire`, `task` (running wire session tasks), `authorized`,
`running`.

| Action | Code |
|---|---|
| `Start`, `AcceptCall`, `RejectCall`, `HangUp` | the commands of `run_actor` |
| `AcceptConnection`, `ReceiveOffer`, `ReceiveAccept`, `ReceiveEnd` | `CallProtocol::accept` and `handle_control`, with `Terminate` (`terminate_call_inner`) |
| `NoticeClosed`, `NegotiationTimeout` | `ConnectionClosed` from a wire session task, the caller's timer |
| `RevokePeer`, `Shutdown`, `LoseConnection` | revocation, shutdown, the network |

Left out: media, statistics, muting and keep-alives; `Reconnect`, which the
application never sends, and with it generations. `Start`'s authorisation check and
its handling are one step, and so are the revocation flag and its command.

`CallLifecycle` is the abstract specification: per call and end a phase, from idle over
pending and active to ended. A callee is rung only by a call that was started, a
caller becomes active only after the callee took the call, one cause may end
several calls, and nothing goes back. `ImplementsLifecycle` maps sessions and
terminal events to phases.

### Runs

| Run | Instance | Distinct states | Shows |
|---|---|---|---|
| `Calls` | 3 nodes, 2 that may call each other and a third caller, 2 calls, 2 commands, 1 fault, under `FairSpec` | 396,412 | `TypeOK`, `OneTerminalEvent`, `NoHalfOpenCall`, `EveryCallIsDecided`, `ImplementsLifecycle` |
| `CallsCollision` | 2 nodes that call each other | violation | `CollisionHasASurvivor` |
| `CallsAgain` | 1 caller, 2 calls | violation | `NextCallIsUndisturbed` |

Two calls are the least for a collision, a busy answer and a stale report; one
pending offer makes the limit reachable. **Fairness**: weak fairness of what
actors, tasks and timers do by themselves (`System`); users and faults are
not forced. Only finitely many such steps follow a call, so no task is starved.

**The findings.** Offers that cross are both answered Busy, because the test for an
existing call with the peer (`manager.rs:1213`) returns before
`resolve_collision`, which promises a survivor. `ConnectionClosed`
(`manager.rs:951`) names the peer and not the call, and ends the next call if the user calls
again before the old task reports. Besides, an offer during an active call with
another peer is answered Busy and still rings, where `tests/call_e2e.rs:69` says no second
local call is created; and an incoming session has a deadline but no timer, so it
stops ringing through something the caller does. `EveryCallIsDecided` shows that
this is enough.

### Proofs: `CallsProofs`

From `CallsAssumption`, for any nodes, dials, calls, commands and faults:
`TypeCorrect`, `TerminalEventIsUnique`, and `CallsImplementLifecycle`, the
refinement. The invariant adds to `TypeOK` and `OneTerminalEvent`: a call that was not
started has left no trace (`Unstarted`); an offer under way is the callee's first
news of the call (`OffersAreNew`); and an `Accept` under way was sent by an end that took
the call (`AcceptedWasTaken`), without which the caller could become active first.

`NoCallIsHalfOpen` (`[]NoHalfOpenCall`) needs what the ends of a call know of each
other while messages are still under way (`EndsInv`): with an open connection, an offer
that does not ring is itself under way or its `Busy` is; a callee that is active
while the caller is not has its `Accept` under way; no connection, no entry in a
table; and an end with an entry has a wire task, which is what notices a closed connection.
`OnlyCalleesAccept` closes the case of an `Accept` at a callee.

## 6. Friend requests: `Friendship`

### State and actions

A request store keeps at most one pending request for a pair, in either direction,
so `request[n][p]` is none, outgoing or incoming. `relationship`, `friendsDirty`,
`processing` (queued `IncomingFriendRequestProcessed`); `requestsTo` and
`invitesTo` count control messages under way, unordered. `requestFile` and
`friendsFile` are what is stored, `savingRequests` and `savingFriends` the
snapshots that save threads still hold. `acts`, `lag` and
`disturbed` are history; `lag` names the reasons why the request file may differ from the store.

| Action | Code |
|---|---|
| `SendFriendRequest`, `AcceptRequest`, `DeclineRequest`, `CancelRequest`, `OpenFriendChat`, `ConfirmBlockFriend` | the messages of `app/contacts.rs`, with `FriendRequestStore` |
| `Processed` | `IncomingFriendRequestProcessed` |
| `ReceiveFriendRequest`, `ReceiveInvite`, `ReceiveAdvertisement` | the contact actions of `app/chat.rs` |
| `NeighborStatus`, `NetEvent` | what marks the friends dirty, and the save after every network event |
| `RequestSaveLands`, `FriendsSaveLands` | a save thread writes its snapshot |
| `RequestSaveFails`, `FriendsSaveFails` | the write fails; it is logged and not repeated (`app.rs:6785`, 6729) |
| `LoseMessage`, `Crash` | a failing `send_control`; a restart from the files, either of which may be unreadable and then counts as empty (`LoadRequests`, `load_from_sqlite`) |

Left out: addresses, mailbox keys, names and online marks; what is only
displayed; the set of peers allowed to call, which follows the
relationship; `FriendRequestAccepted` and `FriendRequestRejected`, which nobody sends;
`RemoveFriend`, which changes only the ping tracker and that set; pairing codes, which the application
does not use yet; `friends.json`, which only older versions wrote.

### Runs

| Run | Instance | Distinct states | Shows |
|---|---|---|---|
| `Friendship` | 2 peers, 3 commands, 1 fault, under `FairSpec` | 290,632 | `TypeOK`, `FriendshipIsAgreed`, `NoRequestVanishes`, `AcceptanceIsOnItsWay`, `RequestFileIsCurrent`, `AcceptanceArrives` |
| `FriendshipBlock` | 2 peers, 4 commands | violation | `BlockingIsEffective` |
| `FriendshipChat` | 2 peers, no faults | violation | `FriendshipIsExplicit` |

Pairs touch each other only through saves of a whole store, so two peers suffice
for TLC; the proofs are for any number. Three commands are enough to ask, to
ask back or chat, and to answer. **Fairness**: the runtime delivers what the transport has and what
the application sent itself. Nothing is assumed of users or saves.

**The findings.**

- `FriendshipBlock`: blocking changes the relationship in memory and nothing else
  (`contacts.rs:1114`), while the inbox reads the stored one for every message, and
  `main.rs:1829` says that makes blocking effective.
- `FriendshipChat`: an invite is taken for an acceptance if its receiver has asked
  (`chat.rs:6832`), and a click on Chat sends the same invite, even one that was
  clicked before the request. `contacts.rs:990` says a chat is no friendship signal, and
  `chat.rs:6829` that it must not befriend. `FriendshipIsAgreed` is what does hold: the chat of a
  peer counts only for someone who asked.

`RequestFileIsCurrent` states how far the file can be trusted: once no thread saves, it holds
the store, unless one of the four reasons of `lag` applies, all of them things the code does: an
acceptance that was confirmed and not saved (`chat.rs:6877`), so that a restart makes a request
pending again that `friend_request.rs:30` calls final; saves that ran side by side and may land in the wrong
order, where `chat_core/atomic_write.rs:98` calls the last writer safe; a save that failed;
and a file that was unreadable at the start. A save that runs alone ends all four, and
nothing else makes the file differ. `FriendshipIsAgreed` holds through all of them.

Reading the code against its comments also showed: a late acceptance undoes
a block (`chat.rs:6841`). Requests that cross are
dropped as duplicates on both sides, and neither user can accept (`chat.rs:6713`). A retry "re-sends"
(`contacts.rs:850`) but finds the pending request and sends nothing. Friends are saved
if they were dirty before a change and marked dirty after it (`contacts.rs:917`), where
`app.rs:14864` wants them saved at once.

### Proofs: `FriendshipProofs`

From `FriendshipAssumption` (the bounds are naturals), for any peers.

| Theorem | States | Rests on |
|---|---|---|
| `TypeCorrect` | `[]TypeOK` | inductive as it is |
| `FriendshipsAreAgreed` | `[]FriendshipIsAgreed` | `AgreementInv` |
| `RequestsDoNotVanish` | `[]NoRequestVanishes` | inductive as it is |
| `AcceptancesAreNotSwallowed` | `[]AcceptanceIsOnItsWay` | `AcceptInv`: and a request that is under way or known to the other side is still pending, unless it was withdrawn or the two are friends |
| `RequestFilesAreCurrent` | `[]RequestFileIsCurrent` | `SaveInv`: while `lag` is empty, either no thread saves and the file is current, or exactly one thread does and holds the current store |

`AgreementInv` says of every place a request, a friendship or a message can be
(store, file, snapshot of a save thread, wire) that the users behind it acted:
a crash can bring back whatever a file or an old snapshot holds. A failing save and an unreadable
file only take away, and an empty store claims nothing.

`AcceptanceIsOnItsWay` is the safety half of `AcceptanceArrives`, and needs no fairness: an invite counts as an acceptance
only while the request is pending, so a duplicate, a crossing request or an earlier
invite must not clear the request before the acceptance is in. A user who blocks the peer or withdraws
may, which is why both appear in it.

## 7. Checked by TLC only

Liveness: `PassTerminates`, `EventuallyAcked`, `EventuallyDelivered`,
`JoinConnects`, `EveryCallIsDecided` and `AcceptanceArrives` are out of the prover's
reach, since it has no rules for fairness and `ENABLED`. For two of them the
safety half is a theorem: nothing comes to rest undelivered (`QuietMeansDelivered`), and
an acceptance is on its way (`AcceptanceIsOnItsWay`). Every invariant and every
action property of a passing run, and the three refinements, are theorems.

## 8. Plan

1. **Proofs.** An abstract specification for `Friendship` with its refinement; and for `Plumtree` a condition weaker than
   agreeing ends under which a lone broadcast repairs the tree.
2. **Multiplexer.** Several topics over one map of peers: no topic loses a
   connection it uses (`state.rs:322` against the comments at 152 and 266), and the
   composition of `HyParView` with `Plumtree`.
3. **Network actor.** Bounded channels that wait on each other (`actor.rs:653`),
   retries and cool-downs, replacement connections that reorder (`net/peer.rs:95`), messages produced
   while a disconnect is handled (`actor.rs:520`).
4. **Downloads.** The tick of `download_manager.rs` gives up for the whole round
   when the oldest row belongs to the scheduler of the start (312);
   `Storage::open` rewrites download states while the manager runs (`schema.rs:70`).

## 9. Not modelled

Cryptography, serialisation and signatures; the SQLite engine (statements are
atomic, transactions all or nothing); QUIC (an external channel that loses and
repeats); codecs, capture and audio; the DHT; the user interface except the handlers
named above. Four parts were read for this project and left out, because nothing in the
application drives them and no schedule of their operations could be faithful:

- **Whisper session manager** (`whisper/session_manager.rs`). `SessionManager::spawn`
  has no caller. A failed connect leaves its session `Connecting` (294), stopping a
  session does not stop its reconnect task (312), and both ends of a collision
  disconnect (349).
- **Group encryption** (`group_encryption/`). The receiving side has no caller
  outside tests. Dependencies are taken from the receiver's own view
  (`ordering.rs:300`), so the causal order promised there is arrival order; a group is
  taken out of the map and not put back when a message fails
  (`encryption_state.rs:950`).
- **Mailbox synchronisation** (`chat.rs:7106`). `enqueue_outgoing` has no caller
  outside tests, so the pages a peer serves are empty.
- **Pairing** (`pairing_service.rs`, `spake2_pairing.rs`). `accept_peer_invitation`
  has no caller in the application.

Other behaviour seen while reading and not stated as a property: hop counts make
`MissingMessages` a hint only (`plumtree.rs:576`); ids that expire while copies travel are delivered
again by design (`plumtree.rs:744`); the mark of a peer that disconnects on
purpose outlives its return (`hyparview.rs:343`), which decides only whether
a failed peer is kept in the passive view.

Each component's entry in `PROJECT.json` gives the reason, and each hazard
without a property says what it waits for.
