----------------------------- MODULE Friendship -----------------------------
(***************************************************************************)
(* Friend requests between the desktop applications of several peers:      *)
(* FriendRequestStore (src/src/friend_request.rs), the relationships of    *)
(* FriendsStore (src/src/friends.rs), and the handlers of the application  *)
(* that change both (app/contacts.rs, app/chat.rs, app.rs).                *)
(*                                                                         *)
(* A request store keeps at most one pending request for a pair of peers,  *)
(* in either direction, so request[n][p] says which way n's pending        *)
(* request with p goes.  Requests that are no longer pending take no part  *)
(* in any decision.  Control messages travel over QUIC streams of their    *)
(* own, unordered: requestsTo[n][p] and invitesTo[n][p] count those under  *)
(* way from n to p.  Acceptance is announced by a ConversationInvite; the  *)
(* actions FriendRequestAccepted and FriendRequestRejected are never sent. *)
(*                                                                         *)
(* Both stores are saved by threads that each write a snapshot taken when  *)
(* the save was started, in any order (savingRequests, savingFriends: how  *)
(* many threads still hold each snapshot).  A save that fails is logged    *)
(* and not repeated.  The friends are only saved when they are marked      *)
(* dirty.  lag[n] says why n's request file may hold something else than   *)
(* its store once no thread is saving:                                     *)
(*   "overlap"    the last save was started while another was running;     *)
(*   "confirmed"  an acceptance was confirmed since, which is not saved;   *)
(*   "failed"     a save failed;                                           *)
(*   "unread"     the file could not be read at the start.                 *)
(***************************************************************************)
EXTENDS Naturals

CONSTANTS
  Nodes,         \* the peers
  MaxCommands,   \* bound: user commands and neighbour events of all peers
  MaxFaults      \* bound: lost messages, failing saves and crashes

ASSUME FriendshipAssumption == MaxCommands \in Nat /\ MaxFaults \in Nat

VARIABLES
  request,         \* request[n][p]: n's pending request with p
  relationship,    \* relationship[n][p]: n's record of p, if it has one
  friendsDirty,    \* friends_dirty
  processing,      \* queued IncomingFriendRequestProcessed (accepted)
  requestsTo,      \* FriendRequest messages under way
  invitesTo,       \* ConversationInvite messages under way
  requestFile,     \* friend_requests.json
  friendsFile,     \* the "friends" value of SQLite
  savingRequests,  \* save threads of the request store
  savingFriends,   \* save threads of the friends store
  lag,             \* history: why the request file may lag behind its store
  acts,            \* history: what n's user did about p
  disturbed,       \* history: a message was lost or a peer crashed
  commands, faults

memory == <<request, relationship, friendsDirty, processing>>
network == <<requestsTo, invitesTo>>
requestSaves == <<requestFile, savingRequests, lag>>
friendSaves == <<friendsFile, savingFriends>>
history == <<acts, disturbed>>
bounds == <<commands, faults>>
vars == <<memory, network, requestSaves, friendSaves, history, bounds>>

Requests == {"None", "Outgoing", "Incoming"}
Relationships == {"NoRecord", "NotFriend", "Friends", "Blocked"}
RequestStores == [Nodes -> Requests]
FriendStores == [Nodes -> Relationships]
Acts == {"asked", "accepted", "declined", "cancelled", "chatted"}
Lags == {"overlap", "confirmed", "failed", "unread"}
Counts == [Nodes -> [Nodes -> Nat]]

(***************************************************************************)
(* The type invariant of the module.                                       *)
(***************************************************************************)
TypeOK ==
  /\ request \in [Nodes -> RequestStores]
  /\ relationship \in [Nodes -> FriendStores]
  /\ friendsDirty \in [Nodes -> BOOLEAN]
  /\ processing \in Counts
  /\ requestsTo \in Counts
  /\ invitesTo \in Counts
  /\ requestFile \in [Nodes -> RequestStores]
  /\ friendsFile \in [Nodes -> FriendStores]
  /\ savingRequests \in [Nodes -> [RequestStores -> Nat]]
  /\ savingFriends \in [Nodes -> [FriendStores -> Nat]]
  /\ lag \in [Nodes -> SUBSET Lags]
  /\ acts \in [Nodes -> [Nodes -> SUBSET Acts]]
  /\ disturbed \in BOOLEAN
  /\ commands \in 0 .. MaxCommands
  /\ faults \in 0 .. MaxFaults

NoRequests == [p \in Nodes |-> "None"]
NoFriends == [p \in Nodes |-> "NoRecord"]
Nowhere == [n \in Nodes |-> [p \in Nodes |-> 0]]

Init ==
  /\ request = [n \in Nodes |-> NoRequests]
  /\ relationship = [n \in Nodes |-> NoFriends]
  /\ friendsDirty = [n \in Nodes |-> FALSE]
  /\ processing = Nowhere
  /\ requestsTo = Nowhere
  /\ invitesTo = Nowhere
  /\ requestFile = [n \in Nodes |-> NoRequests]
  /\ friendsFile = [n \in Nodes |-> NoFriends]
  /\ savingRequests = [n \in Nodes |-> [s \in RequestStores |-> 0]]
  /\ savingFriends = [n \in Nodes |-> [s \in FriendStores |-> 0]]
  /\ lag = [n \in Nodes |-> {}]
  /\ acts = [n \in Nodes |-> [p \in Nodes |-> {}]]
  /\ disturbed = FALSE
  /\ commands = 0
  /\ faults = 0

-----------------------------------------------------------------------------
(***************************************************************************)
(* The stores and their saves.                                             *)
(***************************************************************************)

\* Some thread still has to write a snapshot.
Saving(saves) == \E s \in DOMAIN saves : saves[s] > 0

\* send_save_friend_requests: a thread is started with a copy of the store as
\* this step leaves it.  Only a save that runs alone is sure to land last.
SaveRequests(n) ==
  /\ savingRequests' = [savingRequests EXCEPT ![n][request'[n]] = @ + 1]
  /\ lag' = [lag EXCEPT ![n] = IF Saving(savingRequests[n]) THEN {"overlap"} ELSE {}]
  /\ UNCHANGED requestFile

\* try_save_friends, called in a state where the dirty mark is "dirty" and
\* followed by a mark if "marked": a thread is started with a copy of the
\* store, if it is dirty.
TrySaveFriends(n, dirty, marked) ==
  /\ savingFriends' = IF dirty
                        THEN [savingFriends EXCEPT ![n][relationship'[n]] = @ + 1]
                        ELSE savingFriends
  /\ friendsDirty' = [friendsDirty EXCEPT ![n] = marked]
  /\ UNCHANGED friendsFile

\* ensure_friend: a record, as a stranger if there was none.
Ensured(rel) == IF rel = "NoRecord" THEN "NotFriend" ELSE rel

\* The user of n acts on p.
Act(n, p, act) ==
  /\ commands < MaxCommands
  /\ commands' = commands + 1
  /\ acts' = [acts EXCEPT ![n][p] = @ \cup {act}]
  /\ UNCHANGED <<disturbed, faults>>

-----------------------------------------------------------------------------
(***************************************************************************)
(* What the user does.                                                     *)
(***************************************************************************)

\* AppMessage::SendFriendRequest.  A second attempt, FriendRequestRetry too,
\* finds the pending request and sends nothing: no step.
SendFriendRequest(n, p) ==
  /\ n # p
  /\ request[n][p] = "None"
  /\ Act(n, p, "asked")
  /\ request' = [request EXCEPT ![n][p] = "Outgoing"]
  /\ relationship' = [relationship EXCEPT ![n][p] = Ensured(@)]
  /\ TrySaveFriends(n, friendsDirty[n], FALSE)
  /\ SaveRequests(n)
  /\ requestsTo' = [requestsTo EXCEPT ![n][p] = @ + 1]
  /\ UNCHANGED <<processing, invitesTo>>

\* Mutant: the answer is not saved.
Answer_NotSaved(n, p, from, act) ==
  /\ request[n][p] = from
  /\ Act(n, p, act)
  /\ request' = [request EXCEPT ![n][p] = "None"]
  /\ UNCHANGED <<relationship, friendsDirty, network, friendSaves, requestSaves>>

\* transition_request: the answer of n to its pending request with p.
Answer(n, p, from, act) ==
  /\ request[n][p] = from
  /\ Act(n, p, act)
  /\ request' = [request EXCEPT ![n][p] = "None"]
  /\ SaveRequests(n)
  /\ UNCHANGED <<relationship, friendsDirty, network, friendSaves>>

\* IncomingFriendRequestAccept and FriendRequestAccept: the friendship itself
\* is left to a message the application sends to itself.
AcceptRequest(n, p) ==
  /\ Answer(n, p, "Incoming", "accepted")
  /\ processing' = [processing EXCEPT ![n][p] = @ + 1]

\* IncomingFriendRequestDecline and FriendRequestDecline.  The message to
\* itself does nothing, and the requester is not told.
DeclineRequest(n, p) ==
  /\ Answer(n, p, "Incoming", "declined")
  /\ UNCHANGED processing

\* FriendRequestCancel.  The recipient is not told.
CancelRequest(n, p) ==
  /\ Answer(n, p, "Outgoing", "cancelled")
  /\ UNCHANGED processing

\* OpenFriendChat: a click on Chat invites p, without any request.
OpenFriendChat(n, p) ==
  /\ n # p
  /\ Act(n, p, "chatted")
  /\ relationship' = [relationship EXCEPT ![n][p] = Ensured(@)]
  /\ TrySaveFriends(n, TRUE, FALSE)
  /\ invitesTo' = [invitesTo EXCEPT ![n][p] = @ + 1]
  /\ UNCHANGED <<request, processing, requestsTo, requestSaves>>

\* ConfirmBlockFriend: neither saved nor marked dirty.
ConfirmBlockFriend(n, p) ==
  /\ commands < MaxCommands
  /\ relationship[n][p] \notin {"NoRecord", "Blocked"}
  /\ relationship' = [relationship EXCEPT ![n][p] = "Blocked"]
  /\ commands' = commands + 1
  /\ UNCHANGED <<request, friendsDirty, processing, network, requestSaves,
                 friendSaves, history, faults>>

-----------------------------------------------------------------------------
(***************************************************************************)
(* What the application does by itself.                                    *)
(***************************************************************************)

\* Mutant: the acceptance is handled whether or not one was given.
Processed_NotQueued(n, p) ==
  /\ processing' = [processing EXCEPT ![n][p] = @ - 1]
  /\ relationship' = [relationship EXCEPT ![n][p] = "Friends"]
  /\ TrySaveFriends(n, friendsDirty[n], TRUE)
  /\ invitesTo' = [invitesTo EXCEPT ![n][p] = @ + 1]
  /\ UNCHANGED <<request, requestsTo, requestSaves, history, bounds>>

\* Mutant: the requester is not told.
Processed_Silent(n, p) ==
  /\ processing[n][p] > 0
  /\ processing' = [processing EXCEPT ![n][p] = @ - 1]
  /\ relationship' = [relationship EXCEPT ![n][p] = "Friends"]
  /\ TrySaveFriends(n, friendsDirty[n], TRUE)
  /\ UNCHANGED <<request, network, requestSaves, history, bounds>>

\* IncomingFriendRequestProcessed, accepted: p becomes a friend, is told by
\* an invite, and the friends are marked dirty after the attempt to save.
Processed(n, p) ==
  /\ processing[n][p] > 0
  /\ processing' = [processing EXCEPT ![n][p] = @ - 1]
  /\ relationship' = [relationship EXCEPT ![n][p] = "Friends"]
  /\ TrySaveFriends(n, friendsDirty[n], TRUE)
  /\ invitesTo' = [invitesTo EXCEPT ![n][p] = @ + 1]
  /\ UNCHANGED <<request, requestsTo, requestSaves, history, bounds>>

\* Mutant: a request that arrives replaces the one that is pending.
ReceiveFriendRequest_Replaces(n, p) ==
  /\ requestsTo[p][n] > 0
  /\ requestsTo' = [requestsTo EXCEPT ![p][n] = @ - 1]
  /\ request' = [request EXCEPT ![n][p] = "Incoming"]
  /\ SaveRequests(n)
  /\ UNCHANGED <<relationship, friendsDirty, processing, invitesTo, friendSaves,
                 history, bounds>>

\* ContactAction::FriendRequest from p: stored, unless a request is pending
\* between the two, in whichever direction.
ReceiveFriendRequest(n, p) ==
  /\ requestsTo[p][n] > 0
  /\ requestsTo' = [requestsTo EXCEPT ![p][n] = @ - 1]
  /\ \/ /\ request[n][p] = "None"
        /\ request' = [request EXCEPT ![n][p] = "Incoming"]
        /\ SaveRequests(n)
     \/ /\ request[n][p] # "None"
        /\ UNCHANGED <<request, requestSaves>>
  /\ UNCHANGED <<relationship, friendsDirty, processing, invitesTo, friendSaves,
                 history, bounds>>

\* Mutant: every invite makes a friend.
IsAcceptanceReply_Any(n, p) == TRUE

\* is_acceptance_reply: n has a pending request to the sender of the invite.
IsAcceptanceReply(n, p) == request[n][p] = "Outgoing"

\* Mutant: an invite closes whatever request is pending with its sender.
ReceiveInvite_ClosesAny(n, p) ==
  /\ invitesTo[p][n] > 0
  /\ invitesTo' = [invitesTo EXCEPT ![p][n] = @ - 1]
  /\ relationship' = [relationship EXCEPT ![n][p] =
                        IF IsAcceptanceReply(n, p) THEN "Friends" ELSE Ensured(@)]
  /\ TrySaveFriends(n, friendsDirty[n], TRUE)
  /\ request' = [request EXCEPT ![n][p] = "None"]
  /\ lag' = [lag EXCEPT ![n] = @ \cup {"confirmed"}]
  /\ UNCHANGED <<processing, requestsTo, requestFile, savingRequests, history,
                 bounds>>

\* ContactAction::ConversationInvite from p: an acceptance if n has asked.
\* The friends are marked dirty after the attempt to save, and the request
\* that confirm_outgoing_accepted closes is not saved at all.
ReceiveInvite(n, p) ==
  /\ invitesTo[p][n] > 0
  /\ invitesTo' = [invitesTo EXCEPT ![p][n] = @ - 1]
  /\ relationship' = [relationship EXCEPT ![n][p] =
                        IF IsAcceptanceReply(n, p) THEN "Friends" ELSE Ensured(@)]
  /\ TrySaveFriends(n, friendsDirty[n], TRUE)
  /\ request' = [request EXCEPT ![n][p] = IF @ = "Outgoing" THEN "None" ELSE @]
  /\ lag' = [lag EXCEPT ![n] = IF IsAcceptanceReply(n, p) THEN @ \cup {"confirmed"} ELSE @]
  /\ UNCHANGED <<processing, requestsTo, requestFile, savingRequests, history,
                 bounds>>

\* ContactAction::AddressUpdate and MailboxAdvertise from p: a record for p, of
\* which the addresses and the key are left out, saved if the friends were
\* dirty before.
ReceiveAdvertisement(n, p) ==
  /\ n # p
  /\ relationship' = [relationship EXCEPT ![n][p] = Ensured(@)]
  /\ TrySaveFriends(n, friendsDirty[n], FALSE)
  /\ UNCHANGED <<request, processing, network, requestSaves, history, bounds>>

\* flush_pending_neighbor_status marks the friends dirty when a known peer
\* goes online or offline.
NeighborStatus(n) ==
  /\ commands < MaxCommands
  /\ ~ friendsDirty[n]
  /\ \E p \in Nodes : relationship[n][p] # "NoRecord"
  /\ friendsDirty' = [friendsDirty EXCEPT ![n] = TRUE]
  /\ commands' = commands + 1
  /\ UNCHANGED <<request, relationship, processing, network, requestSaves,
                 friendSaves, history, faults>>

\* The end of process_net_event_sync, after any event of the network.
NetEvent(n) ==
  /\ friendsDirty[n]
  /\ UNCHANGED relationship
  /\ TrySaveFriends(n, TRUE, FALSE)
  /\ UNCHANGED <<request, processing, network, requestSaves, history, bounds>>

\* FriendRequestStore::save in its thread: the file becomes the snapshot.
RequestSaveLands(n) ==
  \E s \in RequestStores :
    /\ savingRequests[n][s] > 0
    /\ savingRequests' = [savingRequests EXCEPT ![n][s] = @ - 1]
    /\ requestFile' = [requestFile EXCEPT ![n] = s]
    /\ UNCHANGED <<memory, network, lag, friendSaves, history, bounds>>

\* FriendsStore::save_to_sqlite in its thread.
FriendsSaveLands(n) ==
  \E s \in FriendStores :
    /\ savingFriends[n][s] > 0
    /\ savingFriends' = [savingFriends EXCEPT ![n][s] = @ - 1]
    /\ friendsFile' = [friendsFile EXCEPT ![n] = s]
    /\ UNCHANGED <<memory, network, requestSaves, history, bounds>>

-----------------------------------------------------------------------------
(***************************************************************************)
(* Faults.                                                                 *)
(***************************************************************************)
Fault(disturbs) ==
  /\ faults < MaxFaults
  /\ faults' = faults + 1
  /\ disturbed' = (disturbed \/ disturbs)
  /\ UNCHANGED <<acts, commands>>

\* FriendRequestStore::save fails in its thread, which only logs it: the file
\* stays as it is, and nothing is tried again.
RequestSaveFails(n) ==
  /\ Fault(FALSE)
  /\ \E s \in RequestStores :
       /\ savingRequests[n][s] > 0
       /\ savingRequests' = [savingRequests EXCEPT ![n][s] = @ - 1]
  /\ lag' = [lag EXCEPT ![n] = @ \cup {"failed"}]
  /\ UNCHANGED <<memory, network, requestFile, friendSaves>>

\* FriendsStore::save_to_sqlite fails in its thread; the dirty mark is gone.
FriendsSaveFails(n) ==
  /\ Fault(FALSE)
  /\ \E s \in FriendStores :
       /\ savingFriends[n][s] > 0
       /\ savingFriends' = [savingFriends EXCEPT ![n][s] = @ - 1]
  /\ UNCHANGED <<memory, network, requestSaves, friendsFile>>

\* send_control fails or its connection ends.  Nothing is sent again.
LoseMessage(n, p) ==
  /\ Fault(TRUE)
  /\ \/ /\ requestsTo[n][p] > 0
        /\ requestsTo' = [requestsTo EXCEPT ![n][p] = @ - 1]
        /\ UNCHANGED invitesTo
     \/ /\ invitesTo[n][p] > 0
        /\ invitesTo' = [invitesTo EXCEPT ![n][p] = @ - 1]
        /\ UNCHANGED requestsTo
  /\ UNCHANGED <<memory, requestSaves, friendSaves>>

\* load_or_default: a file that cannot be read or parsed leaves an empty store.
LoadRequests(n) ==
  \/ /\ request' = [request EXCEPT ![n] = requestFile[n]]
     /\ lag' = [lag EXCEPT ![n] = {}]
  \/ /\ request' = [request EXCEPT ![n] = NoRequests]
     /\ lag' = [lag EXCEPT ![n] = {"unread"}]

\* n stops and starts again from what is stored; friends that cannot be read
\* are none (load_from_sqlite).  Its threads and the messages it had sent
\* itself are gone, and the messages from and to it may be.
Crash(n) ==
  /\ Fault(TRUE)
  /\ LoadRequests(n)
  /\ relationship' \in {[relationship EXCEPT ![n] = s] : s \in {friendsFile[n], NoFriends}}
  /\ friendsDirty' = [friendsDirty EXCEPT ![n] = FALSE]
  /\ processing' = [processing EXCEPT ![n] = [p \in Nodes |-> 0]]
  /\ savingRequests' = [savingRequests EXCEPT ![n] = [s \in RequestStores |-> 0]]
  /\ savingFriends' = [savingFriends EXCEPT ![n] = [s \in FriendStores |-> 0]]
  /\ \/ UNCHANGED network
     \/ /\ requestsTo' = [q \in Nodes |-> [p \in Nodes |->
                            IF n \in {p, q} THEN 0 ELSE requestsTo[q][p]]]
        /\ invitesTo' = [q \in Nodes |-> [p \in Nodes |->
                           IF n \in {p, q} THEN 0 ELSE invitesTo[q][p]]]
  /\ UNCHANGED <<requestFile, friendsFile>>

-----------------------------------------------------------------------------
UserStep(n, p) ==
  \/ SendFriendRequest(n, p)
  \/ AcceptRequest(n, p)
  \/ DeclineRequest(n, p)
  \/ CancelRequest(n, p)
  \/ OpenFriendChat(n, p)
  \/ ConfirmBlockFriend(n, p)

Handling(n, p) ==
  \/ Processed(n, p)
  \/ ReceiveFriendRequest(n, p)
  \/ ReceiveInvite(n, p)
  \/ ReceiveAdvertisement(n, p)

Background(n) ==
  \/ NeighborStatus(n)
  \/ NetEvent(n)
  \/ RequestSaveLands(n)
  \/ FriendsSaveLands(n)

Next ==
  \/ \E n, p \in Nodes : UserStep(n, p) \/ Handling(n, p) \/ LoseMessage(n, p)
  \/ \E n \in Nodes : Background(n) \/ RequestSaveFails(n) \/ FriendsSaveFails(n) \/ Crash(n)

Spec == Init /\ [][Next]_vars

\* The runtime delivers what the transport has and what the application has
\* sent to itself.  Nothing is assumed of users, saves or faults.
FairSpec ==
  Spec /\ \A n, p \in Nodes : /\ WF_vars(Processed(n, p))
                              /\ WF_vars(ReceiveFriendRequest(n, p))
                              /\ WF_vars(ReceiveInvite(n, p))

-----------------------------------------------------------------------------
\* n accepted p's request, or p answered n's with one of these acts.
Agreed(n, p, answers) ==
  \/ "accepted" \in acts[n][p] /\ "asked" \in acts[p][n]
  \/ "asked" \in acts[n][p] /\ \E act \in answers : act \in acts[p][n]

(***************************************************************************)
(* Nobody becomes a friend alone, whatever is lost, fails or is restored   *)
(* from an old file: n regards p as a friend only if one of the two asked  *)
(* and the other accepted, or, where n asked, p opened a chat with n.  Two *)
(* requests that cross make nobody a friend.  That a chat counts is a      *)
(* disagreement with the comments (FriendshipIsExplicit): ReceiveInvite    *)
(* cannot tell the two invites apart (chat.rs:6832).                       *)
(***************************************************************************)
FriendshipIsAgreed ==
  \A n, p \in Nodes :
    relationship[n][p] = "Friends" => Agreed(n, p, {"accepted", "chatted"})

\* Something about n's request to p is still under way.
UnderWay(n, p) ==
  requestsTo[n][p] > 0 \/ processing[p][n] > 0 \/ invitesTo[p][n] > 0

(***************************************************************************)
(* A pending request is not forgotten.  While nothing is lost and nobody   *)
(* crashes, a request n has pending to p is under way, or pending at p as  *)
(* well, or p knows n as a friend (or blocked), or p's user has declined   *)
(* a request or withdrawn one that crossed it.  Crossing requests are both *)
(* dropped as duplicates, so "pending at p" includes p's own request,      *)
(* which neither side can accept (chat.rs:6713, friend_request.rs:461).    *)
(***************************************************************************)
NoRequestVanishes ==
  \A n, p \in Nodes :
    request[n][p] = "Outgoing" /\ ~ disturbed =>
      \/ UnderWay(n, p)
      \/ request[p][n] # "None"
      \/ relationship[p][n] \in {"Friends", "Blocked"}
      \/ \E act \in {"declined", "cancelled"} : act \in acts[p][n]

(***************************************************************************)
(* An acceptance is not swallowed.  While nothing is lost and nobody       *)
(* crashes, once p has accepted n's request, n regards p as a friend (or   *)
(* has blocked p), or withdrew the request, or still has it pending, with  *)
(* the invite queued at p or under way (contacts.rs:864): no duplicate,    *)
(* crossing or earlier invite leaves n where the acceptance cannot count   *)
(* any more (chat.rs:6832).                                                *)
(***************************************************************************)
AcceptanceIsOnItsWay ==
  \A n, p \in Nodes :
    "accepted" \in acts[p][n] /\ ~ disturbed =>
      \/ relationship[n][p] \in {"Friends", "Blocked"}
      \/ "cancelled" \in acts[n][p]
      \/ request[n][p] = "Outgoing" /\ (processing[p][n] > 0 \/ invitesTo[p][n] > 0)

(***************************************************************************)
(* The request file never lags behind for good: once no thread is saving,  *)
(* it holds what the store holds, with four exceptions.  An acceptance was *)
(* confirmed since the last save (chat.rs:6877); the last saves ran side   *)
(* by side and may have landed in the wrong order (atomic_write.rs:99); a  *)
(* save failed (app.rs:6785); the file was unreadable at the start         *)
(* (friend_request.rs:331).  The next save that runs alone ends each.      *)
(***************************************************************************)
RequestFileIsCurrent ==
  \A n \in Nodes :
    lag[n] = {} /\ ~ Saving(savingRequests[n]) => requestFile[n] = request[n]

(***************************************************************************)
(* An acceptance reaches the requester: once p has accepted n's request, n *)
(* comes to regard p as a friend, unless n withdrew it or a message was    *)
(* lost or a peer crashed (the invite is sent once and never again).       *)
(***************************************************************************)
AcceptanceArrives ==
  \A n, p \in Nodes :
    "accepted" \in acts[p][n] ~>
      \/ relationship[n][p] \in {"Friends", "Blocked"}
      \/ "cancelled" \in acts[n][p]
      \/ disturbed

(***************************************************************************)
(* Blocking a contact is effective for connections that are already there  *)
(* (main.rs:1829), which read the stored relationship for every message:   *)
(* once no save is under way, a blocked peer is not stored as a friend.    *)
(***************************************************************************)
BlockingIsEffective ==
  \A n, p \in Nodes :
    relationship[n][p] = "Blocked" /\ ~ Saving(savingFriends[n]) =>
      friendsFile[n][p] # "Friends"

(***************************************************************************)
(* "Opening a chat is NOT a friendship signal": n regards p as a friend    *)
(* only after one asked and the other accepted (contacts.rs:990).          *)
(***************************************************************************)
FriendshipIsExplicit ==
  \A n, p \in Nodes : relationship[n][p] = "Friends" => Agreed(n, p, {"accepted"})


=============================================================================
