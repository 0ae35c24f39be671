-------------------------- MODULE FriendshipProofs --------------------------
(***************************************************************************)
(* Proofs about Friendship, for any number of peers, commands and faults.  *)
(***************************************************************************)
EXTENDS Friendship, TLAPS

-----------------------------------------------------------------------------
(***************************************************************************)
(* Type correctness.                                                       *)
(***************************************************************************)

\* The initial state is well typed.
LEMMA TypeInit == ASSUME Init PROVE TypeOK
<1>1. NoRequests \in RequestStores /\ NoFriends \in FriendStores /\ Nowhere \in Counts
  BY DEF NoRequests, RequestStores, Requests, NoFriends, FriendStores,
         Relationships, Nowhere, Counts
<1>2. /\ savingRequests \in [Nodes -> [RequestStores -> Nat]]
      /\ savingFriends \in [Nodes -> [FriendStores -> Nat]]
      /\ acts \in [Nodes -> [Nodes -> SUBSET Acts]]
      /\ commands \in 0 .. MaxCommands /\ faults \in 0 .. MaxFaults
  BY FriendshipAssumption DEF Init
<1>3. QED
  BY <1>1, <1>2 DEF Init, TypeOK

\* Starting a save of the requests keeps the types.
LEMMA SaveRequestsType ==
  ASSUME TypeOK, NEW n \in Nodes, SaveRequests(n),
         request' \in [Nodes -> RequestStores]
  PROVE  /\ savingRequests' \in [Nodes -> [RequestStores -> Nat]]
         /\ lag' \in [Nodes -> SUBSET Lags]
         /\ requestFile' \in [Nodes -> RequestStores]
<1>1. request'[n] \in RequestStores
  OBVIOUS
<1>2. savingRequests' \in [Nodes -> [RequestStores -> Nat]]
  BY <1>1 DEF SaveRequests, TypeOK
<1>3. (IF Saving(savingRequests[n]) THEN {"overlap"} ELSE {}) \in SUBSET Lags
  BY DEF Lags
<1>4. lag' \in [Nodes -> SUBSET Lags]
  BY <1>3 DEF SaveRequests, TypeOK
<1>5. QED
  BY <1>2, <1>4 DEF SaveRequests, TypeOK

\* So does an attempt to save the friends.
LEMMA TrySaveType ==
  ASSUME TypeOK, NEW n \in Nodes, NEW dirty \in BOOLEAN, NEW marked \in BOOLEAN,
         TrySaveFriends(n, dirty, marked),
         relationship' \in [Nodes -> FriendStores]
  PROVE  /\ savingFriends' \in [Nodes -> [FriendStores -> Nat]]
         /\ friendsDirty' \in [Nodes -> BOOLEAN]
         /\ friendsFile' \in [Nodes -> FriendStores]
<1>1. relationship'[n] \in FriendStores
  OBVIOUS
<1>2. savingFriends' \in [Nodes -> [FriendStores -> Nat]]
  BY <1>1 DEF TrySaveFriends, TypeOK
<1>3. QED
  BY <1>2 DEF TrySaveFriends, TypeOK

\* The user's act is recorded and counted.
LEMMA ActType ==
  ASSUME TypeOK, NEW n \in Nodes, NEW p \in Nodes, NEW act \in Acts, Act(n, p, act)
  PROVE  /\ acts' \in [Nodes -> [Nodes -> SUBSET Acts]]
         /\ disturbed' \in BOOLEAN
         /\ commands' \in 0 .. MaxCommands
         /\ faults' \in 0 .. MaxFaults
<1>1. acts[n][p] \cup {act} \in SUBSET Acts
  BY DEF TypeOK
<1>2. acts' \in [Nodes -> [Nodes -> SUBSET Acts]]
  BY <1>1 DEF Act, TypeOK
<1>3. QED
  BY <1>2, FriendshipAssumption DEF Act, TypeOK

\* Counts of messages and of queued steps.
LEMMA TakenType ==
  ASSUME NEW f \in Counts, NEW n \in Nodes, NEW p \in Nodes, f[n][p] > 0
  PROVE  [f EXCEPT ![n][p] = @ - 1] \in Counts
<1>1. f[n][p] - 1 \in Nat
  BY DEF Counts
<1>2. QED
  BY <1>1 DEF Counts

\* Counts after a crash took the messages of n with it.
LEMMA CutType ==
  ASSUME NEW f \in Counts, NEW n \in Nodes
  PROVE  [q \in Nodes |-> [p \in Nodes |-> IF n \in {p, q} THEN 0 ELSE f[q][p]]]
           \in Counts
<1>1. \A q, p \in Nodes : (IF n \in {p, q} THEN 0 ELSE f[q][p]) \in Nat
  BY DEF Counts
<1>2. QED
  BY <1>1 DEF Counts

\* A fault is counted.
LEMMA FaultType ==
  ASSUME TypeOK, NEW disturbs \in BOOLEAN, Fault(disturbs)
  PROVE  /\ acts' \in [Nodes -> [Nodes -> SUBSET Acts]]
         /\ disturbed' \in BOOLEAN
         /\ commands' \in 0 .. MaxCommands
         /\ faults' \in 0 .. MaxFaults
<1>1. disturbed' \in BOOLEAN
  BY Zenon DEF Fault, TypeOK
<1>2. QED
  BY <1>1, FriendshipAssumption DEF Fault, TypeOK

\* A save that fails disturbs nobody, any other fault does.
LEMMA FaultDisturbs == TypeOK => /\ Fault(FALSE) => UNCHANGED <<acts, disturbed>>
                                 /\ Fault(TRUE) => disturbed'
<1>1. TypeOK /\ Fault(FALSE) => disturbed' = disturbed
  BY Zenon DEF Fault, TypeOK
<1>2. Fault(TRUE) => disturbed'
  BY Zenon DEF Fault
<1>3. QED
  BY <1>1, <1>2 DEF Fault

\* Every step keeps the types, action by action.
LEMMA TypeStep == ASSUME TypeOK, [Next]_vars PROVE TypeOK'
<1>1. ASSUME NEW n \in Nodes, NEW p \in Nodes, SendFriendRequest(n, p)
      PROVE TypeOK'
  <2>1. request' \in [Nodes -> RequestStores]
    BY <1>1 DEF SendFriendRequest, Act, TrySaveFriends, SaveRequests, Ensured,
        TypeOK, RequestStores, Requests
  <2>2. relationship' \in [Nodes -> FriendStores]
    BY <1>1 DEF SendFriendRequest, Act, TrySaveFriends, SaveRequests, Ensured,
        TypeOK, FriendStores, Relationships
  <2>3. /\ savingRequests' \in [Nodes -> [RequestStores -> Nat]]
        /\ lag' \in [Nodes -> SUBSET Lags]
        /\ requestFile' \in [Nodes -> RequestStores]
    BY <1>1, <2>1, SaveRequestsType DEF SendFriendRequest
  <2>4. /\ savingFriends' \in [Nodes -> [FriendStores -> Nat]]
        /\ friendsDirty' \in [Nodes -> BOOLEAN]
        /\ friendsFile' \in [Nodes -> FriendStores]
    <3>1. friendsDirty[n] \in BOOLEAN
      BY DEF TypeOK
    <3>2. QED
      BY <1>1, <2>2, <3>1, TrySaveType DEF SendFriendRequest
  <2>5. processing' \in Counts /\ requestsTo' \in Counts /\ invitesTo' \in Counts
    BY <1>1 DEF SendFriendRequest, Act, TrySaveFriends, SaveRequests, Ensured,
        TypeOK, Counts
  <2>6. /\ acts' \in [Nodes -> [Nodes -> SUBSET Acts]]
        /\ disturbed' \in BOOLEAN
        /\ commands' \in 0 .. MaxCommands
        /\ faults' \in 0 .. MaxFaults
    <3>1. "asked" \in Acts
      BY DEF Acts
    <3>2. QED
      BY <1>1, <3>1, ActType DEF SendFriendRequest
  <2>7. QED
    BY <2>1, <2>2, <2>3, <2>4, <2>5, <2>6 DEF TypeOK
<1>2. ASSUME NEW n \in Nodes, NEW p \in Nodes, AcceptRequest(n, p)
      PROVE TypeOK'
  <2>1. request' \in [Nodes -> RequestStores]
    BY <1>2 DEF AcceptRequest, Answer, Act, SaveRequests, network, friendSaves,
        TypeOK, RequestStores, Requests
  <2>2. relationship' \in [Nodes -> FriendStores]
    BY <1>2 DEF AcceptRequest, Answer, Act, SaveRequests, network, friendSaves,
        TypeOK, FriendStores, Relationships
  <2>3. /\ savingRequests' \in [Nodes -> [RequestStores -> Nat]]
        /\ lag' \in [Nodes -> SUBSET Lags]
        /\ requestFile' \in [Nodes -> RequestStores]
    BY <1>2, <2>1, SaveRequestsType DEF AcceptRequest, Answer
  <2>4. /\ savingFriends' \in [Nodes -> [FriendStores -> Nat]]
        /\ friendsDirty' \in [Nodes -> BOOLEAN]
        /\ friendsFile' \in [Nodes -> FriendStores]
    BY <1>2 DEF AcceptRequest, Answer, Act, SaveRequests, network, friendSaves, TypeOK
  <2>5. processing' \in Counts /\ requestsTo' \in Counts /\ invitesTo' \in Counts
    BY <1>2 DEF AcceptRequest, Answer, Act, SaveRequests, network, friendSaves,
        TypeOK, Counts
  <2>6. /\ acts' \in [Nodes -> [Nodes -> SUBSET Acts]]
        /\ disturbed' \in BOOLEAN
        /\ commands' \in 0 .. MaxCommands
        /\ faults' \in 0 .. MaxFaults
    <3>1. "accepted" \in Acts
      BY DEF Acts
    <3>2. QED
      BY <1>2, <3>1, ActType DEF AcceptRequest, Answer
  <2>7. QED
    BY <2>1, <2>2, <2>3, <2>4, <2>5, <2>6 DEF TypeOK
<1>3. ASSUME NEW n \in Nodes, NEW p \in Nodes, DeclineRequest(n, p)
      PROVE TypeOK'
  <2>1. request' \in [Nodes -> RequestStores]
    BY <1>3 DEF DeclineRequest, Answer, Act, SaveRequests, network, friendSaves,
        TypeOK, RequestStores, Requests
  <2>2. relationship' \in [Nodes -> FriendStores]
    BY <1>3 DEF DeclineRequest, Answer, Act, SaveRequests, network, friendSaves,
        TypeOK, FriendStores, Relationships
  <2>3. /\ savingRequests' \in [Nodes -> [RequestStores -> Nat]]
        /\ lag' \in [Nodes -> SUBSET Lags]
        /\ requestFile' \in [Nodes -> RequestStores]
    BY <1>3, <2>1, SaveRequestsType DEF DeclineRequest, Answer
  <2>4. /\ savingFriends' \in [Nodes -> [FriendStores -> Nat]]
        /\ friendsDirty' \in [Nodes -> BOOLEAN]
        /\ friendsFile' \in [Nodes -> FriendStores]
    BY <1>3 DEF DeclineRequest, Answer, Act, SaveRequests, network, friendSaves, TypeOK
  <2>5. processing' \in Counts /\ requestsTo' \in Counts /\ invitesTo' \in Counts
    BY <1>3 DEF DeclineRequest, Answer, Act, SaveRequests, network, friendSaves,
        TypeOK, Counts
  <2>6. /\ acts' \in [Nodes -> [Nodes -> SUBSET Acts]]
        /\ disturbed' \in BOOLEAN
        /\ commands' \in 0 .. MaxCommands
        /\ faults' \in 0 .. MaxFaults
    <3>1. "declined" \in Acts
      BY DEF Acts
    <3>2. QED
      BY <1>3, <3>1, ActType DEF DeclineRequest, Answer
  <2>7. QED
    BY <2>1, <2>2, <2>3, <2>4, <2>5, <2>6 DEF TypeOK
<1>4. ASSUME NEW n \in Nodes, NEW p \in Nodes, CancelRequest(n, p)
      PROVE TypeOK'
  <2>1. request' \in [Nodes -> RequestStores]
    BY <1>4 DEF CancelRequest, Answer, Act, SaveRequests, network, friendSaves,
        TypeOK, RequestStores, Requests
  <2>2. relationship' \in [Nodes -> FriendStores]
    BY <1>4 DEF CancelRequest, Answer, Act, SaveRequests, network, friendSaves,
        TypeOK, FriendStores, Relationships
  <2>3. /\ savingRequests' \in [Nodes -> [RequestStores -> Nat]]
        /\ lag' \in [Nodes -> SUBSET Lags]
        /\ requestFile' \in [Nodes -> RequestStores]
    BY <1>4, <2>1, SaveRequestsType DEF CancelRequest, Answer
  <2>4. /\ savingFriends' \in [Nodes -> [FriendStores -> Nat]]
        /\ friendsDirty' \in [Nodes -> BOOLEAN]
        /\ friendsFile' \in [Nodes -> FriendStores]
    BY <1>4 DEF CancelRequest, Answer, Act, SaveRequests, network, friendSaves, TypeOK
  <2>5. processing' \in Counts /\ requestsTo' \in Counts /\ invitesTo' \in Counts
    BY <1>4 DEF CancelRequest, Answer, Act, SaveRequests, network, friendSaves,
        TypeOK, Counts
  <2>6. /\ acts' \in [Nodes -> [Nodes -> SUBSET Acts]]
        /\ disturbed' \in BOOLEAN
        /\ commands' \in 0 .. MaxCommands
        /\ faults' \in 0 .. MaxFaults
    <3>1. "cancelled" \in Acts
      BY DEF Acts
    <3>2. QED
      BY <1>4, <3>1, ActType DEF CancelRequest, Answer
  <2>7. QED
    BY <2>1, <2>2, <2>3, <2>4, <2>5, <2>6 DEF TypeOK
<1>5. ASSUME NEW n \in Nodes, NEW p \in Nodes, OpenFriendChat(n, p)
      PROVE TypeOK'
  <2>1. request' \in [Nodes -> RequestStores]
    BY <1>5 DEF OpenFriendChat, Act, TrySaveFriends, Ensured, requestSaves, TypeOK,
        RequestStores, Requests
  <2>2. relationship' \in [Nodes -> FriendStores]
    BY <1>5 DEF OpenFriendChat, Act, TrySaveFriends, Ensured, requestSaves, TypeOK,
        FriendStores, Relationships
  <2>3. /\ savingRequests' \in [Nodes -> [RequestStores -> Nat]]
        /\ lag' \in [Nodes -> SUBSET Lags]
        /\ requestFile' \in [Nodes -> RequestStores]
    BY <1>5 DEF OpenFriendChat, Act, TrySaveFriends, Ensured, requestSaves, TypeOK
  <2>4. /\ savingFriends' \in [Nodes -> [FriendStores -> Nat]]
        /\ friendsDirty' \in [Nodes -> BOOLEAN]
        /\ friendsFile' \in [Nodes -> FriendStores]
    <3>1. friendsDirty[n] \in BOOLEAN
      BY DEF TypeOK
    <3>2. QED
      BY <1>5, <2>2, <3>1, TrySaveType DEF OpenFriendChat
  <2>5. processing' \in Counts /\ requestsTo' \in Counts /\ invitesTo' \in Counts
    BY <1>5 DEF OpenFriendChat, Act, TrySaveFriends, Ensured, requestSaves, TypeOK,
        Counts
  <2>6. /\ acts' \in [Nodes -> [Nodes -> SUBSET Acts]]
        /\ disturbed' \in BOOLEAN
        /\ commands' \in 0 .. MaxCommands
        /\ faults' \in 0 .. MaxFaults
    <3>1. "chatted" \in Acts
      BY DEF Acts
    <3>2. QED
      BY <1>5, <3>1, ActType DEF OpenFriendChat
  <2>7. QED
    BY <2>1, <2>2, <2>3, <2>4, <2>5, <2>6 DEF TypeOK
<1>6. ASSUME NEW n \in Nodes, NEW p \in Nodes, ConfirmBlockFriend(n, p)
      PROVE TypeOK'
  <2>1. request' \in [Nodes -> RequestStores]
    BY <1>6 DEF ConfirmBlockFriend, network, requestSaves, friendSaves, history,
        TypeOK, RequestStores, Requests
  <2>2. relationship' \in [Nodes -> FriendStores]
    BY <1>6 DEF ConfirmBlockFriend, network, requestSaves, friendSaves, history,
        TypeOK, FriendStores, Relationships
  <2>3. /\ savingRequests' \in [Nodes -> [RequestStores -> Nat]]
        /\ lag' \in [Nodes -> SUBSET Lags]
        /\ requestFile' \in [Nodes -> RequestStores]
    BY <1>6 DEF ConfirmBlockFriend, network, requestSaves, friendSaves, history, TypeOK
  <2>4. /\ savingFriends' \in [Nodes -> [FriendStores -> Nat]]
        /\ friendsDirty' \in [Nodes -> BOOLEAN]
        /\ friendsFile' \in [Nodes -> FriendStores]
    BY <1>6 DEF ConfirmBlockFriend, network, requestSaves, friendSaves, history, TypeOK
  <2>5. processing' \in Counts /\ requestsTo' \in Counts /\ invitesTo' \in Counts
    BY <1>6 DEF ConfirmBlockFriend, network, requestSaves, friendSaves, history,
        TypeOK, Counts
  <2>6. /\ acts' \in [Nodes -> [Nodes -> SUBSET Acts]]
        /\ disturbed' \in BOOLEAN
        /\ commands' \in 0 .. MaxCommands
        /\ faults' \in 0 .. MaxFaults
    BY <1>6, FriendshipAssumption DEF ConfirmBlockFriend, network, requestSaves,
        friendSaves, history, TypeOK
  <2>7. QED
    BY <2>1, <2>2, <2>3, <2>4, <2>5, <2>6 DEF TypeOK
<1>7. ASSUME NEW n \in Nodes, NEW p \in Nodes, Processed(n, p)
      PROVE TypeOK'
  <2>1. request' \in [Nodes -> RequestStores]
    BY <1>7 DEF Processed, TrySaveFriends, requestSaves, history, bounds, TypeOK,
        RequestStores, Requests
  <2>2. relationship' \in [Nodes -> FriendStores]
    BY <1>7 DEF Processed, TrySaveFriends, requestSaves, history, bounds, TypeOK,
        FriendStores, Relationships
  <2>3. /\ savingRequests' \in [Nodes -> [RequestStores -> Nat]]
        /\ lag' \in [Nodes -> SUBSET Lags]
        /\ requestFile' \in [Nodes -> RequestStores]
    BY <1>7 DEF Processed, TrySaveFriends, requestSaves, history, bounds, TypeOK
  <2>4. /\ savingFriends' \in [Nodes -> [FriendStores -> Nat]]
        /\ friendsDirty' \in [Nodes -> BOOLEAN]
        /\ friendsFile' \in [Nodes -> FriendStores]
    <3>1. friendsDirty[n] \in BOOLEAN
      BY DEF TypeOK
    <3>2. QED
      BY <1>7, <2>2, <3>1, TrySaveType DEF Processed
  <2>5. processing' \in Counts /\ requestsTo' \in Counts /\ invitesTo' \in Counts
    BY <1>7 DEF Processed, TrySaveFriends, requestSaves, history, bounds, TypeOK, Counts
  <2>6. /\ acts' \in [Nodes -> [Nodes -> SUBSET Acts]]
        /\ disturbed' \in BOOLEAN
        /\ commands' \in 0 .. MaxCommands
        /\ faults' \in 0 .. MaxFaults
    BY <1>7, FriendshipAssumption DEF Processed, TrySaveFriends, requestSaves,
        history, bounds, TypeOK
  <2>7. QED
    BY <2>1, <2>2, <2>3, <2>4, <2>5, <2>6 DEF TypeOK
<1>8. ASSUME NEW n \in Nodes, NEW p \in Nodes, ReceiveFriendRequest(n, p)
      PROVE TypeOK'
  <2>1. request' \in [Nodes -> RequestStores]
    <3>1. request' \in {request, [request EXCEPT ![n][p] = "Incoming"]}
      BY <1>8 DEF ReceiveFriendRequest
    <3>2. [request EXCEPT ![n][p] = "Incoming"] \in [Nodes -> RequestStores]
      BY DEF TypeOK, RequestStores, Requests
    <3>3. QED
      BY <3>1, <3>2 DEF TypeOK
  <2>2. relationship' \in [Nodes -> FriendStores]
    BY <1>8 DEF ReceiveFriendRequest, SaveRequests, requestSaves, friendSaves,
        history, bounds, TypeOK, FriendStores, Relationships
  <2>3. /\ savingRequests' \in [Nodes -> [RequestStores -> Nat]]
        /\ lag' \in [Nodes -> SUBSET Lags]
        /\ requestFile' \in [Nodes -> RequestStores]
    BY <1>8, <2>1, SaveRequestsType DEF ReceiveFriendRequest, requestSaves, TypeOK
  <2>4. /\ savingFriends' \in [Nodes -> [FriendStores -> Nat]]
        /\ friendsDirty' \in [Nodes -> BOOLEAN]
        /\ friendsFile' \in [Nodes -> FriendStores]
    BY <1>8 DEF ReceiveFriendRequest, SaveRequests, requestSaves, friendSaves,
        history, bounds, TypeOK
  <2>5. processing' \in Counts /\ requestsTo' \in Counts /\ invitesTo' \in Counts
    BY <1>8 DEF ReceiveFriendRequest, SaveRequests, requestSaves, friendSaves,
        history, bounds, TypeOK, Counts
  <2>6. /\ acts' \in [Nodes -> [Nodes -> SUBSET Acts]]
        /\ disturbed' \in BOOLEAN
        /\ commands' \in 0 .. MaxCommands
        /\ faults' \in 0 .. MaxFaults
    BY <1>8, FriendshipAssumption DEF ReceiveFriendRequest, SaveRequests,
        requestSaves, friendSaves, history, bounds, TypeOK
  <2>7. QED
    BY <2>1, <2>2, <2>3, <2>4, <2>5, <2>6 DEF TypeOK
<1>9. ASSUME NEW n \in Nodes, NEW p \in Nodes, ReceiveInvite(n, p)
      PROVE TypeOK'
  <2>1. request' \in [Nodes -> RequestStores]
    BY <1>9 DEF ReceiveInvite, IsAcceptanceReply, TrySaveFriends, Ensured, history,
        bounds, TypeOK, RequestStores, Requests
  <2>2. relationship' \in [Nodes -> FriendStores]
    BY <1>9 DEF ReceiveInvite, IsAcceptanceReply, TrySaveFriends, Ensured, history,
        bounds, TypeOK, FriendStores, Relationships
  <2>3. /\ savingRequests' \in [Nodes -> [RequestStores -> Nat]]
        /\ lag' \in [Nodes -> SUBSET Lags]
        /\ requestFile' \in [Nodes -> RequestStores]
    BY <1>9 DEF ReceiveInvite, TypeOK, Lags
  <2>4. /\ savingFriends' \in [Nodes -> [FriendStores -> Nat]]
        /\ friendsDirty' \in [Nodes -> BOOLEAN]
        /\ friendsFile' \in [Nodes -> FriendStores]
    <3>1. friendsDirty[n] \in BOOLEAN
      BY DEF TypeOK
    <3>2. QED
      BY <1>9, <2>2, <3>1, TrySaveType DEF ReceiveInvite
  <2>5. processing' \in Counts /\ requestsTo' \in Counts /\ invitesTo' \in Counts
    BY <1>9 DEF ReceiveInvite, IsAcceptanceReply, TrySaveFriends, Ensured, history,
        bounds, TypeOK, Counts
  <2>6. /\ acts' \in [Nodes -> [Nodes -> SUBSET Acts]]
        /\ disturbed' \in BOOLEAN
        /\ commands' \in 0 .. MaxCommands
        /\ faults' \in 0 .. MaxFaults
    BY <1>9, FriendshipAssumption DEF ReceiveInvite, IsAcceptanceReply,
        TrySaveFriends, Ensured, history, bounds, TypeOK
  <2>7. QED
    BY <2>1, <2>2, <2>3, <2>4, <2>5, <2>6 DEF TypeOK
<1>10. ASSUME NEW n \in Nodes, NEW p \in Nodes, ReceiveAdvertisement(n, p)
       PROVE TypeOK'
  <2>1. request' \in [Nodes -> RequestStores]
    BY <1>10 DEF ReceiveAdvertisement, TrySaveFriends, Ensured, network,
        requestSaves, history, bounds, TypeOK, RequestStores, Requests
  <2>2. relationship' \in [Nodes -> FriendStores]
    BY <1>10 DEF ReceiveAdvertisement, TrySaveFriends, Ensured, network,
        requestSaves, history, bounds, TypeOK, FriendStores, Relationships
  <2>3. /\ savingRequests' \in [Nodes -> [RequestStores -> Nat]]
        /\ lag' \in [Nodes -> SUBSET Lags]
        /\ requestFile' \in [Nodes -> RequestStores]
    BY <1>10 DEF ReceiveAdvertisement, TrySaveFriends, Ensured, network,
        requestSaves, history, bounds, TypeOK
  <2>4. /\ savingFriends' \in [Nodes -> [FriendStores -> Nat]]
        /\ friendsDirty' \in [Nodes -> BOOLEAN]
        /\ friendsFile' \in [Nodes -> FriendStores]
    <3>1. friendsDirty[n] \in BOOLEAN
      BY DEF TypeOK
    <3>2. QED
      BY <1>10, <2>2, <3>1, TrySaveType DEF ReceiveAdvertisement
  <2>5. processing' \in Counts /\ requestsTo' \in Counts /\ invitesTo' \in Counts
    BY <1>10 DEF ReceiveAdvertisement, TrySaveFriends, Ensured, network,
        requestSaves, history, bounds, TypeOK, Counts
  <2>6. /\ acts' \in [Nodes -> [Nodes -> SUBSET Acts]]
        /\ disturbed' \in BOOLEAN
        /\ commands' \in 0 .. MaxCommands
        /\ faults' \in 0 .. MaxFaults
    BY <1>10, FriendshipAssumption DEF ReceiveAdvertisement, TrySaveFriends,
        Ensured, network, requestSaves, history, bounds, TypeOK
  <2>7. QED
    BY <2>1, <2>2, <2>3, <2>4, <2>5, <2>6 DEF TypeOK
<1>11. ASSUME NEW n \in Nodes, NEW p \in Nodes, LoseMessage(n, p)
       PROVE TypeOK'
  <2>1. request' \in [Nodes -> RequestStores]
    BY <1>11 DEF LoseMessage, Fault, memory, requestSaves, friendSaves, TypeOK,
        RequestStores, Requests
  <2>2. relationship' \in [Nodes -> FriendStores]
    BY <1>11 DEF LoseMessage, Fault, memory, requestSaves, friendSaves, TypeOK,
        FriendStores, Relationships
  <2>3. /\ savingRequests' \in [Nodes -> [RequestStores -> Nat]]
        /\ lag' \in [Nodes -> SUBSET Lags]
        /\ requestFile' \in [Nodes -> RequestStores]
    BY <1>11 DEF LoseMessage, Fault, memory, requestSaves, friendSaves, TypeOK
  <2>4. /\ savingFriends' \in [Nodes -> [FriendStores -> Nat]]
        /\ friendsDirty' \in [Nodes -> BOOLEAN]
        /\ friendsFile' \in [Nodes -> FriendStores]
    BY <1>11 DEF LoseMessage, Fault, memory, requestSaves, friendSaves, TypeOK
  <2>5. processing' \in Counts /\ requestsTo' \in Counts /\ invitesTo' \in Counts
    <3>1. /\ \/ requestsTo' = requestsTo
             \/ requestsTo[n][p] > 0 /\ requestsTo' = [requestsTo EXCEPT ![n][p] = @ - 1]
          /\ \/ invitesTo' = invitesTo
             \/ invitesTo[n][p] > 0 /\ invitesTo' = [invitesTo EXCEPT ![n][p] = @ - 1]
      BY <1>11 DEF LoseMessage
    <3> requestsTo \in Counts /\ invitesTo \in Counts
      BY DEF TypeOK
    <3>2. requestsTo' \in Counts
      <4>1. CASE requestsTo[n][p] > 0
        <5>1. [requestsTo EXCEPT ![n][p] = @ - 1] \in Counts
          BY <4>1, TakenType
        <5>2. QED
          BY <3>1, <5>1
      <4>2. CASE ~ (requestsTo[n][p] > 0)
        BY <3>1, <4>2
      <4>3. QED
        BY <4>1, <4>2
    <3>3. invitesTo' \in Counts
      <4>1. CASE invitesTo[n][p] > 0
        <5>1. [invitesTo EXCEPT ![n][p] = @ - 1] \in Counts
          BY <4>1, TakenType
        <5>2. QED
          BY <3>1, <5>1
      <4>2. CASE ~ (invitesTo[n][p] > 0)
        BY <3>1, <4>2
      <4>3. QED
        BY <4>1, <4>2
    <3>4. QED
      BY <1>11, <3>2, <3>3 DEF LoseMessage, memory, TypeOK
  <2>6. /\ acts' \in [Nodes -> [Nodes -> SUBSET Acts]]
        /\ disturbed' \in BOOLEAN
        /\ commands' \in 0 .. MaxCommands
        /\ faults' \in 0 .. MaxFaults
    BY <1>11, FaultType DEF LoseMessage
  <2>7. QED
    BY <2>1, <2>2, <2>3, <2>4, <2>5, <2>6 DEF TypeOK
<1>12. ASSUME NEW n \in Nodes, NeighborStatus(n)
       PROVE TypeOK'
  <2>1. request' \in [Nodes -> RequestStores]
    BY <1>12 DEF NeighborStatus, network, requestSaves, friendSaves, history,
        TypeOK, RequestStores, Requests
  <2>2. relationship' \in [Nodes -> FriendStores]
    BY <1>12 DEF NeighborStatus, network, requestSaves, friendSaves, history,
        TypeOK, FriendStores, Relationships
  <2>3. /\ savingRequests' \in [Nodes -> [RequestStores -> Nat]]
        /\ lag' \in [Nodes -> SUBSET Lags]
        /\ requestFile' \in [Nodes -> RequestStores]
    BY <1>12 DEF NeighborStatus, network, requestSaves, friendSaves, history, TypeOK
  <2>4. /\ savingFriends' \in [Nodes -> [FriendStores -> Nat]]
        /\ friendsDirty' \in [Nodes -> BOOLEAN]
        /\ friendsFile' \in [Nodes -> FriendStores]
    BY <1>12 DEF NeighborStatus, network, requestSaves, friendSaves, history, TypeOK
  <2>5. processing' \in Counts /\ requestsTo' \in Counts /\ invitesTo' \in Counts
    BY <1>12 DEF NeighborStatus, network, requestSaves, friendSaves, history,
        TypeOK, Counts
  <2>6. /\ acts' \in [Nodes -> [Nodes -> SUBSET Acts]]
        /\ disturbed' \in BOOLEAN
        /\ commands' \in 0 .. MaxCommands
        /\ faults' \in 0 .. MaxFaults
    BY <1>12, FriendshipAssumption DEF NeighborStatus, network, requestSaves,
        friendSaves, history, TypeOK
  <2>7. QED
    BY <2>1, <2>2, <2>3, <2>4, <2>5, <2>6 DEF TypeOK
<1>13. ASSUME NEW n \in Nodes, NetEvent(n)
       PROVE TypeOK'
  <2>1. request' \in [Nodes -> RequestStores]
    BY <1>13 DEF NetEvent, TrySaveFriends, network, requestSaves, history, bounds,
        TypeOK, RequestStores, Requests
  <2>2. relationship' \in [Nodes -> FriendStores]
    BY <1>13 DEF NetEvent, TrySaveFriends, network, requestSaves, history, bounds,
        TypeOK, FriendStores, Relationships
  <2>3. /\ savingRequests' \in [Nodes -> [RequestStores -> Nat]]
        /\ lag' \in [Nodes -> SUBSET Lags]
        /\ requestFile' \in [Nodes -> RequestStores]
    BY <1>13 DEF NetEvent, TrySaveFriends, network, requestSaves, history, bounds,
        TypeOK
  <2>4. /\ savingFriends' \in [Nodes -> [FriendStores -> Nat]]
        /\ friendsDirty' \in [Nodes -> BOOLEAN]
        /\ friendsFile' \in [Nodes -> FriendStores]
    <3>1. friendsDirty[n] \in BOOLEAN
      BY DEF TypeOK
    <3>2. QED
      BY <1>13, <2>2, <3>1, TrySaveType DEF NetEvent
  <2>5. processing' \in Counts /\ requestsTo' \in Counts /\ invitesTo' \in Counts
    BY <1>13 DEF NetEvent, TrySaveFriends, network, requestSaves, history, bounds,
        TypeOK, Counts
  <2>6. /\ acts' \in [Nodes -> [Nodes -> SUBSET Acts]]
        /\ disturbed' \in BOOLEAN
        /\ commands' \in 0 .. MaxCommands
        /\ faults' \in 0 .. MaxFaults
    BY <1>13, FriendshipAssumption DEF NetEvent, TrySaveFriends, network,
        requestSaves, history, bounds, TypeOK
  <2>7. QED
    BY <2>1, <2>2, <2>3, <2>4, <2>5, <2>6 DEF TypeOK
<1>14. ASSUME NEW n \in Nodes, RequestSaveLands(n)
       PROVE TypeOK'
  <2>1. request' \in [Nodes -> RequestStores]
    BY <1>14 DEF RequestSaveLands, memory, network, friendSaves, history, bounds,
        TypeOK, RequestStores, Requests
  <2>2. relationship' \in [Nodes -> FriendStores]
    BY <1>14 DEF RequestSaveLands, memory, network, friendSaves, history, bounds,
        TypeOK, FriendStores, Relationships
  <2>3. /\ savingRequests' \in [Nodes -> [RequestStores -> Nat]]
        /\ lag' \in [Nodes -> SUBSET Lags]
        /\ requestFile' \in [Nodes -> RequestStores]
    BY <1>14 DEF RequestSaveLands, memory, network, friendSaves, history, bounds, TypeOK
  <2>4. /\ savingFriends' \in [Nodes -> [FriendStores -> Nat]]
        /\ friendsDirty' \in [Nodes -> BOOLEAN]
        /\ friendsFile' \in [Nodes -> FriendStores]
    BY <1>14 DEF RequestSaveLands, memory, network, friendSaves, history, bounds, TypeOK
  <2>5. processing' \in Counts /\ requestsTo' \in Counts /\ invitesTo' \in Counts
    BY <1>14 DEF RequestSaveLands, memory, network, friendSaves, history, bounds,
        TypeOK, Counts
  <2>6. /\ acts' \in [Nodes -> [Nodes -> SUBSET Acts]]
        /\ disturbed' \in BOOLEAN
        /\ commands' \in 0 .. MaxCommands
        /\ faults' \in 0 .. MaxFaults
    BY <1>14, FriendshipAssumption DEF RequestSaveLands, memory, network,
        friendSaves, history, bounds, TypeOK
  <2>7. QED
    BY <2>1, <2>2, <2>3, <2>4, <2>5, <2>6 DEF TypeOK
<1>15. ASSUME NEW n \in Nodes, FriendsSaveLands(n)
       PROVE TypeOK'
  <2>1. request' \in [Nodes -> RequestStores]
    BY <1>15 DEF FriendsSaveLands, memory, network, requestSaves, history, bounds,
        TypeOK, RequestStores, Requests
  <2>2. relationship' \in [Nodes -> FriendStores]
    BY <1>15 DEF FriendsSaveLands, memory, network, requestSaves, history, bounds,
        TypeOK, FriendStores, Relationships
  <2>3. /\ savingRequests' \in [Nodes -> [RequestStores -> Nat]]
        /\ lag' \in [Nodes -> SUBSET Lags]
        /\ requestFile' \in [Nodes -> RequestStores]
    BY <1>15 DEF FriendsSaveLands, memory, network, requestSaves, history, bounds,
        TypeOK
  <2>4. /\ savingFriends' \in [Nodes -> [FriendStores -> Nat]]
        /\ friendsDirty' \in [Nodes -> BOOLEAN]
        /\ friendsFile' \in [Nodes -> FriendStores]
    BY <1>15 DEF FriendsSaveLands, memory, network, requestSaves, history, bounds,
        TypeOK
  <2>5. processing' \in Counts /\ requestsTo' \in Counts /\ invitesTo' \in Counts
    BY <1>15 DEF FriendsSaveLands, memory, network, requestSaves, history, bounds,
        TypeOK, Counts
  <2>6. /\ acts' \in [Nodes -> [Nodes -> SUBSET Acts]]
        /\ disturbed' \in BOOLEAN
        /\ commands' \in 0 .. MaxCommands
        /\ faults' \in 0 .. MaxFaults
    BY <1>15, FriendshipAssumption DEF FriendsSaveLands, memory, network,
        requestSaves, history, bounds, TypeOK
  <2>7. QED
    BY <2>1, <2>2, <2>3, <2>4, <2>5, <2>6 DEF TypeOK
<1>16. ASSUME NEW n \in Nodes, Crash(n)
       PROVE TypeOK'
  <2>1. request' \in [Nodes -> RequestStores]
    <3>1. requestFile[n] \in RequestStores /\ NoRequests \in RequestStores
      BY DEF TypeOK, NoRequests, RequestStores, Requests
    <3>2. QED
      BY <1>16, <3>1 DEF Crash, LoadRequests, TypeOK
  <2>2. relationship' \in [Nodes -> FriendStores]
    <3>1. friendsFile[n] \in FriendStores /\ NoFriends \in FriendStores
      BY DEF TypeOK, NoFriends, FriendStores, Relationships
    <3>2. PICK s \in {friendsFile[n], NoFriends} : relationship' = [relationship EXCEPT ![n] = s]
      BY <1>16 DEF Crash
    <3>3. QED
      BY <3>1, <3>2 DEF TypeOK
  <2>3. /\ savingRequests' \in [Nodes -> [RequestStores -> Nat]]
        /\ lag' \in [Nodes -> SUBSET Lags]
        /\ requestFile' \in [Nodes -> RequestStores]
    <3>1. PICK l \in {{}, {"unread"}} : lag' = [lag EXCEPT ![n] = l]
      BY <1>16 DEF Crash, LoadRequests
    <3>2. lag' \in [Nodes -> SUBSET Lags]
      BY <3>1 DEF TypeOK, Lags
    <3>3. QED
      BY <1>16, <3>2 DEF Crash, TypeOK
  <2>4. /\ savingFriends' \in [Nodes -> [FriendStores -> Nat]]
        /\ friendsDirty' \in [Nodes -> BOOLEAN]
        /\ friendsFile' \in [Nodes -> FriendStores]
    BY <1>16 DEF Crash, TypeOK
  <2>5. processing' \in Counts /\ requestsTo' \in Counts /\ invitesTo' \in Counts
    <3>1. processing' \in Counts
      BY <1>16 DEF Crash, TypeOK, Counts
    <3>2. requestsTo' \in Counts /\ invitesTo' \in Counts
      <4>1. \/ requestsTo' = requestsTo /\ invitesTo' = invitesTo
            \/ /\ requestsTo' = [q \in Nodes |-> [p \in Nodes |->
                                  IF n \in {p, q} THEN 0 ELSE requestsTo[q][p]]]
               /\ invitesTo' = [q \in Nodes |-> [p \in Nodes |->
                                 IF n \in {p, q} THEN 0 ELSE invitesTo[q][p]]]
        BY <1>16 DEF Crash, network
      <4>2. QED
        BY <4>1, CutType DEF TypeOK
    <3>3. QED
      BY <3>1, <3>2
  <2>6. /\ acts' \in [Nodes -> [Nodes -> SUBSET Acts]]
        /\ disturbed' \in BOOLEAN
        /\ commands' \in 0 .. MaxCommands
        /\ faults' \in 0 .. MaxFaults
    BY <1>16, FaultType DEF Crash
  <2>7. QED
    BY <2>1, <2>2, <2>3, <2>4, <2>5, <2>6 DEF TypeOK
<1>17. ASSUME NEW n \in Nodes, RequestSaveFails(n)
       PROVE TypeOK'
  <2>1. savingRequests' \in [Nodes -> [RequestStores -> Nat]]
    <3>1. PICK s \in RequestStores :
            /\ savingRequests[n][s] > 0
            /\ savingRequests' = [savingRequests EXCEPT ![n][s] = @ - 1]
      BY <1>17 DEF RequestSaveFails
    <3>2. savingRequests[n][s] - 1 \in Nat
      BY <3>1 DEF TypeOK
    <3>3. QED
      BY <3>1, <3>2 DEF TypeOK
  <2>2. lag' \in [Nodes -> SUBSET Lags]
    BY <1>17 DEF RequestSaveFails, TypeOK, Lags
  <2>3. /\ acts' \in [Nodes -> [Nodes -> SUBSET Acts]]
        /\ disturbed' \in BOOLEAN
        /\ commands' \in 0 .. MaxCommands
        /\ faults' \in 0 .. MaxFaults
    BY <1>17, FaultType DEF RequestSaveFails
  <2>4. QED
    BY <1>17, <2>1, <2>2, <2>3 DEF RequestSaveFails, memory, network, friendSaves, TypeOK
<1>18. ASSUME NEW n \in Nodes, FriendsSaveFails(n)
       PROVE TypeOK'
  <2>1. savingFriends' \in [Nodes -> [FriendStores -> Nat]]
    <3>1. PICK s \in FriendStores :
            /\ savingFriends[n][s] > 0
            /\ savingFriends' = [savingFriends EXCEPT ![n][s] = @ - 1]
      BY <1>18 DEF FriendsSaveFails
    <3>2. savingFriends[n][s] - 1 \in Nat
      BY <3>1 DEF TypeOK
    <3>3. QED
      BY <3>1, <3>2 DEF TypeOK
  <2>2. lag' \in [Nodes -> SUBSET Lags]
    BY <1>18 DEF FriendsSaveFails, requestSaves, TypeOK
  <2>3. /\ acts' \in [Nodes -> [Nodes -> SUBSET Acts]]
        /\ disturbed' \in BOOLEAN
        /\ commands' \in 0 .. MaxCommands
        /\ faults' \in 0 .. MaxFaults
    BY <1>18, FaultType DEF FriendsSaveFails
  <2>4. QED
    BY <1>18, <2>1, <2>2, <2>3 DEF FriendsSaveFails, memory, network, requestSaves, TypeOK
<1>19. CASE UNCHANGED vars
  BY <1>19 DEF vars, memory, network, requestSaves, friendSaves, history, bounds, TypeOK
<1>20. QED
  BY <1>1, <1>2, <1>3, <1>4, <1>5, <1>6, <1>7, <1>8, <1>9, <1>10, <1>11, <1>12,
      <1>13, <1>14, <1>15, <1>16, <1>17, <1>18, <1>19
  DEF Next, UserStep, Handling, Background

\* Every reachable state is well typed.
THEOREM TypeCorrect == Spec => []TypeOK
BY TypeInit, TypeStep, PTL DEF Spec

-----------------------------------------------------------------------------
(***************************************************************************)
(* Friendship is agreed.  The stores, their files, the snapshots that are  *)
(* being saved and the messages under way are all covered by what the      *)
(* users did; a crash or a late save can bring back any of them.           *)
(***************************************************************************)

\* The requests in the store s of n, and its friends, follow from the acts a.
HonestRequests(a, n, s) ==
  \A p \in Nodes : /\ s[p] = "Outgoing" => "asked" \in a[n][p]
                   /\ s[p] = "Incoming" => "asked" \in a[p][n]

AgreedBy(a, n, p) ==
  \/ "accepted" \in a[n][p] /\ "asked" \in a[p][n]
  \/ "asked" \in a[n][p] /\ ("accepted" \in a[p][n] \/ "chatted" \in a[p][n])

HonestFriends(a, n, s) ==
  \A p \in Nodes : s[p] = "Friends" => AgreedBy(a, n, p)

RequestInv ==
  \A n \in Nodes :
    /\ HonestRequests(acts, n, request[n])
    /\ HonestRequests(acts, n, requestFile[n])
    /\ \A s \in RequestStores :
         savingRequests[n][s] > 0 => HonestRequests(acts, n, s)

FriendInv ==
  \A n \in Nodes :
    /\ HonestFriends(acts, n, relationship[n])
    /\ HonestFriends(acts, n, friendsFile[n])
    /\ \A s \in FriendStores :
         savingFriends[n][s] > 0 => HonestFriends(acts, n, s)

MessageInv ==
  \A n, p \in Nodes :
    /\ requestsTo[n][p] > 0 => "asked" \in acts[n][p]
    /\ processing[n][p] > 0 => "accepted" \in acts[n][p] /\ "asked" \in acts[p][n]
    /\ invitesTo[n][p] > 0 => "accepted" \in acts[n][p] \/ "chatted" \in acts[n][p]

AgreementInv == RequestInv /\ FriendInv /\ MessageInv

\* Acts are never forgotten.
Grow == \A n, p \in Nodes : acts[n][p] \subseteq acts'[n][p]

\* No step takes an act back.
LEMMA ActsGrow == ASSUME TypeOK, [Next]_vars PROVE Grow
<1>1. \A n, p \in Nodes, act \in Acts : Act(n, p, act) => Grow
  BY DEF Act, TypeOK, Grow
<1>2. UNCHANGED acts => Grow
  BY DEF Grow
<1>3. \A act \in {"asked", "accepted", "declined", "cancelled", "chatted"} : act \in Acts
  BY DEF Acts
<1>4. ASSUME NEW n \in Nodes, NEW p \in Nodes, UserStep(n, p) PROVE Grow
  <2>1. ConfirmBlockFriend(n, p) => UNCHANGED acts
    BY DEF ConfirmBlockFriend, history
  <2>2. QED
    BY <1>1, <1>2, <1>3, <1>4, <2>1
    DEF UserStep, SendFriendRequest, AcceptRequest, DeclineRequest, CancelRequest,
        OpenFriendChat, Answer
<1>5. ASSUME NEW n \in Nodes, NEW p \in Nodes, Handling(n, p) PROVE UNCHANGED acts
  BY <1>5 DEF Handling, Processed, ReceiveFriendRequest, ReceiveInvite,
              ReceiveAdvertisement, history
<1>6. ASSUME NEW n \in Nodes, Background(n) PROVE UNCHANGED acts
  BY <1>6 DEF Background, NeighborStatus, NetEvent, RequestSaveLands,
              FriendsSaveLands, history
<1>7. ASSUME NEW disturbs, Fault(disturbs) PROVE UNCHANGED acts
  BY <1>7 DEF Fault
<1>8. CASE UNCHANGED vars
  BY <1>2, <1>8 DEF vars, history
<1>9. QED
  BY <1>2, <1>4, <1>5, <1>6, <1>7, <1>8
  DEF Next, LoseMessage, RequestSaveFails, FriendsSaveFails, Crash

\* What was honest stays honest.
LEMMA HonestGrow ==
  ASSUME Grow, NEW n \in Nodes
  PROVE  /\ \A s \in RequestStores : HonestRequests(acts, n, s) => HonestRequests(acts', n, s)
         /\ \A s \in FriendStores : HonestFriends(acts, n, s) => HonestFriends(acts', n, s)
BY DEF Grow, HonestRequests, HonestFriends, AgreedBy

\* A step that changes one entry of one request store.
LEMMA RequestChanged ==
  ASSUME TypeOK, RequestInv, Grow, NEW n \in Nodes, NEW p \in Nodes, NEW v,
         request' = [request EXCEPT ![n][p] = v],
         v = "Outgoing" => "asked" \in acts'[n][p],
         v = "Incoming" => "asked" \in acts'[p][n]
  PROVE  \A q \in Nodes : HonestRequests(acts', q, request'[q])
<1> SUFFICES ASSUME NEW q \in Nodes PROVE HonestRequests(acts', q, request'[q])
  OBVIOUS
<1>1. HonestRequests(acts', q, request[q])
  BY HonestGrow DEF RequestInv, TypeOK
<1>2. \A r \in Nodes : request'[q][r] = IF q = n /\ r = p THEN v ELSE request[q][r]
  BY DEF TypeOK, RequestStores
<1>3. QED
  BY <1>1, <1>2 DEF HonestRequests

\* A step that changes one entry of one friends store.
LEMMA FriendChanged ==
  ASSUME TypeOK, FriendInv, Grow, NEW n \in Nodes, NEW p \in Nodes, NEW v,
         relationship' = [relationship EXCEPT ![n][p] = v],
         v = "Friends" => relationship[n][p] = "Friends" \/ AgreedBy(acts', n, p)
  PROVE  \A q \in Nodes : HonestFriends(acts', q, relationship'[q])
<1> SUFFICES ASSUME NEW q \in Nodes PROVE HonestFriends(acts', q, relationship'[q])
  OBVIOUS
<1>1. HonestFriends(acts', q, relationship[q])
  BY HonestGrow DEF FriendInv, TypeOK
<1>2. \A r \in Nodes : relationship'[q][r] = IF q = n /\ r = p THEN v ELSE relationship[q][r]
  BY DEF TypeOK, FriendStores
<1>3. QED
  BY <1>1, <1>2 DEF HonestFriends

\* The requests after a step that saves them.
LEMMA RequestsSaved ==
  ASSUME TypeOK, TypeOK', RequestInv, Grow, NEW n \in Nodes, SaveRequests(n),
         \A q \in Nodes : HonestRequests(acts', q, request'[q])
  PROVE  RequestInv'
<1> SUFFICES ASSUME NEW q \in Nodes
             PROVE  /\ HonestRequests(acts', q, requestFile'[q])
                    /\ \A s \in RequestStores :
                         savingRequests'[q][s] > 0 => HonestRequests(acts', q, s)
  BY DEF RequestInv
<1>1. HonestRequests(acts', q, requestFile'[q])
  BY HonestGrow DEF RequestInv, TypeOK, SaveRequests
<1>2. ASSUME NEW s \in RequestStores, savingRequests'[q][s] > 0
      PROVE  HonestRequests(acts', q, s)
  <2>1. CASE q = n /\ s = request'[n]
    BY <2>1
  <2>2. CASE ~ (q = n /\ s = request'[n])
    <3>1. request'[n] \in RequestStores
      BY DEF TypeOK
    <3>2. savingRequests'[q][s] = savingRequests[q][s]
      BY <2>2, <3>1 DEF SaveRequests, TypeOK
    <3>3. QED
      BY <1>2, <3>2, HonestGrow DEF RequestInv
  <2>3. QED
    BY <2>1, <2>2
<1>3. QED
  BY <1>1, <1>2

\* The requests after a step that leaves their file and saves alone.
LEMMA RequestsUnsaved ==
  ASSUME TypeOK, RequestInv, Grow, UNCHANGED <<requestFile, savingRequests>>,
         \A q \in Nodes : HonestRequests(acts', q, request'[q])
  PROVE  RequestInv'
<1> SUFFICES ASSUME NEW q \in Nodes
             PROVE  /\ HonestRequests(acts', q, requestFile[q])
                    /\ \A s \in RequestStores :
                         savingRequests[q][s] > 0 => HonestRequests(acts', q, s)
  BY DEF RequestInv
<1>1. QED
  BY HonestGrow DEF RequestInv, TypeOK

\* A step that leaves the request stores alone.
LEMMA RequestsKept ==
  ASSUME TypeOK, RequestInv, Grow, UNCHANGED request
  PROVE  \A q \in Nodes : HonestRequests(acts', q, request'[q])
BY HonestGrow DEF RequestInv, TypeOK

\* The friends after an attempt to save them.
LEMMA FriendsSaved ==
  ASSUME TypeOK, TypeOK', FriendInv, Grow, NEW n \in Nodes, NEW dirty, NEW marked,
         TrySaveFriends(n, dirty, marked),
         \A q \in Nodes : HonestFriends(acts', q, relationship'[q])
  PROVE  FriendInv'
<1> SUFFICES ASSUME NEW q \in Nodes
             PROVE  /\ HonestFriends(acts', q, friendsFile'[q])
                    /\ \A s \in FriendStores :
                         savingFriends'[q][s] > 0 => HonestFriends(acts', q, s)
  BY DEF FriendInv
<1>1. HonestFriends(acts', q, friendsFile'[q])
  BY HonestGrow DEF FriendInv, TypeOK, TrySaveFriends
<1>2. ASSUME NEW s \in FriendStores, savingFriends'[q][s] > 0
      PROVE  HonestFriends(acts', q, s)
  <2>1. CASE q = n /\ s = relationship'[n]
    BY <2>1
  <2>2. CASE ~ (q = n /\ s = relationship'[n])
    <3>1. relationship'[n] \in FriendStores
      BY DEF TypeOK
    <3>2. savingFriends'[q][s] = savingFriends[q][s]
      BY <2>2, <3>1 DEF TrySaveFriends, TypeOK
    <3>3. QED
      BY <1>2, <3>2, HonestGrow DEF FriendInv
  <2>3. QED
    BY <2>1, <2>2
<1>3. QED
  BY <1>1, <1>2

\* The friends after a step that leaves their file and saves alone.
LEMMA FriendsUnsaved ==
  ASSUME TypeOK, FriendInv, Grow, UNCHANGED <<friendsFile, savingFriends>>,
         \A q \in Nodes : HonestFriends(acts', q, relationship'[q])
  PROVE  FriendInv'
<1> SUFFICES ASSUME NEW q \in Nodes
             PROVE  /\ HonestFriends(acts', q, friendsFile[q])
                    /\ \A s \in FriendStores :
                         savingFriends[q][s] > 0 => HonestFriends(acts', q, s)
  BY DEF FriendInv
<1>1. QED
  BY HonestGrow DEF FriendInv, TypeOK

\* A step that leaves the friends stores alone.
LEMMA FriendsKept ==
  ASSUME TypeOK, FriendInv, Grow, UNCHANGED relationship
  PROVE  \A q \in Nodes : HonestFriends(acts', q, relationship'[q])
BY HonestGrow DEF FriendInv, TypeOK

\* A record that is only ensured makes no friend.
LEMMA EnsuredIsNoFriend == \A rel : Ensured(rel) = "Friends" => rel = "Friends"
BY DEF Ensured

\* Nothing is agreed at first, and nothing is claimed.
LEMMA AgreementInit == ASSUME Init PROVE AgreementInv
<1>1. RequestInv
  <2>1. \A n \in Nodes : HonestRequests(acts, n, NoRequests)
    BY DEF HonestRequests, NoRequests
  <2>2. \A n \in Nodes : /\ request[n] = NoRequests /\ requestFile[n] = NoRequests
                          /\ \A s \in RequestStores : savingRequests[n][s] = 0
    BY DEF Init
  <2>3. QED
    <3> SUFFICES ASSUME NEW n \in Nodes
                 PROVE  /\ HonestRequests(acts, n, request[n])
                        /\ HonestRequests(acts, n, requestFile[n])
                        /\ \A s \in RequestStores : ~ (savingRequests[n][s] > 0)
      BY DEF RequestInv
    <3>1. QED
      BY <2>1, <2>2
<1>2. FriendInv
  <2>1. \A n \in Nodes : HonestFriends(acts, n, NoFriends)
    BY DEF HonestFriends, NoFriends
  <2>2. \A n \in Nodes : /\ relationship[n] = NoFriends /\ friendsFile[n] = NoFriends
                          /\ \A s \in FriendStores : savingFriends[n][s] = 0
    BY DEF Init
  <2>3. QED
    <3> SUFFICES ASSUME NEW n \in Nodes
                 PROVE  /\ HonestFriends(acts, n, relationship[n])
                        /\ HonestFriends(acts, n, friendsFile[n])
                        /\ \A s \in FriendStores : ~ (savingFriends[n][s] > 0)
      BY DEF FriendInv
    <3>1. QED
      BY <2>1, <2>2
<1>3. MessageInv
  BY DEF Init, MessageInv, Nowhere
<1>4. QED
  BY <1>1, <1>2, <1>3 DEF AgreementInv

\* Taking a message leaves no more of them.
LEMMA TakenIsFewer ==
  ASSUME NEW f \in Counts, NEW n \in Nodes, NEW p \in Nodes
  PROVE  \A m, r \in Nodes : [f EXCEPT ![n][p] = @ - 1][m][r] > 0 => f[m][r] > 0
<1> SUFFICES ASSUME NEW m \in Nodes, NEW r \in Nodes
             PROVE  [f EXCEPT ![n][p] = @ - 1][m][r] > 0 => f[m][r] > 0
  OBVIOUS
<1>1. [f EXCEPT ![n][p] = @ - 1][m][r] = IF m = n /\ r = p THEN f[m][r] - 1 ELSE f[m][r]
  BY DEF Counts
<1>2. f[m][r] \in Nat
  BY DEF Counts
<1>3. QED
  BY <1>1, <1>2

\* Every step keeps the agreement, action by action.
LEMMA AgreementStep ==
  ASSUME TypeOK, TypeOK', AgreementInv, [Next]_vars PROVE AgreementInv'
<1> Grow
  BY ActsGrow
<1> RequestInv /\ FriendInv /\ MessageInv
  BY DEF AgreementInv
<1>1. ASSUME NEW n \in Nodes, NEW p \in Nodes, SendFriendRequest(n, p)
      PROVE AgreementInv'
  <2>0. "asked" \in acts'[n][p]
    BY <1>1 DEF SendFriendRequest, Act, TypeOK
  <2>1. \A r \in Nodes : HonestRequests(acts', r, request'[r])
    BY <1>1, <2>0, RequestChanged DEF SendFriendRequest
  <2>2. RequestInv'
    BY <1>1, <2>1, RequestsSaved DEF SendFriendRequest
  <2>3. \A r \in Nodes : HonestFriends(acts', r, relationship'[r])
    BY <1>1, FriendChanged, EnsuredIsNoFriend DEF SendFriendRequest
  <2>4. FriendInv'
    BY <1>1, <2>3, FriendsSaved DEF SendFriendRequest
  <2>5. MessageInv'
    BY <1>1, <2>0 DEF SendFriendRequest, MessageInv, Grow, TypeOK, Counts
  <2>6. QED
    BY <2>2, <2>4, <2>5 DEF AgreementInv
<1>2. ASSUME NEW n \in Nodes, NEW p \in Nodes, AcceptRequest(n, p)
      PROVE AgreementInv'
  <2>0. "accepted" \in acts'[n][p] /\ "asked" \in acts'[p][n]
    <3>1. "accepted" \in acts'[n][p]
      BY <1>2 DEF AcceptRequest, Answer, Act, TypeOK
    <3>2. "asked" \in acts[p][n]
      BY <1>2 DEF AcceptRequest, Answer, RequestInv, HonestRequests
    <3>3. QED
      BY <3>1, <3>2 DEF Grow
  <2>1. \A r \in Nodes : HonestRequests(acts', r, request'[r])
    BY <1>2, RequestChanged DEF AcceptRequest, Answer
  <2>2. RequestInv'
    BY <1>2, <2>1, RequestsSaved DEF AcceptRequest, Answer
  <2>3. \A r \in Nodes : HonestFriends(acts', r, relationship'[r])
    BY <1>2, FriendsKept DEF AcceptRequest, Answer
  <2>4. FriendInv'
    BY <1>2, <2>3, FriendsUnsaved DEF AcceptRequest, Answer, friendSaves
  <2>5. MessageInv'
    BY <1>2, <2>0 DEF AcceptRequest, Answer, network, MessageInv, Grow, TypeOK, Counts
  <2>6. QED
    BY <2>2, <2>4, <2>5 DEF AgreementInv
<1>3. ASSUME NEW n \in Nodes, NEW p \in Nodes, DeclineRequest(n, p)
      PROVE AgreementInv'
  <2>1. \A r \in Nodes : HonestRequests(acts', r, request'[r])
    BY <1>3, RequestChanged DEF DeclineRequest, Answer
  <2>2. RequestInv'
    BY <1>3, <2>1, RequestsSaved DEF DeclineRequest, Answer
  <2>3. \A r \in Nodes : HonestFriends(acts', r, relationship'[r])
    BY <1>3, FriendsKept DEF DeclineRequest, Answer
  <2>4. FriendInv'
    BY <1>3, <2>3, FriendsUnsaved DEF DeclineRequest, Answer, friendSaves
  <2>5. MessageInv'
    BY <1>3 DEF DeclineRequest, Answer, network, MessageInv, Grow, TypeOK, Counts
  <2>6. QED
    BY <2>2, <2>4, <2>5 DEF AgreementInv
<1>4. ASSUME NEW n \in Nodes, NEW p \in Nodes, CancelRequest(n, p)
      PROVE AgreementInv'
  <2>1. \A r \in Nodes : HonestRequests(acts', r, request'[r])
    BY <1>4, RequestChanged DEF CancelRequest, Answer
  <2>2. RequestInv'
    BY <1>4, <2>1, RequestsSaved DEF CancelRequest, Answer
  <2>3. \A r \in Nodes : HonestFriends(acts', r, relationship'[r])
    BY <1>4, FriendsKept DEF CancelRequest, Answer
  <2>4. FriendInv'
    BY <1>4, <2>3, FriendsUnsaved DEF CancelRequest, Answer, friendSaves
  <2>5. MessageInv'
    BY <1>4 DEF CancelRequest, Answer, network, MessageInv, Grow, TypeOK, Counts
  <2>6. QED
    BY <2>2, <2>4, <2>5 DEF AgreementInv
<1>5. ASSUME NEW n \in Nodes, NEW p \in Nodes, OpenFriendChat(n, p)
      PROVE AgreementInv'
  <2>0. "chatted" \in acts'[n][p]
    BY <1>5 DEF OpenFriendChat, Act, TypeOK
  <2>1. \A r \in Nodes : HonestRequests(acts', r, request'[r])
    BY <1>5, RequestsKept DEF OpenFriendChat, Act
  <2>2. RequestInv'
    BY <1>5, <2>1, RequestsUnsaved DEF OpenFriendChat, requestSaves
  <2>3. \A r \in Nodes : HonestFriends(acts', r, relationship'[r])
    BY <1>5, FriendChanged, EnsuredIsNoFriend DEF OpenFriendChat
  <2>4. FriendInv'
    BY <1>5, <2>3, FriendsSaved DEF OpenFriendChat
  <2>5. MessageInv'
    BY <1>5, <2>0 DEF OpenFriendChat, MessageInv, Grow, TypeOK, Counts
  <2>6. QED
    BY <2>2, <2>4, <2>5 DEF AgreementInv
<1>6. ASSUME NEW n \in Nodes, NEW p \in Nodes, ConfirmBlockFriend(n, p)
      PROVE AgreementInv'
  <2>1. \A r \in Nodes : HonestRequests(acts', r, request'[r])
    BY <1>6, RequestsKept DEF ConfirmBlockFriend, history
  <2>2. RequestInv'
    BY <1>6, <2>1, RequestsUnsaved DEF ConfirmBlockFriend, requestSaves
  <2>3. \A r \in Nodes : HonestFriends(acts', r, relationship'[r])
    BY <1>6, FriendChanged DEF ConfirmBlockFriend
  <2>4. FriendInv'
    BY <1>6, <2>3, FriendsUnsaved DEF ConfirmBlockFriend, friendSaves
  <2>5. MessageInv'
    BY <1>6 DEF ConfirmBlockFriend, network, MessageInv, Grow, TypeOK, Counts
  <2>6. QED
    BY <2>2, <2>4, <2>5 DEF AgreementInv
<1>7. ASSUME NEW n \in Nodes, NEW p \in Nodes, Processed(n, p)
      PROVE AgreementInv'
  <2>0. AgreedBy(acts', n, p)
    BY <1>7 DEF Processed, MessageInv, history, AgreedBy
  <2>1. \A r \in Nodes : HonestRequests(acts', r, request'[r])
    BY <1>7, RequestsKept DEF Processed, history
  <2>2. RequestInv'
    BY <1>7, <2>1, RequestsUnsaved DEF Processed, requestSaves
  <2>3. \A r \in Nodes : HonestFriends(acts', r, relationship'[r])
    BY <1>7, <2>0, FriendChanged DEF Processed
  <2>4. FriendInv'
    BY <1>7, <2>3, FriendsSaved DEF Processed
  <2>5. MessageInv'
    BY <1>7 DEF Processed, history, MessageInv, TypeOK, Counts
  <2>6. QED
    BY <2>2, <2>4, <2>5 DEF AgreementInv
<1>8. ASSUME NEW n \in Nodes, NEW p \in Nodes, ReceiveFriendRequest(n, p)
      PROVE AgreementInv'
  <2>0. "asked" \in acts'[p][n]
    BY <1>8 DEF ReceiveFriendRequest, MessageInv, history
  <2>1. \A r \in Nodes : HonestRequests(acts', r, request'[r])
    <3>1. CASE request[n][p] = "None"
      BY <1>8, <2>0, <3>1, RequestChanged DEF ReceiveFriendRequest
    <3>2. CASE request[n][p] # "None"
      BY <1>8, <3>2, RequestsKept DEF ReceiveFriendRequest
    <3>3. QED
      BY <3>1, <3>2
  <2>2. RequestInv'
    BY <1>8, <2>1, RequestsSaved, RequestsUnsaved DEF ReceiveFriendRequest, requestSaves
  <2>3. \A r \in Nodes : HonestFriends(acts', r, relationship'[r])
    BY <1>8, FriendsKept DEF ReceiveFriendRequest, history
  <2>4. FriendInv'
    BY <1>8, <2>3, FriendsUnsaved DEF ReceiveFriendRequest, friendSaves
  <2>5. MessageInv'
    BY <1>8 DEF ReceiveFriendRequest, history, MessageInv, TypeOK, Counts
  <2>6. QED
    BY <2>2, <2>4, <2>5 DEF AgreementInv
<1>9. ASSUME NEW n \in Nodes, NEW p \in Nodes, ReceiveInvite(n, p)
      PROVE AgreementInv'
  <2>0. LET v == IF request[n][p] = "Outgoing" THEN "None" ELSE request[n][p]
        IN  /\ v = "Outgoing" => "asked" \in acts'[n][p]
            /\ v = "Incoming" => "asked" \in acts'[p][n]
    BY DEF RequestInv, HonestRequests, Grow
  <2>1. \A r \in Nodes : HonestRequests(acts', r, request'[r])
    BY <1>9, <2>0, RequestChanged DEF ReceiveInvite
  <2>2. RequestInv'
    BY <1>9, <2>1, RequestsUnsaved DEF ReceiveInvite, history
  <2>3. \A r \in Nodes : HonestFriends(acts', r, relationship'[r])
    <3>1. CASE request[n][p] = "Outgoing"
      <4>1. AgreedBy(acts', n, p)
        BY <1>9, <3>1 DEF ReceiveInvite, MessageInv, RequestInv, HonestRequests,
            history, AgreedBy
      <4>2. QED
        BY <1>9, <3>1, <4>1, FriendChanged DEF ReceiveInvite, IsAcceptanceReply
    <3>2. CASE request[n][p] # "Outgoing"
      BY <1>9, <3>2, FriendChanged, EnsuredIsNoFriend DEF ReceiveInvite,
          IsAcceptanceReply
    <3>3. QED
      BY <3>1, <3>2
  <2>4. FriendInv'
    BY <1>9, <2>3, FriendsSaved DEF ReceiveInvite
  <2>5. MessageInv'
    BY <1>9 DEF ReceiveInvite, history, MessageInv, TypeOK, Counts
  <2>6. QED
    BY <2>2, <2>4, <2>5 DEF AgreementInv
<1>10. ASSUME NEW n \in Nodes, NEW p \in Nodes, ReceiveAdvertisement(n, p)
       PROVE AgreementInv'
  <2>1. \A r \in Nodes : HonestRequests(acts', r, request'[r])
    BY <1>10, RequestsKept DEF ReceiveAdvertisement, history
  <2>2. RequestInv'
    BY <1>10, <2>1, RequestsUnsaved DEF ReceiveAdvertisement, requestSaves
  <2>3. \A r \in Nodes : HonestFriends(acts', r, relationship'[r])
    BY <1>10, FriendChanged, EnsuredIsNoFriend DEF ReceiveAdvertisement
  <2>4. FriendInv'
    BY <1>10, <2>3, FriendsSaved DEF ReceiveAdvertisement
  <2>5. MessageInv'
    BY <1>10 DEF ReceiveAdvertisement, network, history, MessageInv, Grow, TypeOK,
        Counts
  <2>6. QED
    BY <2>2, <2>4, <2>5 DEF AgreementInv
<1>11. ASSUME NEW n \in Nodes, NEW p \in Nodes, LoseMessage(n, p)
       PROVE AgreementInv'
  <2>1. \A r \in Nodes : HonestRequests(acts', r, request'[r])
    BY <1>11, RequestsKept DEF LoseMessage, memory
  <2>2. RequestInv'
    BY <1>11, <2>1, RequestsUnsaved DEF LoseMessage, requestSaves
  <2>3. \A r \in Nodes : HonestFriends(acts', r, relationship'[r])
    BY <1>11, FriendsKept DEF LoseMessage, memory
  <2>4. FriendInv'
    BY <1>11, <2>3, FriendsUnsaved DEF LoseMessage, friendSaves
  <2>5. MessageInv'
    <3>1. \A m, r \in Nodes : /\ requestsTo'[m][r] > 0 => requestsTo[m][r] > 0
                              /\ invitesTo'[m][r] > 0 => invitesTo[m][r] > 0
      <4>1. /\ \/ requestsTo' = requestsTo
               \/ requestsTo' = [requestsTo EXCEPT ![n][p] = @ - 1]
            /\ \/ invitesTo' = invitesTo
               \/ invitesTo' = [invitesTo EXCEPT ![n][p] = @ - 1]
        BY <1>11 DEF LoseMessage
      <4>2. requestsTo \in Counts /\ invitesTo \in Counts
        BY DEF TypeOK
      <4>3. QED
        BY <4>1, <4>2, TakenIsFewer
    <3>2. acts' = acts /\ processing' = processing
      BY <1>11 DEF LoseMessage, Fault, memory
    <3>3. QED
      BY <3>1, <3>2 DEF MessageInv
  <2>6. QED
    BY <2>2, <2>4, <2>5 DEF AgreementInv
<1>12. ASSUME NEW n \in Nodes, NeighborStatus(n)
       PROVE AgreementInv'
  <2>1. \A r \in Nodes : HonestRequests(acts', r, request'[r])
    BY <1>12, RequestsKept DEF NeighborStatus, history
  <2>2. RequestInv'
    BY <1>12, <2>1, RequestsUnsaved DEF NeighborStatus, requestSaves
  <2>3. \A r \in Nodes : HonestFriends(acts', r, relationship'[r])
    BY <1>12, FriendsKept DEF NeighborStatus, history
  <2>4. FriendInv'
    BY <1>12, <2>3, FriendsUnsaved DEF NeighborStatus, friendSaves
  <2>5. MessageInv'
    BY <1>12 DEF NeighborStatus, network, history, MessageInv, Grow, TypeOK, Counts
  <2>6. QED
    BY <2>2, <2>4, <2>5 DEF AgreementInv
<1>13. ASSUME NEW n \in Nodes, NetEvent(n)
       PROVE AgreementInv'
  <2>1. \A r \in Nodes : HonestRequests(acts', r, request'[r])
    BY <1>13, RequestsKept DEF NetEvent, history
  <2>2. RequestInv'
    BY <1>13, <2>1, RequestsUnsaved DEF NetEvent, requestSaves
  <2>3. \A r \in Nodes : HonestFriends(acts', r, relationship'[r])
    BY <1>13, FriendsKept DEF NetEvent, history
  <2>4. FriendInv'
    BY <1>13, <2>3, FriendsSaved DEF NetEvent
  <2>5. MessageInv'
    BY <1>13 DEF NetEvent, network, history, MessageInv, Grow, TypeOK, Counts
  <2>6. QED
    BY <2>2, <2>4, <2>5 DEF AgreementInv
<1>14. ASSUME NEW n \in Nodes, RequestSaveLands(n)
       PROVE AgreementInv'
  <2>1. \A r \in Nodes : HonestRequests(acts', r, request'[r])
    BY <1>14, RequestsKept DEF RequestSaveLands, memory
  <2>2. RequestInv'
    <3>1. PICK s \in RequestStores :
            /\ savingRequests[n][s] > 0
            /\ savingRequests' = [savingRequests EXCEPT ![n][s] = @ - 1]
            /\ requestFile' = [requestFile EXCEPT ![n] = s]
            /\ UNCHANGED acts
      BY <1>14 DEF RequestSaveLands, history
    <3>2. \A r \in Nodes, t \in RequestStores :
            savingRequests'[r][t] > 0 => savingRequests[r][t] > 0
      BY <3>1 DEF TypeOK
    <3>3. \A r \in Nodes : HonestRequests(acts, r, requestFile'[r])
      BY <3>1 DEF RequestInv, TypeOK
    <3>4. QED
      BY <2>1, <3>1, <3>2, <3>3 DEF RequestInv
  <2>3. \A r \in Nodes : HonestFriends(acts', r, relationship'[r])
    BY <1>14, FriendsKept DEF RequestSaveLands, memory
  <2>4. FriendInv'
    BY <1>14, <2>3, FriendsUnsaved DEF RequestSaveLands, friendSaves
  <2>5. MessageInv'
    BY <1>14 DEF RequestSaveLands, memory, network, history, MessageInv, Grow,
        TypeOK, Counts
  <2>6. QED
    BY <2>2, <2>4, <2>5 DEF AgreementInv
<1>15. ASSUME NEW n \in Nodes, FriendsSaveLands(n)
       PROVE AgreementInv'
  <2>1. \A r \in Nodes : HonestRequests(acts', r, request'[r])
    BY <1>15, RequestsKept DEF FriendsSaveLands, memory
  <2>2. RequestInv'
    BY <1>15, <2>1, RequestsUnsaved DEF FriendsSaveLands, requestSaves
  <2>3. \A r \in Nodes : HonestFriends(acts', r, relationship'[r])
    BY <1>15, FriendsKept DEF FriendsSaveLands, memory
  <2>4. FriendInv'
    <3>1. PICK s \in FriendStores :
            /\ savingFriends[n][s] > 0
            /\ savingFriends' = [savingFriends EXCEPT ![n][s] = @ - 1]
            /\ friendsFile' = [friendsFile EXCEPT ![n] = s]
            /\ UNCHANGED acts
      BY <1>15 DEF FriendsSaveLands, history
    <3>2. \A r \in Nodes, t \in FriendStores :
            savingFriends'[r][t] > 0 => savingFriends[r][t] > 0
      BY <3>1 DEF TypeOK
    <3>3. \A r \in Nodes : HonestFriends(acts, r, friendsFile'[r])
      BY <3>1 DEF FriendInv, TypeOK
    <3>4. QED
      BY <2>3, <3>1, <3>2, <3>3 DEF FriendInv
  <2>5. MessageInv'
    BY <1>15 DEF FriendsSaveLands, memory, network, history, MessageInv, Grow,
        TypeOK, Counts
  <2>6. QED
    BY <2>2, <2>4, <2>5 DEF AgreementInv
<1>16. ASSUME NEW n \in Nodes, Crash(n)
       PROVE AgreementInv'
  <2>1. \A r \in Nodes : HonestRequests(acts', r, request'[r])
    <3>1. HonestRequests(acts, n, NoRequests)
      BY DEF HonestRequests, NoRequests
    <3>2. \A r \in Nodes : \/ request'[r] = request[r]
                           \/ request'[r] = requestFile[r]
                           \/ r = n /\ request'[r] = NoRequests
      <4>1. PICK s \in {requestFile[n], NoRequests} : request' = [request EXCEPT ![n] = s]
        BY <1>16 DEF Crash, LoadRequests
      <4>2. QED
        BY <4>1 DEF TypeOK
    <3>3. QED
      BY <1>16, <3>1, <3>2 DEF Crash, Fault, RequestInv
  <2>2. RequestInv'
    <3>1. \A r \in Nodes, s \in RequestStores :
            savingRequests'[r][s] > 0 => savingRequests[r][s] > 0
      BY <1>16 DEF Crash, TypeOK
    <3>2. QED
      BY <1>16, <2>1, <3>1 DEF Crash, Fault, RequestInv
  <2>3. \A r \in Nodes : HonestFriends(acts', r, relationship'[r])
    <3>1. HonestFriends(acts, n, NoFriends)
      BY DEF HonestFriends, NoFriends
    <3>2. \A r \in Nodes : \/ relationship'[r] = relationship[r]
                           \/ relationship'[r] = friendsFile[r]
                           \/ r = n /\ relationship'[r] = NoFriends
      <4>1. PICK s \in {friendsFile[n], NoFriends} : relationship' = [relationship EXCEPT ![n] = s]
        BY <1>16 DEF Crash
      <4>2. QED
        BY <4>1 DEF TypeOK
    <3>3. QED
      BY <1>16, <3>1, <3>2 DEF Crash, Fault, FriendInv
  <2>4. FriendInv'
    <3>1. \A r \in Nodes, s \in FriendStores :
            savingFriends'[r][s] > 0 => savingFriends[r][s] > 0
      BY <1>16 DEF Crash, TypeOK
    <3>2. QED
      BY <1>16, <2>3, <3>1 DEF Crash, Fault, FriendInv
  <2>5. MessageInv'
    <3>1. \A m, r \in Nodes : /\ requestsTo'[m][r] > 0 => requestsTo[m][r] > 0
                              /\ invitesTo'[m][r] > 0 => invitesTo[m][r] > 0
      BY <1>16 DEF Crash, network
    <3>2. \A m, r \in Nodes : processing'[m][r] > 0 => processing[m][r] > 0
      BY <1>16 DEF Crash, TypeOK, Counts
    <3>3. acts' = acts
      BY <1>16 DEF Crash, Fault
    <3>4. QED
      BY <3>1, <3>2, <3>3 DEF MessageInv
  <2>6. QED
    BY <2>2, <2>4, <2>5 DEF AgreementInv
<1>17. ASSUME NEW n \in Nodes, RequestSaveFails(n)
       PROVE AgreementInv'
  <2>1. \A r \in Nodes : HonestRequests(acts', r, request'[r])
    BY <1>17, RequestsKept DEF RequestSaveFails, memory
  <2>2. RequestInv'
    <3>1. \A r \in Nodes, t \in RequestStores : savingRequests'[r][t] > 0 => savingRequests[r][t] > 0
      <4>1. PICK s \in RequestStores :
              /\ savingRequests[n][s] > 0
              /\ savingRequests' = [savingRequests EXCEPT ![n][s] = @ - 1]
        BY <1>17 DEF RequestSaveFails
      <4>2. QED
        BY <4>1 DEF TypeOK
    <3>2. QED
      BY <1>17, <2>1, <3>1, FaultDisturbs DEF RequestSaveFails, RequestInv
  <2>3. \A r \in Nodes : HonestFriends(acts', r, relationship'[r])
    BY <1>17, FriendsKept DEF RequestSaveFails, memory
  <2>4. FriendInv'
    BY <1>17, <2>3, FriendsUnsaved DEF RequestSaveFails, friendSaves
  <2>5. MessageInv'
    BY <1>17, FaultDisturbs DEF RequestSaveFails, memory, network, MessageInv
  <2>6. QED
    BY <2>2, <2>4, <2>5 DEF AgreementInv
<1>18. ASSUME NEW n \in Nodes, FriendsSaveFails(n)
       PROVE AgreementInv'
  <2>1. \A r \in Nodes : HonestRequests(acts', r, request'[r])
    BY <1>18, RequestsKept DEF FriendsSaveFails, memory
  <2>2. RequestInv'
    BY <1>18, <2>1, RequestsUnsaved DEF FriendsSaveFails, requestSaves
  <2>3. \A r \in Nodes : HonestFriends(acts', r, relationship'[r])
    BY <1>18, FriendsKept DEF FriendsSaveFails, memory
  <2>4. FriendInv'
    <3>1. \A r \in Nodes, t \in FriendStores : savingFriends'[r][t] > 0 => savingFriends[r][t] > 0
      <4>1. PICK s \in FriendStores :
              /\ savingFriends[n][s] > 0
              /\ savingFriends' = [savingFriends EXCEPT ![n][s] = @ - 1]
        BY <1>18 DEF FriendsSaveFails
      <4>2. QED
        BY <4>1 DEF TypeOK
    <3>2. QED
      BY <1>18, <2>3, <3>1, FaultDisturbs DEF FriendsSaveFails, FriendInv
  <2>5. MessageInv'
    BY <1>18, FaultDisturbs DEF FriendsSaveFails, memory, network, MessageInv
  <2>6. QED
    BY <2>2, <2>4, <2>5 DEF AgreementInv
<1>19. CASE UNCHANGED vars
  <2>1. RequestInv'
    BY <1>19, RequestsKept, RequestsUnsaved DEF vars, memory, requestSaves
  <2>2. FriendInv'
    BY <1>19, FriendsKept, FriendsUnsaved DEF vars, memory, friendSaves
  <2>3. MessageInv'
    BY <1>19 DEF vars, memory, network, history, MessageInv
  <2>4. QED
    BY <2>1, <2>2, <2>3 DEF AgreementInv
<1>20. QED
  BY <1>1, <1>2, <1>3, <1>4, <1>5, <1>6, <1>7, <1>8, <1>9, <1>10, <1>11, <1>12,
      <1>13, <1>14, <1>15, <1>16, <1>17, <1>18, <1>19
  DEF Next, UserStep, Handling, Background

\* Nobody becomes a friend alone: whatever is lost, saved late, not saved or
\* brought back by a restart, n regards p as a friend only if it accepted p's
\* request, or asked and p accepted or opened a chat.
THEOREM FriendshipsAreAgreed == Spec => []FriendshipIsAgreed
<1>1. AgreementInv => FriendshipIsAgreed
  BY DEF AgreementInv, FriendInv, HonestFriends, AgreedBy, FriendshipIsAgreed, Agreed
<1>2. QED
  BY <1>1, TypeInit, TypeStep, AgreementInit, AgreementStep, PTL DEF Spec

-----------------------------------------------------------------------------
(***************************************************************************)
(* No request is forgotten.  NoRequestVanishes is inductive as it stands.  *)
(***************************************************************************)

\* There are no requests at first.
LEMMA VanishInit == ASSUME Init PROVE NoRequestVanishes
BY DEF Init, NoRequestVanishes, NoRequests

\* Every step keeps the requests, action by action.
LEMMA VanishStep ==
  ASSUME TypeOK, NoRequestVanishes, [Next]_vars PROVE NoRequestVanishes'
<1>1. ASSUME NEW n \in Nodes, NEW p \in Nodes, SendFriendRequest(n, p)
      PROVE NoRequestVanishes'
  BY <1>1 DEF SendFriendRequest, Act, TrySaveFriends, SaveRequests, Ensured,
      NoRequestVanishes, UnderWay, TypeOK, Counts, RequestStores, FriendStores
<1>2. ASSUME NEW n \in Nodes, NEW p \in Nodes, AcceptRequest(n, p)
      PROVE NoRequestVanishes'
  BY <1>2 DEF AcceptRequest, Answer, Act, SaveRequests, network, friendSaves,
      NoRequestVanishes, UnderWay, TypeOK, Counts, RequestStores, FriendStores
<1>3. ASSUME NEW n \in Nodes, NEW p \in Nodes, DeclineRequest(n, p)
      PROVE NoRequestVanishes'
  BY <1>3 DEF DeclineRequest, Answer, Act, SaveRequests, network, friendSaves,
      NoRequestVanishes, UnderWay, TypeOK, Counts, RequestStores, FriendStores
<1>4. ASSUME NEW n \in Nodes, NEW p \in Nodes, CancelRequest(n, p)
      PROVE NoRequestVanishes'
  BY <1>4 DEF CancelRequest, Answer, Act, SaveRequests, network, friendSaves,
      NoRequestVanishes, UnderWay, TypeOK, Counts, RequestStores, FriendStores
<1>5. ASSUME NEW n \in Nodes, NEW p \in Nodes, OpenFriendChat(n, p)
      PROVE NoRequestVanishes'
  BY <1>5 DEF OpenFriendChat, Act, TrySaveFriends, Ensured, requestSaves,
      NoRequestVanishes, UnderWay, TypeOK, Counts, RequestStores, FriendStores
<1>6. ASSUME NEW n \in Nodes, NEW p \in Nodes, ConfirmBlockFriend(n, p)
      PROVE NoRequestVanishes'
  BY <1>6 DEF ConfirmBlockFriend, network, requestSaves, friendSaves, history,
      NoRequestVanishes, UnderWay, TypeOK, Counts, RequestStores, FriendStores
<1>7. ASSUME NEW n \in Nodes, NEW p \in Nodes, Processed(n, p)
      PROVE NoRequestVanishes'
  BY <1>7 DEF Processed, TrySaveFriends, requestSaves, history, bounds,
      NoRequestVanishes, UnderWay, TypeOK, Counts, RequestStores, FriendStores
<1>8. ASSUME NEW n \in Nodes, NEW p \in Nodes, ReceiveFriendRequest(n, p)
      PROVE NoRequestVanishes'
  BY <1>8 DEF ReceiveFriendRequest, SaveRequests, requestSaves, friendSaves,
      history, bounds, NoRequestVanishes, UnderWay, TypeOK, Counts, RequestStores,
      FriendStores
<1>9. ASSUME NEW n \in Nodes, NEW p \in Nodes, ReceiveInvite(n, p)
      PROVE NoRequestVanishes'
  BY <1>9 DEF ReceiveInvite, IsAcceptanceReply, TrySaveFriends, Ensured, history,
      bounds, NoRequestVanishes, UnderWay, TypeOK, Counts, RequestStores,
      FriendStores
<1>10. ASSUME NEW n \in Nodes, NEW p \in Nodes, ReceiveAdvertisement(n, p)
       PROVE NoRequestVanishes'
  BY <1>10 DEF ReceiveAdvertisement, TrySaveFriends, Ensured, network, requestSaves,
      history, bounds, NoRequestVanishes, UnderWay, TypeOK, Counts, RequestStores,
      FriendStores
<1>11. ASSUME NEW n \in Nodes, NEW p \in Nodes, LoseMessage(n, p)
       PROVE NoRequestVanishes'
  BY <1>11, FaultDisturbs DEF LoseMessage, NoRequestVanishes
<1>12. ASSUME NEW n \in Nodes, NeighborStatus(n)
       PROVE NoRequestVanishes'
  BY <1>12 DEF NeighborStatus, network, requestSaves, friendSaves, history,
      NoRequestVanishes, UnderWay, TypeOK, Counts, RequestStores, FriendStores
<1>13. ASSUME NEW n \in Nodes, NetEvent(n)
       PROVE NoRequestVanishes'
  BY <1>13 DEF NetEvent, TrySaveFriends, network, requestSaves, history, bounds,
      NoRequestVanishes, UnderWay, TypeOK, Counts, RequestStores, FriendStores
<1>14. ASSUME NEW n \in Nodes, RequestSaveLands(n)
       PROVE NoRequestVanishes'
  BY <1>14 DEF RequestSaveLands, memory, network, friendSaves, history, bounds,
      NoRequestVanishes, UnderWay, TypeOK, Counts, RequestStores, FriendStores
<1>15. ASSUME NEW n \in Nodes, FriendsSaveLands(n)
       PROVE NoRequestVanishes'
  BY <1>15 DEF FriendsSaveLands, memory, network, requestSaves, history, bounds,
      NoRequestVanishes, UnderWay, TypeOK, Counts, RequestStores, FriendStores
<1>16. ASSUME NEW n \in Nodes, Crash(n)
       PROVE NoRequestVanishes'
  BY <1>16, FaultDisturbs DEF Crash, NoRequestVanishes
<1>17. ASSUME NEW n \in Nodes, RequestSaveFails(n)
       PROVE NoRequestVanishes'
  BY <1>17, FaultDisturbs DEF RequestSaveFails, memory, network, NoRequestVanishes, UnderWay
<1>18. ASSUME NEW n \in Nodes, FriendsSaveFails(n)
       PROVE NoRequestVanishes'
  BY <1>18, FaultDisturbs DEF FriendsSaveFails, memory, network, NoRequestVanishes, UnderWay
<1>19. CASE UNCHANGED vars
  BY <1>19 DEF vars, memory, network, history, NoRequestVanishes, UnderWay
<1>20. QED
  BY <1>1, <1>2, <1>3, <1>4, <1>5, <1>6, <1>7, <1>8, <1>9, <1>10, <1>11, <1>12,
      <1>13, <1>14, <1>15, <1>16, <1>17, <1>18, <1>19
  DEF Next, UserStep, Handling, Background

\* A pending request is under way, or pending or decided at the other peer.
THEOREM RequestsDoNotVanish == Spec => []NoRequestVanishes
BY TypeInit, TypeStep, VanishInit, VanishStep, PTL DEF Spec

-----------------------------------------------------------------------------
(***************************************************************************)
(* No acceptance is swallowed.  It can be given only to a request that is  *)
(* known to p, so the invariant also says what n holds while its request   *)
(* is under way or known there: the request is still pending at n, unless  *)
(* n withdrew it or an invite already made the two friends.                *)
(***************************************************************************)
AskedIsPending ==
  \A n, p \in Nodes :
    (request[p][n] = "Incoming" \/ requestsTo[n][p] > 0) /\ ~ disturbed =>
      \/ relationship[n][p] \in {"Friends", "Blocked"}
      \/ "cancelled" \in acts[n][p]
      \/ request[n][p] = "Outgoing"

AcceptInv == AskedIsPending /\ AcceptanceIsOnItsWay

\* Nobody has asked or accepted at first.
LEMMA AcceptInit == ASSUME Init PROVE AcceptInv
BY DEF Init, AcceptInv, AskedIsPending, AcceptanceIsOnItsWay, NoRequests, Nowhere

\* Every step keeps the acceptances on their way, action by action.
LEMMA AcceptStep ==
  ASSUME TypeOK, AcceptInv, [Next]_vars PROVE AcceptInv'
<1>1. ASSUME NEW n \in Nodes, NEW p \in Nodes, SendFriendRequest(n, p)
      PROVE AcceptInv'
  BY <1>1 DEF SendFriendRequest, Act, TrySaveFriends, SaveRequests, Ensured,
      AcceptInv, AcceptanceIsOnItsWay, AskedIsPending, TypeOK, Counts,
      RequestStores, FriendStores
<1>2. ASSUME NEW n \in Nodes, NEW p \in Nodes, AcceptRequest(n, p)
      PROVE AcceptInv'
  BY <1>2 DEF AcceptRequest, Answer, Act, SaveRequests, network, friendSaves,
      AcceptInv, AcceptanceIsOnItsWay, AskedIsPending, TypeOK, Counts,
      RequestStores, FriendStores
<1>3. ASSUME NEW n \in Nodes, NEW p \in Nodes, DeclineRequest(n, p)
      PROVE AcceptInv'
  BY <1>3 DEF DeclineRequest, Answer, Act, SaveRequests, network, friendSaves,
      AcceptInv, AcceptanceIsOnItsWay, AskedIsPending, TypeOK, Counts,
      RequestStores, FriendStores
<1>4. ASSUME NEW n \in Nodes, NEW p \in Nodes, CancelRequest(n, p)
      PROVE AcceptInv'
  BY <1>4 DEF CancelRequest, Answer, Act, SaveRequests, network, friendSaves,
      AcceptInv, AcceptanceIsOnItsWay, AskedIsPending, TypeOK, Counts,
      RequestStores, FriendStores
<1>5. ASSUME NEW n \in Nodes, NEW p \in Nodes, OpenFriendChat(n, p)
      PROVE AcceptInv'
  BY <1>5 DEF OpenFriendChat, Act, TrySaveFriends, Ensured, requestSaves,
      AcceptInv, AcceptanceIsOnItsWay, AskedIsPending, TypeOK, Counts,
      RequestStores, FriendStores
<1>6. ASSUME NEW n \in Nodes, NEW p \in Nodes, ConfirmBlockFriend(n, p)
      PROVE AcceptInv'
  BY <1>6 DEF ConfirmBlockFriend, network, requestSaves, friendSaves, history,
      AcceptInv, AcceptanceIsOnItsWay, AskedIsPending, TypeOK, Counts,
      RequestStores, FriendStores
<1>7. ASSUME NEW n \in Nodes, NEW p \in Nodes, Processed(n, p)
      PROVE AcceptInv'
  BY <1>7 DEF Processed, TrySaveFriends, requestSaves, history, bounds, AcceptInv,
      AcceptanceIsOnItsWay, AskedIsPending, TypeOK, Counts, RequestStores,
      FriendStores
<1>8. ASSUME NEW n \in Nodes, NEW p \in Nodes, ReceiveFriendRequest(n, p)
      PROVE AcceptInv'
  <2>1. \A q, r \in Nodes : requestsTo'[q][r] > 0 => requestsTo[q][r] > 0
    BY <1>8 DEF ReceiveFriendRequest, TypeOK, Counts
  <2>2. /\ \A q, r \in Nodes :
             request[q][r] = "Outgoing" => request'[q][r] = "Outgoing"
        /\ \A q, r \in Nodes :
             request'[r][q] = "Incoming" =>
               request[r][q] = "Incoming" \/ requestsTo[q][r] > 0
    <3>1. request \in [Nodes -> [Nodes -> Requests]] /\ requestsTo[p][n] > 0
      BY <1>8 DEF ReceiveFriendRequest, TypeOK, RequestStores
    <3>2. CASE /\ request[n][p] = "None"
               /\ request' = [request EXCEPT ![n][p] = "Incoming"]
      BY <3>1, <3>2
    <3>3. CASE request' = request
      BY <3>3
    <3>4. QED
      BY <1>8, <3>2, <3>3 DEF ReceiveFriendRequest
  <2>3. UNCHANGED <<relationship, processing, invitesTo, acts, disturbed>>
    BY <1>8 DEF ReceiveFriendRequest, history
  <2>4. AskedIsPending'
    BY <2>1, <2>2, <2>3 DEF AcceptInv, AskedIsPending
  <2>5. AcceptanceIsOnItsWay'
    BY <2>2, <2>3 DEF AcceptInv, AcceptanceIsOnItsWay
  <2>6. QED
    BY <2>4, <2>5 DEF AcceptInv
<1>9. ASSUME NEW n \in Nodes, NEW p \in Nodes, ReceiveInvite(n, p)
      PROVE AcceptInv'
  <2>1. \A q, r \in Nodes :
          request'[q][r] = request[q][r]
            \/ (q = n /\ r = p /\ request[q][r] = "Outgoing" /\ request'[q][r] = "None"
                 /\ relationship'[q][r] = "Friends")
    BY <1>9 DEF ReceiveInvite, IsAcceptanceReply, TypeOK, RequestStores, FriendStores
  <2>2. \A q, r \in Nodes :
          relationship[q][r] \in {"Friends", "Blocked"} =>
            relationship'[q][r] \in {"Friends", "Blocked"}
    BY <1>9 DEF ReceiveInvite, Ensured, TypeOK, FriendStores
  <2>3. \A q, r \in Nodes :
          invitesTo[q][r] > 0 => invitesTo'[q][r] > 0 \/ (q = p /\ r = n)
    BY <1>9 DEF ReceiveInvite, TypeOK, Counts
  <2>4. request[n][p] = "Outgoing" => relationship'[n][p] = "Friends"
    BY <1>9 DEF ReceiveInvite, IsAcceptanceReply, TypeOK, FriendStores
  <2>5. UNCHANGED <<processing, requestsTo, acts, disturbed>>
    BY <1>9 DEF ReceiveInvite, history
  <2>6. AskedIsPending'
    BY <2>1, <2>2, <2>5 DEF AcceptInv, AskedIsPending
  <2>7. AcceptanceIsOnItsWay'
    BY <2>1, <2>2, <2>3, <2>4, <2>5 DEF AcceptInv, AcceptanceIsOnItsWay
  <2>8. QED
    BY <2>6, <2>7 DEF AcceptInv
<1>10. ASSUME NEW n \in Nodes, NEW p \in Nodes, ReceiveAdvertisement(n, p)
       PROVE AcceptInv'
  BY <1>10 DEF ReceiveAdvertisement, TrySaveFriends, Ensured, network,
      requestSaves, history, bounds, AcceptInv, AcceptanceIsOnItsWay,
      AskedIsPending, TypeOK, Counts, RequestStores, FriendStores
<1>11. ASSUME NEW n \in Nodes, NEW p \in Nodes, LoseMessage(n, p)
       PROVE AcceptInv'
  BY <1>11, FaultDisturbs DEF LoseMessage, AcceptInv, AcceptanceIsOnItsWay,
      AskedIsPending
<1>12. ASSUME NEW n \in Nodes, NeighborStatus(n)
       PROVE AcceptInv'
  BY <1>12 DEF NeighborStatus, network, requestSaves, friendSaves, history,
      AcceptInv, AcceptanceIsOnItsWay, AskedIsPending, TypeOK, Counts,
      RequestStores, FriendStores
<1>13. ASSUME NEW n \in Nodes, NetEvent(n)
       PROVE AcceptInv'
  BY <1>13 DEF NetEvent, TrySaveFriends, network, requestSaves, history, bounds,
      AcceptInv, AcceptanceIsOnItsWay, AskedIsPending, TypeOK, Counts,
      RequestStores, FriendStores
<1>14. ASSUME NEW n \in Nodes, RequestSaveLands(n)
       PROVE AcceptInv'
  BY <1>14 DEF RequestSaveLands, memory, network, friendSaves, history, bounds,
      AcceptInv, AcceptanceIsOnItsWay, AskedIsPending, TypeOK, Counts,
      RequestStores, FriendStores
<1>15. ASSUME NEW n \in Nodes, FriendsSaveLands(n)
       PROVE AcceptInv'
  BY <1>15 DEF FriendsSaveLands, memory, network, requestSaves, history, bounds,
      AcceptInv, AcceptanceIsOnItsWay, AskedIsPending, TypeOK, Counts,
      RequestStores, FriendStores
<1>16. ASSUME NEW n \in Nodes, Crash(n)
       PROVE AcceptInv'
  BY <1>16, FaultDisturbs DEF Crash, AcceptInv, AcceptanceIsOnItsWay, AskedIsPending
<1>17. ASSUME NEW n \in Nodes, RequestSaveFails(n)
       PROVE AcceptInv'
  BY <1>17, FaultDisturbs DEF RequestSaveFails, memory, network, AcceptInv, AcceptanceIsOnItsWay,
      AskedIsPending
<1>18. ASSUME NEW n \in Nodes, FriendsSaveFails(n)
       PROVE AcceptInv'
  BY <1>18, FaultDisturbs DEF FriendsSaveFails, memory, network, AcceptInv, AcceptanceIsOnItsWay,
      AskedIsPending
<1>19. CASE UNCHANGED vars
  BY <1>19 DEF vars, memory, network, history, AcceptInv, AcceptanceIsOnItsWay,
      AskedIsPending
<1>20. QED
  BY <1>1, <1>2, <1>3, <1>4, <1>5, <1>6, <1>7, <1>8, <1>9, <1>10, <1>11, <1>12,
      <1>13, <1>14, <1>15, <1>16, <1>17, <1>18, <1>19
  DEF Next, UserStep, Handling, Background

\* An acceptance has arrived, or is on its way to a request still pending.
THEOREM AcceptancesAreNotSwallowed == Spec => []AcceptanceIsOnItsWay
<1>1. AcceptInv => AcceptanceIsOnItsWay
  BY DEF AcceptInv
<1>2. QED
  BY <1>1, TypeInit, TypeStep, AcceptInit, AcceptStep, PTL DEF Spec

-----------------------------------------------------------------------------
(***************************************************************************)
(* The request file.  While there is no reason for it to lag, at most one  *)
(* thread is saving, with what the store holds.                            *)
(***************************************************************************)
SaveInv ==
  \A n \in Nodes :
    lag[n] = {} =>
      \/ /\ requestFile[n] = request[n]
         /\ \A s \in RequestStores : savingRequests[n][s] = 0
      \/ \A s \in RequestStores :
           savingRequests[n][s] = IF s = request[n] THEN 1 ELSE 0

\* The files are current at first.
LEMMA SaveInit == ASSUME Init PROVE SaveInv
BY DEF Init, SaveInv

\* A save that is started alone settles the file.
LEMMA SaveStarted ==
  ASSUME TypeOK, TypeOK', SaveInv, NEW n \in Nodes, SaveRequests(n),
         \A q \in Nodes \ {n} : request'[q] = request[q]
  PROVE  SaveInv'
<1> SUFFICES ASSUME NEW q \in Nodes, lag'[q] = {}
             PROVE  \/ /\ requestFile'[q] = request'[q]
                       /\ \A s \in RequestStores : savingRequests'[q][s] = 0
                    \/ \A s \in RequestStores :
                         savingRequests'[q][s] = IF s = request'[q] THEN 1 ELSE 0
  BY DEF SaveInv
<1>1. CASE q = n
  <2>1. ~ Saving(savingRequests[n])
    BY <1>1 DEF SaveRequests, TypeOK
  <2>2. \A s \in RequestStores : savingRequests[n][s] = 0
    BY <2>1 DEF Saving, TypeOK
  <2>3. request'[n] \in RequestStores
    BY DEF TypeOK
  <2>4. \A s \in RequestStores :
          savingRequests'[n][s] = IF s = request'[n] THEN 1 ELSE 0
    BY <2>2, <2>3 DEF SaveRequests, TypeOK
  <2>5. QED
    BY <1>1, <2>4
<1>2. CASE q # n
  <2>1. savingRequests'[q] = savingRequests[q] /\ requestFile'[q] = requestFile[q]
    BY <1>2 DEF SaveRequests, TypeOK
  <2>2. request'[q] = request[q] /\ lag[q] = {}
    BY <1>2 DEF SaveRequests, TypeOK
  <2>3. QED
    BY <2>1, <2>2 DEF SaveInv
<1>3. QED
  BY <1>1, <1>2

\* Every step keeps the invariant of the saves, action by action.
LEMMA SaveStep ==
  ASSUME TypeOK, TypeOK', SaveInv, [Next]_vars PROVE SaveInv'
<1>0. ASSUME UNCHANGED <<request, requestFile, savingRequests, lag>>
      PROVE  SaveInv'
  BY <1>0 DEF SaveInv
<1>1. ASSUME NEW n \in Nodes, NEW p \in Nodes, SendFriendRequest(n, p)
      PROVE SaveInv'
  <2>1. \A r \in Nodes \ {n} : request'[r] = request[r]
    BY <1>1 DEF SendFriendRequest, TypeOK
  <2>2. QED
    BY <1>1, <2>1, SaveStarted DEF SendFriendRequest
<1>2. ASSUME NEW n \in Nodes, NEW p \in Nodes, AcceptRequest(n, p)
      PROVE SaveInv'
  <2>1. \A r \in Nodes \ {n} : request'[r] = request[r]
    BY <1>2 DEF AcceptRequest, Answer, TypeOK
  <2>2. QED
    BY <1>2, <2>1, SaveStarted DEF AcceptRequest, Answer
<1>3. ASSUME NEW n \in Nodes, NEW p \in Nodes, DeclineRequest(n, p)
      PROVE SaveInv'
  <2>1. \A r \in Nodes \ {n} : request'[r] = request[r]
    BY <1>3 DEF DeclineRequest, Answer, TypeOK
  <2>2. QED
    BY <1>3, <2>1, SaveStarted DEF DeclineRequest, Answer
<1>4. ASSUME NEW n \in Nodes, NEW p \in Nodes, CancelRequest(n, p)
      PROVE SaveInv'
  <2>1. \A r \in Nodes \ {n} : request'[r] = request[r]
    BY <1>4 DEF CancelRequest, Answer, TypeOK
  <2>2. QED
    BY <1>4, <2>1, SaveStarted DEF CancelRequest, Answer
<1>5. ASSUME NEW n \in Nodes, NEW p \in Nodes, OpenFriendChat(n, p)
      PROVE SaveInv'
  BY <1>0, <1>5 DEF OpenFriendChat, requestSaves
<1>6. ASSUME NEW n \in Nodes, NEW p \in Nodes, ConfirmBlockFriend(n, p)
      PROVE SaveInv'
  BY <1>0, <1>6 DEF ConfirmBlockFriend, requestSaves
<1>7. ASSUME NEW n \in Nodes, NEW p \in Nodes, Processed(n, p)
      PROVE SaveInv'
  BY <1>0, <1>7 DEF Processed, requestSaves
<1>8. ASSUME NEW n \in Nodes, NEW p \in Nodes, ReceiveFriendRequest(n, p)
      PROVE SaveInv'
  <2>1. CASE request[n][p] = "None"
    <3>1. \A r \in Nodes \ {n} : request'[r] = request[r]
      BY <1>8, <2>1 DEF ReceiveFriendRequest, TypeOK
    <3>2. QED
      BY <1>8, <2>1, <3>1, SaveStarted DEF ReceiveFriendRequest
  <2>2. CASE request[n][p] # "None"
    BY <1>0, <1>8, <2>2 DEF ReceiveFriendRequest, requestSaves
  <2>3. QED
    BY <2>1, <2>2
<1>9. ASSUME NEW n \in Nodes, NEW p \in Nodes, ReceiveInvite(n, p)
      PROVE SaveInv'
  <2> SUFFICES ASSUME NEW r \in Nodes, lag'[r] = {}
               PROVE  request'[r] = request[r] /\ lag[r] = {}
    BY <1>9 DEF ReceiveInvite, SaveInv
  <2>1. CASE request[n][p] = "Outgoing"
    <3>1. r # n
      BY <1>9, <2>1 DEF ReceiveInvite, IsAcceptanceReply, TypeOK
    <3>2. QED
      BY <1>9, <3>1 DEF ReceiveInvite, TypeOK
  <2>2. CASE request[n][p] # "Outgoing"
    <3>1. request' = [request EXCEPT ![n][p] = request[n][p]]
      BY <1>9, <2>2 DEF ReceiveInvite
    <3>2. request' = request
      BY <3>1 DEF TypeOK, RequestStores
    <3>3. lag' = lag
      BY <1>9, <2>2 DEF ReceiveInvite, IsAcceptanceReply, TypeOK
    <3>4. QED
      BY <3>2, <3>3
  <2>3. QED
    BY <2>1, <2>2
<1>10. ASSUME NEW n \in Nodes, NEW p \in Nodes, ReceiveAdvertisement(n, p)
       PROVE SaveInv'
  BY <1>0, <1>10 DEF ReceiveAdvertisement, requestSaves
<1>11. ASSUME NEW n \in Nodes, NEW p \in Nodes, LoseMessage(n, p)
       PROVE SaveInv'
  BY <1>0, <1>11 DEF LoseMessage, memory, requestSaves
<1>12. ASSUME NEW n \in Nodes, NeighborStatus(n)
       PROVE SaveInv'
  BY <1>0, <1>12 DEF NeighborStatus, requestSaves
<1>13. ASSUME NEW n \in Nodes, NetEvent(n)
       PROVE SaveInv'
  BY <1>0, <1>13 DEF NetEvent, requestSaves
<1>14. ASSUME NEW n \in Nodes, RequestSaveLands(n)
       PROVE SaveInv'
  <2>1. PICK s \in RequestStores :
          /\ savingRequests[n][s] > 0
          /\ savingRequests' = [savingRequests EXCEPT ![n][s] = @ - 1]
          /\ requestFile' = [requestFile EXCEPT ![n] = s]
          /\ UNCHANGED <<request, lag>>
    BY <1>14 DEF RequestSaveLands, memory
  <2>2. ASSUME lag[n] = {}
        PROVE  /\ s = request[n] /\ requestFile'[n] = s
               /\ \A t \in RequestStores : savingRequests'[n][t] = 0
    <3>1. s = request[n] /\ \A t \in RequestStores :
            savingRequests[n][t] = IF t = s THEN 1 ELSE 0
      BY <2>1, <2>2 DEF SaveInv
    <3>2. \A t \in RequestStores :
            savingRequests'[n][t] = IF t = s THEN savingRequests[n][t] - 1
                                    ELSE savingRequests[n][t]
      BY <2>1 DEF TypeOK
    <3>3. \A t \in RequestStores : savingRequests'[n][t] = 0
      BY <3>1, <3>2
    <3>4. QED
      BY <2>1, <3>1, <3>3 DEF TypeOK
  <2>3. \A r \in Nodes \ {n} : /\ savingRequests'[r] = savingRequests[r]
                                /\ requestFile'[r] = requestFile[r]
    BY <2>1 DEF TypeOK
  <2>4. QED
    BY <2>1, <2>2, <2>3 DEF SaveInv
<1>15. ASSUME NEW n \in Nodes, FriendsSaveLands(n)
       PROVE SaveInv'
  BY <1>0, <1>15 DEF FriendsSaveLands, memory, requestSaves
<1>16. ASSUME NEW n \in Nodes, Crash(n)
       PROVE SaveInv'
  <2>0. lag'[n] = {} => request'[n] = requestFile'[n]
    <3>1. CASE /\ request' = [request EXCEPT ![n] = requestFile[n]]
               /\ lag' = [lag EXCEPT ![n] = {}]
      BY <1>16, <3>1 DEF Crash, TypeOK
    <3>2. CASE lag' = [lag EXCEPT ![n] = {"unread"}]
      BY <3>2 DEF TypeOK
    <3>3. QED
      BY <1>16, <3>1, <3>2 DEF Crash, LoadRequests
  <2>1. \A s \in RequestStores : savingRequests'[n][s] = 0
    BY <1>16 DEF Crash, TypeOK
  <2>2. \A r \in Nodes \ {n} : /\ savingRequests'[r] = savingRequests[r]
                                /\ requestFile'[r] = requestFile[r]
                                /\ request'[r] = request[r]
                                /\ lag'[r] = lag[r]
    BY <1>16 DEF Crash, LoadRequests, TypeOK
  <2>3. QED
    BY <2>0, <2>1, <2>2 DEF SaveInv
<1>17. ASSUME NEW n \in Nodes, RequestSaveFails(n)
       PROVE SaveInv'
  <2>1. lag'[n] # {}
    BY <1>17 DEF RequestSaveFails, TypeOK
  <2>2. \A r \in Nodes \ {n} : /\ savingRequests'[r] = savingRequests[r]
                                /\ lag'[r] = lag[r]
    BY <1>17 DEF RequestSaveFails, TypeOK
  <2>3. QED
    BY <1>17, <2>1, <2>2 DEF RequestSaveFails, memory, SaveInv
<1>18. ASSUME NEW n \in Nodes, FriendsSaveFails(n)
       PROVE SaveInv'
  BY <1>0, <1>18 DEF FriendsSaveFails, memory, requestSaves
<1>19. CASE UNCHANGED vars
  BY <1>0, <1>19 DEF vars, memory, requestSaves
<1>20. QED
  BY <1>1, <1>2, <1>3, <1>4, <1>5, <1>6, <1>7, <1>8, <1>9, <1>10, <1>11, <1>12,
      <1>13, <1>14, <1>15, <1>16, <1>17, <1>18, <1>19
  DEF Next, UserStep, Handling, Background

\* Once no thread is saving, the request file holds what the store holds,
\* unless saves ran side by side, one failed, an acceptance was confirmed
\* unsaved, or the file could not be read at the start.
THEOREM RequestFilesAreCurrent == Spec => []RequestFileIsCurrent
<1>1. TypeOK /\ SaveInv => RequestFileIsCurrent
  <2> SUFFICES ASSUME TypeOK, SaveInv, NEW n \in Nodes,
                      lag[n] = {}, ~ Saving(savingRequests[n])
               PROVE  requestFile[n] = request[n]
    BY DEF RequestFileIsCurrent
  <2>1. \A s \in RequestStores : ~ (savingRequests[n][s] > 0)
    BY DEF TypeOK, Saving
  <2>2. request[n] \in RequestStores
    BY DEF TypeOK
  <2>3. QED
    BY <2>1, <2>2 DEF SaveInv
<1>2. QED
  BY <1>1, TypeInit, TypeStep, SaveInit, SaveStep, PTL DEF Spec

=============================================================================
