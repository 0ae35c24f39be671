------------------------------- MODULE Calls -------------------------------
(***************************************************************************)
(* Call signalling between the call actors of several nodes                *)
(* (src/src/call/manager.rs, with the session of src/src/call/session.rs). *)
(*                                                                         *)
(* Every attempt has a fresh call id and one connection, opened by the     *)
(* caller, so a call and its connection share a name, and what a node      *)
(* keeps about a call is kept per end of the call.  An actor handles one   *)
(* command at a time; which queued command is next depends on the tasks    *)
(* that feed the queue, so any command that may be queued may be handled.  *)
(*                                                                         *)
(* A connection that is closed or lost stays readable until its end's task *)
(* notices: each end handles some prefix of what was sent to it.  Media,   *)
(* statistics, and the Hello, Ringing and KeepAlive messages, which change *)
(* nothing, are left out.  So is Reconnect, which nothing in the           *)
(* application sends, and with it the generations of calls: no other       *)
(* caller passes one that is not the current one.                          *)
(***************************************************************************)
EXTENDS Naturals, Sequences, FiniteSets

CONSTANTS
  Nodes,
  NoNode,
  Dials,        \* pairs <<n, p>>: n may call p
  MaxCalls,     \* bound: call attempts
  MaxPending,   \* MAX_PENDING_CALL_OFFERS
  MaxCommands,  \* bound: accept, reject and hangup commands
  MaxFaults     \* bound: failed dials, lost connections, revocations, shutdowns

ASSUME CallsAssumption ==
  /\ NoNode \notin Nodes
  /\ Dials \subseteq {d \in Nodes \X Nodes : d[1] # d[2]}
  /\ MaxCalls \in Nat /\ MaxPending \in Nat
  /\ MaxCommands \in Nat /\ MaxFaults \in Nat

\* Nodes that call each other have authorised each other.
Friends == {d \in Nodes \X Nodes : d \in Dials \/ <<d[2], d[1]>> \in Dials}

\* A fresh id for every attempt (CallId::generate).
Calls == 1..MaxCalls

Roles == {"caller", "callee"}
Other(r) == IF r = "caller" THEN "callee" ELSE "caller"

\* SessionState; a call that is not in the node's table is "None".
Pending == {"Offered", "Ringing"}
States == {"None", "Active"} \cup Pending

Outcomes == {"Ended", "Rejected", "Busy", "Connection"}

VARIABLES
  ends,       \* the node at each end of a call
  session,    \* state of the session at each end
  terminals,  \* terminal events emitted at each end, oldest first
  link,       \* the connection of each call
  arriving,   \* calls whose connection the callee has not accepted yet
  offering,   \* calls whose Offer the callee has not handled yet
  wire,       \* later messages on their way to each end
  task,       \* ends whose wire session task is running
  authorized, \* pairs <<n, p>>: n admits calls with p
  running,    \* nodes whose call actor runs
  commands,   \* user commands so far
  faults      \* faults so far

sessions == <<session, terminals>>
network == <<link, arriving, offering, wire, task>>
vars == <<ends, sessions, network, authorized, running, commands, faults>>

Controls == {"Accept", "Reject", "Busy", "Hangup"}

Init ==
  /\ ends = [c \in Calls |-> [r \in Roles |-> NoNode]]
  /\ session = [c \in Calls |-> [r \in Roles |-> "None"]]
  /\ terminals = [c \in Calls |-> [r \in Roles |-> <<>>]]
  /\ link = [c \in Calls |-> "none"]
  /\ arriving = {} /\ offering = {}
  /\ wire = [c \in Calls |-> [r \in Roles |-> <<>>]]
  /\ task = [c \in Calls |-> {}]
  /\ authorized = Friends
  /\ running = Nodes
  /\ commands = 0 /\ faults = 0

(***************************************************************************)
(* The table of a node, and the end of a call.                             *)
(***************************************************************************)

\* Ends of calls in the table of n.
Entries(n) ==
  {e \in Calls \X Roles : ends[e[1]][e[2]] = n /\ session[e[1]][e[2]] # "None"}

PeerOf(e) == ends[e[1]][Other(e[2])]

WithPeer(n, p) == {e \in Entries(n) : PeerOf(e) = p}

\* Calls of n that stand in the way of a call with p.
Conflicts(n, p) ==
  {e \in Entries(n) : session[e[1]][e[2]] = "Active" \/ PeerOf(e) = p}

\* A message for the other end of e; nothing is written to a closed connection.
Send(wires, e, m) ==
  IF link[e[1]] = "open"
  THEN [wires EXCEPT ![e[1]][Other(e[2])] = Append(@, m)]
  ELSE wires

SetSession(e, state) == session' = [session EXCEPT ![e[1]][e[2]] = state]

\* The entries of E leave the table, with one terminal event each.
Remove(E, outcome) ==
  /\ session' = [c \in Calls |-> [r \in Roles |->
       IF <<c, r>> \in E THEN "None" ELSE session[c][r]]]
  /\ terminals' = [c \in Calls |-> [r \in Roles |->
       IF <<c, r>> \in E THEN Append(terminals[c][r], outcome) ELSE terminals[c][r]]]

\* Mutant: a second termination is not noticed.
Terminate_KeepsEntry(E, outcome) ==
  /\ UNCHANGED session
  /\ terminals' = [c \in Calls |-> [r \in Roles |->
       IF <<c, r>> \in E THEN Append(terminals[c][r], outcome) ELSE terminals[c][r]]]
  /\ link' = [c \in Calls |-> IF \E r \in Roles : <<c, r>> \in E THEN "closed"
                              ELSE link[c]]

\* Mutant: the connection stays open.
Terminate_KeepsConnection(E, outcome) ==
  Remove(E, outcome) /\ UNCHANGED link

\* terminate_call_inner for entries of one node; the runtime closes the
\* connection.
Terminate(E, outcome) ==
  /\ Remove(E, outcome)
  /\ link' = [c \in Calls |-> IF \E r \in Roles : <<c, r>> \in E THEN "closed"
                              ELSE link[c]]

\* The wires once every entry of E has told its peer (notify_peer).
Notified(E) ==
  [c \in Calls |-> [r \in Roles |->
     IF <<c, Other(r)>> \in E /\ link[c] = "open" THEN Append(wire[c][r], "Hangup")
     ELSE wire[c][r]]]

(***************************************************************************)
(* Commands of the user.                                                   *)
(***************************************************************************)

Started == {c \in Calls : ends[c]["caller"] # NoNode}

\* A call attempt of n that ends before it enters the table.
Refused(c, outcome) ==
  /\ terminals' = [terminals EXCEPT ![c]["caller"] = Append(@, outcome)]
  /\ UNCHANGED <<session, network>>

\* Command::Start: refused if another call stands in the way, else dial, offer
\* and set the negotiation timer.
Start(n, p, c) ==
  /\ n \in running /\ <<n, p>> \in Dials \cap authorized
  /\ c \notin Started
  /\ \A d \in Calls : d < c => d \in Started
  /\ ends' = [ends EXCEPT ![c] = [r \in Roles |-> IF r = "caller" THEN n ELSE p]]
  /\ \/ /\ Conflicts(n, p) # {}
        /\ Refused(c, "Rejected")
        /\ UNCHANGED faults
     \/ /\ Conflicts(n, p) = {}
        /\ faults < MaxFaults
        /\ faults' = faults + 1
        /\ Refused(c, "Connection")
     \/ /\ Conflicts(n, p) = {}
        /\ p \in running
        /\ SetSession(<<c, "caller">>, "Offered")
        /\ link' = [link EXCEPT ![c] = "open"]
        /\ arriving' = arriving \cup {c}
        /\ offering' = offering \cup {c}
        /\ task' = [task EXCEPT ![c] = {"caller"}]
        /\ UNCHANGED <<terminals, wire, faults>>
  /\ UNCHANGED <<authorized, running, commands>>

\* A command about a call in the table of the node at end e.
Command(e) ==
  /\ commands < MaxCommands
  /\ commands' = commands + 1
  /\ ends[e[1]][e[2]] \in running
  /\ session[e[1]][e[2]] # "None"
  /\ UNCHANGED <<ends, arriving, offering, task, authorized, running, faults>>

\* Command::Accept; the application accepts incoming calls only.
AcceptCall(c) ==
  /\ Command(<<c, "callee">>)
  /\ SetSession(<<c, "callee">>, "Active")
  /\ wire' = Send(wire, <<c, "callee">>, "Accept")
  /\ UNCHANGED <<terminals, link>>

\* Mutant: the session is declined but not terminated.
RejectCall_KeepsDeclined(c) ==
  /\ Command(<<c, "callee">>)
  /\ wire' = Send(wire, <<c, "callee">>, "Reject")
  /\ SetSession(<<c, "callee">>, "Declined")
  /\ UNCHANGED <<terminals, link>>

\* Command::Reject, of incoming calls.
RejectCall(c) ==
  /\ Command(<<c, "callee">>)
  /\ wire' = Send(wire, <<c, "callee">>, "Reject")
  /\ Terminate({<<c, "callee">>}, "Ended")

\* Command::Terminate, as CallHandle::hangup sends it.
HangUp(e) ==
  /\ Command(e)
  /\ wire' = Notified({e})
  /\ Terminate({e}, "Ended")

(***************************************************************************)
(* The network.                                                            *)
(***************************************************************************)

\* CallProtocol::accept and Command::Incoming: a session task for the stream,
\* or a refusal that closes the connection.
AcceptConnection(c) ==
  /\ c \in arriving
  /\ arriving' = arriving \ {c}
  /\ \/ /\ <<ends[c]["callee"], ends[c]["caller"]>> \in authorized
        /\ ends[c]["callee"] \in running
        /\ task' = [task EXCEPT ![c] = @ \cup {"callee"}]
        /\ UNCHANGED <<link, offering>>
     \/ /\ \/ <<ends[c]["callee"], ends[c]["caller"]>> \notin authorized
           \/ ends[c]["callee"] \notin running
           \/ link[c] = "closed"
        /\ link' = [link EXCEPT ![c] = "closed"]
        /\ offering' = offering \ {c}
        /\ UNCHANGED task
  /\ UNCHANGED <<ends, sessions, wire, authorized, running, commands, faults>>

\* Offers that wait for the user at n.
PendingOffers(n) ==
  {e \in Entries(n) : e[2] = "callee" /\ session[e[1]][e[2]] # "Active"}

\* Mutant: an offer that comes again is taken for a new one.
ReceiveOffer_Again(c) ==
  LET n == ends[c]["callee"]
  IN /\ c \in offering /\ "callee" \in task[c] /\ n \in running
     /\ session[c]["callee"] = "None" /\ Conflicts(n, ends[c]["caller"]) = {}
     /\ SetSession(<<c, "callee">>, "Ringing")
     /\ UNCHANGED <<ends, terminals, network, authorized, running, commands, faults>>

\* handle_control, Offer.  A full table and a call with the same peer answer
\* Busy and end the matter.  An active call with another peer answers Busy and
\* goes on; if there is an outgoing call to the offerer it says Busy again, for
\* the two keys resolve_collision compares are the same, and stops.
ReceiveOffer(c) ==
  LET n == ends[c]["callee"]
      p == ends[c]["caller"]
      e == <<c, "callee">>
      full == Cardinality(PendingOffers(n)) >= MaxPending
      others == Conflicts(n, p) \ WithPeer(n, p)
      busy == Send(wire, e, "Busy")
      outgoing == \E f \in WithPeer(n, p) : f[2] = "caller"
  IN /\ c \in offering /\ "callee" \in task[c] /\ n \in running
     /\ offering' = offering \ {c}
     /\ \/ /\ full \/ WithPeer(n, p) # {}
           /\ wire' \in {busy} \cup
                IF ~full /\ others # {} /\ outgoing THEN {Send(busy, e, "Busy")} ELSE {}
           /\ UNCHANGED session
        \/ /\ ~full /\ others # {} /\ ~outgoing
           /\ wire' = busy
           /\ SetSession(e, "Ringing")
        \/ /\ ~full /\ Conflicts(n, p) = {}
           /\ SetSession(e, "Ringing")
           /\ UNCHANGED wire
     /\ UNCHANGED <<ends, terminals, link, arriving, task, authorized, running,
                    commands, faults>>

\* The next message for end e, which its task has read.
Read(e, kind) ==
  /\ e[2] \in task[e[1]]
  /\ e[2] = "callee" => e[1] \notin offering
  /\ ends[e[1]][e[2]] \in running
  /\ wire[e[1]][e[2]] # <<>>
  /\ Head(wire[e[1]][e[2]]) = kind
  /\ wire' = [wire EXCEPT ![e[1]][e[2]] = Tail(@)]
  /\ UNCHANGED <<ends, arriving, offering, task, authorized, running,
                 commands, faults>>

\* handle_control, Accept: no entry, no effect.
ReceiveAccept(e) ==
  /\ Read(e, "Accept")
  /\ IF session[e[1]][e[2]] = "None" THEN UNCHANGED session
     ELSE SetSession(e, "Active")
  /\ UNCHANGED <<terminals, link>>

\* handle_control, Reject, Busy and Hangup.
ReceiveEnd(e, kind, outcome) ==
  /\ Read(e, kind)
  /\ Terminate(IF session[e[1]][e[2]] = "None" THEN {} ELSE {e}, outcome)

\* Mutant: only an active call is given up.
NoticeClosed_ActiveOnly(c, r) ==
  LET n == ends[c][r]
  IN /\ r \in task[c] /\ link[c] = "closed"
     /\ task' = [task EXCEPT ![c] = @ \ {r}]
     /\ wire' = [wire EXCEPT ![c][r] = <<>>]
     /\ offering' = IF r = "callee" THEN offering \ {c} ELSE offering
     /\ Terminate({e \in WithPeer(n, ends[c][Other(r)]) :
                     session[e[1]][e[2]] = "Active"}, "Ended")
     /\ UNCHANGED <<ends, arriving, authorized, running, commands, faults>>

\* The session task of an end finds its connection closed, and the actor
\* handles Command::ConnectionClosed, which names the peer: every call with
\* that peer ends.
NoticeClosed(c, r) ==
  LET n == ends[c][r]
  IN /\ r \in task[c] /\ link[c] = "closed"
     /\ task' = [task EXCEPT ![c] = @ \ {r}]
     /\ wire' = [wire EXCEPT ![c][r] = <<>>]
     /\ offering' = IF r = "callee" THEN offering \ {c} ELSE offering
     /\ Terminate(WithPeer(n, ends[c][Other(r)]), "Ended")
     /\ UNCHANGED <<ends, arriving, authorized, running, commands, faults>>

\* Command::NegotiationTimeout, 5 s after the call started: only an offer that
\* is still unanswered has expired, of any other call nothing changes.
NegotiationTimeout(c) ==
  LET e == <<c, "caller">>
  IN /\ session[c]["caller"] = "Offered"
     /\ ends[c]["caller"] \in running
     /\ wire' = Notified({e})
     /\ Terminate({e}, "Ended")
     /\ UNCHANGED <<ends, arriving, offering, task, authorized, running, commands,
                    faults>>

Fault ==
  /\ faults < MaxFaults
  /\ faults' = faults + 1
  /\ UNCHANGED <<ends, commands>>

\* The connection of a call is lost.
LoseConnection(c) ==
  /\ Fault
  /\ link[c] = "open"
  /\ link' = [link EXCEPT ![c] = "closed"]
  /\ UNCHANGED <<sessions, arriving, offering, wire, task, authorized, running>>

\* set_peer_authorized(false) and Command::RevokePeer.
RevokePeer(n, p) ==
  /\ Fault
  /\ n \in running /\ <<n, p>> \in authorized
  /\ authorized' = authorized \ {<<n, p>>}
  /\ wire' = Notified(WithPeer(n, p))
  /\ Terminate(WithPeer(n, p), "Ended")
  /\ UNCHANGED <<arriving, offering, task, running>>

\* Command::Shutdown ends the actor, and its process takes the connections.
Shutdown(n) ==
  /\ Fault
  /\ n \in running
  /\ running' = running \ {n}
  /\ Remove(Entries(n), "Ended")
  /\ link' = [c \in Calls |-> IF \E r \in Roles : ends[c][r] = n /\ link[c] = "open"
                              THEN "closed" ELSE link[c]]
  /\ UNCHANGED <<arriving, offering, wire, task, authorized>>

\* What the actors, their tasks and their timers do by themselves.
System ==
  \E c \in Calls :
    \/ AcceptConnection(c) \/ ReceiveOffer(c) \/ NegotiationTimeout(c)
    \/ \E r \in Roles :
         \/ ReceiveAccept(<<c, r>>)
         \/ ReceiveEnd(<<c, r>>, "Reject", "Rejected")
         \/ ReceiveEnd(<<c, r>>, "Busy", "Busy")
         \/ ReceiveEnd(<<c, r>>, "Hangup", "Ended")
         \/ NoticeClosed(c, r)

Next ==
  \/ System
  \/ \E d \in Dials, c \in Calls : Start(d[1], d[2], c)
  \/ \E c \in Calls :
       \/ AcceptCall(c) \/ RejectCall(c) \/ LoseConnection(c)
       \/ \E r \in Roles : HangUp(<<c, r>>)
  \/ \E d \in Friends : RevokePeer(d[1], d[2])
  \/ \E n \in Nodes : Shutdown(n)

Spec == Init /\ [][Next]_vars

\* The runtime schedules some task or timer that is ready; users need do
\* nothing.  As only finitely many steps follow each call, none is starved.
FairSpec == Spec /\ WF_vars(System)

(***************************************************************************)
(* Properties.                                                             *)
(***************************************************************************)
TypeOK ==
  /\ ends \in [Calls -> [Roles -> Nodes \cup {NoNode}]]
  /\ session \in [Calls -> [Roles -> States]]
  /\ terminals \in [Calls -> [Roles -> Seq(Outcomes)]]
  /\ link \in [Calls -> {"none", "open", "closed"}]
  /\ arriving \subseteq Calls /\ offering \subseteq Calls
  /\ wire \in [Calls -> [Roles -> Seq(Controls)]]
  /\ task \in [Calls -> SUBSET Roles]
  /\ authorized \subseteq Friends
  /\ running \subseteq Nodes
  /\ commands \in Nat /\ faults \in Nat

\* However hangups, timeouts, refusals, closed connections and revocations race,
\* the application gets at most one terminal event per call, and a call that
\* has had it is not in the table (terminate_call_inner).
OneTerminalEvent ==
  \A c \in Calls, r \in Roles :
    IF session[c][r] = "None" THEN Len(terminals[c][r]) <= 1
    ELSE terminals[c][r] = <<>>

\* Nothing about the call is under way any more.
Settled(c) ==
  /\ c \notin arriving \cup offering
  /\ \A r \in Roles : wire[c][r] = <<>>
  /\ link[c] = "closed" => task[c] = {}

\* Once the messages of a call are handled its two ends agree on it: nobody
\* rings for a caller who gave up, and nobody talks to an end that hung up
\* (terminate_call_inner closes the connection, ConnectionClosed spreads it).
NoHalfOpenCall ==
  \A c \in Calls :
    Settled(c) =>
      LET caller == session[c]["caller"]
          callee == session[c]["callee"]
      IN \/ caller = "None" /\ callee = "None"
         \/ caller = "Offered" /\ callee = "Ringing"
         \/ caller = "Active" /\ callee = "Active"

\* No call rings for ever, although only the caller has a timer and an incoming
\* call has none (NegotiationTimeout, Hangup, ConnectionClosed).
EveryCallIsDecided ==
  \A c \in Calls :
    (\E r \in Roles : session[c][r] \in Pending)
      ~> (\A r \in Roles : session[c][r] \notin Pending)

\* What the application knows of a call at one of its ends.
Phase(c, r) ==
  CASE session[c][r] = "Active" -> "active"
    [] session[c][r] \in Pending -> "pending"
    [] session[c][r] = "None" /\ terminals[c][r] # <<>> -> "ended"
    [] OTHER -> "idle"

Phases == [c \in Calls |-> [r \in Roles |-> Phase(c, r)]]

Lifecycle == INSTANCE CallLifecycle WITH phase <- Phases

\* The actors keep the promise of CallLifecycle: a call never goes back, whatever
\* the order of answers, timeouts and closed connections, and a caller is told
\* Active only after the callee took the call.
ImplementsLifecycle == Lifecycle!Spec

\* Of two calls that cross one survives, whatever the order in which the offers
\* arrive (resolve_collision).
CollisionHasASurvivor ==
  \A c, d \in Calls :
    ends[c]["caller"] = ends[d]["callee"] /\ ends[c]["callee"] = ends[d]["caller"]
      => ~(terminals[c]["caller"] = <<"Busy">> /\ terminals[d]["caller"] = <<"Busy">>)

\* The end of one call's connection leaves the next call alone, so the user can
\* call again right away (ConnectionClosed).
NextCallIsUndisturbed ==
  [][\A c, d \in Calls, r \in Roles :
       c # d /\ NoticeClosed(c, r) => session'[d] = session[d]]_vars
=============================================================================
