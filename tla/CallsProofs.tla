---------------------------- MODULE CallsProofs ----------------------------
(***************************************************************************)
(* Proofs about Calls for every set of nodes and every number of calls:    *)
(* type correctness, that a call has at most one terminal event per end,   *)
(* that the actors implement CallLifecycle, and that no call is left open  *)
(* at one end only.                                                        *)
(*                                                                         *)
(* The inductive invariant adds what the table alone does not say: a call  *)
(* that nobody started has left no trace, an offer under way has rung      *)
(* nobody yet and has a caller, and an Accept under way to the caller was  *)
(* sent by a callee that took the call.                                    *)
(***************************************************************************)
EXTENDS Calls, TLAPS

Has(s, m) == \E i \in 1..Len(s) : s[i] = m

Unstarted ==
  \A c \in Calls \ Started :
    /\ c \notin offering
    /\ \A r \in Roles : session[c][r] = "None" /\ terminals[c][r] = <<>>

OffersAreNew ==
  \A c \in offering :
    /\ session[c]["callee"] = "None" /\ terminals[c]["callee"] = <<>>
    /\ session[c]["caller"] # "None" \/ terminals[c]["caller"] # <<>>

AcceptedWasTaken ==
  \A c \in Calls :
    Has(wire[c]["caller"], "Accept") =>
      \/ session[c]["callee"] = "Active"
      \/ session[c]["callee"] = "None" /\ terminals[c]["callee"] # <<>>

Inv ==
  /\ TypeOK /\ OneTerminalEvent
  /\ Unstarted /\ OffersAreNew /\ AcceptedWasTaken

(***************************************************************************)
(* Wires.                                                                  *)
(***************************************************************************)
Wires == [Calls -> [Roles -> Seq(Controls)]]

\* Appending a message to a stream adds just this message.
LEMMA HasAppend ==
  ASSUME NEW s \in Seq(Controls), NEW m \in Controls, NEW k, Has(Append(s, m), k)
  PROVE  Has(s, k) \/ m = k
BY DEF Has

\* Reading a message from a stream adds none.
LEMMA HasTail ==
  ASSUME NEW s \in Seq(Controls), s # <<>>, NEW k, Has(Tail(s), k)
  PROVE  Has(s, k)
BY DEF Has

\* Changing one entry of a table of tables.
LEMMA Update ==
  ASSUME NEW S, NEW w \in [Calls -> [Roles -> S]], NEW d \in Calls, NEW o \in Roles,
         NEW s \in S
  PROVE  LET v == [w EXCEPT ![d][o] = s]
         IN /\ v \in [Calls -> [Roles -> S]]
            /\ v[d][o] = s
            /\ \A c \in Calls, r \in Roles : c # d \/ r # o => v[c][r] = w[c][r]
OBVIOUS

\* A message that is sent is added to one stream, or to none.
LEMMA SendAdds ==
  ASSUME NEW w \in Wires, NEW d \in Calls, NEW q \in Roles, NEW m \in Controls
  PROVE  /\ Send(w, <<d, q>>, m) \in Wires
         /\ \A c \in Calls, r \in Roles, k \in Controls :
              Has(Send(w, <<d, q>>, m)[c][r], k) =>
                Has(w[c][r], k) \/ (m = k /\ c = d /\ r = Other(q))
<1> DEFINE e == <<d, q>>
<1>0. e[1] = d /\ e[2] = q /\ Other(q) \in Roles
  BY DEF Other, Roles
<1>1. CASE link[d] = "open"
  <2> DEFINE o == Other(q)
             v == [w EXCEPT ![d][o] = Append(w[d][o], m)]
  <2>1. Send(w, e, m) = v
    BY <1>0, <1>1 DEF Send
  <2>2. w[d][o] \in Seq(Controls) /\ Append(w[d][o], m) \in Seq(Controls)
    BY <1>0 DEF Wires
  <2>3. /\ v \in Wires
        /\ v[d][o] = Append(w[d][o], m)
        /\ \A c \in Calls, r \in Roles : c # d \/ r # o => v[c][r] = w[c][r]
    <3> HIDE DEF o
    <3> QED BY <1>0, <2>2, Update DEF Wires, o
  <2>4. ASSUME NEW c \in Calls, NEW r \in Roles, NEW k \in Controls, Has(v[c][r], k)
        PROVE  Has(w[c][r], k) \/ (m = k /\ c = d /\ r = o)
    <3>1. CASE c = d /\ r = o
      BY <2>2, <2>3, <2>4, <3>1, HasAppend
    <3>2. CASE c # d \/ r # o
      BY <2>3, <2>4, <3>2
    <3> QED BY <3>1, <3>2
  <2> QED BY <2>1, <2>3, <2>4
<1>2. CASE link[d] # "open"
  BY <1>0, <1>2 DEF Send
<1> QED BY <1>1, <1>2

\* Notifications add only Hangup messages.
LEMMA NotifiedAdds ==
  ASSUME wire \in Wires, NEW E
  PROVE  /\ Notified(E) \in Wires
         /\ \A c \in Calls, r \in Roles, k \in Controls :
              Has(Notified(E)[c][r], k) => Has(wire[c][r], k) \/ k = "Hangup"
<1>1. \A c \in Calls, r \in Roles :
        wire[c][r] \in Seq(Controls) /\ Append(wire[c][r], "Hangup") \in Seq(Controls)
  BY DEF Wires, Controls
<1>2. Notified(E) \in Wires
  BY <1>1 DEF Notified, Wires
<1>3. ASSUME NEW c \in Calls, NEW r \in Roles, NEW k \in Controls,
             Has(Notified(E)[c][r], k)
      PROVE  Has(wire[c][r], k) \/ k = "Hangup"
  <2>1. \/ Notified(E)[c][r] = wire[c][r]
        \/ Notified(E)[c][r] = Append(wire[c][r], "Hangup")
    BY DEF Notified
  <2>2. "Hangup" \in Controls
    BY DEF Controls
  <2> QED BY <1>1, <1>3, <2>1, <2>2, HasAppend
<1> QED BY <1>2, <1>3

(***************************************************************************)
(* Phases.                                                                 *)
(***************************************************************************)
PhaseOK ==
  /\ Phases = [c \in Calls |-> [r \in Roles |-> Phases[c][r]]]
  /\ \A c \in Calls, r \in Roles :
       /\ session[c][r] = "Active" => Phases[c][r] = "active"
       /\ session[c][r] \in Pending => Phases[c][r] = "pending"
       /\ session[c][r] = "None" =>
            Phases[c][r] = IF terminals[c][r] # <<>> THEN "ended" ELSE "idle"

\* The phase of an end is read off its session and its terminal events.
LEMMA PhaseIsRead == PhaseOK
<1>1. ASSUME NEW c \in Calls, NEW r \in Roles
      PROVE  Phases[c][r] = Phase(c, r)
  BY DEF Phases
<1>2. ASSUME NEW c \in Calls, NEW r \in Roles
      PROVE  /\ session[c][r] = "Active" => Phase(c, r) = "active"
             /\ session[c][r] \in Pending => Phase(c, r) = "pending"
             /\ session[c][r] = "None" =>
                  Phase(c, r) = IF terminals[c][r] # <<>> THEN "ended" ELSE "idle"
  BY DEF Phase, Pending
<1> QED BY <1>1, <1>2 DEF PhaseOK, Phases

\* The same after a step.
LEMMA PhaseIsReadNext == PhaseOK'
<1>1. ASSUME NEW c \in Calls, NEW r \in Roles
      PROVE  Phases'[c][r] = Phase(c, r)'
  BY DEF Phases
<1>2. ASSUME NEW c \in Calls, NEW r \in Roles
      PROVE  /\ session'[c][r] = "Active" => Phase(c, r)' = "active"
             /\ session'[c][r] \in Pending => Phase(c, r)' = "pending"
             /\ session'[c][r] = "None" =>
                  Phase(c, r)' = IF terminals'[c][r] # <<>> THEN "ended" ELSE "idle"
  BY DEF Phase, Pending
<1> QED BY <1>1, <1>2 DEF PhaseOK, Phases

Same(c, r) == session'[c][r] = session[c][r] /\ terminals'[c][r] = terminals[c][r]

\* What a step does not touch keeps its phase.
LEMMA SamePhase ==
  ASSUME TypeOK, NEW c \in Calls, NEW r \in Roles, Same(c, r)
  PROVE  Phases'[c][r] = Phases[c][r]
<1>1. session[c][r] \in {"None", "Active"} \cup Pending
  BY DEF TypeOK, States
<1> QED BY <1>1, PhaseIsRead, PhaseIsReadNext DEF PhaseOK, Same

\* A step that changes one end changes one entry of the map.
LEMMA OnePhase ==
  ASSUME TypeOK, NEW d \in Calls, NEW q \in Roles, NEW x,
         \A c \in Calls, r \in Roles : c # d \/ r # q => Same(c, r),
         Phases'[d][q] = x
  PROVE  Phases' = [Phases EXCEPT ![d][q] = x]
<1>1. \A c \in Calls, r \in Roles : c # d \/ r # q => Phases'[c][r] = Phases[c][r]
  BY SamePhase
<1>2. /\ Phases = [c \in Calls |-> [r \in Roles |-> Phases[c][r]]]
      /\ Phases' = [c \in Calls |-> [r \in Roles |-> Phases'[c][r]]]
  BY PhaseIsRead, PhaseIsReadNext DEF PhaseOK
<1> QED BY <1>1, <1>2

\* A step that touches nothing stutters.
LEMMA NoPhase ==
  ASSUME TypeOK, \A c \in Calls, r \in Roles : Same(c, r)
  PROVE  Phases' = Phases
<1>1. \A c \in Calls, r \in Roles : Phases'[c][r] = Phases[c][r]
  BY SamePhase
<1>2. /\ Phases = [c \in Calls |-> [r \in Roles |-> Phases[c][r]]]
      /\ Phases' = [c \in Calls |-> [r \in Roles |-> Phases'[c][r]]]
  BY PhaseIsRead, PhaseIsReadNext DEF PhaseOK
<1> QED BY <1>1, <1>2

(***************************************************************************)
(* Changes of the table.  Each of them keeps the invariant and is a step   *)
(* of CallLifecycle.                                                       *)
(***************************************************************************)
SessionInv ==
  /\ session \in [Calls -> [Roles -> States]]
  /\ terminals \in [Calls -> [Roles -> Seq(Outcomes)]]
  /\ OneTerminalEvent /\ Unstarted /\ OffersAreNew /\ AcceptedWasTaken

\* No call starts, no offer comes up, and no Accept is sent.
Quiet ==
  /\ ends' = ends
  /\ offering' \subseteq offering
  /\ \A c \in Calls : Has(wire'[c]["caller"], "Accept") => Has(wire[c]["caller"], "Accept")

\* A step that leaves the tables alone.
LEMMA IdleGood ==
  ASSUME Inv, Quiet, UNCHANGED <<session, terminals>>
  PROVE  SessionInv' /\ Phases' = Phases
<1>1. \A c \in Calls, r \in Roles : Same(c, r)
  BY DEF Same
<1>2. Phases' = Phases
  BY <1>1, NoPhase DEF Inv
<1>3. offering \subseteq Calls
  BY DEF Inv, TypeOK
<1>4. OneTerminalEvent' /\ Unstarted' /\ OffersAreNew' /\ AcceptedWasTaken'
  BY <1>3 DEF Inv, Quiet, OneTerminalEvent, Unstarted, Started, OffersAreNew, AcceptedWasTaken
<1> QED BY <1>2, <1>4 DEF SessionInv, Inv, TypeOK

\* The end of calls.
LEMMA RemoveGood ==
  ASSUME Inv, Quiet, NEW E \in SUBSET (Calls \X Roles), NEW o \in Outcomes, Remove(E, o),
         \A c \in Calls, r \in Roles : <<c, r>> \in E => session[c][r] # "None"
  PROVE  SessionInv' /\ [Lifecycle!Next]_Phases
<1> "caller" \in Roles /\ "callee" \in Roles
  BY DEF Roles
<1>1. ASSUME NEW c \in Calls, NEW r \in Roles
      PROVE  IF <<c, r>> \in E
             THEN /\ session[c][r] \in {"Active"} \cup Pending
                  /\ session'[c][r] = "None" /\ terminals'[c][r] = Append(<<>>, o)
                  /\ terminals[c][r] = <<>>
             ELSE Same(c, r)
  BY DEF Remove, Inv, TypeOK, States, OneTerminalEvent, Same
<1>2. /\ Append(<<>>, o) \in Seq(Outcomes) /\ Append(<<>>, o) # <<>>
      /\ Len(Append(<<>>, o)) = 1
  OBVIOUS
<1>3. session' \in [Calls -> [Roles -> States]]
  BY DEF Remove, Inv, TypeOK, States
<1>4. terminals' \in [Calls -> [Roles -> Seq(Outcomes)]]
  BY DEF Remove, Inv, TypeOK
<1>5. OneTerminalEvent'
  <2> SUFFICES ASSUME NEW c \in Calls, NEW r \in Roles
               PROVE  IF session'[c][r] = "None" THEN Len(terminals'[c][r]) <= 1
                      ELSE terminals'[c][r] = <<>>
    BY DEF OneTerminalEvent
  <2>1. CASE <<c, r>> \in E
    BY <1>1, <1>2, <2>1
  <2>2. CASE <<c, r>> \notin E
    BY <1>1, <2>2 DEF Inv, OneTerminalEvent, Same
  <2> QED BY <2>1, <2>2
<1>6. Unstarted'
  <2> SUFFICES ASSUME NEW c \in Calls \ Started, NEW r \in Roles
               PROVE  /\ c \notin offering'
                      /\ session'[c][r] = "None" /\ terminals'[c][r] = <<>>
    BY DEF Unstarted, Started, Quiet
  <2>1. <<c, r>> \notin E
    BY DEF Inv, Unstarted
  <2> QED BY <1>1, <2>1 DEF Inv, Unstarted, Quiet, Same
<1>7. OffersAreNew'
  <2> SUFFICES ASSUME NEW c \in offering'
               PROVE  /\ session'[c]["callee"] = "None" /\ terminals'[c]["callee"] = <<>>
                      /\ session'[c]["caller"] # "None" \/ terminals'[c]["caller"] # <<>>
    BY DEF OffersAreNew
  <2>1. c \in offering /\ c \in Calls
    BY DEF Quiet, Inv, TypeOK
  <2>2. <<c, "callee">> \notin E
    BY <1>1, <2>1 DEF Inv, OffersAreNew, Pending
  <2> QED BY <1>1, <1>2, <2>1, <2>2 DEF Inv, OffersAreNew, Same
<1>8. AcceptedWasTaken'
  <2> SUFFICES ASSUME NEW c \in Calls, Has(wire'[c]["caller"], "Accept")
               PROVE  \/ session'[c]["callee"] = "Active"
                      \/ session'[c]["callee"] = "None" /\ terminals'[c]["callee"] # <<>>
    BY DEF AcceptedWasTaken
  <2>1. Has(wire[c]["caller"], "Accept")
    BY DEF Quiet
  <2> QED BY <1>1, <1>2, <2>1 DEF Inv, AcceptedWasTaken, Same
<1>9. Lifecycle!End(E)
  <2>1. ASSUME NEW c \in Calls, NEW r \in Roles
        PROVE  /\ <<c, r>> \in E => Phases[c][r] \in Lifecycle!Live
               /\ Phases'[c][r] = IF <<c, r>> \in E THEN "ended" ELSE Phases[c][r]
    <3>1. CASE <<c, r>> \in E
      BY <1>1, <1>2, <3>1, PhaseIsRead, PhaseIsReadNext DEF PhaseOK, Lifecycle!Live
    <3>2. CASE <<c, r>> \notin E
      BY <1>1, <3>2, SamePhase DEF Inv
    <3> QED BY <3>1, <3>2
  <2>2. Phases' = [c \in Calls |-> [r \in Roles |-> Phases'[c][r]]]
    BY PhaseIsReadNext DEF PhaseOK
  <2>3. Phases' = [c \in Calls |-> [r \in Roles |->
                     IF <<c, r>> \in E THEN "ended" ELSE Phases[c][r]]]
    BY <2>1, <2>2
  <2>4. \A e \in E : Phases[e[1]][e[2]] \in Lifecycle!Live
    BY <2>1
  <2> QED BY <2>3, <2>4 DEF Lifecycle!End
<1> QED BY <1>3, <1>4, <1>5, <1>6, <1>7, <1>8, <1>9 DEF SessionInv, Lifecycle!Next

\* The beginning of a conversation at one end.
LEMMA TakeGood ==
  ASSUME Inv, NEW d \in Calls, NEW q \in Roles, session[d][q] # "None",
         SetSession(<<d, q>>, "Active"), UNCHANGED <<terminals, ends, offering>>,
         q = "caller" => Has(wire[d]["caller"], "Accept"),
         \A c \in Calls : Has(wire'[c]["caller"], "Accept") =>
                            Has(wire[c]["caller"], "Accept") \/ (c = d /\ q = "callee")
  PROVE  SessionInv' /\ [Lifecycle!Next]_Phases
<1> "caller" \in Roles /\ "callee" \in Roles
  BY DEF Roles
<1>0. session' = [session EXCEPT ![d][q] = "Active"]
  BY DEF SetSession
<1>1. /\ session' \in [Calls -> [Roles -> States]]
      /\ session'[d][q] = "Active"
      /\ \A c \in Calls, r \in Roles : c # d \/ r # q => session'[c][r] = session[c][r]
  <2>1. session \in [Calls -> [Roles -> States]] /\ "Active" \in States
    BY DEF Inv, TypeOK, States
  <2> QED BY <1>0, <2>1, Update
<1>2. \A c \in Calls, r \in Roles : c # d \/ r # q => Same(c, r)
  BY <1>1 DEF Same
<1>3. terminals[d][q] = <<>> /\ session[d][q] \in {"Active"} \cup Pending
  BY DEF Inv, OneTerminalEvent, TypeOK, States
<1>4. OneTerminalEvent'
  BY <1>1, <1>3 DEF Inv, OneTerminalEvent
<1>5. Unstarted'
  BY <1>1 DEF Inv, Unstarted, Started
<1>6. OffersAreNew'
  <2> SUFFICES ASSUME NEW c \in offering
               PROVE  /\ session'[c]["callee"] = "None" /\ terminals[c]["callee"] = <<>>
                      /\ session'[c]["caller"] # "None" \/ terminals[c]["caller"] # <<>>
    BY DEF OffersAreNew
  <2>1. c \in Calls
    BY DEF Inv, TypeOK
  <2> QED BY <1>1, <2>1 DEF Inv, OffersAreNew
<1>7. AcceptedWasTaken'
  <2> SUFFICES ASSUME NEW c \in Calls, Has(wire'[c]["caller"], "Accept")
               PROVE  \/ session'[c]["callee"] = "Active"
                      \/ session'[c]["callee"] = "None" /\ terminals[c]["callee"] # <<>>
    BY DEF AcceptedWasTaken
  <2> QED BY <1>1 DEF Inv, AcceptedWasTaken
<1>8. [Lifecycle!Next]_Phases
  <2>1. CASE session[d][q] = "Active"
    <3>1. Same(d, q)
      BY <1>1, <2>1 DEF Same
    <3> QED BY <1>2, <3>1, NoPhase DEF Inv
  <2>2. CASE session[d][q] \in Pending
    <3>1. Phases[d][q] = "pending" /\ Phases'[d][q] = "active"
      BY <1>1, <2>2, PhaseIsRead, PhaseIsReadNext DEF PhaseOK
    <3>2. Phases' = [Phases EXCEPT ![d][q] = "active"]
      BY <1>2, <3>1, OnePhase DEF Inv
    <3>3. q = "caller" => Phases[d]["callee"] \in {"active", "ended"}
      BY PhaseIsRead DEF Inv, AcceptedWasTaken, PhaseOK
    <3> QED BY <3>1, <3>2, <3>3 DEF Lifecycle!Connect, Lifecycle!Next
  <2> QED BY <1>3, <2>1, <2>2
<1> QED BY <1>1, <1>4, <1>5, <1>6, <1>7, <1>8 DEF SessionInv, Inv, TypeOK

\* The ringing of an offer.
LEMMA RingGood ==
  ASSUME Inv, NEW d \in offering, SetSession(<<d, "callee">>, "Ringing"),
         offering' = offering \ {d}, UNCHANGED <<terminals, ends>>,
         \A c \in Calls : Has(wire'[c]["caller"], "Accept") => Has(wire[c]["caller"], "Accept")
  PROVE  SessionInv' /\ [Lifecycle!Next]_Phases
<1> "caller" \in Roles /\ "callee" \in Roles /\ d \in Calls
  BY DEF Roles, Inv, TypeOK
<1>0. session' = [session EXCEPT ![d]["callee"] = "Ringing"]
  BY DEF SetSession
<1>1. /\ session' \in [Calls -> [Roles -> States]]
      /\ session'[d]["callee"] = "Ringing"
      /\ \A c \in Calls, r \in Roles :
           c # d \/ r # "callee" => session'[c][r] = session[c][r]
  <2>1. session \in [Calls -> [Roles -> States]] /\ "Ringing" \in States
    BY DEF Inv, TypeOK, States, Pending
  <2> QED BY <1>0, <2>1, Update
<1>2. \A c \in Calls, r \in Roles : c # d \/ r # "callee" => Same(c, r)
  BY <1>1 DEF Same
<1>3. /\ session[d]["callee"] = "None" /\ terminals[d]["callee"] = <<>>
      /\ session[d]["caller"] # "None" \/ terminals[d]["caller"] # <<>>
  BY DEF Inv, OffersAreNew
<1>4. OneTerminalEvent'
  BY <1>1, <1>3 DEF Inv, OneTerminalEvent
<1>5. Unstarted'
  BY <1>1 DEF Inv, Unstarted, Started
<1>6. OffersAreNew'
  <2> SUFFICES ASSUME NEW c \in offering \ {d}
               PROVE  /\ session'[c]["callee"] = "None" /\ terminals[c]["callee"] = <<>>
                      /\ session'[c]["caller"] # "None" \/ terminals[c]["caller"] # <<>>
    BY DEF OffersAreNew
  <2>1. c \in Calls
    BY DEF Inv, TypeOK
  <2> QED BY <1>1, <2>1 DEF Inv, OffersAreNew
<1>7. AcceptedWasTaken'
  BY <1>1, <1>3 DEF Inv, AcceptedWasTaken
<1>8. Lifecycle!Begin(d, "callee")
  <2>1. Phases[d]["callee"] = "idle" /\ Phases'[d]["callee"] = "pending"
    BY <1>1, <1>3, PhaseIsRead, PhaseIsReadNext DEF PhaseOK, Pending
  <2>2. Phases' = [Phases EXCEPT ![d]["callee"] = "pending"]
    BY <1>2, <2>1, OnePhase DEF Inv
  <2>3. session[d]["caller"] \in {"None", "Active"} \cup Pending
    BY DEF Inv, TypeOK, States
  <2>4. Phases[d]["caller"] # "idle"
    BY <1>3, <2>3, PhaseIsRead DEF PhaseOK
  <2> QED BY <2>1, <2>2, <2>4 DEF Lifecycle!Begin
<1> QED BY <1>1, <1>4, <1>5, <1>6, <1>7, <1>8 DEF SessionInv, Inv, TypeOK, Lifecycle!Next

(***************************************************************************)
(* The actions.                                                            *)
(***************************************************************************)
NetworkType ==
  /\ ends \in [Calls -> [Roles -> Nodes \cup {NoNode}]]
  /\ link \in [Calls -> {"none", "open", "closed"}]
  /\ arriving \subseteq Calls /\ offering \subseteq Calls
  /\ wire \in Wires
  /\ task \in [Calls -> SUBSET Roles]
  /\ authorized \subseteq Friends
  /\ running \subseteq Nodes
  /\ commands \in Nat /\ faults \in Nat

\* The invariant is about the tables and the types of the rest.
LEMMA InvParts == Inv <=> SessionInv /\ NetworkType
BY DEF Inv, TypeOK, SessionInv, NetworkType, Wires

\* The same after a step.
LEMMA InvPartsNext == Inv' <=> SessionInv' /\ NetworkType'
BY DEF Inv, TypeOK, SessionInv, NetworkType, Wires

Good == Inv' /\ [Lifecycle!Next]_Phases

\* An attempt is refused, or begins at the caller.
LEMMA StartGood ==
  ASSUME Inv, NEW n \in Nodes, NEW p \in Nodes, NEW d \in Calls, Start(n, p, d)
  PROVE  Good
<1> "caller" \in Roles /\ "callee" \in Roles
  BY DEF Roles
<1> USE InvParts
<1>1. d \notin offering /\ \A r \in Roles : session[d][r] = "None" /\ terminals[d][r] = <<>>
  BY DEF Start, Inv, Unstarted
<1>2. /\ ends' \in [Calls -> [Roles -> Nodes \cup {NoNode}]]
      /\ Started' = Started \cup {d}
  <2>1. ends' = [ends EXCEPT ![d] = [r \in Roles |-> IF r = "caller" THEN n ELSE p]]
    BY DEF Start
  <2>2. ends' \in [Calls -> [Roles -> Nodes \cup {NoNode}]]
    BY <2>1 DEF NetworkType
  <2>3. n # NoNode
    BY CallsAssumption
  <2>4. ends'[d]["caller"] = n /\ \A c \in Calls \ {d} : ends'[c] = ends[c]
    BY <2>1 DEF NetworkType
  <2> QED BY <2>2, <2>3, <2>4 DEF Started
<1>3. ASSUME NEW o \in Outcomes, Refused(d, o), faults' \in Nat
      PROVE  Good
  <2>0. Append(<<>>, o) \in Seq(Outcomes) /\ Append(<<>>, o) # <<>> /\ Len(Append(<<>>, o)) = 1
    OBVIOUS
  <2>1. /\ terminals' \in [Calls -> [Roles -> Seq(Outcomes)]]
        /\ terminals'[d]["caller"] = Append(<<>>, o)
        /\ \A c \in Calls, r \in Roles :
             c # d \/ r # "caller" => terminals'[c][r] = terminals[c][r]
    <3>1. terminals' = [terminals EXCEPT ![d]["caller"] = Append(terminals[d]["caller"], o)]
      BY <1>3 DEF Refused
    <3>2. terminals' = [terminals EXCEPT ![d]["caller"] = Append(<<>>, o)]
      BY <1>1, <3>1
    <3>3. terminals \in [Calls -> [Roles -> Seq(Outcomes)]]
      BY DEF SessionInv
    <3> QED BY <2>0, <3>2, <3>3, Update
  <2>2. UNCHANGED <<session, link, arriving, offering, wire, task>>
    BY <1>3 DEF Refused, network
  <2>3. NetworkType'
    BY <1>2, <1>3, <2>2 DEF NetworkType, Start
  <2>4. OneTerminalEvent'
    <3> SUFFICES ASSUME NEW c \in Calls, NEW r \in Roles
                 PROVE  IF session[c][r] = "None" THEN Len(terminals'[c][r]) <= 1
                        ELSE terminals'[c][r] = <<>>
      BY <2>2 DEF OneTerminalEvent
    <3>1. CASE c = d /\ r = "caller"
      <4>1. Len(terminals'[c][r]) = 1
        BY <2>0, <2>1, <3>1
      <4>2. session[c][r] = "None" /\ 1 <= 1
        BY <1>1, <3>1
      <4> QED BY <4>1, <4>2
    <3>2. CASE c # d \/ r # "caller"
      BY <2>1, <3>2, ZenonT(30) DEF Inv, OneTerminalEvent
    <3> QED BY <3>1, <3>2
  <2>5. Unstarted'
    BY <1>2, <2>1, <2>2, ZenonT(30) DEF Inv, Unstarted
  <2>6. OffersAreNew'
    BY <1>1, <2>1, <2>2 DEF Inv, OffersAreNew, NetworkType
  <2>7. AcceptedWasTaken'
    BY <1>1, <2>1, <2>2 DEF Inv, AcceptedWasTaken
  <2>8. Lifecycle!Refuse(d)
    <3>1. Phases[d]["caller"] = "idle" /\ Phases'[d]["caller"] = "ended"
      BY <1>1, <2>0, <2>1, <2>2, PhaseIsRead, PhaseIsReadNext DEF PhaseOK
    <3>2. \A c \in Calls, r \in Roles : c # d \/ r # "caller" => Same(c, r)
      BY <2>1, <2>2 DEF Same
    <3>3. Phases' = [Phases EXCEPT ![d]["caller"] = "ended"]
      BY <3>1, <3>2, OnePhase DEF Inv
    <3> QED BY <3>1, <3>3 DEF Lifecycle!Refuse
  <2>9. SessionInv'
    BY <2>1, <2>2, <2>4, <2>5, <2>6, <2>7 DEF SessionInv
  <2> QED BY <2>3, <2>8, <2>9, InvPartsNext DEF Good, Lifecycle!Next
<1>4. ASSUME SetSession(<<d, "caller">>, "Offered"),
             link' = [link EXCEPT ![d] = "open"], arriving' = arriving \cup {d},
             offering' = offering \cup {d}, task' = [task EXCEPT ![d] = {"caller"}],
             UNCHANGED <<terminals, wire, faults>>
      PROVE  Good
  <2>0. session' = [session EXCEPT ![d]["caller"] = "Offered"]
    BY <1>4 DEF SetSession
  <2>1. /\ session' \in [Calls -> [Roles -> States]]
        /\ session'[d]["caller"] = "Offered"
        /\ \A c \in Calls, r \in Roles :
             c # d \/ r # "caller" => session'[c][r] = session[c][r]
    <3>1. session \in [Calls -> [Roles -> States]] /\ "Offered" \in States
      BY DEF SessionInv, States, Pending
    <3> QED BY <2>0, <3>1, Update
  <2>2. NetworkType'
    BY <1>2, <1>4 DEF NetworkType, Start
  <2>3. OneTerminalEvent'
    BY <1>1, <1>4, <2>1 DEF Inv, OneTerminalEvent
  <2>4. Unstarted'
    BY <1>2, <1>4, <2>1 DEF Inv, Unstarted
  <2>5. OffersAreNew'
    <3> SUFFICES ASSUME NEW c \in offering \cup {d}
                 PROVE  /\ session'[c]["callee"] = "None" /\ terminals[c]["callee"] = <<>>
                        /\ session'[c]["caller"] # "None" \/ terminals[c]["caller"] # <<>>
      BY <1>4 DEF OffersAreNew
    <3>1. c \in Calls
      BY DEF NetworkType
    <3>2. CASE c = d
      BY <1>1, <2>1, <3>2
    <3>3. CASE c # d
      BY <2>1, <3>1, <3>3 DEF Inv, OffersAreNew
    <3> QED BY <3>2, <3>3
  <2>6. AcceptedWasTaken'
    BY <1>4, <2>1 DEF Inv, AcceptedWasTaken
  <2>7. Lifecycle!Begin(d, "caller")
    <3>1. Phases[d]["caller"] = "idle" /\ Phases'[d]["caller"] = "pending"
      BY <1>1, <1>4, <2>1, PhaseIsRead, PhaseIsReadNext DEF PhaseOK, Pending
    <3>2. \A c \in Calls, r \in Roles : c # d \/ r # "caller" => Same(c, r)
      BY <1>4, <2>1 DEF Same
    <3>3. Phases' = [Phases EXCEPT ![d]["caller"] = "pending"]
      BY <3>1, <3>2, OnePhase DEF Inv
    <3> QED BY <3>1, <3>3 DEF Lifecycle!Begin
  <2>8. SessionInv'
    BY <1>4, <2>1, <2>3, <2>4, <2>5, <2>6 DEF SessionInv
  <2> QED BY <2>2, <2>7, <2>8, InvPartsNext DEF Good, Lifecycle!Next
<1>5. "Rejected" \in Outcomes /\ "Connection" \in Outcomes
  BY DEF Outcomes
<1>6. faults \in Nat /\ faults + 1 \in Nat
  BY DEF NetworkType
<1> QED BY <1>3, <1>4, <1>5, <1>6 DEF Start

\* A callee takes the call.
LEMMA AcceptCallGood ==
  ASSUME Inv, NEW d \in Calls, AcceptCall(d)
  PROVE  Good
<1> "caller" \in Roles /\ "callee" \in Roles /\ "Accept" \in Controls
  BY DEF Roles, Controls
<1> USE InvParts
<1>1. /\ session[d]["callee"] # "None" /\ SetSession(<<d, "callee">>, "Active")
      /\ wire' = Send(wire, <<d, "callee">>, "Accept")
      /\ UNCHANGED <<terminals, link, ends, offering, arriving, task, authorized, running,
                     faults>>
      /\ commands' = commands + 1
  BY DEF AcceptCall, Command
<1>2. Other("callee") = "caller"
  BY DEF Other
<1>3. /\ wire' \in Wires
      /\ \A c \in Calls : Has(wire'[c]["caller"], "Accept") =>
                            Has(wire[c]["caller"], "Accept") \/ c = d
  BY <1>1, SendAdds DEF NetworkType
<1>4. NetworkType'
  BY <1>1, <1>3 DEF NetworkType
<1>5. SessionInv' /\ [Lifecycle!Next]_Phases
  BY <1>1, <1>3, TakeGood
<1> QED BY <1>4, <1>5, InvPartsNext DEF Good

\* A step that ends calls, for whichever reason.
LEMMA EndingGood ==
  ASSUME Inv, Quiet, NetworkType', NEW E \in SUBSET (Calls \X Roles), NEW o \in Outcomes,
         Remove(E, o), \A e \in E : session[e[1]][e[2]] # "None"
  PROVE  Good
<1>1. \A c \in Calls, r \in Roles : <<c, r>> \in E => session[c][r] # "None"
  OBVIOUS
<1> QED BY <1>1, RemoveGood, InvPartsNext DEF Good

\* A termination removes entries and closes connections.
LEMMA TerminateLink ==
  ASSUME Inv, NEW E, NEW o, Terminate(E, o)
  PROVE  link' \in [Calls -> {"none", "open", "closed"}] /\ Remove(E, o)
BY DEF Terminate, Inv, TypeOK

\* A rejected call ends at the callee.
LEMMA RejectCallGood ==
  ASSUME Inv, NEW d \in Calls, RejectCall(d)
  PROVE  Good
<1> "caller" \in Roles /\ "callee" \in Roles /\ {"Accept", "Reject"} \subseteq Controls
  BY DEF Roles, Controls
<1> USE InvParts
<1>1. /\ session[d]["callee"] # "None" /\ Terminate({<<d, "callee">>}, "Ended")
      /\ wire' = Send(wire, <<d, "callee">>, "Reject")
      /\ UNCHANGED <<ends, offering, arriving, task, authorized, running, faults>>
      /\ commands' = commands + 1
  BY DEF RejectCall, Command
<1>2. /\ wire' \in Wires
      /\ \A c \in Calls : Has(wire'[c]["caller"], "Accept") => Has(wire[c]["caller"], "Accept")
  BY <1>1, SendAdds DEF NetworkType
<1>3. NetworkType'
  BY <1>1, <1>2, TerminateLink DEF NetworkType
<1>4. Quiet
  BY <1>1, <1>2 DEF Quiet
<1> QED BY <1>1, <1>3, <1>4, TerminateLink, EndingGood DEF Outcomes

\* Steps that end the calls of E and tell their peers.
LEMMA NotifiedGood ==
  ASSUME Inv, NEW E \in SUBSET (Calls \X Roles), Terminate(E, "Ended"),
         wire' = Notified(E), \A e \in E : session[e[1]][e[2]] # "None",
         UNCHANGED <<ends, offering, arriving, task, running>>,
         authorized' \subseteq authorized, commands' \in Nat, faults' \in Nat
  PROVE  Good
<1> "caller" \in Roles /\ {"Accept", "Hangup"} \subseteq Controls
  BY DEF Roles, Controls
<1> USE InvParts
<1>1. /\ wire' \in Wires
      /\ \A c \in Calls : Has(wire'[c]["caller"], "Accept") => Has(wire[c]["caller"], "Accept")
  BY NotifiedAdds DEF NetworkType
<1>2. NetworkType'
  BY <1>1, TerminateLink DEF NetworkType
<1>3. Quiet
  BY <1>1 DEF Quiet
<1> QED BY <1>2, <1>3, TerminateLink, EndingGood DEF Outcomes

\* A hangup ends the call at one end.
LEMMA HangUpGood ==
  ASSUME Inv, NEW d \in Calls, NEW q \in Roles, HangUp(<<d, q>>)
  PROVE  Good
<1> USE InvParts
<1>1. commands' \in Nat /\ faults' \in Nat
  BY DEF HangUp, Command, NetworkType
<1>2. /\ Terminate({<<d, q>>}, "Ended") /\ wire' = Notified({<<d, q>>})
      /\ session[d][q] # "None"
      /\ UNCHANGED <<ends, offering, arriving, task, running, authorized>>
  BY DEF HangUp, Command
<1>3. /\ {<<d, q>>} \in SUBSET (Calls \X Roles)
      /\ \A e \in {<<d, q>>} : session[e[1]][e[2]] # "None"
  BY <1>2
<1>4. authorized' \subseteq authorized
  BY <1>2
<1> QED BY <1>1, <1>2, <1>3, <1>4, NotifiedGood

\* A timeout ends the call at the caller.
LEMMA NegotiationTimeoutGood ==
  ASSUME Inv, NEW d \in Calls, NegotiationTimeout(d)
  PROVE  Good
<1> USE InvParts
<1>1. commands' \in Nat /\ faults' \in Nat /\ "caller" \in Roles
  BY DEF NegotiationTimeout, NetworkType, Roles
<1> QED BY <1>1, NotifiedGood DEF NegotiationTimeout

\* A revocation ends every call with the peer.
LEMMA RevokePeerGood ==
  ASSUME Inv, NEW n \in Nodes, NEW p \in Nodes, RevokePeer(n, p)
  PROVE  Good
<1> USE InvParts
<1>1. commands' \in Nat /\ faults' \in Nat
  BY DEF RevokePeer, Fault, NetworkType
<1>2. /\ WithPeer(n, p) \in SUBSET (Calls \X Roles)
      /\ \A e \in WithPeer(n, p) : session[e[1]][e[2]] # "None"
  BY DEF WithPeer, Entries
<1> QED BY <1>1, <1>2, NotifiedGood DEF RevokePeer, Fault

\* A shutdown ends every call of the node.
LEMMA ShutdownGood ==
  ASSUME Inv, NEW n \in Nodes, Shutdown(n)
  PROVE  Good
<1> USE InvParts
<1>1. /\ Entries(n) \in SUBSET (Calls \X Roles)
      /\ \A e \in Entries(n) : session[e[1]][e[2]] # "None"
  BY DEF Entries
<1>2. NetworkType'
  BY DEF Shutdown, Fault, NetworkType
<1>3. Quiet
  BY DEF Shutdown, Fault, Quiet
<1> QED BY <1>1, <1>2, <1>3, EndingGood DEF Shutdown, Outcomes

\* A lost connection changes no table.
LEMMA LoseConnectionGood ==
  ASSUME Inv, NEW d \in Calls, LoseConnection(d)
  PROVE  Good
<1> USE InvParts
<1>1. NetworkType'
  BY DEF LoseConnection, Fault, NetworkType
<1>2. Quiet /\ UNCHANGED <<session, terminals>>
  BY DEF LoseConnection, Fault, Quiet, sessions
<1> QED BY <1>1, <1>2, IdleGood, InvPartsNext DEF Good

\* An accepted connection changes no table.
LEMMA AcceptConnectionGood ==
  ASSUME Inv, NEW d \in Calls, AcceptConnection(d)
  PROVE  Good
<1> USE InvParts
<1>1. NetworkType'
  BY DEF AcceptConnection, NetworkType, Roles
<1>2. Quiet /\ UNCHANGED <<session, terminals>>
  BY DEF AcceptConnection, Quiet, sessions
<1> QED BY <1>1, <1>2, IdleGood, InvPartsNext DEF Good

\* The end of a connection ends every call with the peer.
LEMMA NoticeClosedGood ==
  ASSUME Inv, NEW d \in Calls, NEW q \in Roles, NoticeClosed(d, q)
  PROVE  Good
<1> "caller" \in Roles
  BY DEF Roles
<1> USE InvParts
<1> DEFINE E == WithPeer(ends[d][q], ends[d][Other(q)])
<1>1. E \in SUBSET (Calls \X Roles) /\ \A e \in E : session[e[1]][e[2]] # "None"
  BY DEF WithPeer, Entries
<1>2. Terminate(E, "Ended") /\ wire' = [wire EXCEPT ![d][q] = <<>>]
  BY DEF NoticeClosed
<1>3. /\ wire' \in Wires
      /\ \A c \in Calls : Has(wire'[c]["caller"], "Accept") => Has(wire[c]["caller"], "Accept")
  <2>1. <<>> \in Seq(Controls) /\ ~Has(<<>>, "Accept")
    BY DEF Has
  <2>2. wire \in Wires
    BY DEF NetworkType
  <2>3. /\ wire' \in Wires /\ wire'[d][q] = <<>>
        /\ \A c \in Calls, r \in Roles : c # d \/ r # q => wire'[c][r] = wire[c][r]
    BY <1>2, <2>1, <2>2, Update DEF Wires
  <2> QED BY <2>1, <2>3
<1>4. NetworkType'
  <2>1. task' \in [Calls -> SUBSET Roles]
    BY DEF NoticeClosed, NetworkType
  <2>2. /\ UNCHANGED <<ends, arriving, authorized, running, commands, faults>>
        /\ offering' \subseteq offering
    BY DEF NoticeClosed
  <2>3. link' \in [Calls -> {"none", "open", "closed"}]
    BY <1>2, TerminateLink
  <2> QED BY <1>3, <2>1, <2>2, <2>3 DEF NetworkType
<1>5. Quiet
  BY <1>3 DEF Quiet, NoticeClosed
<1> HIDE DEF E
<1> QED BY <1>1, <1>2, <1>4, <1>5, TerminateLink, EndingGood DEF Outcomes

\* Reading a message takes it from the stream.
LEMMA ReadTakes ==
  ASSUME Inv, NEW d \in Calls, NEW q \in Roles, NEW m \in Controls, Read(<<d, q>>, m)
  PROVE  /\ wire' \in Wires
         /\ \A c \in Calls : Has(wire'[c]["caller"], "Accept") => Has(wire[c]["caller"], "Accept")
         /\ Has(wire[d][q], m)
         /\ UNCHANGED <<ends, arriving, offering, task, authorized, running, commands, faults>>
<1> "caller" \in Roles
  BY DEF Roles
<1>1. /\ wire[d][q] # <<>> /\ Head(wire[d][q]) = m
      /\ wire' = [wire EXCEPT ![d][q] = Tail(wire[d][q])]
      /\ UNCHANGED <<ends, arriving, offering, task, authorized, running, commands, faults>>
  BY DEF Read
<1>2. wire \in Wires /\ wire[d][q] \in Seq(Controls)
  BY DEF Inv, TypeOK, Wires
<1>3. Tail(wire[d][q]) \in Seq(Controls)
  BY <1>1, <1>2
<1>4. /\ wire' \in Wires /\ wire'[d][q] = Tail(wire[d][q])
      /\ \A c \in Calls, r \in Roles : c # d \/ r # q => wire'[c][r] = wire[c][r]
  BY <1>1, <1>2, <1>3, Update DEF Wires
<1>5. ASSUME NEW c \in Calls, Has(wire'[c]["caller"], "Accept")
      PROVE  Has(wire[c]["caller"], "Accept")
  <2>1. CASE c = d /\ q = "caller"
    BY <1>1, <1>2, <1>4, <1>5, <2>1, HasTail
  <2>2. CASE ~(c = d /\ q = "caller")
    BY <1>4, <1>5, <2>2
  <2> QED BY <2>1, <2>2
<1>6. Has(wire[d][q], m)
  BY <1>1, <1>2 DEF Has
<1> QED BY <1>1, <1>4, <1>5, <1>6

\* An Accept connects the end, which waited for it, or changes nothing.
LEMMA ReceiveAcceptGood ==
  ASSUME Inv, NEW d \in Calls, NEW q \in Roles, ReceiveAccept(<<d, q>>)
  PROVE  Good
<1> USE InvParts
<1>1. /\ wire' \in Wires
      /\ \A c \in Calls : Has(wire'[c]["caller"], "Accept") => Has(wire[c]["caller"], "Accept")
      /\ Has(wire[d][q], "Accept")
      /\ UNCHANGED <<ends, arriving, offering, task, authorized, running, commands, faults>>
  BY ReadTakes DEF ReceiveAccept, Controls
<1>2. NetworkType'
  BY <1>1 DEF ReceiveAccept, NetworkType
<1>3. CASE session[d][q] = "None"
  <2>1. Quiet /\ UNCHANGED <<session, terminals>>
    BY <1>1, <1>3 DEF ReceiveAccept, Quiet
  <2> QED BY <1>2, <2>1, IdleGood, InvPartsNext DEF Good
<1>4. CASE session[d][q] # "None"
  <2>1. SetSession(<<d, q>>, "Active") /\ UNCHANGED terminals
    BY <1>4 DEF ReceiveAccept
  <2>2. SessionInv' /\ [Lifecycle!Next]_Phases
    BY <1>1, <1>4, <2>1, TakeGood
  <2> QED BY <1>2, <2>2, InvPartsNext DEF Good
<1> QED BY <1>3, <1>4

\* A refusal or a hangup ends the call at the end that reads it.
LEMMA ReceiveEndGood ==
  ASSUME Inv, NEW d \in Calls, NEW q \in Roles, NEW m \in Controls, NEW o \in Outcomes,
         ReceiveEnd(<<d, q>>, m, o)
  PROVE  Good
<1> USE InvParts
<1> DEFINE E == IF session[d][q] = "None" THEN {} ELSE {<<d, q>>}
<1>1. /\ wire' \in Wires
      /\ \A c \in Calls : Has(wire'[c]["caller"], "Accept") => Has(wire[c]["caller"], "Accept")
      /\ UNCHANGED <<ends, arriving, offering, task, authorized, running, commands, faults>>
  BY ReadTakes DEF ReceiveEnd
<1>2. Terminate(E, o)
  BY DEF ReceiveEnd
<1>3. E \in SUBSET (Calls \X Roles) /\ \A e \in E : session[e[1]][e[2]] # "None"
  OBVIOUS
<1> HIDE DEF E
<1>4. NetworkType'
  BY <1>1, <1>2, TerminateLink DEF NetworkType
<1>5. Quiet
  BY <1>1 DEF Quiet
<1> QED BY <1>2, <1>3, <1>4, <1>5, TerminateLink, EndingGood

\* An offer is refused, or begins at the callee.
LEMMA ReceiveOfferGood ==
  ASSUME Inv, NEW d \in Calls, ReceiveOffer(d)
  PROVE  Good
<1> "caller" \in Roles /\ "callee" \in Roles /\ {"Accept", "Busy"} \subseteq Controls
  BY DEF Roles, Controls
<1> USE InvParts
<1> DEFINE busy == Send(wire, <<d, "callee">>, "Busy")
           twice == Send(busy, <<d, "callee">>, "Busy")
           Adds(w) == /\ w \in Wires
                      /\ \A c \in Calls : Has(w[c]["caller"], "Accept") =>
                                            Has(wire[c]["caller"], "Accept")
<1>1. Adds(wire)
  BY DEF NetworkType
<1>2. Adds(busy)
  BY <1>1, SendAdds
<1>3. Adds(twice)
  <2> HIDE DEF busy
  <2>1. \A c \in Calls : Has(twice[c]["caller"], "Accept") => Has(busy[c]["caller"], "Accept")
    BY <1>2, SendAdds
  <2>2. twice \in Wires
    BY <1>2, SendAdds
  <2> QED BY <1>2, <2>1, <2>2
<1>4. /\ d \in offering /\ offering' = offering \ {d}
      /\ UNCHANGED <<ends, terminals, link, arriving, task, authorized, running, commands,
                     faults>>
      /\ wire' \in {wire, busy, twice}
      /\ UNCHANGED session \/ SetSession(<<d, "callee">>, "Ringing")
  BY DEF ReceiveOffer
<1>5. Adds(wire')
  <2> HIDE DEF busy, twice, Adds
  <2> QED BY <1>1, <1>2, <1>3, <1>4
<1>6. NetworkType'
  BY <1>4, <1>5 DEF NetworkType
<1>7. CASE UNCHANGED session
  <2>1. Quiet
    BY <1>4, <1>5 DEF Quiet
  <2> QED BY <1>4, <1>6, <1>7, <2>1, IdleGood, InvPartsNext DEF Good
<1>8. CASE SetSession(<<d, "callee">>, "Ringing")
  <2>1. SessionInv' /\ [Lifecycle!Next]_Phases
    BY <1>4, <1>5, <1>8, RingGood
  <2> QED BY <1>6, <2>1, InvPartsNext DEF Good
<1> QED BY <1>4, <1>7, <1>8

(***************************************************************************)
(* The two ends of a call.                                                 *)
(***************************************************************************)
\* What the ends of a call with an open connection know of each other: where
\* they differ, the message that brings them together is under way.
OpenCall(c) ==
  LET caller == session[c]["caller"]
      callee == session[c]["callee"]
  IN /\ terminals[c]["callee"] = <<>>
     /\ \/ /\ caller = "Offered" /\ callee = "None"
           /\ c \in offering \/ Has(wire[c]["caller"], "Busy")
        \/ caller = "Offered" /\ callee = "Ringing"
        \/ caller = "Offered" /\ callee = "Active" /\ Has(wire[c]["caller"], "Accept")
        \/ caller = "Active" /\ callee = "Active"

\* A call without a connection is in no table, and a live end has a task, which
\* notices when the connection closes.
Ends(c) ==
  /\ link[c] = "none" => c \notin offering /\ \A r \in Roles : session[c][r] = "None"
  /\ link[c] = "open" => OpenCall(c)
  /\ \A r \in Roles : session[c][r] # "None" => r \in task[c]

EndsInv == \A c \in Calls : Ends(c)

OnlyCalleesAccept == \A c \in Calls : ~Has(wire[c]["callee"], "Accept")

\* A message that is appended is in the stream, with all that was.
LEMMA AppendKeeps ==
  ASSUME NEW s \in Seq(Controls), NEW m \in Controls
  PROVE  /\ Has(Append(s, m), m)
         /\ \A k : Has(s, k) => Has(Append(s, m), k)
<1>1. /\ Append(s, m) \in Seq(Controls) /\ Len(s) \in Nat
      /\ Len(Append(s, m)) = Len(s) + 1 /\ Append(s, m)[Len(s) + 1] = m
      /\ \A i \in 1..Len(s) : Append(s, m)[i] = s[i]
  OBVIOUS
<1>2. Has(Append(s, m), m)
  BY <1>1 DEF Has
<1>3. ASSUME NEW k, Has(s, k) PROVE Has(Append(s, m), k)
  BY <1>1, <1>3 DEF Has
<1> QED BY <1>2, <1>3

\* Reading a message takes no other from the stream.
LEMMA TailKeeps ==
  ASSUME NEW s \in Seq(Controls), s # <<>>, NEW k, Has(s, k), Head(s) # k
  PROVE  Has(Tail(s), k)
<1>1. PICK i \in 1..Len(s) : s[i] = k
  BY DEF Has
<1>2. i # 1 /\ Len(s) \in Nat /\ Len(Tail(s)) = Len(s) - 1
  BY <1>1
<1>3. i - 1 \in 1..Len(Tail(s)) /\ Tail(s)[i - 1] = s[i]
  BY <1>1, <1>2
<1> QED BY <1>1, <1>3 DEF Has

\* What is sent over an open connection arrives behind all that was sent before.
LEMMA SendKeeps ==
  ASSUME NEW w \in Wires, NEW d \in Calls, NEW m \in Controls
  PROVE  LET v == Send(w, <<d, "callee">>, m)
         IN /\ \A c \in Calls, k \in Controls :
                 Has(w[c]["caller"], k) => Has(v[c]["caller"], k)
            /\ link[d] = "open" => Has(v[d]["caller"], m)
<1> "caller" \in Roles /\ Other("callee") = "caller"
  BY DEF Roles, Other
<1>1. CASE link[d] = "open"
  <2> DEFINE v == [w EXCEPT ![d]["caller"] = Append(w[d]["caller"], m)]
  <2>1. Send(w, <<d, "callee">>, m) = v
    BY <1>1 DEF Send
  <2>2. w[d]["caller"] \in Seq(Controls) /\ Append(w[d]["caller"], m) \in Seq(Controls)
    BY DEF Wires
  <2>3. /\ v[d]["caller"] = Append(w[d]["caller"], m)
        /\ \A c \in Calls : c # d => v[c]["caller"] = w[c]["caller"]
    BY <2>2, Update DEF Wires
  <2> HIDE DEF v
  <2>4. /\ Has(v[d]["caller"], m)
        /\ \A k : Has(w[d]["caller"], k) => Has(v[d]["caller"], k)
    BY <2>2, <2>3, AppendKeeps
  <2>5. \A c \in Calls, k \in Controls : Has(w[c]["caller"], k) => Has(v[c]["caller"], k)
    <3> SUFFICES ASSUME NEW c \in Calls PROVE \A k \in Controls :
                          Has(w[c]["caller"], k) => Has(v[c]["caller"], k)
      OBVIOUS
    <3>1. CASE c = d
      BY <2>4, <3>1
    <3>2. CASE c # d
      BY <2>3, <3>2
    <3> QED BY <3>1, <3>2
  <2> QED BY <2>1, <2>4, <2>5
<1>2. CASE link[d] # "open"
  BY <1>2 DEF Send
<1> QED BY <1>1, <1>2

\* A call stays as it is when a step leaves its ends and its connection alone and
\* takes no answer from the caller's stream.
LEMMA UntouchedCall ==
  ASSUME NEW c \in Calls, Ends(c), \A r \in Roles : Same(c, r), link'[c] = link[c],
         c \in offering' <=> c \in offering, task[c] \subseteq task'[c],
         link[c] = "open" => \A k \in {"Busy", "Accept"} :
           Has(wire[c]["caller"], k) => Has(wire'[c]["caller"], k)
  PROVE  Ends(c)'
<1> "caller" \in Roles /\ "callee" \in Roles
  BY DEF Roles
<1>1. link[c] = "open" /\ OpenCall(c) => OpenCall(c)'
  BY DEF OpenCall, Same
<1>2. \A r \in Roles : session'[c][r] # "None" => r \in task'[c]
  BY DEF Ends, Same
<1>3. link'[c] = "none" => c \notin offering' /\ \A r \in Roles : session'[c][r] = "None"
  BY DEF Ends, Same
<1> QED BY <1>1, <1>2, <1>3 DEF Ends

\* A call whose connection is closed is as it should be when its live ends have
\* their tasks.
LEMMA ClosedCall ==
  ASSUME NEW c \in Calls, link'[c] = "closed",
         \A r \in Roles : session'[c][r] # "None" => r \in task'[c]
  PROVE  Ends(c)'
BY DEF Ends

\* A termination closes a call, or leaves it alone.
LEMMA TerminatedOrNot ==
  ASSUME NEW E, NEW o, Terminate(E, o), NEW c \in Calls
  PROVE  \/ /\ link'[c] = "closed"
            /\ \A r \in Roles : session'[c][r] # "None" => session'[c][r] = session[c][r]
            /\ \A r \in Roles : <<c, r>> \in E => session'[c][r] = "None"
         \/ /\ link'[c] = link[c] /\ \A r \in Roles : Same(c, r)
            /\ \A r \in Roles : <<c, r>> \notin E
<1>1. \A r \in Roles :
        IF <<c, r>> \in E THEN session'[c][r] = "None" ELSE Same(c, r)
  BY DEF Terminate, Remove, Same
<1>2. link'[c] = IF \E r \in Roles : <<c, r>> \in E THEN "closed" ELSE link[c]
  BY DEF Terminate
<1> QED BY <1>1, <1>2 DEF Same

\* Ends that leave the tables, while no answer to a call that goes on is lost.
LEMMA EndingKeepsEnds ==
  ASSUME EndsInv, NEW E, NEW o, Terminate(E, o), UNCHANGED <<offering, task>>,
         \A c \in Calls, k \in {"Busy", "Accept"} :
           link[c] = "open" /\ (\A r \in Roles : <<c, r>> \notin E) =>
              (Has(wire[c]["caller"], k) => Has(wire'[c]["caller"], k))
  PROVE  EndsInv'
<1> SUFFICES ASSUME NEW c \in Calls PROVE Ends(c)'
  BY DEF EndsInv
<1>1. Ends(c)
  BY DEF EndsInv
<1>2. CASE link'[c] = "closed" /\
           \A r \in Roles : session'[c][r] # "None" => session'[c][r] = session[c][r]
  BY <1>1, <1>2, ClosedCall DEF Ends
<1>3. CASE /\ link'[c] = link[c] /\ \A r \in Roles : Same(c, r)
           /\ \A r \in Roles : <<c, r>> \notin E
  BY <1>1, <1>3, UntouchedCall
<1> QED BY <1>2, <1>3, TerminatedOrNot

\* Notifications are added to what was sent before.
LEMMA NotifiedKeeps ==
  ASSUME wire \in Wires, NEW E, NEW c \in Calls, NEW k, Has(wire[c]["caller"], k)
  PROVE  Has(Notified(E)[c]["caller"], k)
<1> "caller" \in Roles /\ "Hangup" \in Controls
  BY DEF Roles, Controls
<1>1. \/ Notified(E)[c]["caller"] = wire[c]["caller"]
      \/ Notified(E)[c]["caller"] = Append(wire[c]["caller"], "Hangup")
  BY DEF Notified
<1>2. wire[c]["caller"] \in Seq(Controls)
  BY DEF Wires
<1> QED BY <1>1, <1>2, AppendKeeps

\* An attempt that is refused has no connection, one that is not has one.
LEMMA StartEnds ==
  ASSUME Inv, EndsInv, NEW n, NEW p, NEW d \in Calls, Start(n, p, d)
  PROVE  EndsInv'
<1> "caller" \in Roles /\ "callee" \in Roles
  BY DEF Roles
<1>0. /\ d \notin offering
      /\ \A r \in Roles : session[d][r] = "None" /\ terminals[d][r] = <<>>
  BY DEF Start, Inv, Unstarted
<1>1. ASSUME NEW o, Refused(d, o) PROVE EndsInv'
  <2>1. UNCHANGED <<session, link, arriving, offering, wire, task>>
    BY <1>1 DEF Refused, network
  <2>2. \A c \in Calls : terminals'[c]["callee"] = terminals[c]["callee"]
    <3>1. terminals' = [terminals EXCEPT ![d]["caller"] = Append(terminals[d]["caller"], o)]
      BY <1>1 DEF Refused
    <3>2. terminals \in [Calls -> [Roles -> Seq(Outcomes)]]
      BY DEF Inv, TypeOK
    <3> QED BY <3>1, <3>2
  <2>3. ASSUME NEW c \in Calls PROVE Ends(c)'
    <3>1. Ends(c)
      BY DEF EndsInv
    <3>2. OpenCall(c) => OpenCall(c)'
      BY <2>1, <2>2 DEF OpenCall
    <3> QED BY <2>1, <3>1, <3>2 DEF Ends
  <2> QED BY <2>3 DEF EndsInv
<1>2. ASSUME SetSession(<<d, "caller">>, "Offered"),
             link' = [link EXCEPT ![d] = "open"],
             offering' = offering \cup {d}, task' = [task EXCEPT ![d] = {"caller"}],
             UNCHANGED <<terminals, wire>>
      PROVE  EndsInv'
  <2>1. /\ session'[d]["caller"] = "Offered" /\ session'[d]["callee"] = "None"
        /\ \A c \in Calls \ {d}, r \in Roles : Same(c, r)
    <3>1. session' = [session EXCEPT ![d]["caller"] = "Offered"]
      BY <1>2 DEF SetSession
    <3>2. session \in [Calls -> [Roles -> States]] /\ "Offered" \in States
      BY DEF Inv, TypeOK, States, Pending
    <3> QED BY <1>0, <1>2, <3>1, <3>2, Update DEF Same
  <2>2. /\ link'[d] = "open" /\ task'[d] = {"caller"}
        /\ \A c \in Calls \ {d} : link'[c] = link[c] /\ task'[c] = task[c]
    BY <1>2 DEF Inv, TypeOK
  <2>3. Ends(d)'
    <3>1. OpenCall(d)'
      BY <1>0, <1>2, <2>1 DEF OpenCall
    <3>2. \A r \in Roles : session'[d][r] # "None" => r \in task'[d]
      BY <2>1, <2>2 DEF Roles
    <3> QED BY <2>2, <3>1, <3>2 DEF Ends
  <2>4. ASSUME NEW c \in Calls \ {d} PROVE Ends(c)'
    BY <1>2, <2>1, <2>2, UntouchedCall DEF EndsInv
  <2> QED BY <2>3, <2>4 DEF EndsInv
<1> QED BY <1>1, <1>2 DEF Start

\* A callee that takes the call over an open connection tells the caller.
LEMMA AcceptCallEnds ==
  ASSUME Inv, EndsInv, NEW d \in Calls, AcceptCall(d)
  PROVE  EndsInv'
<1> "caller" \in Roles /\ "callee" \in Roles /\ {"Busy", "Accept"} \subseteq Controls
  BY DEF Roles, Controls
<1>1. /\ session[d]["callee"] # "None"
      /\ session' = [session EXCEPT ![d]["callee"] = "Active"]
      /\ wire' = Send(wire, <<d, "callee">>, "Accept")
      /\ UNCHANGED <<terminals, link, offering, task>>
  BY DEF AcceptCall, Command, SetSession
<1>2. /\ session'[d]["callee"] = "Active"
      /\ \A c \in Calls, r \in Roles : c # d \/ r # "callee" => Same(c, r)
  <2>1. session \in [Calls -> [Roles -> States]] /\ "Active" \in States
    BY DEF Inv, TypeOK, States
  <2> QED BY <1>1, <2>1, Update DEF Same
<1>3. /\ \A c \in Calls, k \in Controls :
           Has(wire[c]["caller"], k) => Has(wire'[c]["caller"], k)
      /\ link[d] = "open" => Has(wire'[d]["caller"], "Accept")
  <2>1. wire \in Wires
    BY DEF Inv, TypeOK, Wires
  <2> QED BY <1>1, <2>1, SendKeeps
<1>4. ASSUME NEW c \in Calls \ {d} PROVE Ends(c)'
  BY <1>1, <1>2, <1>3, UntouchedCall DEF EndsInv
<1>5. Ends(d)'
  <2>1. Ends(d)
    BY DEF EndsInv
  <2>2. link[d] = "open" => OpenCall(d)'
    BY <1>1, <1>2, <1>3, <2>1 DEF Ends, OpenCall, Same
  <2>3. \A r \in Roles : session'[d][r] # "None" => r \in task'[d]
    BY <1>1, <1>2, <2>1 DEF Ends, Same
  <2>4. link[d] # "none"
    BY <1>1, <2>1 DEF Ends
  <2> QED BY <1>1, <2>2, <2>3, <2>4 DEF Ends
<1> QED BY <1>4, <1>5 DEF EndsInv

\* A callee that declines closes the connection.
LEMMA RejectCallEnds ==
  ASSUME Inv, EndsInv, NEW d \in Calls, RejectCall(d)
  PROVE  EndsInv'
<1>1. /\ Terminate({<<d, "callee">>}, "Ended") /\ UNCHANGED <<offering, task>>
      /\ wire' = Send(wire, <<d, "callee">>, "Reject")
  BY DEF RejectCall, Command
<1>2. wire \in Wires /\ {"Busy", "Accept", "Reject"} \subseteq Controls
  BY DEF Inv, TypeOK, Wires, Controls
<1>3. \A c \in Calls, k \in {"Busy", "Accept"} :
        Has(wire[c]["caller"], k) => Has(wire'[c]["caller"], k)
  BY <1>1, <1>2, SendKeeps
<1> QED BY <1>1, <1>3, EndingKeepsEnds

\* The ends that hang up close their connections.
LEMMA NotifiedEnds ==
  ASSUME Inv, EndsInv, NEW E, Terminate(E, "Ended"), wire' = Notified(E),
         UNCHANGED <<offering, task>>
  PROVE  EndsInv'
<1>1. wire \in Wires
  BY DEF Inv, TypeOK, Wires
<1>2. \A c \in Calls, k \in {"Busy", "Accept"} :
        Has(wire[c]["caller"], k) => Has(wire'[c]["caller"], k)
  BY <1>1, NotifiedKeeps
<1> QED BY <1>2, EndingKeepsEnds

\* A connection is taken by a task of the callee, or refused and closed.
LEMMA AcceptConnectionEnds ==
  ASSUME Inv, EndsInv, NEW d \in Calls, AcceptConnection(d)
  PROVE  EndsInv'
<1>1. UNCHANGED <<session, terminals, wire>>
  BY DEF AcceptConnection, sessions
<1>2. link \in [Calls -> {"none", "open", "closed"}] /\ task \in [Calls -> SUBSET Roles]
  BY DEF Inv, TypeOK
<1>3. \A c \in Calls, r \in Roles : Same(c, r)
  BY <1>1 DEF Same
<1>4. CASE task' = [task EXCEPT ![d] = task[d] \cup {"callee"}] /\ UNCHANGED <<link, offering>>
  <2>1. \A c \in Calls : task[c] \subseteq task'[c]
    BY <1>2, <1>4
  <2> QED BY <1>1, <1>3, <1>4, <2>1, UntouchedCall DEF EndsInv
<1>5. CASE link' = [link EXCEPT ![d] = "closed"] /\ offering' = offering \ {d} /\ UNCHANGED task
  <2>1. link'[d] = "closed" /\ \A c \in Calls \ {d} : link'[c] = link[c]
    BY <1>2, <1>5
  <2>2. Ends(d)'
    BY <1>1, <1>5, <2>1, ClosedCall DEF EndsInv, Ends
  <2>3. ASSUME NEW c \in Calls \ {d} PROVE Ends(c)'
    BY <1>1, <1>3, <1>5, <2>1, UntouchedCall DEF EndsInv
  <2> QED BY <2>2, <2>3 DEF EndsInv
<1> QED BY <1>4, <1>5 DEF AcceptConnection

\* An offer rings, or the caller is told that the callee is busy.
LEMMA ReceiveOfferEnds ==
  ASSUME Inv, EndsInv, NEW d \in Calls, ReceiveOffer(d)
  PROVE  EndsInv'
<1> "caller" \in Roles /\ "callee" \in Roles /\ {"Busy", "Accept"} \subseteq Controls
  BY DEF Roles, Controls
<1> DEFINE busy == Send(wire, <<d, "callee">>, "Busy")
           twice == Send(busy, <<d, "callee">>, "Busy")
           Keeps(w) == \A c \in Calls, k \in {"Busy", "Accept"} :
                         Has(wire[c]["caller"], k) => Has(w[c]["caller"], k)
           Tells(w) == link[d] = "open" => Has(w[d]["caller"], "Busy")
<1>1. /\ d \in offering /\ "callee" \in task[d] /\ offering' = offering \ {d}
      /\ UNCHANGED <<terminals, link, task>>
      /\ \/ wire' \in {busy, twice} /\ UNCHANGED session
         \/ wire' \in {wire, busy} /\ SetSession(<<d, "callee">>, "Ringing")
  BY DEF ReceiveOffer
<1>2. wire \in Wires /\ busy \in Wires
  <2>1. wire \in Wires
    BY DEF Inv, TypeOK, Wires
  <2> QED BY <2>1, SendAdds
<1>3. Keeps(busy) /\ Tells(busy) /\ Keeps(wire)
  BY <1>2, SendKeeps
<1>4. Keeps(twice) /\ Tells(twice)
  <2> HIDE DEF busy
  <2> QED BY <1>2, <1>3, SendKeeps
<1> HIDE DEF busy, twice, Keeps, Tells
<1>5. Keeps(wire') /\ (UNCHANGED session => Tells(wire') \/ SetSession(<<d, "callee">>, "Ringing"))
  BY <1>1, <1>3, <1>4
<1>6. ASSUME NEW c \in Calls \ {d}, \A r \in Roles : session'[c][r] = session[c][r]
      PROVE  Ends(c)'
  BY <1>1, <1>5, <1>6, UntouchedCall DEF EndsInv, Same, Keeps
<1>7. session[d]["callee"] = "None" /\ terminals[d]["callee"] = <<>>
  BY <1>1 DEF Inv, OffersAreNew
<1>8. link[d] # "none" /\ Ends(d) /\ (link[d] = "open" => OpenCall(d))
  BY <1>1 DEF EndsInv, Ends
<1>9. CASE wire' \in {busy, twice} /\ UNCHANGED session
  <2>1. Tells(wire')
    BY <1>3, <1>4, <1>9
  <2>2. link[d] = "open" => OpenCall(d)'
    BY <1>1, <1>7, <1>8, <1>9, <2>1 DEF OpenCall, Tells
  <2>3. Ends(d)'
    BY <1>1, <1>8, <1>9, <2>2 DEF Ends
  <2> QED BY <1>6, <1>9, <2>3 DEF EndsInv
<1>10. CASE SetSession(<<d, "callee">>, "Ringing")
  <2>1. /\ session'[d]["callee"] = "Ringing"
        /\ \A c \in Calls, r \in Roles :
             c # d \/ r # "callee" => session'[c][r] = session[c][r]
    <3>1. session \in [Calls -> [Roles -> States]] /\ "Ringing" \in States
      BY DEF Inv, TypeOK, States, Pending
    <3> QED BY <1>10, <3>1, Update DEF SetSession
  <2>2. link[d] = "open" => OpenCall(d)'
    BY <1>1, <1>7, <1>8, <2>1 DEF OpenCall
  <2>3. \A r \in Roles : session'[d][r] # "None" => r \in task'[d]
    BY <1>1, <1>8, <2>1 DEF Ends
  <2>4. Ends(d)'
    BY <1>1, <1>8, <2>2, <2>3 DEF Ends
  <2> QED BY <1>6, <2>1, <2>4 DEF EndsInv
<1> QED BY <1>1, <1>9, <1>10

\* Reading a message leaves the others where they are.
LEMMA ReadKeeps ==
  ASSUME Inv, NEW d \in Calls, NEW q \in Roles, NEW m, Read(<<d, q>>, m)
  PROVE  /\ UNCHANGED <<offering, task>>
         /\ \A c \in Calls, k \in Controls :
              /\ Has(wire[c]["caller"], k)
              /\ c # d \/ q # "caller" \/ m # k
              => Has(wire'[c]["caller"], k)
<1> "caller" \in Roles
  BY DEF Roles
<1>1. /\ wire[d][q] # <<>> /\ Head(wire[d][q]) = m
      /\ wire' = [wire EXCEPT ![d][q] = Tail(wire[d][q])]
      /\ UNCHANGED <<offering, task>>
  BY DEF Read
<1>2. wire \in Wires /\ wire[d][q] \in Seq(Controls)
  BY DEF Inv, TypeOK, Wires
<1>3. Tail(wire[d][q]) \in Seq(Controls)
  BY <1>1, <1>2
<1>4. /\ wire'[d][q] = Tail(wire[d][q])
      /\ \A c \in Calls, r \in Roles : c # d \/ r # q => wire'[c][r] = wire[c][r]
  BY <1>1, <1>2, <1>3, Update DEF Wires
<1>5. ASSUME NEW c \in Calls, NEW k \in Controls, Has(wire[c]["caller"], k),
             c # d \/ q # "caller" \/ m # k
      PROVE  Has(wire'[c]["caller"], k)
  <2>1. CASE c = d /\ q = "caller"
    BY <1>1, <1>2, <1>4, <1>5, <2>1, TailKeeps
  <2>2. CASE ~(c = d /\ q = "caller")
    BY <1>4, <1>5, <2>2
  <2> QED BY <2>1, <2>2
<1> QED BY <1>1, <1>5

\* A caller that reads Accept joins a callee that took the call.
LEMMA ReceiveAcceptEnds ==
  ASSUME Inv, EndsInv, OnlyCalleesAccept, NEW d \in Calls, NEW q \in Roles,
         ReceiveAccept(<<d, q>>)
  PROVE  EndsInv'
<1> "caller" \in Roles /\ "callee" \in Roles /\ {"Busy", "Accept"} \subseteq Controls
  BY DEF Roles, Controls
<1>0. q = "caller"
  <2>1. Has(wire[d][q], "Accept")
    BY ReadTakes DEF ReceiveAccept
  <2> QED BY <2>1 DEF OnlyCalleesAccept, Roles
<1>1. /\ UNCHANGED <<offering, task, terminals, link>>
      /\ Has(wire[d]["caller"], "Accept")
      /\ IF session[d]["caller"] = "None" THEN UNCHANGED session
         ELSE session' = [session EXCEPT ![d]["caller"] = "Active"]
      /\ \A c \in Calls, k \in {"Busy", "Accept"} :
           Has(wire[c]["caller"], k) /\ (c # d \/ "Accept" # k) => Has(wire'[c]["caller"], k)
  BY <1>0, ReadKeeps, ReadTakes DEF ReceiveAccept, SetSession
<1>2. session \in [Calls -> [Roles -> States]] /\ "Active" \in States
  BY DEF Inv, TypeOK, States
<1>3. /\ session'[d]["caller"] = IF session[d]["caller"] = "None" THEN "None" ELSE "Active"
      /\ \A c \in Calls, r \in Roles : c # d \/ r # "caller" => Same(c, r)
  BY <1>1, <1>2, Update DEF Same
<1>4. ASSUME NEW c \in Calls \ {d} PROVE Ends(c)'
  BY <1>1, <1>3, <1>4, UntouchedCall DEF EndsInv
<1>5. Ends(d)
  BY DEF EndsInv
<1>6. ASSUME link[d] = "open" PROVE OpenCall(d)'
  <2>1. OpenCall(d)
    BY <1>5, <1>6 DEF Ends
  <2>2. session[d]["callee"] = "Active" /\ session[d]["caller"] # "None"
    BY <1>1, <2>1 DEF Inv, AcceptedWasTaken, OpenCall
  <2> QED BY <1>1, <1>3, <2>1, <2>2 DEF OpenCall, Same
<1>7. \A r \in Roles : session'[d][r] # "None" => r \in task'[d]
  BY <1>1, <1>3, <1>5 DEF Ends, Same
<1>8. link'[d] = "none" => d \notin offering' /\ \A r \in Roles : session'[d][r] = "None"
  BY <1>1, <1>3, <1>5 DEF Ends, Same
<1>9. Ends(d)'
  BY <1>1, <1>6, <1>7, <1>8 DEF Ends
<1> QED BY <1>4, <1>9 DEF EndsInv

\* An end that reads that the call is over closes the connection.
LEMMA ReceiveEndEnds ==
  ASSUME Inv, EndsInv, NEW d \in Calls, NEW q \in Roles, NEW m \in Controls \ {"Accept"},
         NEW o, ReceiveEnd(<<d, q>>, m, o)
  PROVE  EndsInv'
<1> "caller" \in Roles /\ {"Busy", "Accept"} \subseteq Controls
  BY DEF Roles, Controls
<1> DEFINE E == IF session[d][q] = "None" THEN {} ELSE {<<d, q>>}
<1>1. Terminate(E, o) /\ Read(<<d, q>>, m)
  BY DEF ReceiveEnd
<1>2. /\ UNCHANGED <<offering, task>>
      /\ \A c \in Calls, k \in {"Busy", "Accept"} :
           Has(wire[c]["caller"], k) /\ (c # d \/ q # "caller") => Has(wire'[c]["caller"], k)
  BY <1>1, ReadKeeps
<1>3. ASSUME link[d] = "open", q = "caller" PROVE <<d, q>> \in E
  BY <1>3 DEF EndsInv, Ends, OpenCall
<1>4. \A c \in Calls, k \in {"Busy", "Accept"} :
        link[c] = "open" /\ (\A r \in Roles : <<c, r>> \notin E) =>
          (Has(wire[c]["caller"], k) => Has(wire'[c]["caller"], k))
  <2> HIDE DEF E
  <2> QED BY <1>2, <1>3
<1> HIDE DEF E
<1> QED BY <1>1, <1>2, <1>4, EndingKeepsEnds

\* An end that finds its connection closed leaves, and its other calls with the
\* peer are closed.
LEMMA NoticeClosedEnds ==
  ASSUME Inv, EndsInv, NEW d \in Calls, NEW q \in Roles, NoticeClosed(d, q)
  PROVE  EndsInv'
<1> "caller" \in Roles
  BY DEF Roles
<1> DEFINE E == WithPeer(ends[d][q], ends[d][Other(q)])
<1>1. /\ link[d] = "closed" /\ Terminate(E, "Ended")
      /\ task' = [task EXCEPT ![d] = task[d] \ {q}]
      /\ wire' = [wire EXCEPT ![d][q] = <<>>]
      /\ offering' \in {offering, offering \ {d}}
  BY DEF NoticeClosed
<1>2. session[d][q] # "None" => <<d, q>> \in E
  BY DEF WithPeer, Entries, PeerOf
<1>3. task'[d] = task[d] \ {q} /\ \A c \in Calls \ {d} : task'[c] = task[c]
  BY <1>1 DEF Inv, TypeOK
<1>4. \A c \in Calls \ {d} : wire'[c]["caller"] = wire[c]["caller"]
  BY <1>1 DEF Inv, TypeOK
<1> HIDE DEF E
<1>5. ASSUME NEW c \in Calls
      PROVE  \/ /\ link'[c] = "closed"
                /\ \A r \in Roles : session'[c][r] # "None" => session'[c][r] = session[c][r]
                /\ \A r \in Roles : <<c, r>> \in E => session'[c][r] = "None"
             \/ /\ link'[c] = link[c] /\ \A r \in Roles : Same(c, r)
                /\ \A r \in Roles : <<c, r>> \notin E
  BY <1>1, TerminatedOrNot
<1>6. ASSUME NEW c \in Calls \ {d} PROVE Ends(c)'
  <2>1. CASE link'[c] = "closed" /\
             \A r \in Roles : session'[c][r] # "None" => session'[c][r] = session[c][r]
    BY <1>3, <2>1, ClosedCall DEF EndsInv, Ends
  <2>2. CASE link'[c] = link[c] /\ \A r \in Roles : Same(c, r)
    BY <1>1, <1>3, <1>4, <2>2, UntouchedCall DEF EndsInv
  <2> QED BY <1>5, <2>1, <2>2
<1>7. Ends(d)'
  <2>1. link'[d] = "closed" /\ session'[d][q] = "None"
    BY <1>1, <1>2, <1>5 DEF Same
  <2>2. ASSUME NEW r \in Roles, session'[d][r] # "None" PROVE r \in task'[d]
    <3>1. session[d][r] # "None" /\ r # q
      BY <1>5, <2>1, <2>2 DEF Same
    <3> QED BY <1>3, <3>1 DEF EndsInv, Ends
  <2> QED BY <2>1, <2>2, ClosedCall
<1> QED BY <1>6, <1>7 DEF EndsInv

\* A lost connection is closed for both ends.
LEMMA LoseConnectionEnds ==
  ASSUME Inv, EndsInv, NEW d \in Calls, LoseConnection(d)
  PROVE  EndsInv'
<1>1. /\ link' = [link EXCEPT ![d] = "closed"]
      /\ UNCHANGED <<session, terminals, offering, wire, task>>
  BY DEF LoseConnection, sessions
<1>2. link'[d] = "closed" /\ \A c \in Calls \ {d} : link'[c] = link[c]
  BY <1>1 DEF Inv, TypeOK
<1>3. Ends(d)'
  BY <1>1, <1>2, ClosedCall DEF EndsInv, Ends
<1>4. ASSUME NEW c \in Calls \ {d} PROVE Ends(c)'
  BY <1>1, <1>2, UntouchedCall DEF EndsInv, Same
<1> QED BY <1>3, <1>4 DEF EndsInv

\* A node that stops takes its connections with it.
LEMMA ShutdownEnds ==
  ASSUME Inv, EndsInv, NEW n, Shutdown(n)
  PROVE  EndsInv'
<1> SUFFICES ASSUME NEW c \in Calls PROVE Ends(c)'
  BY DEF EndsInv
<1>0. Ends(c) /\ link[c] \in {"none", "open", "closed"}
  BY DEF EndsInv, Inv, TypeOK
<1>1. UNCHANGED <<offering, wire, task>> /\ Remove(Entries(n), "Ended")
  BY DEF Shutdown
<1>2. link'[c] = IF \E r \in Roles : ends[c][r] = n /\ link[c] = "open"
                 THEN "closed" ELSE link[c]
  BY DEF Shutdown
<1>3. \A r \in Roles : IF ends[c][r] = n /\ session[c][r] # "None"
                       THEN session'[c][r] = "None" ELSE Same(c, r)
  BY <1>1 DEF Remove, Entries, Same
<1>4. CASE link'[c] = "closed"
  BY <1>0, <1>1, <1>3, <1>4, ClosedCall DEF Ends, Same
<1>5. CASE link'[c] # "closed"
  <2>1. link'[c] = link[c]
    BY <1>2, <1>5
  <2>2. \A r \in Roles : Same(c, r)
    BY <1>0, <1>2, <1>3, <1>5 DEF Ends
  <2> QED BY <1>0, <1>1, <2>1, <2>2, UntouchedCall
<1> QED BY <1>4, <1>5

\* What a callee sends does not come back to a callee.
LEMMA CalleeSends ==
  ASSUME NEW w \in Wires, NEW d \in Calls, NEW m \in Controls
  PROVE  LET v == Send(w, <<d, "callee">>, m)
         IN /\ v \in Wires
            /\ \A c \in Calls : Has(v[c]["callee"], "Accept") => Has(w[c]["callee"], "Accept")
<1> DEFINE v == Send(w, <<d, "callee">>, m)
<1>1. "callee" \in Roles /\ Other("callee") # "callee" /\ "Accept" \in Controls
  BY DEF Roles, Other, Controls
<1>2. /\ v \in Wires
      /\ \A c \in Calls, r \in Roles, k \in Controls :
           Has(v[c][r], k) => Has(w[c][r], k) \/ (m = k /\ c = d /\ r = Other("callee"))
  BY <1>1, SendAdds
<1> HIDE DEF v
<1>3. ASSUME NEW c \in Calls, Has(v[c]["callee"], "Accept")
      PROVE  Has(w[c]["callee"], "Accept")
  BY <1>1, <1>2, <1>3
<1> QED BY <1>2, <1>3 DEF v

\* Nobody sends Accept to a callee.
LEMMA AcceptGoesToCallers ==
  ASSUME Inv, OnlyCalleesAccept, [Next]_vars
  PROVE  OnlyCalleesAccept'
<1> "caller" \in Roles /\ "callee" \in Roles /\ Controls = {"Accept", "Reject", "Busy", "Hangup"}
  BY DEF Roles, Controls
<1> DEFINE Clean(w) == \A c \in Calls : ~Has(w[c]["callee"], "Accept")
<1>0. wire \in Wires /\ Clean(wire)
  BY DEF Inv, TypeOK, Wires, OnlyCalleesAccept
<1>1. ASSUME NEW w \in Wires, Clean(w), NEW d \in Calls, NEW m \in Controls
      PROVE  Send(w, <<d, "callee">>, m) \in Wires /\ Clean(Send(w, <<d, "callee">>, m))
  BY <1>1, CalleeSends
<1>2. ASSUME NEW E PROVE Clean(Notified(E))
  BY <1>0, NotifiedAdds
<1>3. ASSUME NEW d \in Calls, NEW q \in Roles, NEW s \in Seq(Controls),
             \A k : Has(s, k) => Has(wire[d][q], k), wire' = [wire EXCEPT ![d][q] = s]
      PROVE  Clean(wire')
  <2>1. /\ wire'[d][q] = s
        /\ \A c \in Calls, r \in Roles : c # d \/ r # q => wire'[c][r] = wire[c][r]
    BY <1>0, <1>3, Update DEF Wires
  <2> QED BY <1>0, <1>3, <2>1
<1>4. ASSUME NEW d \in Calls, NEW q \in Roles, NEW m, Read(<<d, q>>, m)
      PROVE  Clean(wire')
  <2>1. wire[d][q] # <<>> /\ wire' = [wire EXCEPT ![d][q] = Tail(wire[d][q])]
    BY <1>4 DEF Read
  <2>2. wire[d][q] \in Seq(Controls) /\ Tail(wire[d][q]) \in Seq(Controls)
    BY <1>0, <2>1 DEF Wires
  <2> QED BY <1>3, <2>1, <2>2, HasTail
<1>5. ASSUME NEW d \in Calls, NEW q \in Roles, NoticeClosed(d, q)
      PROVE  Clean(wire')
  <2>1. wire' = [wire EXCEPT ![d][q] = <<>>] /\ <<>> \in Seq(Controls)
    BY <1>5 DEF NoticeClosed
  <2>2. \A k : ~Has(<<>>, k)
    BY DEF Has
  <2> QED BY <1>3, <2>1, <2>2
<1>6. ASSUME NEW d \in Calls, ReceiveOffer(d) PROVE Clean(wire')
  <2> DEFINE busy == Send(wire, <<d, "callee">>, "Busy")
  <2>1. wire' \in {wire, busy, Send(busy, <<d, "callee">>, "Busy")}
    BY <1>6 DEF ReceiveOffer
  <2>2. busy \in Wires /\ Clean(busy)
    BY <1>0, <1>1
  <2>3. Clean(Send(busy, <<d, "callee">>, "Busy"))
    <3> HIDE DEF busy
    <3> QED BY <1>1, <2>2
  <2> HIDE DEF busy, Clean
  <2> QED BY <1>0, <2>1, <2>2, <2>3
<1>7. ASSUME NEW d \in Calls, AcceptCall(d) \/ RejectCall(d) PROVE Clean(wire')
  <2>1. wire' \in {Send(wire, <<d, "callee">>, "Accept"), Send(wire, <<d, "callee">>, "Reject")}
    BY <1>7 DEF AcceptCall, RejectCall
  <2> HIDE DEF Clean
  <2> QED BY <1>0, <1>1, <2>1
<1>8. CASE System
  <2>1. PICK c \in Calls :
          \/ AcceptConnection(c) \/ ReceiveOffer(c) \/ NegotiationTimeout(c)
          \/ \E r \in Roles :
               \/ ReceiveAccept(<<c, r>>)
               \/ ReceiveEnd(<<c, r>>, "Reject", "Rejected")
               \/ ReceiveEnd(<<c, r>>, "Busy", "Busy")
               \/ ReceiveEnd(<<c, r>>, "Hangup", "Ended")
               \/ NoticeClosed(c, r)
    BY <1>8 DEF System
  <2>2. CASE AcceptConnection(c)
    BY <1>0, <2>2 DEF AcceptConnection, OnlyCalleesAccept
  <2>3. CASE ReceiveOffer(c)
    BY <1>6, <2>3 DEF OnlyCalleesAccept
  <2>4. CASE NegotiationTimeout(c)
    BY <1>2, <2>4 DEF NegotiationTimeout, OnlyCalleesAccept
  <2>5. ASSUME NEW r \in Roles,
               \/ ReceiveAccept(<<c, r>>)
               \/ ReceiveEnd(<<c, r>>, "Reject", "Rejected")
               \/ ReceiveEnd(<<c, r>>, "Busy", "Busy")
               \/ ReceiveEnd(<<c, r>>, "Hangup", "Ended")
        PROVE  OnlyCalleesAccept'
    <3>1. \E m : Read(<<c, r>>, m)
      BY <2>5 DEF ReceiveAccept, ReceiveEnd
    <3> QED BY <1>4, <3>1 DEF OnlyCalleesAccept
  <2>6. ASSUME NEW r \in Roles, NoticeClosed(c, r) PROVE OnlyCalleesAccept'
    BY <1>5, <2>6 DEF OnlyCalleesAccept
  <2> QED BY <2>1, <2>2, <2>3, <2>4, <2>5, <2>6
<1>9. CASE \E d \in Dials, c \in Calls : Start(d[1], d[2], c)
  <2>1. UNCHANGED wire
    BY <1>9 DEF Start, Refused, network
  <2> QED BY <2>1 DEF OnlyCalleesAccept
<1>10. CASE \E c \in Calls : \/ AcceptCall(c) \/ RejectCall(c) \/ LoseConnection(c)
                             \/ \E r \in Roles : HangUp(<<c, r>>)
  <2>1. PICK c \in Calls : \/ AcceptCall(c) \/ RejectCall(c) \/ LoseConnection(c)
                           \/ \E r \in Roles : HangUp(<<c, r>>)
    BY <1>10
  <2>2. CASE AcceptCall(c) \/ RejectCall(c)
    BY <1>7, <2>2 DEF OnlyCalleesAccept
  <2>3. CASE LoseConnection(c)
    BY <2>3 DEF LoseConnection, OnlyCalleesAccept
  <2>4. ASSUME NEW r \in Roles, HangUp(<<c, r>>) PROVE OnlyCalleesAccept'
    BY <1>2, <2>4 DEF HangUp, OnlyCalleesAccept
  <2> QED BY <2>1, <2>2, <2>3, <2>4
<1>11. CASE \E d \in Friends : RevokePeer(d[1], d[2])
  BY <1>2, <1>11 DEF RevokePeer, OnlyCalleesAccept
<1>12. CASE \E n \in Nodes : Shutdown(n)
  BY <1>12 DEF Shutdown, OnlyCalleesAccept
<1>13. CASE UNCHANGED vars
  BY <1>13 DEF vars, network, OnlyCalleesAccept
<1> QED BY <1>8, <1>9, <1>10, <1>11, <1>12, <1>13 DEF Next

\* Every step leaves the two ends of every call with what brings them together.
LEMMA EndsStep ==
  ASSUME Inv, EndsInv, OnlyCalleesAccept, [Next]_vars
  PROVE  EndsInv'
<1>1. CASE System
  <2>1. PICK c \in Calls :
          \/ AcceptConnection(c) \/ ReceiveOffer(c) \/ NegotiationTimeout(c)
          \/ \E r \in Roles :
               \/ ReceiveAccept(<<c, r>>)
               \/ ReceiveEnd(<<c, r>>, "Reject", "Rejected")
               \/ ReceiveEnd(<<c, r>>, "Busy", "Busy")
               \/ ReceiveEnd(<<c, r>>, "Hangup", "Ended")
               \/ NoticeClosed(c, r)
    BY <1>1 DEF System
  <2>2. {"Reject", "Busy", "Hangup"} \subseteq Controls \ {"Accept"}
    BY DEF Controls
  <2>3. CASE NegotiationTimeout(c)
    BY <2>3, NotifiedEnds DEF NegotiationTimeout
  <2> QED BY <2>1, <2>2, <2>3, AcceptConnectionEnds, ReceiveOfferEnds, ReceiveAcceptEnds,
             ReceiveEndEnds, NoticeClosedEnds
<1>2. CASE \E d \in Dials, c \in Calls : Start(d[1], d[2], c)
  BY <1>2, StartEnds
<1>3. CASE \E c \in Calls : \/ AcceptCall(c) \/ RejectCall(c) \/ LoseConnection(c)
                            \/ \E r \in Roles : HangUp(<<c, r>>)
  <2>1. ASSUME NEW c \in Calls, NEW r \in Roles, HangUp(<<c, r>>) PROVE EndsInv'
    BY <2>1, NotifiedEnds DEF HangUp, Command
  <2> QED BY <1>3, <2>1, AcceptCallEnds, RejectCallEnds, LoseConnectionEnds
<1>4. CASE \E d \in Friends : RevokePeer(d[1], d[2])
  <2>1. PICK d \in Friends : RevokePeer(d[1], d[2])
    BY <1>4
  <2> QED BY <2>1, NotifiedEnds DEF RevokePeer
<1>5. CASE \E n \in Nodes : Shutdown(n)
  BY <1>5, ShutdownEnds
<1>6. CASE UNCHANGED vars
  <2>1. UNCHANGED <<session, terminals, link, offering, wire, task>>
    BY <1>6 DEF vars, sessions, network
  <2> QED BY <2>1, UntouchedCall DEF EndsInv, Same
<1> QED BY <1>1, <1>2, <1>3, <1>4, <1>5, <1>6 DEF Next

(***************************************************************************)
(* The theorems.                                                           *)
(***************************************************************************)
\* Initial states satisfy the invariant and map to initial states.
LEMMA InitGood == Init => Inv /\ Lifecycle!Init
<1> SUFFICES ASSUME Init PROVE Inv /\ Lifecycle!Init
  OBVIOUS
<1> "caller" \in Roles /\ "callee" \in Roles
  BY DEF Roles
<1>1. <<>> \in Seq(Outcomes) /\ <<>> \in Seq(Controls) /\ Len(<<>>) = 0
  OBVIOUS
<1>2. TypeOK
  BY <1>1 DEF Init, TypeOK, States
<1>3. OneTerminalEvent /\ Unstarted /\ OffersAreNew
  BY <1>1 DEF Init, OneTerminalEvent, Unstarted, OffersAreNew
<1>4. AcceptedWasTaken
  BY <1>1 DEF Init, AcceptedWasTaken, Has
<1>5. Phases = [c \in Calls |-> [r \in Roles |-> "idle"]]
  <2>1. \A c \in Calls, r \in Roles : Phases[c][r] = "idle"
    BY PhaseIsRead DEF PhaseOK, Init
  <2>2. Phases = [c \in Calls |-> [r \in Roles |-> Phases[c][r]]]
    BY PhaseIsRead DEF PhaseOK
  <2> QED BY <2>1, <2>2
<1> QED BY <1>2, <1>3, <1>4, <1>5 DEF Inv, Lifecycle!Init

\* Every step keeps the invariant and is a step, or a stutter, of CallLifecycle.
LEMMA StepGood == Inv /\ [Next]_vars => Inv' /\ [Lifecycle!Next]_Phases
<1> SUFFICES ASSUME Inv, [Next]_vars PROVE Good
  BY DEF Good
<1>1. CASE System
  <2>1. PICK c \in Calls :
          \/ AcceptConnection(c) \/ ReceiveOffer(c) \/ NegotiationTimeout(c)
          \/ \E r \in Roles :
               \/ ReceiveAccept(<<c, r>>)
               \/ ReceiveEnd(<<c, r>>, "Reject", "Rejected")
               \/ ReceiveEnd(<<c, r>>, "Busy", "Busy")
               \/ ReceiveEnd(<<c, r>>, "Hangup", "Ended")
               \/ NoticeClosed(c, r)
    BY <1>1 DEF System
  <2>2. /\ {"Reject", "Busy", "Hangup"} \subseteq Controls
        /\ {"Rejected", "Busy", "Ended"} \subseteq Outcomes
    BY DEF Controls, Outcomes
  <2> QED BY <2>1, <2>2, AcceptConnectionGood, ReceiveOfferGood, NegotiationTimeoutGood,
             ReceiveAcceptGood, ReceiveEndGood, NoticeClosedGood
<1>2. CASE \E d \in Dials, c \in Calls : Start(d[1], d[2], c)
  <2>1. PICK d \in Dials, c \in Calls : Start(d[1], d[2], c)
    BY <1>2
  <2>2. d[1] \in Nodes /\ d[2] \in Nodes
    BY CallsAssumption
  <2> QED BY <2>1, <2>2, StartGood
<1>3. CASE \E c \in Calls : \/ AcceptCall(c) \/ RejectCall(c) \/ LoseConnection(c)
                            \/ \E r \in Roles : HangUp(<<c, r>>)
  BY <1>3, AcceptCallGood, RejectCallGood, LoseConnectionGood, HangUpGood
<1>4. CASE \E d \in Friends : RevokePeer(d[1], d[2])
  <2>1. PICK d \in Friends : RevokePeer(d[1], d[2])
    BY <1>4
  <2>2. d[1] \in Nodes /\ d[2] \in Nodes
    BY DEF Friends
  <2> QED BY <2>1, <2>2, RevokePeerGood
<1>5. CASE \E n \in Nodes : Shutdown(n)
  BY <1>5, ShutdownGood
<1>6. CASE UNCHANGED vars
  <2>1. UNCHANGED <<ends, session, terminals, link, arriving, offering, wire, task,
                    authorized, running, commands, faults>>
    BY <1>6 DEF vars, sessions, network
  <2>2. Quiet
    BY <2>1 DEF Quiet
  <2>3. NetworkType'
    BY <2>1, InvParts DEF NetworkType
  <2> QED BY <2>1, <2>2, <2>3, IdleGood, InvPartsNext DEF Good
<1> QED BY <1>1, <1>2, <1>3, <1>4, <1>5, <1>6 DEF Next

\* Every variable of the call actors keeps its type.
THEOREM TypeCorrect == Spec => []TypeOK
<1>1. Init => Inv
  BY InitGood
<1>2. Inv /\ [Next]_vars => Inv'
  BY StepGood
<1>3. Inv => TypeOK
  BY DEF Inv
<1> QED BY <1>1, <1>2, <1>3, PTL DEF Spec

\* The application gets at most one terminal event per end of a call, and none
\* for a call that is in the table, for any number of nodes and calls.
THEOREM TerminalEventIsUnique == Spec => []OneTerminalEvent
<1>1. Init => Inv
  BY InitGood
<1>2. Inv /\ [Next]_vars => Inv'
  BY StepGood
<1>3. Inv => OneTerminalEvent
  BY DEF Inv
<1> QED BY <1>1, <1>2, <1>3, PTL DEF Spec

\* The call actors implement CallLifecycle: no call goes back, and a caller is
\* told Active only after the callee took the call.
THEOREM CallsImplementLifecycle == Spec => ImplementsLifecycle
<1>1. Init => Inv /\ Lifecycle!Init
  BY InitGood
<1>2. Inv /\ [Next]_vars => Inv' /\ [Lifecycle!Next]_Phases
  BY StepGood
<1> QED BY <1>1, <1>2, PTL DEF Spec, ImplementsLifecycle, Lifecycle!Spec

\* Once the messages of a call are handled its two ends agree on it: nobody rings
\* for a caller who gave up, and nobody talks to an end that hung up, for any
\* number of nodes, calls, commands and faults.
THEOREM NoCallIsHalfOpen == Spec => []NoHalfOpenCall
<1> "caller" \in Roles /\ "callee" \in Roles
  BY DEF Roles
<1> DEFINE J == Inv /\ EndsInv /\ OnlyCalleesAccept
<1>1. Init => J
  <2> SUFFICES ASSUME Init PROVE J
    OBVIOUS
  <2>1. \A k : ~Has(<<>>, k)
    BY DEF Has
  <2>2. EndsInv
    BY DEF Init, EndsInv, Ends
  <2>3. OnlyCalleesAccept
    BY <2>1 DEF Init, OnlyCalleesAccept
  <2> QED BY <2>2, <2>3, InitGood
<1>2. J /\ [Next]_vars => J'
  BY StepGood, EndsStep, AcceptGoesToCallers
<1>3. J => NoHalfOpenCall
  <2> SUFFICES ASSUME J, NEW c \in Calls, Settled(c)
               PROVE  \/ session[c]["caller"] = "None" /\ session[c]["callee"] = "None"
                      \/ session[c]["caller"] = "Offered" /\ session[c]["callee"] = "Ringing"
                      \/ session[c]["caller"] = "Active" /\ session[c]["callee"] = "Active"
    BY DEF NoHalfOpenCall
  <2>1. Ends(c) /\ link[c] \in {"none", "open", "closed"}
    BY DEF EndsInv, Inv, TypeOK
  <2>2. \A k : ~Has(wire[c]["caller"], k)
    BY DEF Settled, Has
  <2>3. CASE link[c] = "open"
    BY <2>1, <2>2, <2>3 DEF Ends, OpenCall, Settled
  <2>4. CASE link[c] # "open"
    BY <2>1, <2>4 DEF Ends, Settled
  <2> QED BY <2>3, <2>4
<1> HIDE DEF J
<1> QED BY <1>1, <1>2, <1>3, PTL DEF Spec
=============================================================================
