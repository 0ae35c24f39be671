--------------------------- MODULE CallLifecycle ---------------------------
(***************************************************************************)
(* What the call actors promise the two applications of a call, in terms   *)
(* of the events they get (CallEvent, src/src/call/manager.rs): how the    *)
(* call develops at each end, and what one end may conclude about the      *)
(* other.  Calls implements this specification.                            *)
(***************************************************************************)
CONSTANTS Calls, Roles

VARIABLE phase  \* of every call at each of its ends

Live == {"pending", "active"}

Init == phase = [c \in Calls |-> [r \in Roles |-> "idle"]]

\* OutgoingRinging at the caller, Incoming at the callee: nobody is rung by a
\* call that nobody started.
Begin(c, r) ==
  /\ phase[c][r] = "idle"
  /\ r = "callee" => phase[c]["caller"] # "idle"
  /\ phase' = [phase EXCEPT ![c][r] = "pending"]

\* Failed: the attempt ends before it began.
Refuse(c) ==
  /\ phase[c]["caller"] = "idle"
  /\ phase' = [phase EXCEPT ![c]["caller"] = "ended"]

\* Active: the caller is connected only to somebody who took the call.
Connect(c, r) ==
  /\ phase[c][r] = "pending"
  /\ r = "caller" => phase[c]["callee"] \in {"active", "ended"}
  /\ phase' = [phase EXCEPT ![c][r] = "active"]

\* Ended or Failed, for all the calls that one cause ends.
End(E) ==
  /\ \A e \in E : phase[e[1]][e[2]] \in Live
  /\ phase' = [c \in Calls |-> [r \in Roles |->
                 IF <<c, r>> \in E THEN "ended" ELSE phase[c][r]]]

Next ==
  \/ \E c \in Calls : Refuse(c) \/ \E r \in Roles : Begin(c, r) \/ Connect(c, r)
  \/ \E E \in SUBSET (Calls \X Roles) : End(E)

Spec == Init /\ [][Next]_phase
=============================================================================
