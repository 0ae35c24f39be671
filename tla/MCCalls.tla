------------------------------ MODULE MCCalls ------------------------------
(* Instances of Calls for TLC. *)
EXTENDS Calls

CONSTANTS a, b, d

\* Two nodes that call each other, and a third that calls one of them.
TwoAndOne == {<<a, b>>, <<b, a>>, <<d, a>>}

\* Two nodes that call each other.
EachOther == {<<a, b>>, <<b, a>>}

\* One node calls another, time and again.
OneWay == {<<a, b>>}
=============================================================================
