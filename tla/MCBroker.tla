------------------------------ MODULE MCBroker ------------------------------
(***************************************************************************)
(* Small instances of Broker: one settings address and two byte values     *)
(* (the old and the new state of one switch), a two-step back-off.         *)
(***************************************************************************)
EXTENDS Broker, TLC

CONSTANTS a1, b1, b2

OneAddr   == {a1}
TwoBytes  == {b1, b2}
SetByte   == {[a \in OneAddr |-> b] : b \in TwoBytes}
SwitchOn  == {[a \in OneAddr |-> b2]}
SwitchOff == {[a \in OneAddr |-> b1]}
NoWrites  == {}
Backoff   == <<1, 2>>
OneStep   == <<1>>

\* The two bytes are interchangeable in every property checked with it.
Symmetric == Permutations(TwoBytes)

=============================================================================
