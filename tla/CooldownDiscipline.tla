------------------------- MODULE CooldownDiscipline -------------------------
(***************************************************************************)
(* What wedge recovery promises, whoever carries it out: the bridge        *)
(* (wedge.py driven by broker.py) or, without a bridge, the integration's  *)
(* coordinator.  A rest, once begun, runs to its end and only time moves   *)
(* it; then the machine is probed; a good run of Confirmations probes in a *)
(* row resumes polling, one bad probe begins the next, longer rest.        *)
(***************************************************************************)
EXTENDS Integers, Sequences

CONSTANTS
  Steps,          \* the durations of successive rests; the last one repeats
  Confirmations   \* good probes in a row that resume polling

VARIABLES
  rest,   \* Polling, or the time left to rest (0: a probe is due)
  step,   \* the rest that would come next
  good    \* good probes since the rest ended

vars == <<rest, step, good>>

NotResting == -1
Following(s) == IF s < Len(Steps) THEN s + 1 ELSE s

Resumed == rest' = NotResting /\ step' = 1 /\ good' = 0
RestFor(s) == rest' = Steps[s] /\ step' = Following(s) /\ good' = 0

Init == rest = NotResting /\ step = 1 /\ good = 0

\* Sustained failure while polling.
Enter == rest = NotResting /\ RestFor(1)

Pass == rest > 0 /\ rest' = rest - 1 /\ UNCHANGED <<step, good>>

GoodProbe ==
  /\ rest = 0
  /\ \/ good + 1 < Confirmations /\ good' = good + 1 /\ UNCHANGED <<rest, step>>
     \/ good + 1 = Confirmations /\ Resumed

BadProbe == rest = 0 /\ RestFor(step)

Next == Enter \/ Pass \/ GoodProbe \/ BadProbe

Spec == Init /\ [][Next]_vars

\* What an operator's override or a fresh process does to it.
Reset == Resumed

=============================================================================
