--------------------------- MODULE WedgeRecovery ---------------------------
(***************************************************************************)
(* Wedge detection and the graded cooldown (wedge.py, class WedgeRecovery; *)
(* the integration's coordinator carries the same machine), as operators   *)
(* on a record.  The code compares two monotonic deadlines with the clock; *)
(* only their distance from "now" decides anything, so the record keeps    *)
(* that distance and Elapse moves it by one unit of time:                  *)
(*   failAge  - time since the first failure of the streak, NoTime when    *)
(*              there is none; saturates at WedgeAfter, where it counts    *)
(*   coolLeft - time left in the cooldown window, 0 once it has elapsed    *)
(*              (a probe is due), NoTime when no window is set             *)
(*   index    - the next step of the back-off; saturates at the last one   *)
(*   probes   - consecutive good probes since the window elapsed           *)
(***************************************************************************)
EXTENDS Integers, Sequences

CONSTANTS
  WedgeAfter,        \* sustained failure that counts as a wedge
  CooldownSteps,     \* the back-off, one duration per entry
  ResumeAfterProbes  \* good probes in a row before full polling resumes

ASSUME WedgeAssumption ==
  /\ WedgeAfter \in Nat \ {0}
  /\ CooldownSteps \in Seq(Nat \ {0})
  /\ CooldownSteps # <<>>
  /\ ResumeAfterProbes \in Nat \ {0}

NoTime == -1

WedgeType ==
  [failAge  : NoTime..WedgeAfter,
   coolLeft : {NoTime} \cup Nat,
   index    : 1..Len(CooldownSteps),
   probes   : 0..(ResumeAfterProbes - 1)]

Polling == [failAge |-> NoTime, coolLeft |-> NoTime, index |-> 1, probes |-> 0]

Wedged(w)        == w.failAge >= WedgeAfter
InCooldown(w)    == w.coolLeft > 0
AwaitingProbe(w) == w.coolLeft = 0

\* A good read: clear all wedge and cooldown state.
RecordSuccess(w) == Polling

RecordFailure(w) ==
  IF w.failAge = NoTime THEN [w EXCEPT !.failAge = 0] ELSE w

\* Did this probe complete the run that resumes polling?
ProbeResumes(w) == w.probes + 1 >= ResumeAfterProbes

RecordProbeSuccess_Restarts(w) ==  \* mutant: each good probe starts the count over
  [w EXCEPT !.probes = 0, !.coolLeft = 0]

RecordProbeSuccess(w) ==
  IF ProbeResumes(w)
  THEN RecordSuccess(w)
  ELSE [w EXCEPT !.probes = w.probes + 1, !.coolLeft = 0]

BeginCooldown(w) ==
  [w EXCEPT !.coolLeft = CooldownSteps[w.index],
            !.index    = IF w.index < Len(CooldownSteps) THEN w.index + 1
                                                         ELSE w.index,
            !.probes   = 0]

\* One unit of monotonic time passes.
Elapse(w) ==
  [w EXCEPT !.failAge  = IF w.failAge \in 0..(WedgeAfter - 1)
                         THEN w.failAge + 1 ELSE w.failAge,
            !.coolLeft = IF w.coolLeft > 0 THEN w.coolLeft - 1 ELSE w.coolLeft]

=============================================================================
