--------------------------- MODULE PollingProofs ---------------------------
(***************************************************************************)
(* Theorems about PollingCoordinator for every back-off, number of          *)
(* confirming probes and failure tolerance.                                 *)
(***************************************************************************)
EXTENDS PollingCoordinator, TLAPS

-----------------------------------------------------------------------------
(* The inductive invariant.                                                 *)

\* A deadline is kept exactly while the back-off is under way.
DeadlineKept == index = 0 <=> coolLeft = NoTime

\* A refresh that is past the cooldown check goes on outside any cooldown,
\* and a whole read is made only after the recovery state has been cleared.
RefreshPhase ==
  /\ refresh \in {"probe", "read", "closing"} => coolLeft \in {NoTime, 0}
  /\ refresh = "read" => index = 0

\* Failures beyond the tolerance are on their way into a cooldown, or in one.
FailuresCounted == index = 0 /\ refresh # "closing" => fails <= FailureTolerance

\* Nothing is shown before it is loaded, during the back-off, or while a probe
\* decides whether there is anything to show.
ShownWhen ==
  /\ success => loaded /\ index = 0
  /\ refresh = "probe" => ~success

PInv == TypeOK /\ DeadlineKept /\ RefreshPhase /\ FailuresCounted /\ ShownWhen

-----------------------------------------------------------------------------
\* What the next rest is, and that it has a length.
LEMMA Backoff ==
  /\ LastStep \in Nat \ {0}
  /\ \A i \in 0..LastStep : Used(i) \in 1..LastStep
  /\ \A i \in 1..LastStep : CooldownSteps[i] \in Nat \ {0}
<1>1. LastStep \in Nat \ {0} BY PollingAssumption DEF PollingAssumption, LastStep
<1>2. \A i \in 0..LastStep : Used(i) \in 1..LastStep BY <1>1 DEF Used
<1>3. \A i \in 1..LastStep : CooldownSteps[i] \in Nat \ {0}
  BY PollingAssumption DEF PollingAssumption, LastStep
<1> QED BY <1>1, <1>2, <1>3

\* Entering a cooldown.
LEMMA Entered ==
  ASSUME TypeOK, EnterCooldown
  PROVE  /\ coolLeft' \in Nat \ {0} /\ index' \in 1..LastStep /\ probes' = 0
         /\ index' = Used(index) /\ coolLeft' = CooldownSteps[Used(index)]
BY Backoff DEF TypeOK, EnterCooldown

LEMMA PInit == Init => PInv
<1> SUFFICES ASSUME Init PROVE PInv OBVIOUS
<1>0. LastStep \in Nat \ {0} /\ ResumeAfterProbes \in Nat \ {0} /\ FailureTolerance \in Nat
  BY Backoff, PollingAssumption DEF PollingAssumption
<1>n. /\ coolLeft \in Nat \cup {NoTime} /\ index \in 0..LastStep
      /\ probes \in 0..(ResumeAfterProbes - 1) /\ fails \in 0..(FailureTolerance + 1)
  BY <1>0 DEF Init
<1>1. TypeOK BY <1>n, Zenon DEF Init, TypeOK
<1>2. DeadlineKept /\ RefreshPhase /\ FailuresCounted /\ ShownWhen
  BY <1>0 DEF Init, DeadlineKept, RefreshPhase, FailuresCounted, ShownWhen, NoTime
<1> QED BY <1>1, <1>2 DEF PInv

LEMMA PStep == PInv /\ [Next]_vars => PInv'
<1> SUFFICES ASSUME PInv, [Next]_vars PROVE PInv' OBVIOUS
<1>0. LastStep \in Nat \ {0} /\ ResumeAfterProbes \in Nat \ {0} /\ FailureTolerance \in Nat
  BY Backoff, PollingAssumption DEF PollingAssumption
<1>a. ASSUME EnterCooldown
      PROVE  /\ coolLeft' \in Nat \ {0} /\ index' \in 1..LastStep /\ probes' = 0
  BY <1>a, Entered DEF PInv
<1> USE DEF PInv, TypeOK, DeadlineKept, RefreshPhase, FailuresCounted, ShownWhen, NoTime
<1>1. CASE Starts BY <1>0, <1>1 DEF Starts, recovery, world
<1>2. CASE BridgeBlocks BY <1>0, <1>2 DEF BridgeBlocks, Raise, recovery, world
<1>3. CASE Rests BY <1>0, <1>3 DEF Rests, Raise, recovery, world
<1>4. CASE Probes BY <1>0, <1>4 DEF Probes, InCooldown, recovery, world
<1>5. CASE Reads BY <1>0, <1>5 DEF Reads, InCooldown, recovery, world
<1>6. CASE ProbeAnswered
  <2>1. CASE ProbeConfirms
    <3>1. /\ probes' \in 0..(ResumeAfterProbes - 1)
          /\ UNCHANGED <<coolLeft, index, fails>>
      BY <1>0, <2>1 DEF ProbeConfirms
    <3>2. refresh' = "idle" /\ success' = FALSE /\ UNCHANGED loaded
      BY <2>1 DEF ProbeConfirms, Raise
    <3> QED BY <1>0, <1>6, <3>1, <3>2 DEF ProbeAnswered, world
  <2>2. CASE ProbeResumes
    BY <1>0, <1>6, <2>2 DEF ProbeAnswered, ProbeResumes, ClearCooldown, world
  <2> QED BY <1>6, <2>1, <2>2 DEF ProbeAnswered
<1>7. CASE ProbeFailed BY <1>0, <1>7 DEF ProbeFailed, Closes, recovery, world
<1>8. CASE ReadAnswered BY <1>0, <1>8 DEF ReadAnswered, ClearCooldown, world
<1>9. CASE ReadFailed
  <2>1. CASE ServesCache
    BY <1>0, <1>9, <2>1 DEF ReadFailed, ServesCache, world
  <2>2. CASE AssumesWedge
    <3>1. index = 0 /\ fails <= FailureTolerance BY <1>9 DEF ReadFailed
    <3>2. /\ fails' \in 0..(FailureTolerance + 1)
          /\ UNCHANGED <<coolLeft, index, probes>>
      BY <1>0, <2>2, <3>1 DEF AssumesWedge
    <3> QED BY <1>0, <1>9, <2>2, <3>1, <3>2 DEF ReadFailed, AssumesWedge, Closes, world
  <2>3. CASE SetupFails
    BY <1>0, <1>9, <2>3 DEF ReadFailed, SetupFails, Raise, recovery, world
  <2> QED BY <1>9, <2>1, <2>2, <2>3 DEF ReadFailed
<1>10. CASE Closed
  <2>1. coolLeft' \in Nat \ {0} /\ index' \in 1..LastStep /\ probes' = 0
    BY <1>a, <1>10 DEF Closed
  <2>2. /\ UNCHANGED <<machine, blocking, fails, loaded, writing, link, override>>
        /\ refresh' = "idle" /\ success' = FALSE
    BY <1>10 DEF Closed, Raise, world
  <2>3. index' \in 0..LastStep /\ index' # 0 /\ coolLeft' # NoTime
    BY <1>0, <2>1
  <2>4. TypeOK'
    <3>1. coolLeft' \in Nat \cup {NoTime} /\ probes' \in 0..(ResumeAfterProbes - 1)
      BY <1>0, <2>1
    <3> HIDE DEF PInv, DeadlineKept, RefreshPhase, FailuresCounted, ShownWhen
    <3>2. TypeOK BY DEF PInv
    <3> QED BY <2>2, <2>3, <3>1, <3>2
  <2>5. (DeadlineKept /\ RefreshPhase /\ FailuresCounted /\ ShownWhen)' BY <2>2, <2>3
  <2> QED BY <2>4, <2>5
<1>11. CASE WriteBegins
  <2>1. UNCHANGED <<machine, blocking, coolLeft, index, probes, fails, loaded,
                    success, refresh, link, override>> /\ writing' = TRUE
    BY <1>11 DEF WriteBegins, recovery, world
  <2>2. TypeOK' BY <2>1
  <2>3. (DeadlineKept /\ RefreshPhase /\ FailuresCounted /\ ShownWhen)' BY <2>1
  <2> QED BY <2>2, <2>3
<1>12. CASE WriteEnds BY <1>0, <1>12 DEF WriteEnds, recovery, world
<1>13. CASE EndCooldown BY <1>0, <1>13 DEF EndCooldown, ClearCooldown, world
<1>14. CASE Tick BY <1>0, <1>14 DEF Tick, world
<1>15. CASE MachineChanges BY <1>0, <1>15 DEF MachineChanges, recovery
<1>16. CASE BridgeChanges BY <1>0, <1>16 DEF BridgeChanges, recovery
<1>17. CASE UNCHANGED vars BY <1>0, <1>17 DEF vars
<1> QED BY <1>1, <1>2, <1>3, <1>4, <1>5, <1>6, <1>7, <1>8, <1>9, <1>10, <1>11,
           <1>12, <1>13, <1>14, <1>15, <1>16, <1>17 DEF Next, RefreshGoesOn

(* The inductive invariant holds of every behaviour of the coordinator.      *)
THEOREM PollingInvariance == Spec => []PInv
BY PInit, PStep, PTL DEF Spec

(* Every variable keeps its type and bound, the failure count included.      *)
THEOREM PollingTypeCorrect == Spec => []TypeOK
<1>1. PInv => TypeOK BY DEF PInv
<1> QED BY PollingInvariance, <1>1, PTL

(* No refresh is at the machine during a cooldown, not even one that was     *)
(* under way when it was entered (coordinator.py, _async_update_data).       *)
THEOREM RefreshRestsTheorem == Spec => []RefreshRestsInCooldown
<1>1. PInv => RefreshRestsInCooldown
  BY DEF PInv, RefreshPhase, RefreshRestsInCooldown, InCooldown, NoTime
<1> QED BY PollingInvariance, <1>1, PTL

-----------------------------------------------------------------------------
(* The discipline.                                                          *)

\* The abstract step counter of an index.
StepOf(i) == IF i < LastStep THEN i + 1 ELSE LastStep

LEMMA EnterDisciplined ==
  ASSUME PInv, refresh = "closing", EnterCooldown
  PROVE  Discipline!Next
<1>0. /\ LastStep \in Nat \ {0} /\ index \in 0..LastStep
      /\ coolLeft \in {NoTime, 0} /\ (index = 0 <=> coolLeft = NoTime)
  BY Backoff DEF PInv, TypeOK, RefreshPhase, DeadlineKept
<1>1. /\ coolLeft' = CooldownSteps[Used(index)] /\ index' = Used(index)
      /\ probes' = 0 /\ index' \in 1..LastStep
  BY Entered DEF PInv
<1>2. StepOf(index') = Discipline!Following(Used(index))
  BY <1>0, <1>1 DEF StepOf, Used, Discipline!Following, LastStep
<1>3. CASE index = 0
  <2>1. coolLeft = -1 /\ Used(index) = 1 BY <1>0, <1>3 DEF Used, NoTime
  <2>2. Discipline!RestFor(1)
    BY <1>1, <1>2, <2>1 DEF Discipline!RestFor, StepOf
  <2>3. Discipline!Enter
    BY <2>1, <2>2 DEF Discipline!Enter, Discipline!NotResting
  <2> QED BY <2>3 DEF Discipline!Next
<1>4. CASE index # 0
  <2>1. coolLeft = 0 /\ Used(index) = StepOf(index)
    BY <1>0, <1>4 DEF Used, StepOf
  <2>2. Discipline!RestFor(StepOf(index))
    BY <1>1, <1>2, <2>1 DEF Discipline!RestFor, StepOf
  <2>3. Discipline!BadProbe BY <2>1, <2>2 DEF Discipline!BadProbe, StepOf
  <2> QED BY <2>3 DEF Discipline!Next
<1> QED BY <1>3, <1>4

\* Clearing recovery state that is clear already changes nothing it maps to.
LEMMA ClearedAgain ==
  ASSUME PInv, index = 0, ClearCooldown
  PROVE  UNCHANGED Discipline!vars
BY DEF PInv, DeadlineKept, ClearCooldown, Discipline!vars

LEMMA ProbeDisciplined ==
  ASSUME PInv, ProbeAnswered
  PROVE  Discipline!Next \/ UNCHANGED Discipline!vars
<1>0. /\ LastStep \in Nat \ {0} /\ index \in 0..LastStep
      /\ ResumeAfterProbes \in Nat \ {0} /\ probes \in 0..(ResumeAfterProbes - 1)
      /\ coolLeft \in {NoTime, 0} /\ (index = 0 <=> coolLeft = NoTime)
  BY Backoff, PollingAssumption
  DEF PollingAssumption, PInv, TypeOK, RefreshPhase, DeadlineKept, ProbeAnswered
<1>1. CASE index = 0
  <2>1. CASE ProbeConfirms
    BY <1>1, <2>1 DEF ProbeConfirms, Discipline!vars
  <2>2. CASE ProbeResumes
    BY <1>1, <2>2, ClearedAgain DEF ProbeResumes
  <2> QED BY <2>1, <2>2 DEF ProbeAnswered
<1>2. CASE index # 0
  <2>0. coolLeft = 0 BY <1>0, <1>2
  <2>1. CASE ProbeConfirms
    <3>1. Discipline!GoodProbe
      BY <1>0, <1>2, <2>0, <2>1 DEF ProbeConfirms, Discipline!GoodProbe
    <3> QED BY <3>1 DEF Discipline!Next
  <2>2. CASE ProbeResumes
    <3>1. probes + 1 = ResumeAfterProbes BY <1>0, <2>2 DEF ProbeResumes
    <3>2. Discipline!Resumed
      BY <1>0, <2>2
      DEF ProbeResumes, ClearCooldown, Discipline!Resumed, Discipline!NotResting, NoTime
    <3>3. Discipline!GoodProbe
      BY <1>2, <2>0, <3>1, <3>2 DEF Discipline!GoodProbe
    <3> QED BY <3>3 DEF Discipline!Next
  <2> QED BY <2>1, <2>2 DEF ProbeAnswered
<1> QED BY <1>1, <1>2

LEMMA PollingDisciplined ==
  ASSUME PInv, Next
  PROVE  \/ Discipline!Next \/ (EndCooldown /\ Discipline!Reset)
         \/ UNCHANGED Discipline!vars
<1>u. ASSUME UNCHANGED <<coolLeft, index, probes>> PROVE UNCHANGED Discipline!vars
  BY <1>u DEF Discipline!vars
<1>1. CASE Starts \/ BridgeBlocks \/ Rests \/ Probes \/ Reads \/ ProbeFailed
           \/ ReadFailed \/ WriteBegins \/ WriteEnds \/ MachineChanges \/ BridgeChanges
  <2>1. UNCHANGED <<coolLeft, index, probes>>
    BY <1>1 DEF Starts, BridgeBlocks, Rests, Probes, Reads, ProbeFailed, ReadFailed,
       ServesCache, AssumesWedge, SetupFails, WriteBegins, WriteEnds,
       MachineChanges, BridgeChanges, recovery
  <2> QED BY <1>u, <2>1
<1>2. CASE ProbeAnswered BY <1>2, ProbeDisciplined
<1>3. CASE ReadAnswered
  BY <1>3, ClearedAgain DEF ReadAnswered, PInv, RefreshPhase
<1>4. CASE Closed BY <1>4, EnterDisciplined DEF Closed
<1>5. CASE EndCooldown
  <2>1. Discipline!Reset
    BY <1>5, Backoff
    DEF EndCooldown, ClearCooldown, Discipline!Reset, Discipline!Resumed,
        Discipline!NotResting, NoTime
  <2> QED BY <1>5, <2>1
<1>6. CASE Tick
  <2>1. Discipline!Pass BY <1>6 DEF Tick, Discipline!Pass
  <2> QED BY <2>1 DEF Discipline!Next
<1> QED BY <1>1, <1>2, <1>3, <1>4, <1>5, <1>6 DEF Next, RefreshGoesOn

(* The coordinator implements the cooldown discipline the bridge implements, *)
(* but for the operator's override.                                         *)
THEOREM KeepsDisciplineTheorem == Spec => KeepsDiscipline
<1>1. Init => Discipline!Init
  BY Backoff DEF Init, Discipline!Init, Discipline!NotResting, NoTime
<1>2. PInv /\ [Next]_vars =>
        [Discipline!Next \/ (EndCooldown /\ Discipline!Reset)]_(Discipline!vars)
  <2>1. CASE UNCHANGED vars BY <2>1 DEF vars, Discipline!vars
  <2> QED BY <2>1, PollingDisciplined
<1> QED BY PollingInvariance, <1>1, <1>2, PTL DEF Spec, KeepsDiscipline

(* What was shown is withdrawn only when the bridge blocks or a cooldown is  *)
(* on: nothing flaps on one lost reply (coordinator.py, _async_update_data). *)
THEOREM WithdrawnForCauseTheorem == Spec => WithdrawnForCause
<1> DEFINE Cause == success /\ ~success' => blocking \/ index' > 0
<1>1. ASSUME PInv, [Next]_vars PROVE [Cause]_vars
  <2> SUFFICES ASSUME Next, success, ~success' PROVE blocking \/ index' > 0
    BY <1>1
  <2>0. success \in BOOLEAN /\ loaded /\ index = 0 /\ coolLeft = NoTime /\ refresh # "probe"
    BY <1>1 DEF PInv, TypeOK, ShownWhen, DeadlineKept
  <2>1. CASE Closed
    BY <1>1, <2>1, Entered DEF Closed, PInv
  <2>2. CASE BridgeBlocks BY <2>2 DEF BridgeBlocks
  <2>3. ~Rests BY <2>0 DEF Rests, InCooldown, NoTime
  <2>4. ~ProbeAnswered BY <2>0 DEF ProbeAnswered
  <2>5. ReadFailed => success'
    BY <2>0 DEF ReadFailed, ServesCache, AssumesWedge, SetupFails, Closes
  <2>6. Starts \/ Probes \/ Reads \/ ProbeFailed \/ ReadAnswered \/ WriteBegins
        \/ WriteEnds \/ EndCooldown \/ Tick \/ MachineChanges \/ BridgeChanges
        => success'
    BY <2>0 DEF Starts, Probes, Reads, ProbeFailed, Closes, ReadAnswered,
       WriteBegins, WriteEnds, EndCooldown, Tick, MachineChanges, BridgeChanges
  <2> QED BY <2>1, <2>2, <2>3, <2>4, <2>5, <2>6 DEF Next, RefreshGoesOn
<1>2. PInv /\ [Next]_vars => [Cause]_vars BY <1>1
<1> QED BY PollingInvariance, <1>2, PTL DEF Spec, WithdrawnForCause

-----------------------------------------------------------------------------
(* The override.                                                            *)

\* After End Cooldown the back-off is as good as new, and begun again only at
\* the end of the refresh that was under way.
OverrideStage == override => index = 0 \/ (index = 1 /\ refresh = "idle")

LEMMA OverrideStep == PInv /\ OverrideStage /\ [Next]_vars => OverrideStage'
<1> SUFFICES ASSUME PInv, OverrideStage, [Next]_vars PROVE OverrideStage' OBVIOUS
<1> USE DEF OverrideStage
<1>1. CASE Closed
  <2>1. index' = Used(index) /\ refresh' = "idle" /\ override' = override
    BY <1>1 DEF Closed, EnterCooldown, Raise
  <2>2. Used(0) = 1 BY Backoff DEF Used
  <2>3. override => index = 0 BY <1>1 DEF Closed
  <2> QED BY <2>1, <2>2, <2>3
<1>2. CASE Starts BY <1>2 DEF Starts
<1>3. CASE ProbeAnswered
  BY <1>3 DEF ProbeAnswered, ProbeConfirms, ProbeResumes, ClearCooldown, Raise
<1>4. CASE ReadAnswered BY <1>4 DEF ReadAnswered, ClearCooldown
<1>5. CASE EndCooldown BY <1>5 DEF EndCooldown, ClearCooldown
<1>6. CASE BridgeBlocks \/ Rests \/ Probes \/ Reads \/ ProbeFailed \/ ReadFailed
  <2>1. index' = index /\ override' = override /\ refresh # "idle"
    BY <1>6 DEF BridgeBlocks, Rests, Probes, Reads, ProbeFailed, ReadFailed,
       ServesCache, AssumesWedge, SetupFails, recovery
  <2> QED BY <2>1
<1>7. CASE WriteBegins \/ WriteEnds \/ Tick \/ MachineChanges \/ BridgeChanges
           \/ UNCHANGED vars
  BY <1>7 DEF WriteBegins, WriteEnds, Tick, MachineChanges, BridgeChanges,
     recovery, vars
<1> QED BY <1>1, <1>2, <1>3, <1>4, <1>5, <1>6, <1>7 DEF Next, RefreshGoesOn

(* A cooldown that undoes End Cooldown before its refresh is the shortest    *)
(* one: the override forgets the back-off (coordinator.py, _clear_cooldown). *)
THEOREM OverrideTheorem == Spec => []OverrideForgetsBackoff
<1>1. Init => OverrideStage BY DEF Init, OverrideStage
<1>2. PInv /\ OverrideStage => OverrideForgetsBackoff
  BY DEF PInv, DeadlineKept, OverrideStage, OverrideForgetsBackoff, InCooldown, NoTime
<1> QED BY PollingInvariance, <1>1, <1>2, OverrideStep, PTL DEF Spec

=============================================================================
