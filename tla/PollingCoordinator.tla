-------------------------- MODULE PollingCoordinator --------------------------
(***************************************************************************)
(* The integration without a push stream (coordinator.py, polling mode):    *)
(* refreshes that poll the machine or let it rest, writes, and the operator's *)
(* End Cooldown.  Home Assistant runs one refresh at a time; writes and the  *)
(* override run beside it on the same event loop.                           *)
(***************************************************************************)
EXTENDS Integers, Sequences

CONSTANTS
  CooldownSteps,     \* COOLDOWN_STEPS, in ticks
  ResumeAfterProbes, \* RESUME_AFTER_PROBES
  FailureTolerance   \* FAILURE_TOLERANCE

ASSUME PollingAssumption ==
  /\ CooldownSteps \in Seq(Nat \ {0}) /\ CooldownSteps # <<>>
  /\ ResumeAfterProbes \in Nat \ {0} /\ FailureTolerance \in Nat

VARIABLES
  machine,   \* "ok": answers; "flaky": may or may not
  blocking,  \* the bridge says the link is down or under repair
  coolLeft,  \* NoTime, or the time left of _cooldown_until (0: it is past)
  index,     \* _cooldown_index, up to the last step
  probes,    \* _probe_successes
  fails,     \* _consecutive_failures
  loaded,    \* coordinator.data is not None
  success,   \* last_update_success
  refresh,   \* where the refresh in progress awaits
  writing,   \* a write is with the client
  link,      \* the client's socket
  override   \* End Cooldown was pressed and no refresh has begun since

world == <<machine, blocking>>
recovery == <<coolLeft, index, probes, fails>>
vars == <<machine, blocking, coolLeft, index, probes, fails, loaded, success,
          refresh, writing, link, override>>

NoTime == -1
InCooldown == coolLeft > 0

-----------------------------------------------------------------------------
(* Wedge recovery.                                                          *)

LastStep == Len(CooldownSteps)
Used(i) == IF i < LastStep THEN i + 1 ELSE LastStep   \* after i cooldowns, the next

EnterCooldown ==
  /\ coolLeft' = CooldownSteps[Used(index)] /\ index' = Used(index) /\ probes' = 0

ClearCooldown_KeepsBackoff ==  \* mutant: the override only ends the rest
  coolLeft' = NoTime /\ probes' = 0 /\ fails' = 0 /\ UNCHANGED index

ClearCooldown == coolLeft' = NoTime /\ index' = 0 /\ probes' = 0 /\ fails' = 0

-----------------------------------------------------------------------------
(* A refresh (_async_update_data).                                          *)

Starts ==
  /\ refresh = "idle" /\ refresh' = "health" /\ override' = FALSE
  /\ UNCHANGED <<world, recovery, loaded, success, writing, link>>

\* The refresh ends in UpdateFailed; before the first success that takes the
\* whole entry down, to be set up again from scratch.
Raise == refresh' = "idle" /\ success' = FALSE /\ UNCHANGED loaded

\* The bridge's health has arrived; a blocking bridge ends the refresh.
BridgeBlocks ==
  /\ refresh = "health" /\ blocking
  /\ link' = "closed" /\ Raise
  /\ UNCHANGED <<world, recovery, writing, override>>

Rests ==
  /\ refresh = "health" /\ ~blocking /\ InCooldown
  /\ link' = "closed" /\ Raise
  /\ UNCHANGED <<world, recovery, writing, override>>

Probes ==
  /\ refresh = "health" /\ ~blocking /\ ~InCooldown /\ index > 0
  /\ refresh' = "probe"
  /\ UNCHANGED <<world, recovery, loaded, success, writing, link, override>>

Reads_Anyway ==  \* mutant: a refresh reads whatever the cooldown
  /\ refresh = "health" /\ ~blocking
  /\ refresh' = "read"
  /\ UNCHANGED <<world, recovery, loaded, success, writing, link, override>>

Reads ==
  /\ refresh = "health" /\ ~blocking /\ ~InCooldown /\ index = 0
  /\ refresh' = "read"
  /\ UNCHANGED <<world, recovery, loaded, success, writing, link, override>>

ProbeConfirms_Forgets ==  \* mutant: a probe that confirms counts for nothing
  probes + 1 < ResumeAfterProbes /\ UNCHANGED recovery /\ Raise

ProbeConfirms ==
  /\ probes + 1 < ResumeAfterProbes
  /\ probes' = probes + 1 /\ UNCHANGED <<coolLeft, index, fails>>
  /\ Raise

\* The last probe of the run goes on to a whole read.
ProbeResumes ==
  /\ probes + 1 >= ResumeAfterProbes
  /\ ClearCooldown /\ refresh' = "read" /\ UNCHANGED <<loaded, success>>

ProbeAnswered_Resumes ==  \* mutant: one good probe resumes polling
  /\ refresh = "probe" /\ link' = "open"
  /\ ClearCooldown /\ refresh' = "read" /\ UNCHANGED <<loaded, success>>
  /\ UNCHANGED <<world, writing, override>>

ProbeAnswered ==
  /\ refresh = "probe" /\ link' = "open"
  /\ ProbeConfirms \/ ProbeResumes
  /\ UNCHANGED <<world, writing, override>>

\* The socket is closed, which awaits, before the cooldown is entered.
Closes == link' = "closed" /\ refresh' = "closing" /\ UNCHANGED <<loaded, success>>

ProbeFailed ==
  /\ refresh = "probe" /\ machine = "flaky"
  /\ Closes
  /\ UNCHANGED <<world, recovery, writing, override>>

Closed ==
  /\ refresh = "closing"
  /\ EnterCooldown /\ UNCHANGED fails /\ Raise
  /\ UNCHANGED <<world, writing, link, override>>

ReadAnswered ==
  /\ refresh = "read" /\ link' = "open"
  /\ ClearCooldown
  /\ refresh' = "idle" /\ loaded' = TRUE /\ success' = TRUE
  /\ UNCHANGED <<world, writing, override>>

\* The cached values are served while the failures in a row are few.
ServesCache ==
  /\ loaded /\ fails + 1 <= FailureTolerance
  /\ fails' = fails + 1 /\ UNCHANGED <<coolLeft, index, probes>>
  /\ refresh' = "idle" /\ success' = TRUE /\ UNCHANGED loaded

AssumesWedge ==
  /\ loaded /\ fails + 1 > FailureTolerance
  /\ fails' = fails + 1 /\ UNCHANGED <<coolLeft, index, probes>> /\ Closes

SetupFails == ~loaded /\ Raise /\ UNCHANGED recovery

ReadFailed_NoCooldown ==  \* mutant: a failed poll is reported and nothing else
  /\ refresh = "read" /\ machine = "flaky" /\ link' = "closed"
  /\ Raise /\ UNCHANGED recovery
  /\ UNCHANGED <<world, writing, override>>

ReadFailed ==
  /\ refresh = "read" /\ machine = "flaky" /\ link' = "closed"
  /\ ServesCache \/ AssumesWedge \/ SetupFails
  /\ UNCHANGED <<world, writing, override>>

RefreshGoesOn == \/ BridgeBlocks \/ Rests \/ Probes \/ Reads
                 \/ ProbeAnswered \/ ProbeFailed \/ ReadAnswered \/ ReadFailed
                 \/ Closed

-----------------------------------------------------------------------------
(* Beside the refresh.                                                      *)

\* A user's write goes to the client at once, and a refresh follows it.
WriteBegins ==
  /\ loaded /\ ~writing /\ writing' = TRUE
  /\ UNCHANGED <<world, recovery, loaded, success, refresh, link, override>>

WriteEnds ==
  /\ writing /\ writing' = FALSE
  /\ \/ link' = "open"
     \/ machine = "flaky" /\ link' = "closed"
  /\ UNCHANGED <<world, recovery, loaded, success, refresh, override>>

\* End Cooldown: cleared at once, and a refresh is asked for.
EndCooldown ==
  /\ loaded /\ ClearCooldown /\ override' = TRUE
  /\ UNCHANGED <<world, loaded, success, refresh, writing, link>>

Tick ==
  /\ coolLeft > 0 /\ coolLeft' = coolLeft - 1
  /\ UNCHANGED <<world, index, probes, fails, loaded, success, refresh, writing,
                 link, override>>

MachineChanges ==
  /\ machine' \in {"ok", "flaky"}
  /\ UNCHANGED <<blocking, recovery, loaded, success, refresh, writing, link, override>>

BridgeChanges ==
  /\ blocking' \in BOOLEAN
  /\ UNCHANGED <<machine, recovery, loaded, success, refresh, writing, link, override>>

Init ==
  /\ machine \in {"ok", "flaky"} /\ blocking \in BOOLEAN
  /\ coolLeft = NoTime /\ index = 0 /\ probes = 0 /\ fails = 0
  /\ loaded = FALSE /\ success = FALSE
  /\ refresh = "idle" /\ writing = FALSE /\ link = "closed" /\ override = FALSE

Next ==
  \/ Starts \/ RefreshGoesOn
  \/ WriteBegins \/ WriteEnds \/ EndCooldown
  \/ Tick \/ MachineChanges \/ BridgeChanges

Spec == Init /\ [][Next]_vars

\* The refresh timer fires, every request of the client ends, time passes.
FairSpec == Spec /\ WF_vars(Starts) /\ WF_vars(RefreshGoesOn) /\ WF_vars(Tick)

-----------------------------------------------------------------------------
(* Types and counts.                                                        *)
TypeOK ==
  /\ machine \in {"ok", "flaky"} /\ blocking \in BOOLEAN
  /\ coolLeft \in Nat \cup {NoTime} /\ index \in 0..LastStep
  /\ probes \in 0..(ResumeAfterProbes - 1) /\ fails \in 0..(FailureTolerance + 1)
  /\ loaded \in BOOLEAN /\ success \in BOOLEAN
  /\ writing \in BOOLEAN /\ override \in BOOLEAN
  /\ refresh \in {"idle", "health", "probe", "read", "closing"}
  /\ link \in {"open", "closed"}

(* "During cooldown, do not touch the device": no refresh is at the machine, *)
(* not even one that was under way when the cooldown was entered or ended.   *)
RefreshRestsInCooldown == InCooldown => refresh \notin {"probe", "read"}

(* The integration follows the same discipline as the bridge, but for the    *)
(* operator's override.                                                     *)
Discipline == INSTANCE CooldownDiscipline WITH
  Steps <- CooldownSteps, Confirmations <- ResumeAfterProbes,
  rest <- coolLeft,
  step <- IF index < LastStep THEN index + 1 ELSE LastStep,
  good <- IF index = 0 THEN 0 ELSE probes

KeepsDiscipline ==
  /\ Discipline!Init
  /\ [][Discipline!Next \/ (EndCooldown /\ Discipline!Reset)]_(Discipline!vars)

(* Entities do not flap: what was shown is withdrawn only when the bridge    *)
(* blocks or failures enough in a row have begun a cooldown.                *)
WithdrawnForCause ==
  [][success /\ ~success' => blocking \/ index' > 0]_vars

(* A machine that answers again is polled again, whatever went before.       *)
RecoversWhenHealthy ==
  <>[](machine = "ok" /\ ~blocking) => <>[]success

(* End Cooldown forgets the back-off for good: should a probe or a read that  *)
(* was under way still begin a cooldown before the refresh that End Cooldown *)
(* asked for, it is the shortest one (async_end_cooldown).                   *)
OverrideForgetsBackoff == override /\ InCooldown => index = 1

=============================================================================
