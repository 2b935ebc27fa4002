---------------------------- MODULE TimerSwitch ----------------------------
(***************************************************************************)
(* The switch that turns one of the machine's built-in timers off and on   *)
(* again at the time it remembers (switch.py), through updates, periods of  *)
(* unavailability and restarts of Home Assistant.  The machine keeps one    *)
(* value per timer, a time or the disabled sentinel; a snapshot with nothing *)
(* in it yet is all zeros, which decodes to midnight.                       *)
(***************************************************************************)
EXTENDS FiniteSets

CONSTANTS
  Time,       \* times of day in use
  Midnight,   \* 00:00, one of them
  Default,    \* the time the switch starts from
  Disabled,   \* the sentinel (100:100)
  NotSaved    \* no configured_time among the saved attributes

ASSUME TimerAssumption ==
  /\ {Midnight, Default} \subseteq Time /\ {Disabled, NotSaved} \cap Time = {}

VARIABLES
  push,        \* is the coordinator fed by the bridge's stream?  Never changes
  timer,       \* the machine's own value
  up,          \* Home Assistant runs and the entity is added
  data,        \* the timer in the coordinator's snapshot
  available,   \* the entity's
  configured,  \* _configured
  saved,       \* configured_time in the state Home Assistant restores
  seen,        \* every time ever read from the machine
  lastSeen,    \* the last one, or NotSaved
  unsaved      \* has it stopped while unavailable since?

vars == <<push, timer, up, data, available, configured, saved, seen, lastSeen, unsaved>>

Value == Time \cup {Disabled}

Observed(v) ==
  IF v \in Time THEN seen' = seen \cup {v} /\ lastSeen' = v /\ unsaved' = FALSE
                ELSE UNCHANGED <<seen, lastSeen, unsaved>>

Handle_ShowsOnly(v) ==  \* mutant: the time seen is not remembered
  data' = v /\ UNCHANGED configured

\* A coordinator update carrying v.
Handle(v) ==
  /\ data' = v
  /\ configured' = IF v \in Time THEN v ELSE configured

-----------------------------------------------------------------------------
(* Home Assistant starts: a polling coordinator has read the machine first,  *)
(* a pushed one holds the empty seed.                                       *)
Remembered(v) ==
  IF v \in Time THEN v ELSE IF saved # NotSaved THEN saved ELSE Default

Adds_FromRestore ==  \* mutant: restores whatever the machine shows
  /\ ~up /\ ~push /\ up' = TRUE
  /\ data' = timer /\ available' = TRUE /\ Observed(timer)
  /\ configured' = IF saved # NotSaved THEN saved ELSE Midnight
  /\ UNCHANGED <<timer, saved>>

AddsPolling ==
  /\ ~up /\ ~push /\ up' = TRUE
  /\ data' = timer /\ available' = TRUE /\ Observed(timer)
  /\ configured' = Remembered(timer)
  /\ UNCHANGED <<timer, saved>>

AddsPushed ==
  /\ ~up /\ push /\ up' = TRUE
  /\ data' = Midnight /\ available' = FALSE
  /\ configured' = Remembered(Midnight)
  /\ UNCHANGED <<timer, saved, seen, lastSeen, unsaved>>

Update ==
  /\ up /\ available' = TRUE
  /\ Handle(timer) /\ Observed(timer)
  /\ UNCHANGED <<timer, up, saved>>

\* A bridge that has not read the machine yet streams an empty snapshot.
UpdateEmpty ==
  /\ up /\ push /\ available' \in BOOLEAN
  /\ Handle(Midnight)
  /\ UNCHANGED <<timer, up, saved, seen, lastSeen, unsaved>>

\* A failed poll, a lost stream, or a machine the bridge calls unreachable.
TurnsUnavailable ==
  /\ up /\ available' = FALSE
  /\ UNCHANGED <<timer, up, data, configured, saved, seen, lastSeen, unsaved>>

Write(v) ==
  /\ up /\ timer' = v
  /\ UNCHANGED <<up, data, available, configured, saved, seen, lastSeen, unsaved>>

TurnOn  == Write(configured)
TurnOff == Write(Disabled)
SetTime(t) == Write(t)

\* Set at the machine's own panel.
PanelSets(v) ==
  /\ timer' = v
  /\ UNCHANGED <<up, data, available, configured, saved, seen, lastSeen, unsaved>>

\* Home Assistant saves the last state on its way down; the state of an
\* unavailable entity carries no attributes of its own.
Stops ==
  /\ up /\ up' = FALSE
  /\ saved' = IF available THEN configured ELSE NotSaved
  /\ unsaved' = (unsaved \/ ~available)
  /\ UNCHANGED <<timer, data, available, configured, seen, lastSeen>>

Init ==
  /\ push \in BOOLEAN
  /\ timer \in Value /\ up = FALSE /\ data = Disabled /\ available = FALSE
  /\ configured = Default /\ saved = NotSaved /\ seen = {} /\ lastSeen = NotSaved
  /\ unsaved = FALSE

Next ==
  /\ UNCHANGED push
  /\ \/ AddsPolling \/ AddsPushed \/ Update \/ UpdateEmpty \/ TurnsUnavailable
     \/ TurnOn \/ TurnOff \/ Stops
     \/ \E t \in Time : SetTime(t)
     \/ \E v \in Value : PanelSets(v)

Spec == Init /\ [][Next]_vars

-----------------------------------------------------------------------------
TypeOK ==
  /\ {timer, data} \subseteq Value
  /\ configured \in Time /\ saved \in Time \cup {NotSaved}
  /\ {push, up, available, unsaved} \subseteq BOOLEAN
  /\ seen \subseteq Time /\ lastSeen \in Time \cup {NotSaved}

(* With polling, turning the switch on sets a time the machine once had, or  *)
(* the default: "the last time seen on the machine, a value restored across  *)
(* restarts, or a sensible default the very first time" (switch.py).        *)
RemembersGenuine == push \/ configured \in seen \cup {Default}

(* An enabled timer on show is the one that turning off and on keeps.        *)
KeepsEnabledTime == up /\ data \in Time => configured = data

(* "a value restored across restarts" (switch.py): with polling the last     *)
(* time seen survives every restart, but one from an unavailable entity.     *)
RemembersAcrossRestart ==
  ~push /\ up /\ lastSeen # NotSaved /\ ~unsaved => configured = lastSeen

=============================================================================
