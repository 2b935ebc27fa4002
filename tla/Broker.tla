------------------------------- MODULE Broker -------------------------------
(***************************************************************************)
(* The bridge daemon at the moment-to-moment level: every task that wants  *)
(* the machine (poll loop, write-intent loop, MQTT command loop, native    *)
(* LAN clients), the governor's queue and single worker, the client's one  *)
(* TCP link, and the machine itself.                                       *)
(*                                                                         *)
(* Tasks run on one asyncio loop, so code between two awaits is atomic.    *)
(* One action is one such stretch: in particular the worker resolves a     *)
(* job's future, takes the next job and the awaiting caller runs on to its *)
(* next await before any new I/O event is dispatched.                      *)
(***************************************************************************)
EXTENDS DeviceStore, WedgeRecovery, Sequences

CONSTANTS
  Writes,           \* the writes users issue (functions in Partial)
  PanelEdits,       \* the writes made at the machine's own panel
  LanClients,       \* native-protocol clients of the LAN front-end
  MqttEnabled,
  PushEnabled,
  SettingsEvery,    \* settings are read on every SettingsEvery-th cycle
  WriteRetries,     \* extra attempts of a failed write-intent
  MaxRetries,       \* same-socket re-sends of a swallowed request
  IntentQueueMax,
  CommandBound      \* bound of the model: MQTT commands waiting at once

ASSUME BrokerAssumption ==
  /\ Writes \subseteq Partial \ {Nothing}
  /\ PanelEdits \subseteq Partial
  /\ {"poll", "intent", "command"} \cap LanClients = {}
  /\ MqttEnabled \in BOOLEAN /\ PushEnabled \in BOOLEAN
  /\ SettingsEvery \in Nat \ {0} /\ IntentQueueMax \in Nat \ {0}
  /\ WriteRetries \in Nat /\ MaxRetries \in Nat /\ CommandBound \in Nat

VARIABLES
  mode,        \* the machine: "ok", "mute" (greets, then swallows), "off"
  mem,         \* the machine's settings block
  link,        \* the client's socket: "up", "down", or "dead" (its peer is gone)
  worker,      \* the governor's worker and the request it is driving
  lanes,       \* the governor's queue: FIFO of commands, FIFO of polls
  job,         \* job[c]: what caller c is awaiting from the governor
  store,
  wedge,
  poll,        \* the poll loop: where it is, idle flag, cadence counter
  subscribed,  \* is a push subscriber connected?
  intents,     \* accepted write-intents not yet taken
  intent,      \* the write-intent loop
  commands,    \* MQTT commands not yet taken
  command,     \* the MQTT command loop
  abandoned    \* history: overlay bytes whose intent ended unreconciled

machineVars == <<mode, mem>>
wireVars    == <<link, worker, lanes, job>>
stateVars   == <<store, wedge>>
taskVars    == <<poll, intents, intent, commands, command>>
vars == <<machineVars, wireVars, stateVars, taskVars, subscribed, abandoned>>

Modes   == {"ok", "mute", "off"}
Callers == {"poll", "intent", "command"} \cup LanClients

NoJob       == [kind |-> "none", data |-> Nothing]
ReadSettings == [kind |-> "settings", data |-> Nothing]
ReadLive    == [kind |-> "live", data |-> Nothing]
Write(w)    == [kind |-> "write", data |-> w]

NoIntent == [write |-> Nothing, shown |-> FALSE]

-----------------------------------------------------------------------------
(* The governor's queue.  PRIORITY_COMMAND orders every queued write before *)
(* every queued read and the counter keeps ties in FIFO order, which is two *)
(* FIFO lanes with the command lane served first.                           *)

EmptyLanes == [command |-> <<>>, poll |-> <<>>]

Enqueue_NoPriority(q, c, j) ==  \* mutant: a write is queued as a poll
  [q EXCEPT !.poll = Append(@, c)]

Enqueue(q, c, j) ==
  IF j.kind = "write" THEN [q EXCEPT !.command = Append(@, c)]
                      ELSE [q EXCEPT !.poll    = Append(@, c)]

QueueEmpty(q) == q.command = <<>> /\ q.poll = <<>>

First(q) == IF q.command # <<>> THEN Head(q.command) ELSE Head(q.poll)

Dequeue(q) ==
  IF q.command # <<>> THEN [q EXCEPT !.command = Tail(@)]
                      ELSE [q EXCEPT !.poll    = Tail(@)]

\* Caller c submits j and awaits it.
Submit(c, j) ==
  /\ lanes' = Enqueue(lanes, c, j)
  /\ job' = [job EXCEPT ![c] = j]

-----------------------------------------------------------------------------
(* The worker: one job at a time through the client's connection.           *)

IdleWorker == [at |-> "idle", who |-> "poll", attempt |-> 1, tries |-> 0,
               reply |-> Nothing]

\* A request starts on the open socket (dead or not), or by connecting.
Begin(c, l) ==
  [at |-> IF l = "down" THEN "connect" ELSE "pace", who |-> c, attempt |-> 1,
   tries |-> 0, reply |-> Nothing]

NextJob(q, l) == IF QueueEmpty(q) THEN IdleWorker ELSE Begin(First(q), l)
AfterTake(q)  == IF QueueEmpty(q) THEN q ELSE Dequeue(q)

TakeJob ==
  /\ worker.at = "idle" /\ ~QueueEmpty(lanes)
  /\ worker' = NextJob(lanes, link)
  /\ lanes' = AfterTake(lanes)
  /\ UNCHANGED <<machineVars, link, job, stateVars, taskVars, subscribed, abandoned>>

\* Connecting retries with back-off for ever; it ends when the machine greets.
Connected ==
  /\ worker.at = "connect" /\ mode # "off"
  /\ link' = "up"
  /\ worker' = [worker EXCEPT !.at = "warmup"]
  /\ UNCHANGED <<machineVars, lanes, job, stateVars, taskVars, subscribed, abandoned>>

\* The throw-away read is answered, swallowed or cut short: all are ignored.
WarmedUp ==
  /\ worker.at = "warmup"
  /\ worker' = [worker EXCEPT !.at = "pace"]
  /\ UNCHANGED <<machineVars, link, lanes, job, stateVars, taskVars, subscribed, abandoned>>

Send ==
  /\ worker.at = "pace" /\ link # "down"
  /\ worker' = [worker EXCEPT !.at = "await"]
  /\ UNCHANGED <<machineVars, link, lanes, job, stateVars, taskVars, subscribed, abandoned>>

\* The machine executes the request; its reply is on the way.
Serve ==
  /\ worker.at = "await" /\ link = "up" /\ mode = "ok"
  /\ mem' = Overlay(job[worker.who].data, mem)
  /\ worker' = [worker EXCEPT !.at = "served", !.reply = mem']
  /\ UNCHANGED <<mode, link, lanes, job, stateVars, taskVars, subscribed, abandoned>>

\* No reply within the timeout: re-send on the same socket while tries last.
ResendSwallowed ==
  /\ worker.at \in {"await", "served"}
  /\ \/ link = "up" /\ mode = "mute"
     \/ link = "dead"
  /\ worker.tries < MaxRetries
  /\ worker' = [worker EXCEPT !.at = "pace", !.tries = @ + 1, !.reply = Nothing]
  /\ UNCHANGED <<machineVars, link, lanes, job, stateVars, taskVars, subscribed, abandoned>>

\* The exchange failed as a connection error: out of tries, or EOF or a reset
\* because the machine went away or the link was closed under the request.
AttemptFails ==
  /\ worker.at \in {"await", "served"}
  /\ \/ mode = "mute" /\ worker.tries = MaxRetries
     \/ link # "up"

ReconnectAfterFailure ==
  /\ AttemptFails /\ worker.attempt = 1
  /\ link' = "down"
  /\ worker' = [worker EXCEPT !.at = "connect", !.attempt = 2, !.tries = 0,
                              !.reply = Nothing]
  /\ UNCHANGED <<machineVars, lanes, job, stateVars, taskVars, subscribed, abandoned>>

-----------------------------------------------------------------------------
(* What each caller does when its job ends in r \in {"ok", "failed",        *)
(* "crashed"}; "crashed" is an error other than R60VConnectionError.        *)

\* The caller has nothing more to ask of the machine / asks for settings.
Released(c) ==
  /\ job' = [job EXCEPT ![c] = NoJob]
  /\ lanes' = AfterTake(lanes)

Rereads(c, j) ==
  /\ job' = [job EXCEPT ![c] = j]
  /\ lanes' = Enqueue(AfterTake(lanes), c, j)

NextTick == (poll.tick + 1) % SettingsEvery
CycleDone == poll' = [poll EXCEPT !.at = "sleep", !.tick = NextTick]

PollFails_OnlyLogged ==  \* mutant: a failed cycle is logged and nothing more
  UNCHANGED stateVars /\ CycleDone

PollFails_CountOnly ==  \* mutant: entering a cooldown leaves it to the count
  LET streak == RecordFailure(wedge)
  IN  /\ wedge' = IF Wedged(streak) /\ ~InCooldown(streak)
                  THEN BeginCooldown(streak) ELSE streak
      /\ store' = NoteFailure(store)
      /\ CycleDone

PollFails ==
  LET failed == NoteFailure(store)
      streak == RecordFailure(wedge)
      enters == Wedged(streak) /\ ~InCooldown(streak)
  IN  /\ store' = IF enters THEN NoteWedged(failed) ELSE failed
      /\ wedge' = IF enters THEN BeginCooldown(streak) ELSE streak
      /\ CycleDone

PollResumes(r, block) ==
  /\ \/ /\ poll.at = "settings" /\ r = "ok"
        /\ store' = UpdateSettings(store, block)
        /\ poll' = [poll EXCEPT !.at = "live"]
        /\ Rereads("poll", ReadLive)
        /\ UNCHANGED wedge
     \/ /\ poll.at = "live" /\ r = "ok"
        /\ store' = NoteSuccess(UpdateLive(store))
        /\ wedge' = RecordSuccess(wedge)
        /\ CycleDone /\ Released("poll")
     \/ /\ poll.at \in {"settings", "live"} /\ r # "ok"
        /\ PollFails /\ Released("poll")
     \/ /\ poll.at = "probe" /\ r = "ok"
        /\ store' = IF ProbeResumes(wedge)
                    THEN NoteSuccess(UpdateSettings(store, block))
                    ELSE UpdateSettings(store, block)
        /\ wedge' = RecordProbeSuccess(wedge)
        /\ CycleDone /\ Released("poll")
     \/ /\ poll.at = "probe" /\ r # "ok"
        /\ store' = NoteWedged(store)
        /\ wedge' = BeginCooldown(wedge)
        /\ CycleDone /\ Released("poll")
  /\ UNCHANGED <<subscribed, intents, intent, commands, command, abandoned>>

\* The write is over, one way or the other: clear its optimism, then re-read.
Reconcile_MarksOnline(s) ==  \* mutant: an acknowledged write counts as a reading
  /\ store' = NoteSuccess(s)
  /\ abandoned' = {a \in abandoned : s.pending[a] # NoByte}
  /\ intent' = [intent EXCEPT !.at = "reconcile"]
  /\ Rereads("intent", ReadSettings)

Reconcile(s) ==
  /\ store' = s
  /\ abandoned' = {a \in abandoned : s.pending[a] # NoByte}
  /\ intent' = [intent EXCEPT !.at = "reconcile"]
  /\ Rereads("intent", ReadSettings)

IntentDone == intent' = [at |-> "get", cur |-> NoIntent, try |-> 0]

IntentWrote == Reconcile(ReconcileClear(store, intent.cur.write))

IntentRetries ==
  /\ intent.try < WriteRetries
  /\ intent' = [intent EXCEPT !.at = "backoff", !.try = @ + 1]
  /\ Released("intent")
  /\ UNCHANGED <<store, abandoned>>

IntentGivesUp_Unreconciled ==  \* mutant: the overlay is cleared on success only
  /\ intent.try = WriteRetries
  /\ Reconcile(NoteFailure(store))

IntentGivesUp ==
  /\ intent.try = WriteRetries
  /\ Reconcile(NoteFailure(ReconcileClear(store, intent.cur.write)))

\* The error reaches the loop's catch-all: nothing is cleared, nothing re-read.
IntentDies_TaskEnds ==  \* mutant: no catch-all, the loop never runs again
  /\ abandoned' = abandoned \cup {a \in Touched(intent.cur.write) :
                                    store.pending[a] = intent.cur.write[a]}
  /\ Released("intent")
  /\ UNCHANGED <<store, intent>>

IntentDies ==
  /\ abandoned' = abandoned \cup {a \in Touched(intent.cur.write) :
                                    store.pending[a] = intent.cur.write[a]}
  /\ IntentDone /\ Released("intent")
  /\ UNCHANGED store

IntentReread(r, block) ==
  /\ \/ r = "ok"      /\ store' = NoteSuccess(UpdateSettings(store, block))
     \/ r = "failed"  /\ store' = NoteFailure(store)
     \/ r = "crashed" /\ store' = store
  /\ IntentDone /\ Released("intent")
  /\ UNCHANGED abandoned

IntentResumes(r, block) ==
  /\ \/ intent.at = "write" /\ r = "ok" /\ IntentWrote
     \/ intent.at = "write" /\ r = "failed" /\ (IntentRetries \/ IntentGivesUp)
     \/ intent.at = "write" /\ r = "crashed" /\ IntentDies
     \/ intent.at = "reconcile" /\ IntentReread(r, block)
  /\ UNCHANGED <<wedge, poll, intents, commands, command, subscribed>>

CommandRereads_EndsCooldown(block) ==  \* mutant: a good re-read clears the wedge
  /\ store' = NoteSuccess(UpdateSettings(store, block))
  /\ wedge' = RecordSuccess(wedge)

CommandRereads(block) ==
  /\ store' = NoteSuccess(UpdateSettings(store, block))
  /\ UNCHANGED wedge

CommandResumes(r, block) ==
  /\ r # "crashed"
  /\ \/ /\ command.at = "write" /\ r = "ok"
        /\ command' = [at |-> "reread"]
        /\ Rereads("command", ReadSettings)
        /\ UNCHANGED stateVars
     \/ /\ command.at = "reread" /\ r = "ok"
        /\ CommandRereads(block)
        /\ command' = [at |-> "get"] /\ Released("command")
     \/ /\ r = "failed"
        /\ store' = NoteFailure(store) /\ UNCHANGED wedge
        /\ command' = [at |-> "get"] /\ Released("command")
  /\ UNCHANGED <<poll, intents, intent, commands, subscribed, abandoned>>

\* The front-end relays the reply, or nothing; the store is not told.
LanResumes(c) ==
  /\ Released(c)
  /\ UNCHANGED <<stateVars, taskVars, subscribed, abandoned>>

Resumes(c, r, block) ==
  \/ c = "poll"        /\ PollResumes(r, block)
  \/ c = "intent"      /\ IntentResumes(r, block)
  \/ c = "command"     /\ CommandResumes(r, block)
  \/ c \in LanClients  /\ LanResumes(c)

\* A reply already received is returned even if the link has just closed.
JobSucceeds ==
  /\ worker.at = "served"
  /\ worker' = NextJob(lanes, link)
  /\ Resumes(worker.who, "ok", worker.reply)
  /\ UNCHANGED <<machineVars, link>>

\* The second attempt failed too: the link is dropped, the caller told.
JobFails ==
  /\ AttemptFails /\ worker.attempt = 2
  /\ link' = "down"
  /\ worker' = NextJob(lanes, "down")
  /\ Resumes(worker.who, "failed", Nothing)
  /\ UNCHANGED machineVars

\* The link was closed while no reply was awaited: the streams are None, and
\* the request dies of it instead of reconnecting.
JobCrashes ==
  /\ worker.at = "pace" /\ link = "down"
  /\ worker' = NextJob(lanes, link)
  /\ Resumes(worker.who, "crashed", Nothing)
  /\ UNCHANGED <<machineVars, link>>

VolatileReset ==
  /\ link' = "down" /\ worker' = IdleWorker /\ lanes' = EmptyLanes
  /\ job' = [c \in Callers |-> NoJob]
  /\ store' = EmptyStore /\ wedge' = Polling
  /\ poll' = [at |-> "sleep", idle |-> TRUE, tick |-> 0]
  /\ subscribed' = FALSE
  /\ intents' = <<>> /\ intent' = [at |-> "get", cur |-> NoIntent, try |-> 0]
  /\ commands' = <<>> /\ command' = [at |-> "get"]
  /\ abandoned' = {}

\* The MQTT command loop has no catch-all: its task ends, run() re-raises and
\* the supervisor starts a fresh daemon.
DaemonRestarts ==
  /\ worker.at = "pace" /\ link = "down" /\ worker.who = "command"
  /\ VolatileReset
  /\ UNCHANGED machineVars

WorkerStep ==
  \/ TakeJob \/ Connected \/ WarmedUp \/ Send \/ Serve \/ ResendSwallowed
  \/ ReconnectAfterFailure \/ JobSucceeds \/ JobFails \/ JobCrashes
  \/ DaemonRestarts

-----------------------------------------------------------------------------
(* The poll loop.                                                           *)

WantsData == MqttEnabled \/ (PushEnabled /\ subscribed)

PollIdle ==
  /\ poll.at = "sleep" /\ ~WantsData
  /\ poll' = [poll EXCEPT !.idle = TRUE]
  /\ UNCHANGED <<machineVars, wireVars, stateVars, intents, intent, commands,
                 command, subscribed, abandoned>>

\* In cooldown the loop only frees the machine's client slot, whatever the
\* worker is doing with it.
PollRests ==
  /\ poll.at = "sleep" /\ WantsData /\ InCooldown(wedge)
  /\ link' = "down"
  /\ poll' = [poll EXCEPT !.idle = FALSE, !.tick = NextTick]
  /\ UNCHANGED <<machineVars, worker, lanes, job, stateVars, intents, intent,
                 commands, command, subscribed, abandoned>>

PollProbes ==
  /\ poll.at = "sleep" /\ WantsData /\ AwaitingProbe(wedge)
  /\ poll' = [poll EXCEPT !.at = "probe", !.idle = FALSE]
  /\ Submit("poll", ReadSettings)
  /\ UNCHANGED <<machineVars, link, worker, stateVars, intents, intent,
                 commands, command, subscribed, abandoned>>

PollReads_Unguarded ==  \* mutant: the cooldown is not looked at
  /\ poll.at = "sleep" /\ WantsData
  /\ poll' = [poll EXCEPT !.at = "settings", !.idle = FALSE]
  /\ Submit("poll", ReadSettings)
  /\ UNCHANGED <<machineVars, link, worker, stateVars, intents, intent,
                 commands, command, subscribed, abandoned>>

PollReads ==
  /\ poll.at = "sleep" /\ WantsData
  /\ ~InCooldown(wedge) /\ ~AwaitingProbe(wedge)
  /\ LET full == poll.idle \/ poll.tick = 0
     IN  /\ poll' = [poll EXCEPT !.at = IF full THEN "settings" ELSE "live",
                                 !.idle = FALSE]
         /\ Submit("poll", IF full THEN ReadSettings ELSE ReadLive)
  /\ UNCHANGED <<machineVars, link, worker, stateVars, intents, intent,
                 commands, command, subscribed, abandoned>>

PollStep == PollIdle \/ PollRests \/ PollProbes \/ PollReads

-----------------------------------------------------------------------------
(* The write-intent channel of the push server.                             *)

SendIntent_Unbounded(w) ==  \* mutant: the queue has no bound
  /\ PushEnabled /\ subscribed
  /\ store' = ApplyOptimistic(store, w)
  /\ intents' = Append(intents, [write |-> w, shown |-> SettingsKnown(store)])
  /\ UNCHANGED <<machineVars, wireVars, wedge, poll, intent, commands, command,
                 subscribed, abandoned>>

SendIntent(w) ==
  /\ PushEnabled /\ subscribed /\ Len(intents) < IntentQueueMax
  /\ store' = ApplyOptimistic(store, w)
  /\ intents' = Append(intents, [write |-> w, shown |-> SettingsKnown(store)])
  /\ abandoned' = IF SettingsKnown(store) THEN abandoned \ Touched(w) ELSE abandoned
  /\ UNCHANGED <<machineVars, wireVars, wedge, poll, intent, commands, command,
                 subscribed>>

IntentTake ==
  /\ intent.at = "get" /\ intents # <<>>
  /\ intents' = Tail(intents)
  /\ intent' = [at |-> "resting", cur |-> Head(intents), try |-> 0]
  /\ UNCHANGED <<machineVars, wireVars, stateVars, poll, commands, command,
                 subscribed, abandoned>>

\* The cooldown is waited out once, before the first attempt only.
IntentWrites ==
  /\ \/ intent.at = "resting" /\ ~InCooldown(wedge)
     \/ intent.at = "backoff"
  /\ intent' = [intent EXCEPT !.at = "write"]
  /\ Submit("intent", Write(intent.cur.write))
  /\ UNCHANGED <<machineVars, link, worker, stateVars, poll, intents, commands,
                 command, subscribed, abandoned>>

IntentStep == IntentTake \/ IntentWrites

-----------------------------------------------------------------------------
(* MQTT commands and LAN clients.                                           *)

SendCommand(w) ==
  /\ MqttEnabled /\ Len(commands) < CommandBound
  /\ commands' = Append(commands, w)
  /\ UNCHANGED <<machineVars, wireVars, stateVars, poll, intents, intent,
                 command, subscribed, abandoned>>

CommandStep ==
  /\ command.at = "get" /\ commands # <<>>
  /\ commands' = Tail(commands)
  /\ command' = [at |-> "write"]
  /\ Submit("command", Write(Head(commands)))
  /\ UNCHANGED <<machineVars, link, worker, stateVars, poll, intents, intent,
                 subscribed, abandoned>>

LanRequest(c) ==
  /\ job[c].kind = "none"
  /\ \/ Submit(c, ReadSettings)
     \/ \E w \in Writes : Submit(c, Write(w))
  /\ UNCHANGED <<machineVars, link, worker, stateVars, taskVars, subscribed,
                 abandoned>>

-----------------------------------------------------------------------------
(* The world: the machine comes and goes, its panel is used, subscribers    *)
(* come and go, time passes.                                                *)

\* A machine that is switched off leaves the client a dead socket.
MachineTurns(m) ==
  /\ mode # m /\ mode' = m
  /\ link' = IF m = "off" /\ link = "up" THEN "dead" ELSE link
  /\ UNCHANGED <<mem, worker, lanes, job, stateVars, taskVars, subscribed, abandoned>>

PanelEdit(w) ==
  /\ mode # "off" /\ mem' = Overlay(w, mem)
  /\ UNCHANGED <<mode, wireVars, stateVars, taskVars, subscribed, abandoned>>

SubscriberChanges ==
  /\ PushEnabled /\ subscribed' = ~subscribed
  /\ UNCHANGED <<machineVars, wireVars, stateVars, taskVars, abandoned>>

Tick ==
  /\ wedge' = Elapse(wedge)
  /\ UNCHANGED <<machineVars, wireVars, store, taskVars, subscribed, abandoned>>

Init ==
  /\ mode \in Modes /\ mem \in Block
  /\ link = "down" /\ worker = IdleWorker /\ lanes = EmptyLanes
  /\ job = [c \in Callers |-> NoJob]
  /\ store = EmptyStore /\ wedge = Polling
  /\ poll = [at |-> "sleep", idle |-> TRUE, tick |-> 0]
  /\ subscribed = FALSE
  /\ intents = <<>> /\ intent = [at |-> "get", cur |-> NoIntent, try |-> 0]
  /\ commands = <<>> /\ command = [at |-> "get"]
  /\ abandoned = {}

Next ==
  \/ WorkerStep \/ PollStep \/ IntentStep \/ CommandStep \/ Tick
  \/ \E w \in Writes : SendIntent(w) \/ SendCommand(w)
  \/ \E c \in LanClients : LanRequest(c)
  \/ \E m \in Modes : MachineTurns(m)
  \/ \E w \in PanelEdits : PanelEdit(w)
  \/ SubscriberChanges

Spec == Init /\ [][Next]_vars

\* Each task keeps running and the clock keeps ticking; nothing is assumed of
\* the machine, the users or the network.
Fairness ==
  /\ WF_vars(WorkerStep) /\ WF_vars(PollStep) /\ WF_vars(IntentStep)
  /\ WF_vars(CommandStep) /\ WF_vars(Tick)

FairSpec == Spec /\ Fairness

-----------------------------------------------------------------------------
(* Properties.                                                              *)

WorkerType ==
  [at : {"idle", "connect", "warmup", "pace", "await", "served"}, who : Callers,
   attempt : {1, 2}, tries : 0..MaxRetries, reply : Block \cup {Nothing}]
Lanes      == [command : Seq(Callers), poll : Seq(Callers)]
JobType    == [kind : {"none", "settings", "live", "write"}, data : Partial]
PollType   == [at : {"sleep", "settings", "live", "probe"}, idle : BOOLEAN,
               tick : 0..(SettingsEvery - 1)]
Queued     == [write : Partial, shown : BOOLEAN]
IntentType == [at : {"get", "resting", "write", "backoff", "reconcile"},
               cur : Queued, try : 0..WriteRetries]

(* The type invariant; the two user queues respect their bounds.             *)
TypeOK ==
  /\ mode \in Modes /\ mem \in Block
  /\ link \in {"up", "dead", "down"} /\ worker \in WorkerType
  /\ lanes \in Lanes /\ job \in [Callers -> JobType]
  /\ store \in StoreType /\ wedge \in WedgeType
  /\ poll \in PollType /\ subscribed \in BOOLEAN
  /\ intents \in Seq(Queued) /\ Len(intents) <= IntentQueueMax
  /\ intent \in IntentType
  /\ commands \in Seq(Writes) /\ Len(commands) <= CommandBound
  /\ command \in [at : {"get", "write", "reread"}]
  /\ abandoned \in SUBSET Addr

\* Every intent not yet over, oldest first.
Outstanding ==
  IF intent.at \in {"resting", "write", "backoff"}
  THEN <<intent.cur>> \o intents ELSE intents

\* The byte the newest outstanding, reflected intent wants at a.
Newest(a) ==
  LET touching == {i \in 1..Len(Outstanding) :
                     Outstanding[i].shown /\ Outstanding[i].write[a] # NoByte}
  IN  IF touching = {} THEN NoByte
      ELSE Outstanding[CHOOSE i \in touching : \A j \in touching : j <= i].write[a]

(* A caller that awaits the governor is held in exactly one place, once: in  *)
(* the lane of its kind of request, or by the worker; and one that awaits    *)
(* nothing is in neither.  So no future is lost, resolved twice or resolved  *)
(* with another's answer, through every failure (governor.py, _submit, _run).*)
Driven(w, c) == w.at # "idle" /\ w.who = c
InLane(l, c) == \E i \in 1..Len(l) : l[i] = c
NoRepeats(l) == \A i, k \in 1..Len(l) : l[i] = l[k] => i = k

HeldOnce(q, w, j) ==
  /\ NoRepeats(q.command) /\ NoRepeats(q.poll)
  /\ \A c \in Callers :
       /\ InLane(q.command, c) => j[c].kind = "write" /\ ~Driven(w, c)
       /\ InLane(q.poll, c) => j[c].kind \in {"settings", "live"} /\ ~Driven(w, c)
       /\ Driven(w, c) => j[c].kind # "none"
       /\ j[c].kind # "none" =>
            InLane(q.command, c) \/ InLane(q.poll, c) \/ Driven(w, c)

EveryJobHeldOnce == HeldOnce(lanes, worker, job)

(* While a cooldown runs the poll loop has no request anywhere: neither in   *)
(* the governor's queue nor on the wire (broker.py, the in_cooldown branch). *)
PollRestsInCooldown ==
  InCooldown(wedge) =>
    /\ poll.at = "sleep"
    /\ ~Driven(worker, "poll") /\ ~InLane(lanes.poll, "poll")

(* A byte of the overlay always belongs to the newest command that set it    *)
(* and is not over, except where a command died unreconciled (abandoned).    *)
OverlayIsNewest ==
  \A a \in Addr : store.pending[a] # NoByte /\ a \notin abandoned =>
                    store.pending[a] = Newest(a)

(* No read that was under way when a command came in uncovers the old value: *)
(* the cached block shows the overlay wherever it has a byte.                *)
OverlayShown ==
  \A a \in Addr : store.pending[a] # NoByte =>
                    store.settings[a] = store.pending[a]

(* Entering a cooldown leaves the store offline in the same step, even when  *)
(* the failure count has not reached the grace.                              *)
CooldownForcesOffline ==
  [][~InCooldown(wedge) /\ InCooldown(wedge)' => store'.available = "offline"]_vars

(* The store comes online only in a step in which some task receives the     *)
(* answer to a read: never by a command, an ack, a timer or a failure.       *)
OnlineOnlyByReading ==
  [][store.available # "online" /\ store'.available = "online" =>
       worker.at = "served" /\ job[worker.who].kind # "write"]_vars

(* The wedge record, as the poll loop, the other tasks and the clock drive   *)
(* it, follows the cooldown discipline: nothing but time moves a rest, only  *)
(* probes end it, only a full run of good ones resumes polling, whoever else *)
(* reaches the machine meanwhile.  A restarted daemon forgets it.            *)
Discipline == INSTANCE CooldownDiscipline WITH
  Steps <- CooldownSteps, Confirmations <- ResumeAfterProbes,
  rest <- wedge.coolLeft, step <- wedge.index, good <- wedge.probes

WedgeKeepsDiscipline ==
  /\ Discipline!Init
  /\ [][Discipline!Next \/ (DaemonRestarts /\ Discipline!Reset)]_(Discipline!vars)

(* The worker's request, as the client's outcomes are reduced here, keeps    *)
(* PatientRequest, which the bridge's client keeps too (R60VClient,          *)
(* ClientsKeepPatience), whoever closes the link beside it.                  *)
Patience == INSTANCE PatientRequest WITH
  Attempts <- 2, Forever <- TRUE, Warms <- TRUE,
  Resends  <- MaxRetries,
  held     <- link # "down",
  at       <- IF worker.at = "pace" THEN "send"
              ELSE IF worker.at \in {"await", "served"} THEN "wait" ELSE worker.at,
  attempt  <- worker.attempt,
  try      <- IF worker.at \in {"pace", "await", "served"} THEN worker.tries ELSE 0

WorkerKeepsPatience == Patience!Spec

(* Doc: the latest user intent is "never reverted to an older one"           *)
(* (store.py, reconcile_clear): once the cached block shows the newest       *)
(* outstanding intent, it keeps showing it until that intent is over.        *)
LatestIntentNotReverted ==
  [][\A a \in Addr :
       Newest(a) # NoByte /\ store.settings[a] = Newest(a) /\ Newest(a)' = Newest(a)
         => store'.settings[a] = Newest(a)]_vars

(* A machine that stays healthy and watched ends up, and stays, online,      *)
(* through whatever cooldown it started in.                                  *)
HealthyComesOnline ==
  <>[](mode = "ok" /\ WantsData) => <>[](store.available = "online")

(* The classic wedge - greets, answers nothing - ends up, and stays, offline.*)
MuteGoesOffline ==
  <>[](mode = "mute" /\ WantsData) => <>[](store.available = "offline")

(* With the machine healthy, watched and left alone, and no command in       *)
(* progress or abandoned, the cached block keeps returning to the truth.     *)
SettingsConverge ==
  <>[](/\ mode = "ok" /\ WantsData /\ abandoned = {}
       /\ intents = <<>> /\ intent.at = "get")
    => []<>(store.settings = mem)

(* A taken intent is always brought to its end once the machine is healthy.  *)
IntentsEnd == <>[](mode = "ok" /\ WantsData) => []<>(intent.at = "get")

=============================================================================
