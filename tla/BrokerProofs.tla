---------------------------- MODULE BrokerProofs ----------------------------
(***************************************************************************)
(* Theorems about Broker for every value of its constants.                 *)
(*                                                                         *)
(* First what the store's and the wedge machine's operators return, then   *)
(* what the queue operators do to the relation between jobs and the places *)
(* they are held in, then the inductive invariant of the daemon.           *)
(***************************************************************************)
EXTENDS Broker, TLAPS

-----------------------------------------------------------------------------
(* Operators of the store and of the wedge machine.                         *)

\* Overlaying a partial write on a block gives a block again.
LEMMA OverlayBlock ==
  ASSUME NEW top \in Partial, NEW base \in Block
  PROVE  Overlay(top, base) \in Block
BY DEF Overlay, Partial, Block

\* Overlaying partial writes gives a partial write.
LEMMA OverlayPartial ==
  ASSUME NEW top \in Partial, NEW base \in Partial
  PROVE  Overlay(top, base) \in Partial
BY DEF Overlay, Partial

\* Nothing touches no address and is a partial write.
LEMMA NothingPartial == Nothing \in Partial
BY DEF Nothing, Partial

\* Every store operator returns a store.
LEMMA StoreTypes ==
  ASSUME NEW s \in StoreType
  PROVE  /\ \A b \in Block : UpdateSettings(s, b) \in StoreType
         /\ UpdateLive(s) \in StoreType
         /\ NoteSuccess(s) \in StoreType
         /\ NoteFailure(s) \in StoreType
         /\ NoteWedged(s) \in StoreType
         /\ \A w \in Partial : ApplyOptimistic(s, w) \in StoreType
         /\ \A w \in Partial : ReconcileClear(s, w) \in StoreType
<1> USE StoreAssumption DEF StoreAssumption
<1>1. \A b \in Block : UpdateSettings(s, b) \in StoreType
  BY OverlayBlock DEF UpdateSettings, StoreType
<1>2. UpdateLive(s) \in StoreType BY DEF UpdateLive, StoreType
<1>g. 0 \in 0..AvailabilityGrace /\ AvailabilityGrace \in 0..AvailabilityGrace
  OBVIOUS
<1>3. NoteSuccess(s) \in StoreType BY <1>g DEF NoteSuccess, StoreType
<1>4. NoteFailure(s) \in StoreType
  <2>1. CASE s.failStreak + 1 >= AvailabilityGrace
    BY <1>g, <2>1 DEF NoteFailure, StoreType
  <2>2. CASE ~(s.failStreak + 1 >= AvailabilityGrace)
    <3>1. s.failStreak + 1 \in 0..AvailabilityGrace BY <2>2 DEF StoreType
    <3> QED BY <2>2, <3>1 DEF NoteFailure, StoreType
  <2> QED BY <2>1, <2>2
<1>5. NoteWedged(s) \in StoreType BY <1>g DEF NoteWedged, StoreType
<1>6. \A w \in Partial : ApplyOptimistic(s, w) \in StoreType
  BY OverlayBlock, OverlayPartial DEF ApplyOptimistic, SettingsKnown, StoreType
<1>7. \A w \in Partial : ReconcileClear(s, w) \in StoreType
  BY DEF ReconcileClear, StoreType, Partial
<1> QED BY <1>1, <1>2, <1>3, <1>4, <1>5, <1>6, <1>7

\* Every operator of the wedge machine returns a wedge record.
LEMMA WedgeTypes ==
  ASSUME NEW w \in WedgeType
  PROVE  /\ RecordSuccess(w) \in WedgeType
         /\ RecordFailure(w) \in WedgeType
         /\ RecordProbeSuccess(w) \in WedgeType
         /\ BeginCooldown(w) \in WedgeType
         /\ Elapse(w) \in WedgeType
<1> USE WedgeAssumption DEF WedgeAssumption, NoTime
<1>p. 0 \in 0..(ResumeAfterProbes - 1) /\ 0 \in Nat /\ 0 \in NoTime..WedgeAfter
  OBVIOUS
<1>1. RecordSuccess(w) \in WedgeType
  BY <1>p DEF RecordSuccess, Polling, WedgeType
<1>2. RecordFailure(w) \in WedgeType BY <1>p DEF RecordFailure, WedgeType
<1>3. RecordProbeSuccess(w) \in WedgeType
  <2>1. CASE ProbeResumes(w) BY <1>1, <2>1 DEF RecordProbeSuccess
  <2>2. CASE ~ProbeResumes(w)
    <3>1. w.probes + 1 \in 0..(ResumeAfterProbes - 1)
      BY <2>2 DEF WedgeType, ProbeResumes
    <3> QED BY <1>p, <2>2, <3>1 DEF RecordProbeSuccess, WedgeType
  <2> QED BY <2>1, <2>2
<1>4. BeginCooldown(w) \in WedgeType
  <2> DEFINE next == IF w.index < Len(CooldownSteps) THEN w.index + 1 ELSE w.index
  <2>1. next \in 1..Len(CooldownSteps) BY DEF WedgeType
  <2>2. CooldownSteps[w.index] \in Nat BY DEF WedgeType
  <2>3. BeginCooldown(w) = [w EXCEPT !.coolLeft = CooldownSteps[w.index],
                                     !.index = next, !.probes = 0]
    BY DEF BeginCooldown
  <2> HIDE DEF next
  <2> QED BY <1>p, <2>1, <2>2, <2>3 DEF WedgeType
<1>5. Elapse(w) \in WedgeType
  <2> DEFINE age  == IF w.failAge \in 0..(WedgeAfter - 1)
                     THEN w.failAge + 1 ELSE w.failAge
             left == IF w.coolLeft > 0 THEN w.coolLeft - 1 ELSE w.coolLeft
  <2>1. age \in NoTime..WedgeAfter BY DEF WedgeType
  <2>2. left \in {NoTime} \cup Nat BY DEF WedgeType
  <2>3. Elapse(w) = [w EXCEPT !.failAge = age, !.coolLeft = left] BY DEF Elapse
  <2> HIDE DEF age, left
  <2> QED BY <2>1, <2>2, <2>3 DEF WedgeType
<1> QED BY <1>1, <1>2, <1>3, <1>4, <1>5

-----------------------------------------------------------------------------
(* The queue: what entering and leaving it does to HeldOnce.                *)

\* Appending to a lane adds exactly the new caller.
LEMMA AppendLane ==
  ASSUME NEW l \in Seq(Callers), NEW c \in Callers
  PROVE  /\ Append(l, c) \in Seq(Callers)
         /\ \A d \in Callers : InLane(Append(l, c), d) <=> InLane(l, d) \/ d = c
         /\ NoRepeats(l) /\ ~InLane(l, c) => NoRepeats(Append(l, c))
<1>1. /\ Append(l, c) \in Seq(Callers) /\ Len(Append(l, c)) = Len(l) + 1
      /\ \A i \in 1..Len(l) : Append(l, c)[i] = l[i]
      /\ Append(l, c)[Len(l) + 1] = c
  OBVIOUS
<1>2. ASSUME NEW d \in Callers
      PROVE  InLane(Append(l, c), d) <=> InLane(l, d) \/ d = c
  BY <1>1 DEF InLane
<1>3. ASSUME NoRepeats(l), ~InLane(l, c) PROVE NoRepeats(Append(l, c))
  BY <1>1, <1>3 DEF NoRepeats, InLane
<1> QED BY <1>1, <1>2, <1>3

\* Serving a lane removes exactly its head.
LEMMA TailLane ==
  ASSUME NEW l \in Seq(Callers), l # <<>>, NoRepeats(l)
  PROVE  /\ Tail(l) \in Seq(Callers) /\ Head(l) \in Callers
         /\ InLane(l, Head(l)) /\ ~InLane(Tail(l), Head(l))
         /\ \A d \in Callers : d # Head(l) => (InLane(Tail(l), d) <=> InLane(l, d))
         /\ NoRepeats(Tail(l))
<1>1. /\ Tail(l) \in Seq(Callers) /\ Len(Tail(l)) = Len(l) - 1 /\ Len(l) \in Nat \ {0}
      /\ \A i \in 1..(Len(l) - 1) : Tail(l)[i] = l[i + 1]
      /\ Head(l) = l[1] /\ l[1] \in Callers
  OBVIOUS
<1>2. InLane(l, Head(l)) BY <1>1 DEF InLane
<1>3. ~InLane(Tail(l), Head(l)) BY <1>1 DEF InLane, NoRepeats
<1>4. ASSUME NEW d \in Callers, d # Head(l)
      PROVE  InLane(Tail(l), d) <=> InLane(l, d)
  <2>1. InLane(Tail(l), d) => InLane(l, d) BY <1>1 DEF InLane
  <2>2. ASSUME NEW i \in 1..Len(l), l[i] = d PROVE InLane(Tail(l), d)
    <3>1. i - 1 \in 1..(Len(l) - 1) /\ Tail(l)[i - 1] = d BY <1>1, <1>4, <2>2
    <3> QED BY <1>1, <3>1 DEF InLane
  <2> QED BY <2>1, <2>2 DEF InLane
<1>5. NoRepeats(Tail(l)) BY <1>1 DEF NoRepeats
<1> QED BY <1>1, <1>2, <1>3, <1>4, <1>5

\* Every caller is in Callers; lanes of callers stay lanes of callers.
LEMMA QueueTypes ==
  ASSUME NEW q \in Lanes
  PROVE  /\ \A c \in Callers : \A j : Enqueue(q, c, j) \in Lanes
         /\ AfterTake(q) \in Lanes
         /\ ~QueueEmpty(q) => First(q) \in Callers
<1>1. \A l \in Seq(Callers) : l # <<>> => Head(l) \in Callers /\ Tail(l) \in Seq(Callers)
  OBVIOUS
<1>2. \A l \in Seq(Callers), c \in Callers : Append(l, c) \in Seq(Callers)
  OBVIOUS
<1>3. \A c \in Callers : \A j : Enqueue(q, c, j) \in Lanes
  BY <1>2 DEF Enqueue, Lanes
<1>4. AfterTake(q) \in Lanes
  BY <1>1 DEF AfterTake, Dequeue, QueueEmpty, Lanes
<1>5. ~QueueEmpty(q) => First(q) \in Callers
  BY <1>1 DEF First, QueueEmpty, Lanes
<1> QED BY <1>3, <1>4, <1>5

\* A caller that awaits nothing submits a request: it is now held once.
LEMMA SubmitHolds ==
  ASSUME NEW q \in Lanes, NEW w, NEW J, NEW j \in [Callers -> J],
         NEW c \in Callers, NEW r,
         HeldOnce(q, w, j), j[c].kind = "none",
         r.kind \in {"write", "settings", "live"}
  PROVE  HeldOnce(Enqueue(q, c, r), w, [j EXCEPT ![c] = r])
<1> DEFINE k == [j EXCEPT ![c] = r]
           p == Enqueue(q, c, r)
<1> SUFFICES HeldOnce(p, w, k) OBVIOUS
<1>1. q.command \in Seq(Callers) /\ q.poll \in Seq(Callers) BY DEF Lanes
<1>2. ~InLane(q.command, c) /\ ~InLane(q.poll, c) /\ ~Driven(w, c)
  BY DEF HeldOnce
<1>3. k[c] = r /\ \A d \in Callers : d # c => k[d] = j[d] OBVIOUS
<1>4. CASE r.kind = "write"
  <2>1. p.command = Append(q.command, c) /\ p.poll = q.poll
    BY <1>4 DEF Enqueue, Lanes
  <2>2. NoRepeats(p.command) /\ NoRepeats(p.poll)
    BY <1>1, <1>2, <2>1, AppendLane DEF HeldOnce
  <2>3. \A d \in Callers : InLane(p.command, d) <=> InLane(q.command, d) \/ d = c
    BY <1>1, <2>1, AppendLane
  <2> HIDE DEF k, p
  <2> QED BY <1>2, <1>3, <1>4, <2>1, <2>2, <2>3 DEF HeldOnce
<1>5. CASE r.kind # "write"
  <2>1. p.poll = Append(q.poll, c) /\ p.command = q.command
    BY <1>5 DEF Enqueue, Lanes
  <2>2. NoRepeats(p.command) /\ NoRepeats(p.poll)
    BY <1>1, <1>2, <2>1, AppendLane DEF HeldOnce
  <2>3. \A d \in Callers : InLane(p.poll, d) <=> InLane(q.poll, d) \/ d = c
    BY <1>1, <2>1, AppendLane
  <2> HIDE DEF k, p
  <2> QED BY <1>2, <1>3, <1>5, <2>1, <2>2, <2>3 DEF HeldOnce
<1> QED BY <1>4, <1>5

\* The idle worker takes the next job: it moves from the queue to the worker.
LEMMA TakeHolds ==
  ASSUME NEW q \in Lanes, NEW w, NEW j, NEW l,
         HeldOnce(q, w, j), w.at = "idle"
  PROVE  HeldOnce(AfterTake(q), NextJob(q, l), j)
<1> DEFINE v == NextJob(q, l)
           p == AfterTake(q)
<1> SUFFICES HeldOnce(p, v, j) OBVIOUS
<1>1. q.command \in Seq(Callers) /\ q.poll \in Seq(Callers) BY DEF Lanes
<1>2. \A c \in Callers : ~Driven(w, c) BY DEF Driven
<1>3. CASE QueueEmpty(q)
  <2>1. p = q /\ \A c \in Callers : ~Driven(v, c)
    BY <1>3 DEF AfterTake, NextJob, IdleWorker, Driven
  <2> QED BY <1>2, <2>1 DEF HeldOnce
<1>4. CASE ~QueueEmpty(q)
  <2>1. \A c \in Callers : Driven(v, c) <=> c = First(q)
    BY <1>4 DEF NextJob, Begin, Driven
  <2>2. CASE q.command # <<>>
    <3>1. /\ p.command = Tail(q.command) /\ p.poll = q.poll
          /\ First(q) = Head(q.command)
      BY <1>4, <2>2 DEF AfterTake, Dequeue, First, Lanes
    <3>2. /\ NoRepeats(p.command) /\ NoRepeats(p.poll)
          /\ First(q) \in Callers
          /\ InLane(q.command, First(q)) /\ ~InLane(p.command, First(q))
          /\ \A d \in Callers : d # First(q) =>
               (InLane(p.command, d) <=> InLane(q.command, d))
      BY <1>1, <2>2, <3>1, TailLane DEF HeldOnce
    <3> HIDE DEF v, p
    <3> QED BY <1>2, <2>1, <3>1, <3>2 DEF HeldOnce
  <2>3. CASE q.command = <<>>
    <3>1. /\ p.poll = Tail(q.poll) /\ p.command = q.command
          /\ First(q) = Head(q.poll) /\ q.poll # <<>>
      BY <1>4, <2>3 DEF AfterTake, Dequeue, First, Lanes, QueueEmpty
    <3>2. /\ NoRepeats(p.command) /\ NoRepeats(p.poll)
          /\ First(q) \in Callers
          /\ InLane(q.poll, First(q)) /\ ~InLane(p.poll, First(q))
          /\ \A d \in Callers : d # First(q) =>
               (InLane(p.poll, d) <=> InLane(q.poll, d))
      BY <1>1, <3>1, TailLane DEF HeldOnce
    <3> HIDE DEF v, p
    <3> QED BY <1>2, <2>1, <3>1, <3>2 DEF HeldOnce
  <2> QED BY <2>2, <2>3
<1> QED BY <1>3, <1>4

\* The worker ends a job: its caller awaits nothing, the worker is free.
LEMMA ReleaseHolds ==
  ASSUME NEW q \in Lanes, NEW w, NEW J, NEW j \in [Callers -> J], NEW v,
         HeldOnce(q, w, j), Driven(w, w.who), w.who \in Callers, v.at = "idle"
  PROVE  HeldOnce(q, v, [j EXCEPT ![w.who] = NoJob])
<1> DEFINE k == [j EXCEPT ![w.who] = NoJob]
<1> SUFFICES HeldOnce(q, v, k) OBVIOUS
<1>1. k[w.who].kind = "none" /\ \A d \in Callers : d # w.who => k[d] = j[d]
  BY DEF NoJob
<1>2. \A d \in Callers : ~Driven(v, d) /\ (Driven(w, d) <=> d = w.who)
  BY DEF Driven
<1> HIDE DEF k
<1> QED BY <1>1, <1>2 DEF HeldOnce

-----------------------------------------------------------------------------
(* The inductive invariant.                                                 *)

\* A reply on the way is a whole settings block.
ServedReply == worker.at = "served" => worker.reply \in Block

\* A task is at an await exactly when its request is with the governor.
TasksAwait ==
  /\ poll.at # "sleep" <=> job["poll"].kind # "none"
  /\ intent.at \in {"write", "reconcile"} <=> job["intent"].kind # "none"
  /\ command.at # "get" <=> job["command"].kind # "none"

\* A cycle reads only while polling and probes only once the rest is over, and
\* the schedule is at its start whenever no cooldown is on.
PhaseKnown ==
  /\ poll.at \in {"settings", "live"} => wedge.coolLeft = NoTime
  /\ poll.at = "probe" => wedge.coolLeft = 0
  /\ wedge.coolLeft = NoTime => wedge.index = 1 /\ wedge.probes = 0

IInv ==
  /\ TypeOK /\ ServedReply /\ EveryJobHeldOnce
  /\ TasksAwait /\ PhaseKnown

\* The requests tasks make and the worker states built from the queue.
LEMMA JobTypes ==
  /\ NoJob \in JobType /\ ReadSettings \in JobType /\ ReadLive \in JobType
  /\ \A w \in Partial : Write(w) \in JobType
BY NothingPartial DEF NoJob, ReadSettings, ReadLive, Write, JobType

LEMMA WorkerTypes ==
  ASSUME NEW q \in Lanes, NEW l
  PROVE  IdleWorker \in WorkerType /\ NextJob(q, l) \in WorkerType
<1>1. 0 \in 0..MaxRetries BY BrokerAssumption DEF BrokerAssumption
<1>2. IdleWorker \in WorkerType BY <1>1 DEF IdleWorker, WorkerType, Callers
<1>3. \A c \in Callers : Begin(c, l) \in WorkerType
  BY <1>1 DEF Begin, WorkerType
<1> QED BY <1>2, <1>3, QueueTypes DEF NextJob

\* The worker's own steps keep the types.
LEMMA WorkerMovesType ==
  ASSUME TypeOK, TakeJob \/ Connected \/ WarmedUp \/ Send \/ Serve
                 \/ ResendSwallowed \/ ReconnectAfterFailure
  PROVE  TypeOK'
<1>t. CASE TakeJob
  BY <1>t, WorkerTypes, QueueTypes
  DEF TakeJob, TypeOK, machineVars, stateVars, taskVars
<1>c. CASE Connected
  BY <1>c DEF Connected, TypeOK, WorkerType, machineVars, stateVars, taskVars
<1>w. CASE WarmedUp
  BY <1>w DEF WarmedUp, TypeOK, WorkerType, machineVars, stateVars, taskVars
<1>s. CASE Send
  BY <1>s DEF Send, TypeOK, WorkerType, machineVars, stateVars, taskVars
<1>v. CASE Serve
  <2>1. job[worker.who].data \in Partial
    BY DEF TypeOK, WorkerType, JobType
  <2>2. mem' \in Block BY <1>v, <2>1, OverlayBlock DEF Serve, TypeOK
  <2>3. worker' \in WorkerType BY <1>v, <2>2 DEF Serve, TypeOK, WorkerType
  <2> QED BY <1>v, <2>2, <2>3 DEF Serve, TypeOK, stateVars, taskVars
<1>r. CASE ResendSwallowed
  <2>1. worker.tries + 1 \in 0..MaxRetries
    BY <1>r, BrokerAssumption
    DEF ResendSwallowed, TypeOK, WorkerType, BrokerAssumption
  <2>2. worker' \in WorkerType
    BY <1>r, <2>1 DEF ResendSwallowed, TypeOK, WorkerType
  <2> QED BY <1>r, <2>2 DEF ResendSwallowed, TypeOK, machineVars, stateVars, taskVars
<1>f. CASE ReconnectAfterFailure
  <2>1. 0 \in 0..MaxRetries BY BrokerAssumption DEF BrokerAssumption
  <2>2. worker' \in WorkerType
    BY <1>f, <2>1 DEF ReconnectAfterFailure, TypeOK, WorkerType
  <2> QED
    BY <1>f, <2>2 DEF ReconnectAfterFailure, TypeOK, machineVars, stateVars, taskVars
<1> QED BY <1>t, <1>c, <1>w, <1>s, <1>v, <1>r, <1>f

\* Whoever resumes either asks for one more read or leaves the governor.
LEMMA ResumesShape ==
  ASSUME NEW c, NEW r, NEW b, Resumes(c, r, b)
  PROVE  Released(c) \/ Rereads(c, ReadSettings) \/ Rereads(c, ReadLive)
<1>1. ASSUME PollResumes(r, b)
      PROVE  Released("poll") \/ Rereads("poll", ReadLive)
  BY <1>1 DEF PollResumes
<1>2. ASSUME IntentResumes(r, b)
      PROVE  Released("intent") \/ Rereads("intent", ReadSettings)
  BY <1>2 DEF IntentResumes, IntentWrote, IntentRetries, IntentGivesUp, IntentDies,
       IntentReread, Reconcile
<1>3. ASSUME CommandResumes(r, b)
      PROVE  Released("command") \/ Rereads("command", ReadSettings)
  BY <1>3 DEF CommandResumes, CommandRereads, stateVars
<1>4. ASSUME LanResumes(c) PROVE Released(c) BY <1>4 DEF LanResumes
<1> QED BY <1>1, <1>2, <1>3, <1>4 DEF Resumes

\* The store and the wedge record a resuming caller leaves behind.
LEMMA ResumesState ==
  ASSUME NEW c, NEW r \in {"ok", "failed", "crashed"}, NEW b, TypeOK,
         Resumes(c, r, b), r = "ok" => b \in Block
  PROVE  store' \in StoreType /\ wedge' \in WedgeType
<1> USE StoreTypes, WedgeTypes
<1>0. store \in StoreType /\ wedge \in WedgeType
      /\ intent.cur.write \in Partial
  BY DEF TypeOK, IntentType, Queued
<1>1. ASSUME PollResumes(r, b) PROVE store' \in StoreType /\ wedge' \in WedgeType
  <2>1. ASSUME PollFails PROVE store' \in StoreType /\ wedge' \in WedgeType
    BY <1>0, <2>1 DEF PollFails
  <2> QED BY <1>0, <1>1, <2>1 DEF PollResumes
<1>2. ASSUME IntentResumes(r, b) PROVE store' \in StoreType /\ wedge' \in WedgeType
  <2> DEFINE cleared == ReconcileClear(store, intent.cur.write)
  <2>1. cleared \in StoreType BY <1>0
  <2>2. NoteFailure(cleared) \in StoreType BY <2>1
  <2>3. NoteFailure(store) \in StoreType BY <1>0
  <2>4. r = "ok" => NoteSuccess(UpdateSettings(store, b)) \in StoreType BY <1>0
  <2> HIDE StoreTypes, WedgeTypes
  <2>5. wedge' = wedge BY <1>2
     DEF IntentResumes, IntentWrote, IntentRetries, IntentGivesUp, IntentDies,
       IntentReread
  <2>6. CASE intent.at = "write"
    BY <1>0, <1>2, <2>1, <2>2, <2>6
     DEF IntentResumes, IntentWrote, IntentRetries, IntentGivesUp, IntentDies,
       IntentReread, Reconcile
  <2>7. CASE intent.at = "reconcile"
    BY <1>0, <1>2, <2>3, <2>4, <2>7
     DEF IntentResumes, IntentWrote, IntentRetries, IntentGivesUp, IntentDies,
       IntentReread
  <2>8. intent.at \in {"write", "reconcile"} BY <1>2
     DEF IntentResumes, IntentWrote, IntentRetries, IntentGivesUp, IntentDies,
       IntentReread
  <2> QED BY <1>0, <2>5, <2>6, <2>7, <2>8
<1>3. ASSUME CommandResumes(r, b) PROVE store' \in StoreType /\ wedge' \in WedgeType
  BY <1>0, <1>3 DEF CommandResumes, CommandRereads, stateVars
<1>4. ASSUME LanResumes(c) PROVE store' \in StoreType /\ wedge' \in WedgeType
  BY <1>0, <1>4 DEF LanResumes, stateVars
<1> QED BY <1>1, <1>2, <1>3, <1>4 DEF Resumes

\* The tasks' own records after a resume.
LEMMA ResumesTasks ==
  ASSUME NEW c, NEW r, NEW b, TypeOK, Resumes(c, r, b)
  PROVE  /\ poll' \in PollType /\ intent' \in IntentType
         /\ command' \in [at : {"get", "write", "reread"}]
         /\ abandoned' \in SUBSET Addr
         /\ UNCHANGED <<intents, commands, subscribed>>
<1> DEFINE Goal == /\ poll' \in PollType /\ intent' \in IntentType
                   /\ command' \in [at : {"get", "write", "reread"}]
                   /\ abandoned' \in SUBSET Addr
                   /\ UNCHANGED <<intents, commands, subscribed>>
<1>t. /\ poll \in PollType /\ intent \in IntentType /\ abandoned \in SUBSET Addr
      /\ command \in [at : {"get", "write", "reread"}]
  BY DEF TypeOK
<1>1. ASSUME PollResumes(r, b) PROVE Goal
  <2>1. NextTick \in 0..(SettingsEvery - 1)
    BY <1>t, BrokerAssumption DEF NextTick, PollType, BrokerAssumption
  <2>2. CycleDone => poll' \in PollType BY <1>t, <2>1 DEF CycleDone, PollType
  <2>3. [poll EXCEPT !.at = "live"] \in PollType BY <1>t DEF PollType
  <2> QED BY <1>1, <1>t, <2>2, <2>3 DEF PollResumes, PollFails
<1>2. ASSUME IntentResumes(r, b) PROVE Goal
  <2>1. IntentDone => intent' \in IntentType
    BY NothingPartial, BrokerAssumption
    DEF IntentDone, IntentType, NoIntent, Queued, BrokerAssumption
  <2>2. \A s : Reconcile(s) => intent' \in IntentType /\ abandoned' \in SUBSET Addr
    BY <1>t DEF Reconcile, IntentType
  <2>3. ASSUME intent.try < WriteRetries
        PROVE  [intent EXCEPT !.at = "backoff", !.try = @ + 1] \in IntentType
    <3>1. intent.try + 1 \in 0..WriteRetries
      BY <1>t, <2>3, BrokerAssumption DEF IntentType, BrokerAssumption
    <3> QED BY <1>t, <3>1 DEF IntentType
  <2>4. Touched(intent.cur.write) \subseteq Addr BY DEF Touched
  <2> QED BY <1>2, <1>t, <2>1, <2>2, <2>3, <2>4
     DEF IntentResumes, IntentWrote, IntentRetries, IntentGivesUp, IntentDies,
       IntentReread
<1>3. ASSUME CommandResumes(r, b) PROVE Goal
  BY <1>3, <1>t DEF CommandResumes, CommandRereads, stateVars
<1>4. ASSUME LanResumes(c) PROVE Goal
  BY <1>4, <1>t DEF LanResumes, taskVars
<1> QED BY <1>1, <1>2, <1>3, <1>4 DEF Resumes

\* The end of a job keeps the types, whatever its result.
LEMMA JobEndsType ==
  ASSUME TypeOK, ServedReply, JobSucceeds \/ JobFails \/ JobCrashes
  PROVE  TypeOK'
<1>1. PICK r \in {"ok", "failed", "crashed"}, b \in Block \cup {Nothing} :
        Resumes(worker.who, r, b) /\ (r = "ok" => b \in Block)
  BY DEF JobSucceeds, JobFails, JobCrashes, ServedReply
<1>2. worker' \in WorkerType /\ link' \in {"up", "dead", "down"} /\ mode' \in Modes
      /\ mem' \in Block
  BY WorkerTypes
  DEF JobSucceeds, JobFails, JobCrashes, TypeOK, machineVars
<1>3. lanes' \in Lanes /\ job' \in [Callers -> JobType]
  <2>1. worker.who \in Callers BY DEF TypeOK, WorkerType
  <2>2. AfterTake(lanes) \in Lanes BY QueueTypes DEF TypeOK
  <2>3. \A j : Enqueue(AfterTake(lanes), worker.who, j) \in Lanes
    BY <2>1, <2>2, QueueTypes
  <2>4. CASE Released(worker.who)
    BY <2>1, <2>2, <2>4, JobTypes DEF Released, TypeOK
  <2>5. ASSUME NEW j \in JobType, Rereads(worker.who, j)
        PROVE  lanes' \in Lanes /\ job' \in [Callers -> JobType]
    BY <2>1, <2>3, <2>5 DEF Rereads, TypeOK
  <2> QED BY <1>1, <2>4, <2>5, ResumesShape, JobTypes
<1>4. store' \in StoreType /\ wedge' \in WedgeType BY <1>1, ResumesState
<1>5. /\ poll' \in PollType /\ intent' \in IntentType
      /\ command' \in [at : {"get", "write", "reread"}]
      /\ abandoned' \in SUBSET Addr
      /\ UNCHANGED <<intents, commands, subscribed>>
  BY <1>1, ResumesTasks
<1> QED BY <1>2, <1>3, <1>4, <1>5 DEF TypeOK

\* The tasks' and the world's steps keep the types.
LEMMA TasksMoveType ==
  ASSUME TypeOK, PollStep \/ IntentStep \/ CommandStep
  PROVE  TypeOK'
<1>s. ASSUME NEW c \in Callers, NEW j \in JobType, Submit(c, j)
      PROVE  lanes' \in Lanes /\ job' \in [Callers -> JobType]
  BY <1>s, QueueTypes DEF Submit, TypeOK
<1>c. {"poll", "intent", "command"} \subseteq Callers BY DEF Callers
<1>u. machineVars' = machineVars /\ worker' = worker => mode' = mode /\ mem' = mem
  BY DEF machineVars
<1>1. CASE PollIdle
  BY <1>1 DEF PollIdle, TypeOK, PollType, machineVars, wireVars, stateVars
<1>2. CASE PollRests
  <2>1. NextTick \in 0..(SettingsEvery - 1)
    BY BrokerAssumption DEF NextTick, TypeOK, PollType, BrokerAssumption
  <2>2. poll' \in PollType BY <1>2, <2>1 DEF PollRests, TypeOK, PollType
  <2> QED BY <1>2, <2>2 DEF PollRests, TypeOK, machineVars, stateVars
<1>3. CASE PollProbes
  <2>1. poll' \in PollType BY <1>3 DEF PollProbes, TypeOK, PollType
  <2>2. lanes' \in Lanes /\ job' \in [Callers -> JobType]
    BY <1>3, <1>s, <1>c, JobTypes DEF PollProbes
  <2> QED BY <1>3, <2>1, <2>2 DEF PollProbes, TypeOK, machineVars, stateVars
<1>4. CASE PollReads
  <2>1. poll' \in PollType BY <1>4 DEF PollReads, TypeOK, PollType
  <2>2. lanes' \in Lanes /\ job' \in [Callers -> JobType]
    BY <1>4, <1>s, <1>c, JobTypes DEF PollReads
  <2> QED BY <1>4, <2>1, <2>2 DEF PollReads, TypeOK, machineVars, stateVars
<1>5. CASE IntentTake
  <2>1. /\ Head(intents) \in Queued /\ Tail(intents) \in Seq(Queued)
        /\ Len(Tail(intents)) <= IntentQueueMax
    BY <1>5, BrokerAssumption DEF IntentTake, TypeOK, BrokerAssumption
  <2>2. intent' \in IntentType
    BY <1>5, <2>1, BrokerAssumption DEF IntentTake, IntentType, BrokerAssumption
  <2> QED BY <1>5, <2>1, <2>2
      DEF IntentTake, TypeOK, machineVars, wireVars, stateVars
<1>6. CASE IntentWrites
  <2>1. intent' \in IntentType BY <1>6 DEF IntentWrites, TypeOK, IntentType
  <2>2. Write(intent.cur.write) \in JobType
    BY JobTypes DEF TypeOK, IntentType, Queued
  <2>3. lanes' \in Lanes /\ job' \in [Callers -> JobType]
    BY <1>6, <1>s, <1>c, <2>2 DEF IntentWrites
  <2> QED BY <1>6, <2>1, <2>3 DEF IntentWrites, TypeOK, machineVars, stateVars
<1>7. CASE CommandStep
  <2>1. /\ Head(commands) \in Writes /\ Tail(commands) \in Seq(Writes)
        /\ Len(Tail(commands)) <= CommandBound
    BY <1>7, BrokerAssumption DEF CommandStep, TypeOK, BrokerAssumption
  <2>2. Write(Head(commands)) \in JobType
    BY <2>1, JobTypes, BrokerAssumption DEF BrokerAssumption
  <2>3. lanes' \in Lanes /\ job' \in [Callers -> JobType]
    BY <1>7, <1>s, <1>c, <2>2 DEF CommandStep
  <2> QED BY <1>7, <2>1, <2>3 DEF CommandStep, TypeOK, machineVars, stateVars
<1> QED BY <1>1, <1>2, <1>3, <1>4, <1>5, <1>6, <1>7
    DEF PollStep, IntentStep

LEMMA WorldMovesType ==
  ASSUME TypeOK,
         \/ \E w \in Writes : SendIntent(w) \/ SendCommand(w)
         \/ \E c \in LanClients : LanRequest(c)
         \/ \E m \in Modes : MachineTurns(m)
         \/ \E w \in PanelEdits : PanelEdit(w)
         \/ SubscriberChanges \/ Tick
  PROVE  TypeOK'
<1>1. ASSUME NEW w \in Writes, SendIntent(w) PROVE TypeOK'
  <2>1. w \in Partial BY BrokerAssumption DEF BrokerAssumption
  <2>2. store' \in StoreType BY <1>1, <2>1, StoreTypes DEF SendIntent, TypeOK
  <2>3. intents' \in Seq(Queued) /\ Len(intents') <= IntentQueueMax
    <3>1. [write |-> w, shown |-> SettingsKnown(store)] \in Queued
      BY <2>1 DEF Queued, SettingsKnown
    <3> QED BY <1>1, <3>1, BrokerAssumption DEF SendIntent, TypeOK, BrokerAssumption
  <2>4. abandoned' \in SUBSET Addr BY <1>1 DEF SendIntent, TypeOK
  <2> QED BY <1>1, <2>2, <2>3, <2>4 DEF SendIntent, TypeOK, machineVars, wireVars
<1>2. ASSUME NEW w \in Writes, SendCommand(w) PROVE TypeOK'
  <2>1. commands' \in Seq(Writes) /\ Len(commands') <= CommandBound
    BY <1>2, BrokerAssumption DEF SendCommand, TypeOK, BrokerAssumption
  <2> QED BY <1>2, <2>1 DEF SendCommand, TypeOK, machineVars, wireVars, stateVars
<1>3. ASSUME NEW c \in LanClients, LanRequest(c) PROVE TypeOK'
  <2>1. c \in Callers BY DEF Callers
  <2>2. PICK j \in JobType : Submit(c, j)
    BY <1>3, JobTypes, BrokerAssumption DEF LanRequest, BrokerAssumption
  <2>3. lanes' \in Lanes /\ job' \in [Callers -> JobType]
    BY <2>1, <2>2, QueueTypes DEF Submit, TypeOK
  <2> QED BY <1>3, <2>3 DEF LanRequest, TypeOK, machineVars, stateVars, taskVars
<1>4. ASSUME NEW m \in Modes, MachineTurns(m) PROVE TypeOK'
  BY <1>4 DEF MachineTurns, TypeOK, wireVars, stateVars, taskVars
<1>5. ASSUME NEW w \in PanelEdits, PanelEdit(w) PROVE TypeOK'
  <2>1. mem' \in Block
    BY <1>5, OverlayBlock, BrokerAssumption DEF PanelEdit, TypeOK, BrokerAssumption
  <2> QED BY <1>5, <2>1 DEF PanelEdit, TypeOK, wireVars, stateVars, taskVars
<1>6. ASSUME SubscriberChanges PROVE TypeOK'
  BY <1>6 DEF SubscriberChanges, TypeOK, machineVars, wireVars, stateVars, taskVars
<1>7. ASSUME Tick PROVE TypeOK'
  BY <1>7, WedgeTypes DEF Tick, TypeOK, machineVars, wireVars, taskVars
<1> QED BY <1>1, <1>2, <1>3, <1>4, <1>5, <1>6, <1>7

\* A fresh daemon has the right types and holds no job.
LEMMA ResetHolds ==
  ASSUME VolatileReset
  PROVE  /\ (mode' \in Modes /\ mem' \in Block => TypeOK')
         /\ ServedReply' /\ EveryJobHeldOnce' /\ TasksAwait' /\ PhaseKnown'
<1>0. {"poll", "intent", "command"} \subseteq Callers BY DEF Callers
<1>1. EmptyLanes \in Lanes BY DEF EmptyLanes, Lanes
<1>2. worker' \in WorkerType BY <1>1, WorkerTypes DEF VolatileReset
<1>3. EmptyStore \in StoreType
  BY NothingPartial, StoreAssumption DEF EmptyStore, StoreType, StoreAssumption
<1>4. Polling \in WedgeType
  BY WedgeAssumption DEF Polling, WedgeType, WedgeAssumption, NoTime
<1>5. /\ job' \in [Callers -> JobType]
      /\ \A c \in Callers : job'[c].kind = "none"
  BY JobTypes DEF VolatileReset, NoJob
<1>6. poll' \in PollType /\ intent' \in IntentType /\ poll'.at = "sleep"
      /\ intent'.at = "get"
  <2>1. 0 \in 0..(SettingsEvery - 1) /\ 0 \in 0..WriteRetries
    BY BrokerAssumption DEF BrokerAssumption
  <2> QED BY <2>1, NothingPartial
      DEF VolatileReset, PollType, IntentType, NoIntent, Queued
<1>7. intents' \in Seq(Queued) /\ commands' \in Seq(Writes)
      /\ Len(intents') <= IntentQueueMax /\ Len(commands') <= CommandBound
  BY BrokerAssumption DEF VolatileReset, BrokerAssumption
<1>8. mode' \in Modes /\ mem' \in Block => TypeOK'
  BY <1>1, <1>2, <1>3, <1>4, <1>5, <1>6, <1>7 DEF TypeOK, VolatileReset
<1>9. ServedReply' BY DEF ServedReply, VolatileReset, IdleWorker
<1>10. EveryJobHeldOnce'
  <2>1. lanes' = EmptyLanes /\ worker'.at = "idle"
    BY DEF VolatileReset, IdleWorker
  <2>2. lanes'.command = <<>> /\ lanes'.poll = <<>> BY <2>1 DEF EmptyLanes
  <2>3. \A c \in Callers : ~InLane(lanes'.command, c) /\ ~InLane(lanes'.poll, c)
                           /\ ~Driven(worker', c)
    BY <2>1, <2>2 DEF InLane, Driven
  <2>4. NoRepeats(lanes'.command) /\ NoRepeats(lanes'.poll)
    BY <2>2 DEF NoRepeats
  <2> QED BY <1>5, <2>3, <2>4 DEF EveryJobHeldOnce, HeldOnce
<1>11. TasksAwait' BY <1>0, <1>5, <1>6 DEF TasksAwait, VolatileReset
<1>12. PhaseKnown' BY <1>6 DEF PhaseKnown, Polling, VolatileReset, NoTime
<1> QED BY <1>8, <1>9, <1>10, <1>11, <1>12

\* A job ends: its caller is released, or queued again with a read.
LEMMA JobEndsHolds ==
  ASSUME TypeOK, EveryJobHeldOnce, worker.at # "idle",
         NEW l, worker' = NextJob(lanes, l),
         \/ Released(worker.who)
         \/ Rereads(worker.who, ReadSettings) \/ Rereads(worker.who, ReadLive)
  PROVE  EveryJobHeldOnce'
<1> DEFINE c == worker.who
           released == [job EXCEPT ![c] = NoJob]
<1>1. /\ c \in Callers /\ Driven(worker, c) /\ lanes \in Lanes
      /\ job \in [Callers -> JobType]
  BY DEF TypeOK, WorkerType, Driven
<1>2. HeldOnce(lanes, IdleWorker, released)
  BY <1>1, ReleaseHolds DEF EveryJobHeldOnce, IdleWorker
<1>3. HeldOnce(AfterTake(lanes), worker', released)
  BY <1>1, <1>2, TakeHolds DEF IdleWorker
<1>4. CASE Released(c) BY <1>3, <1>4 DEF Released, EveryJobHeldOnce
<1>5. ASSUME NEW r \in {ReadSettings, ReadLive}, Rereads(c, r)
      PROVE  EveryJobHeldOnce'
  <2>1. AfterTake(lanes) \in Lanes BY <1>1, QueueTypes
  <2>2. released \in [Callers -> JobType] /\ released[c].kind = "none"
    BY <1>1, JobTypes DEF NoJob
  <2>3. r.kind \in {"write", "settings", "live"} BY DEF ReadSettings, ReadLive
  <2>4. HeldOnce(Enqueue(AfterTake(lanes), c, r), worker', [released EXCEPT ![c] = r])
    BY <1>1, <1>3, <2>1, <2>2, <2>3, SubmitHolds
  <2>5. [released EXCEPT ![c] = r] = [job EXCEPT ![c] = r] BY <1>1
  <2> QED BY <1>5, <2>4, <2>5 DEF Rereads, EveryJobHeldOnce
<1> QED BY <1>4, <1>5

\* A task or a LAN client submits: held once more.
LEMMA SubmitKeepsHeld ==
  ASSUME TypeOK, EveryJobHeldOnce, worker' = worker, NEW c \in Callers,
         job[c].kind = "none", NEW r,
         r.kind \in {"write", "settings", "live"}, Submit(c, r)
  PROVE  EveryJobHeldOnce'
<1>1. lanes \in Lanes /\ job \in [Callers -> JobType] BY DEF TypeOK
<1>2. HeldOnce(Enqueue(lanes, c, r), worker, [job EXCEPT ![c] = r])
  BY <1>1, SubmitHolds DEF EveryJobHeldOnce
<1> QED BY <1>2 DEF Submit, EveryJobHeldOnce

\* Every step keeps every job in its one place.
LEMMA HeldStep ==
  ASSUME TypeOK, TasksAwait, EveryJobHeldOnce, [Next]_vars
  PROVE  EveryJobHeldOnce'
<1>0. /\ {"poll", "intent", "command"} \subseteq Callers
      /\ LanClients \subseteq Callers
  BY DEF Callers
<1>k. ASSUME UNCHANGED <<lanes, job>>,
             worker'.who = worker.who, worker'.at # "idle", worker.at # "idle"
      PROVE  EveryJobHeldOnce'
  BY <1>k DEF EveryJobHeldOnce, HeldOnce, Driven
<1>u. ASSUME UNCHANGED <<lanes, job, worker>> PROVE EveryJobHeldOnce'
  BY <1>u DEF EveryJobHeldOnce
<1>1. CASE TakeJob
  BY <1>1, TakeHolds DEF TakeJob, EveryJobHeldOnce, TypeOK
<1>2. CASE Connected \/ WarmedUp \/ Send \/ Serve \/ ResendSwallowed
           \/ ReconnectAfterFailure
  <2>1. UNCHANGED <<lanes, job>> /\ worker.at # "idle"
    BY <1>2 DEF Connected, WarmedUp, Send, Serve, ResendSwallowed,
                ReconnectAfterFailure, AttemptFails
  <2>2. worker'.who = worker.who /\ worker'.at # "idle"
    BY <1>2 DEF Connected, WarmedUp, Send, Serve, ResendSwallowed,
                ReconnectAfterFailure, TypeOK, WorkerType
  <2> QED BY <1>k, <2>1, <2>2
<1>3. CASE JobSucceeds \/ JobFails \/ JobCrashes
  <2>1. worker.at # "idle"
    BY <1>3 DEF JobSucceeds, JobFails, JobCrashes, AttemptFails
  <2>2. \E l : worker' = NextJob(lanes, l)
    BY <1>3 DEF JobSucceeds, JobFails, JobCrashes
  <2>3. \E r, b : Resumes(worker.who, r, b)
    BY <1>3 DEF JobSucceeds, JobFails, JobCrashes
  <2> QED BY <2>1, <2>2, <2>3, ResumesShape, JobEndsHolds
<1>4. CASE DaemonRestarts BY <1>4, ResetHolds DEF DaemonRestarts
<1>5. CASE PollStep
  <2>1. CASE PollIdle \/ PollRests
    BY <1>u, <2>1 DEF PollIdle, PollRests, wireVars
  <2>2. CASE PollProbes
    BY <1>0, <2>2, SubmitKeepsHeld DEF PollProbes, TasksAwait, ReadSettings
  <2>3. CASE PollReads
    BY <1>0, <2>3, SubmitKeepsHeld
    DEF PollReads, TasksAwait, ReadSettings, ReadLive
  <2> QED BY <1>5, <2>1, <2>2, <2>3 DEF PollStep
<1>6. CASE IntentStep
  <2>1. CASE IntentTake BY <1>u, <2>1 DEF IntentTake, wireVars
  <2>2. CASE IntentWrites
    BY <1>0, <2>2, SubmitKeepsHeld DEF IntentWrites, TasksAwait, Write
  <2> QED BY <1>6, <2>1, <2>2 DEF IntentStep
<1>7. CASE CommandStep
  BY <1>0, <1>7, SubmitKeepsHeld DEF CommandStep, TasksAwait, Write
<1>8. ASSUME NEW c \in LanClients, LanRequest(c) PROVE EveryJobHeldOnce'
  <2>1. PICK j \in {ReadSettings} \cup {Write(w) : w \in Writes} : Submit(c, j)
    BY <1>8 DEF LanRequest
  <2>2. j.kind \in {"write", "settings", "live"} BY DEF ReadSettings, Write
  <2>3. worker' = worker /\ job[c].kind = "none" BY <1>8 DEF LanRequest
  <2> QED BY <1>0, <2>1, <2>2, <2>3, SubmitKeepsHeld
<1>9. ASSUME \/ \E w \in Writes : SendIntent(w) \/ SendCommand(w)
             \/ \E m \in Modes : MachineTurns(m)
             \/ \E w \in PanelEdits : PanelEdit(w)
             \/ SubscriberChanges \/ Tick \/ UNCHANGED vars
      PROVE  EveryJobHeldOnce'
  BY <1>9, <1>u DEF SendIntent, SendCommand, MachineTurns, PanelEdit,
                    SubscriberChanges, Tick, wireVars, vars
<1> QED BY <1>1, <1>2, <1>3, <1>4, <1>5, <1>6, <1>7, <1>8, <1>9
    DEF Next, WorkerStep

\* A resuming task leaves its await exactly when it leaves the governor.
LEMMA ResumesAwait ==
  ASSUME TypeOK, TasksAwait, NEW r, NEW b, Resumes(worker.who, r, b),
         worker.at # "idle", EveryJobHeldOnce
  PROVE  TasksAwait'
<1>0. /\ job \in [Callers -> JobType] /\ worker.who \in Callers
      /\ {"poll", "intent", "command"} \subseteq Callers
      /\ "poll" \notin LanClients /\ "intent" \notin LanClients
      /\ "command" \notin LanClients
  BY BrokerAssumption DEF TypeOK, WorkerType, Callers, BrokerAssumption
<1>1. /\ \A c \in Callers : Released(c) =>
           job'[c].kind = "none" /\ \A d \in Callers : d # c => job'[d] = job[d]
      /\ \A c \in Callers, j \in {ReadSettings, ReadLive} : Rereads(c, j) =>
           job'[c].kind # "none" /\ \A d \in Callers : d # c => job'[d] = job[d]
  BY <1>0 DEF Released, Rereads, NoJob, ReadSettings, ReadLive
<1>2. CASE worker.who = "poll" /\ PollResumes(r, b)
  <2>1. poll'.at \in {"sleep", "live"} /\ (poll'.at = "live" <=> Rereads("poll", ReadLive))
    BY <1>0, <1>1, <1>2 DEF PollResumes, PollFails, CycleDone, TypeOK, PollType
  <2>2. poll'.at = "sleep" => Released("poll")
    BY <1>2 DEF PollResumes, PollFails, CycleDone, TypeOK, PollType
  <2>3. UNCHANGED <<intent, command>> BY <1>2 DEF PollResumes
  <2> QED BY <1>0, <1>1, <2>1, <2>2, <2>3 DEF TasksAwait
<1>3. CASE worker.who = "intent" /\ IntentResumes(r, b)
  <2>1. \/ Released("intent") /\ intent'.at \in {"get", "backoff"}
        \/ Rereads("intent", ReadSettings) /\ intent'.at = "reconcile"
    <3>1. \A s : Reconcile(s) => /\ Rereads("intent", ReadSettings)
                                 /\ intent'.at = "reconcile"
      BY DEF Reconcile, TypeOK, IntentType
    <3>2. IntentDone => intent'.at = "get" BY DEF IntentDone
    <3>3. intent' = [intent EXCEPT !.at = "backoff", !.try = @ + 1]
            => intent'.at = "backoff"
      BY DEF TypeOK, IntentType
    <3> QED BY <1>3, <3>1, <3>2, <3>3
     DEF IntentResumes, IntentWrote, IntentRetries, IntentGivesUp, IntentDies,
       IntentReread
  <2>2. UNCHANGED <<poll, command>> BY <1>3
     DEF IntentResumes, IntentWrote, IntentRetries, IntentGivesUp, IntentDies,
       IntentReread
  <2> QED BY <1>0, <1>1, <2>1, <2>2 DEF TasksAwait
<1>4. CASE worker.who = "command" /\ CommandResumes(r, b)
  <2>1. \/ Released("command") /\ command'.at = "get"
        \/ Rereads("command", ReadSettings) /\ command'.at = "reread"
    BY <1>4 DEF CommandResumes, CommandRereads, stateVars
  <2>2. UNCHANGED <<poll, intent>> BY <1>4 DEF CommandResumes, CommandRereads, stateVars
  <2> QED BY <1>0, <1>1, <2>1, <2>2 DEF TasksAwait
<1>5. CASE worker.who \in LanClients /\ LanResumes(worker.who)
  BY <1>0, <1>1, <1>5 DEF LanResumes, TasksAwait, taskVars
<1> QED BY <1>2, <1>3, <1>4, <1>5 DEF Resumes

\* Every step keeps tasks and their requests in agreement.
LEMMA AwaitStep ==
  ASSUME TypeOK, TasksAwait, EveryJobHeldOnce, [Next]_vars
  PROVE  TasksAwait'
<1>0. /\ job \in [Callers -> JobType]
      /\ {"poll", "intent", "command"} \subseteq Callers
      /\ "poll" \notin LanClients /\ "intent" \notin LanClients
      /\ "command" \notin LanClients /\ LanClients \subseteq Callers
  BY BrokerAssumption DEF TypeOK, Callers, BrokerAssumption
<1>s. ASSUME NEW c \in Callers, NEW r, Submit(c, r)
      PROVE  job'[c] = r /\ \A d \in Callers : d # c => job'[d] = job[d]
  BY <1>0, <1>s DEF Submit
<1>u. ASSUME UNCHANGED <<job, poll, intent, command>> PROVE TasksAwait'
  BY <1>u DEF TasksAwait
<1>1. CASE TakeJob \/ Connected \/ WarmedUp \/ Send \/ Serve \/ ResendSwallowed
           \/ ReconnectAfterFailure
  BY <1>1, <1>u DEF TakeJob, Connected, WarmedUp, Send, Serve, ResendSwallowed,
                    ReconnectAfterFailure, taskVars
<1>2. CASE JobSucceeds \/ JobFails \/ JobCrashes
  <2>1. worker.at # "idle"
    BY <1>2 DEF JobSucceeds, JobFails, JobCrashes, AttemptFails
  <2>2. \E r, b : Resumes(worker.who, r, b)
    BY <1>2 DEF JobSucceeds, JobFails, JobCrashes
  <2> QED BY <2>1, <2>2, ResumesAwait
<1>3. CASE DaemonRestarts BY <1>3, ResetHolds DEF DaemonRestarts
<1>4. CASE PollIdle \/ PollRests
  <2>1. UNCHANGED <<job, intent, command>> /\ poll.at = "sleep" /\ poll'.at = "sleep"
    BY <1>4 DEF PollIdle, PollRests, wireVars, TypeOK, PollType
  <2> QED BY <2>1 DEF TasksAwait
<1>5. CASE PollProbes \/ PollReads
  <2>1. /\ UNCHANGED <<intent, command>> /\ poll'.at # "sleep"
        /\ Submit("poll", ReadSettings) \/ Submit("poll", ReadLive)
    BY <1>5 DEF PollProbes, PollReads, TypeOK, PollType
  <2> QED BY <1>0, <1>s, <2>1 DEF TasksAwait, ReadSettings, ReadLive
<1>6. CASE IntentTake
  BY <1>6 DEF IntentTake, wireVars, TasksAwait
<1>7. CASE IntentWrites
  <2>1. UNCHANGED <<poll, command>> /\ intent'.at = "write"
        /\ Submit("intent", Write(intent.cur.write))
    BY <1>7 DEF IntentWrites, TypeOK, IntentType
  <2> QED BY <1>0, <1>s, <2>1 DEF TasksAwait, Write
<1>8. CASE CommandStep
  <2>1. UNCHANGED <<poll, intent>> /\ command'.at = "write"
        /\ Submit("command", Write(Head(commands)))
    BY <1>8 DEF CommandStep
  <2> QED BY <1>0, <1>s, <2>1 DEF TasksAwait, Write
<1>9. ASSUME NEW c \in LanClients, LanRequest(c) PROVE TasksAwait'
  <2>1. UNCHANGED <<poll, intent, command>> /\ \E r : Submit(c, r)
    BY <1>9 DEF LanRequest, taskVars
  <2>2. UNCHANGED <<job["poll"], job["intent"], job["command"]>>
    BY <1>0, <1>s, <2>1
  <2> QED BY <2>1, <2>2 DEF TasksAwait
<1>10. ASSUME \/ \E w \in Writes : SendIntent(w) \/ SendCommand(w)
              \/ \E m \in Modes : MachineTurns(m)
              \/ \E w \in PanelEdits : PanelEdit(w)
              \/ SubscriberChanges \/ Tick \/ UNCHANGED vars
      PROVE  TasksAwait'
  BY <1>10, <1>u DEF SendIntent, SendCommand, MachineTurns, PanelEdit,
                     SubscriberChanges, Tick, wireVars, taskVars, vars
<1> QED BY <1>1, <1>2, <1>3, <1>4, <1>5, <1>6, <1>7, <1>8, <1>9, <1>10
    DEF Next, WorkerStep, PollStep, IntentStep

\* What each operator of the wedge machine does to the cooldown's fields.
LEMMA WedgeFields ==
  ASSUME NEW w \in WedgeType
  PROVE  /\ RecordSuccess(w).coolLeft = NoTime
         /\ RecordSuccess(w).index = 1 /\ RecordSuccess(w).probes = 0
         /\ RecordFailure(w).coolLeft = w.coolLeft
         /\ RecordFailure(w).index = w.index /\ RecordFailure(w).probes = w.probes
         /\ ~ProbeResumes(w) => /\ RecordProbeSuccess(w).coolLeft = 0
                                /\ RecordProbeSuccess(w).index = w.index
                                /\ RecordProbeSuccess(w).probes = w.probes + 1
         /\ BeginCooldown(w).coolLeft = CooldownSteps[w.index]
         /\ BeginCooldown(w).index = Discipline!Following(w.index)
         /\ BeginCooldown(w).probes = 0
         /\ CooldownSteps[w.index] \in Nat \ {0}
         /\ Elapse(w).coolLeft = IF w.coolLeft > 0 THEN w.coolLeft - 1 ELSE w.coolLeft
         /\ Elapse(w).index = w.index /\ Elapse(w).probes = w.probes
<1>1. CooldownSteps[w.index] \in Nat \ {0}
  BY WedgeAssumption DEF WedgeAssumption, WedgeType
<1>2. /\ RecordSuccess(w).coolLeft = NoTime
      /\ RecordSuccess(w).index = 1 /\ RecordSuccess(w).probes = 0
  BY DEF RecordSuccess, Polling
<1>3. /\ RecordFailure(w).coolLeft = w.coolLeft
      /\ RecordFailure(w).index = w.index /\ RecordFailure(w).probes = w.probes
  BY DEF RecordFailure, WedgeType
<1>4. ~ProbeResumes(w) => /\ RecordProbeSuccess(w).coolLeft = 0
                          /\ RecordProbeSuccess(w).index = w.index
                          /\ RecordProbeSuccess(w).probes = w.probes + 1
  BY DEF RecordProbeSuccess, WedgeType
<1>5. /\ BeginCooldown(w).coolLeft = CooldownSteps[w.index]
      /\ BeginCooldown(w).index = Discipline!Following(w.index)
      /\ BeginCooldown(w).probes = 0
  BY DEF BeginCooldown, Discipline!Following, WedgeType
<1>6. /\ Elapse(w).coolLeft = IF w.coolLeft > 0 THEN w.coolLeft - 1 ELSE w.coolLeft
      /\ Elapse(w).index = w.index /\ Elapse(w).probes = w.probes
  BY DEF Elapse, WedgeType
<1> QED BY <1>1, <1>2, <1>3, <1>4, <1>5, <1>6

\* A step of the cooldown discipline, or one that leaves it alone.
Disciplined ==
  \/ Discipline!Next
  \/ DaemonRestarts /\ Discipline!Reset
  \/ UNCHANGED Discipline!vars

\* A poll cycle that ends moves the wedge record as the discipline says.
LEMMA CycleDiscipline ==
  ASSUME TypeOK, PhaseKnown, NEW r, NEW b, PollResumes(r, b)
  PROVE  PhaseKnown' /\ Disciplined
<1>0. /\ wedge \in WedgeType /\ poll \in PollType
      /\ ResumeAfterProbes \in Nat \ {0}
  BY WedgeAssumption DEF TypeOK, WedgeAssumption
<1>d. CycleDone => poll'.at = "sleep" BY <1>0 DEF CycleDone, PollType
<1>u. ASSUME wedge' = wedge PROVE Disciplined
  BY <1>u DEF Disciplined, Discipline!vars
<1>1. CASE poll.at = "settings" /\ r = "ok"
  <2>1. wedge' = wedge /\ poll'.at = "live"
    BY <1>0, <1>1 DEF PollResumes, PollType
  <2> QED BY <1>1, <1>u, <2>1 DEF PhaseKnown
<1>2. CASE poll.at = "live" /\ r = "ok"
  <2>1. wedge' = RecordSuccess(wedge) /\ poll'.at = "sleep"
    BY <1>d, <1>2 DEF PollResumes
  <2>2. wedge.coolLeft = NoTime /\ wedge.index = 1 /\ wedge.probes = 0
    BY <1>2 DEF PhaseKnown
  <2>3. wedge'.coolLeft = NoTime /\ wedge'.index = 1 /\ wedge'.probes = 0
    BY <1>0, <2>1, WedgeFields
  <2> QED BY <2>1, <2>2, <2>3 DEF PhaseKnown, Disciplined, Discipline!vars
<1>3. CASE poll.at \in {"settings", "live"} /\ r # "ok"
  <2>1. PollFails /\ poll'.at = "sleep"
    BY <1>d, <1>3 DEF PollResumes, PollFails
  <2>2. wedge.coolLeft = NoTime /\ wedge.index = 1 /\ wedge.probes = 0
    BY <1>3 DEF PhaseKnown
  <2> DEFINE streak == RecordFailure(wedge)
  <2>3. /\ streak \in WedgeType
        /\ streak.coolLeft = NoTime /\ streak.index = 1 /\ streak.probes = 0
    BY <1>0, <2>2, WedgeFields, WedgeTypes
  <2>4. CASE wedge' = streak
    BY <2>1, <2>2, <2>3, <2>4 DEF PhaseKnown, Disciplined, Discipline!vars
  <2>5. CASE wedge' = BeginCooldown(streak)
    <3>1. /\ wedge'.coolLeft = CooldownSteps[1] /\ CooldownSteps[1] \in Nat \ {0}
          /\ wedge'.index = Discipline!Following(1) /\ wedge'.probes = 0
      BY <2>3, <2>5, WedgeFields
    <3>2. Discipline!Enter
      BY <2>2, <3>1
      DEF Discipline!Enter, Discipline!RestFor, Discipline!NotResting, NoTime
    <3> QED BY <2>1, <3>1, <3>2 DEF PhaseKnown, Disciplined, Discipline!Next, NoTime
  <2> QED BY <2>1, <2>4, <2>5 DEF PollFails
<1>4. CASE poll.at = "probe" /\ r = "ok"
  <2>1. wedge' = RecordProbeSuccess(wedge) /\ poll'.at = "sleep"
    BY <1>d, <1>4 DEF PollResumes
  <2>2. wedge.coolLeft = 0 /\ wedge.probes \in 0..(ResumeAfterProbes - 1)
    BY <1>0, <1>4 DEF PhaseKnown, WedgeType
  <2>3. CASE ProbeResumes(wedge)
    <3>1. wedge'.coolLeft = NoTime /\ wedge'.index = 1 /\ wedge'.probes = 0
      BY <1>0, <2>1, <2>3, WedgeFields DEF RecordProbeSuccess
    <3>2. wedge.probes + 1 = ResumeAfterProbes
      BY <1>0, <2>2, <2>3 DEF ProbeResumes
    <3>3. Discipline!GoodProbe
      BY <2>2, <3>1, <3>2
      DEF Discipline!GoodProbe, Discipline!Resumed, Discipline!NotResting, NoTime
    <3> QED BY <2>1, <3>1, <3>3 DEF PhaseKnown, Disciplined, Discipline!Next
  <2>4. CASE ~ProbeResumes(wedge)
    <3>1. /\ wedge'.coolLeft = 0 /\ wedge'.index = wedge.index
          /\ wedge'.probes = wedge.probes + 1
      BY <1>0, <2>1, <2>4, WedgeFields
    <3>2. wedge.probes + 1 < ResumeAfterProbes
      BY <1>0, <2>2, <2>4 DEF ProbeResumes
    <3>3. Discipline!GoodProbe BY <2>2, <3>1, <3>2 DEF Discipline!GoodProbe
    <3> QED BY <2>1, <3>1, <3>3 DEF PhaseKnown, Disciplined, Discipline!Next, NoTime
  <2> QED BY <2>3, <2>4
<1>5. CASE poll.at = "probe" /\ r # "ok"
  <2>1. wedge' = BeginCooldown(wedge) /\ poll'.at = "sleep"
    BY <1>d, <1>5 DEF PollResumes
  <2>2. /\ wedge'.coolLeft = CooldownSteps[wedge.index]
        /\ CooldownSteps[wedge.index] \in Nat \ {0}
        /\ wedge'.index = Discipline!Following(wedge.index) /\ wedge'.probes = 0
    BY <1>0, <2>1, WedgeFields
  <2>3. Discipline!BadProbe
    BY <1>5, <2>2 DEF PhaseKnown, Discipline!BadProbe, Discipline!RestFor
  <2> QED BY <2>1, <2>2, <2>3 DEF PhaseKnown, Disciplined, Discipline!Next, NoTime
<1> QED BY <1>1, <1>2, <1>3, <1>4, <1>5 DEF PollResumes

\* Every step keeps the phase known and follows the discipline.
LEMMA DisciplineStep ==
  ASSUME TypeOK, PhaseKnown, [Next]_vars
  PROVE  PhaseKnown' /\ Disciplined
<1>u. ASSUME UNCHANGED <<wedge, poll>> PROVE PhaseKnown' /\ Disciplined
  BY <1>u DEF PhaseKnown, Disciplined, Discipline!vars
<1>0. wedge \in WedgeType /\ poll \in PollType BY DEF TypeOK
<1>1. ASSUME NEW r, NEW b, Resumes(worker.who, r, b)
      PROVE  PhaseKnown' /\ Disciplined
  BY <1>1, <1>u, CycleDiscipline
  DEF Resumes, IntentResumes, IntentWrote, IntentRetries, IntentGivesUp,
      IntentDies, IntentReread, CommandResumes, CommandRereads, LanResumes,
      stateVars, taskVars
<1>2. CASE JobSucceeds \/ JobFails \/ JobCrashes
  BY <1>1, <1>2 DEF JobSucceeds, JobFails, JobCrashes
<1>3. CASE DaemonRestarts
  <2>1. wedge'.coolLeft = NoTime /\ wedge'.index = 1 /\ wedge'.probes = 0
        /\ poll'.at = "sleep"
    BY <1>3 DEF DaemonRestarts, VolatileReset, Polling
  <2>2. Discipline!Reset
    BY <2>1 DEF Discipline!Reset, Discipline!Resumed, Discipline!NotResting, NoTime
  <2> QED BY <1>3, <2>1, <2>2 DEF PhaseKnown, Disciplined
<1>4. CASE PollStep
  <2>1. UNCHANGED wedge BY <1>4
    DEF PollStep, PollIdle, PollRests, PollProbes, PollReads, stateVars
  <2>2. CASE PollIdle \/ PollRests
    <3>1. poll'.at = "sleep"
      BY <1>0, <2>2 DEF PollIdle, PollRests, PollType
    <3> QED BY <2>1, <3>1 DEF PhaseKnown, Disciplined, Discipline!vars
  <2>3. CASE PollProbes
    <3>1. poll'.at = "probe" /\ wedge.coolLeft = 0
      BY <1>0, <2>3 DEF PollProbes, AwaitingProbe, PollType
    <3> QED BY <2>1, <3>1 DEF PhaseKnown, Disciplined, Discipline!vars
  <2>4. CASE PollReads
    <3>1. poll'.at \in {"settings", "live"} /\ wedge.coolLeft = NoTime
      BY <1>0, <2>4
      DEF PollReads, AwaitingProbe, InCooldown, PollType, WedgeType, NoTime
    <3> QED BY <2>1, <3>1 DEF PhaseKnown, Disciplined, Discipline!vars
  <2> QED BY <1>4, <2>2, <2>3, <2>4 DEF PollStep
<1>5. CASE Tick
  <2>1. /\ poll' = poll /\ wedge'.index = wedge.index /\ wedge'.probes = wedge.probes
        /\ wedge'.coolLeft =
             IF wedge.coolLeft > 0 THEN wedge.coolLeft - 1 ELSE wedge.coolLeft
    BY <1>0, <1>5, WedgeFields DEF Tick, taskVars
  <2>2. PhaseKnown'
    BY <1>0, <2>1 DEF PhaseKnown, WedgeType, PollType, NoTime
  <2>3. CASE wedge.coolLeft > 0
    BY <2>1, <2>2, <2>3 DEF Disciplined, Discipline!Next, Discipline!Pass
  <2>4. CASE ~(wedge.coolLeft > 0)
    BY <2>1, <2>2, <2>4 DEF Disciplined, Discipline!vars
  <2> QED BY <2>3, <2>4
<1>6. CASE \/ TakeJob \/ Connected \/ WarmedUp \/ Send \/ Serve
           \/ ResendSwallowed \/ ReconnectAfterFailure
           \/ \E w \in Writes : SendIntent(w) \/ SendCommand(w)
           \/ \E c \in LanClients : LanRequest(c)
           \/ \E m \in Modes : MachineTurns(m)
           \/ \E w \in PanelEdits : PanelEdit(w)
           \/ SubscriberChanges \/ IntentStep \/ CommandStep \/ UNCHANGED vars
  BY <1>6, <1>u DEF TakeJob, Connected, WarmedUp, Send, Serve, ResendSwallowed,
     ReconnectAfterFailure, SendIntent, SendCommand, LanRequest, MachineTurns,
     PanelEdit, SubscriberChanges, IntentStep, IntentTake, IntentWrites,
     CommandStep, stateVars, taskVars, vars
<1> QED BY <1>2, <1>3, <1>4, <1>5, <1>6 DEF Next, WorkerStep

\* Only an exchange that the machine served carries a reply.
LEMMA ReplyStep ==
  ASSUME TypeOK, ServedReply, TypeOK', [Next]_vars
  PROVE  ServedReply'
<1>1. CASE Serve
  BY <1>1 DEF Serve, ServedReply, TypeOK, WorkerType
<1>2. CASE TakeJob \/ Connected \/ WarmedUp \/ Send \/ ResendSwallowed
           \/ ReconnectAfterFailure \/ JobSucceeds \/ JobFails \/ JobCrashes
  <2>1. \A q, l : NextJob(q, l).at \in {"idle", "pace", "connect"}
    BY DEF NextJob, Begin, IdleWorker
  <2>2. worker'.at # "served"
    BY <1>2, <2>1 DEF TakeJob, Connected, WarmedUp, Send, ResendSwallowed,
       ReconnectAfterFailure, JobSucceeds, JobFails, JobCrashes, TypeOK, WorkerType
  <2> QED BY <2>2 DEF ServedReply
<1>3. CASE DaemonRestarts BY <1>3, ResetHolds DEF DaemonRestarts
<1>4. ASSUME UNCHANGED worker PROVE ServedReply' BY <1>4 DEF ServedReply
<1>5. \/ PollStep \/ IntentStep \/ CommandStep \/ Tick \/ UNCHANGED vars
      \/ \E w \in Writes : SendIntent(w) \/ SendCommand(w)
      \/ \E c \in LanClients : LanRequest(c)
      \/ \E m \in Modes : MachineTurns(m)
      \/ \E w \in PanelEdits : PanelEdit(w)
      \/ SubscriberChanges
      => UNCHANGED worker
  BY DEF PollStep, PollIdle, PollRests, PollProbes, PollReads, IntentStep,
         IntentTake, IntentWrites, CommandStep, Tick, SendIntent, SendCommand,
         LanRequest, MachineTurns, PanelEdit, SubscriberChanges, wireVars, vars
<1> QED BY <1>1, <1>2, <1>3, <1>4, <1>5 DEF Next, WorkerStep

\* Every step keeps the types.
LEMMA TypeStep ==
  ASSUME TypeOK, ServedReply, [Next]_vars
  PROVE  TypeOK'
<1>1. CASE DaemonRestarts
  <2>1. mode' \in Modes /\ mem' \in Block
    BY <1>1 DEF DaemonRestarts, TypeOK, machineVars
  <2> QED BY <1>1, <2>1, ResetHolds DEF DaemonRestarts
<1>2. CASE UNCHANGED vars
  BY <1>2 DEF TypeOK, vars, machineVars, wireVars, stateVars, taskVars
<1> QED BY <1>1, <1>2, WorkerMovesType, JobEndsType, TasksMoveType, WorldMovesType
    DEF Next, WorkerStep

\* The daemon starts in a state of the invariant.
LEMMA InitHolds == Init => IInv
<1> SUFFICES ASSUME Init PROVE IInv OBVIOUS
<1>0. {"poll", "intent", "command"} \subseteq Callers BY DEF Callers
<1>1. EmptyLanes \in Lanes BY DEF EmptyLanes, Lanes
<1>2. worker \in WorkerType BY <1>1, WorkerTypes DEF Init
<1>3. EmptyStore \in StoreType
  BY NothingPartial, StoreAssumption DEF EmptyStore, StoreType, StoreAssumption
<1>4. Polling \in WedgeType
  BY WedgeAssumption DEF Polling, WedgeType, WedgeAssumption, NoTime
<1>5. job \in [Callers -> JobType] /\ \A c \in Callers : job[c].kind = "none"
  BY JobTypes DEF Init, NoJob
<1>6. poll \in PollType /\ intent \in IntentType
  <2>1. 0 \in 0..(SettingsEvery - 1) /\ 0 \in 0..WriteRetries
    BY BrokerAssumption DEF BrokerAssumption
  <2> QED BY <2>1, NothingPartial DEF Init, PollType, IntentType, NoIntent, Queued
<1>7. intents \in Seq(Queued) /\ commands \in Seq(Writes)
      /\ Len(intents) <= IntentQueueMax /\ Len(commands) <= CommandBound
  BY BrokerAssumption DEF Init, BrokerAssumption
<1>8. TypeOK BY <1>1, <1>2, <1>3, <1>4, <1>5, <1>6, <1>7 DEF TypeOK, Init
<1>9. ServedReply BY DEF ServedReply, Init, IdleWorker
<1>10. EveryJobHeldOnce
  <2>1. /\ lanes.command = <<>> /\ lanes.poll = <<>> /\ worker.at = "idle"
    BY DEF Init, EmptyLanes, IdleWorker
  <2>2. \A c \in Callers : ~InLane(lanes.command, c) /\ ~InLane(lanes.poll, c)
                           /\ ~Driven(worker, c)
    BY <2>1 DEF InLane, Driven
  <2>3. NoRepeats(lanes.command) /\ NoRepeats(lanes.poll)
    BY <2>1 DEF NoRepeats
  <2> QED BY <1>5, <2>2, <2>3 DEF EveryJobHeldOnce, HeldOnce
<1>11. TasksAwait BY <1>0, <1>5 DEF TasksAwait, Init
<1>12. PhaseKnown BY DEF PhaseKnown, Init, Polling
<1> QED BY <1>8, <1>9, <1>10, <1>11, <1>12 DEF IInv

(* The inductive invariant holds of every behaviour of the daemon.           *)
THEOREM Invariance == Spec => []IInv
<1>1. IInv /\ [Next]_vars => IInv'
  BY TypeStep, ReplyStep, HeldStep, AwaitStep, DisciplineStep DEF IInv
<1> QED BY InitHolds, <1>1, PTL DEF Spec

(* Whatever the machine, the users and the clock do, every variable keeps    *)
(* its type and the two user queues their bounds.                            *)
THEOREM TypeCorrect == Spec => []TypeOK
<1>1. IInv => TypeOK BY DEF IInv
<1> QED BY Invariance, <1>1, PTL

(* No caller of the governor is ever lost, queued twice or in a wrong lane   *)
(* (governor.py, _submit and _run).                                          *)
THEOREM JobsHeldOnce == Spec => []EveryJobHeldOnce
<1>1. IInv => EveryJobHeldOnce BY DEF IInv
<1> QED BY Invariance, <1>1, PTL

(* While a cooldown runs the poll loop has no request queued or on the wire  *)
(* (broker.py, the in_cooldown branch of _poll_loop).                        *)
THEOREM PollRestsTheorem == Spec => []PollRestsInCooldown
<1>1. IInv => PollRestsInCooldown
  <2> SUFFICES ASSUME IInv, InCooldown(wedge)
               PROVE  /\ poll.at = "sleep"
                      /\ ~Driven(worker, "poll") /\ ~InLane(lanes.poll, "poll")
    BY DEF PollRestsInCooldown
  <2>1. poll.at = "sleep"
    BY DEF IInv, PhaseKnown, TypeOK, PollType, InCooldown, NoTime
  <2>2. job["poll"].kind = "none" /\ "poll" \in Callers
    BY <2>1 DEF IInv, TasksAwait, Callers
  <2> QED BY <2>1, <2>2 DEF IInv, EveryJobHeldOnce, HeldOnce
<1> QED BY Invariance, <1>1, PTL

(* The daemon implements the cooldown discipline, for every back-off and     *)
(* number of confirming probes (wedge.py as _poll_loop drives it).           *)
THEOREM WedgeDisciplineTheorem == Spec => WedgeKeepsDiscipline
<1>1. Init => Discipline!Init
  BY DEF Init, Polling, Discipline!Init, Discipline!NotResting, NoTime
<1>2. IInv /\ [Next]_vars =>
        [Discipline!Next \/ (DaemonRestarts /\ Discipline!Reset)]_(Discipline!vars)
  BY DisciplineStep DEF IInv, Disciplined
<1> QED BY Invariance, <1>1, <1>2, PTL DEF Spec, WedgeKeepsDiscipline

(* Entering a cooldown leaves the store offline in the same step, for every  *)
(* grace, wedge window and back-off (broker.py, _poll_once and _poll_loop).  *)
THEOREM CooldownForcesOfflineTheorem == Spec => CooldownForcesOffline
<1> DEFINE Forces == ~InCooldown(wedge) /\ InCooldown(wedge)'
                       => store'.available = "offline"
<1>1. ASSUME TypeOK, Next PROVE Forces
  <2>0. wedge \in WedgeType /\ store \in StoreType BY <1>1 DEF TypeOK
  <2>u. ASSUME UNCHANGED wedge PROVE Forces BY <2>u DEF InCooldown
  <2>1. ASSUME NEW s \in StoreType PROVE NoteWedged(s).available = "offline"
    BY DEF NoteWedged, StoreType
  <2>2. ASSUME NEW r, NEW b, PollResumes(r, b) PROVE Forces
    <3>1. CASE wedge' = wedge BY <2>u, <3>1
    <3>2. CASE poll.at = "live" /\ r = "ok"
      BY <2>2, <3>2 DEF PollResumes, RecordSuccess, Polling, InCooldown, NoTime
    <3>3. CASE PollFails
      <4>1. NoteFailure(store) \in StoreType BY <2>0, StoreTypes
      <4>2. RecordFailure(wedge).coolLeft = wedge.coolLeft
        BY <2>0 DEF RecordFailure, WedgeType
      <4> QED BY <2>1, <3>3, <4>1, <4>2 DEF PollFails, InCooldown
    <3>4. CASE wedge' = RecordProbeSuccess(wedge)
      <4>1. wedge'.coolLeft \in {0, NoTime}
        BY <2>0, <3>4
        DEF RecordProbeSuccess, RecordSuccess, Polling, WedgeType
      <4> QED BY <4>1 DEF InCooldown, NoTime
    <3>5. CASE store' = NoteWedged(store) BY <2>0, <2>1, <3>5
    <3> QED BY <2>2, <3>1, <3>2, <3>3, <3>4, <3>5 DEF PollResumes
  <2>3. ASSUME NEW r, NEW b, Resumes(worker.who, r, b) PROVE Forces
    BY <2>2, <2>3, <2>u
    DEF Resumes, IntentResumes, IntentWrote, IntentRetries, IntentGivesUp,
  IntentDies, IntentReread, CommandResumes, CommandRereads, LanResumes, stateVars
  <2>4. CASE JobSucceeds \/ JobFails \/ JobCrashes
    BY <2>3, <2>4 DEF JobSucceeds, JobFails, JobCrashes
  <2>5. CASE DaemonRestarts
    BY <2>5 DEF DaemonRestarts, VolatileReset, Polling, InCooldown, NoTime
  <2>6. CASE Tick
    <3>1. wedge'.coolLeft =
            IF wedge.coolLeft > 0 THEN wedge.coolLeft - 1 ELSE wedge.coolLeft
      BY <2>0, <2>6 DEF Tick, Elapse, WedgeType
    <3> QED BY <2>0, <3>1 DEF InCooldown, WedgeType, NoTime
  <2>7. CASE \/ TakeJob \/ Connected \/ WarmedUp \/ Send \/ Serve
             \/ ResendSwallowed \/ ReconnectAfterFailure
             \/ PollStep \/ IntentStep \/ CommandStep
             \/ \E w \in Writes : SendIntent(w) \/ SendCommand(w)
             \/ \E c \in LanClients : LanRequest(c)
             \/ \E m \in Modes : MachineTurns(m)
             \/ \E w \in PanelEdits : PanelEdit(w)
             \/ SubscriberChanges
    <3>1. UNCHANGED wedge
      BY <2>7 DEF TakeJob, Connected, WarmedUp, Send, Serve, ResendSwallowed,
         ReconnectAfterFailure, PollStep, PollIdle, PollRests, PollProbes,
         PollReads, IntentStep, IntentTake, IntentWrites, CommandStep,
         SendIntent, SendCommand, LanRequest, MachineTurns, PanelEdit,
         SubscriberChanges, stateVars
    <3> QED BY <2>u, <3>1
  <2> QED BY <1>1, <2>4, <2>5, <2>6, <2>7 DEF Next, WorkerStep
<1>2. TypeOK /\ [Next]_vars => [Forces]_vars BY <1>1
<1> QED BY TypeCorrect, <1>2, PTL DEF Spec, CooldownForcesOffline

-----------------------------------------------------------------------------
(* The overlay is shown: an invariant of the store's operators.             *)

\* The cached block of s shows the overlay wherever it has a byte.
Shows(s) == \A a \in Addr : s.pending[a] # NoByte => s.settings[a] = s.pending[a]

\* Every operator of the store keeps the overlay shown.
LEMMA StoreShows ==
  ASSUME NEW s \in StoreType, Shows(s)
  PROVE  /\ \A b : Shows(UpdateSettings(s, b))
         /\ Shows(UpdateLive(s)) /\ Shows(NoteSuccess(s))
         /\ Shows(NoteFailure(s)) /\ Shows(NoteWedged(s))
         /\ \A w \in Partial : Shows(ApplyOptimistic(s, w))
         /\ \A w : Shows(ReconcileClear(s, w))
<1> USE DEF Shows
<1>1. ASSUME NEW b PROVE Shows(UpdateSettings(s, b))
  BY DEF UpdateSettings, Overlay, StoreType
<1>2. Shows(UpdateLive(s)) BY DEF UpdateLive, StoreType
<1>3. Shows(NoteSuccess(s)) BY DEF NoteSuccess, StoreType
<1>4. Shows(NoteFailure(s)) BY DEF NoteFailure, StoreType
<1>5. Shows(NoteWedged(s)) BY DEF NoteWedged, StoreType
<1>6. ASSUME NEW w \in Partial PROVE Shows(ApplyOptimistic(s, w))
  BY DEF ApplyOptimistic, Overlay, StoreType
<1>7. ASSUME NEW w PROVE Shows(ReconcileClear(s, w))
  BY DEF ReconcileClear, StoreType
<1> QED BY <1>1, <1>2, <1>3, <1>4, <1>5, <1>6, <1>7

\* Whatever a task does with the end of its request keeps the overlay shown.
LEMMA ResumesShows ==
  ASSUME NEW c, NEW r \in {"ok", "failed", "crashed"}, NEW b, TypeOK,
         Resumes(c, r, b), r = "ok" => b \in Block, Shows(store)
  PROVE  Shows(store')
<1>0. store \in StoreType /\ intent.cur.write \in Partial
  BY DEF TypeOK, IntentType, Queued
<1>u. ASSUME UNCHANGED store PROVE Shows(store') BY <1>u DEF Shows
<1>1. /\ UpdateLive(store) \in StoreType /\ NoteFailure(store) \in StoreType
      /\ r = "ok" => UpdateSettings(store, b) \in StoreType
      /\ ReconcileClear(store, intent.cur.write) \in StoreType
  BY <1>0, StoreTypes
<1>2. /\ Shows(UpdateSettings(store, b)) /\ Shows(UpdateLive(store))
      /\ Shows(NoteFailure(store)) /\ Shows(NoteWedged(store))
      /\ Shows(ReconcileClear(store, intent.cur.write))
  BY <1>0, StoreShows
<1>3. /\ Shows(NoteSuccess(UpdateLive(store))) /\ Shows(NoteWedged(NoteFailure(store)))
      /\ r = "ok" => Shows(NoteSuccess(UpdateSettings(store, b)))
      /\ Shows(NoteFailure(ReconcileClear(store, intent.cur.write)))
  BY <1>1, <1>2, StoreShows
<1>4. ASSUME PollResumes(r, b) PROVE Shows(store')
  BY <1>2, <1>3, <1>4 DEF PollResumes, PollFails
<1>5. ASSUME IntentResumes(r, b) PROVE Shows(store')
  BY <1>2, <1>3, <1>5, <1>u
  DEF IntentResumes, IntentWrote, IntentRetries, IntentGivesUp, IntentDies,
      IntentReread, Reconcile
<1>6. ASSUME CommandResumes(r, b) PROVE Shows(store')
  BY <1>2, <1>3, <1>6, <1>u DEF CommandResumes, CommandRereads, stateVars
<1>7. ASSUME LanResumes(c) PROVE Shows(store')
  BY <1>7, <1>u DEF LanResumes, stateVars
<1> QED BY <1>4, <1>5, <1>6, <1>7 DEF Resumes

(* No read that was under way when a command came in uncovers the old value, *)
(* for every block, write and order of answers (store.py, update_settings).  *)
THEOREM OverlayShownTheorem == Spec => []OverlayShown
<1>s. OverlayShown <=> Shows(store) BY DEF OverlayShown, Shows
<1>1. Init => OverlayShown
  BY DEF Init, EmptyStore, Nothing, OverlayShown
<1>2. ASSUME TypeOK, ServedReply, OverlayShown, [Next]_vars PROVE OverlayShown'
  <2>0. store \in StoreType /\ Shows(store) BY <1>2, <1>s DEF TypeOK
  <2> SUFFICES Shows(store') BY DEF OverlayShown, Shows
  <2>1. CASE JobSucceeds
    BY <1>2, <2>0, <2>1, ResumesShows DEF JobSucceeds, ServedReply
  <2>2. CASE JobFails \/ JobCrashes
    BY <1>2, <2>0, <2>2, ResumesShows DEF JobFails, JobCrashes
  <2>3. CASE DaemonRestarts
    BY <2>3 DEF DaemonRestarts, VolatileReset, EmptyStore, Nothing, Shows
  <2>4. ASSUME NEW w \in Writes, SendIntent(w) PROVE Shows(store')
    BY <2>0, <2>4, StoreShows, BrokerAssumption DEF SendIntent, BrokerAssumption
  <2>5. CASE \/ TakeJob \/ Connected \/ WarmedUp \/ Send \/ Serve
             \/ ResendSwallowed \/ ReconnectAfterFailure
             \/ PollStep \/ IntentStep \/ CommandStep \/ Tick
             \/ \E w \in Writes : SendCommand(w)
             \/ \E c \in LanClients : LanRequest(c)
             \/ \E m \in Modes : MachineTurns(m)
             \/ \E w \in PanelEdits : PanelEdit(w)
             \/ SubscriberChanges \/ UNCHANGED vars
    <3>1. UNCHANGED store
      BY <2>5 DEF TakeJob, Connected, WarmedUp, Send, Serve, ResendSwallowed,
         ReconnectAfterFailure, PollStep, PollIdle, PollRests, PollProbes,
         PollReads, IntentStep, IntentTake, IntentWrites, CommandStep, Tick,
         SendCommand, LanRequest, MachineTurns, PanelEdit, SubscriberChanges,
         stateVars, vars
    <3> QED BY <2>0, <3>1 DEF Shows
  <2> QED BY <1>2, <2>1, <2>2, <2>3, <2>4, <2>5 DEF Next, WorkerStep
<1>3. IInv => TypeOK /\ ServedReply BY DEF IInv
<1> QED BY Invariance, <1>1, <1>2, <1>3, PTL DEF Spec

-----------------------------------------------------------------------------
(* Who asks for what: only the answer to a read takes the store online.     *)

\* The poll loop never writes, and a task at its re-read is not writing.
JobKinds ==
  /\ job["poll"].kind # "write"
  /\ intent.at = "reconcile" => job["intent"].kind # "write"
  /\ command.at = "reread" => job["command"].kind # "write"

\* Whoever resumes next asks for a read, if for anything.
LEMMA ResumesKinds ==
  ASSUME NEW c, NEW r, NEW b, TypeOK, JobKinds, Resumes(c, r, b)
  PROVE  JobKinds'
<1>0. /\ job \in [Callers -> JobType]
      /\ intent \in IntentType
      /\ {"poll", "intent", "command"} \subseteq Callers
      /\ {"poll", "intent", "command"} \cap LanClients = {}
  BY BrokerAssumption DEF TypeOK, Callers, BrokerAssumption
<1>k. NoJob.kind # "write" /\ ReadSettings.kind # "write" /\ ReadLive.kind # "write"
  BY DEF NoJob, ReadSettings, ReadLive
<1>1. CASE c = "poll" /\ PollResumes(r, b)
  <2>1. \E j : job' = [job EXCEPT !["poll"] = j] /\ j.kind # "write"
    BY <1>1, <1>k DEF PollResumes, Rereads, Released
  <2>2. intent' = intent /\ command' = command BY <1>1 DEF PollResumes
  <2> QED BY <1>0, <2>1, <2>2 DEF JobKinds
<1>2. CASE c = "intent" /\ IntentResumes(r, b)
  <2>1. \E j : job' = [job EXCEPT !["intent"] = j] /\ j.kind # "write"
    BY <1>2, <1>k
    DEF IntentResumes, IntentWrote, IntentRetries, IntentGivesUp, IntentDies,
        IntentReread, Reconcile, Rereads, Released
  <2>2. command' = command BY <1>2 DEF IntentResumes
  <2> QED BY <1>0, <2>1, <2>2 DEF JobKinds
<1>3. CASE c = "command" /\ CommandResumes(r, b)
  <2>1. \E j : job' = [job EXCEPT !["command"] = j] /\ j.kind # "write"
    BY <1>3, <1>k DEF CommandResumes, Rereads, Released
  <2>2. intent' = intent BY <1>3 DEF CommandResumes
  <2> QED BY <1>0, <2>1, <2>2 DEF JobKinds
<1>4. CASE c \in LanClients /\ LanResumes(c)
  <2>1. /\ job' = [job EXCEPT ![c] = NoJob]
        /\ intent' = intent /\ command' = command
    BY <1>4 DEF LanResumes, Released, taskVars
  <2> QED BY <1>0, <1>4, <2>1 DEF JobKinds
<1> QED BY <1>1, <1>2, <1>3, <1>4 DEF Resumes

\* Every step keeps the kinds of request each task makes.
LEMMA KindsStep ==
  ASSUME TypeOK, JobKinds, [Next]_vars
  PROVE  JobKinds'
<1>0. /\ job \in [Callers -> JobType]
      /\ intent \in IntentType /\ command \in [at : {"get", "write", "reread"}]
      /\ {"poll", "intent", "command"} \subseteq Callers
      /\ {"poll", "intent", "command"} \cap LanClients = {}
  BY BrokerAssumption DEF TypeOK, Callers, BrokerAssumption
<1>k. NoJob.kind # "write" /\ ReadSettings.kind # "write" /\ ReadLive.kind # "write"
  BY DEF NoJob, ReadSettings, ReadLive
<1>u. ASSUME UNCHANGED job, intent'.at = "reconcile" => intent' = intent,
             UNCHANGED command
      PROVE  JobKinds'
  BY <1>u DEF JobKinds
<1>1. CASE JobSucceeds \/ JobFails \/ JobCrashes
  BY <1>1, ResumesKinds DEF JobSucceeds, JobFails, JobCrashes
<1>2. CASE DaemonRestarts
  BY <1>0, <1>2, <1>k DEF DaemonRestarts, VolatileReset, JobKinds
<1>3. CASE PollProbes \/ PollReads
  <2>1. \E j : job' = [job EXCEPT !["poll"] = j] /\ j.kind # "write"
    BY <1>3, <1>k DEF PollProbes, PollReads, Submit
  <2>2. intent' = intent /\ command' = command
    BY <1>3 DEF PollProbes, PollReads
  <2> QED BY <1>0, <2>1, <2>2 DEF JobKinds
<1>4. CASE IntentWrites
  <2>1. /\ job' = [job EXCEPT !["intent"] = Write(intent.cur.write)]
        /\ intent'.at = "write" /\ command' = command
    BY <1>0, <1>4 DEF IntentWrites, Submit, IntentType
  <2> QED BY <1>0, <2>1 DEF JobKinds
<1>5. CASE CommandStep
  <2>1. /\ job' = [job EXCEPT !["command"] = Write(Head(commands))]
        /\ command'.at = "write" /\ intent' = intent
    BY <1>5 DEF CommandStep, Submit
  <2> QED BY <1>0, <2>1 DEF JobKinds
<1>6. ASSUME NEW c \in LanClients, LanRequest(c) PROVE JobKinds'
  <2>1. \E j : job' = [job EXCEPT ![c] = j]
    BY <1>6 DEF LanRequest, Submit
  <2>2. intent' = intent /\ command' = command BY <1>6 DEF LanRequest, taskVars
  <2> QED BY <1>0, <1>6, <2>1, <2>2 DEF JobKinds
<1>7. CASE IntentTake BY <1>7, <1>u DEF IntentTake, wireVars
<1>8. CASE \/ TakeJob \/ Connected \/ WarmedUp \/ Send \/ Serve
           \/ ResendSwallowed \/ ReconnectAfterFailure
           \/ PollIdle \/ PollRests \/ Tick
           \/ \E w \in Writes : SendIntent(w) \/ SendCommand(w)
           \/ \E m \in Modes : MachineTurns(m)
           \/ \E w \in PanelEdits : PanelEdit(w)
           \/ SubscriberChanges \/ UNCHANGED vars
  BY <1>8, <1>u DEF TakeJob, Connected, WarmedUp, Send, Serve, ResendSwallowed,
     ReconnectAfterFailure, PollIdle, PollRests, Tick, SendIntent, SendCommand,
     MachineTurns, PanelEdit, SubscriberChanges, wireVars, taskVars, vars
<1> QED BY <1>1, <1>2, <1>3, <1>4, <1>5, <1>6, <1>7, <1>8
    DEF Next, WorkerStep, PollStep, IntentStep

\* Every operator of the store but note_success keeps it from going online.
LEMMA KeepsOffline ==
  ASSUME NEW s \in StoreType, s.available # "online"
  PROVE  /\ \A b : UpdateSettings(s, b).available # "online"
         /\ NoteFailure(s).available # "online"
         /\ NoteWedged(s).available # "online"
         /\ \A w : ApplyOptimistic(s, w).available # "online"
         /\ \A w : ReconcileClear(s, w).available # "online"
BY DEF UpdateSettings, NoteFailure, NoteWedged, ApplyOptimistic, ReconcileClear,
       StoreType

(* The store comes online only in a step in which some task receives the     *)
(* answer to a read, for every schedule and mix of tasks (broker.py: the     *)
(* note_success calls of _poll_once, _run_probe and the two re-reads).       *)
THEOREM OnlineOnlyByReadingTheorem == Spec => OnlineOnlyByReading
<1> DEFINE Read == worker.at = "served" /\ job[worker.who].kind # "write"
           Rises == store.available # "online" /\ store'.available = "online"
<1>1. Init => JobKinds
  BY DEF Init, JobKinds, NoJob, Callers
<1>2. TypeOK /\ JobKinds /\ [Next]_vars => JobKinds' BY KindsStep
<1>3. ASSUME TypeOK, JobKinds, Next, Rises PROVE Read
  <2>0. store \in StoreType /\ store.available # "online"
        /\ intent.cur.write \in Partial
    BY <1>3 DEF TypeOK, IntentType, Queued
  <2>1. /\ \A b : UpdateSettings(store, b).available # "online"
        /\ NoteFailure(store).available # "online"
        /\ NoteWedged(store).available # "online"
        /\ \A w : ApplyOptimistic(store, w).available # "online"
        /\ ReconcileClear(store, intent.cur.write).available # "online"
    BY <2>0, KeepsOffline
  <2>2. /\ NoteWedged(NoteFailure(store)).available # "online"
        /\ NoteFailure(ReconcileClear(store, intent.cur.write)).available # "online"
    BY <2>0, <2>1, KeepsOffline, StoreTypes
  <2>u. ~UNCHANGED store BY <1>3
  <2>3. ASSUME NEW r, NEW b, Resumes(worker.who, r, b)
        PROVE  r = "ok" /\ job[worker.who].kind # "write"
    <3>1. CASE worker.who = "poll" /\ PollResumes(r, b)
      <4>1. r = "ok"
        BY <1>3, <2>1, <2>2, <3>1 DEF PollResumes, PollFails
      <4> QED BY <1>3, <3>1, <4>1 DEF JobKinds
    <3>2. CASE worker.who = "intent" /\ IntentResumes(r, b)
      <4>1. intent.at = "reconcile" /\ r = "ok"
        BY <1>3, <2>1, <2>2, <2>u, <3>2
        DEF IntentResumes, IntentWrote, IntentRetries, IntentGivesUp, IntentDies,
            IntentReread, Reconcile
      <4> QED BY <1>3, <3>2, <4>1 DEF JobKinds
    <3>3. CASE worker.who = "command" /\ CommandResumes(r, b)
      <4>1. command.at = "reread" /\ r = "ok"
        BY <1>3, <2>1, <2>u, <3>3 DEF CommandResumes, CommandRereads, stateVars
      <4> QED BY <1>3, <3>3, <4>1 DEF JobKinds
    <3>4. CASE LanResumes(worker.who)
      BY <2>u, <3>4 DEF LanResumes, stateVars
    <3> QED BY <2>3, <3>1, <3>2, <3>3, <3>4 DEF Resumes
  <2>4. CASE JobSucceeds BY <2>3, <2>4 DEF JobSucceeds
  <2>5. ~(JobFails \/ JobCrashes)
    BY <2>3 DEF JobFails, JobCrashes
  <2>6. ~DaemonRestarts
    BY <1>3 DEF DaemonRestarts, VolatileReset, EmptyStore
  <2>7. ~(\E w \in Writes : SendIntent(w))
    BY <1>3, <2>1 DEF SendIntent
  <2>8. \/ TakeJob \/ Connected \/ WarmedUp \/ Send \/ Serve
        \/ ResendSwallowed \/ ReconnectAfterFailure
        \/ PollStep \/ IntentStep \/ CommandStep \/ Tick
        \/ \E w \in Writes : SendCommand(w)
        \/ \E c \in LanClients : LanRequest(c)
        \/ \E m \in Modes : MachineTurns(m)
        \/ \E w \in PanelEdits : PanelEdit(w)
        \/ SubscriberChanges
        => UNCHANGED store
    BY DEF TakeJob, Connected, WarmedUp, Send, Serve, ResendSwallowed,
       ReconnectAfterFailure, PollStep, PollIdle, PollRests, PollProbes,
       PollReads, IntentStep, IntentTake, IntentWrites, CommandStep, Tick,
       SendCommand, LanRequest, MachineTurns, PanelEdit, SubscriberChanges,
       stateVars
  <2> QED BY <1>3, <2>u, <2>4, <2>5, <2>6, <2>7, <2>8 DEF Next, WorkerStep
<1>4. TypeOK /\ JobKinds /\ [Next]_vars => [Rises => Read]_vars BY <1>3
<1> QED BY TypeCorrect, <1>1, <1>2, <1>4, PTL DEF Spec, OnlineOnlyByReading

-----------------------------------------------------------------------------
(* The overlay belongs to the newest command.                               *)

\* A reflected intent that wants a byte at a; the last of them in s, at i;
\* and that it wants b.
Touches(x, a)     == x.shown /\ x.write[a] # NoByte
NewestAt(s, i, a) == /\ Touches(s[i], a)
                     /\ \A j \in 1..Len(s) : Touches(s[j], a) => j <= i
Backed(s, a, b)   == \E i \in 1..Len(s) : NewestAt(s, i, a) /\ s[i].write[a] = b

\* Every byte of the overlay that was not abandoned is wanted by the newest
\* intent; and a known block counts as data, so that what is marked as shown
\* was shown.
OverlayBacked ==
  \A a \in Addr : store.pending[a] # NoByte /\ a \notin abandoned =>
                    Backed(Outstanding, a, store.pending[a])
KnownIsHad == SettingsKnown(store) => store.haveData

OInv == OverlayBacked /\ KnownIsHad

LEMMA OutstandingType ==
  TypeOK => Outstanding \in Seq(Queued) /\ intents \in Seq(Queued) /\ intent.cur \in Queued
BY DEF TypeOK, IntentType, Outstanding

\* The last element that touches a is the one CHOOSE takes.
LEMMA BackedIsNewest ==
  ASSUME NEW a \in Addr, NEW b, Outstanding \in Seq(Queued), Backed(Outstanding, a, b)
  PROVE  Newest(a) = b
<1> DEFINE S == {i \in 1..Len(Outstanding) :
                   Outstanding[i].shown /\ Outstanding[i].write[a] # NoByte}
           k == CHOOSE i \in S : \A j \in S : j <= i
<1>0. Len(Outstanding) \in Nat OBVIOUS
<1>1. PICK i \in S : (\A j \in S : j <= i) /\ Outstanding[i].write[a] = b
  BY DEF Backed, NewestAt, Touches
<1>2. k \in S /\ \A j \in S : j <= k BY <1>1
<1>3. k = i
  <2>1. k <= i /\ i <= k BY <1>1, <1>2
  <2>2. k \in Int /\ i \in Int BY <1>0, <1>1, <1>2
  <2> QED BY <2>1, <2>2
<1>4. S # {} BY <1>1
<1>5. Newest(a) = Outstanding[k].write[a] BY <1>4 DEF Newest
<1> QED BY <1>1, <1>3, <1>5

\* A byte the oldest intent does not want is wanted by the newest of the rest.
LEMMA BackedByRest ==
  ASSUME NEW s \in Seq(Queued), NEW x \in Queued, NEW a, NEW b,
         Backed(<<x>> \o s, a, b), x.write[a] # b
  PROVE  Backed(s, a, b)
<1> DEFINE t == <<x>> \o s
<1>1. /\ t \in Seq(Queued) /\ Len(t) = Len(s) + 1 /\ t[1] = x /\ Len(s) \in Nat
      /\ \A j \in 1..Len(s) : t[j + 1] = s[j]
  OBVIOUS
<1> HIDE DEF t
<1>2. PICK i \in 1..Len(t) : NewestAt(t, i, a) /\ t[i].write[a] = b
  BY DEF Backed, t
<1>3. i # 1 BY <1>1, <1>2
<1>4. i - 1 \in 1..Len(s) /\ (i - 1) + 1 = i BY <1>1, <1>2, <1>3
<1>5. s[i - 1] = t[i] BY <1>1, <1>4
<1>6. ASSUME NEW j \in 1..Len(s), Touches(s[j], a) PROVE j <= i - 1
  <2>1. j + 1 \in 1..Len(t) /\ t[j + 1] = s[j] BY <1>1
  <2>2. j + 1 <= i BY <1>2, <1>6, <2>1 DEF NewestAt
  <2> QED BY <1>1, <1>2, <2>2
<1>7. NewestAt(s, i - 1, a) /\ s[i - 1].write[a] = b
  BY <1>2, <1>5, <1>6 DEF NewestAt
<1> QED BY <1>4, <1>7 DEF Backed

\* One more intent: it backs the bytes it wants and leaves the others alone.
LEMMA BackedByLast ==
  ASSUME NEW s \in Seq(Queued), NEW x \in Queued, NEW a
  PROVE  /\ Touches(x, a) => Backed(Append(s, x), a, x.write[a])
         /\ \A b : ~Touches(x, a) /\ Backed(s, a, b) => Backed(Append(s, x), a, b)
<1> DEFINE t == Append(s, x)
           n == Len(s) + 1
<1>1. /\ t \in Seq(Queued) /\ Len(t) = n /\ t[n] = x /\ Len(s) \in Nat /\ n \in Nat
      /\ \A j \in 1..Len(s) : t[j] = s[j]
  OBVIOUS
<1>2. n \in 1..Len(t) /\ \A j \in 1..Len(t) : j <= n BY <1>1
<1>3. \A j \in 1..Len(t) : j = n \/ j \in 1..Len(s) BY <1>1
<1>4. \A j \in 1..Len(s) : j \in 1..Len(t) BY <1>1
<1> HIDE DEF t, n
<1>5. ASSUME Touches(x, a) PROVE Backed(t, a, x.write[a])
  BY <1>1, <1>2, <1>5 DEF Backed, NewestAt
<1>6. ASSUME NEW b, ~Touches(x, a), Backed(s, a, b) PROVE Backed(t, a, b)
  <2>1. PICK i \in 1..Len(s) : NewestAt(s, i, a) /\ s[i].write[a] = b
    BY <1>6 DEF Backed
  <2>2. NewestAt(t, i, a) /\ t[i].write[a] = b
    BY <1>1, <1>3, <1>6, <2>1 DEF NewestAt
  <2> QED BY <1>4, <2>1, <2>2 DEF Backed
<1> QED BY <1>5, <1>6 DEF t

\* No operator of the store but the two about commands moves the overlay.
LEMMA KeepsPending ==
  ASSUME NEW s \in StoreType
  PROVE  /\ \A b : /\ UpdateSettings(s, b).pending = s.pending
                   /\ UpdateSettings(s, b).haveData
         /\ \A x \in {UpdateLive(s), NoteSuccess(s), NoteFailure(s), NoteWedged(s)} :
              /\ x.pending = s.pending /\ x.settings = s.settings
              /\ s.haveData => x.haveData
         /\ \A w : /\ ReconcileClear(s, w).settings = s.settings
                   /\ ReconcileClear(s, w).haveData = s.haveData
BY DEF UpdateSettings, UpdateLive, NoteSuccess, NoteFailure, NoteWedged,
       ReconcileClear, StoreType

\* A step that moves neither intents nor overlay, or only drops overlay bytes.
LEMMA StillBacked ==
  ASSUME OverlayBacked, UNCHANGED Outstanding,
         \A a \in Addr : store'.pending[a] # NoByte /\ a \notin abandoned'
            => store'.pending[a] = store.pending[a] /\ a \notin abandoned
  PROVE  OverlayBacked'
BY DEF OverlayBacked

\* The oldest intent ends: what it alone wanted is cleared, or abandoned.
LEMMA EndsBacked ==
  ASSUME TypeOK, OverlayBacked, intent.at = "write", intent'.at \in {"get", "reconcile"},
         UNCHANGED intents,
         \A a \in Addr : store'.pending[a] # NoByte /\ a \notin abandoned'
            => /\ store'.pending[a] = store.pending[a] /\ a \notin abandoned
               /\ intent.cur.write[a] # store.pending[a]
  PROVE  OverlayBacked'
<1>1. Outstanding = <<intent.cur>> \o intents BY DEF Outstanding
<1>2. Outstanding' = intents BY DEF Outstanding
<1>3. intents \in Seq(Queued) /\ intent.cur \in Queued BY OutstandingType
<1>4. ASSUME NEW a \in Addr, store'.pending[a] # NoByte, a \notin abandoned'
      PROVE  Backed(Outstanding', a, store'.pending[a])
  <2>1. /\ store'.pending[a] = store.pending[a] /\ a \notin abandoned
        /\ intent.cur.write[a] # store.pending[a]
    BY <1>4
  <2>2. Backed(<<intent.cur>> \o intents, a, store.pending[a])
    BY <1>1, <1>4, <2>1 DEF OverlayBacked
  <2>3. Backed(intents, a, store.pending[a]) BY <1>3, <2>1, <2>2, BackedByRest
  <2> QED BY <1>2, <2>1, <2>3
<1> QED BY <1>4 DEF OverlayBacked

\* What a resuming task does to overlay and intents.
LEMMA ResumesBacked ==
  ASSUME NEW c, NEW r \in {"ok", "failed", "crashed"}, NEW b, TypeOK, OInv,
         Resumes(c, r, b), r = "ok" => b \in Block
  PROVE  OInv'
<1>0. /\ store \in StoreType /\ intent.cur.write \in Partial /\ intent \in IntentType
      /\ OverlayBacked /\ KnownIsHad
  BY DEF TypeOK, IntentType, Queued, OInv
<1> DEFINE cleared == ReconcileClear(store, intent.cur.write)
           Same(s) == s.pending = store.pending /\ (SettingsKnown(s) => s.haveData)
<1>1. /\ UpdateLive(store) \in StoreType /\ NoteFailure(store) \in StoreType
      /\ r = "ok" => UpdateSettings(store, b) \in StoreType
      /\ cleared \in StoreType
  BY <1>0, StoreTypes
<1>2. /\ Same(UpdateSettings(store, b)) /\ Same(UpdateLive(store))
      /\ Same(NoteFailure(store)) /\ Same(NoteWedged(store)) /\ Same(store)
  BY <1>0, KeepsPending DEF SettingsKnown, KnownIsHad
<1>3. /\ Same(NoteSuccess(UpdateLive(store))) /\ Same(NoteWedged(NoteFailure(store)))
      /\ r = "ok" => Same(NoteSuccess(UpdateSettings(store, b)))
  BY <1>1, <1>2, KeepsPending DEF SettingsKnown
<1>4. /\ SettingsKnown(cleared) => cleared.haveData
      /\ NoteFailure(cleared).pending = cleared.pending
      /\ SettingsKnown(NoteFailure(cleared)) => NoteFailure(cleared).haveData
  BY <1>0, <1>1, KeepsPending DEF SettingsKnown, KnownIsHad
<1>5. \A a \in Addr : cleared.pending[a] # NoByte =>
        /\ cleared.pending[a] = store.pending[a]
        /\ intent.cur.write[a] # store.pending[a]
  BY <1>0 DEF ReconcileClear, StoreType
<1>6. ASSUME Same(store'), UNCHANGED <<Outstanding, abandoned>> PROVE OInv'
  <2>1. OverlayBacked' BY <1>0, <1>6, StillBacked
  <2> QED BY <1>6, <2>1 DEF OInv, KnownIsHad, SettingsKnown
<1> HIDE DEF cleared, Same
<1>p. CASE c = "poll" /\ PollResumes(r, b)
  <2>1. Same(store') BY <1>2, <1>3, <1>p DEF PollResumes, PollFails
  <2>2. UNCHANGED <<Outstanding, abandoned>> BY <1>p DEF PollResumes, Outstanding
  <2> QED BY <1>6, <2>1, <2>2
<1>m. CASE c = "command" /\ CommandResumes(r, b)
  <2>1. Same(store')
    BY <1>2, <1>3, <1>m DEF CommandResumes, CommandRereads, stateVars
  <2>2. UNCHANGED <<Outstanding, abandoned>> BY <1>m DEF CommandResumes, Outstanding
  <2> QED BY <1>6, <2>1, <2>2
<1>l. CASE c \in LanClients /\ LanResumes(c)
  <2>1. Same(store') BY <1>2, <1>l DEF LanResumes, stateVars
  <2>2. UNCHANGED <<Outstanding, abandoned>>
    BY <1>l DEF LanResumes, Outstanding, taskVars
  <2> QED BY <1>6, <2>1, <2>2
<1>i. CASE c = "intent" /\ IntentResumes(r, b)
  <2>0. UNCHANGED intents BY <1>i DEF IntentResumes
  <2>1. ASSUME intent.at = "reconcile", IntentReread(r, b) PROVE OInv'
    <3>1. Same(store') BY <1>2, <1>3, <2>1 DEF IntentReread
    <3>2. UNCHANGED <<Outstanding, abandoned>>
      BY <2>0, <2>1 DEF IntentReread, IntentDone, Outstanding
    <3> QED BY <1>6, <3>1, <3>2
  <2>2. ASSUME intent.at = "write", IntentRetries PROVE OInv'
    <3>1. Same(store') BY <1>2, <2>2 DEF IntentRetries
    <3>2. UNCHANGED <<Outstanding, abandoned>>
      BY <1>0, <2>0, <2>2 DEF IntentRetries, Outstanding, IntentType
    <3> QED BY <1>6, <3>1, <3>2
  <2>3. ASSUME intent.at = "write", NEW s \in {cleared, NoteFailure(cleared)}, Reconcile(s)
        PROVE  OInv'
    <3>1. /\ store' = s /\ s.pending = cleared.pending
          /\ SettingsKnown(s) => s.haveData
      BY <1>4, <2>3 DEF Reconcile
    <3>2. intent'.at = "reconcile" BY <1>0, <2>3 DEF Reconcile, IntentType
    <3>3. ASSUME NEW a \in Addr, store'.pending[a] # NoByte, a \notin abandoned'
          PROVE  /\ store'.pending[a] = store.pending[a] /\ a \notin abandoned
                 /\ intent.cur.write[a] # store.pending[a]
      <4>1. abandoned' = {x \in abandoned : s.pending[x] # NoByte}
        BY <2>3 DEF Reconcile
      <4> QED BY <1>5, <3>1, <3>3, <4>1
    <3>4. OverlayBacked' BY <1>0, <2>0, <2>3, <3>2, <3>3, EndsBacked
    <3> QED BY <3>1, <3>4 DEF OInv, KnownIsHad, SettingsKnown
  <2>4. ASSUME intent.at = "write", IntentDies PROVE OInv'
    <3>1. Same(store') /\ UNCHANGED store BY <1>2, <2>4 DEF IntentDies
    <3>2. intent'.at = "get" BY <2>4 DEF IntentDies, IntentDone
    <3>3. ASSUME NEW a \in Addr, store'.pending[a] # NoByte, a \notin abandoned'
          PROVE  /\ store'.pending[a] = store.pending[a] /\ a \notin abandoned
                 /\ intent.cur.write[a] # store.pending[a]
      BY <2>4, <3>1, <3>3 DEF IntentDies, Touched
    <3>4. OverlayBacked' BY <1>0, <2>0, <2>4, <3>2, <3>3, EndsBacked
    <3> QED BY <3>1, <3>4 DEF OInv, KnownIsHad, SettingsKnown, Same
  <2> QED BY <1>i, <2>1, <2>2, <2>3, <2>4
      DEF IntentResumes, IntentWrote, IntentGivesUp, cleared
<1> QED BY <1>p, <1>m, <1>l, <1>i DEF Resumes

\* Every step keeps the overlay with the newest intents.
LEMMA OverlayStep ==
  ASSUME TypeOK, ServedReply, OInv, [Next]_vars
  PROVE  OInv'
<1>0. /\ store \in StoreType /\ intents \in Seq(Queued) /\ intent \in IntentType
      /\ intent.cur \in Queued /\ Outstanding \in Seq(Queued)
      /\ OverlayBacked /\ KnownIsHad
  BY OutstandingType DEF TypeOK, OInv
<1>u. ASSUME UNCHANGED <<store, abandoned, Outstanding>> PROVE OInv'
  <2>1. OverlayBacked' BY <1>0, <1>u, StillBacked
  <2> QED BY <1>0, <1>u, <2>1 DEF OInv, KnownIsHad
<1>1. CASE JobSucceeds
  BY <1>1, ResumesBacked DEF JobSucceeds, ServedReply
<1>2. CASE JobFails \/ JobCrashes
  BY <1>2, ResumesBacked DEF JobFails, JobCrashes
<1>3. CASE DaemonRestarts
  <2>1. store' = EmptyStore BY <1>3 DEF DaemonRestarts, VolatileReset
  <2>2. /\ \A a \in Addr : EmptyStore.pending[a] = NoByte
        /\ EmptyStore.settings = Nothing
    BY DEF EmptyStore, Nothing
  <2> QED BY <2>1, <2>2 DEF OInv, OverlayBacked, KnownIsHad, SettingsKnown
<1>4. ASSUME NEW w \in Writes, SendIntent(w) PROVE OInv'
  <2> DEFINE x == [write |-> w, shown |-> SettingsKnown(store)]
  <2>0. w \in Partial BY BrokerAssumption DEF BrokerAssumption
  <2>1. /\ x \in Queued /\ x.write = w /\ x.shown = SettingsKnown(store)
    BY <2>0 DEF Queued, SettingsKnown
  <2>2. /\ intents' = Append(intents, x) /\ UNCHANGED intent
        /\ store' = ApplyOptimistic(store, w)
        /\ abandoned' = IF SettingsKnown(store) THEN abandoned \ Touched(w)
                                                ELSE abandoned
    BY <1>4 DEF SendIntent
  <2> HIDE DEF x
  <2>3. Outstanding' = Append(Outstanding, x)
    <3>1. <<intent.cur>> \o Append(intents, x) = Append(<<intent.cur>> \o intents, x)
      BY <1>0, <2>1
    <3> QED BY <2>2, <3>1 DEF Outstanding
  <2>4. KnownIsHad'
    BY <1>0, <2>0, <2>2
    DEF ApplyOptimistic, KnownIsHad, SettingsKnown, StoreType
  <2>5. CASE SettingsKnown(store)
    <3>1. \A a \in Addr :
            store'.pending[a] = IF w[a] # NoByte THEN w[a] ELSE store.pending[a]
      BY <1>0, <2>2, <2>5
      DEF ApplyOptimistic, KnownIsHad, Overlay, StoreType
    <3>2. ASSUME NEW a \in Addr, store'.pending[a] # NoByte, a \notin abandoned'
          PROVE  Backed(Outstanding', a, store'.pending[a])
      <4>1. CASE w[a] # NoByte
        <5>1. Touches(x, a) BY <2>1, <2>5, <4>1 DEF Touches
        <5>2. store'.pending[a] = x.write[a] BY <2>1, <3>1, <4>1
        <5> QED BY <1>0, <2>1, <2>3, <5>1, <5>2, BackedByLast
      <4>2. CASE w[a] = NoByte
        <5>1. ~Touches(x, a) BY <2>1, <4>2 DEF Touches
        <5>2. store'.pending[a] = store.pending[a] BY <3>1, <4>2
        <5>3. a \notin abandoned BY <2>2, <2>5, <3>2, <4>2 DEF Touched
        <5>4. Backed(Outstanding, a, store.pending[a])
          BY <1>0, <3>2, <5>2, <5>3 DEF OverlayBacked
        <5> QED BY <1>0, <2>1, <2>3, <5>1, <5>2, <5>4, BackedByLast
      <4> QED BY <4>1, <4>2
    <3> QED BY <2>4, <3>2 DEF OInv, OverlayBacked
  <2>6. CASE ~SettingsKnown(store)
    <3>1. store' = store /\ abandoned' = abandoned
      BY <2>2, <2>6 DEF ApplyOptimistic
    <3>2. \A a : ~Touches(x, a) BY <2>1, <2>6 DEF Touches
    <3>3. \A a \in Addr : store.pending[a] # NoByte /\ a \notin abandoned =>
            Backed(Append(Outstanding, x), a, store.pending[a])
      BY <1>0, <2>1, <3>2, BackedByLast DEF OverlayBacked
    <3> QED BY <2>3, <2>4, <3>1, <3>3 DEF OInv, OverlayBacked
  <2> QED BY <2>5, <2>6
<1>5. CASE IntentTake
  <2>1. intents # <<>> /\ intent.at = "get" /\ intents' = Tail(intents)
        /\ intent'.at = "resting" /\ intent'.cur = Head(intents)
        /\ UNCHANGED <<store, abandoned>>
    BY <1>5 DEF IntentTake, stateVars
  <2>2. <<Head(intents)>> \o Tail(intents) = intents BY <1>0, <2>1
  <2>3. UNCHANGED Outstanding BY <2>1, <2>2 DEF Outstanding
  <2> QED BY <1>u, <2>1, <2>3
<1>6. CASE IntentWrites
  <2>1. UNCHANGED <<store, abandoned>> BY <1>6 DEF IntentWrites, stateVars
  <2>2. UNCHANGED Outstanding
    BY <1>0, <1>6 DEF IntentWrites, Outstanding, IntentType
  <2> QED BY <1>u, <2>1, <2>2
<1>7. CASE \/ TakeJob \/ Connected \/ WarmedUp \/ Send \/ Serve
           \/ ResendSwallowed \/ ReconnectAfterFailure
           \/ PollStep \/ CommandStep \/ Tick
           \/ \E w \in Writes : SendCommand(w)
           \/ \E c \in LanClients : LanRequest(c)
           \/ \E m \in Modes : MachineTurns(m)
           \/ \E w \in PanelEdits : PanelEdit(w)
           \/ SubscriberChanges \/ UNCHANGED vars
  <2>1. UNCHANGED <<store, abandoned, intent, intents>>
    BY <1>7 DEF TakeJob, Connected, WarmedUp, Send, Serve, ResendSwallowed,
       ReconnectAfterFailure, PollStep, PollIdle, PollRests, PollProbes,
       PollReads, CommandStep, Tick, SendCommand, LanRequest, MachineTurns,
       PanelEdit, SubscriberChanges, stateVars, taskVars, vars
  <2> QED BY <1>u, <2>1 DEF Outstanding
<1> QED BY <1>1, <1>2, <1>3, <1>4, <1>5, <1>6, <1>7 DEF Next, WorkerStep, IntentStep

(* What is shown over the machine's own byte is the newest command's, for any *)
(* number of commands, retries and restarts, except where a command died      *)
(* unreconciled (store.py, apply_optimistic and reconcile_clear; broker.py,   *)
(* the write-intent loop).                                                  *)
THEOREM OverlayIsNewestTheorem == Spec => []OverlayIsNewest
<1>1. Init => OInv
  BY DEF Init, EmptyStore, Nothing, OInv, OverlayBacked, KnownIsHad, SettingsKnown
<1>2. TypeOK /\ ServedReply /\ OInv /\ [Next]_vars => OInv' BY OverlayStep
<1>3. IInv => TypeOK /\ ServedReply BY DEF IInv
<1>4. ASSUME TypeOK, OInv PROVE OverlayIsNewest
  <2>1. Outstanding \in Seq(Queued) BY <1>4, OutstandingType
  <2> QED BY <1>4, <2>1, BackedIsNewest DEF OInv, OverlayBacked, OverlayIsNewest
<1> QED BY Invariance, <1>1, <1>2, <1>3, <1>4, PTL DEF Spec

-----------------------------------------------------------------------------
(* The worker's request keeps PatientRequest.                               *)

\* A request connects where there is no link, and has re-sent nothing on a new one.
ConnectsFresh ==
  /\ worker.at = "connect" => link = "down"
  /\ worker.at \in {"connect", "warmup"} => worker.tries = 0

\* The next job, or none, begins as a request does.
LEMMA NextJobStarts ==
  ASSUME NEW q, NEW l, worker' = NextJob(q, l), link' = l
  PROVE  Patience!IsOver /\ ConnectsFresh'
BY DEF NextJob, Begin, IdleWorker, Patience!IsOver, Patience!Starts, Patience!Enters,
       ConnectsFresh

LEMMA PatientStep ==
  ASSUME TypeOK, ConnectsFresh, [Next]_vars
  PROVE  ConnectsFresh' /\ [Patience!Next]_(Patience!vars)
<1> DEFINE Goal == ConnectsFresh' /\ [Patience!Next]_(Patience!vars)
<1> USE DEF Patience!Enters, Patience!vars, ConnectsFresh
<1>0. worker \in WorkerType /\ worker.attempt \in {1, 2} /\ link \in {"up", "dead", "down"}
  BY DEF TypeOK, WorkerType
<1>1. CASE TakeJob
  <2>1. worker' = Begin(First(lanes), link) /\ link' = link /\ worker.at = "idle"
    BY <1>1 DEF TakeJob, NextJob
  <2> QED
    BY <2>1 DEF Begin, Patience!Next, Patience!Ask, Patience!Starts
<1>2. CASE Connected
  <2>1. /\ worker'.at = "warmup" /\ worker'.attempt = worker.attempt /\ worker'.tries = worker.tries
        /\ worker.at = "connect" /\ link' = "up"
    BY <1>0, <1>2 DEF Connected, WorkerType
  <2> QED BY <2>1 DEF Patience!Next, Patience!Connect
<1>3. CASE WarmedUp
  <2>1. /\ worker'.at = "pace" /\ worker'.attempt = worker.attempt /\ worker'.tries = worker.tries
        /\ worker.at = "warmup" /\ link' = link
    BY <1>0, <1>3 DEF WarmedUp, WorkerType
  <2> QED BY <2>1 DEF Patience!Next, Patience!WarmUp
<1>4. CASE Send
  <2>1. /\ worker'.at = "await" /\ worker'.attempt = worker.attempt /\ worker'.tries = worker.tries
        /\ worker.at = "pace" /\ link' = link /\ link # "down"
    BY <1>0, <1>4 DEF Send, WorkerType
  <2> QED BY <2>1 DEF Patience!Next, Patience!Send
<1>5. CASE Serve
  <2>1. /\ worker'.at = "served" /\ worker'.attempt = worker.attempt
        /\ worker'.tries = worker.tries
        /\ worker.at = "await" /\ link' = link
    BY <1>0, <1>5 DEF Serve, WorkerType
  <2> QED BY <2>1
<1>6. CASE ResendSwallowed
  <2>1. /\ worker'.at = "pace" /\ worker'.attempt = worker.attempt
        /\ worker'.tries = worker.tries + 1 /\ worker.tries < MaxRetries
        /\ worker.at \in {"await", "served"} /\ link' = link /\ link # "down"
    BY <1>0, <1>6 DEF ResendSwallowed, WorkerType
  <2> QED BY <2>1 DEF Patience!Next, Patience!Resend
<1>7. CASE ReconnectAfterFailure
  <2>1. /\ worker'.at = "connect" /\ worker'.attempt = 2 /\ worker'.tries = 0 /\ worker.attempt = 1
        /\ worker.at \in {"await", "served"} /\ link' = "down"
    BY <1>0, <1>7 DEF ReconnectAfterFailure, AttemptFails, WorkerType
  <2> QED BY <2>1 DEF Patience!Next, Patience!Fault, Patience!GoesOn
<1>8. CASE JobSucceeds
  <2>1. worker' = NextJob(lanes, link) /\ link' = link /\ worker.at = "served"
    BY <1>8 DEF JobSucceeds
  <2>2. Patience!IsOver /\ ConnectsFresh'
    BY <2>1, NextJobStarts
  <2> QED BY <2>1, <2>2 DEF Patience!Next, Patience!Answered
<1>9. CASE JobFails
  <2>1. /\ worker' = NextJob(lanes, "down") /\ link' = "down"
        /\ worker.at \in {"await", "served"} /\ worker.attempt = 2
    BY <1>9 DEF JobFails, AttemptFails
  <2>2. Patience!IsOver /\ ConnectsFresh'
    BY <2>1, NextJobStarts
  <2> QED BY <2>1, <2>2 DEF Patience!Next, Patience!Fault, Patience!GoesOn, Patience!IsOver
<1>10. CASE JobCrashes
  <2>1. /\ worker' = NextJob(lanes, link) /\ link' = link /\ link = "down" /\ worker.at = "pace"
    BY <1>10 DEF JobCrashes
  <2>2. Patience!IsOver /\ ConnectsFresh'
    BY <2>1, NextJobStarts
  <2> QED BY <2>1, <2>2 DEF Patience!Next, Patience!Dies
<1>11. CASE DaemonRestarts
  <2>1. worker' = IdleWorker /\ link' = "down" /\ worker.at = "pace"
    BY <1>11 DEF DaemonRestarts, VolatileReset
  <2> QED BY <2>1 DEF IdleWorker, Patience!Next, Patience!Dies, Patience!IsOver
<1>12. CASE PollRests
  <2>1. link' = "down" /\ worker' = worker
    BY <1>12 DEF PollRests
  <2> QED BY <2>1 DEF Patience!Next, Patience!Close
<1>13. CASE \E m \in Modes : MachineTurns(m)
  <2>1. worker' = worker /\ (link' = "down" <=> link = "down")
    BY <1>13 DEF MachineTurns
  <2> QED BY <2>1
<1>14. CASE \/ PollIdle \/ PollProbes \/ PollReads \/ IntentStep \/ CommandStep \/ Tick
            \/ \E w \in Writes : SendIntent(w) \/ SendCommand(w)
            \/ \E c \in LanClients : LanRequest(c)
            \/ \E w \in PanelEdits : PanelEdit(w)
            \/ SubscriberChanges \/ UNCHANGED vars
  <2>1. worker' = worker /\ link' = link
    BY <1>14 DEF PollIdle, PollProbes, PollReads, IntentStep, IntentTake, IntentWrites,
       CommandStep, Tick, SendIntent, SendCommand, LanRequest, PanelEdit,
       SubscriberChanges, wireVars, vars
  <2> QED BY <2>1
<1> QED
  BY <1>1, <1>2, <1>3, <1>4, <1>5, <1>6, <1>7, <1>8, <1>9, <1>10, <1>11, <1>12, <1>13, <1>14
  DEF Next, WorkerStep, PollStep

(* What the worker does with the client is what the bridge's client promises  *)
(* of one request (client.py, request; governor.py, _run), whatever the       *)
(* machine does and whoever closes the link: PatienceTheorem of               *)
(* ClientProofs is the other half.                                           *)
THEOREM WorkerPatienceTheorem == Spec => WorkerKeepsPatience
<1>1. Init => ConnectsFresh /\ Patience!Init
  BY DEF Init, IdleWorker, ConnectsFresh, Patience!Init
<1>2. IInv /\ ConnectsFresh /\ [Next]_vars
        => ConnectsFresh' /\ [Patience!Next]_(Patience!vars)
  BY PatientStep DEF IInv
<1> QED
  BY <1>1, <1>2, Invariance, PTL DEF Spec, WorkerKeepsPatience, Patience!Spec

=============================================================================
