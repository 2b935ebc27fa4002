----------------------------- MODULE DaemonLife -----------------------------
(***************************************************************************)
(* The daemon's life and what MQTT tells of it: starting, a core task that  *)
(* raises, a signal, the clean-up of Broker.run in its order, the           *)
(* supervisor, and the retained availability topic with the session's will  *)
(* (mqtt_bridge.py, publisher.py).  paho runs in a thread of its own, so a  *)
(* reconnection may come between any two steps of the daemon.  Of the store *)
(* only the verdict and what notifies its listeners matter here.            *)
(***************************************************************************)
EXTENDS DeviceStore, Sequences

CONSTANTS
  LanClients  \* native-protocol clients of the LAN front-end

ASSUME DaemonAssumption == Byte # {}

VARIABLES
  waits,    \* does Server.wait_closed wait for connected clients?  It returns
            \* at once before Python 3.12, and waits since; it never changes
  proc,     \* "up", "stopping", "stopped" (on request), "exited", "dead" (no power)
  cause,    \* why it is stopping: "crash" or "signal"
  cleaning, \* the clean-up step run() is at
  lan,      \* connected LAN clients
  store,
  lastPub,  \* _last_pub_available
  session,  \* paho's: "none", "connecting", "open", "lost"
  topic,    \* the retained availability topic
  ghost,    \* the server has yet to publish the will of a session that ended
  told      \* history: a verdict was published since the session opened

procVars == <<proc, cause, cleaning, lan>>
mqttVars == <<session, topic, ghost, told>>
works == <<procVars, store, lastPub, mqttVars>>
daemonVars == <<waits, works>>

Cleanup == <<"frontend", "push", "governor", "say_offline", "disconnect">>
Alive   == proc \in {"up", "stopping"}
Linked  == session \in {"connecting", "open"}
Word(available) == IF available THEN "online" ELSE "offline"

\* A message published without a connection is lost (QoS 0).
Publishes(w) == topic' = IF Linked THEN w ELSE topic

-----------------------------------------------------------------------------
(* The store's verdict and its mirror.                                      *)

Silent(s) ==
  /\ store' = s /\ UNCHANGED <<lastPub, mqttVars>>

Notifies(s) ==
  /\ store' = s /\ lastPub' = Word(Available(s))
  /\ IF lastPub' # lastPub
     THEN Publishes(lastPub') /\ told' = (told \/ session = "open")
     ELSE UNCHANGED <<topic, told>>
  /\ UNCHANGED <<session, ghost>>

\* _set_available notifies only when the verdict really changes.
Verdict_Silent(s) == Silent(s)  \* mutant: the listeners are not told

Verdict(s) == IF s.available # store.available THEN Notifies(s) ELSE Silent(s)

ReadsSettings == Notifies(UpdateSettings(store, [a \in Addr |-> CHOOSE b \in Byte : TRUE]))

StoreChanges ==
  /\ proc = "up"
  /\ \/ ReadsSettings
     \/ Verdict(NoteSuccess(store))
     \/ Verdict(NoteFailure(store))
     \/ Verdict(NoteWedged(store))
  /\ UNCHANGED procVars

-----------------------------------------------------------------------------
(* The MQTT session.                                                        *)

\* What the server does for a session that ended without a DISCONNECT.
LeavesWill_Unset == UNCHANGED ghost  \* mutant: no will was set

LeavesWill == ghost' = (ghost \/ Linked)

WillFires ==
  /\ ghost /\ ghost' = FALSE /\ topic' = "offline"
  /\ UNCHANGED <<procVars, store, lastPub, session, told>>

ConnectionLost ==
  /\ Alive /\ Linked
  /\ session' = "lost" /\ told' = FALSE /\ LeavesWill
  /\ UNCHANGED <<procVars, store, lastPub, topic>>

\* The same client id takes the old session over, whose will comes first.
TakesOver ==
  /\ session' = "connecting" /\ told' = FALSE /\ ghost' = FALSE
  /\ topic' = IF ghost THEN "offline" ELSE topic

Reconnects ==
  /\ Alive /\ session = "lost" /\ TakesOver
  /\ UNCHANGED <<procVars, store, lastPub>>

\* The callback publishes "online", whatever the store's verdict is.
OnConnect ==
  /\ Alive /\ session = "connecting"
  /\ session' = "open" /\ topic' = "online" /\ told' = FALSE
  /\ UNCHANGED <<procVars, store, lastPub, ghost>>

-----------------------------------------------------------------------------
(* The process.                                                             *)

Starts ==
  /\ proc' = "up" /\ cause' = "none" /\ cleaning' = 0 /\ lan' = {}
  /\ store' = EmptyStore /\ lastPub' = "none"
  /\ TakesOver

\* The supervisor starts an exited daemon again; an operator or the boot a
\* stopped or dead one.
Restarts == proc = "exited" /\ Starts
Comes    == proc \in {"stopped", "dead"} /\ Starts

LanJoins(c) ==
  /\ proc = "up" /\ c \notin lan /\ lan' = lan \cup {c}
  /\ UNCHANGED <<proc, cause, cleaning, store, lastPub, mqttVars>>

LanLeaves(c) ==
  /\ c \in lan /\ lan' = lan \ {c}
  /\ UNCHANGED <<proc, cause, cleaning, store, lastPub, mqttVars>>

Stopping(why) ==
  /\ proc = "up" /\ proc' = "stopping" /\ cause' = why /\ cleaning' = 1
  /\ UNCHANGED <<lan, store, lastPub, mqttVars>>

TaskRaises  == Stopping("crash")
SignalComes == Stopping("signal")

\* Stopping the front-end waits for its clients to hang up, if it waits.
MayGoOn == Cleanup[cleaning] = "frontend" /\ waits => lan = {}

CleansUp ==
  /\ proc = "stopping" /\ cleaning < Len(Cleanup) /\ MayGoOn
  /\ cleaning' = cleaning + 1
  /\ IF Cleanup[cleaning] = "say_offline"
     THEN Publishes("offline") /\ told' = FALSE ELSE UNCHANGED <<topic, told>>
  /\ UNCHANGED <<proc, cause, lan, store, lastPub, session, ghost>>

\* A DISCONNECT, if there is a connection to send it on, cancels the will;
\* main() re-raises what a task raised, so that the process fails.
Exits_Lingers ==  \* mutant: the failure of run() is never retrieved
  /\ proc = "stopping" /\ Cleanup[cleaning] = "disconnect"
  /\ session' = "none" /\ told' = FALSE
  /\ proc' = IF cause = "signal" THEN "stopped" ELSE proc
  /\ UNCHANGED <<cause, cleaning, lan, store, lastPub, topic, ghost>>

Exits ==
  /\ proc = "stopping" /\ Cleanup[cleaning] = "disconnect"
  /\ session' = "none" /\ told' = FALSE
  /\ proc' = IF cause = "signal" THEN "stopped" ELSE "exited"
  /\ lan' = {}
  /\ UNCHANGED <<cause, cleaning, store, lastPub, topic, ghost>>

\* The process is gone at once, its connections with it.
Gone(p) ==
  /\ proc' = p /\ session' = "none" /\ told' = FALSE /\ lan' = {} /\ LeavesWill
  /\ UNCHANGED <<cause, cleaning, store, lastPub, topic>>

Killed       == Alive /\ Gone("exited")
PowerLost    == proc # "dead" /\ Gone("dead")
\* The supervisor asked it to stop and its patience ends.
StopTimesOut == proc = "stopping" /\ cause = "signal" /\ Gone("stopped")

\* A signal during the clean-up after a failure cancels the stop awaited, and
\* with it the rest of the clean-up.
SignalAborts ==
  /\ proc = "stopping" /\ cause = "crash"
  /\ Cleanup[cleaning] \in {"frontend", "push"} /\ Gone("stopped")

DaemonInit ==
  /\ waits \in BOOLEAN
  /\ proc = "stopped" /\ cause = "none" /\ cleaning = 0 /\ lan = {}
  /\ store = EmptyStore /\ lastPub = "none"
  /\ session = "none" /\ topic = "none" /\ ghost = FALSE /\ told = FALSE

DaemonNext ==
  /\ UNCHANGED waits
  /\ \/ StoreChanges
     \/ WillFires \/ ConnectionLost \/ Reconnects \/ OnConnect
     \/ Restarts \/ Comes \/ TaskRaises \/ SignalComes \/ CleansUp \/ Exits
     \/ Killed \/ PowerLost \/ StopTimesOut \/ SignalAborts
     \/ \E c \in LanClients : LanJoins(c) \/ LanLeaves(c)

DaemonSpec == DaemonInit /\ [][DaemonNext]_daemonVars

\* The event loop runs on, the supervisor restarts, the server keeps its will.
DaemonFairSpec ==
  /\ DaemonSpec
  /\ WF_works(CleansUp) /\ WF_works(Exits) /\ WF_works(Restarts)
  /\ WF_works(StopTimesOut) /\ WF_works(WillFires)

-----------------------------------------------------------------------------
DaemonTypeOK ==
  /\ waits \in BOOLEAN
  /\ proc \in {"up", "stopping", "stopped", "exited", "dead"}
  /\ cause \in {"none", "crash", "signal"} /\ cleaning \in 0..Len(Cleanup)
  /\ lan \subseteq LanClients /\ (proc \notin {"up", "stopping"} => lan = {})
  /\ store \in StoreType
  /\ lastPub \in {"none", "online", "offline"}
  /\ session \in {"none", "connecting", "open", "lost"}
  /\ topic \in {"none", "online", "offline"}
  /\ ghost \in BOOLEAN /\ told \in BOOLEAN

(* Once a verdict has been published on an MQTT session, the topic says what *)
(* the store says for as long as that session lasts.                        *)
SameSessionTruth ==
  proc = "up" /\ told => topic = Word(Available(store))

(* A daemon cut off while it runs, for good, does not leave its entities      *)
(* online in Home Assistant: the session's will sees to it (will_set).  Cut   *)
(* off in the middle of disconnect() it may, if paho reconnects there.       *)
DeadIsOffline ==
  <>[](proc = "dead" /\ cleaning = 0) => <>[](topic # "online")

(* A core task's failure ends in a fresh daemon, "re-raise so the process    *)
(* exits non-zero and systemd restarts it" (broker.py, run), provided, where *)
(* wait_closed waits for them, that the LAN clients hang up some time.       *)
ClientsHangUp == \A c \in LanClients : WF_works(LanLeaves(c))

CrashRestarts ==
  (waits => ClientsHangUp) =>
    (proc = "stopping" /\ cause = "crash" ~> proc = "up" \/ proc \in {"dead", "stopped"})

=============================================================================
