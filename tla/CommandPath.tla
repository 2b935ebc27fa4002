---------------------------- MODULE CommandPath ----------------------------
(***************************************************************************)
(* What becomes of a command on its way from Home Assistant to the machine: *)
(* coordinator.async_write with its two channels and the clock push, the    *)
(* integration's client, the bridge's LAN front-end and intent loop, and    *)
(* the command lane of the governor.  Commands are numbered in the order    *)
(* they are asked for and all write one register, the one under study.      *)
(* Reads only take time here; the bridge's own client is in R60VClient, and  *)
(* what it may leave behind at the machine is taken from there.             *)
(***************************************************************************)
EXTENDS Integers, Sequences

CONSTANTS
  MaxCommands,   \* bound: commands asked for
  MaxConns,      \* bound: front-end connections at a time
  MaxStreams,    \* bound: stream handlers at the bridge at a time
  Torn,          \* bound: the commands that may go both ways, or leave a frame
                 \* with the machine
  MaxRetries,    \* the client's re-sends on the same socket
  Attempts,      \* its passes through the request loop
  WriteRetries,  \* WRITE_RETRIES of the intent loop
  QueueMax       \* INTENT_QUEUE_MAX

ASSUME CommandAssumption ==
  /\ {MaxCommands, MaxRetries, WriteRetries} \subseteq Nat
  /\ {MaxConns, MaxStreams, Attempts, QueueMax} \subseteq Nat \ {0}

VARIABLES
  subject,  \* what the commands write, "setting" or "clock"; it never changes
  reg,      \* the command whose payload the register holds
  outcome,  \* what the caller of each command knows of it
  stream,   \* the push stream's handler at the bridge, or NoStream
  wire,     \* commands each handler has still to read, or to be sent
  intents,  \* _intents
  intent,   \* the one in the write-intent loop, and its failed tries
  asked,    \* commands that hold the client's lock (the head) or wait for it
  req,      \* the request in progress
  cur,      \* the client's connection, NoConn, or Broken
  late,     \* has a wait timed out on it?
  acks,     \* acknowledgements received on it and not read
  doubt,    \* may one of them answer another frame of the bridge's?
  conn,     \* the front-end's side of every connection
  lane,     \* the governor's command lane; the worker is at its head
  loose,    \* commands of which the machine may hold one more frame
  done,     \* history: commands the machine has carried out
  strays    \* history: commands of which a frame was left behind: given up
            \* unanswered, loose, or unread on a stream that has ended

caller == <<outcome, asked, req, cur, late, acks, doubt>>
channel == <<stream, wire, intents, intent>>
bridge == <<reg, channel, lane, loose, done>>
vars == <<subject, reg, outcome, stream, wire, intents, intent,
          asked, req, cur, late, acks, doubt, conn, lane, loose, done, strays>>

Command == 1..MaxCommands
Conns   == 1..MaxConns
Streams == 1..MaxStreams
None    == 0          \* no command
NoConn  == 0
NoStream == 0
Broken  == -1         \* lost, but to the client still a connection
Intent  == 0          \* the intent loop's place in the lane

Outcome == {"unasked", "waiting", "sent", "lost", "ok", "late", "failed"}
Idle    == [at |-> "idle", attempt |-> 1, try |-> 0]
Closed  == [on |-> FALSE, frames |-> <<>>, busy |-> None]

-----------------------------------------------------------------------------
(* The integration.                                                         *)

Asks(n) ==
  /\ outcome[n] = "unasked" /\ \A m \in 1..(n - 1) : outcome[m] # "unasked"

Waits(n) ==
  /\ outcome' = [outcome EXCEPT ![n] = "waiting"] /\ asked' = Append(asked, n)

Elements(s) == {s[i] : i \in DOMAIN s}
Sends(n) == wire' = [wire EXCEPT ![stream] = Append(@, n)]

Submits(n) ==
  /\ stream # NoStream /\ Sends(n)
  /\ outcome' = [outcome EXCEPT ![n] = "sent"]
  /\ UNCHANGED <<stream, asked, strays>>

\* The send raised although the frame had left, and with it all before it: the
\* command takes both ways.
SendBreaks(n) ==
  /\ n \in Torn /\ stream # NoStream
  /\ Sends(n) /\ stream' = NoStream
  /\ strays' = strays \cup Elements(wire[stream]) \cup {n}
  /\ Waits(n)

FallsBack(n) ==
  /\ stream = NoStream /\ Waits(n) /\ UNCHANGED <<stream, wire, strays>>

\* async_write: over the stream while that is connected, else, and when the
\* stream's send raises, through the client.
Write(n) ==
  /\ subject = "setting" /\ Asks(n)
  /\ Submits(n) \/ SendBreaks(n) \/ FallsBack(n)
  /\ UNCHANGED <<subject, reg, intents, intent,
                 req, cur, late, acks, doubt, conn, lane, loose, done>>

\* async_push_clock, at set-up and once a day: always through the client.
PushClock(n) ==
  /\ subject = "clock" /\ Asks(n) /\ Waits(n)
  /\ UNCHANGED <<subject, bridge, req, cur, late, acks, doubt, conn, strays>>

Now == Head(asked)
Ends(how) ==
  /\ outcome' = [outcome EXCEPT ![Now] = how]
  /\ asked' = Tail(asked) /\ req' = Idle

\* The next pass of the request loop, or its end.
NextAttempt ==
  IF req.attempt < Attempts
  THEN /\ req' = [at |-> "connect", attempt |-> req.attempt + 1, try |-> 0]
       /\ UNCHANGED <<outcome, asked>>
  ELSE Ends("failed")

Serve ==
  /\ req.at = "idle" /\ asked # <<>>
  /\ req' = [Idle EXCEPT !.at = IF cur = NoConn THEN "connect" ELSE "send"]
  /\ UNCHANGED <<subject, bridge, outcome, asked, cur, late, acks, doubt, conn, strays>>

NoAcks == acks' = 0 /\ doubt' = FALSE

\* The warm-up may have timed out, which is not an error.
Connect ==
  /\ req.at = "connect"
  /\ \E k \in Conns :
       /\ ~conn[k].on /\ \A j \in 1..(k - 1) : conn[j].on
       /\ cur' = k /\ conn' = [conn EXCEPT ![k].on = TRUE]
  /\ late' \in BOOLEAN /\ NoAcks /\ req' = [req EXCEPT !.at = "send"]
  /\ UNCHANGED <<subject, bridge, outcome, asked, strays>>

ConnectFails ==
  /\ req.at = "connect" /\ NextAttempt
  /\ UNCHANGED <<subject, bridge, cur, late, acks, doubt, conn, strays>>

\* What is buffered is discarded, and the frame goes out.
Send ==
  /\ req.at = "send"
  /\ NoAcks /\ req' = [req EXCEPT !.at = "wait"]
  /\ conn' = IF cur = Broken THEN conn
             ELSE [conn EXCEPT ![cur].frames = Append(@, Now)]
  /\ UNCHANGED <<subject, bridge, outcome, asked, cur, late, strays>>

\* Any acknowledgement will do.
Accept ==
  /\ req.at = "wait" /\ acks > 0
  /\ acks' = acks - 1 /\ doubt' = FALSE
  /\ Ends(IF late \/ doubt THEN "late" ELSE "ok")
  /\ UNCHANGED <<subject, bridge, cur, late, conn, strays>>

\* The exchange failed: the socket is dropped.
Fault == cur' = NoConn /\ late' = FALSE /\ NoAcks /\ NextAttempt

GivesUp == strays' = strays \cup {Now}

Timeout ==
  /\ req.at = "wait" /\ acks = 0 /\ cur # Broken
  /\ GivesUp
  /\ IF req.try < MaxRetries
     THEN /\ req' = [req EXCEPT !.at = "send", !.try = @ + 1] /\ late' = TRUE
          /\ UNCHANGED <<outcome, asked, cur, acks, doubt>>
     ELSE Fault
  /\ UNCHANGED <<subject, bridge, conn>>

\* A late reply of the warm-up read is no acknowledgement.
Garbled ==
  /\ req.at = "wait" /\ cur # Broken /\ late
  /\ GivesUp /\ Fault
  /\ UNCHANGED <<subject, bridge, conn>>

FindsBroken ==
  /\ req.at = "wait" /\ cur = Broken /\ Fault
  /\ UNCHANGED <<subject, bridge, conn, strays>>

ClientStep == Serve \/ Connect \/ ConnectFails \/ Send
              \/ Accept \/ Timeout \/ Garbled \/ FindsBroken

-----------------------------------------------------------------------------
(* The stream and the network.                                              *)

\* The client connects anew without waiting for the bridge to have read what it
\* had sent before: each connection has a handler of its own.
StreamConnects ==
  /\ subject = "setting" /\ stream = NoStream
  /\ \E k \in Streams :
       /\ wire[k] = <<>> /\ \A j \in 1..(k - 1) : wire[j] # <<>>
       /\ stream' = k
  /\ UNCHANGED <<subject, reg, wire, intents, intent, caller,
                 conn, lane, loose, done, strays>>

\* What an intent's caller was told stands; it is gone all the same.
Loses(ns) ==
  outcome' = [n \in Command |->
    IF n \in ns /\ outcome[n] = "sent" THEN "lost" ELSE outcome[n]]

\* The bridge still reads what had arrived before.
StreamDrops ==
  /\ stream # NoStream /\ stream' = NoStream
  /\ \E i \in 0..Len(wire[stream]) :
       LET kept == SubSeq(wire[stream], 1, i)
       IN  /\ wire' = [wire EXCEPT ![stream] = kept]
           /\ strays' = strays \cup Elements(kept)
           /\ Loses(Elements(SubSeq(wire[stream], i + 1, Len(wire[stream]))))
  /\ UNCHANGED <<subject, reg, intents, intent,
                 asked, req, cur, late, acks, doubt, conn, lane, loose, done>>

\* The connection is gone for the client; the front-end may not know.
NetworkLost ==
  /\ cur \in Conns /\ cur' = Broken
  /\ strays' = IF req.at = "wait" THEN strays \cup {Now} ELSE strays
  /\ UNCHANGED <<subject, bridge, outcome, asked, req, late, acks, doubt, conn>>

-----------------------------------------------------------------------------
(* The bridge.                                                              *)

Dispatch_AcksFirst(k) ==  \* mutant: acknowledged when taken, not when carried out
  /\ conn[k].on /\ conn[k].busy = None /\ conn[k].frames # <<>>
  /\ conn' = [conn EXCEPT ![k].busy = Head(conn[k].frames), ![k].frames = Tail(@)]
  /\ lane' = Append(lane, k)
  /\ acks' = IF cur = k THEN acks + 1 ELSE acks
  /\ UNCHANGED <<subject, reg, channel, outcome, asked, req, cur, late, doubt,
                 loose, done, strays>>

\* One frame of a connection is dispatched at a time; whether the client is
\* still there makes no difference.
Dispatch(k) ==
  /\ conn[k].on /\ conn[k].busy = None /\ conn[k].frames # <<>>
  /\ conn' = [conn EXCEPT ![k].busy = Head(conn[k].frames), ![k].frames = Tail(@)]
  /\ lane' = Append(lane, k)
  /\ UNCHANGED <<subject, reg, channel, caller, loose, done, strays>>

\* The end of the stream of a client that has left.
HangsUp(k) ==
  /\ conn[k].on /\ cur # k /\ conn[k].busy = None /\ conn[k].frames = <<>>
  /\ conn' = [conn EXCEPT ![k] = Closed]
  /\ UNCHANGED <<subject, bridge, caller, strays>>

Takes(n) ==
  IF Len(intents) < QueueMax
  THEN intents' = Append(intents, n) /\ UNCHANGED outcome
  ELSE Loses({n}) /\ UNCHANGED intents

Admit_AnyOrder(k) ==  \* mutant: a task for every frame, which run in any order
  /\ \E i \in DOMAIN wire[k] :
       /\ wire' = [wire EXCEPT ![k] = SubSeq(@, 1, i - 1) \o SubSeq(@, i + 1, Len(@))]
       /\ Takes(wire[k][i])
  /\ UNCHANGED <<subject, reg, stream, intent, asked, req, cur, late, acks, doubt,
                 conn, lane, loose, done, strays>>

\* _on_ws_command, from whichever handler has something to read: admitted, or
\* dropped when the queue is full.
Admit(k) ==
  /\ wire[k] # <<>> /\ wire' = [wire EXCEPT ![k] = Tail(@)]
  /\ Takes(Head(wire[k]))
  /\ UNCHANGED <<subject, reg, stream, intent, asked, req, cur, late, acks, doubt,
                 conn, lane, loose, done, strays>>

NoIntent == [id |-> None, try |-> 0]

TakeIntent ==
  /\ intent = NoIntent /\ intents # <<>>
  /\ intent' = [id |-> Head(intents), try |-> 0] /\ intents' = Tail(intents)
  /\ UNCHANGED <<subject, reg, stream, wire, caller, conn,
                 lane, loose, done, strays>>

\* After the cooldown, or the back-off between two tries.
SubmitIntent ==
  /\ intent # NoIntent /\ Intent \notin Elements(lane)
  /\ lane' = Append(lane, Intent)
  /\ UNCHANGED <<subject, reg, channel, caller, conn, loose, done, strays>>

\* The worker.  While the machine is off the bridge's client keeps connecting,
\* and the worker does not get on.
Executing == IF Head(lane) = Intent THEN intent.id ELSE conn[Head(lane)].busy
Working   == lane # <<>>
CarriesOut == reg' = Executing /\ done' = done \cup {Executing}
FrontEnds(k) == conn' = [conn EXCEPT ![k] = Closed]

\* The bridge's client re-sends what was swallowed and lets go of what failed;
\* whether the machine still holds such a frame it does not learn.
MayLeave ==
  \E ns \in SUBSET ({Executing} \cap Torn) :
    loose' = loose \cup ns /\ strays' = strays \cup ns

\* The machine, with what was left to it.
CatchesUp ==
  /\ \E n \in loose : reg' = n /\ done' = done \cup {n} /\ loose' \in {loose, loose \ {n}}
  /\ UNCHANGED <<subject, channel, caller, conn, lane, strays>>

\* A reply to a client that has left is an error at the latest on the second.
AckGoesOut(k, doubtful) ==
  \/ /\ conn' = [conn EXCEPT ![k].busy = None]
     /\ IF cur = k THEN acks' = acks + 1 /\ doubt' = (doubt \/ doubtful)
                   ELSE UNCHANGED <<acks, doubt>>
  \/ cur # k /\ FrontEnds(k) /\ UNCHANGED <<acks, doubt>>

\* Any reply of its length is the write's acknowledgement.  Only where no wait had
\* timed out on the connection to the machine is it sure to be its own.
JobSucceeds ==
  /\ Working /\ lane' = Tail(lane)
  /\ MayLeave
  /\ \E doubtful \in BOOLEAN :
       /\ CarriesOut \/ (doubtful /\ UNCHANGED <<reg, done>>)
       /\ IF Head(lane) = Intent
          THEN intent' = NoIntent /\ UNCHANGED <<conn, acks, doubt>>
          ELSE AckGoesOut(Head(lane), doubtful) /\ UNCHANGED intent
  /\ UNCHANGED <<subject, stream, wire, intents, outcome, asked, req, cur, late>>

\* The intent loop tries again, then absorbs the failure; so it does at once
\* with an unexpected one.
IntentFails ==
  \/ /\ intent.try < WriteRetries /\ intent' = [intent EXCEPT !.try = @ + 1]
     /\ UNCHANGED outcome
  \/ intent' = NoIntent /\ Loses({intent.id})

JobFails_Requeues ==  \* mutant: the governor tries again what it reported failed
  /\ Working /\ Head(lane) # Intent
  /\ lane' = Append(Tail(lane), Head(lane))
  /\ cur' = IF cur = Head(lane) THEN Broken ELSE cur
  /\ UNCHANGED <<subject, reg, channel, outcome, asked, req, late, acks, doubt,
                 conn, loose, done, strays>>

\* The write failed, carried out or not, now or later; the front-end drops its
\* client.
JobFails ==
  /\ Working /\ lane' = Tail(lane)
  /\ MayLeave /\ (CarriesOut \/ UNCHANGED <<reg, done>>)
  /\ IF Head(lane) = Intent
     THEN IntentFails /\ UNCHANGED <<conn, cur>>
     ELSE /\ FrontEnds(Head(lane))
          /\ cur' = IF cur = Head(lane) THEN Broken ELSE cur
          /\ UNCHANGED <<intent, outcome>>
  /\ UNCHANGED <<subject, stream, wire, intents, asked, req, late, acks, doubt>>

\* The daemon dies, with all it holds, and is started again.
Restarts ==
  /\ conn' = [k \in Conns |-> Closed] /\ lane' = <<>>
  /\ cur' = IF cur \in Conns THEN Broken ELSE cur
  /\ stream' = NoStream /\ wire' = [k \in Streams |-> <<>>]
  /\ intents' = <<>> /\ intent' = NoIntent
  /\ Loses(UNION {Elements(wire[k]) : k \in Streams} \cup Elements(intents) \cup {intent.id})
  /\ \/ Working /\ MayLeave /\ (CarriesOut \/ UNCHANGED <<reg, done>>)
     \/ UNCHANGED <<reg, done, loose, strays>>
  /\ UNCHANGED <<subject, asked, req, late, acks, doubt>>

-----------------------------------------------------------------------------
Init ==
  /\ subject \in {"setting", "clock"}
  /\ reg = None /\ outcome = [n \in Command |-> "unasked"]
  /\ stream = NoStream /\ wire = [k \in Streams |-> <<>>]
  /\ intents = <<>> /\ intent = NoIntent
  /\ asked = <<>> /\ req = Idle
  /\ cur = NoConn /\ late = FALSE /\ acks = 0 /\ doubt = FALSE
  /\ conn = [k \in Conns |-> Closed] /\ lane = <<>>
  /\ loose = {} /\ done = {} /\ strays = {}

WorkerStep == JobSucceeds \/ JobFails

Next ==
  \/ \E n \in Command : Write(n) \/ PushClock(n)
  \/ ClientStep
  \/ StreamConnects \/ StreamDrops \/ NetworkLost
  \/ \E k \in Conns : Dispatch(k) \/ HangsUp(k)
  \/ \E k \in Streams : Admit(k)
  \/ TakeIntent \/ SubmitIntent \/ WorkerStep \/ CatchesUp \/ Restarts

Spec == Init /\ [][Next]_vars

-----------------------------------------------------------------------------
TypeOK ==
  /\ subject \in {"setting", "clock"}
  /\ reg \in Command \cup {None} /\ outcome \in [Command -> Outcome]
  /\ stream \in Streams \cup {NoStream} /\ wire \in [Streams -> Seq(Command)]
  /\ intents \in Seq(Command)
  /\ intent \in [id : Command \cup {None}, try : 0..WriteRetries]
  /\ asked \in Seq(Command)
  /\ req \in [at : {"idle", "connect", "send", "wait"},
              attempt : 1..Attempts, try : 0..MaxRetries]
  /\ cur \in Conns \cup {NoConn, Broken} /\ late \in BOOLEAN
  /\ acks \in Nat /\ doubt \in BOOLEAN
  /\ conn \in [Conns -> [on : BOOLEAN, frames : Seq(Command),
                         busy : Command \cup {None}]]
  /\ lane \in Seq(Conns \cup {Intent})
  /\ {loose, done, strays} \subseteq SUBSET Command

(* A command acknowledged to its caller has been carried out, unless a wait  *)
(* had timed out before on a connection the acknowledgement came over, the  *)
(* client's or the bridge's; and "fall back to the governed front-end write *)
(* (idempotent)": it stands against every older one but an intent, a command *)
(* of which a frame was left behind, or one that another's acknowledgement   *)
(* was taken for (coordinator.async_write; the bridge's client._exchange).   *)
AckedStands ==
  \A n \in Command : outcome[n] = "ok" =>
    /\ n \in done
    /\ reg \in 1..(n - 1) =>
         reg \in strays \/ outcome[reg] \in {"sent", "lost", "late"}

(* A command reported failed is not carried out afterwards, nor is the clock *)
(* set to a time read long ago, but from a frame left behind: one that the   *)
(* integration gave up and _handle_client goes on with, one that the bridge's *)
(* client left with the machine, or one that takes the stream as well.       *)
NoneAfterReport ==
  [][reg' # reg /\ outcome[reg'] \in {"ok", "failed"} => reg' \in strays]_vars

ByIntent(n) == outcome[n] \in {"sent", "lost"}

(* Intents reach the machine in the order they were given, whatever failed,  *)
(* was tried again or was lost in between (_write_intent_loop); out of it    *)
(* comes only one that was left behind: unread on a stream that had ended    *)
(* while its successor's handler reads (push_server._handler), or a frame of *)
(* it with the machine.                                                     *)
IntentsInOrder ==
  [][reg' # reg /\ ByIntent(reg') =>
       reg' \in strays \/ \A m \in done : ByIntent(m) => m <= reg']_vars

(* The request in progress keeps PatientRequest, which the integration's     *)
(* client keeps too (R60VClient, ClientsKeepPatience), whatever the bridge   *)
(* and the network do: re-sends on the same connection, a connection let go  *)
(* of before the next, a failed connect counted as an attempt.              *)
Patience == INSTANCE PatientRequest WITH
  Forever <- FALSE, Warms <- FALSE,
  Resends <- MaxRetries,
  held    <- cur # NoConn,
  at      <- req.at,
  attempt <- req.attempt,
  try     <- req.try

RequestKeepsPatience == Patience!Spec

=============================================================================
