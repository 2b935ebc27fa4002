---------------------------- MODULE PushChannel ----------------------------
(***************************************************************************)
(* The state stream: the bridge's WebSocket server (push_server.py), the   *)
(* tasks that broadcast through it, and the integrations that subscribe    *)
(* (push_client.py, and the coordinator in push mode).  The store's content *)
(* is a version number that every change raises.                           *)
(***************************************************************************)
EXTENDS Integers, Sequences

CONSTANTS
  Subscribers,        \* the integrations that may subscribe
  Handlers,           \* tasks besides the poll loop that broadcast commands
  AlwaysPolls,        \* mqtt_enabled: the poll loop runs without subscribers
  Buffer,             \* frames a connection holds before a send has to wait
  MaxVersion          \* bound: changes of the store

ASSUME PushAssumption ==
  /\ "poll" \notin Handlers
  /\ AlwaysPolls \in BOOLEAN
  /\ Buffer \in Nat \ {0} /\ MaxVersion \in Nat

NoFrame == -1   \* the server's first _latest: not a state frame to a client
Version == 0..MaxVersion
Frame   == Version \cup {NoFrame}
Tasks   == Handlers \cup {"poll"}

VARIABLES
  version,  \* what the store holds
  latest,   \* _latest
  members,  \* _clients
  queue,    \* broadcasts that wait for the lock, in turn
  turn,     \* the broadcast that holds it
  sock,     \* each subscriber's connection
  chan,     \* frames sent to it and not read
  view,     \* coordinator.data: the newest state the integration has
  healthy   \* coordinator.last_update_success

server == <<latest, members, queue, turn>>
client == <<sock, chan, view, healthy>>
vars == <<version, latest, members, queue, turn, sock, chan, view, healthy>>

Pending == [who : Tasks, ver : Version]
NoTurn == [on |-> FALSE, who |-> "poll", to |-> {}, dead |-> {}]
Turn == [on : BOOLEAN, who : Tasks, to : SUBSET Subscribers, dead : SUBSET Subscribers]

Busy(t) == (turn.on /\ turn.who = t) \/ \E i \in DOMAIN queue : queue[i].who = t

-----------------------------------------------------------------------------
(* The server.                                                              *)

\* Commands and readings change the store.
StoreChanges ==
  /\ version < MaxVersion
  /\ version' = version + 1
  /\ UNCHANGED <<server, client>>

\* A task calls broadcast(store.raw_snapshot()): the snapshot is taken now,
\* the lock later.
Call(t) ==
  /\ ~Busy(t)
  /\ queue' = Append(queue, [who |-> t, ver |-> version])
  /\ UNCHANGED <<version, latest, members, turn, client>>

PollBroadcasts == (AlwaysPolls \/ members # {}) /\ Call("poll")
CommandBroadcasts(t) == (\E c \in Subscribers : sock[c] = "open") /\ Call(t)

Acquire_LastFirst ==  \* mutant: the lock goes to the last one to ask
  /\ ~turn.on /\ queue # <<>>
  /\ latest' = queue[Len(queue)].ver
  /\ queue' = SubSeq(queue, 1, Len(queue) - 1)
  /\ turn' = IF members = {} THEN NoTurn
             ELSE [on |-> TRUE, who |-> queue[Len(queue)].who, to |-> members, dead |-> {}]
  /\ UNCHANGED <<version, members, client>>

\* The lock is passed on in the order it was asked for.
Acquire ==
  /\ ~turn.on /\ queue # <<>>
  /\ latest' = Head(queue).ver
  /\ queue' = Tail(queue)
  /\ turn' = IF members = {} THEN NoTurn
             ELSE [on |-> TRUE, who |-> Head(queue).who, to |-> members, dead |-> {}]
  /\ UNCHANGED <<version, members, client>>

SendDone(c, dead) ==
  /\ turn' = [turn EXCEPT !.to = @ \ {c}, !.dead = @ \cup dead]
  /\ UNCHANGED <<version, latest, members, queue, sock, view, healthy>>

SendTo(c) ==
  /\ c \in turn.to /\ sock[c] = "open" /\ Len(chan[c]) < Buffer
  /\ chan' = [chan EXCEPT ![c] = Append(@, latest)]
  /\ SendDone(c, {})

\* The frame is in the socket's buffer, but that has not drained in time.
SendTimesOut(c) ==
  /\ c \in turn.to /\ sock[c] = "open" /\ Len(chan[c]) >= Buffer
  /\ chan' = [chan EXCEPT ![c] = Append(@, latest)]
  /\ SendDone(c, {c})

SendFails(c) ==
  /\ c \in turn.to /\ sock[c] # "open"
  /\ SendDone(c, {c}) /\ UNCHANGED chan

Send_NoTimeout(c) ==  \* mutant: a slow subscriber is waited for
  SendTo(c) \/ SendFails(c)

Send(c) == SendTo(c) \/ SendTimesOut(c) \/ SendFails(c)

\* The lock is released; the ones that failed get no more frames.
Finish ==
  /\ turn.on /\ turn.to = {}
  /\ members' = members \ turn.dead
  /\ turn' = NoTurn
  /\ UNCHANGED <<version, latest, queue, client>>

\* The handler of a lost connection unwinds.
HandlerEnds(c) ==
  /\ sock[c] = "closing"
  /\ sock' = [sock EXCEPT ![c] = "off"]
  /\ members' = members \ {c}
  /\ UNCHANGED <<version, latest, queue, turn, chan, view, healthy>>

-----------------------------------------------------------------------------
(* A subscriber.  Its next connection is another object to the server than  *)
(* the last one; it is made once no broadcast still holds the old one.      *)

\* The handler joins the set and sends the last snapshot at once.
Connect(c) ==
  /\ sock[c] = "off" /\ c \notin turn.to \cup turn.dead
  /\ sock' = [sock EXCEPT ![c] = "open"]
  /\ chan' = [chan EXCEPT ![c] = <<latest>>]
  /\ members' = members \cup {c}
  /\ UNCHANGED <<version, latest, queue, turn, view, healthy>>

\* The subscriber cannot connect, or finds its connection lost.
Error(c) == healthy' = [healthy EXCEPT ![c] = FALSE]

ConnectFails(c) ==
  /\ sock[c] = "off" /\ Error(c)
  /\ UNCHANGED <<version, server, sock, chan, view>>

Drops_Silently(c) ==  \* mutant: a closed stream ends the loop without the error
  /\ sock[c] = "open"
  /\ sock' = [sock EXCEPT ![c] = "closing"]
  /\ chan' = [chan EXCEPT ![c] = <<>>]
  /\ UNCHANGED <<version, server, view, healthy>>

Drops(c) ==
  /\ sock[c] = "open"
  /\ sock' = [sock EXCEPT ![c] = "closing"]
  /\ chan' = [chan EXCEPT ![c] = <<>>]
  /\ Error(c)
  /\ UNCHANGED <<version, server, view>>

\* A frame without a settings list is ignored.
Receive(c) ==
  /\ sock[c] = "open" /\ chan[c] # <<>>
  /\ chan' = [chan EXCEPT ![c] = Tail(@)]
  /\ IF Head(chan[c]) = NoFrame
     THEN UNCHANGED <<view, healthy>>
     ELSE /\ view' = [view EXCEPT ![c] = Head(chan[c])]
          /\ healthy' = [healthy EXCEPT ![c] = TRUE]
  /\ UNCHANGED <<version, server, sock>>

\* End Cooldown, always available, asks for a coordinator refresh, which in
\* push mode returns the cached data as a success.
Refresh(c) ==
  /\ healthy' = [healthy EXCEPT ![c] = TRUE]
  /\ UNCHANGED <<version, server, sock, chan, view>>

-----------------------------------------------------------------------------
Init ==
  /\ version = 0 /\ latest = NoFrame
  /\ members = {} /\ queue = <<>> /\ turn = NoTurn
  /\ sock = [c \in Subscribers |-> "off"]
  /\ chan = [c \in Subscribers |-> <<>>]
  /\ view = [c \in Subscribers |-> NoFrame]
  /\ healthy = [c \in Subscribers |-> TRUE]

Subscriber(c) ==
  Connect(c) \/ ConnectFails(c) \/ Drops(c) \/ Receive(c) \/ Refresh(c)

Next ==
  \/ StoreChanges \/ PollBroadcasts \/ Acquire \/ Finish
  \/ \E t \in Handlers : CommandBroadcasts(t)
  \/ \E c \in Subscribers : Send(c) \/ HandlerEnds(c) \/ Subscriber(c)

Spec == Init /\ [][Next]_vars

\* The event loop runs every task that can go on.  A subscriber need not read,
\* and the poll loop may connect to the machine for ever before it broadcasts.
Fairness ==
  /\ WF_vars(Acquire) /\ WF_vars(Finish)
  /\ \A c \in Subscribers : WF_vars(Send(c)) /\ WF_vars(HandlerEnds(c))

FairSpec == Spec /\ Fairness

-----------------------------------------------------------------------------
(* Types; a task has at most one broadcast under way.                       *)
TypeOK ==
  /\ version \in Version /\ latest \in Frame
  /\ members \subseteq Subscribers
  /\ queue \in Seq(Pending) /\ turn \in Turn
  /\ \A i \in 1..Len(queue) : ~(turn.on /\ queue[i].who = turn.who)
  /\ \A i, j \in 1..Len(queue) : i # j => queue[i].who # queue[j].who
  /\ sock \in [Subscribers -> {"off", "open", "closing"}]
  /\ chan \in [Subscribers -> Seq(Frame)]
  /\ view \in [Subscribers -> Frame] /\ healthy \in [Subscribers -> BOOLEAN]

(* "the concurrent poll and command broadcasters cannot deliver an older     *)
(* snapshot after a newer one" (broadcast), nor does a reconnect: what an    *)
(* integration shows never goes back.                                       *)
ViewNeverGoesBack ==
  [][\A c \in Subscribers : view'[c] >= view[c]]_view

(* A slow or stalled subscriber cannot hold up the poll cycle: it never      *)
(* stays inside a broadcast (push_server.py, _SEND_TIMEOUT).                *)
PollNotHeldUp == []<>(~Busy("poll"))

(* Once the store is left alone (its changes are bounded, and in between     *)
(* nothing is said) a subscriber that reads and is still being served comes  *)
(* to show its newest content and keeps showing it, while the poll loop gets *)
(* on with its cycles (_poll_loop; _run, _handle).                          *)
Polls == WF_vars(PollBroadcasts)
Reads(c) == <>[](c \in members /\ sock[c] = "open") /\ WF_vars(Receive(c))
ServedCatchesUp ==
  Polls => \A c \in Subscribers :
             Reads(c) => <>[](view[c] = version /\ healthy[c])

(* "The stream dropped: entities go unavailable until we reconnect"          *)
(* (push_client.py): only the operator's refresh brings an integration back  *)
(* that is not connected; no drop, late frame or failed attempt does.        *)
Shown(c) == healthy[c] /\ view[c] # NoFrame
UnconnectedIsNotShown ==
  [][\A c \in Subscribers :
       sock'[c] # "open" /\ Shown(c)' =>
         sock[c] # "open" /\ (Shown(c) \/ Refresh(c))]_vars

=============================================================================
