----------------------------- MODULE R60VClient -----------------------------
(***************************************************************************)
(* The half-duplex client of the machine's listener, in both versions: the *)
(* bridge's (bridge/r60v_broker/client.py) and the integration's           *)
(* (custom_components/rocket_r60v/client.py), told apart by `build'.       *)
(* Replies carry no identifier and the client compares none: it takes as   *)
(* many bytes as its own request calls for.  A reply is a run of units; a  *)
(* run that is not one whole reply fails the frame's checks.  Requests of  *)
(* equal reply size (single registers, acknowledgements) are alike to it.  *)
(***************************************************************************)
EXTENDS Integers, Sequences

CONSTANTS
  Request,         \* the framed requests in use
  Size,            \* the length of each one's reply
  WarmUpRead,      \* the throwaway read that follows the greeting
  Builds,          \* which of the two clients: "bridge", "integration"
  MaxRetries,      \* re-sends of an unanswered frame on the same socket
  Unread           \* bound: frames the machine holds unread before losing one

ASSUME ClientAssumption ==
  /\ Size \in [Request -> Nat \ {0}]
  /\ WarmUpRead \in Request
  /\ Builds \subseteq {"bridge", "integration"}
  /\ MaxRetries \in Nat /\ Unread \in Nat \ {0}

VARIABLES
  build,  \* the client at work; it never changes
  conn,   \* the socket: "none", "open", or "eof" (the peer closed its side)
  exch,   \* the request in progress, if any
  pipe,   \* frames the machine has received and not answered
  air,    \* the part of a reply still on its way
  buf,    \* units received and not read
  late    \* has a wait timed out on this connection?

wire == <<conn, pipe, air, buf, late>>
works == <<conn, exch, pipe, air, buf, late>>
vars == <<build, works>>

Drains          == build = "integration"  \* discards what is buffered before a send
ConnectsForever == build = "bridge"       \* retries a failed connect for ever
Attempts        == IF build = "bridge" THEN 2 ELSE 3  \* a request's exchanges

Unit == [req : Request, pos : Nat \ {0}]
Reply(r) == [i \in 1..Size[r] |-> [req |-> r, pos |-> i]]

Exchange ==
  [at      : {"idle", "connect", "drain", "send", "wait"},
   req     : Request,
   warm    : BOOLEAN,         \* this exchange is the warm-up read
   attempt : 1..Attempts,
   try     : 0..MaxRetries,
   faults  : 0..Attempts]     \* exchanges of this request that failed

Idle == [at |-> "idle", req |-> WarmUpRead, warm |-> FALSE,
         attempt |-> 1, try |-> 0, faults |-> 0]

Sent(x) == IF x.warm THEN WarmUpRead ELSE x.req
Want == Size[Sent(exch)]

\* Each try of an exchange starts here.
TryPoint == IF Drains THEN "drain" ELSE "send"
Begin(x, w) == [x EXCEPT !.at = TryPoint, !.warm = w, !.try = 0]

NextAttempt_OneMore(x) ==  \* mutant: counts one attempt too many
  IF x.attempt <= Attempts
  THEN [x EXCEPT !.at = "connect", !.attempt = x.attempt + 1, !.warm = FALSE]
  ELSE Idle

\* The request's next pass through its loop, or its end with an error.
NextAttempt(x) ==
  IF x.attempt < Attempts
  THEN [x EXCEPT !.at = "connect", !.attempt = x.attempt + 1, !.warm = FALSE]
  ELSE Idle

Dropped_KeepsBuffer ==  \* mutant: a new connection inherits what was buffered
  conn' = "none" /\ pipe' = <<>> /\ air' = <<>> /\ late' = FALSE /\ UNCHANGED buf

Dropped == conn' = "none" /\ pipe' = <<>> /\ air' = <<>> /\ buf' = <<>> /\ late' = FALSE

\* An exchange ends in an error: the warm-up's is ignored and the request goes
\* on over the same stream, any other one drops the socket.
WarmUpFails(unread) ==
  /\ exch.warm
  /\ exch' = Begin(exch, FALSE) /\ buf' = unread /\ UNCHANGED <<conn, pipe, air>>

RequestFaults ==
  /\ ~exch.warm
  /\ exch' = NextAttempt([exch EXCEPT !.faults = exch.faults + 1])
  /\ Dropped

-----------------------------------------------------------------------------
(* The client.                                                              *)

\* A caller gets the lock; a socket closed by the peer still counts as one.
Ask(r) ==
  /\ exch.at = "idle"
  /\ exch' = IF conn = "none" THEN [Idle EXCEPT !.at = "connect", !.req = r]
                              ELSE Begin([Idle EXCEPT !.req = r], FALSE)
  /\ UNCHANGED wire

ConnectOk ==
  /\ exch.at = "connect"
  /\ conn' = "open" /\ exch' = Begin(exch, TRUE)
  /\ UNCHANGED <<pipe, air, buf, late>>

ConnectFails ==
  /\ exch.at = "connect"
  /\ exch' = IF ConnectsForever THEN exch ELSE NextAttempt(exch)
  /\ UNCHANGED wire

\* Discard what is buffered, until nothing more comes.
Drain ==
  /\ exch.at = "drain"
  /\ \/ buf # <<>> /\ buf' = <<>> /\ UNCHANGED exch
     \/ buf = <<>> /\ exch' = [exch EXCEPT !.at = "send"] /\ UNCHANGED buf
  /\ UNCHANGED <<conn, pipe, air, late>>

\* The frame goes out; the machine reads it, or loses it.
Send ==
  /\ exch.at = "send"
  /\ exch' = [exch EXCEPT !.at = "wait"]
  /\ \/ conn = "open" /\ Len(pipe) < Unread /\ pipe' = Append(pipe, Sent(exch))
     \/ UNCHANGED pipe
  /\ UNCHANGED <<conn, air, buf, late>>

\* The peer is gone: the write raises OSError, which a warm-up passes on to
\* the connect that made it.
SendBreaks ==
  /\ exch.at = "send" /\ conn = "eof"
  /\ IF exch.warm
     THEN /\ exch' = IF ConnectsForever
                     THEN [exch EXCEPT !.at = "connect", !.warm = FALSE]
                     ELSE NextAttempt(exch)
          /\ Dropped
     ELSE RequestFaults

Waiting == exch.at = "wait" /\ Len(buf) < Want
Reading == exch.at = "wait" /\ Len(buf) >= Want
Whole   == Size[Head(buf).req] = Want /\ SubSeq(buf, 1, Want) = Reply(Head(buf).req)
Surplus == SubSeq(buf, Want + 1, Len(buf))

Accept ==
  /\ Reading /\ Whole
  /\ buf' = Surplus
  /\ exch' = IF exch.warm THEN Begin(exch, FALSE) ELSE Idle
  /\ UNCHANGED <<conn, pipe, air, late>>

Garbled ==
  /\ Reading /\ ~Whole
  /\ (WarmUpFails(Surplus) /\ UNCHANGED late) \/ RequestFaults

Timeout_Uncounted ==  \* mutant: the re-sends are not counted
  /\ Waiting /\ conn = "open"
  /\ exch' = [exch EXCEPT !.at = TryPoint]
  /\ late' = TRUE /\ UNCHANGED <<conn, pipe, air, buf>>

\* Not enough came in time: the frame is sent again, then given up.
Timeout ==
  /\ Waiting /\ conn = "open"
  /\ IF exch.try < MaxRetries
     THEN /\ exch' = [exch EXCEPT !.at = TryPoint, !.try = exch.try + 1]
          /\ late' = TRUE /\ UNCHANGED <<conn, pipe, air, buf>>
     ELSE (WarmUpFails(buf) /\ late' = TRUE) \/ RequestFaults

ShortRead ==
  /\ Waiting /\ conn = "eof"
  /\ (WarmUpFails(<<>>) /\ UNCHANGED late) \/ RequestFaults

ClientStep == ConnectOk \/ ConnectFails \/ Drain \/ Send \/ SendBreaks
              \/ Accept \/ Garbled \/ Timeout \/ ShortRead

\* close() takes no lock: a wait ends in an error, unless the reply is already
\* there to be returned, and between two awaits of an exchange the missing
\* stream ends the request with another exception.
Close ==
  /\ conn # "none"
  /\ Dropped
  /\ exch' = IF exch.at = "wait" /\ ~exch.warm /\ ~(Reading /\ Whole)
             THEN NextAttempt([exch EXCEPT !.faults = exch.faults + 1])
             ELSE Idle

-----------------------------------------------------------------------------
(* The machine and the network.                                             *)

\* The machine answers the frames in order, one reply on its way at a time.
Answer ==
  /\ pipe # <<>> /\ air = <<>>
  /\ air' = Reply(Head(pipe)) /\ pipe' = Tail(pipe)
  /\ UNCHANGED <<conn, exch, buf, late>>

Deliver ==
  /\ air # <<>>
  /\ buf' = Append(buf, Head(air)) /\ air' = Tail(air)
  /\ UNCHANGED <<conn, exch, pipe, late>>

PeerCloses ==
  /\ conn = "open"
  /\ conn' = "eof" /\ pipe' = <<>> /\ air' = <<>>
  /\ UNCHANGED <<exch, buf, late>>

Init == /\ build \in Builds
        /\ conn = "none" /\ exch = Idle
        /\ pipe = <<>> /\ air = <<>> /\ buf = <<>> /\ late = FALSE

Next ==
  /\ UNCHANGED build
  /\ \/ \E r \in Request : Ask(r)
     \/ ClientStep \/ Close \/ Answer \/ Deliver \/ PeerCloses

Spec == Init /\ [][Next]_vars

\* Every await of the client is bounded by a timeout.
FairSpec == Spec /\ WF_works(ClientStep)

-----------------------------------------------------------------------------
(* Types and sizes of what is on the wire.                                  *)
TypeOK ==
  /\ build \in Builds /\ conn \in {"none", "open", "eof"}
  /\ exch \in Exchange
  /\ pipe \in Seq(Request) /\ Len(pipe) <= Unread
  /\ air \in Seq(Unit) /\ buf \in Seq(Unit)
  /\ late \in BOOLEAN

(* Until a wait on the connection times out no reply is mixed up, however    *)
(* replies are split and whatever happened on earlier connections.          *)
ReplyAnswersRequest == Reading /\ Whole => Head(buf).req = Sent(exch)
AnswersUntilTimeout == late \/ ReplyAnswersRequest

(* The bridge's client reconnects once: "a genuine socket fault or a         *)
(* persistent no-reply drops and reconnects (once)" (bridge client.py).      *)
ReconnectsOnce == build = "bridge" /\ exch.at = "connect" => exch.faults <= 1

(* Either client keeps PatientRequest, however replies come and whoever      *)
(* closes its socket: it retries "in place on the same connection" and lets  *)
(* go of a connection before the next.  The bridge's "drops and reconnects   *)
(* (once)" and connects for as long as it takes; the integration's makes     *)
(* three attempts, those to connect included (client.py, request).  How a   *)
(* warm-up goes is nobody's concern.                                        *)
WarmsUp == exch.at \in {"drain", "send", "wait"} /\ exch.warm
Sending == exch.at \in {"drain", "send", "wait"} /\ ~exch.warm

Patience(attempts, forever) == INSTANCE PatientRequest WITH
  Attempts <- attempts, Forever <- forever, Warms <- TRUE,
  Resends  <- MaxRetries,
  held     <- conn # "none",
  at       <- IF WarmsUp THEN "warmup" ELSE IF exch.at = "drain" THEN "send" ELSE exch.at,
  attempt  <- exch.attempt,
  try      <- IF Sending THEN exch.try ELSE 0

BridgesStep      == Patience(2, TRUE)!Next
IntegrationsStep == Patience(3, FALSE)!Next

ClientsKeepPatience ==
  /\ Patience(2, TRUE)!Init
  /\ [][IF build = "bridge" THEN BridgesStep ELSE IntegrationsStep]_(Patience(2, TRUE)!vars)

(* Whatever the machine does, a request comes to an end; the bridge's may    *)
(* only spend for ever on connecting.                                       *)
RequestsEnd ==
  []<>(exch.at = "idle" \/ (ConnectsForever /\ exch.at = "connect"))

=============================================================================
