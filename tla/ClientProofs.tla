---------------------------- MODULE ClientProofs ----------------------------
(***************************************************************************)
(* What is proved of the half-duplex client, in both versions, for every   *)
(* set of requests and reply sizes.                                        *)
(***************************************************************************)
EXTENDS R60VClient, TLAPS

(* s holds the units of r's reply that follow the first n.                   *)
PartOf(s, r, n) == \A i \in 1..Len(s) : s[i] = [req |-> r, pos |-> n + i]

(* What is under way on a connection that carries one frame at a time: the   *)
(* frame itself, or its reply, some of it received, all or nothing of the    *)
(* rest still on its way.                                                   *)
FrameUnderWay(r) ==
  \/ pipe = <<r>> /\ air = <<>> /\ buf = <<>>
  \/ /\ pipe = <<>> /\ Len(buf) <= Size[r] /\ PartOf(buf, r, 0)
     /\ air # <<>> => Len(buf) + Len(air) = Size[r] /\ PartOf(air, r, Len(buf))

Quiet == pipe = <<>> /\ air = <<>> /\ buf = <<>>

(* Until a wait on the connection has timed out, nothing is on it that is    *)
(* not the present exchange's.                                              *)
OneAtATime ==
  ~late => IF exch.at = "wait" THEN FrameUnderWay(Sent(exch)) ELSE Quiet

(* A new connection begins with nothing of the last one's.                  *)
BeginsClean == conn = "none" => ~late /\ Quiet

(* Nothing more comes from a peer that closed its side.                      *)
GoneIsSilent == conn = "eof" => pipe = <<>> /\ air = <<>>

(* There is a connection wherever there is to be one; an exchange failed     *)
(* for each attempt counted at the most.                                    *)
Connected == exch.at \in {"drain", "send", "wait"} => conn # "none"
Unconnected == exch.at = "connect" => conn = "none"
FaultsCounted == exch.faults < exch.attempt

CInv ==
  /\ TypeOK
  /\ OneAtATime /\ BeginsClean /\ GoneIsSilent /\ Connected /\ Unconnected
  /\ FaultsCounted


-----------------------------------------------------------------------------
(* Operators on exchanges and on what is buffered.                          *)

\* A reply is as long as its size says, each unit in its place.
LEMMA ReplyParts ==
  ASSUME NEW r \in Request
  PROVE  /\ Size[r] \in Nat \ {0}
         /\ Reply(r) \in Seq(Unit) /\ Len(Reply(r)) = Size[r]
         /\ Reply(r) # <<>> /\ PartOf(Reply(r), r, 0)
<1>1. Size[r] \in Nat \ {0}
  BY ClientAssumption DEF ClientAssumption
<1>2. \A i \in 1..Size[r] : [req |-> r, pos |-> i] \in Unit
  BY <1>1 DEF Unit
<1>3. Reply(r) \in Seq(Unit) /\ Len(Reply(r)) = Size[r]
  BY <1>1, <1>2 DEF Reply
<1>4. \A i \in 1..Size[r] : Reply(r)[i] = [req |-> r, pos |-> 0 + i]
  BY <1>1 DEF Reply
<1> QED BY <1>1, <1>3, <1>4 DEF PartOf

\* The exchange in progress sends one of the requests in use.
LEMMA SentType ==
  ASSUME NEW x \in Exchange
  PROVE  Sent(x) \in Request
BY ClientAssumption DEF ClientAssumption, Exchange, Sent

\* Each start, next pass and end of a request is an exchange, and counts its
\* failures below its attempts.
LEMMA ExchangeSteps ==
  ASSUME build \in Builds, NEW x \in Exchange, x.faults < x.attempt
  PROVE  /\ Attempts \in Nat \ {0}
         /\ Idle \in Exchange /\ Idle.faults < Idle.attempt
         /\ \A w \in BOOLEAN : Begin(x, w) \in Exchange
         /\ NextAttempt(x) \in Exchange
         /\ NextAttempt(x).faults < NextAttempt(x).attempt
         /\ NextAttempt([x EXCEPT !.faults = x.faults + 1]) \in Exchange
         /\ NextAttempt([x EXCEPT !.faults = x.faults + 1]).faults
              < NextAttempt([x EXCEPT !.faults = x.faults + 1]).attempt
         /\ NextAttempt(x).at \in {"idle", "connect"}
         /\ NextAttempt([x EXCEPT !.faults = x.faults + 1]).at \in {"idle", "connect"}
<1> USE ClientAssumption DEF ClientAssumption
<1>1. /\ Attempts \in Nat \ {0} /\ 1 \in 1..Attempts /\ 0 \in 0..Attempts
      /\ 0 \in 0..MaxRetries
  BY DEF Attempts
<1>2. Idle \in Exchange /\ Idle.faults < Idle.attempt
  BY <1>1 DEF Idle, Exchange
<1>3. \A w \in BOOLEAN : Begin(x, w) \in Exchange
  <2>1. TryPoint \in {"idle", "connect", "drain", "send", "wait"}
    BY DEF TryPoint
  <2> QED BY <1>1, <2>1 DEF Begin, Exchange
<1>4. ASSUME NEW y \in Exchange, y.faults <= y.attempt
      PROVE  /\ NextAttempt(y) \in Exchange
             /\ NextAttempt(y).faults < NextAttempt(y).attempt
             /\ NextAttempt(y).at \in {"idle", "connect"}
  <2>1. CASE y.attempt < Attempts
    <3>1. y.attempt + 1 \in 1..Attempts /\ "connect" \in {"idle", "connect", "drain", "send", "wait"}
      BY <1>1, <2>1 DEF Exchange
    <3>2. NextAttempt(y) = [y EXCEPT !.at = "connect", !.attempt = y.attempt + 1, !.warm = FALSE]
      BY <2>1 DEF NextAttempt
    <3>3. NextAttempt(y) \in Exchange
      BY <3>1, <3>2 DEF Exchange
    <3> QED BY <1>1, <1>4, <3>2, <3>3 DEF Exchange
  <2>2. CASE ~(y.attempt < Attempts)
    BY <1>2, <2>2 DEF NextAttempt, Idle
  <2> QED BY <2>1, <2>2
<1>5. /\ [x EXCEPT !.faults = x.faults + 1] \in Exchange
      /\ [x EXCEPT !.faults = x.faults + 1].faults <= [x EXCEPT !.faults = x.faults + 1].attempt
  <2>1. x.faults + 1 \in 0..Attempts /\ x.faults \in Nat /\ x.attempt \in Nat
    BY <1>1 DEF Exchange
  <2> QED BY <2>1 DEF Exchange
<1>6. x.faults <= x.attempt
  BY <1>1 DEF Exchange
<1> QED BY <1>1, <1>2, <1>3, <1>4, <1>5, <1>6

\* What is left of a buffer once a whole reply is read.
LEMMA SurplusParts ==
  ASSUME buf \in Seq(Unit), Want \in Nat, Len(buf) >= Want
  PROVE  /\ Surplus \in Seq(Unit)
         /\ Len(buf) = Want => Surplus = <<>>
BY DEF Surplus

-----------------------------------------------------------------------------
(* The invariant, action by action.                                         *)

LEMMA ClientInit == Init => CInv
<1> SUFFICES ASSUME Init PROVE CInv
  OBVIOUS
<1>1. 1 \in 1..Attempts /\ 0 \in 0..Attempts /\ 0 \in 0..MaxRetries /\ Unread \in Nat
  BY ClientAssumption DEF ClientAssumption, Init, Attempts
<1>2. exch \in Exchange
  BY <1>1, ClientAssumption DEF ClientAssumption, Init, Idle, Exchange
<1>3. TypeOK
  <2>1. Len(<<>>) = 0 /\ build \in Builds
    BY DEF Init
  <2>2. pipe \in Seq(Request) /\ air \in Seq(Unit) /\ buf \in Seq(Unit)
    BY DEF Init
  <2>3. Len(pipe) <= Unread
    BY <1>1, <2>1 DEF Init
  <2>4. conn \in {"none", "open", "eof"} /\ late \in BOOLEAN
    BY DEF Init
  <2> QED BY <1>2, <2>1, <2>2, <2>3, <2>4 DEF TypeOK
<1> QED
  BY <1>3 DEF Init, Idle, CInv, OneAtATime, BeginsClean, GoneIsSilent, Connected,
              Unconnected, FaultsCounted, Quiet

\* A step that drops the connection and goes on to an attempt or an end.
LEMMA DroppedInv ==
  ASSUME CInv, UNCHANGED build, Dropped, exch' \in Exchange,
         exch'.faults < exch'.attempt, exch'.at \in {"idle", "connect"}
  PROVE  CInv'
<1>1. TypeOK'
  <2>1. exch' \in Exchange'
    BY DEF Exchange, Attempts
  <2>2. Len(<<>>) = 0 /\ Unread \in Nat
    BY ClientAssumption DEF ClientAssumption
  <2>3. /\ pipe' \in Seq(Request) /\ air' \in Seq(Unit) /\ buf' \in Seq(Unit)
        /\ conn' \in {"none", "open", "eof"}
    BY DEF Dropped
  <2>5. late' \in BOOLEAN
    BY DEF Dropped
  <2>4. Len(pipe') <= Unread
    <3>1. pipe' = <<>> BY DEF Dropped
    <3> QED BY <2>2, <3>1
  <2> QED BY <2>1, <2>3, <2>4, <2>5 DEF CInv, TypeOK, Unit
<1> QED
  BY <1>1 DEF CInv, Dropped, OneAtATime, BeginsClean, GoneIsSilent, Connected,
              Unconnected, FaultsCounted, Quiet

LEMMA RequestFaultsInv ==
  ASSUME CInv, UNCHANGED build, RequestFaults
  PROVE  CInv'
BY ExchangeSteps, DroppedInv DEF CInv, TypeOK, FaultsCounted, RequestFaults

\* A step from a wait to the exchange that comes next on the same connection.
LEMMA BeginsNextInv ==
  ASSUME CInv, UNCHANGED <<build, conn, pipe, air>>,
         exch.at = "wait", exch' = Begin(exch, FALSE),
         buf' \in Seq(Unit), late' \in BOOLEAN,
         ~late' => pipe = <<>> /\ air = <<>> /\ buf' = <<>>
  PROVE  CInv'
<1>1. exch' \in Exchange /\ exch'.at \in {"drain", "send"} /\ exch'.faults = exch.faults
      /\ exch'.attempt = exch.attempt
  <2>1. exch' \in Exchange
    BY ExchangeSteps DEF CInv, TypeOK, FaultsCounted
  <2> QED BY <2>1 DEF CInv, TypeOK, Begin, TryPoint, Exchange
<1>2. TypeOK'
  BY <1>1 DEF CInv, TypeOK, Exchange, Attempts
<1> QED
  BY <1>1, <1>2 DEF CInv, OneAtATime, BeginsClean, GoneIsSilent, Connected,
                    Unconnected, FaultsCounted, Quiet

\* Once a reply could be read, nothing else is under way, unless a wait has
\* timed out: what is read is the answer.
LEMMA ReadIsAnswer ==
  ASSUME CInv, Reading, ~late
  PROVE  /\ pipe = <<>> /\ air = <<>> /\ Len(buf) = Want
         /\ Head(buf).req = Sent(exch)
<1>1. Want \in Nat \ {0} /\ Want = Size[Sent(exch)]
  BY SentType, ReplyParts DEF CInv, TypeOK, Want
<1>2. FrameUnderWay(Sent(exch)) /\ buf \in Seq(Unit) /\ air \in Seq(Unit)
  BY DEF CInv, TypeOK, OneAtATime, Reading
<1>3. Len(buf) >= Want
  BY DEF Reading
<1>4. Len(buf) = Want /\ pipe = <<>> /\ PartOf(buf, Sent(exch), 0)
  BY <1>1, <1>2, <1>3 DEF FrameUnderWay
<1>5. air = <<>>
  BY <1>1, <1>2, <1>4 DEF FrameUnderWay
<1>6. Head(buf).req = Sent(exch)
  <2>1. 1 \in 1..Len(buf) /\ Head(buf) = buf[1]
    BY <1>1, <1>2, <1>4
  <2> QED BY <1>4, <2>1 DEF PartOf
<1> QED BY <1>4, <1>5, <1>6

LEMMA SurplusNext ==
  ASSUME CInv, Reading
  PROVE  /\ Surplus \in Seq(Unit)
         /\ ~late => pipe = <<>> /\ air = <<>> /\ Surplus = <<>>
<1>1. Want \in Nat /\ buf \in Seq(Unit)
  BY SentType, ReplyParts DEF CInv, TypeOK, Want
<1> QED BY <1>1, SurplusParts, ReadIsAnswer DEF Reading

\* Every step of the client keeps the invariant.
LEMMA ClientStepInv ==
  ASSUME CInv, UNCHANGED build, ClientStep
  PROVE  CInv'
<1> USE DEF CInv
<1>s. exch.at # "idle" => Sent(exch) \in Request /\ Want \in Nat \ {0}
  BY SentType, ReplyParts DEF TypeOK, Want
<1>1. CASE ConnectOk
  <2>1. exch' \in Exchange /\ exch'.at \in {"drain", "send"}
        /\ exch'.faults = exch.faults /\ exch'.attempt = exch.attempt
    <3>1. exch' \in Exchange
      BY <1>1, ExchangeSteps DEF ConnectOk, TypeOK, FaultsCounted
    <3> QED BY <1>1, <3>1 DEF ConnectOk, TypeOK, Begin, TryPoint, Exchange
  <2>2. TypeOK'
    BY <1>1, <2>1 DEF ConnectOk, TypeOK, Exchange, Attempts
  <2> QED
    BY <1>1, <2>1, <2>2 DEF ConnectOk, OneAtATime, BeginsClean, GoneIsSilent, Connected,
                            Unconnected, FaultsCounted, Quiet
<1>2. CASE ConnectFails
  <2>1. exch' \in Exchange /\ exch'.at \in {"idle", "connect"} /\ exch'.faults < exch'.attempt
    BY <1>2, ExchangeSteps DEF ConnectFails, TypeOK, FaultsCounted
  <2>2. TypeOK'
    BY <1>2, <2>1 DEF ConnectFails, wire, TypeOK, Exchange, Attempts
  <2> QED
    BY <1>2, <2>1, <2>2 DEF ConnectFails, wire, OneAtATime, BeginsClean, GoneIsSilent,
                            Connected, Unconnected, FaultsCounted, Quiet
<1>3. CASE Drain
  <2>1. exch' \in Exchange /\ exch'.at \in {"drain", "send"}
        /\ exch'.faults = exch.faults /\ exch'.attempt = exch.attempt
    <3>1. exch' \in Exchange /\ exch'.at \in {"drain", "send"}
      BY <1>3 DEF Drain, TypeOK, Exchange
    <3> QED BY <1>3, <3>1 DEF Drain, TypeOK, Exchange
  <2>4. buf' \in Seq(Unit)
    <3>1. buf \in Seq(Unit) BY DEF TypeOK
    <3>2. CASE buf' = <<>> BY <3>2
    <3>3. CASE buf' = buf BY <3>1, <3>3
    <3> QED BY <1>3, <3>2, <3>3 DEF Drain
  <2>2. TypeOK'
    BY <1>3, <2>1, <2>4 DEF Drain, TypeOK, Exchange, Attempts
  <2>3. Quiet => Quiet'
    BY <1>3 DEF Drain, Quiet
  <2> QED
    BY <1>3, <2>1, <2>2, <2>3 DEF Drain, OneAtATime, BeginsClean, GoneIsSilent,
                            Connected, Unconnected, FaultsCounted
<1>4. CASE Send
  <2>1. exch' \in Exchange /\ exch'.at = "wait" /\ Sent(exch') = Sent(exch)
        /\ exch'.faults = exch.faults /\ exch'.attempt = exch.attempt
    BY <1>4 DEF Send, TypeOK, Exchange, Sent
  <2>2. Sent(exch) \in Request
    BY <1>4, <1>s DEF Send
  <2>3. pipe' \in Seq(Request) /\ Len(pipe') <= Unread
    <3>1. pipe \in Seq(Request) /\ Len(pipe) <= Unread
      BY DEF TypeOK
    <3>3. Unread \in Nat
      BY ClientAssumption DEF ClientAssumption
    <3>2. UNCHANGED pipe \/ (Len(pipe) < Unread /\ pipe' = Append(pipe, Sent(exch)))
      BY <1>4 DEF Send
    <3> QED BY <2>2, <3>1, <3>2, <3>3
  <2>4. TypeOK'
    BY <1>4, <2>1, <2>3 DEF Send, TypeOK, Exchange, Attempts
  <2>5. ~late => FrameUnderWay(Sent(exch))'
    <3>1. SUFFICES ASSUME ~late PROVE FrameUnderWay(Sent(exch))'
      OBVIOUS
    <3>2. pipe = <<>> /\ air = <<>> /\ buf = <<>> /\ air' = air /\ buf' = buf
      BY <1>4, <3>1 DEF Send, OneAtATime, Quiet
    <3>3. pipe' = <<>> \/ pipe' = <<Sent(exch)>>
      BY <1>4, <2>2, <3>2 DEF Send
    <3>4. Size[Sent(exch)] \in Nat
      BY <2>2, ReplyParts
    <3> QED BY <2>1, <3>2, <3>3, <3>4 DEF FrameUnderWay, PartOf
  <2>6. (~late => FrameUnderWay(Sent(exch)))' 
    BY <1>4, <2>5 DEF Send
  <2> QED
    BY <1>4, <2>1, <2>4, <2>6 DEF Send, OneAtATime, BeginsClean, GoneIsSilent,
                            Connected, Unconnected, FaultsCounted
<1>5. CASE SendBreaks
  <2>1. CASE exch.warm
    <3>1. exch' \in Exchange /\ exch'.at \in {"idle", "connect"} /\ exch'.faults < exch'.attempt
      <4>1. CASE ConnectsForever
        BY <1>5, <2>1, <4>1 DEF SendBreaks, TypeOK, FaultsCounted, Exchange
      <4>2. CASE ~ConnectsForever
        BY <1>5, <2>1, <4>2, ExchangeSteps DEF SendBreaks, TypeOK, FaultsCounted
      <4> QED BY <4>1, <4>2
    <3> QED BY <1>5, <2>1, <3>1, DroppedInv DEF SendBreaks
  <2> QED BY <1>5, <2>1, RequestFaultsInv DEF SendBreaks
<1>6. CASE Accept
  <2>1. Surplus \in Seq(Unit) /\ (~late => pipe = <<>> /\ air = <<>> /\ Surplus = <<>>)
    BY <1>6, SurplusNext DEF Accept
  <2>2. late \in BOOLEAN
    BY DEF TypeOK
  <2>3. CASE exch.warm
    BY <1>6, <2>1, <2>2, <2>3, BeginsNextInv DEF Accept, Reading
  <2>4. CASE ~exch.warm
    <3>1. exch' \in Exchange /\ exch'.at = "idle" /\ exch'.faults < exch'.attempt
      BY <1>6, <2>4, ExchangeSteps DEF Accept, TypeOK, FaultsCounted, Idle
    <3>2. TypeOK'
      BY <1>6, <2>1, <3>1 DEF Accept, TypeOK, Exchange, Attempts
    <3> QED
      BY <1>6, <2>1, <3>1, <3>2 DEF Accept, Reading, OneAtATime, BeginsClean, GoneIsSilent,
                              Connected, Unconnected, FaultsCounted, Quiet
  <2> QED BY <2>3, <2>4
<1>7. CASE Garbled
  <2>1. Surplus \in Seq(Unit) /\ (~late => pipe = <<>> /\ air = <<>> /\ Surplus = <<>>)
    BY <1>7, SurplusNext DEF Garbled
  <2>2. late \in BOOLEAN
    BY DEF TypeOK
  <2>3. CASE WarmUpFails(Surplus) /\ UNCHANGED late
    BY <1>7, <2>1, <2>2, <2>3, BeginsNextInv DEF Garbled, WarmUpFails, Reading
  <2> QED BY <1>7, <2>3, RequestFaultsInv DEF Garbled
<1>8. CASE Timeout
  <2>1. CASE exch.try < MaxRetries
    <3>1. /\ exch' \in Exchange /\ exch'.at \in {"drain", "send"}
          /\ exch'.faults = exch.faults /\ exch'.attempt = exch.attempt
      <4>1. exch.try + 1 \in 0..MaxRetries /\ TryPoint \in {"drain", "send"}
        BY <2>1, ClientAssumption DEF ClientAssumption, TypeOK, Exchange, TryPoint
      <4>2. exch' = [exch EXCEPT !.at = TryPoint, !.try = exch.try + 1]
        BY <1>8, <2>1 DEF Timeout
      <4> QED BY <4>1, <4>2 DEF TypeOK, Exchange
    <3>2. TypeOK'
      BY <1>8, <2>1, <3>1 DEF Timeout, TypeOK, Exchange, Attempts
    <3> QED
      BY <1>8, <2>1, <3>1, <3>2 DEF Timeout, Waiting, OneAtATime, BeginsClean,
                GoneIsSilent, Connected, Unconnected, FaultsCounted
  <2>2. CASE WarmUpFails(buf) /\ late' = TRUE
    BY <1>8, <2>2, BeginsNextInv DEF Timeout, Waiting, WarmUpFails, TypeOK
  <2> QED BY <1>8, <2>1, <2>2, RequestFaultsInv DEF Timeout
<1>9. CASE ShortRead
  <2>1. CASE WarmUpFails(<<>>) /\ UNCHANGED late
    <3>1. pipe = <<>> /\ air = <<>>
      BY <1>9 DEF ShortRead, GoneIsSilent
    <3>2. late' \in BOOLEAN /\ buf' \in Seq(Unit)
      BY <2>1 DEF WarmUpFails, TypeOK
    <3> QED BY <1>9, <2>1, <3>1, <3>2, BeginsNextInv DEF ShortRead, Waiting, WarmUpFails
  <2> QED BY <1>9, <2>1, RequestFaultsInv DEF ShortRead
<1> QED
  BY <1>1, <1>2, <1>3, <1>4, <1>5, <1>6, <1>7, <1>8, <1>9 DEF ClientStep

\* A caller that gets the lock finds the connection as the last one left it.
LEMMA AskInv ==
  ASSUME CInv, UNCHANGED build, NEW r \in Request, Ask(r)
  PROVE  CInv'
<1> USE DEF CInv
<1>1. Idle \in Exchange /\ [Idle EXCEPT !.req = r] \in Exchange
      /\ [Idle EXCEPT !.at = "connect", !.req = r] \in Exchange
  <2>1. Idle \in Exchange
    BY ExchangeSteps DEF TypeOK, FaultsCounted
  <2> QED BY <2>1 DEF Exchange
<1>2. /\ exch' \in Exchange /\ exch'.faults < exch'.attempt
      /\ exch'.at \in {"connect", "drain", "send"}
      /\ exch'.at = "connect" <=> conn = "none"
  <2>1. CASE conn = "none"
    BY <1>1, <2>1 DEF Ask, Idle
  <2>2. CASE conn # "none"
    <3>1. exch' = Begin([Idle EXCEPT !.req = r], FALSE) /\ [Idle EXCEPT !.req = r].faults = 0
          /\ [Idle EXCEPT !.req = r].attempt = 1
      BY <2>2 DEF Ask, Idle
    <3>2. exch' \in Exchange
      <4> DEFINE x == [Idle EXCEPT !.req = r]
      <4>1. x \in Exchange /\ x.faults < x.attempt /\ exch' = Begin(x, FALSE)
        BY <1>1, <3>1
      <4> HIDE DEF x
      <4> QED BY <4>1, ExchangeSteps DEF TypeOK
    <3>3. exch'.at \in {"drain", "send"} /\ exch'.faults = 0 /\ exch'.attempt = 1
      BY <1>1, <3>1 DEF Begin, TryPoint, Exchange
    <3> QED BY <2>2, <3>2, <3>3
  <2> QED BY <2>1, <2>2
<1>3. TypeOK'
  BY <1>2 DEF Ask, wire, TypeOK, Exchange, Attempts
<1> QED
  BY <1>2, <1>3 DEF Ask, wire, OneAtATime, BeginsClean, GoneIsSilent, Connected,
                    Unconnected, FaultsCounted, Quiet

\* close(), whatever the exchange in progress is at.
LEMMA CloseInv ==
  ASSUME CInv, UNCHANGED build, Close
  PROVE  CInv'
<1>1. exch' \in Exchange /\ exch'.faults < exch'.attempt /\ exch'.at \in {"idle", "connect"}
  <2> DEFINE broken == exch.at = "wait" /\ ~exch.warm /\ ~(Reading /\ Whole)
  <2>1. CASE broken
    BY <2>1, ExchangeSteps DEF CInv, TypeOK, FaultsCounted, Close
  <2>2. CASE ~broken
    BY <2>2, ExchangeSteps DEF CInv, TypeOK, FaultsCounted, Close, Idle
  <2> QED BY <2>1, <2>2
<1> QED BY <1>1, DroppedInv DEF Close

\* The machine and the network: a frame turns into its reply, the reply into
\* what is received of it.
LEMMA AnswerInv ==
  ASSUME CInv, UNCHANGED build, Answer
  PROVE  CInv'
<1> USE DEF CInv
<1>1. pipe \in Seq(Request) /\ pipe # <<>> /\ Head(pipe) \in Request
      /\ Tail(pipe) \in Seq(Request) /\ Len(Tail(pipe)) = Len(pipe) - 1 /\ Len(pipe) \in Nat
  <2>1. pipe \in Seq(Request) /\ pipe # <<>> BY DEF TypeOK, Answer
  <2> QED BY <2>1
<1>2. /\ Size[Head(pipe)] \in Nat \ {0} /\ air' \in Seq(Unit) /\ Len(air') = Size[Head(pipe)]
      /\ air' # <<>> /\ PartOf(air', Head(pipe), 0)
  BY <1>1, ReplyParts DEF Answer
<1>3. TypeOK'
  <2>1. pipe' \in Seq(Request) /\ Len(pipe') <= Unread
    <3>1. Unread \in Nat /\ Len(pipe) <= Unread /\ pipe' = Tail(pipe)
      BY ClientAssumption DEF ClientAssumption, TypeOK, Answer
    <3> QED BY <1>1, <3>1
  <2> QED BY <1>2, <2>1 DEF TypeOK, Answer, Exchange, Attempts
<1>4. OneAtATime'
  <2> SUFFICES ASSUME ~late PROVE OneAtATime'
    BY DEF OneAtATime, Answer
  <2>1. exch.at = "wait" /\ FrameUnderWay(Sent(exch))
    BY DEF Answer, OneAtATime, Quiet
  <2>2. pipe = <<Sent(exch)>> /\ buf = <<>> /\ air = <<>>
    BY <2>1 DEF Answer, FrameUnderWay
  <2>3. Head(pipe) = Sent(exch) /\ pipe' = <<>> /\ buf' = <<>> /\ Len(buf') = 0
    BY <2>2 DEF Answer
  <2>4. FrameUnderWay(Sent(exch))'
    BY <1>2, <2>3 DEF Answer, FrameUnderWay, PartOf
  <2> QED BY <2>1, <2>4 DEF OneAtATime, Answer
<1>5. UNCHANGED <<conn, exch, buf, late>> /\ pipe # <<>>
  BY DEF Answer
<1> QED
  BY <1>3, <1>4, <1>5 DEF BeginsClean, GoneIsSilent, Connected, Unconnected,
                    FaultsCounted, Quiet

LEMMA DeliverInv ==
  ASSUME CInv, UNCHANGED build, Deliver
  PROVE  CInv'
<1> USE DEF CInv
<1>1. air \in Seq(Unit) /\ air # <<>> /\ buf \in Seq(Unit)
  BY DEF TypeOK, Deliver
<1>2. /\ air' \in Seq(Unit) /\ Len(air') = Len(air) - 1 /\ Len(air) \in Nat
      /\ \A i \in 1..Len(air') : air'[i] = air[i + 1]
      /\ buf' \in Seq(Unit) /\ Len(buf') = Len(buf) + 1 /\ Len(buf) \in Nat
      /\ \A i \in 1..Len(buf) : buf'[i] = buf[i]
      /\ buf'[Len(buf) + 1] = air[1] /\ 1 \in 1..Len(air)
  BY <1>1 DEF Deliver
<1>3. TypeOK'
  BY <1>2 DEF TypeOK, Deliver, Exchange, Attempts
<1>4. OneAtATime'
  <2> SUFFICES ASSUME ~late PROVE OneAtATime'
    BY DEF OneAtATime, Deliver
  <2> DEFINE r == Sent(exch)
  <2>1. exch.at = "wait" /\ FrameUnderWay(r)
    BY DEF Deliver, OneAtATime, Quiet
  <2>2. /\ pipe = <<>> /\ PartOf(buf, r, 0)
        /\ Len(buf) + Len(air) = Size[r] /\ PartOf(air, r, Len(buf))
    BY <1>1, <2>1 DEF FrameUnderWay
  <2> HIDE DEF r
  <2>3. PartOf(buf', r, 0)
    <3> SUFFICES ASSUME NEW i \in 1..Len(buf') PROVE buf'[i] = [req |-> r, pos |-> 0 + i]
      BY DEF PartOf
    <3>1. CASE i \in 1..Len(buf)
      BY <1>2, <2>2, <3>1 DEF PartOf
    <3>2. CASE i = Len(buf) + 1
      BY <1>2, <2>2, <3>2 DEF PartOf
    <3> QED BY <1>2, <3>1, <3>2
  <2>4. PartOf(air', r, Len(buf'))
    <3> SUFFICES ASSUME NEW i \in 1..Len(air')
                 PROVE  air'[i] = [req |-> r, pos |-> Len(buf') + i]
      BY DEF PartOf
    <3>1. i \in Nat /\ i + 1 \in 1..Len(air) /\ Len(buf) + (i + 1) = Len(buf') + i
      BY <1>2
    <3>2. air'[i] = air[i + 1]
      BY <1>2
    <3>3. air[i + 1] = [req |-> r, pos |-> Len(buf) + (i + 1)]
      BY <2>2, <3>1 DEF PartOf
    <3> QED BY <3>1, <3>2, <3>3
  <2>5. Len(buf') <= Size[r] /\ Len(buf') + Len(air') = Size[r]
    BY <1>1, <1>2, <2>2
  <2>6. UNCHANGED <<exch, late, pipe>>
    BY DEF Deliver
  <2>7. Sent(exch') = r
    BY <2>6 DEF r
  <2>8. FrameUnderWay(Sent(exch))'
    BY <2>2, <2>3, <2>4, <2>5, <2>6, <2>7 DEF FrameUnderWay, PartOf
  <2> QED BY <2>1, <2>6, <2>8 DEF OneAtATime
<1>5. UNCHANGED <<conn, exch, pipe, late>> /\ air # <<>>
  BY DEF Deliver
<1> QED
  BY <1>3, <1>4, <1>5 DEF BeginsClean, GoneIsSilent, Connected, Unconnected,
                    FaultsCounted, Quiet

LEMMA PeerClosesInv ==
  ASSUME CInv, UNCHANGED build, PeerCloses
  PROVE  CInv'
<1> USE DEF CInv
<1>1. TypeOK'
  <2>1. Len(<<>>) <= Unread /\ pipe' = <<>>
    BY ClientAssumption DEF ClientAssumption, PeerCloses
  <2>2. pipe' \in Seq(Request) /\ Len(pipe') <= Unread /\ air' \in Seq(Unit)
    BY <2>1 DEF PeerCloses
  <2> QED BY <2>2 DEF TypeOK, PeerCloses, Exchange, Attempts
<1>2. OneAtATime'
  <2>1. CASE exch.at = "wait"
    <3> SUFFICES ASSUME ~late PROVE FrameUnderWay(Sent(exch))'
      BY <2>1 DEF OneAtATime, PeerCloses
    <3>1. FrameUnderWay(Sent(exch)) /\ Sent(exch) \in Request
      BY <2>1, SentType DEF OneAtATime, TypeOK
    <3>2. Len(<<>>) <= Size[Sent(exch)] /\ PartOf(<<>>, Sent(exch), 0)
      BY <3>1, ReplyParts DEF PartOf
    <3> QED BY <3>1, <3>2 DEF FrameUnderWay, PartOf, PeerCloses
  <2>2. CASE exch.at # "wait"
    BY <2>2 DEF OneAtATime, PeerCloses, Quiet
  <2> QED BY <2>1, <2>2
<1> QED
  BY <1>1, <1>2 DEF PeerCloses, BeginsClean, GoneIsSilent, Connected, Unconnected,
                    FaultsCounted

LEMMA ClientInvariant == Spec => []CInv
<1>1. CInv /\ [Next]_vars => CInv'
  <2> SUFFICES ASSUME CInv, [Next]_vars PROVE CInv'
    OBVIOUS
  <2>1. CASE UNCHANGED vars
    BY <2>1 DEF vars, works, CInv, TypeOK, Exchange, Attempts, OneAtATime, FrameUnderWay,
                PartOf, Sent, BeginsClean, GoneIsSilent, Connected, Unconnected,
                FaultsCounted, Quiet
  <2> QED
    BY <2>1, AskInv, ClientStepInv, CloseInv, AnswerInv, DeliverInv, PeerClosesInv DEF Next
<1> QED
  BY <1>1, ClientInit, PTL DEF Spec

-----------------------------------------------------------------------------
(* What follows for the client.                                             *)

(* The client's state and what is on the wire are always what their          *)
(* declarations say: the attempts and re-sends of a request stay within the  *)
(* loops' limits (client.py, _request and _exchange).                       *)
THEOREM ClientTypeCorrect == Spec => []TypeOK
BY ClientInvariant, PTL DEF CInv

(* Replies carry no identifier and nothing compares them, yet until a wait   *)
(* on the connection times out each one read answers the request it was      *)
(* read for: a frame is only sent when the last one's reply is in.          *)
THEOREM AnswersTheorem == Spec => []AnswersUntilTimeout
<1>1. CInv => AnswersUntilTimeout
  BY ReadIsAnswer DEF AnswersUntilTimeout, ReplyAnswersRequest
<1> QED BY <1>1, ClientInvariant, PTL

(* "a genuine socket fault or a persistent no-reply drops and reconnects     *)
(* (once)" (bridge client.py).                                              *)
THEOREM ReconnectsOnceTheorem == Spec => []ReconnectsOnce
<1>1. CInv => ReconnectsOnce
  <2> SUFFICES ASSUME CInv, build = "bridge" PROVE exch.faults <= 1
    BY DEF ReconnectsOnce
  <2>1. Attempts = 2
    BY DEF Attempts
  <2> QED BY <2>1 DEF CInv, TypeOK, Exchange, FaultsCounted
<1> QED BY <1>1, ClientInvariant, PTL

(* A connection begins with nothing of the last one's: neither what was      *)
(* buffered, nor a reply that comes late (client.py, _drop and _connect).       *)
THEOREM CleanConnectionTheorem ==
  Spec => [](exch.at = "connect" => conn = "none" /\ ~late /\ Quiet)
<1>1. CInv => (exch.at = "connect" => conn = "none" /\ ~late /\ Quiet)
  BY DEF CInv, Unconnected, BeginsClean
<1> QED BY <1>1, ClientInvariant, PTL

-----------------------------------------------------------------------------
(* Each client keeps PatientRequest.                                        *)

\* Which of the two clients is at work, as PatientRequest's parameters tell it.
AtWork(n, f) == n = Attempts /\ f = ConnectsForever

\* What the request's record becomes, seen as a PatientRequest.
LEMMA PatientExchanges ==
  ASSUME NEW n \in Nat, NEW f \in BOOLEAN, AtWork(n, f), NEW x \in Exchange
  PROVE  /\ \A w \in BOOLEAN : Begin(x, w) = [x EXCEPT !.at = TryPoint, !.warm = w, !.try = 0]
         /\ x.attempt < n => /\ NextAttempt(x).at = "connect"
                             /\ NextAttempt(x).attempt = x.attempt + 1
         /\ ~(x.attempt < n) => NextAttempt(x) = Idle /\ x.attempt = n
         /\ x.attempt \in Nat /\ x.warm \in BOOLEAN /\ x.try \in Nat
         /\ TryPoint \in {"drain", "send"}
<1>1. x.attempt \in 1..n /\ x.warm \in BOOLEAN /\ x.try \in Nat
  BY ClientAssumption DEF AtWork, Exchange, ClientAssumption
<1>2. x.attempt < n => /\ NextAttempt(x).at = "connect"
                       /\ NextAttempt(x).attempt = x.attempt + 1
  BY <1>1 DEF NextAttempt, Exchange, AtWork
<1>3. ~(x.attempt < n) => NextAttempt(x) = Idle /\ x.attempt = n
  BY <1>1 DEF NextAttempt, AtWork
<1> QED BY <1>1, <1>2, <1>3 DEF Begin, TryPoint

USE DEF WarmsUp, Sending

\* A pass that ends lets go of the connection.
LEMMA GoesOnIsGoesOn ==
  ASSUME NEW n \in Nat, NEW f \in BOOLEAN, AtWork(n, f), NEW x \in Exchange,
         x.attempt = exch.attempt, exch' = NextAttempt(x), conn' = "none"
  PROVE  Patience(n, f)!GoesOn
<1> USE DEF Patience!GoesOn, Patience!Enters
<1>1. CASE x.attempt < n
  BY <1>1, PatientExchanges
<1>2. CASE ~(x.attempt < n)
  <2>1. exch' = Idle /\ x.attempt = n
    BY <1>2, PatientExchanges
  <2> QED BY <2>1 DEF Patience!IsOver, Patience!Starts, Idle
<1> QED BY <1>1, <1>2

LEMMA FaultIsFault ==
  ASSUME NEW n \in Nat, NEW f \in BOOLEAN, AtWork(n, f), CInv,
         RequestFaults, exch.at \in {"send", "wait"}
  PROVE  Patience(n, f)!Fault
<1> DEFINE x == [exch EXCEPT !.faults = exch.faults + 1]
<1>1. exch \in Exchange /\ exch.faults < exch.attempt /\ ~exch.warm
  BY DEF CInv, TypeOK, FaultsCounted, RequestFaults
<1>2. x \in Exchange /\ x.attempt = exch.attempt
  BY <1>1 DEF AtWork, Exchange
<1>3. exch' = NextAttempt(x) /\ conn' = "none"
  BY DEF RequestFaults, Dropped
<1>4. Patience(n, f)!GoesOn
  BY <1>2, <1>3, GoesOnIsGoesOn
<1> QED BY <1>1, <1>3, <1>4 DEF Patience!Fault

(* A request that is over leaves nothing to the next one.                    *)
IdleIsFresh == exch.at = "idle" => exch = Idle

LEMMA IdleStep ==
  ASSUME TypeOK, IdleIsFresh, [Next]_vars
  PROVE  IdleIsFresh'
<1>1. exch \in Exchange
  BY DEF TypeOK
<1>b. ASSUME NEW x \in Exchange, NEW w PROVE Begin(x, w).at # "idle"
  BY <1>b DEF Begin, TryPoint, Exchange
<1>n. ASSUME NEW x, x.at # "idle" \/ x = Idle, exch' = x PROVE IdleIsFresh'
  BY <1>n DEF IdleIsFresh
<1>t. ASSUME NEW x \in Exchange, exch' = NextAttempt(x) PROVE IdleIsFresh'
  <2>1. NextAttempt(x).at = "connect" \/ NextAttempt(x) = Idle
    BY <1>t DEF NextAttempt, Exchange
  <2> QED BY <1>n, <1>t, <2>1
<1>f. ASSUME RequestFaults PROVE IdleIsFresh'
  <2> DEFINE x == [exch EXCEPT !.faults = exch.faults + 1]
  <2>1. NextAttempt(x).at = "connect" \/ NextAttempt(x) = Idle
    BY <1>1 DEF NextAttempt, Exchange
  <2> QED BY <1>f, <1>n, <2>1 DEF RequestFaults
<1>w. ASSUME NEW u, WarmUpFails(u) PROVE IdleIsFresh'
  BY <1>1, <1>b, <1>n, <1>w DEF WarmUpFails
<1>2. CASE UNCHANGED exch
  BY <1>2 DEF IdleIsFresh
<1>3. ASSUME NEW r \in Request, Ask(r) PROVE IdleIsFresh'
  <2>1. [Idle EXCEPT !.at = "connect", !.req = r].at = "connect"
        /\ Begin([Idle EXCEPT !.req = r], FALSE).at # "idle"
    BY DEF Idle, Begin, TryPoint
  <2> QED BY <1>3, <1>n, <2>1 DEF Ask
<1>4. ASSUME ConnectOk PROVE IdleIsFresh'
  BY <1>1, <1>4, <1>b, <1>n DEF ConnectOk
<1>5. ASSUME ConnectFails PROVE IdleIsFresh'
  BY <1>1, <1>2, <1>5, <1>t DEF ConnectFails
<1>6. ASSUME Drain \/ Send PROVE IdleIsFresh'
  BY <1>1, <1>2, <1>6 DEF Drain, Send, Exchange, IdleIsFresh
<1>7. ASSUME SendBreaks PROVE IdleIsFresh'
  BY <1>1, <1>7, <1>f, <1>t DEF SendBreaks, Exchange, IdleIsFresh
<1>8. ASSUME Accept PROVE IdleIsFresh'
  BY <1>1, <1>8, <1>b, <1>n DEF Accept
<1>9. ASSUME Garbled \/ ShortRead PROVE IdleIsFresh'
  BY <1>9, <1>f, <1>w DEF Garbled, ShortRead
<1>10. ASSUME Timeout PROVE IdleIsFresh'
  <2>1. [exch EXCEPT !.at = TryPoint, !.try = exch.try + 1].at # "idle"
    BY <1>1 DEF TryPoint, Exchange
  <2> QED BY <1>10, <1>f, <1>n, <1>w, <2>1 DEF Timeout
<1>11. ASSUME Close PROVE IdleIsFresh'
  <2> DEFINE x == [exch EXCEPT !.faults = exch.faults + 1]
  <2>1. NextAttempt(x).at = "connect" \/ NextAttempt(x) = Idle
    BY <1>1 DEF NextAttempt, Exchange
  <2> QED BY <1>11, <1>n, <2>1 DEF Close
<1> QED
  BY <1>2, <1>3, <1>4, <1>5, <1>6, <1>7, <1>8, <1>9, <1>10, <1>11
  DEF Next, ClientStep, Answer, Deliver, PeerCloses, vars, works

LEMMA PatientStep ==
  ASSUME NEW n \in Nat, NEW f \in BOOLEAN, AtWork(n, f), CInv, IdleIsFresh, Next
  PROVE  Patience(n, f)!Next \/ UNCHANGED Patience(n, f)!vars
<1>0. exch \in Exchange
  BY DEF CInv, TypeOK
<1>1. /\ exch.attempt \in Nat /\ exch.warm \in BOOLEAN /\ exch.try \in Nat
      /\ TryPoint \in {"drain", "send"}
  BY <1>0, PatientExchanges
<1>3. /\ exch.at = "connect" => conn = "none"
      /\ exch.at \in {"drain", "send", "wait"} => conn # "none"
  BY DEF CInv, Connected, Unconnected
<1> USE DEF Patience!Enters, Patience!IsOver, Patience!Starts, Patience!vars
<1>4. ASSUME NEW r \in Request, Ask(r) PROVE Patience(n, f)!Ask
  BY <1>1, <1>4 DEF Ask, Begin, Idle, wire, Patience!Ask
<1>5. ASSUME ConnectOk PROVE Patience(n, f)!Connect
  BY <1>0, <1>1, <1>3, <1>5 DEF ConnectOk, Begin, Exchange, Patience!Connect
<1>6. ASSUME ConnectFails PROVE Patience(n, f)!ConnectFails \/ UNCHANGED Patience(n, f)!vars
  <2>1. conn = "none" /\ conn' = "none" /\ exch.at = "connect"
    BY <1>3, <1>6 DEF ConnectFails, wire
  <2>2. CASE f
    BY <1>6, <2>1, <2>2 DEF ConnectFails, AtWork
  <2>3. CASE ~f
    <3>1. exch' = NextAttempt(exch)
      BY <1>6, <2>3 DEF ConnectFails, AtWork
    <3>2. Patience(n, f)!GoesOn
      BY <1>0, <2>1, <3>1, GoesOnIsGoesOn
    <3> QED BY <2>1, <2>3, <3>2 DEF Patience!ConnectFails
  <2> QED BY <2>2, <2>3
<1>7. ASSUME Drain PROVE UNCHANGED Patience(n, f)!vars
  BY <1>0, <1>1, <1>7 DEF Drain, Exchange
<1>8. ASSUME Send PROVE Patience(n, f)!Send \/ UNCHANGED Patience(n, f)!vars
  BY <1>0, <1>1, <1>3, <1>8 DEF Send, Exchange, Patience!Send
<1>w. ASSUME NEW u, WarmUpFails(u), exch.at = "wait" PROVE Patience(n, f)!WarmUp
  BY <1>0, <1>1, <1>w DEF WarmUpFails, Begin, Exchange, Patience!WarmUp
<1>9. ASSUME SendBreaks PROVE Patience(n, f)!WarmUpBreaks \/ Patience(n, f)!Fault
  <2>1. CASE exch.warm
    <3>1. conn' = "none" /\ exch.at = "send"
      BY <1>9, <2>1 DEF SendBreaks, Dropped
    <3>2. CASE f
      <4>1. exch' = [exch EXCEPT !.at = "connect", !.warm = FALSE]
        BY <1>9, <2>1, <3>2 DEF SendBreaks, AtWork
      <4>2. exch'.at = "connect" /\ exch'.attempt = exch.attempt
        BY <1>0, <4>1 DEF Exchange
      <4> QED BY <2>1, <3>1, <3>2, <4>2 DEF Patience!WarmUpBreaks
    <3>3. CASE ~f
      <4>1. exch' = NextAttempt(exch)
        BY <1>9, <2>1, <3>3 DEF SendBreaks, AtWork
      <4>2. Patience(n, f)!GoesOn
        BY <1>0, <3>1, <4>1, GoesOnIsGoesOn
      <4> QED BY <2>1, <3>1, <3>3, <4>2 DEF Patience!WarmUpBreaks
    <3> QED BY <3>2, <3>3
  <2>2. CASE ~exch.warm
    BY <1>9, <2>2, FaultIsFault DEF SendBreaks
  <2> QED BY <1>1, <2>1, <2>2
<1>10. ASSUME Accept PROVE Patience(n, f)!WarmUp \/ Patience(n, f)!Answered
  <2>1. CASE exch.warm
    BY <1>0, <1>1, <1>10, <2>1 DEF Accept, Reading, Begin, Exchange, Patience!WarmUp
  <2>2. CASE ~exch.warm
    BY <1>1, <1>10, <2>2 DEF Accept, Reading, Idle, Patience!Answered
  <2> QED BY <2>1, <2>2
<1>11. ASSUME Garbled PROVE Patience(n, f)!WarmUp \/ Patience(n, f)!Fault
  BY <1>11, <1>w, FaultIsFault DEF Garbled, Reading
<1>12. ASSUME Timeout
       PROVE  \/ Patience(n, f)!Resend \/ Patience(n, f)!WarmUp \/ Patience(n, f)!Fault
              \/ UNCHANGED Patience(n, f)!vars
  <2>1. exch.at = "wait" /\ conn = "open"
    BY <1>12 DEF Timeout, Waiting
  <2>2. CASE exch.try < MaxRetries
    BY <1>0, <1>1, <1>12, <2>1, <2>2 DEF Timeout, Exchange, Patience!Resend
  <2>3. CASE ~(exch.try < MaxRetries)
    BY <1>12, <1>w, <2>1, <2>3, FaultIsFault DEF Timeout
  <2> QED BY <2>2, <2>3
<1>13. ASSUME ShortRead PROVE Patience(n, f)!WarmUp \/ Patience(n, f)!Fault
  BY <1>13, <1>w, FaultIsFault DEF ShortRead, Waiting
<1>14. ASSUME Close
       PROVE  \/ Patience(n, f)!Fault \/ Patience(n, f)!Answered \/ Patience(n, f)!Dies
              \/ Patience(n, f)!Close \/ UNCHANGED Patience(n, f)!vars
  <2>0. conn' = "none" /\ conn # "none" /\ exch.at # "connect"
    BY <1>3, <1>14 DEF Close, Dropped
  <2>1. CASE exch.at = "wait" /\ ~exch.warm /\ ~(Reading /\ Whole)
    BY <1>14, <2>1, FaultIsFault DEF Close, RequestFaults
  <2>2. CASE exch.at = "wait" /\ ~exch.warm /\ Reading /\ Whole
    BY <1>1, <1>14, <2>0, <2>2 DEF Close, Idle, Patience!Answered
  <2>3. CASE exch.at \in {"drain", "send"} \/ (exch.at = "wait" /\ exch.warm)
    BY <1>1, <1>14, <2>0, <2>3 DEF Close, Idle, Patience!Dies
  <2>4. CASE exch.at = "idle"
    <3>1. exch' = exch
      BY <1>14, <2>4 DEF Close, IdleIsFresh
    <3> QED BY <2>0, <3>1 DEF Patience!Close
  <2> QED BY <1>0, <1>1, <2>0, <2>1, <2>2, <2>3, <2>4 DEF Exchange
<1>15. ASSUME Answer \/ Deliver PROVE UNCHANGED Patience(n, f)!vars
  BY <1>15 DEF Answer, Deliver
<1>16. ASSUME PeerCloses PROVE UNCHANGED Patience(n, f)!vars
  BY <1>16 DEF PeerCloses
<1> QED
  BY <1>4, <1>5, <1>6, <1>7, <1>8, <1>9, <1>10, <1>11, <1>12, <1>13, <1>14, <1>15, <1>16
  DEF Next, ClientStep, Patience!Next

(* Each client keeps its promise, whatever the machine does and whoever       *)
(* closes the socket beside it: it sends an unanswered frame again on the     *)
(* same connection, and lets go of a connection before it makes another; the *)
(* bridge's waits for one as long as it takes, the integration's counts a     *)
(* failed connect among its three attempts (both client.py, request,          *)
(* connect, _ensure_connected and _exchange).                               *)
THEOREM PatienceTheorem == Spec => ClientsKeepPatience
<1>1. Init => IdleIsFresh /\ Patience(2, TRUE)!Init
  BY DEF Init, IdleIsFresh, Idle, Patience!Init
<1>2. CInv /\ IdleIsFresh /\ [Next]_vars => IdleIsFresh'
  BY IdleStep DEF CInv
<1>3. ASSUME CInv, IdleIsFresh, [Next]_vars
      PROVE  [IF build = "bridge" THEN BridgesStep ELSE IntegrationsStep]_(Patience(2, TRUE)!vars)
  <2>1. CASE UNCHANGED vars
    BY <2>1 DEF vars, works, Patience!vars
  <2>2. CASE Next /\ build = "bridge"
    <3>1. AtWork(2, TRUE)
      BY <2>2 DEF AtWork, Attempts, ConnectsForever
    <3>2. Patience(2, TRUE)!Next \/ UNCHANGED Patience(2, TRUE)!vars
      BY <1>3, <2>2, <3>1, PatientStep
    <3> QED BY <2>2, <3>2 DEF BridgesStep
  <2>3. CASE Next /\ build # "bridge"
    <3>1. AtWork(3, FALSE)
      BY <2>3 DEF AtWork, Attempts, ConnectsForever
    <3>2. Patience(3, FALSE)!Next \/ UNCHANGED Patience(3, FALSE)!vars
      BY <1>3, <2>3, <3>1, PatientStep
    <3> QED BY <2>3, <3>2 DEF IntegrationsStep, Patience!vars
  <2> QED BY <1>3, <2>1, <2>2, <2>3
<1> QED BY <1>1, <1>2, <1>3, ClientInvariant, PTL DEF Spec, ClientsKeepPatience

-----------------------------------------------------------------------------
(* What RequestsEnd rests on besides fairness.                              *)

Stage(x) == IF x.at = "connect" THEN 0 ELSE IF x.warm THEN 1 ELSE 2
Phase(x) == IF x.at = "drain" THEN 1 ELSE IF x.at = "send" THEN 2 ELSE 3

\* y is later in a request than x: its attempt, else how far that has come,
\* else the try, else the step of that.
Later(y, x) ==
  \/ y.attempt > x.attempt
  \/ /\ y.attempt = x.attempt
     /\ \/ Stage(y) > Stage(x)
        \/ /\ Stage(y) = Stage(x)
           /\ \/ y.try > x.try
              \/ y.try = x.try /\ Phase(y) > Phase(x)

(* A request only goes forward, through a bounded number of attempts, stages *)
(* and tries: whatever the machine and close() do, nothing takes it back but *)
(* a socket the peer closed under the bridge's warm-up, which connects again *)
(* for as long as it takes (bridge client.py, _ensure_connected).           *)
RequestsGoForward ==
  [][exch.at # "idle" /\ exch'.at # "idle" =>
       \/ Later(exch', exch)
       \/ ConnectsForever /\ conn = "eof" /\ exch.warm
            /\ exch' = [exch EXCEPT !.at = "connect", !.warm = FALSE]]_exch

\* The next pass is later than this one, a request's own exchange later than
\* the warm-up, and that later than connecting.
LEMMA LaterSteps ==
  ASSUME CInv, NEW x \in Exchange, x.attempt = exch.attempt
  PROVE  /\ NextAttempt(x).at # "idle" => Later(NextAttempt(x), exch)
         /\ exch.warm /\ exch.at # "connect" => Later(Begin(exch, FALSE), exch)
         /\ exch.at = "connect" => Later(Begin(exch, TRUE), exch)
<1>1. exch \in Exchange /\ x.attempt \in Nat
  BY DEF CInv, TypeOK, Exchange
<1>2. ASSUME NextAttempt(x).at # "idle" PROVE Later(NextAttempt(x), exch)
  <2>1. NextAttempt(x) = [x EXCEPT !.at = "connect", !.attempt = x.attempt + 1, !.warm = FALSE]
    BY <1>2 DEF NextAttempt, Idle
  <2>2. NextAttempt(x).attempt = x.attempt + 1
    BY <2>1 DEF Exchange
  <2> QED BY <1>1, <2>2 DEF Later
<1>3. \A w \in BOOLEAN : /\ Begin(exch, w).attempt = exch.attempt
                         /\ Begin(exch, w).warm = w
                         /\ Begin(exch, w).at \in {"drain", "send"}
  BY <1>1 DEF Begin, Exchange, TryPoint
<1>4. \A w \in BOOLEAN : Stage(Begin(exch, w)) = (IF w THEN 1 ELSE 2)
  BY <1>3 DEF Stage
<1>5. exch.at = "connect" => Stage(exch) = 0
  BY DEF Stage
<1>6. exch.warm /\ exch.at # "connect" => Stage(exch) = 1
  BY DEF Stage
<1>7. ASSUME exch.warm, exch.at # "connect" PROVE Later(Begin(exch, FALSE), exch)
  <2> DEFINE y == Begin(exch, FALSE)
  <2>1. y.attempt = exch.attempt /\ Stage(y) = 2
    BY <1>3, <1>4
  <2>2. Stage(exch) = 1
    BY <1>6, <1>7
  <2> HIDE DEF y
  <2>3. Later(y, exch)
    BY <2>1, <2>2 DEF Later
  <2> QED BY <2>3 DEF y
<1>8. ASSUME exch.at = "connect" PROVE Later(Begin(exch, TRUE), exch)
  <2> DEFINE y == Begin(exch, TRUE)
  <2>1. y.attempt = exch.attempt /\ Stage(y) = 1
    BY <1>3, <1>4
  <2>2. Stage(exch) = 0
    BY <1>5, <1>8
  <2> HIDE DEF y
  <2>3. Later(y, exch)
    BY <2>1, <2>2 DEF Later
  <2> QED BY <2>3 DEF y
<1> QED BY <1>2, <1>7, <1>8

LEMMA FaultGoesForward ==
  ASSUME CInv, exch'.at # "idle",
         exch' = NextAttempt([exch EXCEPT !.faults = exch.faults + 1])
  PROVE  Later(exch', exch)
<1> DEFINE x == [exch EXCEPT !.faults = exch.faults + 1]
<1>1. x \in Exchange /\ x.attempt = exch.attempt
  <2>1. exch \in Exchange /\ exch.faults < exch.attempt /\ build \in Builds
    BY DEF CInv, TypeOK, FaultsCounted
  <2>2. Attempts \in Nat \ {0}
    BY DEF Attempts
  <2>3. exch.faults + 1 \in 0..Attempts
    BY <2>1, <2>2 DEF Exchange
  <2> QED BY <2>1, <2>3 DEF Exchange
<1> QED BY <1>1, LaterSteps

\* Each step of the client's, and close().
LEMMA GoesForward ==
  ASSUME CInv, Next, exch.at # "idle", exch'.at # "idle", exch' # exch
  PROVE  \/ Later(exch', exch)
         \/ ConnectsForever /\ conn = "eof" /\ exch.warm
              /\ exch' = [exch EXCEPT !.at = "connect", !.warm = FALSE]
<1>0. /\ exch \in Exchange /\ exch.try \in Nat /\ exch.attempt \in Nat
      /\ TryPoint \in {"drain", "send"}
  BY ClientAssumption DEF CInv, TypeOK, Exchange, ClientAssumption, TryPoint
<1>1. CASE ConnectOk
  BY <1>0, <1>1, LaterSteps DEF ConnectOk
<1>2. CASE ConnectFails
  BY <1>0, <1>2, LaterSteps DEF ConnectFails
<1>3. CASE Drain
  BY <1>0, <1>3 DEF Drain, Exchange, Later, Stage, Phase
<1>4. CASE Send
  BY <1>0, <1>4 DEF Send, Exchange, Later, Stage, Phase
<1>5. CASE SendBreaks
  <2>1. CASE exch.warm /\ ConnectsForever
    BY <1>5, <2>1 DEF SendBreaks
  <2>2. CASE exch.warm /\ ~ConnectsForever
    BY <1>0, <1>5, <2>2, LaterSteps DEF SendBreaks
  <2>3. CASE ~exch.warm
    BY <1>5, <2>3, FaultGoesForward DEF SendBreaks, RequestFaults
  <2> QED BY <2>1, <2>2, <2>3
<1>6. ASSUME NEW u, WarmUpFails(u), exch.at = "wait" PROVE Later(exch', exch)
  BY <1>0, <1>6, LaterSteps DEF WarmUpFails
<1>7. CASE Accept
  BY <1>0, <1>7, LaterSteps DEF Accept, Reading, Idle
<1>8. CASE Garbled
  BY <1>6, <1>8, FaultGoesForward DEF Garbled, Reading, RequestFaults
<1>9. CASE Timeout
  <2>1. CASE exch.try < MaxRetries
    <3>1. exch' = [exch EXCEPT !.at = TryPoint, !.try = exch.try + 1] /\ exch.at = "wait"
      BY <1>9, <2>1 DEF Timeout, Waiting
    <3>2. /\ exch'.attempt = exch.attempt /\ exch'.warm = exch.warm
          /\ exch'.try = exch.try + 1 /\ exch'.at = TryPoint
      BY <1>0, <3>1 DEF Exchange
    <3> QED BY <1>0, <3>1, <3>2 DEF Later, Stage
  <2>2. CASE ~(exch.try < MaxRetries)
    BY <1>6, <1>9, <2>2, FaultGoesForward DEF Timeout, Waiting, RequestFaults
  <2> QED BY <2>1, <2>2
<1>10. CASE ShortRead
  BY <1>6, <1>10, FaultGoesForward DEF ShortRead, Waiting, RequestFaults
<1>11. CASE Close
  BY <1>11, FaultGoesForward DEF Close, Idle
<1> QED
  BY <1>1, <1>2, <1>3, <1>4, <1>5, <1>7, <1>8, <1>9, <1>10, <1>11
  DEF Next, ClientStep, Ask, Answer, Deliver, PeerCloses

(* A request spends its attempts, stages and tries and gets none back, for    *)
(* any number of re-sends: with every await bounded it therefore ends, the   *)
(* bridge's connecting aside (both client.py, request and _exchange).       *)
THEOREM ForwardTheorem == Spec => RequestsGoForward
<1>1. ASSUME CInv, [Next]_vars
      PROVE  [exch.at # "idle" /\ exch'.at # "idle" =>
                \/ Later(exch', exch)
                \/ ConnectsForever /\ conn = "eof" /\ exch.warm
                     /\ exch' = [exch EXCEPT !.at = "connect", !.warm = FALSE]]_exch
  BY <1>1, GoesForward DEF vars, works
<1> QED BY <1>1, ClientInvariant, PTL DEF Spec, RequestsGoForward

=============================================================================
