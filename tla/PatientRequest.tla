--------------------------- MODULE PatientRequest ---------------------------
(***************************************************************************)
(* What tasks are promised of one request over the machine's only          *)
(* connection, whatever the machine and the other tasks do: it warms a new *)
(* connection up before using it, sends an unanswered frame again on the   *)
(* same one, and gives a connection up, for a new one or for good, by      *)
(* letting go of it first.  The bridge's waits for a connection as long as *)
(* it takes; the integration's has an attempt less for one that fails.     *)
(* A connection may be closed under it by another task at any time.        *)
(***************************************************************************)
EXTENDS Integers

CONSTANTS
  Attempts,   \* passes of one request through its loop
  Forever,    \* is connecting tried again until it succeeds, within one pass?
  Warms,      \* is warming a connection up a step of its own, or part of connecting?
  Resends     \* re-sends of its frame on one connection

VARIABLES
  held,       \* has the process a connection?
  at,         \* the request: "idle", "connect", "warmup", "send", "wait"
  attempt,    \* the pass it is at
  try         \* re-sends on the present one

vars == <<held, at, attempt, try>>

Enters(s, n) == at' = s /\ attempt' = n /\ try' = 0
Starts  == Enters(IF held' THEN "send" ELSE "connect", 1)

\* The request is over; the next one may be taken in the same step.
IsOver == Enters("idle", 1) \/ Starts

Ask == at = "idle" /\ UNCHANGED held /\ Starts

\* The request's next pass, or its end with an error.
GoesOn ==
  \/ attempt < Attempts /\ Enters("connect", attempt + 1)
  \/ attempt = Attempts /\ IsOver

Connect ==
  /\ at = "connect" /\ ~held /\ held' = TRUE
  /\ Enters(IF Warms THEN "warmup" ELSE "send", attempt)

\* Where connecting goes on for ever, success is its only way on.
ConnectFails == at = "connect" /\ ~Forever /\ UNCHANGED held /\ GoesOn

WarmUp == at = "warmup" /\ UNCHANGED held /\ Enters("send", attempt)

\* The peer is gone while it is warmed up: connecting has failed.
WarmUpBreaks ==
  /\ at = "warmup" /\ held' = FALSE
  /\ IF Forever THEN Enters("connect", attempt) ELSE GoesOn

Send == at = "send" /\ held /\ at' = "wait" /\ UNCHANGED <<held, attempt, try>>

Resend ==
  /\ at = "wait" /\ held /\ try < Resends
  /\ at' = "send" /\ try' = try + 1 /\ UNCHANGED <<held, attempt>>

\* A reply in hand is returned, though the connection be closed by now.
Answered == at = "wait" /\ held' \in {held, FALSE} /\ IsOver

\* A socket fault, or no reply to the last re-send.
Fault == at \in {"send", "wait"} /\ held' = FALSE /\ GoesOn

Close == held' = FALSE /\ UNCHANGED <<at, attempt, try>>

\* Between two awaits of an exchange a missing connection ends the request.
Dies == at \in {"warmup", "send"} /\ held' = FALSE /\ IsOver

Init == held = FALSE /\ at = "idle" /\ attempt = 1 /\ try = 0

Next == Ask \/ Connect \/ ConnectFails \/ WarmUp \/ WarmUpBreaks \/ Send
        \/ Resend \/ Answered \/ Fault \/ Close \/ Dies

Spec == Init /\ [][Next]_vars

=============================================================================
