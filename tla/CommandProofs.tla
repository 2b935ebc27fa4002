--------------------------- MODULE CommandProofs ---------------------------
(***************************************************************************)
(* What is proved of a command's way to the machine, for any number of      *)
(* commands, connections and stream handlers, any limits of re-sends, tries *)
(* and queue, and whatever frames are left with the machine.                *)
(***************************************************************************)
EXTENDS CommandPath, SequenceTheorems, TLAPS

Rising(s)   == \A i, j \in 1..Len(s) : i < j => s[i] < s[j]
Distinct(s) == \A i, j \in 1..Len(s) : i # j => s[i] # s[j]

Unasked(n)  == outcome[n] = "unasked"
Reported(n) == outcome[n] \in {"ok", "late", "failed"}
Waiting     == req.at = "wait"

(* The commands are asked for in their order, and those that go through the   *)
(* client are served in it: one that was reported is older than any that     *)
(* waits.                                                                   *)
AskedInOrder ==
  /\ \A m, n \in Command : m < n /\ Unasked(m) => Unasked(n)
  /\ Rising(asked) /\ (req.at # "idle" => asked # <<>>)
  /\ \A n \in Elements(asked) : outcome[n] = "waiting"
  /\ \A m \in Command : Reported(m) => \A n \in Elements(asked) : m < n

(* The intents on their way: the one in the loop, those admitted, and those   *)
(* on the wires.  Each comes after what is ahead of it and what was carried  *)
(* out or left with the machine, unless it was left behind itself; on a wire *)
(* whose stream has ended all were, and on the one still connected are the   *)
(* newest.                                                                  *)
Taken     == IF intent = NoIntent THEN {} ELSE {intent.id}
Unread(k) == Elements(wire[k])
OnWires   == UNION {Unread(k) : k \in Streams}
OnTheWay  == Taken \cup Elements(intents) \cup OnWires

InLine(s, excused) ==
  \A i, j \in 1..Len(s) : i < j => s[i] < s[j] \/ s[j] \in excused

QueueLinesUp ==
  /\ intent # NoIntent => intent.id \in Command
  /\ InLine(intents, strays)
  /\ \A a \in Taken : \A b \in Elements(intents) : a < b \/ b \in strays
  /\ \A n \in OnTheWay : outcome[n] = "sent" \/ n \in strays
  /\ \A m \in done \cup loose : ByIntent(m) => \A n \in OnTheWay : m <= n \/ n \in strays

WiresLineUp ==
  /\ \A k \in Streams \ {stream} : Unread(k) \subseteq strays
  /\ stream # NoStream =>
       /\ Rising(wire[stream])
       /\ \A b \in Unread(stream) :
            /\ \A a \in Taken \cup Elements(intents) : a < b
            /\ \A k \in Streams \ {stream} : \A a \in Unread(k) : a < b

IntentsLineUp == QueueLinesUp /\ WiresLineUp

(* The lane holds a job of the intent loop or of a connection once, while it  *)
(* waits for it.                                                            *)
LaneIsBusy ==
  /\ Distinct(lane)
  /\ Intent \in Elements(lane) => intent # NoIntent
  /\ \A k \in Conns : k \in Elements(lane) => conn[k].busy # None

(* A connection the front-end has closed holds nothing; the client's is open, *)
(* and it has one whenever it sends or waits.                               *)
ConnsAreOpen ==
  /\ \A k \in Conns : ~conn[k].on => conn[k] = Closed
  /\ cur \in Conns => conn[cur].on
  /\ req.at = "connect" => cur = NoConn
  /\ req.at \in {"send", "wait"} => cur # NoConn

Held(k) == Elements(conn[k].frames) \cup ({conn[k].busy} \ {None})

(* A frame that may still be carried out was given up unanswered, or has      *)
(* another's acknowledgement taken for its own, or is the one waited for.   *)
FramesAreOwned ==
  \A k \in Conns : \A n \in Held(k) :
    /\ outcome[n] = "waiting" \/ Reported(n)
    /\ n \in strays \/ outcome[n] = "late" \/ (Waiting /\ cur = k /\ n = Now)

(* A connection no wait has timed out on holds the frame of the request in    *)
(* progress or its acknowledgement, and nothing else.                       *)
CleanConn ==
  cur \in Conns /\ ~late =>
    \/ conn[cur].frames = <<>> /\ conn[cur].busy = None /\ acks = IF Waiting THEN 1 ELSE 0
    \/ Waiting /\ acks = 0 /\ conn[cur].frames = <<Now>> /\ conn[cur].busy = None
    \/ Waiting /\ acks = 0 /\ conn[cur].frames = <<>> /\ conn[cur].busy = Now

Stands(n) ==
  /\ n \in done
  /\ reg \in 1..(n - 1) => reg \in strays \/ outcome[reg] \in {"sent", "lost", "late"}

AckIsTrue == Waiting /\ ~late /\ ~doubt /\ acks > 0 => Stands(Now)

DoneWasAsked == loose \subseteq strays /\ \A n \in done \cup strays : ~Unasked(n)

XInv ==
  /\ TypeOK /\ AskedInOrder /\ IntentsLineUp /\ LaneIsBusy /\ ConnsAreOpen
  /\ FramesAreOwned /\ CleanConn /\ AckIsTrue /\ AckedStands /\ DoneWasAsked

-----------------------------------------------------------------------------
(* Sequences and their elements.                                            *)

LEMMA ElementsOf ==
  ASSUME NEW S, NEW s \in Seq(S)
  PROVE  /\ DOMAIN s = 1..Len(s) /\ Len(s) \in Nat
         /\ \A i \in 1..Len(s) : s[i] \in Elements(s)
         /\ \A a \in Elements(s) : a \in S /\ \E i \in 1..Len(s) : a = s[i]
BY DEF Elements

LEMMA NoElements == Elements(<<>>) = {} /\ \A S : <<>> \in Seq(S)
BY DEF Elements

LEMMA AppendElements ==
  ASSUME NEW S, NEW s \in Seq(S), NEW x \in S
  PROVE  Append(s, x) \in Seq(S) /\ Elements(Append(s, x)) = Elements(s) \cup {x}
<1> DEFINE t == Append(s, x)
<1>1. /\ t \in Seq(S) /\ Len(t) = Len(s) + 1 /\ t[Len(s) + 1] = x
      /\ \A i \in 1..Len(s) : t[i] = s[i]
  OBVIOUS
<1>2. DOMAIN t = 1..Len(t) /\ DOMAIN s = 1..Len(s) /\ Len(s) \in Nat
  BY <1>1
<1> HIDE DEF t
<1>3. \A i \in 1..Len(t) : i \in 1..Len(s) \/ i = Len(s) + 1
  BY <1>1, <1>2
<1> QED BY <1>1, <1>2, <1>3 DEF Elements, t

LEMMA TailElements ==
  ASSUME NEW S, NEW s \in Seq(S), s # <<>>
  PROVE  /\ Head(s) \in S /\ Tail(s) \in Seq(S) /\ Head(s) \in Elements(s)
         /\ Elements(s) = {Head(s)} \cup Elements(Tail(s))
         /\ \A a \in Elements(Tail(s)) : \E i \in 2..Len(s) : a = s[i]
<1> DEFINE t == Tail(s)
<1>1. /\ t \in Seq(S) /\ Len(t) = Len(s) - 1 /\ Head(s) = s[1] /\ s[1] \in S
      /\ \A i \in 1..Len(t) : t[i] = s[i + 1]
  OBVIOUS
<1>2. DOMAIN t = 1..Len(t) /\ DOMAIN s = 1..Len(s) /\ Len(s) \in Nat \ {0}
  BY <1>1
<1> HIDE DEF t
<1>3. \A i \in 1..Len(t) : i + 1 \in 2..Len(s)
  BY <1>1, <1>2
<1>4. \A i \in 1..Len(s) : i = 1 \/ (i - 1 \in 1..Len(t) /\ s[i] = t[i - 1])
  BY <1>1, <1>2
<1>5. \A a \in Elements(t) : \E i \in 2..Len(s) : a = s[i]
  BY <1>1, <1>2, <1>3 DEF Elements
<1>6. Elements(t) \subseteq Elements(s)
  BY <1>2, <1>5 DEF Elements
<1>7. \A a \in Elements(s) : a = s[1] \/ a \in Elements(t)
  BY <1>2, <1>4 DEF Elements
<1>8. s[1] \in Elements(s)
  BY <1>2 DEF Elements
<1> QED BY <1>1, <1>5, <1>6, <1>7, <1>8 DEF t

LEMMA RisingAppend ==
  ASSUME NEW s \in Seq(Nat), NEW n \in Nat, Rising(s), \A a \in Elements(s) : a < n
  PROVE  Rising(Append(s, n))
<1> DEFINE t == Append(s, n)
<1>1. \A i \in 1..Len(t) :
        (i \in 1..Len(s) /\ t[i] = s[i] /\ s[i] < n) \/ (i = Len(s) + 1 /\ t[i] = n)
  BY DEF Elements
<1> HIDE DEF t
<1> SUFFICES ASSUME NEW i \in 1..Len(t), NEW j \in 1..Len(t), i < j PROVE t[i] < t[j]
  BY DEF Rising, t
<1>2. i \in 1..Len(s) /\ t[i] = s[i] /\ s[i] < n
  BY <1>1 DEF t
<1>3. CASE j \in 1..Len(s) /\ t[j] = s[j]
  BY <1>2, <1>3 DEF Rising
<1>4. CASE t[j] = n
  BY <1>2, <1>4
<1> QED BY <1>1, <1>3, <1>4

LEMMA RisingTail ==
  ASSUME NEW s \in Seq(Nat), s # <<>>, Rising(s)
  PROVE  Rising(Tail(s)) /\ \A a \in Elements(Tail(s)) : Head(s) < a
<1>1. \A i \in 1..Len(Tail(s)) : i + 1 \in 1..Len(s) /\ Tail(s)[i] = s[i + 1]
  OBVIOUS
<1>2. Rising(Tail(s))
  BY <1>1 DEF Rising
<1>3. ASSUME NEW a \in Elements(Tail(s)) PROVE Head(s) < a
  <2>1. PICK i \in 2..Len(s) : a = s[i]
    BY TailElements
  <2>2. 1 \in 1..Len(s) /\ i \in 1..Len(s) /\ 1 < i /\ Head(s) = s[1]
    OBVIOUS
  <2> QED BY <2>1, <2>2 DEF Rising
<1> QED BY <1>2, <1>3

LEMMA InLineAppend ==
  ASSUME NEW s \in Seq(Nat), NEW n \in Nat, NEW S, InLine(s, S),
         \A a \in Elements(s) : a < n \/ n \in S
  PROVE  InLine(Append(s, n), S)
<1> DEFINE t == Append(s, n)
<1>1. \A i \in 1..Len(t) :
        \/ i \in 1..Len(s) /\ t[i] = s[i] /\ (s[i] < n \/ n \in S)
        \/ i = Len(s) + 1 /\ t[i] = n
  BY DEF Elements
<1> HIDE DEF t
<1> SUFFICES ASSUME NEW i \in 1..Len(t), NEW j \in 1..Len(t), i < j
             PROVE t[i] < t[j] \/ t[j] \in S
  BY DEF InLine, t
<1>2. i \in 1..Len(s) /\ t[i] = s[i] /\ (s[i] < n \/ n \in S)
  BY <1>1 DEF t
<1>3. CASE j \in 1..Len(s) /\ t[j] = s[j]
  BY <1>2, <1>3 DEF InLine
<1>4. CASE t[j] = n
  BY <1>2, <1>4
<1> QED BY <1>1, <1>3, <1>4

LEMMA InLineTail ==
  ASSUME NEW s \in Seq(Nat), s # <<>>, NEW S, InLine(s, S)
  PROVE  InLine(Tail(s), S) /\ \A a \in Elements(Tail(s)) : Head(s) < a \/ a \in S
<1>1. \A i \in 1..Len(Tail(s)) : i + 1 \in 1..Len(s) /\ Tail(s)[i] = s[i + 1]
  OBVIOUS
<1>2. InLine(Tail(s), S)
  BY <1>1 DEF InLine
<1>3. ASSUME NEW a \in Elements(Tail(s)) PROVE Head(s) < a \/ a \in S
  <2>1. PICK i \in 2..Len(s) : a = s[i]
    BY TailElements
  <2>2. 1 \in 1..Len(s) /\ i \in 1..Len(s) /\ 1 < i /\ Head(s) = s[1]
    OBVIOUS
  <2> QED BY <2>1, <2>2 DEF InLine
<1> QED BY <1>2, <1>3

LEMMA InLineStays ==
  ASSUME NEW s \in Seq(Nat), NEW S, NEW T, InLine(s, S), S \subseteq T
  PROVE  InLine(s, T)
BY DEF InLine

LEMMA DistinctAppend ==
  ASSUME NEW S, NEW s \in Seq(S), NEW x \in S, Distinct(s), x \notin Elements(s)
  PROVE  Distinct(Append(s, x))
<1> DEFINE t == Append(s, x)
<1>1. \A i \in 1..Len(t) :
        (i \in 1..Len(s) /\ t[i] = s[i] /\ s[i] # x) \/ (i = Len(s) + 1 /\ t[i] = x)
  BY DEF Elements
<1> HIDE DEF t
<1> SUFFICES ASSUME NEW i \in 1..Len(t), NEW j \in 1..Len(t), i # j PROVE t[i] # t[j]
  BY DEF Distinct, t
<1>2. CASE i \in 1..Len(s) /\ t[i] = s[i] /\ j \in 1..Len(s) /\ t[j] = s[j]
  BY <1>2 DEF Distinct
<1> QED BY <1>1, <1>2

LEMMA DistinctTail ==
  ASSUME NEW S, NEW s \in Seq(S), s # <<>>, Distinct(s)
  PROVE  Distinct(Tail(s)) /\ Head(s) \notin Elements(Tail(s))
<1>1. \A i \in 1..Len(Tail(s)) : i + 1 \in 1..Len(s) /\ Tail(s)[i] = s[i + 1]
  OBVIOUS
<1>2. Distinct(Tail(s))
  BY <1>1 DEF Distinct
<1>3. ASSUME NEW a \in Elements(Tail(s)) PROVE Head(s) # a
  <2>1. PICK i \in 2..Len(s) : a = s[i]
    BY TailElements
  <2>2. 1 \in 1..Len(s) /\ i \in 1..Len(s) /\ 1 # i /\ Head(s) = s[1]
    OBVIOUS
  <2> QED BY <2>1, <2>2 DEF Distinct
<1> QED BY <1>2, <1>3

\* What arrived of a line cut off, and what did not.
LEMMA CutLine ==
  ASSUME NEW s \in Seq(Nat), Rising(s), NEW i \in 0..Len(s)
  PROVE  /\ SubSeq(s, 1, i) \in Seq(Nat) /\ Rising(SubSeq(s, 1, i))
         /\ Elements(SubSeq(s, 1, i)) \subseteq Elements(s)
         /\ Elements(SubSeq(s, i + 1, Len(s))) \subseteq Elements(s)
         /\ \A a \in Elements(SubSeq(s, 1, i)) :
              \A b \in Elements(SubSeq(s, i + 1, Len(s))) : a < b
<1> DEFINE p == SubSeq(s, 1, i)
           q == SubSeq(s, i + 1, Len(s))
<1>1. /\ p \in Seq(Nat) /\ Len(p) = i /\ DOMAIN p = 1..i
      /\ \A j \in 1..i : p[j] = s[j] /\ j \in 1..Len(s)
  OBVIOUS
<1>2. /\ q \in Seq(Nat) /\ DOMAIN q = 1..(Len(s) - i)
      /\ \A j \in 1..(Len(s) - i) : q[j] = s[i + j] /\ i + j \in 1..Len(s)
  OBVIOUS
<1>3. DOMAIN s = 1..Len(s)
  OBVIOUS
<1> HIDE DEF p, q
<1>4. Rising(p)
  BY <1>1 DEF Rising
<1>5. Elements(p) \subseteq Elements(s) /\ Elements(q) \subseteq Elements(s)
  <2>1. Elements(p) \subseteq Elements(s)
    BY <1>1, <1>3 DEF Elements
  <2>2. ASSUME NEW b \in Elements(q) PROVE b \in Elements(s)
    <3>1. PICK k \in 1..(Len(s) - i) : b = q[k]
      BY <1>2 DEF Elements
    <3>2. b = s[i + k] /\ i + k \in 1..Len(s)
      BY <1>2, <3>1
    <3> QED BY <1>3, <3>2 DEF Elements
  <2> QED BY <2>1, <2>2
<1>6. ASSUME NEW a \in Elements(p), NEW b \in Elements(q) PROVE a < b
  <2>1. PICK j \in 1..i : a = s[j]
    BY <1>1 DEF Elements
  <2>2. PICK k \in 1..(Len(s) - i) : b = s[i + k]
    BY <1>2 DEF Elements
  <2>3. j < i + k /\ j \in 1..Len(s) /\ i + k \in 1..Len(s)
    OBVIOUS
  <2> QED BY <2>1, <2>2, <2>3 DEF Rising
<1> QED BY <1>1, <1>4, <1>5, <1>6 DEF p, q

-----------------------------------------------------------------------------
(* What a step that does not touch a part of the invariant leaves of it.     *)

\* No outcome changes but of intents that are lost.
OnlyLost ==
  \A n \in Command :
    outcome'[n] = outcome[n] \/ (outcome[n] = "sent" /\ outcome'[n] = "lost")

LEMMA CommandsAreNumbers == Command \subseteq Nat /\ None \notin Command
BY CommandAssumption DEF CommandAssumption, Command, None

LEMMA InNumbers ==
  ASSUME NEW s \in Seq(Command)
  PROVE  s \in Seq(Nat)
BY CommandsAreNumbers, SeqMonotonic

LEMMA NowFacts ==
  ASSUME TypeOK, AskedInOrder, req.at # "idle"
  PROVE  /\ asked \in Seq(Command) /\ asked # <<>>
         /\ Now \in Command /\ Now \in Elements(asked) /\ outcome[Now] = "waiting"
         /\ \A m \in Command : Reported(m) => m < Now
<1>1. asked \in Seq(Command) /\ asked # <<>>
  BY DEF TypeOK, AskedInOrder
<1>2. Now \in Command /\ Now \in Elements(asked)
  BY <1>1, TailElements DEF Now
<1> QED BY <1>1, <1>2 DEF AskedInOrder

LEMMA OlderThanUnasked ==
  ASSUME TypeOK, AskedInOrder, NEW n \in Command, Unasked(n),
         NEW m \in Command, ~Unasked(m)
  PROVE  m < n
BY CommandsAreNumbers DEF AskedInOrder

LEMMA OrderStays ==
  ASSUME TypeOK, AskedInOrder, OnlyLost, UNCHANGED asked, req'.at # "idle" => asked # <<>>
  PROVE  AskedInOrder'
<1>1. \A n \in Command : /\ Unasked(n)' <=> Unasked(n)
                         /\ Reported(n)' <=> Reported(n)
                         /\ outcome'[n] = "waiting" <=> outcome[n] = "waiting"
  BY DEF OnlyLost, Unasked, Reported
<1>2. Elements(asked) \subseteq Command
  BY ElementsOf DEF TypeOK
<1> QED BY <1>1, <1>2 DEF AskedInOrder

LEMMA WiresAreOfCommands ==
  ASSUME TypeOK
  PROVE  /\ \A k \in Streams : wire[k] \in Seq(Command) /\ Unread(k) \subseteq Command
         /\ \A n : n \in OnWires <=> \E k \in Streams : n \in Unread(k)
         /\ stream # NoStream => stream \in Streams
<1>1. ASSUME NEW k \in Streams PROVE wire[k] \in Seq(Command) /\ Unread(k) \subseteq Command
  <2>1. wire[k] \in Seq(Command)
    BY DEF TypeOK
  <2> QED BY <2>1, ElementsOf DEF Unread
<1>2. \A n : n \in OnWires <=> \E k \in Streams : n \in Unread(k)
  BY DEF OnWires
<1> QED BY <1>1, <1>2 DEF TypeOK

LEMMA OnTheWayType ==
  ASSUME TypeOK, IntentsLineUp
  PROVE  OnTheWay \subseteq Command
<1>1. OnWires \subseteq Command
  BY WiresAreOfCommands
<1>2. Elements(intents) \subseteq Command
  BY ElementsOf DEF TypeOK
<1>3. Taken \subseteq Command
  BY DEF IntentsLineUp, QueueLinesUp, Taken
<1> QED BY <1>1, <1>2, <1>3 DEF OnTheWay

\* What is behind the intent in the loop.
LEMMA BehindTaken ==
  ASSUME TypeOK, IntentsLineUp, NEW a \in Taken
  PROVE  \A n \in Elements(intents) \cup OnWires : a < n \/ n \in strays
<1>1. ASSUME NEW n \in Elements(intents) PROVE a < n \/ n \in strays
  BY DEF IntentsLineUp, QueueLinesUp
<1>2. ASSUME NEW k \in Streams, NEW n \in Unread(k) PROVE a < n \/ n \in strays
  <2>1. CASE k = stream
    <3>1. stream # NoStream
      BY <2>1 DEF Streams, NoStream
    <3> QED BY <2>1, <3>1 DEF IntentsLineUp, WiresLineUp
  <2>2. CASE k # stream
    BY <2>2 DEF IntentsLineUp, WiresLineUp
  <2> QED BY <2>1, <2>2
<1> QED BY <1>1, <1>2, WiresAreOfCommands

LEMMA LinesKeep ==
  ASSUME UNCHANGED <<intents, wire, intent>>
  PROVE  /\ Taken' = Taken /\ OnWires' = OnWires /\ OnTheWay' = OnTheWay
         /\ \A k \in Streams : Unread(k)' = Unread(k)
BY DEF Taken, OnWires, OnTheWay, Unread

LEMMA IntentsStay ==
  ASSUME TypeOK, IntentsLineUp, UNCHANGED <<intents, wire, intent, stream>>,
         strays \subseteq strays',
         \A n \in Command : outcome[n] = "sent" /\ n \in OnTheWay =>
                              outcome'[n] = "sent",
         \A m \in done' \cup loose' : ByIntent(m)' => m \in done \cup loose /\ ByIntent(m)
  PROVE  IntentsLineUp'
<1>1. /\ Taken' = Taken /\ OnWires' = OnWires /\ OnTheWay' = OnTheWay
      /\ \A k \in Streams : Unread(k)' = Unread(k)
  BY LinesKeep
<1>2. InLine(intents, strays')
  BY InLineStays, InNumbers DEF TypeOK, IntentsLineUp, QueueLinesUp
<1>3. \A n \in OnTheWay : outcome'[n] = "sent" \/ n \in strays'
  BY OnTheWayType DEF IntentsLineUp, QueueLinesUp
<1>4. QueueLinesUp'
  BY <1>1, <1>2, <1>3 DEF IntentsLineUp, QueueLinesUp
<1>5. WiresLineUp'
  BY <1>1, WiresAreOfCommands DEF IntentsLineUp, WiresLineUp
<1> QED BY <1>4, <1>5 DEF IntentsLineUp

LEMMA StandsStays ==
  ASSUME TypeOK, NEW n \in Command, Stands(n), UNCHANGED <<reg, done>>,
         strays \subseteq strays',
         \A m \in Command : outcome[m] \in {"sent", "lost", "late"} =>
                             outcome'[m] \in {"sent", "lost", "late"}
  PROVE  Stands(n)'
<1>1. reg \in 1..(n - 1) => reg \in Command
  BY CommandsAreNumbers DEF TypeOK, None
<1> QED BY <1>1 DEF Stands

LEMMA AckedStay ==
  ASSUME XInv, OnlyLost, UNCHANGED <<reg, done, asked, late>>, strays \subseteq strays',
         Waiting' => Waiting, acks' > 0 => acks > 0, doubt' = doubt
  PROVE  AckIsTrue' /\ AckedStands'
<1>1. \A m \in Command : outcome[m] \in {"sent", "lost", "late"} =>
                          outcome'[m] \in {"sent", "lost", "late"}
  BY DEF OnlyLost
<1>2. ASSUME NEW n \in Command, outcome'[n] = "ok" PROVE Stands(n)'
  <2>1. outcome[n] = "ok"
    BY <1>2 DEF OnlyLost
  <2>2. Stands(n)
    BY <2>1 DEF XInv, AckedStands, Stands
  <2> QED BY <1>1, <2>2, StandsStays DEF XInv
<1>3. ASSUME Waiting', ~late', ~doubt', acks' > 0 PROVE Stands(Now)'
  <2>1. Stands(Now) /\ Now \in Command /\ Now' = Now
    BY <1>3, NowFacts DEF XInv, AckIsTrue, Waiting, Now
  <2>2. Stands(Now)'
    BY <1>1, <2>1, StandsStays DEF XInv, Stands
  <2> QED BY <2>2
<1> QED BY <1>2, <1>3 DEF AckIsTrue, AckedStands, Stands

-----------------------------------------------------------------------------
(* The integration asks.                                                    *)

LEMMA AskFacts ==
  ASSUME XInv, NEW n \in Command, Asks(n)
  PROVE  /\ Unasked(n) /\ \A m \in Command : m < n <=> ~Unasked(m)
         /\ \A m \in Elements(asked) \cup OnTheWay \cup done \cup loose : m \in Command /\ m < n
         /\ \A k \in Conns : n \notin Held(k)
         /\ n \in Nat /\ n \notin Elements(asked)
<1>1. Unasked(n) /\ \A m \in Command : m < n <=> ~Unasked(m)
  <2>1. ASSUME NEW m \in Command, m < n PROVE ~Unasked(m)
    BY <2>1, CommandAssumption DEF CommandAssumption, Asks, Unasked, Command
  <2> QED BY <2>1, OlderThanUnasked DEF XInv, Asks, Unasked
<1>2. OnTheWay \subseteq Command /\ Elements(asked) \subseteq Command
  BY OnTheWayType, ElementsOf DEF XInv, TypeOK
<1>3. \A m \in done \cup loose : m \in Command /\ ~Unasked(m)
  BY DEF XInv, TypeOK, DoneWasAsked
<1>4. \A m \in Elements(asked) : ~Unasked(m)
  BY DEF XInv, AskedInOrder, Unasked
<1>5. \A m \in OnTheWay : ~Unasked(m)
  BY DEF XInv, IntentsLineUp, QueueLinesUp, DoneWasAsked, Unasked
<1>6. \A k \in Conns : n \notin Held(k)
  BY <1>1 DEF XInv, FramesAreOwned, Unasked, Reported
<1>7. n \in Nat /\ n \notin Elements(asked)
  BY <1>1, <1>4, CommandsAreNumbers
<1> QED BY <1>1, <1>2, <1>3, <1>4, <1>5, <1>6, <1>7

\* No way in touches what other commands are at.
LEMMA AskKeeps ==
  ASSUME XInv, NEW n \in Command, Asks(n), NEW how \in {"waiting", "sent"},
         outcome' = [outcome EXCEPT ![n] = how], asked # <<>> => Now' = Now,
         strays \subseteq strays', \A m \in strays' : m = n \/ m \in strays \cup OnTheWay,
         UNCHANGED <<reg, intents, intent, req, cur, late, acks, doubt, conn, lane, loose, done>>
  PROVE  /\ LaneIsBusy' /\ ConnsAreOpen' /\ FramesAreOwned' /\ CleanConn' /\ AckIsTrue'
         /\ AckedStands' /\ DoneWasAsked' /\ outcome' \in [Command -> Outcome]
         /\ \A m \in Command \ {n} : outcome'[m] = outcome[m]
         /\ outcome'[n] = how /\ strays' \subseteq Command
<1>1. outcome' \in [Command -> Outcome]
  BY DEF XInv, TypeOK, Outcome
<1>2. outcome'[n] = how /\ \A m \in Command \ {n} : outcome'[m] = outcome[m]
  BY DEF XInv, TypeOK
<1>3. Waiting => Now' = Now /\ Now \in Command /\ Now # n /\ Waiting' = Waiting
  BY NowFacts, AskFacts DEF XInv, AskedInOrder, Waiting
<1>4. (Waiting' <=> Waiting) /\ \A k \in Conns : Held(k)' = Held(k) /\ Held(k) \subseteq Command
  <2>1. ASSUME NEW k \in Conns PROVE Held(k) \subseteq Command
    <3>1. conn[k].frames \in Seq(Command) /\ conn[k].busy \in Command \cup {None}
      BY DEF XInv, TypeOK
    <3> QED BY <3>1, ElementsOf DEF Held
  <2> QED BY <2>1 DEF Waiting, Held
<1>5. LaneIsBusy' /\ ConnsAreOpen'
  BY DEF XInv, LaneIsBusy, ConnsAreOpen
<1>6. FramesAreOwned'
  <2> SUFFICES ASSUME NEW k \in Conns, NEW m \in Held(k)
               PROVE /\ outcome'[m] = "waiting" \/ Reported(m)'
                     /\ m \in strays' \/ outcome'[m] = "late"
                        \/ (Waiting' /\ cur' = k /\ m = Now')
    BY <1>4 DEF FramesAreOwned
  <2>1. m \in Command \ {n}
    BY <1>4, AskFacts
  <2> QED BY <1>2, <1>3, <1>4, <2>1 DEF XInv, FramesAreOwned, Reported
<1>7. CleanConn'
  BY <1>3, <1>4 DEF XInv, CleanConn
<1>8. ASSUME NEW m \in Command, Stands(m) PROVE Stands(m)'
  BY <1>2, <1>8, StandsStays, AskFacts DEF XInv, Unasked
<1>9. AckIsTrue'
  BY <1>3, <1>4, <1>8 DEF XInv, AckIsTrue, Stands
<1>10. AckedStands'
  BY <1>2, <1>8 DEF XInv, AckedStands, Stands
<1>11. DoneWasAsked' /\ strays' \subseteq Command
  <2>1. ASSUME NEW m \in done \cup strays' PROVE m \in Command /\ outcome'[m] # "unasked"
    <3>1. CASE m = n
      BY <1>2, <3>1
    <3>2. CASE m # n
      <4>1. m \in Command /\ ~Unasked(m)
        BY <2>1, <3>2, AskFacts DEF XInv, TypeOK, DoneWasAsked
      <4> QED BY <1>2, <3>2, <4>1 DEF Unasked
    <3> QED BY <3>1, <3>2
  <2> QED BY <2>1 DEF XInv, DoneWasAsked, Unasked
<1> QED BY <1>1, <1>2, <1>5, <1>6, <1>7, <1>9, <1>10, <1>11

\* The newest joins the wire of the stream, and may tear it off.
LEMMA JoinsTheWire ==
  ASSUME XInv, NEW n \in Command, Asks(n), stream # NoStream, Sends(n),
         \A m \in Command \ {n} : outcome'[m] = outcome[m],
         UNCHANGED <<intents, intent, loose, done>>, strays \subseteq strays',
         \/ outcome'[n] = "sent" /\ stream' = stream /\ strays' = strays
         \/ stream' = NoStream /\ outcome'[n] \notin {"sent", "lost"}
            /\ Unread(stream) \cup {n} \subseteq strays'
  PROVE  IntentsLineUp' /\ wire' \in [Streams -> Seq(Command)]
<1>0. PICK s \in Streams : s = stream
  BY WiresAreOfCommands DEF XInv
<1>1. /\ stream \in Streams /\ wire[stream] \in Seq(Command)
      /\ wire' = [wire EXCEPT ![stream] = Append(wire[stream], n)]
      /\ \A k \in Streams : wire[k] \in Seq(Command)
  BY WiresAreOfCommands DEF XInv, Sends
<1>2. /\ Append(wire[stream], n) \in Seq(Command)
      /\ Elements(Append(wire[stream], n)) = Elements(wire[stream]) \cup {n}
  BY <1>1, AppendElements
<1>3. wire' \in [Streams -> Seq(Command)]
  BY <1>1, <1>2 DEF XInv, TypeOK
<1>4. /\ wire'[s] = Append(wire[s], n) /\ Unread(s)' = Unread(s) \cup {n}
      /\ \A k \in Streams \ {s} : Unread(k)' = Unread(k)
  <2>1. wire'[s] = Append(wire[s], n)
    BY <1>0, <1>1 DEF XInv, TypeOK
  <2>2. \A k \in Streams \ {s} : wire'[k] = wire[k]
    BY <1>0, <1>1 DEF XInv, TypeOK
  <2> QED BY <1>0, <1>2, <2>1, <2>2 DEF Unread
<1>5. Taken' = Taken /\ OnWires' = OnWires \cup {n} /\ OnTheWay' = OnTheWay \cup {n}
  <2>1. Taken' = Taken
    BY DEF Taken
  <2>2. OnWires' = OnWires \cup {n}
    BY <1>4 DEF OnWires
  <2> QED BY <2>1, <2>2 DEF OnTheWay
<1>6. /\ \A m \in OnTheWay : m \in Command /\ m < n
      /\ \A m \in done \cup loose : m \in Command /\ m < n
      /\ n \in Nat
  BY AskFacts
<1>7. QueueLinesUp'
  <2>1. InLine(intents, strays')
    BY InLineStays, InNumbers DEF XInv, TypeOK, IntentsLineUp, QueueLinesUp
  <2>2. \A m \in OnTheWay \cup {n} : outcome'[m] = "sent" \/ m \in strays'
    BY <1>6 DEF XInv, IntentsLineUp, QueueLinesUp
  <2>3. ASSUME NEW m \in done \cup loose, ByIntent(m)', NEW a \in OnTheWay \cup {n}
        PROVE  m <= a \/ a \in strays'
    <3>1. m < n /\ m \in Nat /\ m \in Command \ {n}
      <4>1. m \in Command /\ m < n
        BY <1>6
      <4> QED BY <1>6, <4>1, CommandsAreNumbers
    <3>2. ByIntent(m)
      BY <2>3, <3>1 DEF ByIntent
    <3> QED BY <1>6, <3>1, <3>2 DEF XInv, IntentsLineUp, QueueLinesUp
  <2>4. \A a \in Taken : \A b \in Elements(intents) : a < b \/ b \in strays'
    BY DEF XInv, IntentsLineUp, QueueLinesUp
  <2>5. intent # NoIntent => intent.id \in Command
    BY DEF XInv, IntentsLineUp, QueueLinesUp
  <2> QED BY <1>5, <2>1, <2>2, <2>3, <2>4, <2>5 DEF QueueLinesUp
<1>8. WiresLineUp'
  <2>1. CASE stream' = stream
    <3>1. Rising(wire'[s])
      <4>1. \A a \in Elements(wire[stream]) : a < n
        BY <1>1, <1>6, WiresAreOfCommands DEF XInv, OnTheWay, Unread
      <4>2. wire[stream] \in Seq(Nat) /\ Rising(wire[stream])
        BY <1>1, InNumbers DEF XInv, IntentsLineUp, WiresLineUp
      <4> QED BY <1>0, <1>4, <1>6, <4>1, <4>2, RisingAppend
    <3>2. \A k \in Streams : \A a \in Unread(k) : a < n
      BY <1>6, WiresAreOfCommands DEF XInv, OnTheWay
    <3>3. \A a \in Taken \cup Elements(intents) : a < n
      BY <1>6 DEF OnTheWay
    <3> QED BY <1>0, <1>4, <1>5, <2>1, <3>1, <3>2, <3>3 DEF XInv, IntentsLineUp, WiresLineUp
  <2>2. CASE stream' = NoStream /\ Unread(stream) \cup {n} \subseteq strays'
    <3>1. ASSUME NEW k \in Streams PROVE Unread(k)' \subseteq strays'
      BY <1>0, <1>4, <2>2 DEF XInv, IntentsLineUp, WiresLineUp
    <3> QED BY <2>2, <3>1 DEF WiresLineUp
  <2> QED BY <2>1, <2>2
<1> QED BY <1>3, <1>7, <1>8 DEF IntentsLineUp

\* The newest joins those that go through the client.
LEMMA JoinsTheAsked ==
  ASSUME XInv, NEW n \in Command, Asks(n), Waits(n), UNCHANGED req,
         outcome'[n] = "waiting", \A m \in Command \ {n} : outcome'[m] = outcome[m]
  PROVE  AskedInOrder' /\ asked' \in Seq(Command)
<1>1. asked' = Append(asked, n) /\ asked \in Seq(Command)
  BY DEF Waits, XInv, TypeOK
<1>2. asked' \in Seq(Command) /\ Elements(asked') = Elements(asked) \cup {n} /\ asked' # <<>>
  BY <1>1, AppendElements
<1>3. \A a \in Elements(asked) : a \in Command /\ a < n /\ outcome'[a] = "waiting"
  <2>1. ASSUME NEW a \in Elements(asked) PROVE a \in Command /\ a < n /\ a # n
    BY AskFacts
  <2> QED BY <2>1 DEF XInv, AskedInOrder
<1>4. Rising(asked')
  BY <1>1, <1>3, RisingAppend, InNumbers, AskFacts DEF XInv, AskedInOrder
<1>5. \A m \in Command : Unasked(m)' => Unasked(m) /\ m # n
  BY DEF Unasked
<1>6. \A m \in Command : Reported(m)' => Reported(m) /\ m < n
  BY AskFacts DEF Reported, Unasked
<1>7. \A l, m \in Command : l < m /\ Unasked(l)' => Unasked(m)'
  BY <1>5, AskFacts DEF XInv, AskedInOrder, Unasked
<1> QED BY <1>2, <1>3, <1>4, <1>6, <1>7 DEF XInv, AskedInOrder

LEMMA SubmitsInv ==
  ASSUME XInv, NEW n \in Command, Write(n), Submits(n)
  PROVE  XInv'
<1>1. /\ Asks(n) /\ outcome' = [outcome EXCEPT ![n] = "sent"] /\ stream # NoStream /\ Sends(n)
      /\ UNCHANGED <<subject, reg, stream, intents, intent, asked, req, cur, late, acks, doubt,
                     conn, lane, loose, done, strays>>
  BY DEF Write, Submits
<1>2. /\ LaneIsBusy' /\ ConnsAreOpen' /\ FramesAreOwned' /\ CleanConn' /\ AckIsTrue'
      /\ AckedStands' /\ DoneWasAsked' /\ outcome' \in [Command -> Outcome]
      /\ \A m \in Command \ {n} : outcome'[m] = outcome[m]
      /\ outcome'[n] = "sent"
  BY <1>1, AskKeeps DEF Now
<1>3. IntentsLineUp' /\ wire' \in [Streams -> Seq(Command)]
  BY <1>1, <1>2, JoinsTheWire
<1>4. TypeOK'
  BY <1>1, <1>2, <1>3 DEF XInv, TypeOK
<1>5. AskedInOrder'
  <2>1. \A l, m \in Command : l < m /\ Unasked(l)' => Unasked(m)'
    BY <1>1, <1>2, AskFacts DEF XInv, AskedInOrder, Unasked
  <2>2. \A m \in Command : Reported(m)' => Reported(m)
    BY <1>2 DEF Reported
  <2>3. \A m \in Elements(asked) : m \in Command /\ outcome'[m] = "waiting"
    <3>1. ASSUME NEW m \in Elements(asked) PROVE m \in Command \ {n}
      BY <1>1, AskFacts
    <3> QED BY <1>2, <3>1 DEF XInv, AskedInOrder
  <2> QED BY <1>1, <2>1, <2>2, <2>3 DEF XInv, AskedInOrder
<1> QED BY <1>2, <1>3, <1>4, <1>5 DEF XInv

LEMMA WaitsInv ==
  ASSUME XInv, NEW n \in Command, Write(n) \/ PushClock(n), Waits(n),
         (stream' = stream /\ UNCHANGED <<wire, strays>>) \/ SendBreaks(n)
  PROVE  XInv'
<1>1. /\ Asks(n) /\ outcome' = [outcome EXCEPT ![n] = "waiting"]
      /\ asked' = Append(asked, n)
      /\ UNCHANGED <<subject, reg, intents, intent, req, cur, late, acks, doubt, conn, lane,
                     loose, done>>
  BY DEF Write, PushClock, Waits, bridge, channel
<1>2. asked # <<>> => Now' = Now
  BY <1>1 DEF XInv, TypeOK, Now
<1>3. strays \subseteq strays' /\ \A m \in strays' : m = n \/ m \in strays \cup OnTheWay
  <2>1. CASE strays' = strays
    BY <2>1
  <2>2. CASE SendBreaks(n)
    BY <2>2, WiresAreOfCommands DEF XInv, SendBreaks, OnTheWay, Unread
  <2> QED BY <2>1, <2>2
<1>4. /\ LaneIsBusy' /\ ConnsAreOpen' /\ FramesAreOwned' /\ CleanConn' /\ AckIsTrue'
      /\ AckedStands' /\ DoneWasAsked' /\ outcome' \in [Command -> Outcome]
      /\ \A m \in Command \ {n} : outcome'[m] = outcome[m]
      /\ outcome'[n] = "waiting" /\ strays' \subseteq Command
  BY <1>1, <1>2, <1>3, AskKeeps
<1>5. AskedInOrder' /\ asked' \in Seq(Command)
  BY <1>1, <1>4, JoinsTheAsked
<1>6. CASE stream' = stream /\ UNCHANGED <<wire, strays>>
  <2>1. \A m \in OnTheWay \cup done \cup loose : m \in Command /\ m # n
    BY <1>1, AskFacts
  <2>2. IntentsLineUp'
    BY <1>1, <1>4, <1>6, <2>1, IntentsStay DEF XInv, ByIntent
  <2>3. TypeOK'
    BY <1>1, <1>4, <1>5, <1>6 DEF XInv, TypeOK
  <2> QED BY <1>4, <1>5, <2>2, <2>3 DEF XInv
<1>7. CASE SendBreaks(n)
  <2>1. /\ stream # NoStream /\ Sends(n) /\ stream' = NoStream
        /\ Unread(stream) \cup {n} \subseteq strays'
    BY <1>7 DEF SendBreaks, Unread
  <2>2. IntentsLineUp' /\ wire' \in [Streams -> Seq(Command)]
    BY <1>1, <1>3, <1>4, <2>1, JoinsTheWire
  <2>3. TypeOK'
    BY <1>1, <1>4, <1>5, <2>1, <2>2 DEF XInv, TypeOK
  <2> QED BY <1>4, <1>5, <2>2, <2>3 DEF XInv
<1> QED BY <1>6, <1>7

-----------------------------------------------------------------------------
(* The client serves what was asked.                                        *)

LEMMA ConnNames == NoConn \notin Conns /\ Broken \notin Conns /\ Intent \notin Conns
                   /\ Conns \subseteq Int
BY CommandAssumption DEF CommandAssumption, Conns, NoConn, Broken, Intent

LEMMA HeldType ==
  ASSUME TypeOK, NEW k \in Conns
  PROVE  /\ conn[k] \in [on : BOOLEAN, frames : Seq(Command), busy : Command \cup {None}]
         /\ conn[k].frames \in Seq(Command) /\ conn[k].busy \in Command \cup {None}
         /\ Held(k) \subseteq Command
<1>1. conn[k] \in [on : BOOLEAN, frames : Seq(Command), busy : Command \cup {None}]
  BY DEF TypeOK
<1>2. conn[k].frames \in Seq(Command) /\ conn[k].busy \in Command \cup {None}
  BY <1>1
<1> QED BY <1>1, <1>2, ElementsOf DEF Held

LEMMA EndsFacts ==
  ASSUME XInv, req.at # "idle", NEW how \in {"ok", "late", "failed"}, Ends(how)
  PROVE  /\ Now \in Command /\ outcome[Now] = "waiting" /\ outcome'[Now] = how
         /\ outcome' \in [Command -> Outcome]
         /\ \A m \in Command \ {Now} : outcome'[m] = outcome[m]
         /\ asked' \in Seq(Command) /\ req' = Idle /\ AskedInOrder'
<1>1. /\ asked \in Seq(Command) /\ asked # <<>> /\ Now \in Command
      /\ outcome[Now] = "waiting" /\ \A m \in Command : Reported(m) => m < Now
  BY NowFacts DEF XInv
<1>2. outcome' = [outcome EXCEPT ![Now] = how] /\ asked' = Tail(asked) /\ req' = Idle
  BY DEF Ends
<1>3. /\ outcome'[Now] = how /\ outcome' \in [Command -> Outcome]
      /\ \A m \in Command \ {Now} : outcome'[m] = outcome[m]
  BY <1>1, <1>2 DEF XInv, TypeOK, Outcome
<1>4. asked' \in Seq(Command) /\ Elements(asked') \subseteq Elements(asked)
  BY <1>1, <1>2, TailElements
<1>5. Rising(asked') /\ \A a \in Elements(asked') : Now < a
  BY <1>1, <1>2, RisingTail, InNumbers DEF XInv, AskedInOrder, Now
<1>6. AskedInOrder'
  <2>1. \A m, n \in Command : m < n /\ Unasked(m)' => Unasked(n)'
    BY <1>1, <1>3 DEF XInv, AskedInOrder, Unasked
  <2>2. ASSUME NEW a \in Elements(asked') PROVE a \in Command /\ outcome'[a] = "waiting"
    <3>1. a \in Command /\ outcome[a] = "waiting" /\ Now < a
      BY <1>1, <1>4, <1>5, ElementsOf DEF XInv, AskedInOrder
    <3>2. a # Now
      BY <1>1, <3>1, CommandsAreNumbers
    <3> QED BY <1>3, <3>1, <3>2
  <2>3. ASSUME NEW m \in Command, Reported(m)', NEW a \in Elements(asked') PROVE m < a
    <3>1. CASE m = Now
      BY <1>5, <3>1
    <3>2. CASE m # Now
      BY <1>3, <1>4, <2>3, <3>2 DEF XInv, AskedInOrder, Reported
    <3> QED BY <3>1, <3>2
  <2> QED BY <1>2, <1>5, <2>1, <2>2, <2>3 DEF AskedInOrder, Idle
<1> QED BY <1>1, <1>2, <1>3, <1>4, <1>6

\* What the answer to the request in progress leaves of the rest.
LEMMA AnswerKeeps ==
  ASSUME XInv, req.at # "idle", NEW how \in {"ok", "late", "failed"}, Ends(how),
         how = "ok" => Stands(Now), UNCHANGED bridge, strays \subseteq strays',
         \A n \in strays' : n \in Command /\ (n \in strays \/ ~Unasked(n))
  PROVE  /\ AskedInOrder' /\ IntentsLineUp' /\ DoneWasAsked' /\ AckedStands'
         /\ outcome' \in [Command -> Outcome] /\ asked' \in Seq(Command) /\ req' = Idle
         /\ Now \in Command /\ outcome'[Now] = how
         /\ \A m \in Command : outcome[m] = "waiting" \/ Reported(m) =>
                                 outcome'[m] = "waiting" \/ Reported(m)'
         /\ \A m \in Command : outcome[m] = "late" => outcome'[m] = "late"
<1>1. /\ Now \in Command /\ outcome[Now] = "waiting" /\ outcome'[Now] = how
      /\ outcome' \in [Command -> Outcome]
      /\ \A m \in Command \ {Now} : outcome'[m] = outcome[m]
      /\ asked' \in Seq(Command) /\ req' = Idle /\ AskedInOrder'
  BY EndsFacts
<1>2. IntentsLineUp'
  <2>1. \A n \in Command : outcome[n] = "sent" => outcome'[n] = "sent"
    BY <1>1
  <2>2. \A m \in done \cup loose : ByIntent(m)' => ByIntent(m)
    BY <1>1 DEF XInv, TypeOK, ByIntent
  <2> QED BY <2>1, <2>2, IntentsStay DEF XInv, bridge, channel
<1>3. DoneWasAsked'
  <2>1. \A m \in done \cup strays' : m \in Command /\ ~Unasked(m)
    BY DEF XInv, TypeOK, DoneWasAsked
  <2>2. \A m \in Command : ~Unasked(m) => outcome'[m] # "unasked"
    BY <1>1 DEF Unasked
  <2> QED BY <2>1, <2>2 DEF bridge, channel, XInv, DoneWasAsked, Unasked
<1>4. ASSUME NEW m \in Command, Stands(m) PROVE Stands(m)'
  BY <1>1, <1>4, StandsStays DEF XInv, bridge, channel
<1>5. AckedStands'
  BY <1>1, <1>4 DEF XInv, AckedStands, Stands
<1> QED BY <1>1, <1>2, <1>3, <1>5 DEF Reported

LEMMA LaneStays ==
  ASSUME LaneIsBusy, UNCHANGED <<lane, intent>>, \A k \in Conns : conn'[k].busy = conn[k].busy
  PROVE  LaneIsBusy'
BY DEF LaneIsBusy

\* A request that is over for now, or for good, its frames given up.
LEMMA NextAttemptInv ==
  ASSUME XInv, req.at # "idle", NextAttempt, UNCHANGED <<subject, bridge, conn>>,
         strays' \in SUBSET Command, strays \subseteq strays', cur' = NoConn,
         \A n \in strays' : n \in strays \/ ~Unasked(n),
         acks' \in Nat, doubt' \in BOOLEAN, late' \in BOOLEAN,
         \A k \in Conns : \A n \in Held(k) :
           Waiting /\ cur = k /\ n = Now => n \in strays'
  PROVE  XInv'
<1>1. CASE req.attempt < Attempts
  <2>1. /\ req' = [at |-> "connect", attempt |-> req.attempt + 1, try |-> 0]
        /\ UNCHANGED <<outcome, asked>>
    BY <1>1 DEF NextAttempt
  <2>2. req' \in [at : {"idle", "connect", "send", "wait"}, attempt : 1..Attempts,
                  try : 0..MaxRetries]
    BY <1>1, <2>1, CommandAssumption DEF CommandAssumption, XInv, TypeOK
  <2>3. TypeOK'
    BY <2>1, <2>2, ConnNames DEF XInv, TypeOK, bridge, channel, NoConn
  <2>4. AskedInOrder' /\ AckIsTrue' /\ AckedStands'
    <3>1. OnlyLost /\ asked # <<>> /\ ~Waiting'
      BY <2>1 DEF OnlyLost, XInv, AskedInOrder, Waiting
    <3> QED BY <2>1, <3>1, OrderStays, StandsStays DEF XInv, bridge, channel, AckIsTrue, AckedStands, Stands
  <2>5. IntentsLineUp' /\ DoneWasAsked' /\ LaneIsBusy'
    BY <2>1, IntentsStay, LaneStays DEF XInv, bridge, channel, ByIntent, DoneWasAsked, Unasked
  <2>6. ConnsAreOpen' /\ CleanConn'
    BY <2>1, ConnNames DEF XInv, ConnsAreOpen, CleanConn
  <2>7. FramesAreOwned'
    BY <2>1 DEF XInv, FramesAreOwned, Held, Reported
  <2> QED BY <2>3, <2>4, <2>5, <2>6, <2>7 DEF XInv
<1>2. CASE ~(req.attempt < Attempts)
  <2>1. Ends("failed")
    BY <1>2 DEF NextAttempt
  <2>2. /\ AskedInOrder' /\ IntentsLineUp' /\ DoneWasAsked' /\ AckedStands'
        /\ outcome' \in [Command -> Outcome] /\ asked' \in Seq(Command) /\ req' = Idle
        /\ \A m \in Command : outcome[m] = "waiting" \/ Reported(m) =>
                                outcome'[m] = "waiting" \/ Reported(m)'
        /\ \A m \in Command : outcome[m] = "late" => outcome'[m] = "late"
    BY <2>1, AnswerKeeps
  <2>3. Idle \in [at : {"idle", "connect", "send", "wait"}, attempt : 1..Attempts,
                  try : 0..MaxRetries]
    BY CommandAssumption DEF CommandAssumption, Idle
  <2>4. TypeOK'
    BY <2>2, <2>3 DEF XInv, TypeOK, bridge, channel
  <2>5. LaneIsBusy' /\ ConnsAreOpen' /\ CleanConn' /\ AckIsTrue'
    BY <2>2, ConnNames, LaneStays DEF XInv, ConnsAreOpen, CleanConn, AckIsTrue, bridge, channel, Idle, Waiting
  <2>6. FramesAreOwned'
    <3> SUFFICES ASSUME NEW k \in Conns, NEW n \in Held(k)
                 PROVE /\ outcome'[n] = "waiting" \/ Reported(n)'
                       /\ n \in strays' \/ outcome'[n] = "late"
      BY DEF FramesAreOwned, Held
    <3>1. n \in Command
      BY HeldType DEF XInv
    <3> QED BY <2>2, <3>1 DEF XInv, FramesAreOwned
  <2> QED BY <2>2, <2>4, <2>5, <2>6 DEF XInv
<1> QED BY <1>1, <1>2

LEMMA ServeInv ==
  ASSUME XInv, Serve
  PROVE  XInv'
<1>1. /\ asked # <<>> /\ req.at = "idle" /\ req'.at = IF cur = NoConn THEN "connect" ELSE "send"
      /\ req' \in [at : {"idle", "connect", "send", "wait"}, attempt : 1..Attempts,
                   try : 0..MaxRetries]
      /\ UNCHANGED <<subject, reg, stream, wire, intents, intent, lane, loose, done, outcome,
                     asked, cur, late, acks, doubt, conn, strays>>
  BY CommandAssumption DEF CommandAssumption, Serve, Idle, bridge, channel
<1>2. TypeOK' /\ LaneIsBusy' /\ DoneWasAsked' /\ ~Waiting /\ ~Waiting'
  BY <1>1 DEF XInv, TypeOK, LaneIsBusy, DoneWasAsked, Unasked, Waiting
<1>3. AskedInOrder' /\ IntentsLineUp'
  BY <1>1, OrderStays, IntentsStay DEF XInv, OnlyLost, ByIntent
<1>4. ConnsAreOpen'
  BY <1>1 DEF XInv, ConnsAreOpen
<1>5. FramesAreOwned' /\ CleanConn'
  BY <1>1, <1>2 DEF XInv, FramesAreOwned, CleanConn, Held, Reported
<1>6. AckIsTrue' /\ AckedStands'
  BY <1>1, <1>2, AckedStay DEF XInv, OnlyLost
<1> QED BY <1>2, <1>3, <1>4, <1>5, <1>6 DEF XInv

\* The front-end has no memory of a connection it did not have before.
LEMMA ConnectInv ==
  ASSUME XInv, Connect
  PROVE  XInv'
<1>1. PICK k \in Conns :
        ~conn[k].on /\ cur' = k /\ conn' = [conn EXCEPT ![k].on = TRUE]
  BY DEF Connect
<1>2. /\ req.at = "connect" /\ req'.at = "send"
      /\ acks' = 0 /\ doubt' \in BOOLEAN /\ late' \in BOOLEAN
      /\ req' \in [at : {"idle", "connect", "send", "wait"}, attempt : 1..Attempts,
                   try : 0..MaxRetries]
      /\ UNCHANGED <<subject, reg, stream, wire, intents, intent, lane, loose, done, outcome, asked,
                     strays>>
  BY DEF Connect, NoAcks, bridge, channel, XInv, TypeOK
<1>3. /\ conn[k].frames = <<>> /\ conn[k].busy = None
      /\ conn'[k].on /\ conn'[k].frames = <<>> /\ conn'[k].busy = None
  <2>1. conn[k].frames = <<>> /\ conn[k].busy = None
    BY <1>1 DEF XInv, ConnsAreOpen, Closed
  <2>2. conn'[k] = [conn[k] EXCEPT !.on = TRUE]
    BY <1>1 DEF XInv, TypeOK
  <2> QED BY <2>1, <2>2, HeldType DEF XInv
<1>4. /\ conn' \in [Conns -> [on : BOOLEAN, frames : Seq(Command), busy : Command \cup {None}]]
      /\ \A j \in Conns \ {k} : conn'[j] = conn[j]
  BY <1>1 DEF XInv, TypeOK
<1>5. \A j \in Conns : conn'[j].busy = conn[j].busy /\ conn'[j].frames = conn[j].frames
  BY <1>3, <1>4
<1>6. TypeOK' /\ DoneWasAsked' /\ ~Waiting /\ ~Waiting'
  BY <1>1, <1>2, <1>4 DEF XInv, TypeOK, DoneWasAsked, Unasked, Waiting
<1>7. AskedInOrder' /\ IntentsLineUp' /\ LaneIsBusy'
  BY <1>2, <1>5, OrderStays, IntentsStay, LaneStays
     DEF XInv, OnlyLost, ByIntent, AskedInOrder
<1>8. ConnsAreOpen'
  BY <1>1, <1>2, <1>3, <1>4, ConnNames DEF XInv, ConnsAreOpen
<1>9. FramesAreOwned' /\ CleanConn'
  BY <1>1, <1>2, <1>3, <1>5, <1>6 DEF XInv, FramesAreOwned, CleanConn, Held, Reported
<1>10. AckIsTrue' /\ AckedStands'
  <2>1. AckedStands'
    BY <1>2 DEF XInv, AckedStands
  <2> QED BY <1>6, <2>1 DEF AckIsTrue
<1> QED BY <1>6, <1>7, <1>8, <1>9, <1>10 DEF XInv

LEMMA ConnectFailsInv ==
  ASSUME XInv, ConnectFails
  PROVE  XInv'
<1>1. /\ req.at = "connect" /\ NextAttempt
      /\ UNCHANGED <<subject, bridge, cur, late, acks, doubt, conn, strays>>
  BY DEF ConnectFails
<1>2. cur = NoConn /\ ~Waiting
  BY <1>1 DEF XInv, ConnsAreOpen, Waiting
<1>3. /\ strays' \in SUBSET Command /\ acks' \in Nat
      /\ doubt' \in BOOLEAN /\ late' \in BOOLEAN
  BY <1>1 DEF XInv, TypeOK
<1> QED BY <1>1, <1>2, <1>3, NextAttemptInv

\* The frame sent is the only one of a connection no wait has timed out on.
LEMMA SendInv ==
  ASSUME XInv, Send
  PROVE  XInv'
<1>1. /\ req.at = "send" /\ req'.at = "wait" /\ acks' = 0 /\ doubt' \in BOOLEAN
      /\ req' \in [at : {"idle", "connect", "send", "wait"}, attempt : 1..Attempts,
                   try : 0..MaxRetries]
      /\ conn' = IF cur = Broken THEN conn ELSE [conn EXCEPT ![cur].frames = Append(@, Now)]
      /\ UNCHANGED <<subject, reg, stream, wire, intents, intent, lane, loose, done, outcome, asked,
                     cur, late, strays>>
  BY DEF Send, NoAcks, bridge, channel, XInv, TypeOK
<1>2. /\ Now \in Command /\ Now' = Now /\ outcome[Now] = "waiting" /\ asked # <<>>
      /\ ~Waiting /\ Waiting'
  BY <1>1, NowFacts DEF XInv, Now, Waiting
<1>3. cur = Broken \/ cur \in Conns
  BY <1>1 DEF XInv, TypeOK, ConnsAreOpen
<1>4. ASSUME NEW k \in Conns
      PROVE /\ conn'[k] \in [on : BOOLEAN, frames : Seq(Command), busy : Command \cup {None}]
            /\ conn'[k].busy = conn[k].busy /\ conn'[k].on = conn[k].on
            /\ \/ conn'[k] = conn[k] /\ k # cur
               \/ conn'[k].frames = Append(conn[k].frames, Now) /\ k = cur
  <2>1. CASE k # cur
    BY <1>1, <1>3, <2>1, HeldType DEF XInv, TypeOK
  <2>2. CASE k = cur
    <3>1. conn'[k] = [conn[k] EXCEPT !.frames = Append(conn[k].frames, Now)]
      BY <1>1, <2>2, ConnNames DEF XInv, TypeOK
    <3>2. Append(conn[k].frames, Now) \in Seq(Command)
      BY <1>2, HeldType DEF XInv
    <3> QED BY <2>2, <3>1, <3>2, HeldType DEF XInv
  <2> QED BY <2>1, <2>2
<1>5. conn' \in [Conns -> [on : BOOLEAN, frames : Seq(Command), busy : Command \cup {None}]]
  <2>1. DOMAIN conn' = Conns /\ conn' = [k \in Conns |-> conn'[k]]
    BY <1>1 DEF XInv, TypeOK
  <2> QED BY <1>4, <2>1
<1>6. TypeOK'
  BY <1>1, <1>5 DEF XInv, TypeOK
<1>7. AskedInOrder' /\ IntentsLineUp' /\ DoneWasAsked' /\ LaneIsBusy'
  BY <1>1, <1>2, <1>4, OrderStays, IntentsStay, LaneStays
     DEF XInv, OnlyLost, ByIntent, DoneWasAsked, Unasked
<1>8. ConnsAreOpen'
  <2>1. \A k \in Conns : conn'[k].on \/ conn'[k] = conn[k]
    BY <1>4 DEF XInv, ConnsAreOpen
  <2> QED BY <1>1, <1>4, <2>1 DEF XInv, ConnsAreOpen
<1>9. FramesAreOwned'
  <2> SUFFICES ASSUME NEW k \in Conns, NEW n \in Held(k)'
               PROVE /\ outcome[n] = "waiting" \/ Reported(n)
                     /\ n \in strays \/ outcome[n] = "late" \/ (cur = k /\ n = Now)
    BY <1>1, <1>2 DEF FramesAreOwned, Reported
  <2>1. n \in Held(k) \/ (cur = k /\ n = Now)
    <3>1. conn[k].frames \in Seq(Command)
      BY HeldType DEF XInv
    <3>2. Elements(Append(conn[k].frames, Now)) = Elements(conn[k].frames) \cup {Now}
      BY <1>2, <3>1, AppendElements
    <3> QED BY <1>4, <3>2 DEF Held
  <2> QED BY <1>2, <2>1 DEF XInv, FramesAreOwned
<1>10. CleanConn'
  <2> SUFFICES ASSUME cur \in Conns, ~late
               PROVE conn'[cur].frames = <<Now>> /\ conn'[cur].busy = None
    BY <1>1, <1>2 DEF CleanConn
  <2>1. conn[cur].frames = <<>> /\ conn[cur].busy = None
    BY <1>2 DEF XInv, CleanConn
  <2> QED BY <1>2, <1>4, <2>1
<1>11. AckIsTrue' /\ AckedStands'
  BY <1>1 DEF XInv, AckIsTrue, AckedStands
<1> QED BY <1>6, <1>7, <1>8, <1>9, <1>10, <1>11 DEF XInv

\* On a clean connection the acknowledgement is of the frame waited for.
LEMMA AcceptInv ==
  ASSUME XInv, Accept
  PROVE  XInv'
<1> DEFINE how == IF late \/ doubt THEN "late" ELSE "ok"
<1>1. /\ Waiting /\ acks > 0 /\ acks' = acks - 1 /\ doubt' \in BOOLEAN /\ Ends(how) /\ how \in {"ok", "late", "failed"}
      /\ UNCHANGED <<subject, bridge, cur, late, conn, strays>>
  BY DEF Accept, Waiting
<1>2. how = "ok" => ~late /\ Stands(Now)
  BY <1>1 DEF XInv, AckIsTrue
<1>3. how = "late" \/ how = "ok"
  OBVIOUS
<1>4. late => how = "late"
  BY DEF XInv, TypeOK
<1> HIDE DEF how
<1>5. /\ AskedInOrder' /\ IntentsLineUp' /\ DoneWasAsked' /\ AckedStands'
      /\ outcome' \in [Command -> Outcome] /\ asked' \in Seq(Command) /\ req' = Idle
      /\ Now \in Command /\ outcome'[Now] = how
      /\ \A m \in Command : outcome[m] = "waiting" \/ Reported(m) =>
                              outcome'[m] = "waiting" \/ Reported(m)'
      /\ \A m \in Command : outcome[m] = "late" => outcome'[m] = "late"
  <2>1. strays \subseteq strays' /\ \A n \in strays' : n \in Command /\ n \in strays
    BY <1>1 DEF XInv, TypeOK
  <2> QED BY <1>1, <1>2, <2>1, AnswerKeeps DEF Waiting
<1>6. Idle \in [at : {"idle", "connect", "send", "wait"}, attempt : 1..Attempts,
                try : 0..MaxRetries]
  BY CommandAssumption DEF CommandAssumption, Idle
<1>7. acks' \in Nat
  BY <1>1 DEF XInv, TypeOK
<1>8. TypeOK' /\ ~Waiting'
  BY <1>1, <1>5, <1>6, <1>7 DEF XInv, TypeOK, bridge, channel, Waiting, Idle
<1>9. LaneIsBusy' /\ ConnsAreOpen' /\ AckIsTrue'
  BY <1>1, <1>5, <1>8, LaneStays DEF XInv, ConnsAreOpen, AckIsTrue, bridge, channel, Idle
<1>10. CASE cur \in Conns /\ ~late
  <2>1. conn[cur].frames = <<>> /\ conn[cur].busy = None /\ acks = 1
    BY <1>1, <1>10 DEF XInv, CleanConn
  <2>2. CleanConn'
    <3>1. acks' = 0 /\ cur' = cur /\ conn' = conn
      BY <1>1, <2>1
    <3> QED BY <1>8, <2>1, <3>1 DEF CleanConn
  <2>3. Held(cur) = {}
    BY <2>1, NoElements DEF Held
  <2>4. FramesAreOwned'
    <3> SUFFICES ASSUME NEW k \in Conns, NEW n \in Held(k)
                 PROVE /\ outcome'[n] = "waiting" \/ Reported(n)'
                       /\ n \in strays \/ outcome'[n] = "late"
      BY <1>1 DEF FramesAreOwned, Held
    <3>1. n \in Command /\ k # cur
      BY <2>3, HeldType DEF XInv
    <3> QED BY <1>5, <3>1 DEF XInv, FramesAreOwned
  <2> QED BY <1>5, <1>8, <1>9, <2>2, <2>4 DEF XInv
<1>11. CASE ~(cur \in Conns /\ ~late)
  <2>1. CleanConn'
    BY <1>1, <1>11 DEF CleanConn
  <2>2. FramesAreOwned'
    <3> SUFFICES ASSUME NEW k \in Conns, NEW n \in Held(k)
                 PROVE /\ outcome'[n] = "waiting" \/ Reported(n)'
                       /\ n \in strays \/ outcome'[n] = "late"
      BY <1>1 DEF FramesAreOwned, Held
    <3>1. n \in Command
      BY HeldType DEF XInv
    <3>2. cur = k => late
      BY <1>11
    <3> QED BY <1>4, <1>5, <3>1, <3>2 DEF XInv, FramesAreOwned
  <2> QED BY <1>5, <1>8, <1>9, <2>1, <2>2 DEF XInv
<1> QED BY <1>10, <1>11

LEMMA FaultInv ==
  ASSUME XInv, Waiting, Fault, UNCHANGED <<subject, bridge, conn>>,
         GivesUp \/ (cur = Broken /\ UNCHANGED strays)
  PROVE  XInv'
<1>1. /\ cur' = NoConn /\ late' = FALSE /\ acks' = 0 /\ doubt' = FALSE
      /\ NextAttempt /\ req.at # "idle"
  BY DEF Fault, NoAcks, Waiting
<1>2. Now \in Command /\ ~Unasked(Now)
  BY <1>1, NowFacts DEF XInv, Unasked
<1>3. /\ strays' \in SUBSET Command /\ strays \subseteq strays'
      /\ \A n \in strays' : n \in strays \/ ~Unasked(n)
  BY <1>2 DEF GivesUp, XInv, TypeOK
<1>4. \A k \in Conns : \A n \in Held(k) : Waiting /\ cur = k /\ n = Now => n \in strays'
  BY ConnNames DEF GivesUp
<1> QED BY <1>1, <1>3, <1>4, NextAttemptInv

LEMMA TimeoutInv ==
  ASSUME XInv, Timeout
  PROVE  XInv'
<1>1. Waiting /\ cur # Broken /\ GivesUp /\ UNCHANGED <<subject, bridge, conn>>
  BY DEF Timeout, Waiting
<1>2. CASE req.try < MaxRetries
  <2>1. /\ req' = [req EXCEPT !.at = "send", !.try = @ + 1] /\ late' = TRUE
        /\ UNCHANGED <<outcome, asked, cur, acks, doubt>>
    BY <1>2 DEF Timeout
  <2>2. /\ req'.at = "send"
        /\ req' \in [at : {"idle", "connect", "send", "wait"}, attempt : 1..Attempts,
                     try : 0..MaxRetries]
    <3>1. req.try + 1 \in 0..MaxRetries
      BY <1>2, CommandAssumption DEF CommandAssumption, XInv, TypeOK
    <3> QED BY <2>1, <3>1 DEF XInv, TypeOK
  <2>3. Now \in Command /\ ~Unasked(Now) /\ asked # <<>>
    BY <1>1, NowFacts DEF XInv, Waiting, Unasked
  <2>4. strays' = strays \cup {Now} /\ strays' \subseteq Command
    BY <1>1, <2>3 DEF GivesUp, XInv, TypeOK
  <2>5. TypeOK' /\ ~Waiting'
    BY <1>1, <2>1, <2>2, <2>4 DEF XInv, TypeOK, bridge, channel, Waiting
  <2>6. AskedInOrder' /\ IntentsLineUp' /\ LaneIsBusy' /\ DoneWasAsked'
    BY <1>1, <2>1, <2>3, <2>4, OrderStays, IntentsStay, LaneStays
       DEF XInv, OnlyLost, ByIntent, DoneWasAsked, Unasked, bridge, channel
  <2>7. ConnsAreOpen' /\ CleanConn' /\ AckIsTrue'
    BY <1>1, <2>1, <2>2, <2>5 DEF XInv, ConnsAreOpen, CleanConn, AckIsTrue, Waiting
  <2>8. FramesAreOwned'
    BY <1>1, <2>1, <2>4 DEF XInv, FramesAreOwned, Held, Reported
  <2>9. AckedStands'
    <3> SUFFICES ASSUME NEW n \in Command, outcome[n] = "ok" PROVE Stands(n)'
      BY <2>1 DEF AckedStands, Stands
    <3>1. Stands(n)
      BY DEF XInv, AckedStands, Stands
    <3> QED BY <1>1, <2>1, <2>4, <3>1, StandsStays DEF XInv, bridge, channel
  <2> QED BY <2>5, <2>6, <2>7, <2>8, <2>9 DEF XInv
<1>3. CASE ~(req.try < MaxRetries)
  BY <1>1, <1>3, FaultInv DEF Timeout
<1> QED BY <1>2, <1>3

LEMMA FaultsInv ==
  ASSUME XInv, Garbled \/ FindsBroken
  PROVE  XInv'
BY FaultInv DEF Garbled, FindsBroken, Waiting

LEMMA NetworkLostInv ==
  ASSUME XInv, NetworkLost
  PROVE  XInv'
<1>1. /\ cur \in Conns /\ cur' = Broken
      /\ strays' = IF Waiting THEN strays \cup {Now} ELSE strays
      /\ UNCHANGED <<subject, bridge, outcome, asked, req, late, acks, doubt, conn>>
  BY DEF NetworkLost, Waiting
<1>2. /\ strays' \subseteq Command /\ strays \subseteq strays'
      /\ \A n \in strays' : n \in strays \/ ~Unasked(n)
  BY <1>1, NowFacts DEF XInv, TypeOK, Waiting, Unasked
<1>3. TypeOK'
  BY <1>1, <1>2 DEF XInv, TypeOK, bridge, channel
<1>4. AskedInOrder' /\ IntentsLineUp' /\ LaneIsBusy' /\ DoneWasAsked'
  BY <1>1, <1>2, OrderStays, IntentsStay, LaneStays
     DEF XInv, OnlyLost, ByIntent, DoneWasAsked, Unasked, bridge, channel, AskedInOrder
<1>5. ConnsAreOpen' /\ CleanConn'
  BY <1>1, ConnNames DEF XInv, ConnsAreOpen, CleanConn, NoConn, Broken
<1>6. FramesAreOwned'
  BY <1>1, <1>2 DEF XInv, FramesAreOwned, Held, Reported
<1>7. AckIsTrue' /\ AckedStands'
  BY <1>1, <1>2, AckedStay DEF XInv, OnlyLost, bridge, channel, Waiting
<1> QED BY <1>3, <1>4, <1>5, <1>6, <1>7 DEF XInv

-----------------------------------------------------------------------------
(* The stream, and the intents on their way through the bridge.              *)

LEMMA LosesFacts ==
  ASSUME XInv, NEW ns, Loses(ns)
  PROVE  /\ OnlyLost /\ outcome' \in [Command -> Outcome]
         /\ \A n \in Command : n \notin ns => outcome'[n] = outcome[n]
<1>1. outcome' = [n \in Command |->
                   IF n \in ns /\ outcome[n] = "sent" THEN "lost" ELSE outcome[n]]
  BY DEF Loses
<1> QED BY <1>1 DEF OnlyLost, XInv, TypeOK, Outcome

LEMMA FramesStay ==
  ASSUME XInv, OnlyLost, UNCHANGED <<conn, cur, req, asked>>, strays \subseteq strays'
  PROVE  FramesAreOwned'
<1> SUFFICES ASSUME NEW k \in Conns, NEW n \in Held(k)
             PROVE /\ outcome'[n] = "waiting" \/ Reported(n)'
                   /\ n \in strays' \/ outcome'[n] = "late" \/ (Waiting /\ cur = k /\ n = Now)
  BY DEF FramesAreOwned, Held, Waiting, Now
<1>1. /\ n \in Command
      /\ outcome[n] = "waiting" \/ Reported(n)
      /\ n \in strays \/ outcome[n] = "late" \/ (Waiting /\ cur = k /\ n = Now)
  BY HeldType DEF XInv, FramesAreOwned
<1>2. outcome'[n] = outcome[n]
  BY <1>1 DEF OnlyLost, Reported
<1> QED BY <1>1, <1>2 DEF Reported

\* The steps of the stream and of the intent loop leave the client's half alone.
LEMMA StreamKeeps ==
  ASSUME XInv, OnlyLost, intent' = intent \/ intent = NoIntent,
         strays \subseteq strays', strays' \subseteq strays \cup OnTheWay,
         UNCHANGED <<subject, reg, asked, req, cur, late, acks, doubt, conn, lane, loose, done>>
  PROVE  /\ AskedInOrder' /\ LaneIsBusy' /\ ConnsAreOpen' /\ FramesAreOwned' /\ CleanConn'
         /\ AckIsTrue' /\ AckedStands' /\ DoneWasAsked' /\ strays' \subseteq Command
<1>1. AskedInOrder' /\ FramesAreOwned' /\ AckIsTrue' /\ AckedStands'
  BY OrderStays, FramesStay, AckedStay DEF XInv, AskedInOrder, Waiting
<1>2. LaneIsBusy' /\ ConnsAreOpen'
  BY DEF XInv, LaneIsBusy, ConnsAreOpen
<1>3. CleanConn'
  BY DEF XInv, CleanConn, Waiting, Now
<1>4. \A m \in done \cup strays \cup OnTheWay : m \in Command /\ ~Unasked(m)
  <2>1. \A m \in done \cup strays : m \in Command /\ ~Unasked(m)
    BY DEF XInv, TypeOK, DoneWasAsked
  <2>2. \A m \in OnTheWay : m \in Command /\ (outcome[m] = "sent" \/ m \in strays)
    BY OnTheWayType DEF XInv, IntentsLineUp, QueueLinesUp
  <2> QED BY <2>1, <2>2 DEF Unasked
<1>5. DoneWasAsked' /\ strays' \subseteq Command
  <2>1. \A m \in Command : ~Unasked(m) => outcome'[m] # "unasked"
    BY DEF OnlyLost, Unasked
  <2> QED BY <1>4, <2>1 DEF XInv, DoneWasAsked, Unasked
<1> QED BY <1>1, <1>2, <1>3, <1>5

LEMMA StaysBehind ==
  ASSUME XInv, OnlyLost, UNCHANGED <<done, loose>>, OnTheWay' \subseteq OnTheWay,
         strays \subseteq strays'
  PROVE  \A m \in done' \cup loose' : ByIntent(m)' =>
           \A n \in OnTheWay' : m <= n \/ n \in strays'
BY DEF XInv, TypeOK, OnlyLost, ByIntent, IntentsLineUp, QueueLinesUp

LEMMA StreamConnectsInv ==
  ASSUME XInv, StreamConnects
  PROVE  XInv'
<1>1. /\ stream = NoStream
      /\ UNCHANGED <<subject, reg, wire, intents, intent, outcome, asked, req, cur, late, acks,
                     doubt, conn, lane, loose, done, strays>>
  BY DEF StreamConnects, caller
<1>2. PICK k \in Streams : wire[k] = <<>> /\ stream' = k
  BY DEF StreamConnects
<1>3. OnlyLost
  BY <1>1 DEF OnlyLost
<1>4. TypeOK'
  BY <1>1, <1>2 DEF XInv, TypeOK
<1>5. /\ Taken' = Taken /\ OnWires' = OnWires /\ OnTheWay' = OnTheWay
      /\ \A j \in Streams : Unread(j)' = Unread(j)
  BY <1>1, LinesKeep
<1>6. QueueLinesUp'
  BY <1>1, <1>5 DEF XInv, IntentsLineUp, QueueLinesUp, ByIntent
<1>7. WiresLineUp'
  <2>1. \A j \in Streams : Unread(j) \subseteq strays
    BY <1>1 DEF XInv, IntentsLineUp, WiresLineUp, Streams, NoStream
  <2>2. Unread(k) = {} /\ Rising(wire[k])
    BY <1>2, NoElements DEF Unread, Rising
  <2> QED BY <1>1, <1>2, <1>5, <2>1, <2>2 DEF WiresLineUp
<1> QED BY <1>1, <1>3, <1>4, <1>6, <1>7, StreamKeeps DEF XInv, IntentsLineUp

LEMMA StreamDropsInv ==
  ASSUME XInv, StreamDrops
  PROVE  XInv'
<1>1. PICK k \in Streams : k = stream
  BY WiresAreOfCommands DEF XInv, StreamDrops
<1>2. PICK i \in 0..Len(wire[k]) :
        /\ wire' = [wire EXCEPT ![k] = SubSeq(wire[k], 1, i)]
        /\ strays' = strays \cup Elements(SubSeq(wire[k], 1, i))
        /\ Loses(Elements(SubSeq(wire[k], i + 1, Len(wire[k]))))
  BY <1>1 DEF StreamDrops
<1>3. /\ stream' = NoStream
      /\ UNCHANGED <<subject, reg, intents, intent, asked, req, cur, late, acks, doubt, conn,
                     lane, loose, done>>
  BY DEF StreamDrops
<1> DEFINE lost == Elements(SubSeq(wire[k], i + 1, Len(wire[k])))
           kept == SubSeq(wire[k], 1, i)
<1>4. wire[k] \in Seq(Command) /\ Rising(wire[k])
  BY <1>1, WiresAreOfCommands DEF XInv, IntentsLineUp, WiresLineUp, Streams, NoStream
<1>5. /\ Elements(kept) \subseteq Unread(k) /\ lost \subseteq Unread(k)
      /\ \A a \in Elements(kept) : \A b \in lost : a < b
  BY <1>4, CutLine, InNumbers DEF Unread
<1>6. kept \in Seq(Command)
  BY <1>4
<1>7. Loses(lost) /\ wire' = [wire EXCEPT ![k] = kept] /\ strays' = strays \cup Elements(kept)
  BY <1>2
<1> HIDE DEF lost, kept
<1>8. OnlyLost /\ outcome' \in [Command -> Outcome]
      /\ \A n \in Command : n \notin lost => outcome'[n] = outcome[n]
  BY <1>7, LosesFacts
<1>9. wire' \in [Streams -> Seq(Command)]
  BY <1>6, <1>7 DEF XInv, TypeOK
<1>10. /\ Unread(k)' = Elements(kept)
       /\ \A j \in Streams \ {k} : Unread(j)' = Unread(j)
  BY <1>7 DEF XInv, TypeOK, Unread
<1>11. Taken' = Taken /\ OnTheWay' \subseteq OnTheWay
  <2>1. Taken' = Taken
    BY <1>3 DEF Taken
  <2>2. OnWires' \subseteq OnWires
    BY <1>5, <1>10 DEF OnWires
  <2> QED BY <1>3, <2>1, <2>2 DEF OnTheWay
<1>12. strays \subseteq strays' /\ strays' \subseteq strays \cup OnTheWay
  BY <1>5, <1>7, WiresAreOfCommands DEF XInv, OnTheWay
<1>13. \A n \in OnTheWay' : outcome'[n] = "sent" \/ n \in strays'
  <2> SUFFICES ASSUME NEW n \in OnTheWay', n \notin strays' PROVE outcome'[n] = "sent"
    OBVIOUS
  <2>1. n \in Command /\ n \in Nat /\ outcome[n] = "sent"
    BY <1>11, <1>12, OnTheWayType, CommandsAreNumbers DEF XInv, IntentsLineUp, QueueLinesUp
  <2>2. n \in Taken \cup Elements(intents) \/ \E j \in Streams : n \in Unread(j)'
    BY <1>3, <1>11 DEF OnTheWay, OnWires
  <2>3. \A j \in Streams \ {k} : n \notin Unread(j)'
    BY <1>1, <1>10, <1>12 DEF XInv, IntentsLineUp, WiresLineUp
  <2>4. n \in Taken \cup Elements(intents)
    BY <1>7, <1>10, <2>2, <2>3
  <2>5. \A b \in lost : n < b
    BY <1>1, <1>5, <2>4 DEF XInv, IntentsLineUp, WiresLineUp, Streams, NoStream
  <2> QED BY <1>8, <2>1, <2>5
<1>14. InLine(intents, strays')
  BY <1>12, InLineStays, InNumbers DEF XInv, TypeOK, IntentsLineUp, QueueLinesUp
<1>15. \A m \in done' \cup loose' : ByIntent(m)' =>
         \A n \in OnTheWay' : m <= n \/ n \in strays'
  BY <1>3, <1>8, <1>11, <1>12, StaysBehind
<1>16. QueueLinesUp'
  BY <1>3, <1>11, <1>12, <1>13, <1>14, <1>15 DEF XInv, IntentsLineUp, QueueLinesUp
<1>17. WiresLineUp'
  BY <1>1, <1>3, <1>7, <1>10, <1>12 DEF XInv, IntentsLineUp, WiresLineUp
<1>18. TypeOK'
  BY <1>3, <1>8, <1>9, <1>12, StreamKeeps DEF XInv, TypeOK
<1> QED BY <1>3, <1>8, <1>12, <1>16, <1>17, <1>18, StreamKeeps DEF XInv, IntentsLineUp

LEMMA AdmitInv ==
  ASSUME XInv, NEW k \in Streams, Admit(k)
  PROVE  XInv'
<1> DEFINE head == Head(wire[k])
<1>1. /\ wire[k] # <<>> /\ wire' = [wire EXCEPT ![k] = Tail(wire[k])]
      /\ UNCHANGED <<subject, reg, stream, intent, asked, req, cur, late, acks, doubt, conn, lane,
                     loose, done, strays>>
      /\ \/ intents' = Append(intents, head) /\ UNCHANGED outcome
         \/ Loses({head}) /\ UNCHANGED intents
  BY DEF Admit, Takes
<1>2. wire[k] \in Seq(Command) /\ intents \in Seq(Command)
  BY WiresAreOfCommands DEF XInv, TypeOK
<1>3. /\ head \in Command /\ Tail(wire[k]) \in Seq(Command) /\ head \in Unread(k)
      /\ Unread(k) = {head} \cup Elements(Tail(wire[k]))
  BY <1>1, <1>2, TailElements DEF Unread
<1>4. k = stream => Rising(Tail(wire[k])) /\ \A b \in Elements(Tail(wire[k])) : head < b
  BY <1>1, <1>2, InNumbers, RisingTail DEF XInv, IntentsLineUp, WiresLineUp, Streams, NoStream
<1>5. wire' \in [Streams -> Seq(Command)] /\ wire'[k] = Tail(wire[k])
  BY <1>1, <1>3 DEF XInv, TypeOK
<1>6. /\ Unread(k)' = Elements(Tail(wire[k]))
      /\ \A j \in Streams \ {k} : Unread(j)' = Unread(j) /\ wire'[j] = wire[j]
  BY <1>1, <1>5 DEF XInv, TypeOK, Unread
<1> HIDE DEF head
<1>7. Taken' = Taken
  BY <1>1 DEF Taken
<1>8. /\ head \in OnWires /\ head \in OnTheWay
      /\ OnWires' \subseteq OnWires /\ OnWires \subseteq OnWires' \cup {head}
  <2>1. \A j \in Streams : Unread(j)' \subseteq Unread(j) /\ Unread(j) \subseteq Unread(j)' \cup {head}
    BY <1>3, <1>6
  <2> QED BY <1>3, <2>1 DEF OnWires, OnTheWay
<1>9. \A a \in Taken \cup Elements(intents) : a < head \/ head \in strays
  <2>1. CASE k = stream
    BY <1>3, <2>1 DEF XInv, IntentsLineUp, WiresLineUp, Streams, NoStream
  <2>2. CASE k # stream
    BY <1>3, <2>2 DEF XInv, IntentsLineUp, WiresLineUp
  <2> QED BY <2>1, <2>2
<1>10. OnlyLost /\ outcome' \in [Command -> Outcome]
      /\ \A n \in Command : n # head => outcome'[n] = outcome[n]
  <2>1. CASE UNCHANGED outcome
    BY <2>1 DEF OnlyLost, XInv, TypeOK
  <2>2. CASE Loses({head})
    BY <2>2, LosesFacts
  <2> QED BY <1>1, <2>1, <2>2
<1>11. /\ intents' \in Seq(Command)
       /\ Elements(intents') = Elements(intents) \/ Elements(intents') = Elements(intents) \cup {head}
  <2>1. Elements(Append(intents, head)) = Elements(intents) \cup {head}
        /\ Append(intents, head) \in Seq(Command)
    BY <1>2, <1>3, AppendElements
  <2> QED BY <1>1, <1>2, <2>1
<1>12. OnTheWay' \subseteq OnTheWay
  BY <1>7, <1>8, <1>11 DEF OnTheWay
<1>13. TypeOK'
  BY <1>1, <1>5, <1>10, <1>11 DEF XInv, TypeOK
<1>14. WiresLineUp'
  <2>1. \A j \in Streams \ {stream} : Unread(j)' \subseteq strays
    BY <1>3, <1>6 DEF XInv, IntentsLineUp, WiresLineUp
  <2>2. ASSUME stream # NoStream
        PROVE /\ Rising(wire'[stream])
              /\ \A b \in Elements(wire'[stream]) :
                   /\ \A a \in Taken \cup Elements(intents') : a < b
                   /\ \A j \in Streams \ {stream} : \A a \in Unread(j)' : a < b
    <3>1. PICK st \in Streams : st = stream
      BY <2>2, WiresAreOfCommands DEF XInv
    <3>2. Rising(wire'[st])
      BY <1>4, <1>5, <1>6, <2>2, <3>1 DEF XInv, IntentsLineUp, WiresLineUp
    <3>3. Unread(st)' \subseteq Unread(st) /\ \A j \in Streams : Unread(j)' \subseteq Unread(j)
      BY <1>3, <1>6
    <3>4. \A b \in Unread(st)' : head < b
      <4>1. CASE k = st
        BY <1>4, <1>6, <3>1, <4>1
      <4>2. CASE k # st
        BY <1>3, <1>6, <2>2, <3>1, <4>2 DEF XInv, IntentsLineUp, WiresLineUp
      <4> QED BY <4>1, <4>2
    <3>5. \A b \in Unread(st)' :
             /\ \A a \in Taken \cup Elements(intents') : a < b
             /\ \A j \in Streams \ {st} : \A a \in Unread(j)' : a < b
      BY <1>11, <2>2, <3>1, <3>3, <3>4 DEF XInv, IntentsLineUp, WiresLineUp
    <3> QED BY <3>1, <3>2, <3>5 DEF Unread
  <2> QED BY <1>1, <1>7, <2>1, <2>2 DEF WiresLineUp, Unread
<1>15. \A m \in done' \cup loose' : ByIntent(m)' =>
         \A n \in OnTheWay' : m <= n \/ n \in strays'
  BY <1>1, <1>10, <1>12, StaysBehind
<1>16. \A n \in OnTheWay' : outcome'[n] = "sent" \/ n \in strays
  <2>1. CASE UNCHANGED outcome
    BY <1>12, <2>1 DEF XInv, IntentsLineUp, QueueLinesUp
  <2>2. CASE UNCHANGED intents
    <3> SUFFICES ASSUME NEW n \in OnTheWay', n \notin strays PROVE n # head
      BY <1>10, <1>12, OnTheWayType DEF XInv, IntentsLineUp, QueueLinesUp
    <3>1. n \in Taken \cup Elements(intents) \/ \E j \in Streams : n \in Unread(j)'
      BY <1>7, <2>2 DEF OnTheWay, OnWires
    <3>2. n \in Nat /\ head \in Nat
      BY <1>3, <1>12, OnTheWayType, CommandsAreNumbers DEF XInv
    <3>3. CASE head \in strays
      BY <3>3
    <3>4. CASE head \notin strays
      <4>1. k = stream
        BY <1>3, <3>4 DEF XInv, IntentsLineUp, WiresLineUp
      <4>2. CASE n \in Taken \cup Elements(intents)
        BY <1>9, <3>2, <3>4, <4>2
      <4>3. CASE n \in Unread(k)'
        BY <1>4, <1>6, <3>2, <4>1, <4>3
      <4>4. ASSUME NEW j \in Streams \ {k}, n \in Unread(j)' PROVE FALSE
        BY <1>6, <4>1, <4>4 DEF XInv, IntentsLineUp, WiresLineUp
      <4> QED BY <3>1, <4>2, <4>3, <4>4
    <3> QED BY <3>3, <3>4
  <2> QED BY <1>1, <2>1, <2>2
<1>17. InLine(intents', strays)
  <2>1. InLine(intents, strays) /\ intents \in Seq(Nat) /\ head \in Nat
    BY <1>2, <1>3, InNumbers, CommandsAreNumbers DEF XInv, IntentsLineUp, QueueLinesUp
  <2>2. \A a \in Elements(intents) : a < head \/ head \in strays
    BY <1>9
  <2>3. InLine(Append(intents, head), strays)
    BY <2>1, <2>2, InLineAppend
  <2> QED BY <1>1, <2>1, <2>3
<1>18. \A a \in Taken : \A b \in Elements(intents') : a < b \/ b \in strays
  BY <1>9, <1>11 DEF XInv, IntentsLineUp, QueueLinesUp
<1>19. QueueLinesUp'
  BY <1>1, <1>7, <1>15, <1>16, <1>17, <1>18 DEF XInv, IntentsLineUp, QueueLinesUp
<1> QED BY <1>1, <1>10, <1>13, <1>14, <1>19, StreamKeeps DEF XInv, IntentsLineUp

LEMMA TakeIntentInv ==
  ASSUME XInv, TakeIntent
  PROVE  XInv'
<1> DEFINE head == Head(intents)
<1>1. /\ intent = NoIntent /\ intents # <<>> /\ intents' = Tail(intents)
      /\ intent' = [id |-> head, try |-> 0]
      /\ UNCHANGED <<subject, reg, stream, wire, outcome, asked, req, cur, late, acks, doubt, conn,
                     lane, loose, done, strays>>
  BY DEF TakeIntent, caller
<1>2. intents \in Seq(Command)
  BY DEF XInv, TypeOK
<1>3. /\ head \in Command /\ intents' \in Seq(Command)
      /\ Elements(intents) = {head} \cup Elements(intents')
  BY <1>1, <1>2, TailElements
<1>4. /\ InLine(intents', strays)
      /\ \A b \in Elements(intents') : head < b \/ b \in strays
  BY <1>1, <1>2, InNumbers, InLineTail DEF XInv, IntentsLineUp, QueueLinesUp
<1> HIDE DEF head
<1>5. /\ intent' # NoIntent /\ intent'.id = head
      /\ intent' \in [id : Command \cup {None}, try : 0..WriteRetries]
  BY <1>1, <1>3, CommandsAreNumbers, CommandAssumption DEF CommandAssumption, NoIntent
<1>6. /\ Taken' = {head} /\ Taken = {} /\ OnWires' = OnWires
      /\ \A k \in Streams : Unread(k)' = Unread(k)
  BY <1>1, <1>5 DEF Taken, OnWires, Unread
<1>7. OnTheWay' = OnTheWay /\ OnlyLost
  BY <1>1, <1>3, <1>6 DEF OnTheWay, OnlyLost
<1>8. QueueLinesUp'
  <2>1. \A m \in done' \cup loose' : ByIntent(m)' =>
          \A n \in OnTheWay' : m <= n \/ n \in strays'
    BY <1>1, <1>7, StaysBehind
  <2> QED BY <1>1, <1>3, <1>4, <1>5, <1>6, <1>7, <2>1 DEF XInv, IntentsLineUp, QueueLinesUp
<1>9. WiresLineUp'
  <2>1. Taken' \cup Elements(intents') = Taken \cup Elements(intents)
    BY <1>3, <1>6
  <2> QED BY <1>1, <1>6, <2>1, WiresAreOfCommands DEF XInv, IntentsLineUp, WiresLineUp
<1>10. TypeOK'
  BY <1>1, <1>3, <1>5 DEF XInv, TypeOK
<1> QED BY <1>1, <1>7, <1>8, <1>9, <1>10, StreamKeeps DEF XInv, IntentsLineUp

-----------------------------------------------------------------------------
(* The front-end and the lane.                                              *)

\* The steps between the two leave what was asked and what was done alone.
LEMMA LaneKeeps ==
  ASSUME XInv, UNCHANGED <<subject, reg, channel, caller, loose, done, strays>>
  PROVE  /\ AskedInOrder' /\ IntentsLineUp' /\ AckIsTrue' /\ AckedStands' /\ DoneWasAsked'
         /\ (Waiting' <=> Waiting) /\ Now' = Now
<1>1. UNCHANGED <<subject, reg, stream, wire, intents, intent, outcome, asked, req, cur, late,
                  acks, doubt, loose, done, strays>>
  BY DEF channel, caller
<1>2. OnlyLost
  BY <1>1 DEF OnlyLost
<1>3. AskedInOrder' /\ IntentsLineUp'
  BY <1>1, <1>2, OrderStays, IntentsStay DEF XInv, ByIntent, AskedInOrder
<1>4. AckIsTrue' /\ AckedStands'
  BY <1>1, <1>2, AckedStay DEF XInv, Waiting
<1> QED BY <1>1, <1>3, <1>4 DEF XInv, DoneWasAsked, Unasked, Waiting, Now

LEMMA DispatchInv ==
  ASSUME XInv, NEW k \in Conns, Dispatch(k)
  PROVE  XInv'
<1> DEFINE head == Head(conn[k].frames)
<1>1. /\ conn[k].on /\ conn[k].busy = None /\ conn[k].frames # <<>>
      /\ conn' = [conn EXCEPT ![k].busy = head, ![k].frames = Tail(@)]
      /\ lane' = Append(lane, k)
      /\ UNCHANGED <<subject, reg, channel, caller, loose, done, strays>>
  BY DEF Dispatch
<1>2. /\ AskedInOrder' /\ IntentsLineUp' /\ AckIsTrue' /\ AckedStands' /\ DoneWasAsked'
      /\ (Waiting' <=> Waiting) /\ Now' = Now
      /\ UNCHANGED <<intent, outcome, req, cur, late, acks, strays>>
  BY <1>1, LaneKeeps DEF channel, caller
<1>3. /\ head \in Command /\ Tail(conn[k].frames) \in Seq(Command)
      /\ Elements(conn[k].frames) = {head} \cup Elements(Tail(conn[k].frames))
  BY <1>1, HeldType, TailElements DEF XInv
<1>4. conn'[k].busy = head /\ conn'[k].frames = Tail(conn[k].frames) /\ conn'[k].on
  BY <1>1, HeldType DEF XInv, TypeOK
<1>5. \A j \in Conns \ {k} : conn'[j] = conn[j]
  BY <1>1 DEF XInv, TypeOK
<1>6. conn' \in [Conns -> [on : BOOLEAN, frames : Seq(Command), busy : Command \cup {None}]]
  <2>1. conn \in [Conns -> [on : BOOLEAN, frames : Seq(Command), busy : Command \cup {None}]]
    BY DEF XInv, TypeOK
  <2> HIDE DEF head
  <2> QED BY <1>1, <1>3, <2>1
<1> HIDE DEF head
<1>7. lane' \in Seq(Conns \cup {Intent}) /\ Elements(lane') = Elements(lane) \cup {k}
      /\ Distinct(lane')
  <2>1. lane \in Seq(Conns \cup {Intent}) /\ k \notin Elements(lane) /\ Distinct(lane)
    BY <1>1 DEF XInv, TypeOK, LaneIsBusy
  <2> QED BY <1>1, <2>1, AppendElements, DistinctAppend
<1>8. LaneIsBusy'
  <2>1. Intent \in Elements(lane') => intent' # NoIntent
    BY <1>2, <1>7, ConnNames DEF XInv, LaneIsBusy
  <2>2. \A j \in Conns : j \in Elements(lane') => conn'[j].busy # None
    BY <1>3, <1>4, <1>5, <1>7, CommandsAreNumbers DEF XInv, LaneIsBusy
  <2> QED BY <1>7, <2>1, <2>2 DEF LaneIsBusy
<1>9. TypeOK'
  BY <1>1, <1>6, <1>7 DEF XInv, TypeOK, channel, caller
<1>10. ConnsAreOpen'
  BY <1>2, <1>4, <1>5 DEF XInv, ConnsAreOpen
<1>11. FramesAreOwned'
  <2>1. \A j \in Conns : Held(j)' \subseteq Held(j)
    BY <1>3, <1>4, <1>5 DEF Held
  <2> QED BY <1>2, <2>1 DEF XInv, FramesAreOwned, Reported
<1>12. CleanConn'
  <2>1. CASE cur = k /\ ~late
    <3>1. Waiting /\ acks = 0 /\ conn[k].frames = <<Now>>
      BY <1>1, <2>1 DEF XInv, CleanConn
    <3>2. head = Now /\ Tail(conn[k].frames) = <<>>
      BY <3>1 DEF head
    <3> QED BY <1>2, <1>4, <2>1, <3>1, <3>2 DEF CleanConn
  <2>2. CASE ~(cur = k /\ ~late)
    BY <1>2, <1>5, <2>2 DEF XInv, CleanConn
  <2> QED BY <2>1, <2>2
<1> QED BY <1>2, <1>8, <1>9, <1>10, <1>11, <1>12 DEF XInv

LEMMA ClosedType ==
  Closed \in [on : BOOLEAN, frames : Seq(Command), busy : Command \cup {None}]
  /\ ~Closed.on /\ Closed.frames = <<>> /\ Closed.busy = None
BY DEF Closed

LEMMA HangsUpInv ==
  ASSUME XInv, NEW k \in Conns, HangsUp(k)
  PROVE  XInv'
<1>1. /\ cur # k /\ conn[k].busy = None /\ conn' = [conn EXCEPT ![k] = Closed]
      /\ lane' = lane /\ UNCHANGED <<subject, reg, channel, caller, loose, done, strays>>
  BY DEF HangsUp, bridge, channel
<1>2. /\ AskedInOrder' /\ IntentsLineUp' /\ AckIsTrue' /\ AckedStands' /\ DoneWasAsked'
      /\ (Waiting' <=> Waiting) /\ Now' = Now
      /\ UNCHANGED <<intent, outcome, req, cur, late, acks, strays>>
  BY <1>1, LaneKeeps DEF channel, caller
<1>3. conn'[k] = Closed /\ \A j \in Conns \ {k} : conn'[j] = conn[j]
  BY <1>1 DEF XInv, TypeOK
<1>4. conn' \in [Conns -> [on : BOOLEAN, frames : Seq(Command), busy : Command \cup {None}]]
  BY <1>1, ClosedType DEF XInv, TypeOK
<1>5. TypeOK'
  BY <1>1, <1>4 DEF XInv, TypeOK, channel, caller
<1>6. LaneIsBusy'
  BY <1>1, <1>2, <1>3, ClosedType, LaneStays DEF XInv
<1>7. ConnsAreOpen'
  BY <1>1, <1>2, <1>3 DEF XInv, ConnsAreOpen
<1>8. FramesAreOwned'
  <2>1. \A j \in Conns : Held(j)' \subseteq Held(j)
    BY <1>3, ClosedType, NoElements DEF Held
  <2> QED BY <1>2, <2>1 DEF XInv, FramesAreOwned, Reported
<1>9. CleanConn'
  BY <1>1, <1>2, <1>3 DEF XInv, CleanConn
<1> QED BY <1>2, <1>5, <1>6, <1>7, <1>8, <1>9 DEF XInv

LEMMA SubmitIntentInv ==
  ASSUME XInv, SubmitIntent
  PROVE  XInv'
<1>1. /\ intent # NoIntent /\ Intent \notin Elements(lane) /\ lane' = Append(lane, Intent)
      /\ conn' = conn /\ UNCHANGED <<subject, reg, channel, caller, loose, done, strays>>
  BY DEF SubmitIntent
<1>2. /\ AskedInOrder' /\ IntentsLineUp' /\ AckIsTrue' /\ AckedStands' /\ DoneWasAsked'
      /\ (Waiting' <=> Waiting) /\ Now' = Now
      /\ UNCHANGED <<intent, outcome, req, cur, late, acks, strays>>
  BY <1>1, LaneKeeps DEF channel, caller
<1>3. /\ lane' \in Seq(Conns \cup {Intent}) /\ Elements(lane') = Elements(lane) \cup {Intent}
      /\ Distinct(lane')
  <2>1. lane \in Seq(Conns \cup {Intent}) /\ Distinct(lane)
    BY DEF XInv, TypeOK, LaneIsBusy
  <2> QED BY <1>1, <2>1, AppendElements, DistinctAppend
<1>4. TypeOK'
  BY <1>1, <1>3 DEF XInv, TypeOK, channel, caller
<1>5. LaneIsBusy'
  BY <1>1, <1>2, <1>3, ConnNames DEF XInv, LaneIsBusy
<1>6. ConnsAreOpen' /\ FramesAreOwned' /\ CleanConn'
  BY <1>1, <1>2 DEF XInv, ConnsAreOpen, FramesAreOwned, CleanConn, Held, Reported
<1> QED BY <1>2, <1>4, <1>5, <1>6 DEF XInv

-----------------------------------------------------------------------------
(* The machine carries a command out, or does not.                          *)

LEMMA WorkerFacts ==
  ASSUME XInv, Working
  PROVE  /\ Head(lane) \in Conns \cup {Intent} /\ Tail(lane) \in Seq(Conns \cup {Intent})
         /\ Distinct(Tail(lane)) /\ Head(lane) \notin Elements(Tail(lane))
         /\ Elements(lane) = {Head(lane)} \cup Elements(Tail(lane))
         /\ Executing \in Command /\ ~Unasked(Executing)
         /\ Head(lane) = Intent =>
              /\ intent # NoIntent /\ Executing = intent.id /\ Taken = {intent.id}
              /\ outcome[Executing] = "sent" \/ Executing \in strays
         /\ Head(lane) # Intent =>
              /\ Head(lane) \in Conns /\ conn[Head(lane)].on
              /\ Executing = conn[Head(lane)].busy
              /\ outcome[Executing] = "waiting" \/ Reported(Executing)
              /\ \/ Executing \in strays \/ outcome[Executing] = "late"
                 \/ (Waiting /\ cur = Head(lane) /\ Executing = Now)
<1>1. lane \in Seq(Conns \cup {Intent}) /\ lane # <<>> /\ Distinct(lane)
  BY DEF XInv, TypeOK, LaneIsBusy, Working
<1>2. /\ Head(lane) \in Conns \cup {Intent} /\ Tail(lane) \in Seq(Conns \cup {Intent})
      /\ Elements(lane) = {Head(lane)} \cup Elements(Tail(lane))
  BY <1>1, TailElements
<1>3. Distinct(Tail(lane)) /\ Head(lane) \notin Elements(Tail(lane))
  BY <1>1, DistinctTail
<1>4. CASE Head(lane) = Intent
  <2>1. intent # NoIntent /\ Executing = intent.id
    BY <1>2, <1>4 DEF XInv, LaneIsBusy, Executing
  <2>2. /\ Taken = {intent.id} /\ intent.id \in Command
        /\ outcome[intent.id] = "sent" \/ intent.id \in strays
    BY <2>1 DEF XInv, IntentsLineUp, QueueLinesUp, OnTheWay, Taken
  <2>3. ~Unasked(intent.id)
    BY <2>2 DEF XInv, DoneWasAsked, Unasked
  <2> QED BY <1>2, <1>3, <1>4, <2>1, <2>2, <2>3
<1>5. CASE Head(lane) # Intent
  <2> DEFINE k == Head(lane)
  <2>1. k \in Conns /\ Executing = conn[k].busy /\ conn[k].busy # None
    BY <1>2, <1>5 DEF XInv, LaneIsBusy, Executing
  <2> HIDE DEF k
  <2>2. Executing \in Held(k) /\ Executing \in Command
    BY <2>1, HeldType DEF XInv, Held
  <2>3. conn[k].on
    BY <2>1, ClosedType DEF XInv, ConnsAreOpen
  <2>4. /\ outcome[Executing] = "waiting" \/ Reported(Executing)
        /\ \/ Executing \in strays \/ outcome[Executing] = "late"
           \/ (Waiting /\ cur = k /\ Executing = Now)
    BY <2>1, <2>2 DEF XInv, FramesAreOwned
  <2>5. ~Unasked(Executing)
    BY <2>4 DEF Unasked, Reported
  <2> QED BY <1>2, <1>3, <1>5, <2>1, <2>2, <2>3, <2>4, <2>5 DEF k
<1> QED BY <1>4, <1>5

Attempted ==
  \/ Working /\ MayLeave /\ (CarriesOut \/ UNCHANGED <<reg, done>>)
  \/ UNCHANGED <<reg, done, loose, strays>>

LEMMA AttemptFacts ==
  ASSUME XInv, Attempted
  PROVE  /\ strays \subseteq strays' /\ strays' \subseteq Command
         /\ loose' \subseteq Command /\ loose' \subseteq strays'
         /\ \A m \in done' \cup strays' : m \in Command /\ ~Unasked(m)
         /\ \A m \in done' \cup loose' : m \in done \cup loose \/ (Working /\ m = Executing)
         /\ (Working /\ CarriesOut) \/ UNCHANGED <<reg, done>>
<1>1. /\ loose \subseteq strays /\ done \subseteq Command /\ strays \subseteq Command
      /\ \A m \in done \cup strays : ~Unasked(m)
  BY DEF XInv, TypeOK, DoneWasAsked
<1>2. CASE Working /\ MayLeave /\ (CarriesOut \/ UNCHANGED <<reg, done>>)
  <2>1. Executing \in Command /\ ~Unasked(Executing)
    BY <1>2, WorkerFacts
  <2>2. PICK ns \in SUBSET ({Executing} \cap Torn) :
          loose' = loose \cup ns /\ strays' = strays \cup ns
    BY <1>2 DEF MayLeave
  <2>3. done' = done \/ done' = done \cup {Executing}
    BY <1>2 DEF CarriesOut
  <2> QED BY <1>1, <1>2, <2>1, <2>2, <2>3
<1>3. CASE UNCHANGED <<reg, done, loose, strays>>
  BY <1>1, <1>3
<1> QED BY <1>2, <1>3 DEF Attempted

\* What the machine has carried out is no older than what stands, or excused.
LEMMA WorkerKeeps ==
  ASSUME XInv, OnlyLost, UNCHANGED asked, req' = req, Attempted
  PROVE  /\ reg' \in Command \cup {None}
         /\ done' \subseteq Command /\ loose' \subseteq Command /\ strays' \subseteq Command
         /\ strays \subseteq strays'
         /\ AskedInOrder' /\ DoneWasAsked' /\ AckedStands'
         /\ \A m \in Command : Stands(m) /\ Waiting /\ m = Now => Stands(m)'
         /\ \A m \in done' \cup loose' : ByIntent(m)' =>
              \/ m \in done \cup loose /\ ByIntent(m)
              \/ Working /\ Head(lane) = Intent /\ m = intent.id
<1>1. AskedInOrder'
  BY OrderStays DEF XInv, AskedInOrder
<1>2. /\ strays \subseteq strays' /\ strays' \subseteq Command
      /\ loose' \subseteq Command /\ loose' \subseteq strays'
      /\ \A m \in done' \cup strays' : m \in Command /\ ~Unasked(m)
      /\ \A m \in done' \cup loose' : m \in done \cup loose \/ (Working /\ m = Executing)
      /\ (Working /\ CarriesOut) \/ UNCHANGED <<reg, done>>
  BY AttemptFacts
<1>3. DoneWasAsked' /\ done' \subseteq Command
  <2>1. \A m \in Command : ~Unasked(m) => outcome'[m] # "unasked"
    BY DEF OnlyLost, Unasked
  <2> QED BY <1>2, <2>1 DEF DoneWasAsked, Unasked
<1>4. ASSUME NEW m \in done' \cup loose', ByIntent(m)'
      PROVE  \/ m \in done \cup loose /\ ByIntent(m)
             \/ Working /\ Head(lane) = Intent /\ m = intent.id
  <2>1. m \in Command /\ ByIntent(m)
    BY <1>2, <1>3, <1>4 DEF OnlyLost, ByIntent
  <2>2. CASE m \in done \cup loose
    BY <2>1, <2>2
  <2>3. CASE Working /\ m = Executing
    BY <2>1, <2>3, WorkerFacts DEF ByIntent, Reported
  <2> QED BY <1>2, <1>4, <2>2, <2>3
<1>5. ASSUME NEW m \in Command, Stands(m), outcome[m] = "ok" \/ (Waiting /\ m = Now)
      PROVE  Stands(m)'
  <2>1. CASE UNCHANGED <<reg, done>>
    BY <1>2, <1>5, <2>1, StandsStays DEF XInv, OnlyLost
  <2>2. CASE Working /\ CarriesOut
    <3>1. reg' = Executing /\ done' = done \cup {Executing} /\ Executing \in Command
      BY <2>2, WorkerFacts DEF CarriesOut
    <3> SUFFICES ASSUME Executing < m
                 PROVE Executing \in strays' \/ outcome'[Executing] \in {"sent", "lost", "late"}
      BY <1>5, <3>1, CommandsAreNumbers DEF Stands
    <3>2. CASE Head(lane) = Intent
      BY <1>2, <2>2, <3>2, WorkerFacts DEF OnlyLost
    <3>3. CASE Executing \in strays \/ outcome[Executing] = "late"
      BY <1>2, <3>1, <3>3 DEF OnlyLost
    <3>4. CASE Waiting /\ Executing = Now
      <4>1. m < Now \/ m = Now
        BY <1>5, <3>4, NowFacts DEF XInv, Waiting, Reported
      <4> QED BY <3>1, <3>4, <4>1, CommandsAreNumbers
    <3> QED BY <2>2, <3>2, <3>3, <3>4, WorkerFacts
  <2> QED BY <1>2, <2>1, <2>2
<1>6. AckedStands'
  BY <1>5 DEF XInv, AckedStands, Stands, OnlyLost
<1>7. reg' \in Command \cup {None}
  BY <1>2, WorkerFacts DEF XInv, TypeOK, CarriesOut
<1> QED BY <1>1, <1>2, <1>3, <1>4, <1>5, <1>6, <1>7

\* The intent loop is done with its intent, or tries again.
LEMMA IntentDoneInv ==
  ASSUME XInv, Working, Head(lane) = Intent, lane' = Tail(lane), Attempted,
         \/ intent' = NoIntent /\ (UNCHANGED outcome \/ Loses({intent.id}))
         \/ /\ intent.try < WriteRetries /\ intent' = [intent EXCEPT !.try = @ + 1]
            /\ UNCHANGED outcome,
         UNCHANGED <<subject, stream, wire, intents, asked, req, cur, late, acks, doubt, conn>>
  PROVE  XInv'
<1>1. /\ Tail(lane) \in Seq(Conns \cup {Intent}) /\ Distinct(Tail(lane))
      /\ Intent \notin Elements(Tail(lane))
      /\ Elements(lane) = {Intent} \cup Elements(Tail(lane))
      /\ intent # NoIntent /\ intent.id \in Command /\ Taken = {intent.id}
  BY WorkerFacts
<1>2. /\ OnlyLost /\ outcome' \in [Command -> Outcome]
      /\ \A n \in Command : n # intent.id => outcome'[n] = outcome[n]
  <2>1. CASE UNCHANGED outcome
    BY <2>1 DEF OnlyLost, XInv, TypeOK
  <2>2. CASE Loses({intent.id})
    BY <2>2, LosesFacts
  <2> QED BY <2>1, <2>2
<1>3. /\ reg' \in Command \cup {None}
      /\ done' \subseteq Command /\ loose' \subseteq Command /\ strays' \subseteq Command
      /\ strays \subseteq strays'
      /\ AskedInOrder' /\ DoneWasAsked' /\ AckedStands'
      /\ \A m \in Command : Stands(m) /\ Waiting /\ m = Now => Stands(m)'
      /\ \A m \in done' \cup loose' : ByIntent(m)' =>
           (m \in done \cup loose /\ ByIntent(m)) \/ m = intent.id
  BY <1>2, WorkerKeeps
<1>4. OnWires' = OnWires /\ \A k \in Streams : Unread(k)' = Unread(k)
  BY DEF OnWires, Unread
<1>5. InLine(intents, strays')
  BY <1>3, InLineStays, InNumbers DEF XInv, TypeOK, IntentsLineUp, QueueLinesUp
<1>6. \A n \in OnTheWay : n \in Nat /\ (n = intent.id \/ intent.id < n \/ n \in strays)
  BY <1>1, BehindTaken, OnTheWayType, CommandsAreNumbers DEF XInv, OnTheWay
<1>7. ASSUME NEW m \in done' \cup loose', ByIntent(m)', NEW n \in OnTheWay
      PROVE  m <= n \/ n \in strays'
  <2>1. CASE m \in done \cup loose /\ ByIntent(m)
    BY <1>3, <2>1 DEF XInv, IntentsLineUp, QueueLinesUp
  <2>2. CASE m = intent.id
    <3>1. intent.id \in Nat
      BY <1>1, CommandsAreNumbers
    <3> QED BY <1>3, <1>6, <2>2, <3>1
  <2> QED BY <1>3, <1>7, <2>1, <2>2
<1>8. ConnsAreOpen' /\ CleanConn' /\ FramesAreOwned'
  BY <1>2, <1>3, FramesStay DEF XInv, ConnsAreOpen, CleanConn, Waiting, Now
<1>9. AckIsTrue'
  BY <1>3, NowFacts DEF XInv, AckIsTrue, Waiting, Now, Stands
<1>10. CASE intent' = NoIntent
  <2>1. intent' \in [id : Command \cup {None}, try : 0..WriteRetries]
    BY <1>10, CommandAssumption DEF CommandAssumption, NoIntent
  <2>2. TypeOK'
    BY <1>1, <1>2, <1>3, <2>1 DEF XInv, TypeOK
  <2>3. Taken' = {} /\ OnTheWay' = Elements(intents) \cup OnWires
    BY <1>4, <1>10 DEF Taken, OnTheWay
  <2>4. \A n \in OnTheWay' : n \in OnTheWay
    BY <2>3 DEF OnTheWay
  <2>5. ASSUME NEW n \in OnTheWay' PROVE outcome'[n] = "sent" \/ n \in strays'
    <3>1. n \in Command /\ (outcome[n] = "sent" \/ n \in strays)
      BY <2>4, OnTheWayType DEF XInv, IntentsLineUp, QueueLinesUp
    <3>2. CASE n \in strays
      BY <1>3, <3>2
    <3>3. CASE n \notin strays
      <4>1. intent.id < n
        BY <1>1, <2>3, <3>3, BehindTaken DEF XInv
      <4>2. n # intent.id
        BY <1>1, <3>1, <4>1, CommandsAreNumbers
      <4> QED BY <1>2, <3>1, <3>3, <4>2
    <3> QED BY <3>2, <3>3
  <2>6. QueueLinesUp'
    BY <1>3, <1>5, <1>7, <1>10, <2>3, <2>4, <2>5 DEF QueueLinesUp
  <2>7. WiresLineUp'
    BY <1>3, <1>4, <2>3, WiresAreOfCommands DEF XInv, IntentsLineUp, WiresLineUp
  <2>8. LaneIsBusy'
    BY <1>1, <1>10 DEF XInv, LaneIsBusy
  <2> QED BY <1>3, <1>8, <1>9, <2>2, <2>6, <2>7, <2>8 DEF XInv, IntentsLineUp
<1>11. CASE /\ intent.try < WriteRetries /\ intent' = [intent EXCEPT !.try = @ + 1]
            /\ UNCHANGED outcome
  <2>1. /\ intent' \in [id : Command \cup {None}, try : 0..WriteRetries]
        /\ intent'.id = intent.id /\ intent' # NoIntent
    <3>1. intent \in [id : Command \cup {None}, try : 0..WriteRetries]
      BY DEF XInv, TypeOK
    <3>2. intent.try + 1 \in 0..WriteRetries
      BY <1>11, <3>1, CommandAssumption DEF CommandAssumption
    <3>3. intent'.id = intent.id
      BY <1>11, <3>1
    <3> QED BY <1>1, <1>11, <3>1, <3>2, <3>3, CommandsAreNumbers DEF NoIntent
  <2>2. TypeOK'
    BY <1>1, <1>2, <1>3, <2>1 DEF XInv, TypeOK
  <2>3. Taken' = Taken /\ OnTheWay' = OnTheWay
    BY <1>1, <1>4, <2>1 DEF Taken, OnTheWay
  <2>4. \A n \in OnTheWay : outcome'[n] = "sent" \/ n \in strays'
    BY <1>3, <1>11 DEF XInv, IntentsLineUp, QueueLinesUp
  <2>5. QueueLinesUp'
    BY <1>1, <1>3, <1>5, <1>7, <2>1, <2>3, <2>4 DEF XInv, IntentsLineUp, QueueLinesUp
  <2>6. WiresLineUp'
    BY <1>3, <1>4, <2>3, WiresAreOfCommands DEF XInv, IntentsLineUp, WiresLineUp
  <2>7. LaneIsBusy'
    BY <1>1, <2>1 DEF XInv, LaneIsBusy
  <2> QED BY <1>3, <1>8, <1>9, <2>2, <2>5, <2>6, <2>7 DEF XInv, IntentsLineUp
<1> QED BY <1>10, <1>11

\* The front-end is done with a frame: it answers, or its client is gone.
LEMMA FrameDoneInv ==
  ASSUME XInv, Working, Head(lane) # Intent, lane' = Tail(lane), Attempted,
         \/ /\ conn' = [conn EXCEPT ![Head(lane)].busy = None] /\ UNCHANGED cur
            /\ acks' = (IF cur = Head(lane) THEN acks + 1 ELSE acks)
            /\ doubt' \in BOOLEAN /\ (cur # Head(lane) => doubt' = doubt)
            /\ CarriesOut \/ cur # Head(lane) \/ doubt'
         \/ /\ FrontEnds(Head(lane)) /\ UNCHANGED <<acks, doubt>>
            /\ cur' = (IF cur = Head(lane) THEN Broken ELSE cur),
         UNCHANGED <<subject, stream, wire, intents, intent, outcome, asked, req, late>>
  PROVE  XInv'
<1>0. PICK k \in Conns : k = Head(lane)
  BY WorkerFacts
<1>1. /\ Tail(lane) \in Seq(Conns \cup {Intent}) /\ Distinct(Tail(lane))
      /\ k \notin Elements(Tail(lane))
      /\ Elements(lane) = {k} \cup Elements(Tail(lane))
      /\ k \in Conns /\ conn[k].on /\ Executing = conn[k].busy /\ Executing \in Command
      /\ outcome[Executing] = "waiting" \/ Reported(Executing)
  BY <1>0, WorkerFacts
<1>2. \/ /\ conn' = [conn EXCEPT ![k].busy = None] /\ UNCHANGED cur
         /\ acks' = (IF cur = k THEN acks + 1 ELSE acks)
         /\ doubt' \in BOOLEAN /\ (cur # k => doubt' = doubt)
         /\ CarriesOut \/ cur # k \/ doubt'
      \/ /\ conn' = [conn EXCEPT ![k] = Closed] /\ UNCHANGED <<acks, doubt>>
         /\ cur' = (IF cur = k THEN Broken ELSE cur)
  BY <1>0 DEF FrontEnds
<1>3. OnlyLost
  BY DEF OnlyLost
<1>4. /\ reg' \in Command \cup {None}
      /\ done' \subseteq Command /\ loose' \subseteq Command /\ strays' \subseteq Command
      /\ strays \subseteq strays'
      /\ AskedInOrder' /\ DoneWasAsked' /\ AckedStands'
      /\ \A m \in Command : Stands(m) /\ Waiting /\ m = Now => Stands(m)'
      /\ \A m \in done' \cup loose' : ByIntent(m)' => m \in done \cup loose /\ ByIntent(m)
  BY <1>3, WorkerKeeps
<1>5. lane' = Tail(lane)
  OBVIOUS
<1>6. IntentsLineUp'
  BY <1>4, IntentsStay DEF XInv
<1>7. \A j \in Conns \ {k} : conn'[j] = conn[j]
  BY <1>2 DEF XInv, TypeOK
<1>8. /\ conn'[k].busy = None
      /\ \/ conn'[k].on /\ conn'[k].frames = conn[k].frames /\ cur' = cur
         \/ conn'[k] = Closed /\ cur' # k
  <2>1. CASE conn' = [conn EXCEPT ![k].busy = None] /\ UNCHANGED cur
    BY <1>1, <2>1, HeldType DEF XInv, TypeOK
  <2>2. CASE conn' = [conn EXCEPT ![k] = Closed] /\ cur' = IF cur = k THEN Broken ELSE cur
    BY <1>1, <2>2, ClosedType, ConnNames DEF XInv, TypeOK
  <2> QED BY <1>2, <2>1, <2>2
<1>9. conn' \in [Conns -> [on : BOOLEAN, frames : Seq(Command), busy : Command \cup {None}]]
  <2>1. conn \in [Conns -> [on : BOOLEAN, frames : Seq(Command), busy : Command \cup {None}]]
    BY DEF XInv, TypeOK
  <2>2. CASE conn' = [conn EXCEPT ![k].busy = None]
    BY <2>1, <2>2
  <2>3. CASE conn' = [conn EXCEPT ![k] = Closed]
    BY <2>1, <2>3, ClosedType
  <2> QED BY <1>2, <2>2, <2>3
<1>10. cur' \in Conns \cup {NoConn, Broken} /\ acks' \in Nat /\ doubt' \in BOOLEAN
  BY <1>2 DEF XInv, TypeOK
<1>11. TypeOK'
  BY <1>1, <1>4, <1>5, <1>9, <1>10 DEF XInv, TypeOK
<1>12. LaneIsBusy'
  BY <1>1, <1>5, <1>7 DEF XInv, LaneIsBusy
<1>13. ConnsAreOpen'
  <2>1. cur' = cur \/ (cur' = Broken /\ cur \in Conns)
    BY <1>1, <1>2
  <2>2. \A j \in Conns : ~conn'[j].on => conn'[j] = Closed
    BY <1>7, <1>8 DEF XInv, ConnsAreOpen
  <2>3. cur' \in Conns => conn'[cur'].on
    BY <1>7, <1>8, <2>1, ConnNames DEF XInv, ConnsAreOpen
  <2>4. req'.at = "connect" => cur' = NoConn
    BY <2>1, ConnNames DEF XInv, ConnsAreOpen
  <2>5. req'.at \in {"send", "wait"} => cur' # NoConn
    BY <2>1 DEF XInv, ConnsAreOpen, NoConn, Broken
  <2> QED BY <2>2, <2>3, <2>4, <2>5 DEF ConnsAreOpen
<1>14. \A j \in Conns : Held(j)' \subseteq Held(j) /\ (cur' = j \/ cur # j \/ Held(j)' = {})
  <2>1. \A j \in Conns \ {k} : Held(j)' = Held(j) /\ (cur' = j \/ cur # j)
    BY <1>2, <1>7 DEF Held
  <2>2. CASE conn'[k].frames = conn[k].frames /\ cur' = cur
    <3>1. Held(k)' \subseteq Held(k)
      BY <1>8, <2>2 DEF Held
    <3> QED BY <2>1, <2>2, <3>1
  <2>3. CASE conn'[k] = Closed
    <3>1. Held(k)' = {}
      BY <2>3, ClosedType, NoElements DEF Held
    <3> QED BY <2>1, <3>1
  <2> QED BY <1>8, <2>1, <2>2, <2>3
<1>15. FramesAreOwned'
  BY <1>4, <1>14 DEF XInv, FramesAreOwned, Reported, Waiting, Now
<1>16. CleanConn'
  <2> SUFFICES ASSUME cur' \in Conns, ~late PROVE CleanConn'
    BY DEF CleanConn
  <2>1. cur' = cur
    BY <1>2, ConnNames
  <2>2. CASE cur = k
    <3>1. /\ conn' = [conn EXCEPT ![k].busy = None] /\ acks' = acks + 1
      BY <1>2, <2>1, <2>2, <1>1, ConnNames
    <3>2. conn[k].busy # None
      BY <1>1, CommandsAreNumbers
    <3>3. Waiting /\ acks = 0 /\ conn[k].frames = <<>>
      BY <2>1, <2>2, <3>2 DEF XInv, CleanConn
    <3>4. conn'[k].frames = <<>> /\ conn'[k].busy = None
      BY <1>1, <3>1, <3>3, HeldType DEF XInv, TypeOK
    <3> QED BY <2>1, <2>2, <3>1, <3>3, <3>4 DEF CleanConn, Waiting
  <2>3. CASE cur # k
    <3>1. acks' = acks /\ conn'[cur] = conn[cur]
      BY <1>2, <1>7, <2>1, <2>3
    <3> QED BY <2>1, <3>1 DEF XInv, CleanConn, Waiting, Now
  <2> QED BY <2>2, <2>3
<1>17. AckIsTrue'
  <2> SUFFICES ASSUME Waiting, ~late, ~doubt', acks' > 0 PROVE Stands(Now)'
    BY DEF AckIsTrue, Waiting
  <2>1. Now \in Command /\ Now' = Now
    BY NowFacts DEF XInv, Waiting, Now
  <2>2. CASE acks > 0
    <3>1. CASE doubt
      <4>1. cur = k
        BY <1>2, <3>1
      <4>2. conn[k].busy # None
        BY <1>1, CommandsAreNumbers
      <4> QED BY <1>1, <2>2, <4>1, <4>2 DEF XInv, CleanConn
    <3>2. CASE ~doubt
      <4>1. Stands(Now)
        BY <2>2, <3>2 DEF XInv, AckIsTrue
      <4> QED BY <1>4, <2>1, <4>1 DEF Stands
    <3> QED BY <3>1, <3>2
  <2>3. CASE ~(acks > 0)
    <3>1. CarriesOut /\ cur = k
      BY <1>2, <2>3
    <3>2. conn[k].busy = Now
      <4>1. conn[k].busy # None
        BY <1>1, CommandsAreNumbers
      <4> QED BY <1>1, <3>1, <4>1 DEF XInv, CleanConn
    <3>3. reg' = Now /\ done' = done \cup {Now}
      BY <1>1, <3>1, <3>2 DEF CarriesOut
    <3> QED BY <2>1, <3>3, CommandsAreNumbers DEF Stands
  <2> QED BY <2>2, <2>3
<1> QED BY <1>4, <1>6, <1>11, <1>12, <1>13, <1>15, <1>16, <1>17 DEF XInv

LEMMA WorkerInv ==
  ASSUME XInv, WorkerStep
  PROVE  XInv'
<1>1. CASE JobSucceeds
  <2>1. PICK doubtful \in BOOLEAN :
          /\ CarriesOut \/ (doubtful /\ UNCHANGED <<reg, done>>)
          /\ IF Head(lane) = Intent
             THEN intent' = NoIntent /\ UNCHANGED <<conn, acks, doubt>>
             ELSE AckGoesOut(Head(lane), doubtful) /\ UNCHANGED intent
    BY <1>1 DEF JobSucceeds
  <2>2. /\ Working /\ MayLeave /\ lane' = Tail(lane)
        /\ UNCHANGED <<subject, stream, wire, intents, outcome, asked, req, cur, late>>
    BY <1>1 DEF JobSucceeds
  <2>3. Attempted
    BY <2>1, <2>2 DEF Attempted
  <2>4. CASE Head(lane) = Intent
    BY <2>1, <2>2, <2>3, <2>4, IntentDoneInv
  <2>5. CASE /\ Head(lane) # Intent
             /\ conn' = [conn EXCEPT ![Head(lane)].busy = None]
             /\ IF cur = Head(lane) THEN acks' = acks + 1 /\ doubt' = (doubt \/ doubtful)
                                    ELSE UNCHANGED <<acks, doubt>>
    <3>1. /\ acks' = (IF cur = Head(lane) THEN acks + 1 ELSE acks)
          /\ doubt' \in BOOLEAN /\ (cur # Head(lane) => doubt' = doubt)
          /\ CarriesOut \/ cur # Head(lane) \/ doubt'
      <4>1. doubt \in BOOLEAN
        BY DEF XInv, TypeOK
      <4>2. CASE cur = Head(lane)
        BY <2>1, <2>5, <4>1, <4>2
      <4>3. CASE cur # Head(lane)
        BY <2>5, <4>1, <4>3
      <4> QED BY <4>2, <4>3
    <3>2. UNCHANGED intent
      BY <2>1, <2>5
    <3> QED BY <2>2, <2>3, <2>5, <3>1, <3>2, FrameDoneInv
  <2>6. CASE /\ Head(lane) # Intent /\ cur # Head(lane)
             /\ FrontEnds(Head(lane)) /\ UNCHANGED <<acks, doubt>>
    <3>1. UNCHANGED intent /\ cur' = IF cur = Head(lane) THEN Broken ELSE cur
      BY <2>1, <2>2, <2>6
    <3> QED BY <2>2, <2>3, <2>6, <3>1, FrameDoneInv
  <2> QED BY <2>1, <2>4, <2>5, <2>6 DEF AckGoesOut
<1>2. CASE JobFails
  <2>1. /\ Working /\ lane' = Tail(lane) /\ Attempted
        /\ UNCHANGED <<subject, stream, wire, intents, asked, req, late, acks, doubt>>
    BY <1>2 DEF JobFails, Attempted
  <2>2. CASE Head(lane) = Intent
    <3>1. IntentFails /\ UNCHANGED <<conn, cur>>
      BY <1>2, <2>2 DEF JobFails
    <3> QED BY <2>1, <2>2, <3>1, IntentDoneInv DEF IntentFails
  <2>3. CASE Head(lane) # Intent
    <3>1. /\ FrontEnds(Head(lane)) /\ UNCHANGED <<intent, outcome>>
          /\ cur' = IF cur = Head(lane) THEN Broken ELSE cur
      BY <1>2, <2>3 DEF JobFails
    <3> QED BY <2>1, <2>3, <3>1, FrameDoneInv
  <2> QED BY <2>2, <2>3
<1> QED BY <1>1, <1>2 DEF WorkerStep

\* The machine has carried out what had been left to it.
LEMMA CatchesUpInv ==
  ASSUME XInv, CatchesUp
  PROVE  XInv'
<1>1. PICK n \in loose :
        reg' = n /\ done' = done \cup {n} /\ loose' \in {loose, loose \ {n}}
  BY DEF CatchesUp
<1>2. UNCHANGED <<subject, stream, wire, intents, intent, outcome, asked, req, cur, late, acks,
                  doubt, conn, lane, strays>>
  BY DEF CatchesUp, channel, caller
<1>3. n \in Command /\ n \in strays /\ OnlyLost
  BY <1>2 DEF XInv, TypeOK, DoneWasAsked, OnlyLost
<1>4. TypeOK'
  BY <1>1, <1>2, <1>3 DEF XInv, TypeOK
<1>5. AskedInOrder' /\ IntentsLineUp'
  <2>1. \A m \in done' \cup loose' : m \in done \cup loose
    BY <1>1
  <2> QED BY <1>2, <1>3, <2>1, OrderStays, IntentsStay DEF XInv, AskedInOrder, ByIntent
<1>6. LaneIsBusy' /\ ConnsAreOpen' /\ CleanConn'
  BY <1>2 DEF XInv, LaneIsBusy, ConnsAreOpen, CleanConn, Waiting, Now
<1>7. FramesAreOwned'
  BY <1>2, <1>3, FramesStay DEF XInv
<1>8. \A m \in Command : Stands(m) => Stands(m)'
  BY <1>1, <1>2, <1>3 DEF Stands
<1>9. AckIsTrue' /\ AckedStands'
  <2>1. Waiting => Now \in Command
    BY NowFacts DEF XInv, Waiting
  <2>2. AckIsTrue'
    BY <1>2, <1>8, <2>1 DEF XInv, AckIsTrue, Waiting, Now, Stands
  <2>3. AckedStands'
    BY <1>2, <1>8 DEF XInv, AckedStands, Stands
  <2> QED BY <2>2, <2>3
<1>10. DoneWasAsked'
  BY <1>1, <1>2, <1>3 DEF XInv, DoneWasAsked, Unasked
<1> QED BY <1>4, <1>5, <1>6, <1>7, <1>9, <1>10 DEF XInv

LEMMA RestartsInv ==
  ASSUME XInv, Restarts
  PROVE  XInv'
<1>1. /\ conn' = [k \in Conns |-> Closed] /\ lane' = <<>>
      /\ cur' = IF cur \in Conns THEN Broken ELSE cur
      /\ stream' = NoStream /\ wire' = [k \in Streams |-> <<>>]
      /\ intents' = <<>> /\ intent' = NoIntent /\ Attempted
      /\ UNCHANGED <<subject, asked, req, late, acks, doubt>>
  BY DEF Restarts, Attempted
<1>2. PICK ns : Loses(ns)
  BY DEF Restarts
<1>3. OnlyLost /\ outcome' \in [Command -> Outcome]
  BY <1>2, LosesFacts
<1>4. /\ reg' \in Command \cup {None}
      /\ done' \subseteq Command /\ loose' \subseteq Command /\ strays' \subseteq Command
      /\ AskedInOrder' /\ DoneWasAsked' /\ AckedStands'
      /\ \A m \in Command : Stands(m) /\ Waiting /\ m = Now => Stands(m)'
  BY <1>1, <1>3, WorkerKeeps
<1>5. intent' \in [id : Command \cup {None}, try : 0..WriteRetries]
  BY <1>1, CommandAssumption DEF CommandAssumption, NoIntent
<1>6. conn' \in [Conns -> [on : BOOLEAN, frames : Seq(Command), busy : Command \cup {None}]]
  BY <1>1, ClosedType
<1>7. TypeOK'
  <2>1. /\ lane' \in Seq(Conns \cup {Intent}) /\ wire' \in [Streams -> Seq(Command)]
        /\ intents' \in Seq(Command)
    BY <1>1, NoElements
  <2>2. cur' \in Conns \cup {NoConn, Broken} /\ stream' \in Streams \cup {NoStream}
    BY <1>1 DEF XInv, TypeOK
  <2> QED BY <1>1, <1>3, <1>4, <1>5, <1>6, <2>1, <2>2 DEF XInv, TypeOK
<1>8. /\ Elements(intents') = {} /\ Elements(lane') = {}
      /\ \A k \in Streams : Unread(k)' = {}
  BY <1>1, NoElements DEF Unread
<1>9. OnTheWay' = {} /\ Taken' = {}
  BY <1>1, <1>8 DEF OnTheWay, OnWires, Taken
<1>10. IntentsLineUp' /\ LaneIsBusy'
  <2>1. QueueLinesUp'
    BY <1>1, <1>9 DEF QueueLinesUp, InLine
  <2>2. WiresLineUp'
    BY <1>1, <1>8 DEF WiresLineUp
  <2>3. LaneIsBusy'
    BY <1>1, <1>8 DEF LaneIsBusy, Distinct
  <2> QED BY <2>1, <2>2, <2>3 DEF IntentsLineUp
<1>11. \A k \in Conns : conn'[k] = Closed
  BY <1>1
<1>12. cur' \notin Conns /\ (cur' = NoConn <=> cur = NoConn)
  BY <1>1, ConnNames DEF NoConn, Broken
<1>13. ConnsAreOpen' /\ CleanConn'
  BY <1>1, <1>11, <1>12 DEF XInv, ConnsAreOpen, CleanConn
<1>14. FramesAreOwned'
  <2>1. \A k \in Conns : Held(k)' = {}
    BY <1>11, ClosedType, NoElements DEF Held
  <2> QED BY <2>1 DEF FramesAreOwned
<1>15. AckIsTrue'
  BY <1>1, <1>4, NowFacts DEF XInv, AckIsTrue, Waiting, Now, Stands
<1> QED BY <1>4, <1>7, <1>10, <1>13, <1>14, <1>15 DEF XInv

-----------------------------------------------------------------------------
(* The invariant, and what follows for the callers.                          *)

LEMMA CommandInit == Init => XInv
<1> SUFFICES ASSUME Init PROVE XInv
  OBVIOUS
<1>1. /\ Idle \in [at : {"idle", "connect", "send", "wait"}, attempt : 1..Attempts,
                   try : 0..MaxRetries]
      /\ NoIntent \in [id : Command \cup {None}, try : 0..WriteRetries]
      /\ Idle.at = "idle"
  BY CommandAssumption DEF CommandAssumption, Idle, NoIntent
<1>2. conn \in [Conns -> [on : BOOLEAN, frames : Seq(Command), busy : Command \cup {None}]]
      /\ \A k \in Conns : conn[k] = Closed
  BY ClosedType DEF Init
<1>3. TypeOK
  <2>1. outcome \in [Command -> Outcome]
    BY DEF Init, Outcome
  <2>2. /\ lane \in Seq(Conns \cup {Intent}) /\ wire \in [Streams -> Seq(Command)]
        /\ intents \in Seq(Command) /\ asked \in Seq(Command)
    BY NoElements DEF Init
  <2> QED BY <1>1, <1>2, <2>1, <2>2 DEF Init, TypeOK
<1>4. AskedInOrder
  BY <1>1, NoElements DEF Init, AskedInOrder, Unasked, Reported, Rising
<1>5. OnTheWay = {} /\ Taken = {} /\ \A k \in Streams : Unread(k) = {}
  <2>1. \A k \in Streams : Unread(k) = {}
    BY NoElements DEF Init, Unread
  <2> QED BY <2>1, NoElements DEF Init, OnTheWay, OnWires, Taken
<1>6. IntentsLineUp /\ LaneIsBusy
  BY <1>5, NoElements DEF Init, IntentsLineUp, QueueLinesUp, WiresLineUp, LaneIsBusy, InLine,
     Distinct
<1>7. ConnsAreOpen /\ CleanConn /\ ~Waiting
  BY <1>1, <1>2, ConnNames DEF Init, ConnsAreOpen, CleanConn, Waiting
<1>8. FramesAreOwned
  <2>1. \A k \in Conns : Held(k) = {}
    BY <1>2, ClosedType, NoElements DEF Held
  <2> QED BY <2>1 DEF FramesAreOwned
<1>9. AckIsTrue /\ AckedStands /\ DoneWasAsked
  BY <1>7 DEF Init, AckIsTrue, AckedStands, DoneWasAsked
<1> QED BY <1>3, <1>4, <1>6, <1>7, <1>8, <1>9 DEF XInv

LEMMA CommandStutter ==
  ASSUME XInv, UNCHANGED vars
  PROVE  XInv'
<1>1. TypeOK' /\ AskedInOrder'
  BY DEF vars, XInv, TypeOK, AskedInOrder, Unasked, Reported
<1>2. IntentsLineUp'
  BY IntentsStay DEF vars, XInv, ByIntent
<1>3. LaneIsBusy' /\ ConnsAreOpen' /\ FramesAreOwned' /\ CleanConn'
  BY DEF vars, XInv, LaneIsBusy, ConnsAreOpen, FramesAreOwned, CleanConn, Held, Reported,
     Waiting, Now
<1>4. AckIsTrue' /\ AckedStands' /\ DoneWasAsked'
  BY DEF vars, XInv, AckIsTrue, AckedStands, DoneWasAsked, Stands, Unasked, Waiting, Now
<1> QED BY <1>1, <1>2, <1>3, <1>4 DEF XInv

LEMMA CommandInvariant == Spec => []XInv
<1>1. XInv /\ [Next]_vars => XInv'
  <2> SUFFICES ASSUME XInv, [Next]_vars PROVE XInv'
    OBVIOUS
  <2>1. ASSUME NEW n \in Command, Write(n) \/ PushClock(n) PROVE XInv'
    <3>1. CASE Write(n) /\ Submits(n)
      BY <3>1, SubmitsInv
    <3>2. CASE Write(n) /\ SendBreaks(n)
      BY <3>2, WaitsInv DEF SendBreaks
    <3>3. CASE Write(n) /\ FallsBack(n)
      BY <3>3, WaitsInv DEF FallsBack
    <3>4. CASE PushClock(n)
      BY <3>4, WaitsInv DEF PushClock, bridge, channel
    <3>5. Write(n) => Submits(n) \/ SendBreaks(n) \/ FallsBack(n)
      BY DEF Write
    <3> QED BY <2>1, <3>1, <3>2, <3>3, <3>4, <3>5
  <2>2. CASE ClientStep
    BY <2>2, ServeInv, ConnectInv, ConnectFailsInv, SendInv, AcceptInv, TimeoutInv, FaultsInv
       DEF ClientStep
  <2>3. CASE StreamConnects \/ StreamDrops \/ NetworkLost \/ TakeIntent
    BY <2>3, StreamConnectsInv, StreamDropsInv, NetworkLostInv, TakeIntentInv
  <2>4. ASSUME NEW k \in Conns, Dispatch(k) \/ HangsUp(k) PROVE XInv'
    BY <2>4, DispatchInv, HangsUpInv
  <2>5. ASSUME NEW k \in Streams, Admit(k) PROVE XInv'
    BY <2>5, AdmitInv
  <2>6. CASE SubmitIntent \/ WorkerStep \/ CatchesUp \/ Restarts
    BY <2>6, SubmitIntentInv, WorkerInv, CatchesUpInv, RestartsInv
  <2> QED BY <2>1, <2>2, <2>3, <2>4, <2>5, <2>6, CommandStutter DEF Next
<1> QED BY <1>1, CommandInit, PTL DEF Spec

(* What every party on the way holds of a command, its limits of re-sends    *)
(* and tries included (coordinator.async_write, client.py, governor.py).    *)
THEOREM CommandTypeCorrect == Spec => []TypeOK
BY CommandInvariant, PTL DEF XInv

(* A command acknowledged to its caller has been carried out, unless a wait  *)
(* had timed out on a connection the acknowledgement came over, the          *)
(* integration's or the bridge's; and it stands against every older one but  *)
(* an intent, one that was left behind, or one that another's acknowledgement *)
(* was taken for (async_write, _handle_client, the bridge's _exchange).      *)
THEOREM AckedTheorem == Spec => []AckedStands
BY CommandInvariant, PTL DEF XInv

\* What the register is set to: the job at the head of the lane, or what was left
\* with the machine.
LEMMA RegisterFacts ==
  ASSUME XInv, Next, reg' # reg
  PROVE  (Working /\ reg' = Executing) \/ reg' \in loose
<1>1. CASE WorkerStep \/ Restarts
  BY <1>1 DEF WorkerStep, JobSucceeds, JobFails, Restarts, CarriesOut
<1>2. CASE CatchesUp
  BY <1>2 DEF CatchesUp
<1>3. CASE \E n \in Command : Write(n) \/ PushClock(n)
  BY <1>3 DEF Write, PushClock, bridge
<1>4. CASE ClientStep
  BY <1>4 DEF ClientStep, Serve, Connect, ConnectFails, Send, Accept, Timeout, Garbled,
     FindsBroken, bridge
<1>5. CASE \/ StreamConnects \/ StreamDrops \/ NetworkLost \/ TakeIntent \/ SubmitIntent
           \/ \E k \in Conns : Dispatch(k) \/ HangsUp(k)
           \/ \E k \in Streams : Admit(k)
  BY <1>5 DEF StreamConnects, StreamDrops, NetworkLost, Dispatch, HangsUp, Admit, TakeIntent,
     SubmitIntent, bridge
<1> QED BY <1>1, <1>2, <1>3, <1>4, <1>5 DEF Next

(* A command reported failed is not carried out afterwards, nor a reported   *)
(* one again, but from a frame that was left behind: given up unanswered by  *)
(* the integration, left with the machine by the bridge's client, or that    *)
(* of one which took the stream as well (client.py, _handle_client).         *)
THEOREM NoneAfterTheorem == Spec => NoneAfterReport
<1>1. ASSUME XInv, Next, reg' # reg, outcome[reg'] \in {"ok", "failed"}
      PROVE  reg' \in strays
  <2>1. CASE Working /\ reg' = Executing
    <3>1. Waiting => outcome[Now] = "waiting"
      BY <1>1, NowFacts DEF XInv, Waiting
    <3> QED BY <1>1, <2>1, <3>1, WorkerFacts
  <2>2. CASE reg' \in loose
    BY <1>1, <2>2 DEF XInv, DoneWasAsked
  <2> QED BY <1>1, <2>1, <2>2, RegisterFacts
<1>2. XInv /\ [Next]_vars =>
        [reg' # reg /\ outcome[reg'] \in {"ok", "failed"} => reg' \in strays]_vars
  BY <1>1
<1> QED BY <1>2, CommandInvariant, PTL DEF Spec, NoneAfterReport

(* Intents reach the machine in the order they were given, however many      *)
(* handlers read what streams that had ended left unread, whatever failed,   *)
(* was tried again or was lost: out of it comes only one that was left       *)
(* behind (push_server._handler, broker.py, _write_intent_loop).             *)
THEOREM IntentsTheorem == Spec => IntentsInOrder
<1>1. ASSUME XInv, Next, reg' # reg, ByIntent(reg')
      PROVE  reg' \in strays \/ \A m \in done : ByIntent(m) => m <= reg'
  <2>1. CASE Working /\ reg' = Executing
    <3>1. Head(lane) = Intent
      BY <1>1, <2>1, WorkerFacts DEF ByIntent, Reported
    <3>2. reg' \in OnTheWay
      BY <1>1, <2>1, <3>1, WorkerFacts DEF OnTheWay
    <3> QED BY <1>1, <3>2 DEF XInv, IntentsLineUp, QueueLinesUp
  <2>2. CASE reg' \in loose
    BY <1>1, <2>2 DEF XInv, DoneWasAsked
  <2> QED BY <1>1, <2>1, <2>2, RegisterFacts
<1>2. XInv /\ [Next]_vars =>
        [reg' # reg /\ ByIntent(reg') =>
           reg' \in strays \/ \A m \in done : ByIntent(m) => m <= reg']_vars
  BY <1>1
<1> QED BY <1>2, CommandInvariant, PTL DEF Spec, IntentsInOrder

-----------------------------------------------------------------------------
(* The request in progress keeps PatientRequest.                            *)

\* A request that is over leaves nothing behind, and a new pass re-sent nothing yet.
BeginsFresh ==
  /\ req.at = "idle" => req = Idle
  /\ req.at = "connect" => req.try = 0

LEMMA NextAttemptGoesOn ==
  ASSUME XInv, NextAttempt
  PROVE  Patience!GoesOn /\ BeginsFresh'
<1>1. req.attempt \in 1..Attempts /\ Attempts \in Nat
  BY CommandAssumption DEF XInv, TypeOK, CommandAssumption
<1>2. CASE req.attempt < Attempts
  <2>1. req' = [at |-> "connect", attempt |-> req.attempt + 1, try |-> 0]
    BY <1>2 DEF NextAttempt
  <2> QED BY <1>2, <2>1 DEF Patience!GoesOn, Patience!Enters, BeginsFresh
<1>3. CASE ~(req.attempt < Attempts)
  <2>1. req' = Idle /\ req.attempt = Attempts
    BY <1>1, <1>3 DEF NextAttempt, Ends
  <2> QED
    BY <2>1 DEF Patience!GoesOn, Patience!IsOver, Patience!Enters, BeginsFresh, Idle
<1> QED BY <1>2, <1>3

LEMMA FaultIsFault ==
  ASSUME XInv, Fault, Waiting
  PROVE  Patience!Fault /\ BeginsFresh'
BY NextAttemptGoesOn DEF Fault, Waiting, Patience!Fault

LEMMA PatientStep ==
  ASSUME XInv, BeginsFresh, [Next]_vars
  PROVE  BeginsFresh' /\ [Patience!Next]_(Patience!vars)
<1> USE DEF Patience!vars
<1>0. /\ req \in [at : {"idle", "connect", "send", "wait"},
                 attempt : 1..Attempts, try : 0..MaxRetries]
      /\ MaxRetries \in Nat
      /\ req.at = "connect" => cur = NoConn
      /\ req.at \in {"send", "wait"} => cur # NoConn
  BY CommandAssumption DEF XInv, TypeOK, ConnsAreOpen, CommandAssumption
<1>1. CASE Serve
  <2>1. /\ req.at = "idle" /\ cur' = cur
        /\ req' = [Idle EXCEPT !.at = IF cur = NoConn THEN "connect" ELSE "send"]
    BY <1>1 DEF Serve
  <2> QED BY <2>1 DEF Idle, BeginsFresh, Patience!Next, Patience!Ask, Patience!Starts,
     Patience!Enters
<1>2. CASE Connect
  <2>1. /\ req.at = "connect" /\ cur' # NoConn /\ cur = NoConn
        /\ req' = [req EXCEPT !.at = "send"]
    BY <1>0, <1>2, ConnNames DEF Connect
  <2> QED BY <1>0, <2>1 DEF BeginsFresh, Patience!Next, Patience!Connect, Patience!Enters
<1>3. CASE ConnectFails
  <2>1. req.at = "connect" /\ cur' = cur /\ NextAttempt
    BY <1>3 DEF ConnectFails
  <2> QED BY <2>1, NextAttemptGoesOn DEF Patience!Next, Patience!ConnectFails
<1>4. CASE Send
  <2>1. req.at = "send" /\ cur' = cur /\ cur # NoConn /\ req' = [req EXCEPT !.at = "wait"]
    BY <1>0, <1>4 DEF Send
  <2> QED BY <1>0, <2>1 DEF BeginsFresh, Patience!Next, Patience!Send
<1>5. CASE Accept
  <2>1. req.at = "wait" /\ cur' = cur /\ req' = Idle
    BY <1>5 DEF Accept, Ends
  <2> QED BY <2>1 DEF BeginsFresh, Idle, Patience!Next, Patience!Answered,
     Patience!IsOver, Patience!Enters
<1>6. CASE Timeout
  <2>1. CASE req.try < MaxRetries
    <3>1. /\ req.at = "wait" /\ cur' = cur /\ cur # NoConn
          /\ req' = [req EXCEPT !.at = "send", !.try = req.try + 1]
      BY <1>0, <1>6, <2>1 DEF Timeout
    <3> QED BY <1>0, <2>1, <3>1 DEF BeginsFresh, Patience!Next, Patience!Resend
  <2>2. CASE ~(req.try < MaxRetries)
    BY <1>6, <2>2, FaultIsFault DEF Timeout, Waiting, Patience!Next
  <2> QED BY <2>1, <2>2
<1>7. CASE Garbled \/ FindsBroken
  BY <1>7, FaultIsFault DEF Garbled, FindsBroken, Waiting, Patience!Next
<1>8. CASE \/ \E n \in Command : Write(n) \/ PushClock(n)
           \/ StreamConnects \/ StreamDrops \/ \E k \in Conns : Dispatch(k) \/ HangsUp(k)
           \/ \E k \in Streams : Admit(k)
           \/ TakeIntent \/ SubmitIntent \/ CatchesUp \/ UNCHANGED vars
  <2>1. req' = req /\ cur' = cur
    BY <1>8 DEF Write, PushClock, StreamConnects, StreamDrops, Dispatch, HangsUp, Admit,
       TakeIntent, SubmitIntent, CatchesUp, vars, caller
  <2> QED BY <2>1 DEF BeginsFresh
<1>9. CASE NetworkLost \/ WorkerStep \/ Restarts
  <2>1. req' = req /\ (cur' = cur \/ (cur' = Broken /\ cur \in Conns))
    <3>1. CASE NetworkLost \/ JobSucceeds
      BY <3>1 DEF NetworkLost, JobSucceeds
    <3>2. CASE JobFails
      <4>1. Head(lane) # Intent => Head(lane) \in Conns
        BY <3>2, WorkerFacts DEF JobFails
      <4> QED BY <3>2, <4>1 DEF JobFails
    <3>3. CASE Restarts
      BY <3>3 DEF Restarts
    <3> QED BY <1>9, <3>1, <3>2, <3>3 DEF WorkerStep
  <2>2. (cur' # NoConn) <=> (cur # NoConn)
    BY <2>1, ConnNames DEF NoConn, Broken
  <2> QED BY <2>1, <2>2 DEF BeginsFresh
<1> QED
  BY <1>1, <1>2, <1>3, <1>4, <1>5, <1>6, <1>7, <1>8, <1>9 DEF Next, ClientStep

(* What commands meet on their way is what the integration's client promises  *)
(* of one request (client.py, request), whatever the bridge and the network   *)
(* do: PatienceTheorem of ClientProofs is the other half.                    *)
THEOREM RequestPatienceTheorem == Spec => RequestKeepsPatience
<1>1. Init => BeginsFresh /\ Patience!Init
  BY DEF Init, Idle, BeginsFresh, Patience!Init
<1> QED
  BY <1>1, PatientStep, CommandInvariant, PTL DEF Spec, RequestKeepsPatience, Patience!Spec

=============================================================================
