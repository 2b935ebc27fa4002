----------------------------- MODULE PushProofs -----------------------------
(***************************************************************************)
(* What is proved of the state stream, for any subscribers, broadcasting    *)
(* tasks and buffers.                                                       *)
(***************************************************************************)
EXTENDS PushChannel, TLAPS

(* The broadcasts that wait are of snapshots taken one after another, none    *)
(* older than the last one sent and none newer than the store.              *)
QueueRises ==
  /\ latest <= version
  /\ \A i \in 1..Len(queue) : latest <= queue[i].ver /\ queue[i].ver <= version
  /\ \A i, j \in 1..Len(queue) : i < j => queue[i].ver <= queue[j].ver

(* So are the frames on the way to a subscriber, and what it shows is older.  *)
FramesRise ==
  \A c \in Subscribers :
    /\ view[c] <= latest
    /\ \A i \in 1..Len(chan[c]) : view[c] <= chan[c][i] /\ chan[c][i] <= latest
    /\ \A i, j \in 1..Len(chan[c]) : i < j => chan[c][i] <= chan[c][j]

PInv == TypeOK /\ QueueRises /\ FramesRise

-----------------------------------------------------------------------------
(* The actions, as far as an order is concerned.                            *)

LEMMA FrameType == Version \subseteq Frame /\ NoFrame \in Frame /\ Frame \subseteq Int
BY PushAssumption DEF PushAssumption, Version, Frame, NoFrame

LEMMA Numbers ==
  ASSUME TypeOK
  PROVE  /\ version \in Int /\ latest \in Int
         /\ \A i \in 1..Len(queue) : queue[i].ver \in Int
         /\ \A c \in Subscribers :
              view[c] \in Int /\ \A i \in 1..Len(chan[c]) : chan[c][i] \in Int
<1>1. version \in Int /\ latest \in Int
  BY FrameType DEF TypeOK
<1>2. ASSUME NEW i \in 1..Len(queue) PROVE queue[i].ver \in Int
  <2>1. queue[i] \in Pending
    BY <1>2 DEF TypeOK
  <2> QED BY <2>1, FrameType DEF Pending
<1>3. ASSUME NEW c \in Subscribers
      PROVE view[c] \in Int /\ \A i \in 1..Len(chan[c]) : chan[c][i] \in Int
  <2>1. view[c] \in Frame /\ chan[c] \in Seq(Frame)
    BY <1>3 DEF TypeOK
  <2>2. \A i \in 1..Len(chan[c]) : chan[c][i] \in Frame
    BY <2>1
  <2> QED BY <2>1, <2>2, FrameType
<1> QED BY <1>1, <1>2, <1>3

LEMMA PushInit == Init => PInv
<1> SUFFICES ASSUME Init PROVE PInv
  OBVIOUS
<1>1. 0 \in Version /\ NoTurn \in Turn
  BY PushAssumption DEF PushAssumption, Version, NoTurn, Turn, Tasks
<1>2. TypeOK
  BY <1>1, FrameType DEF Init, TypeOK
<1> QED BY <1>2 DEF Init, PInv, QueueRises, FramesRise, NoFrame

\* What keeps the frames in order: nothing is shown, taken away or sent but
\* the newest.
LEMMA FramesStay ==
  ASSUME FramesRise, UNCHANGED <<latest, chan, view>>
  PROVE  FramesRise'
BY DEF FramesRise

LEMMA QueueStays ==
  ASSUME QueueRises, UNCHANGED <<version, latest, queue>>
  PROVE  QueueRises'
BY DEF QueueRises

LEMMA CallInv ==
  ASSUME PInv, NEW t \in Tasks, Call(t)
  PROVE  PInv'
<1> DEFINE call == [who |-> t, ver |-> version]
<1>1. /\ call \in Pending /\ queue \in Seq(Pending)
      /\ call.who = t /\ call.ver = version
  BY DEF PInv, TypeOK, Pending
<1> HIDE DEF call
<1>2. /\ queue' = Append(queue, call) /\ queue' \in Seq(Pending)
      /\ \A i \in 1..Len(queue') :
           \/ i \in 1..Len(queue) /\ queue'[i] = queue[i]
           \/ i = Len(queue) + 1 /\ queue'[i] = call
  BY <1>1 DEF Call, call
<1>3. \A i \in 1..Len(queue) : queue[i].who # t
  BY <1>1 DEF Call, Busy
<1>4. ~(turn.on /\ turn.who = t) /\ turn' = turn
  BY DEF Call, Busy
<1>5. \A i \in 1..Len(queue') : ~(turn'.on /\ queue'[i].who = turn'.who)
  <2> SUFFICES ASSUME NEW i \in 1..Len(queue')
               PROVE ~(turn.on /\ queue'[i].who = turn.who)
    BY <1>4
  <2>1. CASE i \in 1..Len(queue) /\ queue'[i] = queue[i]
    BY <2>1 DEF PInv, TypeOK
  <2>2. CASE queue'[i] = call
    BY <1>1, <1>4, <2>2
  <2> QED BY <1>2, <2>1, <2>2
<1>6. \A i, j \in 1..Len(queue') : i # j => queue'[i].who # queue'[j].who
  <2> SUFFICES ASSUME NEW i \in 1..Len(queue'), NEW j \in 1..Len(queue'), i # j
               PROVE queue'[i].who # queue'[j].who
    OBVIOUS
  <2>1. CASE /\ i \in 1..Len(queue) /\ queue'[i] = queue[i]
             /\ j \in 1..Len(queue) /\ queue'[j] = queue[j]
    BY <2>1 DEF PInv, TypeOK
  <2>2. CASE i = Len(queue) + 1 /\ queue'[i] = call
    BY <1>1, <1>2, <1>3, <2>2
  <2>3. CASE j = Len(queue) + 1 /\ queue'[j] = call
    BY <1>1, <1>2, <1>3, <2>3
  <2> QED BY <1>2, <2>1, <2>2, <2>3
<1>7. TypeOK'
  BY <1>2, <1>5, <1>6 DEF Call, client, PInv, TypeOK
<1>8. QueueRises'
  <2>1. /\ UNCHANGED <<version, latest>>
        /\ version \in Int /\ latest \in Int
        /\ \A i \in 1..Len(queue) : queue[i].ver \in Int
    BY Numbers DEF Call, PInv
  <2>2. \A i \in 1..Len(queue') : latest' <= queue'[i].ver /\ queue'[i].ver <= version'
    <3> SUFFICES ASSUME NEW i \in 1..Len(queue')
                 PROVE latest' <= queue'[i].ver /\ queue'[i].ver <= version'
      OBVIOUS
    <3>1. CASE i \in 1..Len(queue) /\ queue'[i] = queue[i]
      BY <2>1, <3>1 DEF PInv, QueueRises
    <3>2. CASE queue'[i] = call
      BY <1>1, <2>1, <3>2 DEF PInv, QueueRises
    <3> QED BY <1>2, <3>1, <3>2
  <2>3. ASSUME NEW i \in 1..Len(queue'), NEW j \in 1..Len(queue'), i < j
        PROVE queue'[i].ver <= queue'[j].ver
    <3>1. i \in 1..Len(queue) /\ queue'[i] = queue[i]
      BY <1>1, <1>2, <2>3
    <3>2. CASE j \in 1..Len(queue) /\ queue'[j] = queue[j]
      BY <2>3, <3>1, <3>2 DEF PInv, QueueRises
    <3>3. CASE queue'[j] = call
      BY <1>1, <3>1, <3>3 DEF PInv, QueueRises
    <3> QED BY <1>2, <3>2, <3>3
  <2> QED BY <2>1, <2>2, <2>3 DEF PInv, QueueRises
<1> QED BY <1>7, <1>8, FramesStay DEF Call, client, PInv

LEMMA AcquireInv ==
  ASSUME PInv, Acquire
  PROVE  PInv'
<1>1. /\ queue \in Seq(Pending) /\ queue # <<>> /\ queue' = Tail(queue)
      /\ latest' = queue[1].ver /\ Head(queue) = queue[1] /\ ~turn.on
      /\ UNCHANGED <<version, members, sock, chan, view, healthy>>
  BY DEF Acquire, client, PInv, TypeOK
<1>2. /\ queue' \in Seq(Pending) /\ Len(queue') = Len(queue) - 1
      /\ queue[1] \in Pending /\ 1 \in 1..Len(queue)
      /\ \A i \in 1..Len(queue') :
           i + 1 \in 1..Len(queue) /\ i + 1 # 1 /\ queue'[i] = queue[i + 1]
  BY <1>1
<1>3. turn' \in Turn /\ (turn'.on => turn'.who = queue[1].who)
  <2>1. queue[1].who \in Tasks
    BY <1>2 DEF Pending
  <2>2. CASE members = {}
    BY <2>2 DEF Acquire, NoTurn, Turn, Tasks
  <2>3. CASE members # {}
    <3>1. turn' = [on |-> TRUE, who |-> queue[1].who, to |-> members, dead |-> {}]
      BY <1>1, <2>3 DEF Acquire
    <3>2. members \in SUBSET Subscribers /\ {} \in SUBSET Subscribers /\ TRUE \in BOOLEAN
      BY DEF PInv, TypeOK
    <3>3. turn' \in Turn
      BY <2>1, <3>1, <3>2 DEF Turn
    <3> QED BY <3>1, <3>3
  <2> QED BY <2>2, <2>3
<1>4. \A i \in 1..Len(queue') : ~(turn'.on /\ queue'[i].who = turn'.who)
  <2> SUFFICES ASSUME NEW i \in 1..Len(queue'), turn'.on
               PROVE queue'[i].who # queue[1].who
    BY <1>3
  <2>1. i + 1 \in 1..Len(queue) /\ i + 1 # 1 /\ queue'[i] = queue[i + 1]
    BY <1>2
  <2> QED BY <1>2, <2>1 DEF PInv, TypeOK
<1>5. \A i, j \in 1..Len(queue') : i # j => queue'[i].who # queue'[j].who
  <2> SUFFICES ASSUME NEW i \in 1..Len(queue'), NEW j \in 1..Len(queue'), i # j
               PROVE queue'[i].who # queue'[j].who
    OBVIOUS
  <2>1. i + 1 \in 1..Len(queue) /\ j + 1 \in 1..Len(queue) /\ i + 1 # j + 1
    BY <1>2
  <2> QED BY <1>2, <2>1 DEF PInv, TypeOK
<1>6. latest' \in Frame
  BY <1>1, <1>2, FrameType DEF Pending
<1>7. TypeOK'
  BY <1>1, <1>2, <1>3, <1>4, <1>5, <1>6 DEF PInv, TypeOK
<1>8. QueueRises'
  <2>1. /\ version \in Int /\ version' = version
        /\ \A i \in 1..Len(queue) :
             /\ queue[i].ver \in Int
             /\ queue[1].ver <= queue[i].ver /\ queue[i].ver <= version
    BY <1>1, <1>2, Numbers DEF PInv, QueueRises
  <2>2. \A i \in 1..Len(queue') : latest' <= queue'[i].ver /\ queue'[i].ver <= version'
    BY <1>1, <1>2, <2>1
  <2>3. \A i, j \in 1..Len(queue') : i < j => queue'[i].ver <= queue'[j].ver
    BY <1>2 DEF PInv, QueueRises
  <2> QED BY <1>1, <1>2, <2>1, <2>2, <2>3 DEF QueueRises
<1>9. FramesRise'
  <2>1. latest <= latest' /\ latest' \in Int /\ latest \in Int
    BY <1>1, <1>2, Numbers DEF PInv, QueueRises
  <2> QED BY <1>1, <2>1, Numbers DEF PInv, FramesRise
<1> QED BY <1>7, <1>8, <1>9 DEF PInv

\* Sending to a subscriber appends the newest frame to its connection, or
\* finds it closed.
LEMMA SendInv ==
  ASSUME PInv, NEW c \in Subscribers, Send(c)
  PROVE  PInv'
<1>1. PICK dead \in SUBSET {c} : SendDone(c, dead)
  BY DEF Send, SendTo, SendTimesOut, SendFails
<1>2. turn' \in Turn /\ turn'.on = turn.on /\ turn'.who = turn.who
  BY <1>1 DEF SendDone, Turn, PInv, TypeOK
<1>3. UNCHANGED <<version, latest, members, queue, sock, view, healthy>>
  BY <1>1 DEF SendDone
<1>4. chan' = chan \/ chan' = [chan EXCEPT ![c] = Append(@, latest)]
  BY DEF Send, SendTo, SendTimesOut, SendFails
<1>5. chan' \in [Subscribers -> Seq(Frame)]
  <2>1. chan \in [Subscribers -> Seq(Frame)] /\ latest \in Frame
    BY DEF PInv, TypeOK
  <2>2. Append(chan[c], latest) \in Seq(Frame)
    BY <2>1
  <2> QED BY <1>4, <2>1, <2>2
<1>6. TypeOK'
  BY <1>2, <1>3, <1>5 DEF PInv, TypeOK
<1>7. QueueRises'
  BY <1>3, QueueStays DEF PInv
<1>8. CASE chan' = chan
  BY <1>3, <1>6, <1>7, <1>8, FramesStay DEF PInv
<1>9. CASE chan' = [chan EXCEPT ![c] = Append(@, latest)]
  <2> SUFFICES ASSUME NEW d \in Subscribers
               PROVE /\ view'[d] <= latest'
                     /\ \A i \in 1..Len(chan'[d]) :
                          view'[d] <= chan'[d][i] /\ chan'[d][i] <= latest'
                     /\ \A i, j \in 1..Len(chan'[d]) : i < j => chan'[d][i] <= chan'[d][j]
    BY <1>6, <1>7 DEF PInv, FramesRise
  <2>1. view[d] <= latest /\ latest \in Int /\ view[d] \in Int
    BY Numbers DEF PInv, FramesRise
  <2>2. CASE d # c
    BY <1>3, <1>9, <2>2 DEF PInv, FramesRise, TypeOK
  <2>3. CASE d = c
    <3>1. chan[c] \in Seq(Frame) /\ chan'[c] = Append(chan[c], latest)
      BY <1>9 DEF PInv, TypeOK
    <3>2. \A i \in 1..Len(chan'[c]) :
            \/ i \in 1..Len(chan[c]) /\ chan'[c][i] = chan[c][i]
            \/ i = Len(chan[c]) + 1 /\ chan'[c][i] = latest
      BY <3>1 DEF PInv, TypeOK
    <3>3. ASSUME NEW i \in 1..Len(chan'[c])
          PROVE view[c] <= chan'[c][i] /\ chan'[c][i] <= latest
      BY <2>1, <2>3, <3>2, <3>3 DEF PInv, FramesRise
    <3>4. ASSUME NEW i \in 1..Len(chan'[c]), NEW j \in 1..Len(chan'[c]), i < j
          PROVE chan'[c][i] <= chan'[c][j]
      <4>1. i \in 1..Len(chan[c]) /\ chan'[c][i] = chan[c][i]
        BY <3>1, <3>2, <3>4
      <4>2. CASE j \in 1..Len(chan[c]) /\ chan'[c][j] = chan[c][j]
        BY <3>4, <4>1, <4>2 DEF PInv, FramesRise
      <4>3. CASE chan'[c][j] = latest
        BY <3>3, <4>3, <3>4
      <4> QED BY <3>2, <4>2, <4>3
    <3> QED BY <1>3, <2>1, <2>3, <3>3, <3>4
  <2> QED BY <2>2, <2>3
<1> QED BY <1>4, <1>8, <1>9

LEMMA StoreInv ==
  ASSUME PInv, StoreChanges
  PROVE  PInv'
<1>1. version' \in Version /\ version' = version + 1 /\ UNCHANGED <<server, client>>
  <2>1. version \in 0..MaxVersion /\ version < MaxVersion /\ MaxVersion \in Nat
    BY PushAssumption DEF PushAssumption, StoreChanges, Version, PInv, TypeOK
  <2> QED BY <2>1 DEF StoreChanges, Version
<1>2. TypeOK'
  BY <1>1 DEF server, client, PInv, TypeOK
<1>3. QueueRises'
  BY <1>1, Numbers DEF server, PInv, QueueRises
<1> QED BY <1>1, <1>2, <1>3, FramesStay DEF server, client, PInv

LEMMA MembersInv ==
  ASSUME PInv, Finish \/ \E c \in Subscribers : HandlerEnds(c)
  PROVE  PInv'
<1>1. /\ UNCHANGED <<version, latest, queue, chan, view, healthy>>
      /\ members' \subseteq Subscribers
  BY DEF Finish, HandlerEnds, client, PInv, TypeOK
<1>2. sock' \in [Subscribers -> {"off", "open", "closing"}]
  BY DEF Finish, HandlerEnds, client, PInv, TypeOK
<1>3. turn' \in Turn /\ (turn'.on => turn' = turn)
  <2>1. NoTurn \in Turn /\ ~NoTurn.on
    BY DEF NoTurn, Turn, Tasks
  <2> QED BY <2>1 DEF Finish, HandlerEnds, PInv, TypeOK
<1>4. TypeOK'
  BY <1>1, <1>2, <1>3 DEF PInv, TypeOK
<1> QED BY <1>1, <1>4, FramesStay, QueueStays DEF PInv

LEMMA ConnectInv ==
  ASSUME PInv, NEW c \in Subscribers, Connect(c)
  PROVE  PInv'
<1>1. /\ UNCHANGED <<version, latest, queue, turn, view, healthy>>
      /\ members' \subseteq Subscribers
      /\ sock' \in [Subscribers -> {"off", "open", "closing"}]
      /\ chan' = [chan EXCEPT ![c] = <<latest>>]
  BY DEF Connect, PInv, TypeOK
<1>2. chan' \in [Subscribers -> Seq(Frame)]
  <2>1. <<latest>> \in Seq(Frame)
    BY DEF PInv, TypeOK
  <2> QED BY <1>1, <2>1 DEF PInv, TypeOK
<1>3. TypeOK'
  BY <1>1, <1>2 DEF PInv, TypeOK
<1>4. FramesRise'
  <2> SUFFICES ASSUME NEW d \in Subscribers
               PROVE /\ view[d] <= latest
                     /\ \A i \in 1..Len(chan'[d]) :
                          view[d] <= chan'[d][i] /\ chan'[d][i] <= latest
                     /\ \A i, j \in 1..Len(chan'[d]) : i < j => chan'[d][i] <= chan'[d][j]
    BY <1>1 DEF FramesRise
  <2>1. CASE d # c
    BY <1>1, <2>1 DEF PInv, FramesRise, TypeOK
  <2>2. CASE d = c
    <3>1. chan'[d] = <<latest>>
      BY <1>1, <2>2 DEF PInv, TypeOK
    <3> QED BY <3>1, Numbers DEF PInv, FramesRise
  <2> QED BY <2>1, <2>2
<1> QED BY <1>1, <1>3, <1>4, QueueStays DEF PInv

LEMMA DropsInv ==
  ASSUME PInv, NEW c \in Subscribers, ConnectFails(c) \/ Drops(c) \/ Refresh(c)
  PROVE  PInv'
<1>1. UNCHANGED <<version, latest, members, queue, turn, view>>
  BY DEF ConnectFails, Drops, Refresh, server
<1>2. healthy' \in [Subscribers -> BOOLEAN]
  BY DEF ConnectFails, Drops, Refresh, Error, PInv, TypeOK
<1>3. sock' \in [Subscribers -> {"off", "open", "closing"}]
  BY DEF ConnectFails, Drops, Refresh, PInv, TypeOK
<1>4. chan' = chan \/ chan' = [chan EXCEPT ![c] = <<>>]
  BY DEF ConnectFails, Drops, Refresh
<1>5. chan' \in [Subscribers -> Seq(Frame)]
  <2>1. <<>> \in Seq(Frame)
    OBVIOUS
  <2> QED BY <1>4, <2>1 DEF PInv, TypeOK
<1>6. TypeOK'
  BY <1>1, <1>2, <1>3, <1>5 DEF PInv, TypeOK
<1>7. \A d \in Subscribers : chan'[d] = chan[d] \/ chan'[d] = <<>>
  BY <1>4 DEF PInv, TypeOK
<1>8. FramesRise'
  BY <1>1, <1>7 DEF PInv, FramesRise
<1> QED BY <1>1, <1>6, <1>8, QueueStays DEF PInv

\* A subscriber shows the oldest frame it has not seen.
LEMMA ReceiveInv ==
  ASSUME PInv, NEW c \in Subscribers, Receive(c)
  PROVE  PInv' /\ \A d \in Subscribers : view'[d] >= view[d]
<1> DEFINE s == chan[c]
<1>1. /\ UNCHANGED <<version, latest, members, queue, turn, sock>>
      /\ chan' = [chan EXCEPT ![c] = Tail(s)]
  BY DEF Receive, server
<1>2. s \in Seq(Frame) /\ s # <<>> /\ 1 \in 1..Len(s) /\ Head(s) = s[1] /\ s[1] \in Frame
  BY DEF Receive, PInv, TypeOK
<1>3. /\ Tail(s) \in Seq(Frame)
      /\ \A i \in 1..Len(Tail(s)) : i + 1 \in 1..Len(s) /\ Tail(s)[i] = s[i + 1]
  BY <1>2
<1>4. view' = view \/ view' = [view EXCEPT ![c] = s[1]]
  BY <1>2 DEF Receive
<1>5. view[c] <= s[1] /\ s[1] <= latest
  BY <1>2 DEF PInv, FramesRise
<1>6. chan' \in [Subscribers -> Seq(Frame)] /\ view' \in [Subscribers -> Frame]
  BY <1>1, <1>2, <1>3, <1>4 DEF PInv, TypeOK
<1>7. healthy' \in [Subscribers -> BOOLEAN]
  BY DEF Receive, PInv, TypeOK
<1>8. TypeOK'
  BY <1>1, <1>6, <1>7 DEF PInv, TypeOK
<1>9. ASSUME NEW d \in Subscribers PROVE view'[d] >= view[d]
  <2>1. view[d] \in Int /\ (view'[d] = view[d] \/ (d = c /\ view'[d] = s[1]))
    BY <1>4, Numbers DEF PInv, TypeOK
  <2>2. s[1] \in Int
    BY <1>2, FrameType
  <2> QED BY <1>5, <2>1, <2>2
<1>10. FramesRise'
  <2> SUFFICES ASSUME NEW d \in Subscribers
               PROVE /\ view'[d] <= latest
                     /\ \A i \in 1..Len(chan'[d]) :
                          view'[d] <= chan'[d][i] /\ chan'[d][i] <= latest
                     /\ \A i, j \in 1..Len(chan'[d]) : i < j => chan'[d][i] <= chan'[d][j]
    BY <1>1 DEF FramesRise
  <2>1. CASE d # c
    BY <1>1, <1>4, <2>1 DEF PInv, FramesRise, TypeOK
  <2>2. CASE d = c
    <3>1. chan'[d] = Tail(s)
      BY <1>1, <2>2 DEF PInv, TypeOK
    <3>2. view'[d] = view[d] \/ view'[d] = s[1]
      BY <1>4, <2>2 DEF PInv, TypeOK
    <3>3. \A i \in 1..Len(s) :
            s[i] \in Int /\ s[1] <= s[i] /\ view[c] <= s[i] /\ s[i] <= latest
      BY <1>2, Numbers DEF PInv, FramesRise
    <3>4. \A i, j \in 1..Len(s) : i < j => s[i] <= s[j]
      BY DEF PInv, FramesRise
    <3> HIDE DEF s
    <3>5. view'[d] <= latest
      BY <1>5, <2>2, <3>2 DEF PInv, FramesRise
    <3>6. \A i \in 1..Len(chan'[d]) : view'[d] <= chan'[d][i] /\ chan'[d][i] <= latest
      BY <1>3, <2>2, <3>1, <3>2, <3>3
    <3>7. \A i, j \in 1..Len(chan'[d]) : i < j => chan'[d][i] <= chan'[d][j]
      BY <1>2, <1>3, <3>1, <3>4
    <3> QED BY <3>5, <3>6, <3>7
  <2> QED BY <2>1, <2>2
<1> QED BY <1>1, <1>8, <1>9, <1>10, QueueStays DEF PInv

LEMMA PushStep == PInv /\ [Next]_vars => PInv'
<1> SUFFICES ASSUME PInv, [Next]_vars PROVE PInv'
  OBVIOUS
<1>1. CASE UNCHANGED vars
  <2>1. TypeOK'
    BY <1>1 DEF vars, PInv, TypeOK
  <2> QED BY <1>1, <2>1, FramesStay, QueueStays DEF vars, PInv
<1>2. CASE \E t \in Handlers : CommandBroadcasts(t)
  BY <1>2, CallInv DEF CommandBroadcasts, Tasks
<1>3. CASE PollBroadcasts
  BY <1>3, CallInv DEF PollBroadcasts, Tasks
<1> QED
  BY <1>1, <1>2, <1>3, StoreInv, AcquireInv, SendInv, MembersInv, ConnectInv,
     DropsInv, ReceiveInv DEF Next, Subscriber

LEMMA PushInvariant == Spec => []PInv
BY PushInit, PushStep, PTL DEF Spec

-----------------------------------------------------------------------------
(* What follows for the integrations.                                       *)

(* A task has at most one broadcast under way, and what the server, its      *)
(* connections and the integrations hold is a snapshot (push_server.py).    *)
THEOREM PushTypeCorrect == Spec => []TypeOK
BY PushInvariant, PTL DEF PInv

(* What an integration shows never goes back to an older state, however the  *)
(* broadcasts of the poll loop and of the commands, their timeouts and the   *)
(* reconnects interleave (push_server.py, broadcast).                       *)
THEOREM ViewTheorem == Spec => ViewNeverGoesBack
<1>1. PInv /\ [Next]_vars => [\A c \in Subscribers : view'[c] >= view[c]]_view
  <2> SUFFICES ASSUME PInv, Next, view' # view
               PROVE \A c \in Subscribers : view'[c] >= view[c]
    BY DEF vars
  <2>1. PICK c \in Subscribers : Receive(c)
    BY DEF Next, StoreChanges, PollBroadcasts, Acquire, Finish, CommandBroadcasts, Call,
       Send, SendTo, SendTimesOut, SendFails, SendDone, HandlerEnds, Subscriber, Connect,
       ConnectFails, Drops, Refresh, client
  <2> QED BY <2>1, ReceiveInv
<1> QED BY <1>1, PushInvariant, PTL DEF Spec, ViewNeverGoesBack

(* Only the operator's refresh shows an integration that is not connected as *)
(* available; no drop, late frame or failed attempt does (push_client.py).  *)
THEOREM UnconnectedTheorem == Spec => UnconnectedIsNotShown
<1> DEFINE Hidden(c) ==
      sock'[c] # "open" /\ Shown(c)' => sock[c] # "open" /\ (Shown(c) \/ Refresh(c))
<1>1. ASSUME PInv, Next, NEW c \in Subscribers PROVE Hidden(c)
  <2>1. /\ sock \in [Subscribers -> {"off", "open", "closing"}]
        /\ healthy \in [Subscribers -> BOOLEAN] /\ view \in [Subscribers -> Frame]
    BY <1>1 DEF PInv, TypeOK
  <2>2. CASE UNCHANGED <<sock, view, healthy>>
    BY <2>2 DEF Shown
  <2>3. CASE \E d \in Subscribers : HandlerEnds(d)
    BY <2>1, <2>3 DEF HandlerEnds, Shown
  <2>4. CASE \E d \in Subscribers : Connect(d)
    BY <2>1, <2>4 DEF Connect, Shown
  <2>5. CASE \E d \in Subscribers : ConnectFails(d) \/ Drops(d)
    BY <2>1, <2>5 DEF ConnectFails, Drops, Error, Shown
  <2>6. CASE \E d \in Subscribers : Receive(d)
    BY <2>1, <2>6 DEF Receive, Shown
  <2>7. CASE \E d \in Subscribers : Refresh(d)
    BY <2>1, <2>7 DEF Refresh, Shown
  <2> QED
    BY <1>1, <2>2, <2>3, <2>4, <2>5, <2>6, <2>7 DEF Next, StoreChanges, PollBroadcasts,
       Acquire, Finish, CommandBroadcasts, Call, Send, SendTo, SendTimesOut,
       SendFails, SendDone, Subscriber, client
<1>2. PInv /\ [Next]_vars => [\A c \in Subscribers : Hidden(c)]_vars
  BY <1>1
<1> QED BY <1>2, PushInvariant, PTL DEF Spec, UnconnectedIsNotShown

-----------------------------------------------------------------------------
(* What a subscriber that is served will have read.                         *)

\* The state a subscriber shows when it has read what it was sent.
Coming(c) == IF chan[c] = <<>> THEN view[c] ELSE chan[c][Len(chan[c])]

(* "streams ... the full device state to every connected client": a          *)
(* subscriber the server serves, and that the broadcast under way has been   *)
(* to, shows the last snapshot broadcast once it has read its frames, even   *)
(* when it connected in the middle of a broadcast or after the last one.     *)
ServedIsCurrent ==
  \A c \in members : sock[c] = "open" /\ c \notin turn.to => Coming(c) = latest

\* A broadcast is to members only, and to nobody when none is under way.
TurnOfMembers ==
  /\ turn.to \subseteq Subscribers
  /\ ~turn.on => turn.to = {}

SInv == PInv /\ TurnOfMembers /\ ServedIsCurrent

\* A step that leaves these alone changes nothing of it.
LEMMA CurrentStays ==
  ASSUME SInv, PInv', UNCHANGED <<latest, members, turn, sock, chan, view>>
  PROVE  SInv'
BY DEF SInv, TurnOfMembers, ServedIsCurrent, Coming

LEMMA CurrentAcquire ==
  ASSUME SInv, PInv', Acquire
  PROVE  SInv'
<1>1. UNCHANGED <<members, sock, chan, view>>
  BY DEF Acquire, client
<1>2. TurnOfMembers'
  BY DEF Acquire, NoTurn, TurnOfMembers, SInv, PInv, TypeOK
<1>3. \A c \in members : c \in turn'.to
  BY DEF Acquire
<1>4. ServedIsCurrent'
  BY <1>1, <1>3 DEF ServedIsCurrent
<1> QED BY <1>2, <1>4 DEF SInv

LEMMA CurrentFinish ==
  ASSUME SInv, PInv', Finish
  PROVE  SInv'
<1>1. /\ UNCHANGED <<latest, sock, chan, view>>
      /\ members' \subseteq members /\ turn.to = {} /\ turn'.to = {}
  BY DEF Finish, client, NoTurn
<1>2. ServedIsCurrent'
  BY <1>1 DEF SInv, ServedIsCurrent, Coming
<1> QED BY <1>1, <1>2 DEF SInv, TurnOfMembers

\* The frame appended is the newest; a closed connection is not served.
LEMMA CurrentSend ==
  ASSUME SInv, PInv', NEW c \in Subscribers, Send(c)
  PROVE  SInv'
<1>1. PICK dead \in SUBSET {c} : SendDone(c, dead)
  BY DEF Send, SendTo, SendTimesOut, SendFails
<1>2. /\ UNCHANGED <<latest, members, sock, view>>
      /\ turn'.to = turn.to \ {c} /\ turn'.on = turn.on
  BY <1>1 DEF SendDone, Turn, SInv, PInv, TypeOK
<1>3. ASSUME sock[c] = "open"
      PROVE  chan' = [chan EXCEPT ![c] = Append(@, latest)]
  BY <1>3 DEF Send, SendTo, SendTimesOut, SendFails
<1>4. ASSUME NEW d \in members', sock'[d] = "open", d \notin turn'.to
      PROVE  Coming(d)' = latest'
  <2>1. d \in Subscribers /\ d \in members /\ sock[d] = "open"
    BY <1>2, <1>4 DEF SInv, PInv, TypeOK
  <2>2. CASE d = c
    <3>1. chan[c] \in Seq(Frame) /\ chan'[c] = Append(chan[c], latest)
      BY <1>3, <2>1, <2>2 DEF SInv, PInv, TypeOK
    <3>2. chan'[c] # <<>> /\ chan'[c][Len(chan'[c])] = latest
      BY <3>1
    <3> QED BY <1>2, <2>2, <3>2 DEF Coming
  <2>3. CASE d # c
    <3>1. chan'[d] = chan[d]
      BY <2>1, <2>3 DEF Send, SendTo, SendTimesOut, SendFails, SInv, PInv, TypeOK
    <3>2. d \notin turn.to
      BY <1>2, <1>4, <2>3
    <3> QED BY <1>2, <2>1, <3>1, <3>2 DEF SInv, ServedIsCurrent, Coming
  <2> QED BY <2>2, <2>3
<1>5. ServedIsCurrent'
  BY <1>4 DEF ServedIsCurrent
<1>6. TurnOfMembers'
  BY <1>2 DEF SInv, TurnOfMembers
<1> QED BY <1>5, <1>6 DEF SInv

\* A connection starts with the last snapshot, or is not served any more.
LEMMA CurrentConnection ==
  ASSUME SInv, PInv', NEW c \in Subscribers, Connect(c) \/ Drops(c) \/ HandlerEnds(c)
  PROVE  SInv'
<1>1. UNCHANGED <<latest, turn, view>> /\ members' \subseteq members \cup {c}
  BY DEF Connect, Drops, HandlerEnds, server
<1>2. \A d \in Subscribers :
        d # c => sock'[d] = sock[d] /\ chan'[d] = chan[d]
  BY DEF Connect, Drops, HandlerEnds, SInv, PInv, TypeOK
<1>3. sock'[c] = "open" => chan'[c] = <<latest>>
  BY DEF Connect, Drops, HandlerEnds, SInv, PInv, TypeOK
<1>4. ASSUME NEW d \in members', sock'[d] = "open", d \notin turn'.to
      PROVE  Coming(d)' = latest'
  <2>1. CASE d = c
    <3>1. chan'[c] = <<latest>>
      BY <1>3, <1>4, <2>1
    <3>2. chan'[c] # <<>> /\ chan'[c][Len(chan'[c])] = latest
      BY <3>1
    <3> QED BY <1>1, <2>1, <3>2 DEF Coming
  <2>2. CASE d # c
    <3>1. d \in Subscribers /\ d \in members
      BY <1>1, <1>4, <2>2 DEF SInv, PInv, TypeOK
    <3> QED BY <1>1, <1>2, <1>4, <2>2, <3>1 DEF SInv, ServedIsCurrent, Coming
  <2> QED BY <2>1, <2>2
<1>5. ServedIsCurrent'
  BY <1>4 DEF ServedIsCurrent
<1> QED BY <1>1, <1>5 DEF SInv, TurnOfMembers

\* What is left of a sequence ends as it did.
LEMMA TailLast ==
  ASSUME NEW S, NEW s \in Seq(S), s # <<>>
  PROVE  /\ Len(s) = 1 => Tail(s) = <<>>
         /\ Len(s) # 1 => Tail(s) # <<>> /\ Tail(s)[Len(Tail(s))] = s[Len(s)]
<1>1. Len(s) \in Nat /\ Len(s) > 0 /\ Tail(s) \in Seq(S) /\ Len(Tail(s)) = Len(s) - 1
  OBVIOUS
<1>2. Len(s) = 1 => Tail(s) = <<>>
  <2>1. Len(s) = 1 => Len(Tail(s)) = 0
    BY <1>1
  <2>2. \A t \in Seq(S) : Len(t) = 0 => t = <<>>
    OBVIOUS
  <2> QED BY <1>1, <2>1, <2>2
<1>3. ASSUME Len(s) # 1
      PROVE  Tail(s) # <<>> /\ Tail(s)[Len(Tail(s))] = s[Len(s)]
  <2>1. Len(s) - 1 \in 1..(Len(s) - 1)
    BY <1>1, <1>3
  <2>2. \A i \in 1..(Len(s) - 1) : Tail(s)[i] = s[i + 1]
    OBVIOUS
  <2>3. Tail(s)[Len(s) - 1] = s[Len(s)]
    BY <1>1, <2>1, <2>2
  <2>4. Tail(s) # <<>>
    <3>1. Len(Tail(s)) # Len(<<>>)
      BY <1>1, <1>3
    <3> QED BY <3>1
  <2> QED BY <1>1, <2>3, <2>4
<1> QED BY <1>2, <1>3

\* The newest frame is the last one read; when nothing was broadcast yet that
\* is no state, and the subscriber shows none.
LEMMA CurrentReceive ==
  ASSUME SInv, PInv', NEW c \in Subscribers, Receive(c)
  PROVE  SInv'
<1> DEFINE s == chan[c]
<1>1. /\ UNCHANGED <<latest, members, turn, sock>>
      /\ chan' = [chan EXCEPT ![c] = Tail(s)]
      /\ IF s[1] = NoFrame THEN view' = view ELSE view' = [view EXCEPT ![c] = s[1]]
  BY DEF Receive, server, SInv, PInv, TypeOK
<1>2. s \in Seq(Frame) /\ s # <<>> /\ 1 \in 1..Len(s)
  BY DEF Receive, SInv, PInv, TypeOK
<1>3. ASSUME Coming(c) = latest PROVE Coming(c)' = latest
  <2>1. s[Len(s)] = latest /\ chan'[c] = Tail(s)
    BY <1>1, <1>2, <1>3 DEF Coming, SInv, PInv, TypeOK
  <2>2. CASE Len(s) = 1
    <3>1. chan'[c] = <<>> /\ s[1] = latest
      BY <1>2, <2>1, <2>2, TailLast
    <3>2. CASE s[1] # NoFrame
      <4>1. view'[c] = latest
        BY <1>1, <3>1, <3>2 DEF SInv, PInv, TypeOK
      <4> QED BY <3>1, <4>1 DEF Coming
    <3>3. CASE s[1] = NoFrame
      <4>1. view[c] <= NoFrame /\ view[c] \in Frame
        BY <3>1, <3>3 DEF SInv, PInv, FramesRise, TypeOK
      <4>2. view[c] = NoFrame
        BY <4>1, PushAssumption DEF PushAssumption, Frame, Version, NoFrame
      <4> QED BY <1>1, <3>1, <3>3, <4>2 DEF Coming
    <3> QED BY <3>2, <3>3
  <2>3. CASE Len(s) # 1
    <3>1. Tail(s) # <<>> /\ Tail(s)[Len(Tail(s))] = s[Len(s)]
      BY <1>2, <2>3, TailLast
    <3> QED BY <2>1, <3>1 DEF Coming
  <2> QED BY <2>2, <2>3
<1>4. ASSUME NEW d \in Subscribers, d # c PROVE Coming(d)' = Coming(d)
  <2>1. chan'[d] = chan[d] /\ view'[d] = view[d]
    BY <1>1, <1>4 DEF SInv, PInv, TypeOK
  <2> QED BY <2>1 DEF Coming
<1>5. members \subseteq Subscribers
  BY DEF SInv, PInv, TypeOK
<1>6. ServedIsCurrent'
  BY <1>1, <1>3, <1>4, <1>5 DEF SInv, ServedIsCurrent
<1> QED BY <1>1, <1>6 DEF SInv, TurnOfMembers

LEMMA CurrentStep == SInv /\ [Next]_vars => SInv'
<1> SUFFICES ASSUME SInv, [Next]_vars PROVE SInv'
  OBVIOUS
<1>1. PInv'
  BY PushStep DEF SInv
<1>2. CASE UNCHANGED <<latest, members, turn, sock, chan, view>>
  BY <1>1, <1>2, CurrentStays
<1>3. CASE Acquire
  BY <1>1, <1>3, CurrentAcquire
<1>4. CASE Finish
  BY <1>1, <1>4, CurrentFinish
<1>5. CASE \E c \in Subscribers : Send(c)
  BY <1>1, <1>5, CurrentSend
<1>6. CASE \E c \in Subscribers : Connect(c) \/ Drops(c) \/ HandlerEnds(c)
  BY <1>1, <1>6, CurrentConnection
<1>7. CASE \E c \in Subscribers : Receive(c)
  BY <1>1, <1>7, CurrentReceive
<1>8. CASE \E c \in Subscribers : ConnectFails(c) \/ Refresh(c)
  BY <1>2, <1>8 DEF ConnectFails, Refresh, server
<1>9. CASE StoreChanges \/ PollBroadcasts \/ \E t \in Handlers : CommandBroadcasts(t)
  BY <1>2, <1>9 DEF StoreChanges, PollBroadcasts, CommandBroadcasts, Call, server, client
<1>10. CASE UNCHANGED vars
  BY <1>2, <1>10 DEF vars
<1> QED
  BY <1>3, <1>4, <1>5, <1>6, <1>7, <1>8, <1>9, <1>10 DEF Next, Subscriber

(* A subscriber that is served never waits for a frame nobody will send it:  *)
(* whichever way broadcasts, timeouts, joins and drops interleave, the last  *)
(* snapshot broadcast is on its way or shown (push_server.py, _handler).     *)
THEOREM ServedTheorem == Spec => []ServedIsCurrent
<1>1. Init => SInv
  BY PushInit DEF Init, SInv, TurnOfMembers, ServedIsCurrent, NoTurn
<1> QED BY <1>1, CurrentStep, PTL DEF Spec, SInv

=============================================================================
