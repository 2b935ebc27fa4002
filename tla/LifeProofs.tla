----------------------------- MODULE LifeProofs -----------------------------
(***************************************************************************)
(* What is proved of the two lives that end and begin again: the daemon's, *)
(* with the availability topic, for any machine memory, grace and LAN       *)
(* clients; and the config entry's, for any number of generations and      *)
(* requests and any options.                                               *)
(***************************************************************************)
EXTENDS DaemonLife, EntryLife, TLAPS

-----------------------------------------------------------------------------
(* The daemon.                                                              *)

(* What makes the topic true: a verdict can only have been told on a session *)
(* that is open, and the will of one that ended is out of the way by then.   *)
ToldStands ==
  told => session = "open" /\ topic = lastPub /\ lastPub = Word(Available(store))

NoGhostWhileLinked == Linked => ~ghost

(* Every stop goes through the clean-up; nothing runs without the daemon.    *)
CleansWhileStopping == proc = "stopping" => cleaning \in 1..Len(Cleanup)
GoneIsUnlinked == ~Alive => session = "none"

(* While nothing is being cleaned up, "online" has somebody behind it: a      *)
(* connection whose will is set, or the will of one that ended.             *)
OnlineIsBacked == topic = "online" /\ cleaning = 0 => ghost \/ Linked

DInv ==
  /\ DaemonTypeOK /\ ToldStands /\ NoGhostWhileLinked /\ CleansWhileStopping /\ GoneIsUnlinked
  /\ OnlineIsBacked

-----------------------------------------------------------------------------
(* The store's operators, and what the mirror makes of them.                *)

LEMMA BlockType == [a \in Addr |-> CHOOSE b \in Byte : TRUE] \in Block
<1>1. (CHOOSE b \in Byte : TRUE) \in Byte
  BY DaemonAssumption DEF DaemonAssumption
<1> QED BY <1>1 DEF Block

LEMMA StoreSteps ==
  ASSUME NEW s \in StoreType
  PROVE  /\ UpdateSettings(s, [a \in Addr |-> CHOOSE b \in Byte : TRUE]) \in StoreType
         /\ NoteSuccess(s) \in StoreType
         /\ NoteFailure(s) \in StoreType
         /\ NoteWedged(s) \in StoreType
<1>1. /\ 0 \in 0..AvailabilityGrace /\ AvailabilityGrace \in 0..AvailabilityGrace
      /\ AvailabilityGrace \in Nat
  BY StoreAssumption DEF StoreAssumption
<1>2. NoteSuccess(s) \in StoreType /\ NoteWedged(s) \in StoreType
  BY <1>1 DEF NoteSuccess, NoteWedged, StoreType
<1>3. NoteFailure(s) \in StoreType
  <2>1. CASE s.failStreak + 1 >= AvailabilityGrace
    BY <1>1, <2>1 DEF NoteFailure, StoreType
  <2>2. CASE ~(s.failStreak + 1 >= AvailabilityGrace)
    <3>1. s.failStreak + 1 \in 0..AvailabilityGrace
      BY <1>1, <2>2 DEF StoreType
    <3> QED BY <2>2, <3>1 DEF NoteFailure, StoreType
  <2> QED BY <2>1, <2>2
<1>4. ASSUME NEW block \in Block PROVE UpdateSettings(s, block) \in StoreType
  <2>1. Overlay(s.pending, block) \in Block
    BY DEF StoreType, Partial, Overlay, Block
  <2> QED BY <2>1 DEF UpdateSettings, StoreType
<1> QED BY <1>2, <1>3, <1>4, BlockType

\* A verdict that is not announced is the one announced last.
LEMMA StoreChangesInv ==
  ASSUME DInv, UNCHANGED waits, StoreChanges
  PROVE  DInv'
<1>1. PICK s \in StoreType :
        Notifies(s) \/ (Silent(s) /\ s.available = store.available)
  BY StoreSteps DEF DInv, DaemonTypeOK, StoreChanges, ReadsSettings, Verdict
<1>2. CASE Notifies(s)
  <2>1. store' \in StoreType /\ lastPub' \in {"online", "offline"}
        /\ lastPub' = Word(Available(store'))
    BY <1>1, <1>2 DEF Notifies, Word
  <2>2. topic' \in {"none", "online", "offline"} /\ told' \in BOOLEAN
    BY <1>2, <2>1 DEF Notifies, DInv, DaemonTypeOK, Publishes
  <2>3. DaemonTypeOK'
    BY <1>2, <2>1, <2>2 DEF Notifies, DInv, DaemonTypeOK, StoreChanges, procVars
  <2>4. ToldStands'
    BY <1>2, <2>1 DEF Notifies, Publishes, Linked, DInv, ToldStands, DaemonTypeOK
  <2> QED
    BY <1>2, <2>3, <2>4 DEF Notifies, Publishes, StoreChanges, procVars, DInv,
       NoGhostWhileLinked, Linked, CleansWhileStopping, GoneIsUnlinked, Alive,
       OnlineIsBacked
<1>3. CASE Silent(s) /\ s.available = store.available
  <2>1. Available(store') = Available(store) /\ store' \in StoreType
    BY <1>3 DEF Silent, Available
  <2> QED
    BY <1>3, <2>1 DEF Silent, mqttVars, StoreChanges, procVars, DInv, DaemonTypeOK,
       ToldStands, NoGhostWhileLinked, Linked, CleansWhileStopping, GoneIsUnlinked,
       Alive, OnlineIsBacked
<1> QED BY <1>1, <1>2, <1>3

LEMMA EmptyStoreType == EmptyStore \in StoreType
<1>1. 0 \in 0..AvailabilityGrace
  BY StoreAssumption DEF StoreAssumption
<1> QED BY <1>1 DEF EmptyStore, StoreType, Nothing, Partial

LEMMA CleanupLength == Len(Cleanup) = 5 /\ 1 \in 1..Len(Cleanup) /\ 0 \in 0..Len(Cleanup)
BY DEF Cleanup

LEMMA DaemonStarts == DaemonInit => DInv
BY EmptyStoreType, CleanupLength DEF DaemonInit, DInv, DaemonTypeOK, ToldStands, NoGhostWhileLinked,
   Linked, CleansWhileStopping, GoneIsUnlinked, Alive, OnlineIsBacked

-----------------------------------------------------------------------------
(* The session and the process.                                             *)

LEMMA SessionInv ==
  ASSUME DInv, UNCHANGED waits, WillFires \/ ConnectionLost \/ Reconnects \/ OnConnect
  PROVE  DInv'
<1> USE DEF procVars, DInv, DaemonTypeOK, ToldStands, NoGhostWhileLinked, Linked,
      CleansWhileStopping, GoneIsUnlinked, Alive, OnlineIsBacked
<1>1. CASE WillFires
  BY <1>1 DEF WillFires
<1>2. CASE ConnectionLost
  BY <1>2 DEF ConnectionLost, LeavesWill
<1>3. CASE Reconnects
  BY <1>3 DEF Reconnects, TakesOver
<1>4. CASE OnConnect
  BY <1>4 DEF OnConnect
<1> QED BY <1>1, <1>2, <1>3, <1>4

LEMMA StartsInv ==
  ASSUME DInv, UNCHANGED waits, Restarts \/ Comes
  PROVE  DInv'
BY EmptyStoreType, CleanupLength DEF Restarts, Comes, Starts, TakesOver, DInv, DaemonTypeOK,
   ToldStands, NoGhostWhileLinked, Linked, CleansWhileStopping, GoneIsUnlinked, Alive,
   OnlineIsBacked

LEMMA StopsInv ==
  ASSUME DInv, UNCHANGED waits, TaskRaises \/ SignalComes \/ CleansUp
  PROVE  DInv'
<1> USE CleanupLength DEF DInv
<1>1. CASE TaskRaises \/ SignalComes
  BY <1>1 DEF TaskRaises, SignalComes, Stopping, mqttVars, DaemonTypeOK, ToldStands,
     NoGhostWhileLinked, Linked, CleansWhileStopping, GoneIsUnlinked, Alive,
     OnlineIsBacked
<1>2. CASE CleansUp
  <2>1. cleaning' \in 1..Len(Cleanup)
    BY <1>2 DEF CleansUp, DaemonTypeOK
  <2>2. /\ told' \in BOOLEAN /\ topic' \in {"none", "online", "offline"}
        /\ told' => told /\ topic' = topic
    BY <1>2 DEF CleansUp, Publishes, DaemonTypeOK
  <2> QED
    BY <1>2, <2>1, <2>2 DEF CleansUp, DaemonTypeOK, ToldStands, NoGhostWhileLinked, Linked,
       CleansWhileStopping, GoneIsUnlinked, Alive, OnlineIsBacked
<1> QED BY <1>1, <1>2

LEMMA EndsInv ==
  ASSUME DInv, UNCHANGED waits, Exits \/ Killed \/ PowerLost \/ StopTimesOut \/ SignalAborts
  PROVE  DInv'
<1> USE CleanupLength DEF DInv, DaemonTypeOK, ToldStands, NoGhostWhileLinked, Linked,
      CleansWhileStopping, GoneIsUnlinked, Alive, OnlineIsBacked
<1>1. CASE Exits
  <2>1. cleaning # 0 /\ proc' \in {"stopped", "exited"}
    BY <1>1 DEF Exits
  <2> QED BY <1>1, <2>1 DEF Exits
<1>2. CASE ~Exits
  <2>1. PICK p \in {"exited", "dead", "stopped"} : Gone(p)
    BY <1>2 DEF Killed, PowerLost, StopTimesOut, SignalAborts
  <2> QED BY <2>1 DEF Gone, LeavesWill
<1> QED BY <1>1, <1>2

LEMMA LanInv ==
  ASSUME DInv, UNCHANGED waits, NEW c \in LanClients, LanJoins(c) \/ LanLeaves(c)
  PROVE  DInv'
BY DEF LanJoins, LanLeaves, mqttVars, DInv, DaemonTypeOK, ToldStands, NoGhostWhileLinked,
   Linked, CleansWhileStopping, GoneIsUnlinked, Alive, OnlineIsBacked

LEMMA DaemonInvariant == DaemonSpec => []DInv
<1>1. DInv /\ [DaemonNext]_daemonVars => DInv'
  <2> SUFFICES ASSUME DInv, [DaemonNext]_daemonVars PROVE DInv'
    OBVIOUS
  <2>1. CASE UNCHANGED daemonVars
    BY <2>1 DEF daemonVars, works, procVars, mqttVars, DInv, DaemonTypeOK, ToldStands,
       NoGhostWhileLinked, Linked, CleansWhileStopping, GoneIsUnlinked, Alive,
       OnlineIsBacked
  <2> QED
    BY <2>1, StoreChangesInv, SessionInv, StartsInv, StopsInv, EndsInv, LanInv DEF DaemonNext
<1> QED BY <1>1, DaemonStarts, PTL DEF DaemonSpec

-----------------------------------------------------------------------------
(* What follows for the daemon.                                             *)

(* The daemon is in a step of its clean-up or in none, and what it says of   *)
(* itself over MQTT is one of the two words (broker.py, run; mqtt_bridge.py). *)
THEOREM DaemonTypeCorrect == DaemonSpec => []DaemonTypeOK
BY DaemonInvariant, PTL DEF DInv

(* Once a verdict has been published on an MQTT session, the retained topic  *)
(* says what the store says for as long as that session lasts: neither the   *)
(* "online" of on_connect nor an earlier session's will comes after it.     *)
THEOREM SameSessionTheorem == DaemonSpec => []SameSessionTruth
<1>1. DInv => SameSessionTruth
  BY DEF DInv, ToldStands, SameSessionTruth
<1> QED BY <1>1, DaemonInvariant, PTL

(* A daemon that dies while it runs leaves "online" in the topic only if the *)
(* server still holds a will that will replace it (mqtt_bridge.py, will_set). *)
THEOREM DeadHasWillTheorem ==
  DaemonSpec => [](proc = "dead" /\ cleaning = 0 /\ topic = "online" => ghost)
<1>1. DInv => (proc = "dead" /\ cleaning = 0 /\ topic = "online" => ghost)
  BY DEF DInv, OnlineIsBacked, GoneIsUnlinked, Alive, Linked
<1> QED BY <1>1, DaemonInvariant, PTL

-----------------------------------------------------------------------------
(* The entry.                                                               *)

(* Only a request keeps its client at work.                                  *)
IdleWithoutRequests == \A g \in Generation : gens[g].tasks = <<>> => gens[g].at = "idle"

(* A set-up runs nothing yet but the first refresh; the stream starts with   *)
(* the platforms, the timers after them.                                    *)
SetUpHoldsBack ==
  /\ entry \in Steps => Me.timers = {}
  /\ entry = "refreshing" =>
       ~Me.stream /\ Me.tasks = (IF set.push THEN <<>> ELSE <<"refresh">>)

(* The client is closed last: by then stream and timers have been stopped.   *)
ClosesLast == entry = "closing" => ~Me.stream /\ Me.timers = {}

(* A set-up under way uses what is in effect, or has missed a change of it.  *)
SetUpIsCurrent == entry \in Steps => set = InEffect \/ missed

EInv ==
  /\ TypeOK
  /\ IdleWithoutRequests /\ SetUpHoldsBack /\ ClosesLast /\ OverIsQuiet
  /\ SetUpIsCurrent /\ LoadedIsCurrent

-----------------------------------------------------------------------------
(* Operators on a generation's objects and requests.                        *)

\* Cancelling the refresh takes requests away and adds none.
LEMMA WithoutRefreshParts ==
  ASSUME NEW s \in Seq(Requests)
  PROVE  /\ WithoutRefresh(s) \in Seq(Requests) /\ Len(WithoutRefresh(s)) <= Len(s)
         /\ s = <<>> => WithoutRefresh(s) = <<>>
         /\ s # <<>> /\ Head(s) # "refresh" => WithoutRefresh(s) # <<>>
<1>1. CASE \E i \in DOMAIN s : s[i] = "refresh"
  <2> DEFINE i == CHOOSE i \in DOMAIN s : s[i] = "refresh"
  <2>1. i \in 1..Len(s) /\ s[i] = "refresh"
    BY <1>1
  <2>2. WithoutRefresh(s) = SubSeq(s, 1, i - 1) \o SubSeq(s, i + 1, Len(s))
    BY <1>1 DEF WithoutRefresh
  <2> HIDE DEF i
  <2>3. SubSeq(s, 1, i - 1) \in Seq(Requests) /\ Len(SubSeq(s, 1, i - 1)) = i - 1
    BY <2>1
  <2>4. SubSeq(s, i + 1, Len(s)) \in Seq(Requests) /\ Len(SubSeq(s, i + 1, Len(s))) = Len(s) - i
    BY <2>1
  <2>5. s # <<>>
    BY <2>1
  <2> DEFINE a == SubSeq(s, 1, i - 1)
             b == SubSeq(s, i + 1, Len(s))
  <2>6. /\ WithoutRefresh(s) = a \o b /\ a \in Seq(Requests) /\ b \in Seq(Requests)
        /\ Len(a) = i - 1 /\ Len(b) = Len(s) - i
    BY <2>2, <2>3, <2>4
  <2> HIDE DEF a, b
  <2>7. Len(WithoutRefresh(s)) = Len(s) - 1 /\ WithoutRefresh(s) \in Seq(Requests)
    BY <2>1, <2>6
  <2>8. Head(s) # "refresh" => WithoutRefresh(s) # <<>>
    <3>1. Head(s) = s[1]
      BY <2>5
    <3> QED BY <2>1, <2>7, <3>1
  <2> QED BY <2>1, <2>5, <2>7, <2>8
<1>2. CASE ~ \E i \in DOMAIN s : s[i] = "refresh"
  BY <1>2 DEF WithoutRefresh
<1> QED BY <1>1, <1>2

\* A change of one part leaves the others as they were.
LEMMA ObjectParts ==
  ASSUME NEW x \in Objects
  PROVE  /\ x.stream \in BOOLEAN /\ x.timers \subseteq {"daily", "health"}
         /\ x.tasks \in Seq(Requests) /\ x.at \in {"idle", "connect", "wait"}
         /\ x.link \in BOOLEAN /\ x.over \in {"no", "closed", "cut", "abandoned"}
         /\ \A b \in BOOLEAN : [x EXCEPT !.stream = b] \in Objects
         /\ \A b \in BOOLEAN : [x EXCEPT !.link = b] \in Objects
         /\ \A s \in Seq(Requests) : [x EXCEPT !.tasks = s] \in Objects
         /\ \A a \in {"idle", "connect", "wait"} : [x EXCEPT !.at = a] \in Objects
         /\ \A T \in SUBSET {"daily", "health"} : [x EXCEPT !.timers = T] \in Objects
         /\ \A o \in {"no", "closed", "cut", "abandoned"} : [x EXCEPT !.over = o] \in Objects
BY DEF Objects

LEMMA FreshType ==
  ASSUME opts \in Options, data \in Options
  PROVE  /\ InEffect \in [push : BOOLEAN, clock : BOOLEAN]
         /\ Fresh \in Objects /\ Len(Fresh.tasks) <= MaxTasks
         /\ [Fresh EXCEPT !.tasks = <<>>, !.over = "closed"] \in Objects
<1>1. opts \in [push : BOOLEAN, clock : BOOLEAN] /\ data \in [push : BOOLEAN, clock : BOOLEAN]
  BY EntryAssumption DEF EntryAssumption
<1>2. InEffect \in [push : BOOLEAN, clock : BOOLEAN]
  BY <1>1 DEF InEffect
<1>3. Fresh.tasks \in Seq(Requests) /\ Len(Fresh.tasks) <= MaxTasks
  <2>1. Fresh.tasks = <<>> \/ Fresh.tasks = <<"refresh">>
    BY DEF Fresh
  <2>2. MaxTasks \in Nat \ {0} /\ "refresh" \in Requests
    BY EntryAssumption DEF EntryAssumption, Requests
  <2>3. <<"refresh">> \in Seq(Requests) /\ Len(<<"refresh">>) = 1 /\ Len(<<>>) = 0
        /\ <<>> \in Seq(Requests)
    BY <2>2
  <2>4. CASE Fresh.tasks = <<>>
    BY <2>2, <2>3, <2>4
  <2>5. CASE Fresh.tasks = <<"refresh">>
    BY <2>2, <2>3, <2>5
  <2> QED BY <2>1, <2>4, <2>5
<1>4. Fresh \in Objects
  BY <1>3 DEF Fresh, Objects
<1>5. [Fresh EXCEPT !.tasks = <<>>, !.over = "closed"] \in Objects
  <2> DEFINE x == [Fresh EXCEPT !.tasks = <<>>]
  <2>1. x \in Objects
    <3>1. <<>> \in Seq(Requests) OBVIOUS
    <3> QED BY <1>4, <3>1, ObjectParts
  <2>2. [x EXCEPT !.over = "closed"] \in Objects
    <3> HIDE DEF x
    <3> QED BY <2>1, ObjectParts
  <2>3. [Fresh EXCEPT !.tasks = <<>>, !.over = "closed"] = [x EXCEPT !.over = "closed"]
    OBVIOUS
  <2> QED BY <2>2, <2>3
<1> QED BY <1>2, <1>3, <1>4, <1>5

-----------------------------------------------------------------------------
(* The invariant, action by action.                                         *)

LEMMA EntryInit == Init => EInv
<1> SUFFICES ASSUME Init PROVE EInv
  OBVIOUS
<1> DEFINE x == [Fresh EXCEPT !.tasks = <<>>, !.over = "closed"]
<1>1. opts \in Options /\ data \in Options
  BY DEF Init
<1>2. data \in [push : BOOLEAN, clock : BOOLEAN]
  BY <1>1, EntryAssumption DEF EntryAssumption
<1>4. Fresh \in Objects /\ x \in Objects
  BY <1>1, FreshType
<1>3. /\ ~x.stream /\ x.timers = {} /\ x.at = "idle" /\ ~x.link
      /\ x.tasks = <<>> /\ x.over = "closed"
  <2>1. ~Fresh.stream /\ Fresh.timers = {} /\ Fresh.at = "idle" /\ ~Fresh.link
    BY DEF Fresh
  <2> HIDE DEF Fresh
  <2> QED BY <1>4, <2>1 DEF Objects
<1>5. \A g \in Generation : gens[g] = x
  BY DEF Init
<1>6. 1 \in Generation /\ Len(<<>>) <= MaxTasks
  BY EntryAssumption DEF EntryAssumption, Generation
<1>7. TypeOK
  <2>1. gens \in [Generation -> Objects]
    BY <1>4 DEF Init
  <2>2. \A g \in Generation : Len(gens[g].tasks) <= MaxTasks
    BY <1>3, <1>5, <1>6
  <2>3. direct \in BOOLEAN /\ healthy \in BOOLEAN /\ wanted \in BOOLEAN /\ reload \in BOOLEAN
        /\ missed \in BOOLEAN /\ entry \in States /\ cur \in Generation
    BY <1>6 DEF Init, States
  <2> QED BY <1>1, <1>2, <2>1, <2>2, <2>3 DEF Init, TypeOK
<1> HIDE DEF x
<1>8. OverIsQuiet /\ IdleWithoutRequests
  BY <1>3, <1>5 DEF OverIsQuiet, IdleWithoutRequests, Quiet
<1> QED
  BY <1>7, <1>8 DEF Init, EInv, SetUpHoldsBack, ClosesLast, SetUpIsCurrent,
                    LoadedIsCurrent, Steps

\* A client of some generation goes on; neither the entry nor how the
\* generation stands changes by it.
LEMMA ClientGoesOn ==
  ASSUME EInv, NEW g \in Generation, NEW x \in Objects, Put(g, x),
         UNCHANGED <<direct, data, healthy, opts, wanted, entry, reload, cur, set, missed>>,
         x.timers = gens[g].timers, x.stream = gens[g].stream, x.over = gens[g].over,
         Len(x.tasks) <= MaxTasks, x.tasks = <<>> => x.at = "idle",
         g = cur /\ entry = "refreshing" => x.tasks = gens[g].tasks,
         ~Active(g) => (Quiet(g) => x.tasks = <<>> /\ ~x.link)
  PROVE  EInv'
<1> USE DEF EInv
<1>1. /\ gens \in [Generation -> Objects] /\ cur \in Generation
      /\ gens' = [gens EXCEPT ![g] = x]
  BY DEF TypeOK, Put
<1>2. gens'[g] = x /\ \A h \in Generation : h # g => gens'[h] = gens[h]
  BY <1>1
<1>3. TypeOK'
  <2>1. gens' \in [Generation -> Objects]
    BY <1>1
  <2>2. \A h \in Generation : Len(gens'[h].tasks) <= MaxTasks
    BY <1>2 DEF TypeOK
  <2> QED BY <2>1, <2>2 DEF TypeOK
<1>4. IdleWithoutRequests'
  BY <1>2 DEF IdleWithoutRequests
<1>5. SetUpHoldsBack' /\ ClosesLast'
  BY <1>1, <1>2 DEF SetUpHoldsBack, ClosesLast, Me
<1>6. OverIsQuiet'
  <2> SUFFICES ASSUME NEW h \in Generation, ~Active(h)'
               PROVE  /\ gens'[h].timers = {}
                      /\ gens'[h].over # "abandoned" => ~gens'[h].stream
                      /\ gens'[h].over \notin {"cut", "abandoned"} => Quiet(h)'
    BY DEF OverIsQuiet
  <2>1. ~Active(h)
    BY DEF Active
  <2>2. CASE h # g
    BY <1>2, <2>1, <2>2 DEF OverIsQuiet, Quiet
  <2>3. CASE h = g
    BY <1>2, <2>1, <2>3 DEF OverIsQuiet, Quiet
  <2> QED BY <2>2, <2>3
<1>7. SetUpIsCurrent' /\ LoadedIsCurrent'
  BY DEF SetUpIsCurrent, LoadedIsCurrent, InEffect
<1> QED BY <1>3, <1>4, <1>5, <1>6, <1>7

\* The entry goes on with the present generation, or leaves it behind as
\* OverIsQuiet asks.
LEMMA EntryGoesOn ==
  ASSUME EInv, NEW x \in Objects, Put(cur, x),
         UNCHANGED <<direct, data, healthy, opts, wanted, cur, set, missed>>,
         entry' \in States \ {"refreshing"}, reload' \in BOOLEAN,
         Len(x.tasks) <= MaxTasks, x.tasks = <<>> => x.at = "idle",
         entry' \in Steps => entry \in Steps /\ x.timers = {},
         entry' = "loaded" => entry \in Steps,
         entry' = "closing" => ~x.stream /\ x.timers = {},
         entry' \in {"not_loaded", "retry", "error"} =>
           /\ x.timers = {}
           /\ x.over # "abandoned" => ~x.stream
           /\ x.over \notin {"cut", "abandoned"} => x.tasks = <<>> /\ ~x.link
  PROVE  EInv'
<1> USE DEF EInv
<1>1. /\ gens \in [Generation -> Objects] /\ cur \in Generation
      /\ gens' = [gens EXCEPT ![cur] = x]
  BY DEF TypeOK, Put
<1>2. gens'[cur] = x /\ \A h \in Generation : h # cur => gens'[h] = gens[h]
  BY <1>1
<1>3. TypeOK'
  <2>1. gens' \in [Generation -> Objects]
    BY <1>1
  <2>2. \A h \in Generation : Len(gens'[h].tasks) <= MaxTasks
    BY <1>2 DEF TypeOK
  <2> QED BY <2>1, <2>2 DEF TypeOK
<1>4. IdleWithoutRequests'
  BY <1>2 DEF IdleWithoutRequests
<1>5. SetUpHoldsBack' /\ ClosesLast'
  BY <1>1, <1>2 DEF SetUpHoldsBack, ClosesLast, Me
<1>6. OverIsQuiet'
  <2> SUFFICES ASSUME NEW h \in Generation, ~Active(h)'
               PROVE  /\ gens'[h].timers = {}
                      /\ gens'[h].over # "abandoned" => ~gens'[h].stream
                      /\ gens'[h].over \notin {"cut", "abandoned"} => Quiet(h)'
    BY DEF OverIsQuiet
  <2>1. CASE h # cur
    BY <1>2, <2>1 DEF OverIsQuiet, Quiet, Active
  <2>2. CASE h = cur
    <3>1. entry' \in {"not_loaded", "retry", "error"}
      BY <2>2 DEF Active, States, Steps, Unloads
    <3> QED BY <1>2, <2>2, <3>1 DEF Quiet
  <2> QED BY <2>1, <2>2
<1>7. SetUpIsCurrent' /\ LoadedIsCurrent'
  BY DEF SetUpIsCurrent, LoadedIsCurrent, InEffect, Steps
<1> QED BY <1>3, <1>4, <1>5, <1>6, <1>7

\* The present generation's objects, and what a set-up in progress has of them.
LEMMA MyParts ==
  ASSUME EInv
  PROVE  /\ Me \in Objects /\ Me.tasks \in Seq(Requests) /\ Len(Me.tasks) <= MaxTasks
         /\ Me.tasks = <<>> => Me.at = "idle"
         /\ cur \in Generation
         /\ entry = "refreshing" => ~Me.stream /\ Me.timers = {} /\ Len(Me.tasks) <= 1
<1>1. cur \in Generation /\ Me \in Objects /\ Len(Me.tasks) <= MaxTasks
  BY DEF EInv, TypeOK, Me
<1>2. Me.tasks = <<>> => Me.at = "idle"
  BY <1>1 DEF EInv, Me, IdleWithoutRequests
<1>3. entry = "refreshing" => ~Me.stream /\ Me.timers = {} /\ Len(Me.tasks) <= 1
  <2>1. Len(<<>>) <= 1 /\ Len(<<"refresh">>) <= 1
    OBVIOUS
  <2> QED BY <2>1 DEF EInv, SetUpHoldsBack, Steps
<1> QED BY <1>1, <1>2, <1>3, ObjectParts

\* What a first refresh leads to, once its request is over.
LEMMA FirstRefreshInv ==
  ASSUME EInv, entry = "refreshing", NEW x \in Objects, x.tasks = <<>>, x.at = "idle",
         ~x.stream, x.timers = {}, GoesOn(x) \/ FailsAgain(x),
         UNCHANGED <<direct, data, healthy, opts, wanted, reload, cur, set, missed>>
  PROVE  EInv'
<1>1. 0 <= MaxTasks /\ Len(<<>>) = 0
  BY EntryAssumption DEF EntryAssumption
<1>2. reload \in BOOLEAN /\ set \in [push : BOOLEAN, clock : BOOLEAN]
  BY DEF EInv, TypeOK
<1>3. CASE GoesOn(x)
  <2> DEFINE y == [x EXCEPT !.stream = set.push]
  <2>1. set.push \in BOOLEAN
    BY <1>2
  <2>2. y \in Objects /\ y.tasks = <<>> /\ y.timers = {} /\ y.at = "idle"
    <3>1. y \in Objects BY <2>1, ObjectParts
    <3> QED BY <3>1 DEF Objects
  <2>3. Put(cur, y) /\ entry' = "forwarding"
    BY <1>3 DEF GoesOn
  <2> HIDE DEF y
  <2> QED BY <1>1, <1>2, <2>2, <2>3, EntryGoesOn DEF States, Steps
<1>4. CASE FailsAgain(x)
  <2> DEFINE y == [x EXCEPT !.over = "closed", !.link = FALSE]
  <2>1. y \in Objects /\ y.tasks = <<>> /\ y.timers = {} /\ ~y.stream /\ ~y.link
        /\ y.at = "idle"
    <3>1. y \in Objects BY DEF Objects
    <3> QED BY <3>1 DEF Objects
  <2>2. Put(cur, y) /\ entry' = "retry"
    BY <1>4 DEF FailsAgain
  <2> HIDE DEF y
  <2> QED BY <1>1, <1>2, <2>1, <2>2, EntryGoesOn DEF States, Steps
<1> QED BY <1>3, <1>4

LEMMA SetsUpInv ==
  ASSUME EInv, SetsUp
  PROVE  EInv'
<1> USE DEF EInv
<1>1. PICK g \in Generation : cur' = g /\ Put(g, Fresh) /\ set' = InEffect
  BY DEF SetsUp
<1>2. /\ InEffect \in [push : BOOLEAN, clock : BOOLEAN] /\ Fresh \in Objects
      /\ Len(Fresh.tasks) <= MaxTasks
  BY FreshType DEF TypeOK
<1>3. gens' \in [Generation -> Objects] /\ gens'[g] = Fresh
      /\ \A h \in Generation : h # g => gens'[h] = gens[h]
  BY <1>1, <1>2 DEF TypeOK, Put
<1>4. ~Fresh.stream /\ Fresh.timers = {} /\ Fresh.at = "idle"
      /\ Fresh.tasks = (IF InEffect.push THEN <<>> ELSE <<"refresh">>)
  BY DEF Fresh
<1>5. /\ entry \in {"not_loaded", "retry"} /\ entry' = "refreshing"
      /\ missed' = FALSE /\ UNCHANGED <<direct, data, healthy, opts, wanted, reload>>
  BY DEF SetsUp
<1>6. TypeOK'
  <2>1. \A h \in Generation : Len(gens'[h].tasks) <= MaxTasks
    BY <1>2, <1>3 DEF TypeOK
  <2>2. entry' \in States /\ missed' \in BOOLEAN /\ cur' \in Generation
        /\ set' \in [push : BOOLEAN, clock : BOOLEAN]
    BY <1>1, <1>2, <1>5 DEF States, Steps
  <2> QED BY <1>3, <1>5, <2>1, <2>2 DEF TypeOK
<1>7. IdleWithoutRequests'
  BY <1>3, <1>4 DEF IdleWithoutRequests
<1>8. SetUpHoldsBack' /\ ClosesLast'
  BY <1>1, <1>3, <1>4, <1>5 DEF SetUpHoldsBack, ClosesLast, Me
<1>9. OverIsQuiet'
  <2> SUFFICES ASSUME NEW h \in Generation, ~Active(h)'
               PROVE  /\ gens'[h].timers = {}
                      /\ gens'[h].over # "abandoned" => ~gens'[h].stream
                      /\ gens'[h].over \notin {"cut", "abandoned"} => Quiet(h)'
    BY DEF OverIsQuiet
  <2>1. h # g
    BY <1>1, <1>5 DEF Active, Steps
  <2>2. ~Active(h)
    BY <1>5 DEF Active, Steps, Unloads
  <2> QED BY <1>3, <2>1, <2>2 DEF OverIsQuiet, Quiet
<1>10. SetUpIsCurrent' /\ LoadedIsCurrent'
  BY <1>1, <1>5 DEF SetUpIsCurrent, LoadedIsCurrent, InEffect
<1> QED BY <1>6, <1>7, <1>8, <1>9, <1>10

LEMMA SetUpInv ==
  ASSUME EInv, SeedsPush \/ BridgeBlocks \/ Loads \/ ForwardFails
  PROVE  EInv'
<1>0. /\ Me \in Objects /\ Me.tasks \in Seq(Requests) /\ Len(Me.tasks) <= MaxTasks
      /\ Me.tasks = <<>> => Me.at = "idle"
      /\ reload \in BOOLEAN /\ set \in [push : BOOLEAN, clock : BOOLEAN]
  BY MyParts DEF EInv, TypeOK
<1>1. CASE SeedsPush
  <2>1. entry = "refreshing" /\ GoesOn(Me) /\ Me.tasks = <<>> /\ ~Me.stream /\ Me.timers = {}
    BY <1>1, MyParts DEF SeedsPush, EInv, SetUpHoldsBack
  <2> QED BY <1>0, <1>1, <2>1, FirstRefreshInv DEF SeedsPush
<1>2. CASE BridgeBlocks
  <2> DEFINE x == [Me EXCEPT !.tasks = <<>>]
  <2>1. entry = "refreshing" /\ ~Me.stream /\ Me.timers = {} /\ Me.at = "idle"
    BY <1>2, MyParts DEF BridgeBlocks
  <2>2. x \in Objects
    <3>1. <<>> \in Seq(Requests) OBVIOUS
    <3> QED BY <1>0, <3>1, ObjectParts
  <2>3. x.tasks = <<>> /\ x.at = "idle" /\ ~x.stream /\ x.timers = {}
    BY <1>0, <2>1 DEF Objects
  <2>4. FailsAgain(x)
    BY <1>2 DEF BridgeBlocks
  <2> HIDE DEF x
  <2> QED BY <1>2, <2>1, <2>2, <2>3, <2>4, FirstRefreshInv DEF BridgeBlocks
<1>3. CASE Loads
  <2> DEFINE T == (IF set.clock THEN {"daily"} ELSE {}) \cup (IF set.push THEN {"health"} ELSE {})
             timed == [Me EXCEPT !.timers = T]
             x == IF set.clock THEN PushesClock(timed) ELSE timed
  <2>1. T \in SUBSET {"daily", "health"}
    OBVIOUS
  <2>2. timed \in Objects /\ timed.tasks = Me.tasks /\ timed.at = Me.at
    <3> HIDE DEF T
    <3>1. timed \in Objects
      BY <1>0, <2>1, ObjectParts
    <3> QED BY <1>0, <3>1 DEF Objects
  <2>3. Len(Me.tasks) < MaxTasks /\ MaxTasks \in Nat
    BY <1>3, EntryAssumption DEF Loads, EntryAssumption
  <2>4. /\ Append(Me.tasks, "clock") \in Seq(Requests) /\ Append(Me.tasks, "clock") # <<>>
        /\ Len(Append(Me.tasks, "clock")) <= MaxTasks
    BY <1>0, <2>3 DEF Requests
  <2>5. x \in Objects /\ Len(x.tasks) <= MaxTasks /\ (x.tasks = <<>> => x.at = "idle")
    <3>1. CASE set.clock
      <4>1. x = [timed EXCEPT !.tasks = Append(Me.tasks, "clock")]
        BY <2>2, <3>1 DEF PushesClock
      <4> HIDE DEF x, timed
      <4>2. x \in Objects
        BY <2>2, <2>4, <4>1, ObjectParts
      <4>3. x.tasks = Append(Me.tasks, "clock")
        BY <2>2, <4>1 DEF Objects
      <4> QED BY <2>4, <4>2, <4>3
    <3>2. CASE ~set.clock
      <4>1. x = timed
        BY <3>2
      <4> QED BY <1>0, <2>2, <4>1
    <3> QED BY <3>1, <3>2
  <2>6. Put(cur, x) /\ entry' = "loaded" /\ entry = "forwarding"
    BY <1>3 DEF Loads
  <2> HIDE DEF x
  <2> QED BY <1>0, <1>3, <2>5, <2>6, EntryGoesOn DEF Loads, States, Steps
<1>4. CASE ForwardFails
  <2> DEFINE x == [Me EXCEPT !.over = "abandoned"]
  <2>1. x \in Objects
    BY <1>0, ObjectParts
  <2>2. x.tasks = Me.tasks /\ x.at = Me.at /\ x.timers = Me.timers /\ x.over = "abandoned"
    BY <1>0 DEF Objects
  <2>3. Me.timers = {} /\ entry' = "error" /\ Put(cur, x)
    BY <1>4 DEF ForwardFails, EInv, SetUpHoldsBack, Steps
  <2> HIDE DEF x
  <2> QED BY <1>0, <1>4, <2>1, <2>2, <2>3, EntryGoesOn DEF ForwardFails, States, Steps
<1> QED BY <1>1, <1>2, <1>3, <1>4

\* Reload, unload and the user; the generations are left alone but for the
\* last two steps of an unload.
LEMMA UnloadInv ==
  ASSUME EInv,
         UnloadBegins \/ PlatformsUnload \/ OptionsChange \/ UserReloads
           \/ Toggles \/ HealthChanges
  PROVE  EInv'
<1> USE DEF EInv
<1>1. UNCHANGED <<gens, cur, set, data, direct>>
  BY DEF UnloadBegins, PlatformsUnload, OptionsChange, UserReloads, Toggles, HealthChanges
<1>2. entry' \in States /\ reload' \in BOOLEAN /\ missed' \in BOOLEAN /\ opts' \in Options
      /\ healthy' \in BOOLEAN /\ wanted' \in BOOLEAN
  BY DEF TypeOK, UnloadBegins, PlatformsUnload, OptionsChange, UserReloads, Toggles,
         HealthChanges, States, Steps, Unloads
<1>3. /\ entry' \in Steps => entry = entry'
      /\ entry' = "closing" => entry = entry'
      /\ entry' = "loaded" => entry = entry'
  BY DEF UnloadBegins, PlatformsUnload, OptionsChange, UserReloads, Toggles, HealthChanges,
         Steps
<1>4. \A g \in Generation : ~Active(g)' => ~Active(g)
  <2>1. entry' \in {"not_loaded", "retry", "error"} => entry \in {"not_loaded", "retry", "error"}
    BY DEF UnloadBegins, PlatformsUnload, OptionsChange, UserReloads, Toggles, HealthChanges
  <2> QED BY <1>1, <1>2, <2>1 DEF Active, States, Steps, Unloads
<1>5. TypeOK'
  BY <1>1, <1>2 DEF TypeOK
<1>6. IdleWithoutRequests' /\ SetUpHoldsBack' /\ ClosesLast'
  BY <1>1, <1>3 DEF IdleWithoutRequests, SetUpHoldsBack, ClosesLast, Me, Steps
<1>7. OverIsQuiet'
  BY <1>1, <1>4 DEF OverIsQuiet, Quiet
<1>8. SetUpIsCurrent' /\ LoadedIsCurrent'
  <2>1. CASE OptionsChange
    BY <1>1, <2>1 DEF OptionsChange, SetUpIsCurrent, LoadedIsCurrent, InEffect
  <2>2. CASE ~OptionsChange
    <3>1. UNCHANGED <<opts, missed>> /\ (entry' = "loaded" => reload' \/ ~reload)
      BY <2>2 DEF UnloadBegins, PlatformsUnload, UserReloads, Toggles, HealthChanges
    <3> QED BY <1>1, <1>3, <3>1 DEF SetUpIsCurrent, LoadedIsCurrent, InEffect, Steps
  <2> QED BY <2>1, <2>2
<1> QED BY <1>5, <1>6, <1>7, <1>8

LEMMA StreamStopsInv ==
  ASSUME EInv, StreamStops
  PROVE  EInv'
<1> DEFINE x == [Me EXCEPT !.stream = FALSE, !.timers = {}]
<1>1. /\ Me \in Objects /\ Len(Me.tasks) <= MaxTasks
      /\ Me.tasks = <<>> => Me.at = "idle"
  BY MyParts
<1>2. x \in Objects
  BY <1>1 DEF Objects
<1>3. x.tasks = Me.tasks /\ x.at = Me.at /\ ~x.stream /\ x.timers = {}
  BY <1>1 DEF Objects
<1>4. Put(cur, x) /\ entry' = "closing" /\ reload' \in BOOLEAN
  BY DEF StreamStops, EInv, TypeOK
<1> HIDE DEF x
<1> QED BY <1>1, <1>2, <1>3, <1>4, EntryGoesOn DEF StreamStops, States, Steps, Unloads

LEMMA ClientClosesInv ==
  ASSUME EInv, ClientCloses
  PROVE  EInv'
<1>1. /\ Me \in Objects /\ Me.tasks \in Seq(Requests) /\ Len(Me.tasks) <= MaxTasks
      /\ Me.tasks = <<>> => Me.at = "idle"
      /\ ~Me.stream /\ Me.timers = {}
  BY MyParts DEF ClientCloses, EInv, ClosesLast
<1> DEFINE how == IF Me.tasks = <<>> THEN "closed" ELSE "cut"
<1>2. PICK x \in Struck(Me) : Put(cur, [Cancelled(x) EXCEPT !.over = how])
  BY DEF ClientCloses
<1>3. /\ x \in Objects /\ x.timers = {} /\ ~x.stream /\ ~x.link
      /\ Len(x.tasks) <= Len(Me.tasks)
      /\ Me.tasks = <<>> => x.tasks = <<>>
      /\ x.tasks = <<>> => x.at = "idle"
  <2> DEFINE w == [Me EXCEPT !.link = FALSE]
  <2>1. w \in Objects /\ w.timers = {} /\ ~w.stream /\ ~w.link /\ w.tasks = Me.tasks
        /\ w.at = Me.at
    <3>1. w \in Objects
      BY <1>1, ObjectParts
    <3> QED BY <1>1, <3>1 DEF Objects
  <2>2. CASE Me.at = "wait"
    <3>1. Me.tasks # <<>> /\ Tail(Me.tasks) \in Seq(Requests)
          /\ Len(Tail(Me.tasks)) <= Len(Me.tasks)
      BY <1>1, <2>2
    <3>2. x = [w EXCEPT !.at = "connect"] \/ x = [w EXCEPT !.at = "idle", !.tasks = Tail(Me.tasks)]
      BY <2>2 DEF Struck
    <3> HIDE DEF w
    <3>3. CASE x = [w EXCEPT !.at = "connect"]
      BY <2>1, <3>1, <3>3 DEF Objects
    <3>4. CASE x = [w EXCEPT !.at = "idle", !.tasks = Tail(Me.tasks)]
      BY <2>1, <3>1, <3>4 DEF Objects
    <3> QED BY <3>2, <3>3, <3>4
  <2>3. CASE Me.at # "wait"
    <3>1. x = w
      BY <2>3 DEF Struck
    <3> HIDE DEF w
    <3>2. Len(x.tasks) <= Len(Me.tasks)
      BY <1>1, <2>1, <3>1
    <3> QED BY <1>1, <2>1, <3>1, <3>2
  <2> QED BY <2>2, <2>3
<1> DEFINE y == Cancelled(x)
           z == [y EXCEPT !.over = how]
<1>4. /\ y \in Objects /\ y.timers = {} /\ ~y.stream /\ ~y.link
      /\ Len(y.tasks) <= Len(Me.tasks)
      /\ Me.tasks = <<>> => y.tasks = <<>>
      /\ y.tasks = <<>> => y.at = "idle"
  <2> DEFINE s == WithoutRefresh(x.tasks)
             a == IF x.tasks # <<>> /\ Head(x.tasks) = "refresh" THEN "idle" ELSE x.at
  <2>1. /\ x.tasks \in Seq(Requests) /\ x.at \in {"idle", "connect", "wait"}
        /\ a \in {"idle", "connect", "wait"}
    BY <1>3, ObjectParts
  <2>2. /\ s \in Seq(Requests) /\ Len(s) <= Len(x.tasks)
        /\ x.tasks = <<>> => s = <<>>
        /\ s = <<>> => a = "idle"
    BY <1>3, <2>1, WithoutRefreshParts
  <2>3. y = [x EXCEPT !.tasks = s, !.at = a]
    BY DEF Cancelled
  <2>4. Len(s) <= Len(Me.tasks)
    BY <1>1, <1>3, <2>1, <2>2
  <2> HIDE DEF s, a, y
  <2>5. y \in Objects /\ y.tasks = s /\ y.at = a /\ y.timers = x.timers
        /\ y.stream = x.stream /\ y.link = x.link
    BY <1>3, <2>1, <2>2, <2>3 DEF Objects
  <2> QED BY <1>3, <2>2, <2>4, <2>5
<1>5. how \in {"no", "closed", "cut", "abandoned"} /\ (how # "cut" => Me.tasks = <<>>)
      /\ how # "abandoned"
  OBVIOUS
<1> HIDE DEF y, how
<1>6. /\ z \in Objects /\ z.timers = {} /\ ~z.stream /\ ~z.link /\ z.over = how
      /\ z.tasks = y.tasks /\ z.at = y.at
  <2>1. z \in Objects
    BY <1>4, <1>5, ObjectParts
  <2> QED BY <1>4, <2>1 DEF Objects
<1>7. Put(cur, z) /\ entry' = "not_loaded" /\ reload' \in BOOLEAN
  BY <1>2 DEF ClientCloses, y
<1>8. Len(z.tasks) <= MaxTasks
  <2>1. Len(z.tasks) \in Nat /\ Len(Me.tasks) \in Nat /\ MaxTasks \in Nat
    BY <1>1, <1>6, ObjectParts, EntryAssumption DEF EntryAssumption
  <2> QED BY <1>1, <1>4, <1>6, <2>1
<1> HIDE DEF z
<1> QED
  BY <1>4, <1>5, <1>6, <1>7, <1>8, EntryGoesOn DEF ClientCloses, States, Steps

\* The objects of any generation.
LEMMA ItsParts ==
  ASSUME EInv, NEW g \in Generation
  PROVE  /\ gens[g] \in Objects /\ gens[g].tasks \in Seq(Requests)
         /\ Len(gens[g].tasks) <= MaxTasks
         /\ gens[g].tasks = <<>> => gens[g].at = "idle"
         /\ Tail(gens[g].tasks) \in Seq(Requests) \/ gens[g].tasks = <<>>
         /\ gens[g].tasks # <<>> => Len(Tail(gens[g].tasks)) <= MaxTasks
<1>1. gens[g] \in Objects /\ Len(gens[g].tasks) <= MaxTasks
  BY DEF EInv, TypeOK
<1>2. gens[g].tasks \in Seq(Requests)
  BY <1>1, ObjectParts
<1>3. gens[g].tasks = <<>> => gens[g].at = "idle"
  BY DEF EInv, IdleWithoutRequests
<1>4. MaxTasks \in Nat
  BY EntryAssumption DEF EntryAssumption
<1> QED BY <1>1, <1>2, <1>3, <1>4

LEMMA AsksForInv ==
  ASSUME EInv, NEW g \in Generation, NEW t \in Requests, AsksFor(g, t)
  PROVE  EInv'
<1> DEFINE x == [gens[g] EXCEPT !.tasks = Append(gens[g].tasks, t)]
<1>1. gens[g] \in Objects /\ gens[g].tasks \in Seq(Requests)
  BY ItsParts
<1>2. Len(gens[g].tasks) < MaxTasks /\ MaxTasks \in Nat
  BY EntryAssumption DEF EntryAssumption, AsksFor
<1>3. /\ Append(gens[g].tasks, t) \in Seq(Requests) /\ Append(gens[g].tasks, t) # <<>>
      /\ Len(Append(gens[g].tasks, t)) <= MaxTasks
  BY <1>1, <1>2
<1>4. x \in Objects
  BY <1>1, <1>3, ObjectParts
<1>5. /\ x.timers = gens[g].timers /\ x.stream = gens[g].stream /\ x.over = gens[g].over
      /\ x.tasks = Append(gens[g].tasks, t)
  BY <1>1, <1>4 DEF Objects
<1>6. Active(g) /\ ~(g = cur /\ entry = "refreshing")
  <2>1. CASE "daily" \in gens[g].timers
    BY <2>1 DEF EInv, OverIsQuiet, SetUpHoldsBack, Me, Steps
  <2>2. CASE g = cur /\ entry = "loaded"
    BY <2>2 DEF Active
  <2> QED BY <2>1, <2>2 DEF AsksFor
<1>7. Put(g, x)
  BY DEF AsksFor
<1> HIDE DEF x
<1> QED BY <1>3, <1>4, <1>5, <1>6, <1>7, ClientGoesOn DEF AsksFor

LEMMA BeginsInv ==
  ASSUME EInv, NEW g \in Generation, Begins(g)
  PROVE  EInv'
<1> DEFINE a == IF gens[g].link THEN "wait" ELSE "connect"
           x == [gens[g] EXCEPT !.at = a]
<1>1. gens[g] \in Objects /\ Len(gens[g].tasks) <= MaxTasks /\ gens[g].tasks # <<>>
  BY ItsParts DEF Begins
<1>2. x \in Objects
  <2>1. a \in {"idle", "connect", "wait"} OBVIOUS
  <2> HIDE DEF a
  <2> QED BY <1>1, <2>1, ObjectParts
<1>3. /\ x.timers = gens[g].timers /\ x.stream = gens[g].stream /\ x.over = gens[g].over
      /\ x.tasks = gens[g].tasks
  BY <1>1, <1>2 DEF Objects
<1>4. Put(g, x)
  BY DEF Begins
<1> HIDE DEF x
<1> QED BY <1>1, <1>2, <1>3, <1>4, ClientGoesOn DEF Begins, Quiet

LEMMA ConnectsInv ==
  ASSUME EInv, NEW g \in Generation, Connects(g)
  PROVE  EInv'
<1> DEFINE x == [gens[g] EXCEPT !.link = TRUE, !.at = "wait"]
<1>1. gens[g] \in Objects /\ Len(gens[g].tasks) <= MaxTasks /\ gens[g].tasks # <<>>
  BY ItsParts DEF Connects
<1>2. x \in Objects
  BY <1>1 DEF Objects
<1>3. /\ x.timers = gens[g].timers /\ x.stream = gens[g].stream /\ x.over = gens[g].over
      /\ x.tasks = gens[g].tasks
  BY <1>1, <1>2 DEF Objects
<1>4. Put(g, x)
  BY DEF Connects
<1> HIDE DEF x
<1> QED BY <1>1, <1>2, <1>3, <1>4, ClientGoesOn DEF Connects, Quiet

LEMMA PeerDropsInv ==
  ASSUME EInv, NEW g \in Generation, PeerDrops(g)
  PROVE  EInv'
<1> DEFINE x == [gens[g] EXCEPT !.link = FALSE]
<1>1. /\ gens[g] \in Objects /\ Len(gens[g].tasks) <= MaxTasks /\ gens[g].at = "idle"
  BY ItsParts DEF PeerDrops
<1>2. x \in Objects
  BY <1>1, ObjectParts
<1>3. /\ x.timers = gens[g].timers /\ x.stream = gens[g].stream /\ x.over = gens[g].over
      /\ x.tasks = gens[g].tasks /\ x.at = "idle" /\ ~x.link
  BY <1>1, <1>2 DEF Objects
<1>4. Put(g, x)
  BY DEF PeerDrops
<1> HIDE DEF x
<1> QED BY <1>1, <1>2, <1>3, <1>4, ClientGoesOn DEF PeerDrops, Quiet

\* A request that is over, the first refresh's among them.
LEMMA GenerationEndsInv ==
  ASSUME EInv, NEW g \in Generation, NEW ok, NEW x \in Objects, Ends(g, x, ok),
         gens[g].tasks # <<>>, x.tasks = gens[g].tasks, x.timers = gens[g].timers,
         x.stream = gens[g].stream, x.over = gens[g].over,
         UNCHANGED <<direct, data, healthy, opts, wanted, reload, cur, set, missed>>
  PROVE  EInv'
<1> DEFINE y == [x EXCEPT !.tasks = Tail(x.tasks), !.at = "idle"]
<1>1. /\ Tail(x.tasks) \in Seq(Requests) /\ Len(Tail(x.tasks)) <= MaxTasks
  BY ItsParts
<1>2. y \in Objects
  BY <1>1 DEF Objects
<1>3. /\ y.timers = gens[g].timers /\ y.stream = gens[g].stream /\ y.over = gens[g].over
      /\ y.tasks = Tail(x.tasks) /\ y.at = "idle"
  BY <1>2 DEF Objects
<1>4. IF First(g) THEN GoesOn(y) \/ FailsAgain(y) ELSE Put(g, y) /\ UNCHANGED entry
  BY DEF Ends
<1> HIDE DEF y
<1>5. CASE First(g)
  <2>1. entry = "refreshing" /\ ~gens[g].stream /\ gens[g].timers = {}
        /\ gens[g].tasks = <<"refresh">>
    BY <1>5, MyParts DEF First, Me, EInv, SetUpHoldsBack
  <2>2. y.tasks = <<>>
    BY <1>3, <2>1
  <2> QED BY <1>2, <1>3, <1>4, <1>5, <2>1, <2>2, FirstRefreshInv
<1>6. CASE ~First(g)
  <2>1. ~Quiet(g) /\ ~(g = cur /\ entry = "refreshing")
    BY <1>6 DEF Quiet, First
  <2> QED BY <1>1, <1>2, <1>3, <1>4, <1>6, <2>1, ClientGoesOn
<1> QED BY <1>5, <1>6

LEMMA AnsweredInv ==
  ASSUME EInv, NEW g \in Generation, Answered(g)
  PROVE  EInv'
BY ItsParts, GenerationEndsInv DEF Answered

LEMMA FailsInv ==
  ASSUME EInv, NEW g \in Generation, Fails(g)
  PROVE  EInv'
<1> DEFINE x == [gens[g] EXCEPT !.link = FALSE]
           y == [x EXCEPT !.at = "connect"]
<1>1. gens[g] \in Objects /\ Len(gens[g].tasks) <= MaxTasks /\ gens[g].tasks # <<>>
  BY ItsParts DEF Fails
<1>2. x \in Objects
  BY <1>1, ObjectParts
<1>3. /\ x.timers = gens[g].timers /\ x.stream = gens[g].stream /\ x.over = gens[g].over
      /\ x.tasks = gens[g].tasks
  BY <1>1, <1>2 DEF Objects
<1>4. (Put(g, y) /\ UNCHANGED entry) \/ Ends(g, x, FALSE)
  BY DEF Fails
<1>5. UNCHANGED <<direct, data, healthy, opts, wanted, reload, cur, set, missed>>
  BY DEF Fails
<1> HIDE DEF x
<1>6. CASE Put(g, y) /\ UNCHANGED entry
  <2>1. /\ y \in Objects /\ y.timers = gens[g].timers /\ y.stream = gens[g].stream
        /\ y.over = gens[g].over /\ y.tasks = gens[g].tasks
    BY <1>2, <1>3 DEF Objects
  <2> HIDE DEF y
  <2> QED BY <1>1, <1>5, <1>6, <2>1, ClientGoesOn DEF Quiet
<1>7. CASE Ends(g, x, FALSE)
  BY <1>1, <1>2, <1>3, <1>5, <1>7, GenerationEndsInv
<1> QED BY <1>4, <1>6, <1>7

LEMMA EntryInvariant == Spec => []EInv
<1>1. EInv /\ [Next]_vars => EInv'
  <2> SUFFICES ASSUME EInv, [Next]_vars PROVE EInv'
    OBVIOUS
  <2>1. CASE UNCHANGED vars
    BY <2>1 DEF vars, EInv, TypeOK, IdleWithoutRequests, SetUpHoldsBack, Me, ClosesLast,
                OverIsQuiet, Quiet, Active, SetUpIsCurrent, LoadedIsCurrent, InEffect
  <2>2. ASSUME NEW g \in Generation,
               ClientStep(g) \/ PeerDrops(g) \/ \E t \in Requests : AsksFor(g, t)
        PROVE  EInv'
    BY <2>2, BeginsInv, ConnectsInv, AnsweredInv, FailsInv, PeerDropsInv, AsksForInv
       DEF ClientStep
  <2> QED
    BY <2>1, <2>2, SetsUpInv, SetUpInv, UnloadInv, StreamStopsInv, ClientClosesInv
       DEF Next, SetUpStep, UnloadStep
<1> QED
  BY <1>1, EntryInit, PTL DEF Spec

-----------------------------------------------------------------------------
(* What follows for the entry.                                              *)

(* The entry's state is always one of Home Assistant's, and each generation  *)
(* holds what its parts may be (__init__.py).                               *)
THEOREM EntryTypeCorrect == Spec => []TypeOK
BY EntryInvariant, PTL DEF EInv

(* "Unload a config entry and close the client" (async_unload_entry): of a   *)
(* generation that is over nothing is left but the requests unloading cut    *)
(* into, and what a set-up left that a platform ended.                      *)
THEOREM OverIsQuietTheorem == Spec => []OverIsQuiet
BY EntryInvariant, PTL DEF EInv

(* "Reload when options (e.g. the bridge-health URL) change": a loaded entry *)
(* runs with what is in effect or is about to be reloaded, but for a change  *)
(* that met its set-up.                                                     *)
THEOREM LoadedIsCurrentTheorem == Spec => []LoadedIsCurrent
BY EntryInvariant, PTL DEF EInv

=============================================================================
