---------------------------- MODULE TimerProofs ----------------------------
(***************************************************************************)
(* What is proved of the timer switch, alone and among the other entities,  *)
(* and of the two registries' codecs, for every set of times, profiles and  *)
(* temperatures.                                                            *)
(***************************************************************************)
EXTENDS Entities, TLAPS

(* What Home Assistant restores is as good as what the switch had: with       *)
(* polling a time the machine had or the default, and the last one seen       *)
(* unless that was lost on the way down.                                      *)
SavedWell ==
  ~push =>
    /\ saved \in seen \cup {Default, NotSaved}
    /\ ~up /\ lastSeen # NotSaved /\ ~unsaved => saved = lastSeen

TInv ==
  TypeOK /\ SavedWell /\ RemembersGenuine /\ KeepsEnabledTime /\ RemembersAcrossRestart

USE DEF Value

(* The switch begins in the invariant.                                        *)
LEMMA TimerInit == Init => TInv
BY TimerAssumption DEF Init, TInv, TypeOK, SavedWell, RemembersGenuine,
   KeepsEnabledTime, RemembersAcrossRestart

(* A step that leaves the switch alone keeps the invariant: commands from     *)
(* anywhere, and updates that do not come.                                    *)
LEMMA TimerWritten ==
  ASSUME TInv, UNCHANGED push, NEW v \in Value, timer' = v,
         UNCHANGED <<up, data, configured, saved, seen, lastSeen, unsaved>>,
         available' \in BOOLEAN
  PROVE  TInv'
BY DEF TInv, TypeOK, SavedWell, RemembersGenuine, KeepsEnabledTime, RemembersAcrossRestart

(* Every step of the switch keeps the invariant.                              *)
LEMMA TimerStepInv == TInv /\ [Next]_vars => TInv'
<1> SUFFICES ASSUME TInv, [Next]_vars PROVE TInv'
  OBVIOUS
<1> USE TimerAssumption DEF TInv
<1>1. CASE AddsPolling /\ UNCHANGED push
  <2>1. TypeOK'
    BY <1>1 DEF AddsPolling, TypeOK, Observed, Remembered
  <2>2. SavedWell'
    BY <1>1 DEF AddsPolling, TypeOK, SavedWell, Observed
  <2>3. RemembersGenuine'
    BY <1>1 DEF AddsPolling, TypeOK, SavedWell, RemembersGenuine, Observed, Remembered
  <2>4. KeepsEnabledTime'
    BY <1>1 DEF AddsPolling, TypeOK, KeepsEnabledTime, Remembered
  <2>5. RemembersAcrossRestart'
    BY <1>1 DEF AddsPolling, TypeOK, SavedWell, RemembersAcrossRestart, Observed, Remembered
  <2> QED BY <2>1, <2>2, <2>3, <2>4, <2>5
<1>2. CASE AddsPushed /\ UNCHANGED push
  BY <1>2 DEF AddsPushed, Remembered, TypeOK, SavedWell, RemembersGenuine,
              KeepsEnabledTime, RemembersAcrossRestart
<1>3. CASE Update /\ UNCHANGED push
  <2>1. TypeOK'
    BY <1>3 DEF Update, TypeOK, Handle, Observed
  <2>2. SavedWell'
    BY <1>3 DEF Update, TypeOK, SavedWell, Observed
  <2>3. RemembersGenuine' /\ KeepsEnabledTime' /\ RemembersAcrossRestart'
    BY <1>3 DEF Update, TypeOK, Handle, Observed, RemembersGenuine,
                KeepsEnabledTime, RemembersAcrossRestart
  <2> QED BY <2>1, <2>2, <2>3
<1>4. CASE UpdateEmpty /\ UNCHANGED push
  BY <1>4 DEF UpdateEmpty, Handle, TypeOK, SavedWell, RemembersGenuine,
              KeepsEnabledTime, RemembersAcrossRestart
<1>5. CASE TurnsUnavailable /\ UNCHANGED push
  BY <1>5 DEF TurnsUnavailable, TypeOK, SavedWell, RemembersGenuine,
              KeepsEnabledTime, RemembersAcrossRestart
<1>6. ASSUME NEW v \in Value, PanelSets(v) \/ Write(v), UNCHANGED push PROVE TInv'
  <2>1. available' \in BOOLEAN
    BY <1>6 DEF PanelSets, Write, TypeOK
  <2> QED BY <1>6, <2>1, TimerWritten DEF PanelSets, Write
<1>7. CASE Stops /\ UNCHANGED push
  BY <1>7 DEF Stops, TypeOK, SavedWell, RemembersGenuine,
              KeepsEnabledTime, RemembersAcrossRestart
<1>8. CASE UNCHANGED vars
  BY <1>8 DEF vars, TypeOK, SavedWell, RemembersGenuine,
              KeepsEnabledTime, RemembersAcrossRestart
<1> QED
  BY <1>1, <1>2, <1>3, <1>4, <1>5, <1>6, <1>7, <1>8
     DEF Next, TurnOn, TurnOff, SetTime, TypeOK

(* The invariant holds throughout.                                            *)
LEMMA TimerInvariant == Spec => []TInv
BY TimerInit, TimerStepInv, PTL DEF Spec

(* Every command of another entity, and MQTT's of the timer, is a step of the *)
(* switch or none of its business.                                            *)
LEMMA EntitiesStep ==
  ASSUME [EntitiesNext]_<<vars, settings>> PROVE [Next]_vars
<1>1. CASE TimerStep
  BY <1>1 DEF TimerStep
<1>2. ASSUME NEW t \in Time, MqttSetsTimer(t) PROVE Next
  BY <1>2 DEF MqttSetsTimer, Next
<1>3. ASSUME NEW c, Command(c) PROVE UNCHANGED vars
  BY <1>3 DEF Command
<1> QED
  BY <1>1, <1>2, <1>3 DEF EntitiesNext

(* Among all other commands to the machine the timer switch is still the      *)
(* switch that TimerSwitch says: no write of another entity, and no panel,     *)
(* makes it do what it would not do alone.                                    *)
THEOREM SwitchAmongEntities == EntitiesSpec => Spec
<1>1. EntitiesInit => Init
  BY DEF EntitiesInit
<1> QED
  BY <1>1, EntitiesStep, PTL DEF EntitiesSpec, Spec

(* The switch's own value, what it remembers and what Home Assistant saves of *)
(* it are always what their comments say they are (switch.py, _configured).   *)
THEOREM TimerTypeCorrect == EntitiesSpec => []TypeOK
BY SwitchAmongEntities, TimerInvariant, PTL DEF TInv

(* "the last time seen on the machine, a value restored across restarts, or a *)
(* sensible default": with polling nothing else is ever written (switch.py).  *)
THEOREM GenuineTheorem == EntitiesSpec => []RemembersGenuine
BY SwitchAmongEntities, TimerInvariant, PTL DEF TInv

(* The enabled timer on show is what switching off and on brings back, with   *)
(* polling and with the stream (switch.py, _handle_coordinator_update).       *)
THEOREM KeepsEnabledTheorem == EntitiesSpec => []KeepsEnabledTime
BY SwitchAmongEntities, TimerInvariant, PTL DEF TInv

(* With polling the last time seen survives every restart of Home Assistant   *)
(* from an available state (switch.py, async_added_to_hass).                  *)
THEOREM RestartTheorem == EntitiesSpec => []RemembersAcrossRestart
BY SwitchAmongEntities, TimerInvariant, PTL DEF TInv

-----------------------------------------------------------------------------
(* The entities' codecs.                                                    *)

Byte     == 0..255
Settings == [Addr -> Byte]

\* The registries, entity by entity.
LEMMA Registry ==
  /\ Key = {"total_coffee_count", "power", "service_boiler", "active_profile",
            "water_feed", "temperature_unit", "language", "auto_on", "auto_off",
            "profile_a", "profile_b", "profile_c", "brew_boiler", "steam_boiler",
            "brew_mode", "steam_mode"}
  /\ Integration["total_coffee_count"] = Count(77)
  /\ Integration["power"] = Switch(74, 0, 1)
  /\ Integration["service_boiler"] = Switch(73, 1, 0)
  /\ Integration["active_profile"] = Select(71, <<"A", "B", "C">>)
  /\ Integration["water_feed"] = Select(70, <<"mains", "tank">>)
  /\ Integration["temperature_unit"] = Select(0, <<"celsius", "fahrenheit">>)
  /\ Integration["language"] = Select(1, <<"english", "german", "french", "italian">>)
  /\ Integration["auto_on"] = Clock(81)
  /\ Integration["auto_off"] = Clock(83)
  /\ Integration["profile_a"] = Text(22)
  /\ Integration["profile_b"] = Text(38)
  /\ Integration["profile_c"] = Text(54)
  /\ Integration["brew_boiler"] = Number(2, 85, 115)
  /\ Integration["steam_boiler"] = Number(3, 115, 125)
  /\ Integration["brew_mode"] = Mode(74, 0, 1, {})
  /\ Integration["steam_mode"] = Mode(73, 1, 0, {74})
BY DEF Key, Integration, ENTITIES, CLIMATE_ENTITIES, STANDBY, Joined

\* Both registries describe what they share alike; MQTT has no profiles.
LEMMA SameRegistry ==
  /\ "auto_on" \in DOMAIN Mqtt /\ DOMAIN Mqtt \subseteq Key
  /\ \A k \in DOMAIN Mqtt : Mqtt[k] = Integration[k] /\ Mqtt[k].kind # "profile"
<1> USE DEF Mqtt, MqttEntities, MqttClimate, MqttWaterFeed, Joined
<1>1. /\ DOMAIN Mqtt \subseteq Key
      /\ \A k \in DOMAIN Mqtt : Mqtt[k] = Integration[k]
  BY DEF Key, Integration, ENTITIES, CLIMATE_ENTITIES, STANDBY
<1>2. DOMAIN Mqtt = {"total_coffee_count", "power", "service_boiler", "active_profile",
                     "water_feed", "temperature_unit", "language", "auto_on", "auto_off",
                     "brew_boiler", "steam_boiler"}
  OBVIOUS
<1> HIDE DEF Mqtt, MqttEntities, MqttClimate, MqttWaterFeed, Joined
<1>3. \A k \in DOMAIN Mqtt : Integration[k].kind # "profile"
  BY <1>2, Registry DEF Count, Switch, Select, Number, Clock
<1> QED BY <1>1, <1>2, <1>3

\* Tuples of different values are different, as far as it is used here.
LEMMA ValuesDiffer ==
  /\ On # Off /\ On # NoValue /\ Off # NoValue
  /\ \A x : <<x>> # NoValue /\ <<x>> # Junk /\ <<x>> # Disabled
  /\ \A x, y : <<x, y>> # NoValue /\ <<x, y>> # Junk
<1>1. Len(<<>>) = 0 /\ Len(Junk) = 3 /\ Len(Disabled) = 2
  BY EntityAssumption DEF Junk, EntityAssumption
<1>2. \A x : Len(<<x>>) = 1 OBVIOUS
<1>3. \A x, y : Len(<<x, y>>) = 2 OBVIOUS
<1>4. On[1] = 1 /\ Off[1] = 0 BY DEF On, Off
<1> QED BY <1>1, <1>2, <1>3, <1>4 DEF NoValue, On, Off

\* What an entity's reading depends on, and what its commands write.
ReadAt(e) ==
  CASE e.kind \in {"count", "time"} -> {e.at, e.at + 1}
    [] e.kind = "profile" -> e.at..(e.at + 14)
    [] e.kind = "mode" -> {e.at} \cup e.needs
    [] OTHER -> {e.at}
WriteAt(e) ==
  CASE e.kind = "time" -> {e.at, e.at + 1}
    [] e.kind = "profile" -> e.at..(e.at + 14)
    [] e.kind = "count" -> {}
    [] OTHER -> {e.at}

\* A block that agrees where an entity reads is read alike.
LEMMA ReadsLocal ==
  ASSUME NEW k \in Key, NEW s, NEW t,
         \A a \in ReadAt(Integration[k]) : s[a] = t[a]
  PROVE  IntegrationReads(k, s) = IntegrationReads(k, t)
<1> DEFINE e == Integration[k]
<1> SUFFICES Reads(e, s) = Reads(e, t) BY DEF IntegrationReads
<1> HIDE DEF e
<1>0. \A a \in ReadAt(e) : s[a] = t[a] BY DEF e
<1>1. CASE e.kind \in {"switch", "select", "number"}
  BY <1>0, <1>1 DEF Reads, ReadAt, Option
<1>2. CASE e.kind \in {"count", "time"}
  BY <1>0, <1>2 DEF Reads, ReadAt
<1>3. CASE e.kind = "mode"
  BY <1>0, <1>3 DEF Reads, ReadAt
<1>4. CASE e.kind = "profile"
  <2>1. e.at \in Nat BY <1>4, Registry DEF e, Count, Switch, Select, Number, Clock, Text, Mode
  <2>2. \A i \in 1..5 : /\ e.at + 2 * (i - 1) \in ReadAt(e)
                        /\ e.at + 2 * i - 1 \in ReadAt(e)
                        /\ e.at + 9 + i \in ReadAt(e)
    BY <1>4, <2>1 DEF ReadAt
  <2>3. \A i \in 1..5 : /\ s[e.at + 2 * (i - 1)] = t[e.at + 2 * (i - 1)]
                        /\ s[e.at + 2 * i - 1] = t[e.at + 2 * i - 1]
                        /\ s[e.at + 9 + i] = t[e.at + 9 + i]
    BY <1>0, <2>2
  <2>4. DecodeProfile(e, s) = DecodeProfile(e, t)
    BY <2>3, Zenon DEF DecodeProfile
  <2>5. \A x : Reads(e, x) = DecodeProfile(e, x)
    BY <1>4 DEF Reads
  <2> QED BY <2>4, <2>5
<1>5. e.kind \in {"switch", "select", "number", "count", "time", "mode", "profile"}
  BY Registry DEF e, Count, Switch, Select, Number, Clock, Text, Mode
<1> QED BY <1>1, <1>2, <1>3, <1>4, <1>5

At(k, read, write) ==
  ReadAt(Integration[k]) = read /\ WriteAt(Integration[k]) = write

\* Where each entity reads and writes.
LEMMA Layout ==
  /\ At("total_coffee_count", {77, 78}, {})
  /\ At("auto_on", {81, 82}, {81, 82})
  /\ At("auto_off", {83, 84}, {83, 84})
  /\ At("profile_a", 22..36, 22..36)
  /\ At("profile_b", 38..52, 38..52)
  /\ At("profile_c", 54..68, 54..68)
  /\ At("power", {74}, {74})
  /\ At("service_boiler", {73}, {73})
  /\ At("active_profile", {71}, {71})
  /\ At("water_feed", {70}, {70})
  /\ At("temperature_unit", {0}, {0})
  /\ At("language", {1}, {1})
  /\ At("brew_boiler", {2}, {2})
  /\ At("steam_boiler", {3}, {3})
  /\ At("brew_mode", {74}, {74})
  /\ At("steam_mode", {73, 74}, {73})
<1> USE DEF At
<1>1. At("total_coffee_count", {77, 78}, {})
  BY Registry DEF ReadAt, WriteAt, Count, Switch, Select, Number, Clock, Text, Mode
<1>2. At("auto_on", {81, 82}, {81, 82})
  BY Registry DEF ReadAt, WriteAt, Count, Switch, Select, Number, Clock, Text, Mode
<1>3. At("auto_off", {83, 84}, {83, 84})
  BY Registry DEF ReadAt, WriteAt, Count, Switch, Select, Number, Clock, Text, Mode
<1>4. At("profile_a", 22..36, 22..36)
  BY Registry DEF ReadAt, WriteAt, Count, Switch, Select, Number, Clock, Text, Mode
<1>5. At("profile_b", 38..52, 38..52)
  BY Registry DEF ReadAt, WriteAt, Count, Switch, Select, Number, Clock, Text, Mode
<1>6. At("profile_c", 54..68, 54..68)
  BY Registry DEF ReadAt, WriteAt, Count, Switch, Select, Number, Clock, Text, Mode
<1>7. At("power", {74}, {74})
  BY Registry DEF ReadAt, WriteAt, Count, Switch, Select, Number, Clock, Text, Mode
<1>8. At("service_boiler", {73}, {73})
  BY Registry DEF ReadAt, WriteAt, Count, Switch, Select, Number, Clock, Text, Mode
<1>9. At("active_profile", {71}, {71})
  BY Registry DEF ReadAt, WriteAt, Count, Switch, Select, Number, Clock, Text, Mode
<1>10. At("water_feed", {70}, {70})
  BY Registry DEF ReadAt, WriteAt, Count, Switch, Select, Number, Clock, Text, Mode
<1>11. At("temperature_unit", {0}, {0})
  BY Registry DEF ReadAt, WriteAt, Count, Switch, Select, Number, Clock, Text, Mode
<1>12. At("language", {1}, {1})
  BY Registry DEF ReadAt, WriteAt, Count, Switch, Select, Number, Clock, Text, Mode
<1>13. At("brew_boiler", {2}, {2})
  BY Registry DEF ReadAt, WriteAt, Count, Switch, Select, Number, Clock, Text, Mode
<1>14. At("steam_boiler", {3}, {3})
  BY Registry DEF ReadAt, WriteAt, Count, Switch, Select, Number, Clock, Text, Mode
<1>15. At("brew_mode", {74}, {74})
  BY Registry DEF ReadAt, WriteAt, Count, Switch, Select, Number, Clock, Text, Mode
<1>16. At("steam_mode", {73, 74}, {73})
  BY Registry DEF ReadAt, WriteAt, Count, Switch, Select, Number, Clock, Text, Mode
<1> QED BY <1>1, <1>2, <1>3, <1>4, <1>5, <1>6, <1>7, <1>8, <1>9,
       <1>10, <1>11, <1>12, <1>13, <1>14, <1>15, <1>16

LEMMA ReadInBlock == \A k \in Key : ReadAt(Integration[k]) \subseteq Addr
<1> SUFFICES ASSUME NEW k \in Key PROVE ReadAt(Integration[k]) \subseteq Addr
  OBVIOUS
<1> USE DEF At, Addr
<1>1. CASE k = "total_coffee_count" BY <1>1, Layout
<1>2. CASE k = "auto_on" BY <1>2, Layout
<1>3. CASE k = "auto_off" BY <1>3, Layout
<1>4. CASE k = "profile_a" BY <1>4, Layout
<1>5. CASE k = "profile_b" BY <1>5, Layout
<1>6. CASE k = "profile_c" BY <1>6, Layout
<1>7. CASE k = "power" BY <1>7, Layout
<1>8. CASE k = "service_boiler" BY <1>8, Layout
<1>9. CASE k = "active_profile" BY <1>9, Layout
<1>10. CASE k = "water_feed" BY <1>10, Layout
<1>11. CASE k = "temperature_unit" BY <1>11, Layout
<1>12. CASE k = "language" BY <1>12, Layout
<1>13. CASE k = "brew_boiler" BY <1>13, Layout
<1>14. CASE k = "steam_boiler" BY <1>14, Layout
<1>15. CASE k = "brew_mode" BY <1>15, Layout
<1>16. CASE k = "steam_mode" BY <1>16, Layout
<1> QED BY Registry, <1>1, <1>2, <1>3, <1>4, <1>5, <1>6, <1>7, <1>8, <1>9,
       <1>10, <1>11, <1>12, <1>13, <1>14, <1>15, <1>16

\* An entity of which another reads a byte is related to it.
LEMMA WritesApart ==
  ASSUME NEW k \in Key, NEW j \in Key, ~Related(j, k)
  PROVE  ReadAt(Integration[j]) \cap WriteAt(Integration[k]) = {}
<1>1. CASE k = "total_coffee_count" BY <1>1, Registry, Layout DEF At, Related
<1>2. CASE k = "auto_on" BY <1>2, Registry, Layout DEF At, Related
<1>3. CASE k = "auto_off" BY <1>3, Registry, Layout DEF At, Related
<1>4. CASE k = "profile_a" BY <1>4, Registry, Layout DEF At, Related
<1>5. CASE k = "profile_b" BY <1>5, Registry, Layout DEF At, Related
<1>6. CASE k = "profile_c" BY <1>6, Registry, Layout DEF At, Related
<1>7. CASE k = "power" BY <1>7, Registry, Layout DEF At, Related
<1>8. CASE k = "service_boiler" BY <1>8, Registry, Layout DEF At, Related
<1>9. CASE k = "active_profile" BY <1>9, Registry, Layout DEF At, Related
<1>10. CASE k = "water_feed" BY <1>10, Registry, Layout DEF At, Related
<1>11. CASE k = "temperature_unit" BY <1>11, Registry, Layout DEF At, Related
<1>12. CASE k = "language" BY <1>12, Registry, Layout DEF At, Related
<1>13. CASE k = "brew_boiler" BY <1>13, Registry, Layout DEF At, Related
<1>14. CASE k = "steam_boiler" BY <1>14, Registry, Layout DEF At, Related
<1>15. CASE k = "brew_mode" BY <1>15, Registry, Layout DEF At, Related
<1>16. CASE k = "steam_mode" BY <1>16, Registry, Layout DEF At, Related
<1> QED BY Registry, <1>1, <1>2, <1>3, <1>4, <1>5, <1>6, <1>7, <1>8, <1>9,
       <1>10, <1>11, <1>12, <1>13, <1>14, <1>15, <1>16

\* A write puts its bytes where it says and leaves the rest.
LEMMA WrittenBytes ==
  ASSUME NEW s \in Settings, NEW at \in Int, NEW n \in Nat, NEW b, DOMAIN b = 1..n
  PROVE  /\ DOMAIN Written(s, at, b) = Addr
         /\ \A a \in Addr : a \in at..(at + n - 1) => Written(s, at, b)[a] = b[a - at + 1]
         /\ \A a \in Addr : a \notin at..(at + n - 1) => Written(s, at, b)[a] = s[a]
         /\ (\A i \in 1..n : b[i] \in Byte) => Written(s, at, b) \in Settings
<1>0. Addr \subseteq Int BY DEF Addr
<1>1. \A a \in Addr : a - at + 1 \in 1..n <=> a \in at..(at + n - 1) BY <1>0
<1>2. Written(s, at, b) = [a \in Addr |-> IF a - at + 1 \in 1..n THEN b[a - at + 1] ELSE s[a]]
  BY DEF Written, Settings
<1>3. (\A i \in 1..n : b[i] \in Byte) => Written(s, at, b) \in Settings
  BY <1>2 DEF Settings
<1> QED BY <1>1, <1>2, <1>3

\* What may be sent for an entity: what it offers, the sentinel of a timer,
\* and, over MQTT, anything.
Sendable(e) ==
  Asked(e) \cup (IF e.kind = "time" THEN {Disabled} ELSE {})
           \cup (IF e.kind = "profile" THEN {} ELSE {Junk})

\* What the entity's commands write is its bytes, all of them, or nothing.
Fills(e, b) ==
  \E n \in Nat : /\ DOMAIN b = 1..n /\ \A i \in 1..n : b[i] \in Byte
                 /\ e.at..(e.at + n - 1) = WriteAt(e)

LEMMA OneByte ==
  ASSUME NEW e, NEW x \in Byte, e.at \in Int, WriteAt(e) = {e.at}
  PROVE  Fills(e, <<x>>)
<1>1. DOMAIN <<x>> = 1..1 /\ <<x>>[1] = x OBVIOUS
<1>2. e.at..(e.at + 1 - 1) = {e.at} OBVIOUS
<1> QED BY <1>1, <1>2 DEF Fills

LEMMA TwoBytes ==
  ASSUME NEW e, NEW x \in Byte, NEW y \in Byte, e.at \in Int, WriteAt(e) = {e.at, e.at + 1}
  PROVE  Fills(e, <<x, y>>)
<1>1. DOMAIN <<x, y>> = 1..2 /\ <<x, y>>[1] = x /\ <<x, y>>[2] = y OBVIOUS
<1>2. e.at..(e.at + 2 - 1) = {e.at, e.at + 1} OBVIOUS
<1> QED BY <1>1, <1>2 DEF Fills

LEMMA SwitchFills ==
  ASSUME NEW e, e.kind \in {"switch", "mode"}, e.at \in Int, {e.on, e.off} \subseteq Byte, NEW v
  PROVE  Fills(e, Encode(e, v))
<1>1. WriteAt(e) = {e.at} BY DEF WriteAt
<1>2. Encode(e, v) = IF v = On THEN <<e.on>> ELSE <<e.off>> BY DEF Encode
<1> QED BY <1>1, <1>2, OneByte

LEMMA SelectFills ==
  ASSUME NEW e, e.kind = "select", e.at \in Int,
         NEW n \in 1..255, DOMAIN e.options = 1..n, NEW v, Encode(e, v) # <<>>
  PROVE  /\ Fills(e, Encode(e, v))
         /\ \E i \in 1..n : Encode(e, v) = <<i - 1>> /\ <<e.options[i]>> = v
<1> DEFINE S == {i \in DOMAIN e.options : <<e.options[i]>> = v}
           i == CHOOSE i \in S : TRUE
<1>1. Encode(e, v) = IF S = {} THEN <<>> ELSE <<i - 1>> BY DEF Encode
<1>2. S # {} BY <1>1
<1>3. i \in S BY <1>2
<1>i. i \in 1..n BY <1>3
<1>5. WriteAt(e) = {e.at} BY DEF WriteAt
<1> HIDE DEF i
<1>4. i - 1 \in Byte BY <1>i DEF Byte
<1>6. Fills(e, <<i - 1>>) BY <1>4, <1>5, OneByte
<1> QED BY <1>1, <1>2, <1>3, <1>i, <1>6

\* Half degrees are rounded to a neighbouring degree.
LEMMA RoundedNear ==
  ASSUME NEW h \in Int
  PROVE  Rounded(h) \in Int /\ 2 * Rounded(h) - h \in -1..1
BY DEF Rounded

LEMMA NumberFills ==
  ASSUME NEW e, e.kind = "number", e.at \in Int, e.lo..e.hi \subseteq Byte,
         NEW v, v = Junk \/ v[1] \in Int, Encode(e, v) # <<>>
  PROVE  /\ Fills(e, Encode(e, v))
         /\ v # Junk /\ Encode(e, v) = <<Rounded(v[1])>>
<1>1. v # Junk /\ Rounded(v[1]) \in e.lo..e.hi /\ Encode(e, v) = <<Rounded(v[1])>>
  BY DEF Encode
<1>2. WriteAt(e) = {e.at} BY DEF WriteAt
<1> QED BY <1>1, <1>2, OneByte

\* A timer's value is two bytes; only the sentinel is not a time.
LEMMA TimeBytes ==
  ASSUME NEW v \in Value
  PROVE  /\ v[1] \in Byte /\ v[2] \in Byte /\ v = <<v[1], v[2]>> /\ Len(v) = 2
         /\ v # Disabled <=> IsTime(v)
         /\ v # Junk /\ v # <<>>
<1>1. CASE v \in Time
  <2>0. Time \subseteq (0..23) \X (0..59) BY EntityAssumption DEF EntityAssumption
  <2>1. PICK h \in 0..23, m \in 0..59 : v = <<h, m>> BY <1>1, <2>0
  <2>2. <<h, m>>[1] = h /\ <<h, m>>[2] = m /\ Len(<<h, m>>) = 2 OBVIOUS
  <2>3. v # Disabled BY <1>1, TimerAssumption DEF TimerAssumption
  <2>4. v # Junk /\ v # <<>> BY <2>1, ValuesDiffer DEF NoValue
  <2> QED BY <2>1, <2>2, <2>3, <2>4 DEF Byte, IsTime
<1>2. CASE v = Disabled
  <2>1. v = <<100, 100>> BY <1>2, EntityAssumption DEF EntityAssumption
  <2> QED BY <1>2, <2>1, ValuesDiffer DEF Byte, IsTime, NoValue
<1> QED BY <1>1, <1>2

LEMMA TimeFills ==
  ASSUME NEW e, e.kind = "time", e.at \in Int, NEW v \in Value \cup {Junk}, Encode(e, v) # <<>>
  PROVE  Fills(e, Encode(e, v)) /\ v \in Value /\ Encode(e, v) = v
<1>1. v # Junk /\ Encode(e, v) = v BY DEF Encode
<1>2. v[1] \in Byte /\ v[2] \in Byte /\ v = <<v[1], v[2]>> BY <1>1, TimeBytes
<1>3. WriteAt(e) = {e.at, e.at + 1} BY DEF WriteAt
<1>4. Fills(e, <<v[1], v[2]>>) BY <1>2, <1>3, TwoBytes
<1> QED BY <1>1, <1>2, <1>4

\* Step i of a profile asked for; what is left out is zero.
StepOf(v, i) == IF i \in DOMAIN v THEN v[i] ELSE <<0, 0>>

\* Deciseconds and decibar of a valid profile, and their bytes.
LEMMA StepBytes ==
  ASSUME NEW v \in Seq(Nat \X Nat), ValidProfile(v), NEW i \in 1..5
  PROVE  LET x == StepOf(v, i)[1]  y == StepOf(v, i)[2]
         IN  /\ x % 256 \in Byte /\ x \div 256 \in Byte /\ y \in Byte
             /\ (x % 256) + 256 * (x \div 256) = x
<1> DEFINE x == StepOf(v, i)[1]
           y == StepOf(v, i)[2]
<1>1. x \in Nat /\ y \in Nat /\ x <= 600 /\ y <= 100
  <2>1. CASE i \in DOMAIN v
    <3>1. v[i] \in Nat \X Nat BY <2>1
    <3>2. v[i][1] \in Nat /\ v[i][2] \in Nat BY <3>1
    <3>3. v[i][1] <= 600 /\ v[i][2] <= 100 BY <2>1 DEF ValidProfile
    <3> QED BY <2>1, <3>2, <3>3 DEF StepOf
  <2>2. CASE i \notin DOMAIN v BY <2>2 DEF StepOf
  <2> QED BY <2>1, <2>2
<1> HIDE DEF x, y
<1>2. /\ x % 256 \in Byte /\ x \div 256 \in Byte /\ y \in Byte
      /\ (x % 256) + 256 * (x \div 256) = x
  BY <1>1 DEF Byte
<1> QED BY <1>2 DEF x, y

LEMMA ProfileFills ==
  ASSUME NEW e, e.kind = "profile", e.at \in Int,
         NEW v \in Seq(Nat \X Nat), Encode(e, v) # <<>>
  PROVE  /\ Fills(e, Encode(e, v))
         /\ \A i \in 1..5 :
              /\ Encode(e, v)[2 * i - 1] + 256 * Encode(e, v)[2 * i] = StepOf(v, i)[1]
              /\ Encode(e, v)[10 + i] = StepOf(v, i)[2]
<1> DEFINE b == Encode(e, v)
           f == [i \in 1..5 |-> IF i \in DOMAIN v THEN v[i] ELSE <<0, 0>>]
<1>1. ValidProfile(v) /\ b = EncodeProfile(v) BY DEF Encode
<1>2. \A i \in 1..5 : f[i] = StepOf(v, i) BY DEF StepOf
<1> HIDE DEF f
<1>3. b = [j \in 1..15 |-> IF j > 10 THEN f[j - 10][2]
                           ELSE IF j % 2 = 1 THEN f[(j + 1) \div 2][1] % 256
                                             ELSE f[j \div 2][1] \div 256]
  BY <1>1 DEF EncodeProfile, Packed, f
<1> HIDE DEF b
<1>4. ASSUME NEW i \in 1..5
      PROVE  /\ b[2 * i - 1] = StepOf(v, i)[1] % 256
             /\ b[2 * i] = StepOf(v, i)[1] \div 256
             /\ b[10 + i] = StepOf(v, i)[2]
  <2>1. /\ 2 * i - 1 \in 1..15 /\ ~(2 * i - 1 > 10) /\ (2 * i - 1) % 2 = 1
        /\ ((2 * i - 1) + 1) \div 2 = i
        /\ 2 * i \in 1..15 /\ ~(2 * i > 10) /\ (2 * i) % 2 # 1 /\ (2 * i) \div 2 = i
        /\ 10 + i \in 1..15 /\ 10 + i > 10 /\ (10 + i) - 10 = i
    OBVIOUS
  <2> QED BY <1>2, <1>3, <2>1
<1>5. DOMAIN b = 1..15 BY <1>3
<1>6. ASSUME NEW j \in 1..15 PROVE b[j] \in Byte
  <2>1. \/ j \in {1, 3, 5, 7, 9} \/ j \in {2, 4, 6, 8, 10} \/ j \in {11, 12, 13, 14, 15}
    OBVIOUS
  <2>2. \E i \in 1..5 : j = 2 * i - 1 \/ j = 2 * i \/ j = 10 + i
    BY <2>1
  <2> QED BY <1>1, <1>4, <2>2, StepBytes
<1>7. WriteAt(e) = e.at..(e.at + 15 - 1) BY DEF WriteAt
<1>8. Fills(e, b) BY <1>5, <1>6, <1>7 DEF Fills
<1>9. \A i \in 1..5 : b[2 * i - 1] + 256 * b[2 * i] = StepOf(v, i)[1]
  BY <1>1, <1>4, StepBytes
<1> QED BY <1>4, <1>8, <1>9 DEF b

\* Every command that is accepted fills its entity's bytes.
LEMMA CommandFills ==
  ASSUME NEW k \in Key, NEW v \in Sendable(Integration[k]),
         Encode(Integration[k], v) # <<>>
  PROVE  Fills(Integration[k], Encode(Integration[k], v)) /\ Integration[k].at \in Int
<1> DEFINE e == Integration[k]
<1>0. e.at \in Int BY Registry DEF Count, Switch, Select, Number, Clock, Text, Mode
<1>e. Fills(e, Encode(e, v)) /\ e.at \in Int =>
        Fills(Integration[k], Encode(Integration[k], v)) /\ Integration[k].at \in Int
  OBVIOUS
<1>v. v \in Sendable(e) /\ Encode(e, v) # <<>> OBVIOUS
<1>r. e = Integration[k] OBVIOUS
<1> HIDE DEF e
<1> SUFFICES Fills(e, Encode(e, v)) BY <1>0, <1>e
<1>1. CASE k \in {"power", "service_boiler", "brew_mode", "steam_mode"}
  <2>0. \/ \E at : e = Switch(at, 0, 1) \/ e = Switch(at, 1, 0)
        \/ \E at, n : e = Mode(at, 0, 1, n) \/ e = Mode(at, 1, 0, n)
    BY <1>1, <1>r, Registry
  <2>1. e.kind \in {"switch", "mode"} /\ {e.on, e.off} \subseteq Byte
    BY <2>0 DEF Byte, Switch, Mode
  <2> QED BY <1>0, <1>v, <2>1, SwitchFills
<1>2. CASE k \in {"active_profile", "water_feed", "temperature_unit", "language"}
  <2>0. \/ e = Select(71, <<"A", "B", "C">>) \/ e = Select(70, <<"mains", "tank">>)
        \/ e = Select(0, <<"celsius", "fahrenheit">>)
        \/ e = Select(1, <<"english", "german", "french", "italian">>)
    BY <1>2, <1>r, Registry
  <2>1. /\ e.kind = "select"
        /\ DOMAIN e.options = 1..2 \/ DOMAIN e.options = 1..3 \/ DOMAIN e.options = 1..4
    BY <2>0 DEF Select
  <2>2. {2, 3, 4} \subseteq 1..255 OBVIOUS
  <2>3. PICK n \in {2, 3, 4} : DOMAIN e.options = 1..n BY <2>1, Zenon
  <2> QED BY <1>0, <1>v, <2>1, <2>2, <2>3, SelectFills
<1>3. CASE k \in {"brew_boiler", "steam_boiler"}
  <2>0. e = Number(2, 85, 115) \/ e = Number(3, 115, 125)
    BY <1>3, <1>r, Registry
  <2>k. /\ e.kind = "number"
        /\ \/ e.lo = 85 /\ e.hi = 115
           \/ e.lo = 115 /\ e.hi = 125
    BY <2>0 DEF Number
  <2>1. e.kind = "number" /\ e.lo..e.hi \subseteq Byte
    <3>1. 85..115 \subseteq Byte /\ 115..125 \subseteq Byte BY DEF Byte
    <3> QED BY <2>k, <3>1
  <2>a. e.kind # "time" /\ e.kind # "profile" BY <2>1
  <2>b. v \in {<<x>> : x \in Setpoint} \cup {Junk}
    BY <1>v, <2>1, <2>a, Zenon DEF Sendable, Asked
  <2>2. v = Junk \/ \E x \in Setpoint : v = <<x>> BY <2>b
  <2>3. Setpoint \subseteq Int BY EntityAssumption DEF EntityAssumption
  <2>4. v = Junk \/ v[1] \in Int BY <2>2, <2>3
  <2> QED BY <1>0, <1>v, <2>1, <2>4, NumberFills
<1>4. CASE k \in {"auto_on", "auto_off"}
  <2>1. e.kind = "time" BY <1>4, <1>r, Registry DEF Clock
  <2>2. v \in Value \cup {Junk} BY <1>v, <2>1 DEF Sendable, Asked
  <2> QED BY <1>0, <1>v, <2>1, <2>2, TimeFills
<1>5. CASE k \in {"profile_a", "profile_b", "profile_c"}
  <2>1. e.kind = "profile" BY <1>5, <1>r, Registry DEF Text
  <2>2. v \in Profile BY <1>v, <2>1 DEF Sendable, Asked
  <2>3. Profile \subseteq Seq(Nat \X Nat) BY EntityAssumption DEF EntityAssumption
  <2> QED BY <1>0, <1>v, <2>1, <2>2, <2>3, ProfileFills
<1>6. CASE k = "total_coffee_count"
  <2>1. e.kind = "count" BY <1>6, <1>r, Registry DEF Count
  <2> QED BY <1>v, <2>1 DEF Encode
<1> QED BY <1>1, <1>2, <1>3, <1>4, <1>5, <1>6, <1>r, Registry

\* The block after an accepted command: the entity's bytes are the ones sent,
\* the others are as before.
LEMMA Landed ==
  ASSUME NEW k \in Key, NEW v \in Sendable(Integration[k]),
         Encode(Integration[k], v) # <<>>, NEW s \in Settings
  PROVE  LET e == Integration[k]
             t == After(s, Sent(e, v))
         IN  /\ t \in Settings
             /\ \A a \in Addr : a \in WriteAt(e) => t[a] = Encode(e, v)[a - e.at + 1]
             /\ \A a \in Addr : a \notin WriteAt(e) => t[a] = s[a]
<1> DEFINE e == Integration[k]
           b == Encode(e, v)
           t == After(s, Sent(e, v))
<1>1. Fills(e, b) /\ e.at \in Int BY CommandFills
<1>2. t = Written(s, e.at, b) BY DEF After, Sent
<1> HIDE DEF e, b, t
<1>4. PICK n \in Nat : /\ DOMAIN b = 1..n /\ \A i \in 1..n : b[i] \in Byte
                       /\ e.at..(e.at + n - 1) = WriteAt(e)
  BY <1>1 DEF Fills
<1> DEFINE w == Written(s, e.at, b)
<1>w. /\ w \in Settings
      /\ \A a \in Addr : a \in e.at..(e.at + n - 1) => w[a] = b[a - e.at + 1]
      /\ \A a \in Addr : a \notin e.at..(e.at + n - 1) => w[a] = s[a]
  BY <1>1, <1>4, WrittenBytes
<1> HIDE DEF w
<1>5. /\ t \in Settings
      /\ \A a \in Addr : a \in WriteAt(e) => t[a] = b[a - e.at + 1]
      /\ \A a \in Addr : a \notin WriteAt(e) => t[a] = s[a]
  BY <1>2, <1>4, <1>w DEF w
<1> QED BY <1>5 DEF e, b, t

\* It leaves every unrelated entity as it was.
LEMMA Undisturbed ==
  ASSUME NEW k \in Key, NEW v \in Sendable(Integration[k]),
         Encode(Integration[k], v) # <<>>, NEW s \in Settings,
         NEW j \in Key, ~Related(j, k)
  PROVE  IntegrationReads(j, After(s, Sent(Integration[k], v))) = IntegrationReads(j, s)
<1> DEFINE t == After(s, Sent(Integration[k], v))
<1>1. \A a \in Addr : a \notin WriteAt(Integration[k]) => t[a] = s[a] BY Landed
<1>2. ReadAt(Integration[j]) \subseteq Addr BY ReadInBlock
<1>3. \A a \in ReadAt(Integration[j]) : t[a] = s[a] BY <1>1, <1>2, WritesApart
<1> QED BY <1>3, ReadsLocal

\* A switch or a mode, a select, a number, a time, a profile reads back.
LEMMA SwitchReads ==
  ASSUME NEW e, e.kind = "switch", \/ e.on = 0 /\ e.off = 1
                                   \/ e.on = 1 /\ e.off = 0,
         NEW v \in {On, Off}, NEW t, t[e.at] = Encode(e, v)[1]
  PROVE  Reads(e, t) = v
<1>1. Encode(e, v) = IF v = On THEN <<e.on>> ELSE <<e.off>> BY DEF Encode
<1>2. t[e.at] = IF v = On THEN e.on ELSE e.off BY <1>1
<1>3. Reads(e, t) = Switched(IF e.on = 0 THEN t[e.at] = 0 ELSE t[e.at] # 0) BY DEF Reads
<1> QED BY <1>2, <1>3, ValuesDiffer DEF Switched

LEMMA ModeReads ==
  ASSUME NEW e, e.kind = "mode", \/ e.on = 0 /\ e.off = 1
                                 \/ e.on = 1 /\ e.off = 0,
         NEW v \in {On, Off}, NEW t, t[e.at] = Encode(e, v)[1],
         v = On => \A a \in e.needs : t[a] = 0
  PROVE  Reads(e, t) = v
<1>1. Encode(e, v) = IF v = On THEN <<e.on>> ELSE <<e.off>> BY DEF Encode
<1>2. t[e.at] = IF v = On THEN e.on ELSE e.off BY <1>1
<1>3. Reads(e, t) = Switched((e.on = 0) = (t[e.at] = 0) /\ \A a \in e.needs : t[a] = 0)
  BY DEF Reads
<1>4. CASE v = On
  <2>1. (e.on = 0) = (t[e.at] = 0) BY <1>2, <1>4
  <2> QED BY <1>3, <1>4, <2>1 DEF Switched
<1>5. CASE v = Off
  <2>1. t[e.at] = e.off BY <1>2, <1>5, ValuesDiffer
  <2>2. ((e.on = 0) = (t[e.at] = 0)) = FALSE BY <2>1
  <2> QED BY <1>3, <1>5, <2>2 DEF Switched
<1> QED BY <1>4, <1>5

LEMMA SelectReads ==
  ASSUME NEW e, e.kind = "select", NEW n \in Nat, Len(e.options) = n,
         NEW i \in 1..n, NEW t, t[e.at] = i - 1
  PROVE  Reads(e, t) = <<e.options[i]>>
<1>2. i - 1 < n /\ (i - 1) + 1 = i OBVIOUS
<1>3. Reads(e, t) = Option(e, t[e.at]) BY DEF Reads
<1> QED BY <1>2, <1>3 DEF Option

LEMMA ProfileReads ==
  ASSUME NEW e, e.kind = "profile", e.at \in Int,
         NEW v \in Seq(Nat \X Nat), Encode(e, v) # <<>>, NEW t,
         \A a \in e.at..(e.at + 14) : t[a] = Encode(e, v)[a - e.at + 1]
  PROVE  \A i \in 1..5 : Reads(e, t)[i] = StepOf(v, i)
<1> DEFINE b == Encode(e, v)
<1>1. \A i \in 1..5 : /\ b[2 * i - 1] + 256 * b[2 * i] = StepOf(v, i)[1]
                      /\ b[10 + i] = StepOf(v, i)[2]
  BY ProfileFills
<1> HIDE DEF b
<1>2. \A a \in e.at..(e.at + 14) : t[a] = b[a - e.at + 1] BY DEF b
<1>3. ASSUME NEW i \in 1..5
      PROVE  /\ t[e.at + 2 * (i - 1)] = b[2 * i - 1]
             /\ t[e.at + 2 * i - 1] = b[2 * i]
             /\ t[e.at + 9 + i] = b[10 + i]
  <2>1. \A at \in Int :
          /\ at + 2 * (i - 1) \in at..(at + 14)
          /\ at + 2 * i - 1 \in at..(at + 14)
          /\ at + 9 + i \in at..(at + 14)
          /\ (at + 2 * (i - 1)) - at + 1 = 2 * i - 1
          /\ (at + 2 * i - 1) - at + 1 = 2 * i
          /\ (at + 9 + i) - at + 1 = 10 + i
    OBVIOUS
  <2> QED BY <1>2, <2>1
<1>4. ASSUME NEW i \in 1..5 PROVE StepOf(v, i) = <<StepOf(v, i)[1], StepOf(v, i)[2]>>
  BY DEF StepOf
<1>5. Reads(e, t) = DecodeProfile(e, t) BY DEF Reads
<1>6. ASSUME NEW i \in 1..5
      PROVE  DecodeProfile(e, t)[i] = <<b[2 * i - 1] + 256 * b[2 * i], b[10 + i]>>
  BY <1>3, Zenon DEF DecodeProfile
<1>7. ASSUME NEW i \in 1..5 PROVE Reads(e, t)[i] = StepOf(v, i)
  <2>1. DecodeProfile(e, t)[i] = <<StepOf(v, i)[1], StepOf(v, i)[2]>> BY <1>1, <1>6
  <2> QED BY <1>4, <1>5, <2>1
<1> QED BY <1>7

\* What an entity offers, the sentinel of a timer included, is read back.
Offered(e) == Asked(e) \cup (IF e.kind = "time" THEN {Disabled} ELSE {})

\* The two bytes a switch writes.
Opposed(e) == \/ e.on = 0 /\ e.off = 1
              \/ e.on = 1 /\ e.off = 0

\* The kinds of the registry's entries.
Kinds(k, e) ==
  \/ k \in {"power", "service_boiler"} /\ e.kind = "switch"
     /\ Opposed(e)
  \/ k \in {"brew_mode", "steam_mode"} /\ e.kind = "mode"
     /\ Opposed(e)
     /\ (k = "brew_mode" => e.needs = {}) /\ (k = "steam_mode" => e.needs = {STANDBY})
  \/ e.kind = "select" /\ Len(e.options) \in {2, 3, 4}
     /\ DOMAIN e.options = 1..Len(e.options)
  \/ e.kind = "number" /\ e.lo \in Byte /\ e.hi \in Byte
  \/ k \in {"auto_on", "auto_off"} /\ e.kind = "time"
  \/ e.kind = "profile"
  \/ e.kind = "count"

LEMMA KindsOf ==
  ASSUME NEW k \in Key
  PROVE  /\ Kinds(k, Integration[k]) /\ Integration[k].at \in Addr
         /\ Integration[k].kind = "profile" => Integration[k].at + 14 \in Addr
         /\ Integration[k].kind = "time" => Integration[k].at + 1 \in Addr
<1> DEFINE e == Integration[k]
<1>at. /\ e.at \in Addr /\ (e.kind = "profile" => e.at + 14 \in Addr)
       /\ (e.kind = "time" => e.at + 1 \in Addr)
  BY Registry DEF Addr, Count, Switch, Select, Number, Clock, Text, Mode
<1> SUFFICES Kinds(k, e) BY <1>at
<1>r. e = Integration[k] OBVIOUS
<1> HIDE DEF e
<1>1. CASE k \in {"power", "service_boiler"}
  <2>0. e = Switch(74, 0, 1) \/ e = Switch(73, 1, 0) BY <1>1, <1>r, Registry
  <2>a. e = Switch(74, 0, 1) => e.kind = "switch" /\ e.on = 0 /\ e.off = 1 BY DEF Switch
  <2>b. e = Switch(73, 1, 0) => e.kind = "switch" /\ e.on = 1 /\ e.off = 0 BY DEF Switch
  <2>1. e.kind = "switch" /\ Opposed(e)
    BY <2>0, <2>a, <2>b DEF Opposed
  <2> QED BY <1>1, <2>1, Zenon DEF Kinds
<1>2. CASE k \in {"brew_mode", "steam_mode"}
  <2>0. \/ k = "brew_mode" /\ e = Mode(74, 0, 1, {})
        \/ k = "steam_mode" /\ e = Mode(73, 1, 0, {74})
    BY <1>2, <1>r, Registry
  <2>1. /\ e.kind = "mode" /\ Opposed(e)
        /\ (k = "brew_mode" => e.needs = {}) /\ (k = "steam_mode" => e.needs = {74})
    <3>1. e = Mode(74, 0, 1, {}) =>
            e.kind = "mode" /\ e.on = 0 /\ e.off = 1 /\ e.needs = {}
      BY DEF Mode
    <3>2. e = Mode(73, 1, 0, {74}) =>
            e.kind = "mode" /\ e.on = 1 /\ e.off = 0 /\ e.needs = {74}
      BY DEF Mode
    <3>3. "brew_mode" # "steam_mode" OBVIOUS
    <3> QED BY <2>0, <3>1, <3>2, <3>3 DEF Opposed
  <2> QED BY <1>2, <2>1, Zenon DEF Kinds, STANDBY
<1>3. CASE k \in {"active_profile", "water_feed", "temperature_unit", "language"}
  <2>1. e.kind = "select" BY <1>3, <1>r, Registry DEF Select
  <2>2. \/ e.options = <<"A", "B", "C">> \/ e.options = <<"mains", "tank">>
        \/ e.options = <<"celsius", "fahrenheit">>
        \/ e.options = <<"english", "german", "french", "italian">>
    BY <1>3, <1>r, Registry DEF Select
  <2>3. Len(e.options) \in {2, 3, 4} BY <2>2
  <2>4. DOMAIN e.options = 1..Len(e.options) BY <2>2
  <2> QED BY <2>1, <2>3, <2>4, Zenon DEF Kinds
<1>4. CASE k \in {"brew_boiler", "steam_boiler"}
  <2>1. e.kind = "number" /\ e.lo \in {85, 115} /\ e.hi \in {115, 125}
    BY <1>4, <1>r, Registry DEF Number
  <2> QED BY <2>1 DEF Kinds, Byte
<1>5. CASE k \in {"auto_on", "auto_off"} BY <1>5, <1>r, Registry DEF Kinds, Clock
<1>6. CASE k \in {"profile_a", "profile_b", "profile_c"} BY <1>6, <1>r, Registry DEF Kinds, Text
<1>7. CASE k = "total_coffee_count" BY <1>7, <1>r, Registry DEF Kinds, Count
<1> QED BY <1>1, <1>2, <1>3, <1>4, <1>5, <1>6, <1>7, Registry

LEMMA ReadsBack ==
  ASSUME NEW k \in Key, NEW v \in Offered(Integration[k]),
         Encode(Integration[k], v) # <<>>, NEW s \in Settings
  PROVE  LET after == After(s, Sent(Integration[k], v))
         IN  \/ k = "steam_mode" /\ v = On /\ after[STANDBY] # 0
             \/ Fits(Integration[k], v, IntegrationReads(k, after))
<1> DEFINE e == Integration[k]
           t == After(s, Sent(e, v))
           b == Encode(e, v)
<1>1. v \in Sendable(e) BY DEF Offered, Sendable
<1>2. \A a \in Addr : a \in WriteAt(e) => t[a] = b[a - e.at + 1] BY <1>1, Landed
<1>3. /\ Kinds(k, e) /\ e.at \in Addr /\ (e.kind = "profile" => e.at + 14 \in Addr)
      /\ (e.kind = "time" => e.at + 1 \in Addr)
  BY KindsOf
<1>4. e.at \in Int /\ e.at - e.at + 1 = 1
  <2>1. \A at \in Addr : at \in Int /\ at - at + 1 = 1 BY DEF Addr
  <2> QED BY <1>3, <2>1
<1>5. e.kind # "time" => IntegrationReads(k, t) = Reads(e, t) BY DEF IntegrationReads
<1>6. e.kind # "count" => t[e.at] = b[1]
  <2>1. e.kind # "count" => e.at \in WriteAt(e) BY <1>4 DEF WriteAt
  <2> QED BY <1>2, <1>3, <1>4, <2>1
<1>7. v \in {On, Off} \/ (\E x : v = <<x>>) => v # Disabled
  BY ValuesDiffer DEF On, Off
<1>s. CASE e.kind = "switch"
  <2>1. v \in {On, Off} BY <1>s DEF Offered, Asked
  <2>2. Reads(e, t) = v BY <1>3, <1>6, <1>s, <2>1, SwitchReads DEF Kinds, Opposed
  <2> QED BY <1>5, <1>7, <1>s, <2>1, <2>2 DEF Fits
<1>m. CASE e.kind = "mode"
  <2>1. v \in {On, Off} BY <1>m DEF Offered, Asked
  <2>2. CASE v = On => \A a \in e.needs : t[a] = 0
    <3>1. Reads(e, t) = v BY <1>3, <1>6, <1>m, <2>1, <2>2, ModeReads DEF Kinds, Opposed
    <3> QED BY <1>5, <1>7, <1>m, <2>1, <3>1 DEF Fits
  <2>3. CASE ~(v = On => \A a \in e.needs : t[a] = 0)
    BY <1>3, <1>m, <2>3 DEF Kinds
  <2> QED BY <2>2, <2>3
<1>l. CASE e.kind = "select"
  <2>1. Len(e.options) \in {2, 3, 4} /\ DOMAIN e.options = 1..Len(e.options)
    BY <1>3, <1>l DEF Kinds
  <2>2. PICK n \in 1..255 : Len(e.options) = n /\ DOMAIN e.options = 1..n
    <3>1. {2, 3, 4} \subseteq 1..255 OBVIOUS
    <3> QED BY <2>1, <3>1, Zenon
  <2>3. PICK i \in 1..n : b = <<i - 1>> /\ <<e.options[i]>> = v
    BY <1>4, <1>l, <2>2, SelectFills
  <2>4. t[e.at] = i - 1 BY <1>6, <1>l, <2>3
  <2>5. Reads(e, t) = v BY <1>l, <2>2, <2>3, <2>4, SelectReads
  <2> QED BY <1>5, <1>7, <1>l, <2>3, <2>5 DEF Fits
<1>n. CASE e.kind = "number"
  <2>1. PICK x \in Int : v = <<x>>
    <3>1. Asked(e) = {<<x>> : x \in Setpoint} BY <1>n DEF Asked
    <3>2. v \in {<<x>> : x \in Setpoint} BY <1>n, <3>1 DEF Offered
    <3>3. Setpoint \subseteq Int BY EntityAssumption DEF EntityAssumption
    <3> QED BY <3>2, <3>3
  <2>2. v[1] = x BY <2>1
  <2>3. b = <<Rounded(x)>> BY <1>n, <2>2 DEF Encode
  <2>4. Reads(e, t) = <<Rounded(x)>>
    BY <1>6, <1>n, <2>3 DEF Reads
  <2>5. 2 * Rounded(x) - x \in -1..1 BY RoundedNear
  <2> QED BY <1>5, <1>n, <2>2, <2>4, <2>5 DEF Fits
<1>c. CASE e.kind = "time"
  <2>1. v \in Value BY <1>c DEF Offered, Asked
  <2>2. b = v /\ v = <<v[1], v[2]>> BY <1>c, <2>1, TimeBytes DEF Encode
  <2>3. t[e.at] = v[1] BY <1>6, <1>c, <2>2
  <2>4. t[e.at + 1] = v[2]
    <3>1. e.at + 1 \in WriteAt(e) BY <1>c DEF WriteAt
    <3>2. (e.at + 1) - e.at + 1 = 2 BY <1>4
    <3> QED BY <1>2, <1>3, <1>c, <2>2, <3>1, <3>2
  <2>5. Reads(e, t) = v BY <1>c, <2>2, <2>3, <2>4 DEF Reads
  <2>6. IntegrationReads(k, t) = IF v = Disabled THEN NoValue ELSE v
    BY <1>c, <2>1, <2>5, TimeBytes DEF IntegrationReads
  <2> QED BY <1>c, <2>6 DEF Fits
<1>p. CASE e.kind = "profile"
  <2>1. v \in Seq(Nat \X Nat)
    <3>1. v \in Profile BY <1>p DEF Offered, Asked
    <3>2. Profile \subseteq Seq(Nat \X Nat) BY EntityAssumption DEF EntityAssumption
    <3> QED BY <3>1, <3>2
  <2>2. \A a \in e.at..(e.at + 14) : t[a] = b[a - e.at + 1]
    <3>0. \A at \in Addr : at + 14 \in Addr => at..(at + 14) \subseteq Addr
      BY DEF Addr
    <3>1. e.at..(e.at + 14) \subseteq Addr BY <1>3, <1>p, <3>0
    <3>2. WriteAt(e) = e.at..(e.at + 14) BY <1>p DEF WriteAt
    <3> QED BY <1>2, <3>1, <3>2
  <2>3. \A i \in 1..5 : Reads(e, t)[i] = StepOf(v, i)
    BY <1>4, <1>p, <2>1, <2>2, ProfileReads
  <2> QED BY <1>5, <1>p, <2>3 DEF Fits, StepOf
<1>o. CASE e.kind = "count" BY <1>o DEF Encode
<1> QED BY <1>3, <1>s, <1>m, <1>l, <1>n, <1>c, <1>p, <1>o DEF Kinds

LEMMA BackHolds ==
  ASSUME NEW k \in Key, NEW v \in Offered(Integration[k]), NEW s \in Settings
  PROVE  Back(s, k, Integration[k], v)
<1>1. v \in Sendable(Integration[k]) BY DEF Offered, Sendable
<1> SUFFICES ASSUME Encode(Integration[k], v) # <<>>
             PROVE  LET after == After(s, Sent(Integration[k], v))
                    IN  /\ \/ k = "steam_mode" /\ v = On /\ after[STANDBY] # 0
                           \/ Fits(Integration[k], v, IntegrationReads(k, after))
                        /\ \A j \in Key :
                             IntegrationReads(j, after) # IntegrationReads(j, s) => Related(j, k)
  BY DEF Back
<1> QED BY <1>1, ReadsBack, Undisturbed

-----------------------------------------------------------------------------
(* The machine's settings under commands.                                   *)

\* The timer's bytes in a block, written over whatever was there.
LEMMA TimedBytes ==
  ASSUME NEW s \in Settings, NEW t \in Value
  PROVE  /\ TimedAt(s, t) \in Settings
         /\ TimedAt(s, t)[81] = t[1] /\ TimedAt(s, t)[82] = t[2]
         /\ \A u \in Value : Written(TimedAt(s, t), 81, u) = TimedAt(s, u)
<1>1. Integration.auto_on.at = 81 BY Registry DEF Clock
<1>2. \A u \in Value : DOMAIN u = 1..2 /\ u[1] \in Byte /\ u[2] \in Byte
  <2> TAKE u \in Value
  <2>1. u = <<u[1], u[2]>> /\ u[1] \in Byte /\ u[2] \in Byte BY TimeBytes
  <2>2. DOMAIN <<u[1], u[2]>> = 1..2 OBVIOUS
  <2> QED BY <2>1, <2>2, Zenon
<1>3. \A u \in Value : TimedAt(s, u) = [a \in Addr |-> IF a - 81 + 1 \in 1..2
                                                       THEN u[a - 81 + 1] ELSE s[a]]
  BY <1>1, <1>2 DEF TimedAt, Written, Settings
<1>4. \A a \in Addr : a - 81 + 1 \in 1..2 => a - 81 + 1 = 1 \/ a - 81 + 1 = 2
  BY DEF Addr
<1>5. TimedAt(s, t) \in Settings BY <1>2, <1>3, <1>4 DEF Settings
<1>6. 81 \in Addr /\ 82 \in Addr /\ 81 - 81 + 1 = 1 /\ 82 - 81 + 1 = 2 BY DEF Addr
<1>7. TimedAt(s, t)[81] = t[1] /\ TimedAt(s, t)[82] = t[2] BY <1>3, <1>6
<1>8. ASSUME NEW u \in Value PROVE Written(TimedAt(s, t), 81, u) = TimedAt(s, u)
  <2>1. DOMAIN TimedAt(s, t) = Addr /\ DOMAIN u = 1..2 BY <1>2, <1>3
  <2>2. Written(TimedAt(s, t), 81, u) =
          [a \in Addr |-> IF a - 81 + 1 \in 1..2 THEN u[a - 81 + 1] ELSE TimedAt(s, t)[a]]
    BY <2>1 DEF Written
  <2>3. \A a \in Addr : a - 81 + 1 \notin 1..2 => TimedAt(s, t)[a] = s[a] BY <1>3
  <2> QED BY <1>3, <2>2, <2>3
<1> QED BY <1>5, <1>7, <1>8

\* Every command but the timer's own is one of another entity's.
Other(c) ==
  \E k \in Key \ {"auto_on"} : \E v \in Sendable(Integration[k]) :
    c = Sent(Integration[k], v) /\ Encode(Integration[k], v) # <<>>

LEMMA OthersCommands ==
  ASSUME NEW c \in FromIntegration \cup FromMqtt PROVE Other(c)
<1>1. CASE c \in FromIntegration
  <2>1. PICK k \in Key \ {"auto_on"} : c \in ByIntegration(k) /\ c.bytes # <<>>
    BY <1>1 DEF FromIntegration, Accepted
  <2>2. PICK v \in Asked(Integration[k]) \cup (IF k = "auto_off" THEN {Disabled} ELSE {}) :
          c = Sent(Integration[k], v)
    BY <2>1 DEF ByIntegration
  <2>3. k = "auto_off" => Integration[k].kind = "time" BY Registry DEF Clock
  <2>4. v \in Sendable(Integration[k]) BY <2>2, <2>3 DEF Sendable
  <2>5. Encode(Integration[k], v) # <<>> BY <2>1, <2>2 DEF Sent
  <2> QED BY <2>2, <2>4, <2>5 DEF Other
<1>2. CASE c \in FromMqtt
  <2>1. PICK k \in DOMAIN Mqtt \ {"auto_on"} : c \in ByMqtt(k) /\ c.bytes # <<>>
    BY <1>2 DEF FromMqtt, Accepted
  <2>2. PICK v \in Asked(Mqtt[k]) \cup {Junk} : c = Sent(Mqtt[k], v)
    BY <2>1 DEF ByMqtt
  <2>3. k \in Key \ {"auto_on"} /\ Mqtt[k] = Integration[k] /\ Integration[k].kind # "profile"
    BY <2>1, SameRegistry
  <2>4. v \in Sendable(Integration[k]) BY <2>2, <2>3 DEF Sendable
  <2>5. Encode(Integration[k], v) # <<>> BY <2>1, <2>2, <2>3 DEF Sent
  <2> QED BY <2>2, <2>3, <2>4, <2>5 DEF Other
<1> QED BY <1>1, <1>2

\* It leaves the timer's bytes alone.
LEMMA OthersLand ==
  ASSUME NEW c, Other(c), NEW s \in Settings
  PROVE  /\ After(s, c) \in Settings
         /\ After(s, c)[81] = s[81] /\ After(s, c)[82] = s[82]
<1>0. PICK k \in Key \ {"auto_on"} : \E v \in Sendable(Integration[k]) :
        c = Sent(Integration[k], v) /\ Encode(Integration[k], v) # <<>>
  BY DEF Other
<1>1. PICK v \in Sendable(Integration[k]) :
        c = Sent(Integration[k], v) /\ Encode(Integration[k], v) # <<>>
  BY <1>0
<1>2. ReadAt(Integration["auto_on"]) \cap WriteAt(Integration[k]) = {}
  <2>1. "auto_on" \in Key BY Registry
  <2>2. ~Related("auto_on", k) BY <1>1 DEF Related
  <2> QED BY <2>1, <2>2, WritesApart
<1>3. ReadAt(Integration["auto_on"]) = {81, 82} BY Layout DEF At
<1>4. 81 \in Addr /\ 82 \in Addr BY DEF Addr
<1> QED BY <1>1, <1>2, <1>3, <1>4, Landed

LEMMA BlocksTyped == Untimed \subseteq Settings /\ Blocks \subseteq Settings
<1>1. Home \in Settings
  <2>1. \A a \in Addr : Home[a] \in Byte BY DEF Home, Addr, Byte
  <2> QED BY <2>1 DEF Settings, Home
<1>2. Strange \subseteq Byte BY EntityAssumption DEF EntityAssumption, Byte
<1>3. Untimed \subseteq Settings
  <2>1. ASSUME NEW c \in FromIntegration \cup FromMqtt PROVE After(Home, c) \in Settings
    BY <1>1, OthersCommands, OthersLand
  <2>2. ASSUME NEW a, NEW b \in Strange PROVE [Home EXCEPT ![a] = b] \in Settings
    BY <1>1, <1>2 DEF Settings
  <2> SUFFICES ASSUME NEW x \in Untimed PROVE x \in Settings
    OBVIOUS
  <2>3. \/ x = Home
        \/ x \in {After(Home, c) : c \in FromIntegration \cup FromMqtt}
        \/ x \in {[Home EXCEPT ![a] = b] : a \in {1, 70, 73, 74, 84}, b \in Strange}
    BY DEF Untimed
  <2>4. ASSUME x \in {[Home EXCEPT ![a] = b] : a \in {1, 70, 73, 74, 84}, b \in Strange}
        PROVE  x \in Settings
    <3>1. PICK a \in {1, 70, 73, 74, 84}, b \in Strange : x = [Home EXCEPT ![a] = b]
      BY <2>4
    <3> QED BY <2>2, <3>1
  <2> QED BY <1>1, <2>1, <2>3, <2>4
<1> QED BY <1>3, TimedBytes DEF Blocks

(* The machine's block holds the timer of the switch's view, over settings    *)
(* that commands and strange bytes have led to.                               *)
HoldsTimer == \E s \in Untimed : settings = TimedAt(s, timer)

\* The timer is written over the timer, by whoever.
LEMMA TimerLands ==
  ASSUME NEW v \in Value, HoldsTimer, timer \in Value,
         NEW e, e = Integration["auto_on"], settings' = After(settings, Sent(e, v)), timer' = v
  PROVE  HoldsTimer'
<1>1. e.at = 81 /\ e.kind = "time" BY Registry DEF Clock
<1>2. Encode(e, v) = v BY <1>1, TimeBytes DEF Encode
<1>3. settings' = Written(settings, 81, v) BY <1>1, <1>2 DEF After, Sent
<1>4. PICK s \in Untimed : settings = TimedAt(s, timer) BY DEF HoldsTimer
<1>5. settings' = TimedAt(s, v) BY <1>3, <1>4, BlocksTyped, TimedBytes
<1> QED BY <1>5 DEF HoldsTimer

\* Every step keeps it.
LEMMA HoldsStep ==
  ASSUME TInv, TInv', HoldsTimer, [EntitiesNext]_<<vars, settings>>
  PROVE  HoldsTimer'
<1>0. timer \in Value /\ timer' \in Value BY DEF TInv, TypeOK
<1>u. ASSUME UNCHANGED <<timer, settings>> PROVE HoldsTimer' BY <1>u DEF HoldsTimer
<1>1. CASE TimerStep
  <2>1. CASE timer' = timer BY <1>1, <1>u, <2>1 DEF TimerStep
  <2>2. CASE timer' # timer BY <1>0, <1>1, <2>2, TimerLands DEF TimerStep
  <2> QED BY <2>1, <2>2
<1>2. ASSUME NEW t \in Time, MqttSetsTimer(t) PROVE HoldsTimer'
  <2>1. Mqtt["auto_on"] = Integration["auto_on"] BY SameRegistry
  <2>2. settings' = After(settings, Sent(Integration["auto_on"], t)) /\ timer' = t
    BY <1>2, <2>1 DEF MqttSetsTimer, PanelSets
  <2> QED BY <1>0, <2>2, TimerLands
<1>3. ASSUME NEW c \in FromIntegration \cup FromMqtt, Command(c) PROVE HoldsTimer'
  <2>1. settings' = After(settings, c) /\ settings' \in Blocks /\ timer' = timer
    BY <1>3 DEF Command, vars
  <2>2. PICK s \in Untimed : settings = TimedAt(s, timer) BY DEF HoldsTimer
  <2>3. s \in Settings BY <2>2, BlocksTyped
  <2>4. settings \in Settings /\ settings[81] = timer[1] /\ settings[82] = timer[2]
    BY <1>0, <2>2, <2>3, TimedBytes
  <2>5. PICK r \in Untimed, t \in Value : settings' = TimedAt(r, t)
    BY <2>1 DEF Blocks
  <2>6. settings'[81] = t[1] /\ settings'[82] = t[2]
    BY <2>5, BlocksTyped, TimedBytes
  <2>7. settings'[81] = timer[1] /\ settings'[82] = timer[2]
    BY <2>1, <2>4, OthersCommands, OthersLand
  <2>8. t = timer
    <3>1. t = <<t[1], t[2]>> /\ timer = <<timer[1], timer[2]>> BY <1>0, TimeBytes
    <3>2. t[1] = timer[1] /\ t[2] = timer[2] BY <2>6, <2>7
    <3> QED BY <3>1, <3>2, Zenon
  <2> QED BY <2>1, <2>5, <2>8 DEF HoldsTimer
<1>4. CASE UNCHANGED <<vars, settings>> BY <1>4, <1>u DEF vars
<1> QED BY <1>1, <1>2, <1>3, <1>4 DEF EntitiesNext

LEMMA EntitiesInvariant == EntitiesSpec => [](TInv /\ HoldsTimer)
<1>1. EntitiesInit => HoldsTimer BY DEF EntitiesInit, HoldsTimer
<1>2. TInv /\ TInv' /\ HoldsTimer /\ [EntitiesNext]_<<vars, settings>> => HoldsTimer'
  BY HoldsStep
<1>3. EntitiesSpec => []TInv BY SwitchAmongEntities, TimerInvariant, PTL
<1> QED BY <1>1, <1>2, <1>3, PTL DEF EntitiesSpec

\* Where the integration shows nothing, MQTT shows nothing one could ask for.
LEMMA ShownAlike ==
  ASSUME NEW k \in DOMAIN Mqtt
  PROVE  LET shown == IntegrationReads(k, settings)
         IN  IF shown = NoValue THEN MqttReads(k, settings) \notin Asked(Mqtt[k])
                                ELSE MqttReads(k, settings) = shown
<1> DEFINE e == Integration[k]
           v == Reads(e, settings)
<1>1. k \in Key /\ Mqtt[k] = e /\ e.kind # "profile" BY SameRegistry
<1>2. MqttReads(k, settings) = v BY <1>1 DEF MqttReads
<1>3. Kinds(k, e) BY <1>1, KindsOf
<1>4. IntegrationReads(k, settings) = IF e.kind = "time" /\ ~IsTime(v) THEN NoValue ELSE v
  BY DEF IntegrationReads
<1> HIDE DEF e, v
<1>5. CASE e.kind = "time"
  <2>1. Asked(e) = Time BY <1>5 DEF Asked
  <2>2. ~IsTime(v) => v \notin Time
    BY TimeBytes, TimerAssumption DEF TimerAssumption
  <2>3. v # NoValue BY <1>5, ValuesDiffer DEF v, Reads
  <2> QED BY <1>1, <1>2, <1>4, <1>5, <2>1, <2>2, <2>3
<1>6. CASE e.kind # "time"
  <2>1. NoValue \notin Asked(e)
    <3>1. CASE e.kind \in {"switch", "mode"} BY <3>1, ValuesDiffer DEF Asked
    <3>2. CASE e.kind = "select" BY <3>2, ValuesDiffer DEF Asked
    <3>3. CASE e.kind = "number" BY <3>3, ValuesDiffer DEF Asked
    <3>4. CASE e.kind = "count" BY <3>4 DEF Asked
    <3> QED BY <1>1, <1>3, <1>6, <3>1, <3>2, <3>3, <3>4 DEF Kinds
  <2> QED BY <1>1, <1>2, <1>4, <1>6, <2>1
<1> QED BY <1>5, <1>6

(* Both programs show the same of every setting they share, whatever the       *)
(* bytes, and the timer switch's view is what the time picker shows            *)
(* (state.py and entities.py, the two registries).                            *)
THEOREM SameReadingTheorem == EntitiesSpec => []SameReading
<1>1. ASSUME TInv, HoldsTimer PROVE SameReading
  <2>0. timer \in Value BY <1>1 DEF TInv, TypeOK
  <2>1. PICK s \in Untimed : settings = TimedAt(s, timer) BY <1>1 DEF HoldsTimer
  <2>2. settings[81] = timer[1] /\ settings[82] = timer[2]
    BY <2>0, <2>1, BlocksTyped, TimedBytes
  <2>3. Integration["auto_on"] = Clock(81) BY Registry
  <2>4. Reads(Clock(81), settings) = <<settings[81], settings[81 + 1]>>
    BY DEF Reads, Clock
  <2>5. Reads(Clock(81), settings) = timer BY <2>0, <2>2, <2>4, TimeBytes
  <2>6. IntegrationReads("auto_on", settings) = IF timer = Disabled THEN NoValue ELSE timer
    BY <2>0, <2>3, <2>5, TimeBytes DEF IntegrationReads, Clock
  <2> QED BY <2>6, ShownAlike DEF SameReading
<1> QED BY <1>1, EntitiesInvariant, PTL

(* An accepted command reads back as the value asked for, to half a degree,   *)
(* and disturbs no unrelated entity, for every set of times, profiles and      *)
(* temperatures (entities.py and state.py, the encoders and decoders).        *)
THEOREM CommandsReadBackTheorem == EntitiesSpec => []CommandsReadBack
<1>1. ASSUME NEW s \in Blocks
      PROVE  /\ \A k \in Key : \A v \in Asked(Integration[k]) : Back(s, k, Integration[k], v)
             /\ \A k \in {"auto_on", "auto_off"} : Back(s, k, Integration[k], Disabled)
             /\ \A k \in DOMAIN Mqtt : \A v \in Asked(Mqtt[k]) : Back(s, k, Mqtt[k], v)
  <2>1. s \in Settings BY BlocksTyped
  <2>2. \A k \in Key : \A v \in Asked(Integration[k]) : Back(s, k, Integration[k], v)
    BY <2>1, BackHolds DEF Offered
  <2>3. ASSUME NEW k \in {"auto_on", "auto_off"}
        PROVE  k \in Key /\ Disabled \in Offered(Integration[k])
    <3>1. Integration[k].kind = "time" BY Registry DEF Clock
    <3> QED BY <3>1, Registry DEF Offered
  <2>4. \A k \in DOMAIN Mqtt : k \in Key /\ Mqtt[k] = Integration[k] BY SameRegistry
  <2> QED BY <2>1, <2>2, <2>3, <2>4, BackHolds
<1>2. \A s \in Blocks : AllBack[s] BY <1>1 DEF AllBack
<1>3. ASSUME TInv, HoldsTimer PROVE CommandsReadBack
  <2>1. settings \in Blocks BY <1>3 DEF HoldsTimer, Blocks, TInv, TypeOK
  <2> QED BY <1>2, <2>1 DEF CommandsReadBack
<1> QED BY <1>3, EntitiesInvariant, PTL

=============================================================================
