------------------------------ MODULE Entities ------------------------------
(***************************************************************************)
(* The two registries of entities over the machine's settings: the          *)
(* integration's (entities.py, with its platforms) and the bridge's for     *)
(* MQTT (state.py).  Each says where an entity's bytes are, how they read   *)
(* and what a command writes; both, and the machine's own panel, command    *)
(* one machine, on which TimerSwitch keeps its view of the auto-on timer.   *)
(* A value is a tuple; NoValue stands for None and "unknown".               *)
(***************************************************************************)
EXTENDS TimerSwitch, Integers, Sequences

CONSTANTS
  Profile,     \* bound: profiles asked for, steps of <<deciseconds, decibar>>
  Setpoint,    \* bound: temperatures asked for, in half degrees Celsius
  Strange      \* bound: bytes outside every vocabulary

ASSUME EntityAssumption ==
  /\ Time \subseteq (0..23) \X (0..59)
  /\ Disabled = <<100, 100>> /\ Midnight = <<0, 0>>
  /\ Profile \subseteq Seq(Nat \X Nat)
  /\ Setpoint \subseteq Int /\ Strange \subseteq 4..99

VARIABLE settings  \* the machine's settings block, as far as entities use it

NoValue == <<>>
On  == <<1>>
Off == <<0>>
Junk == <<"no", "such", "value">>  \* an MQTT payload that is none of the entity's

-----------------------------------------------------------------------------
(* The registries.                                                          *)

Switch(at, on, off) == [kind |-> "switch", at |-> at, on |-> on, off |-> off]
Select(at, options) == [kind |-> "select", at |-> at, options |-> options]
Number(at, lo, hi)  == [kind |-> "number", at |-> at, lo |-> lo, hi |-> hi]
Clock(at)           == [kind |-> "time", at |-> at]
Text(at)            == [kind |-> "profile", at |-> at]
Count(at)           == [kind |-> "count", at |-> at]
Mode(at, on, off, needs) ==
  [kind |-> "mode", at |-> at, on |-> on, off |-> off, needs |-> needs]

STANDBY == 74

ENTITIES ==
  [total_coffee_count |-> Count(77),
   power            |-> Switch(STANDBY, 0, 1),
   service_boiler   |-> Switch(73, 1, 0),
   active_profile   |-> Select(71, <<"A", "B", "C">>),
   water_feed       |-> Select(70, <<"mains", "tank">>),
   temperature_unit |-> Select(0, <<"celsius", "fahrenheit">>),
   language         |-> Select(1, <<"english", "german", "french", "italian">>),
   auto_on          |-> Clock(81),
   auto_off         |-> Clock(83),
   profile_a        |-> Text(22),
   profile_b        |-> Text(38),
   profile_c        |-> Text(54)]

CLIMATE_ENTITIES ==
  [brew_boiler      |-> Number(2, 85, 115),
   steam_boiler     |-> Number(3, 115, 125),
   brew_mode        |-> Mode(STANDBY, 0, 1, {}),
   steam_mode       |-> Mode(73, 1, 0, {STANDBY})]

\* Both registries of a program (@@ of the module TLC is unknown to a prover).
Joined(f, g) ==
  [k \in DOMAIN f \cup DOMAIN g |-> IF k \in DOMAIN f THEN f[k] ELSE g[k]]

Integration == Joined(ENTITIES, CLIMATE_ENTITIES)

MqttWaterFeed_Swapped == <<"tank", "mains">>  \* mutant: the other order

MqttWaterFeed == <<"mains", "tank">>

MqttEntities ==
  [total_coffee_count |-> Count(77),
   power            |-> Switch(STANDBY, 0, 1),
   service_boiler   |-> Switch(73, 1, 0),
   active_profile   |-> Select(71, <<"A", "B", "C">>),
   water_feed       |-> Select(70, MqttWaterFeed),
   temperature_unit |-> Select(0, <<"celsius", "fahrenheit">>),
   language         |-> Select(1, <<"english", "german", "french", "italian">>),
   auto_on          |-> Clock(81),
   auto_off         |-> Clock(83)]

MqttClimate ==
  [brew_boiler      |-> Number(2, 85, 115),
   steam_boiler     |-> Number(3, 115, 125)]

Mqtt == Joined(MqttEntities, MqttClimate)

Key == DOMAIN Integration

-----------------------------------------------------------------------------
(* Reading.                                                                 *)

Option(e, byte) ==
  IF byte < Len(e.options) THEN <<e.options[byte + 1]>> ELSE NoValue

IsTime(v) == v[1] \in 0..23 /\ v[2] \in 0..59

\* Five steps of 16-bit deciseconds, low byte first, then five of decibar.
DecodeProfile(e, s) ==
  [i \in 1..5 |-> <<s[e.at + 2 * (i - 1)] + 256 * s[e.at + 2 * i - 1],
                    s[e.at + 9 + i]>>]

Switched(b) == IF b THEN On ELSE Off

Reads(e, s) ==
  CASE e.kind = "switch"  -> Switched(IF e.on = 0 THEN s[e.at] = 0 ELSE s[e.at] # 0)
    [] e.kind = "mode"    -> Switched((e.on = 0) = (s[e.at] = 0) /\ \A a \in e.needs : s[a] = 0)
    [] e.kind = "select"  -> Option(e, s[e.at])
    [] e.kind = "number"  -> <<s[e.at]>>
    [] e.kind = "count"   -> <<s[e.at] + 256 * s[e.at + 1]>>
    [] e.kind = "time"    -> <<s[e.at], s[e.at + 1]>>
    [] e.kind = "profile" -> DecodeProfile(e, s)

\* The integration shows no time unless the bytes are one; MQTT shows them.
IntegrationReads(k, s) ==
  LET v == Reads(Integration[k], s)
  IN  IF Integration[k].kind = "time" /\ ~IsTime(v) THEN NoValue ELSE v

MqttReads(k, s) == Reads(Mqtt[k], s)

-----------------------------------------------------------------------------
(* Commands.                                                                *)

\* Python's round() of a number of half degrees: halves go to the even one.
Rounded(half) ==
  IF half % 2 = 0 THEN half \div 2
  ELSE IF ((half - 1) \div 2) % 2 = 0 THEN (half - 1) \div 2 ELSE (half + 1) \div 2

\* The first n steps of x: 16-bit deciseconds, low byte first, then decibar.
Packed(x, n) ==
  [j \in 1..(3 * n) |-> IF j > 2 * n   THEN x[j - 2 * n][2]
                        ELSE IF j % 2 = 1 THEN x[(j + 1) \div 2][1] % 256
                                          ELSE x[j \div 2][1] \div 256]

EncodeProfile_Unfilled(x) == Packed(x, Len(x))  \* mutant: only the steps given

\* Steps left out are zero.
EncodeProfile(x) == Packed([i \in 1..5 |-> IF i \in DOMAIN x THEN x[i] ELSE <<0, 0>>], 5)

ValidProfile(x) ==
  Len(x) <= 5 /\ \A i \in DOMAIN x : x[i][1] <= 600 /\ x[i][2] <= 100

\* The bytes a command writes at e.at, or none if it is refused.
Encode(e, v) ==
  CASE e.kind \in {"switch", "mode"} -> IF v = On THEN <<e.on>> ELSE <<e.off>>
    [] e.kind = "select"  ->
         LET at == {i \in DOMAIN e.options : <<e.options[i]>> = v}
         IN  IF at = {} THEN <<>> ELSE <<(CHOOSE i \in at : TRUE) - 1>>
    [] e.kind = "number"  ->
         IF v # Junk /\ Rounded(v[1]) \in e.lo..e.hi THEN <<Rounded(v[1])>> ELSE <<>>
    [] e.kind = "time"    -> IF v = Junk THEN <<>> ELSE v
    [] e.kind = "profile" -> IF ValidProfile(v) THEN EncodeProfile(v) ELSE <<>>
    [] OTHER              -> <<>>

\* The block s with bytes at at.
Written(s, at, bytes) ==
  [a \in DOMAIN s |->
     IF a - at + 1 \in DOMAIN bytes THEN bytes[a - at + 1] ELSE s[a]]

\* What may be asked of e; the integration's timer switch also turns timers off.
Asked(e) ==
  CASE e.kind \in {"switch", "mode"} -> {On, Off}
    [] e.kind = "select"  -> {<<e.options[i]>> : i \in DOMAIN e.options}
    [] e.kind = "number"  -> {<<x>> : x \in Setpoint}
    [] e.kind = "time"    -> Time
    [] e.kind = "profile" -> Profile
    [] OTHER              -> {}

-----------------------------------------------------------------------------
(* The machine under commands.  Bound: the auto-on timer aside, at most one  *)
(* command or strange byte away from Home.                                  *)
Addr == 0..84

Home ==
  [a \in Addr |-> CASE a = 2 -> 105 [] a = 3 -> 123 [] a \in {83, 84} -> 100 [] a = 78 -> 1 [] OTHER -> 0]

Sent(e, v) == [at |-> e.at, bytes |-> Encode(e, v)]
After(s, c) == Written(s, c.at, c.bytes)

ByIntegration(k) ==
  {Sent(Integration[k], v) :
     v \in Asked(Integration[k]) \cup (IF k = "auto_off" THEN {Disabled} ELSE {})}
ByMqtt(k) == {Sent(Mqtt[k], v) : v \in Asked(Mqtt[k]) \cup {Junk}}

Accepted(commands) == {c \in commands : c.bytes # <<>>}
FromIntegration == Accepted(UNION {ByIntegration(k) : k \in Key \ {"auto_on"}})
FromMqtt == Accepted(UNION {ByMqtt(k) : k \in DOMAIN Mqtt \ {"auto_on"}})

Untimed ==
  {Home} \cup {After(Home, c) : c \in FromIntegration \cup FromMqtt}
    \cup {[Home EXCEPT ![a] = b] : a \in {1, 70, 73, 74, 84}, b \in Strange}
TimedAt(s, t) == Written(s, Integration.auto_on.at, t)
Blocks == {TimedAt(s, t) : s \in Untimed, t \in Value}

Command(c) ==
  /\ settings' = After(settings, c) /\ settings' \in Blocks
  /\ UNCHANGED vars

\* TimerSwitch's own commands and the panel's.
TimerStep ==
  /\ Next
  /\ settings' = IF timer' = timer THEN settings
                 ELSE After(settings, Sent(Integration.auto_on, timer'))

MqttSetsTimer(t) ==
  /\ PanelSets(t) /\ UNCHANGED push
  /\ settings' = After(settings, Sent(Mqtt.auto_on, t))

EntitiesInit == Init /\ settings \in {TimedAt(s, timer) : s \in Untimed}

EntitiesNext ==
  \/ TimerStep
  \/ \E t \in Time : MqttSetsTimer(t)
  \/ up /\ \E c \in FromIntegration : Command(c)
  \/ \E c \in FromMqtt : Command(c)

EntitiesSpec == EntitiesInit /\ [][EntitiesNext]_<<vars, settings>>

-----------------------------------------------------------------------------
(* Whoever shows a setting shows the same: a value of the integration's      *)
(* entity is what MQTT shows, where it shows none MQTT shows nothing that    *)
(* could be asked for, and the timer switch goes by the bytes its time       *)
(* picker shows (state.py and entities.py are two copies of one registry).   *)
SameReading ==
  /\ \A k \in DOMAIN Mqtt :
       LET shown == IntegrationReads(k, settings)
       IN  IF shown = NoValue THEN MqttReads(k, settings) \notin Asked(Mqtt[k])
                              ELSE MqttReads(k, settings) = shown
  /\ IntegrationReads("auto_on", settings) = IF timer = Disabled THEN NoValue ELSE timer

Fits(e, v, shown) ==
  CASE e.kind = "number"  -> 2 * shown[1] - v[1] \in -1..1
    [] e.kind = "profile" -> \A i \in 1..5 : shown[i] = IF i \in DOMAIN v THEN v[i] ELSE <<0, 0>>
    [] OTHER              -> shown = IF v = Disabled THEN NoValue ELSE v

\* Entities of which one shows the other's bytes too.
Related(j, k) ==
  \/ j = k
  \/ {j, k} \subseteq {"power", "brew_mode", "steam_mode"}
  \/ {j, k} = {"service_boiler", "steam_mode"}

Back(s, k, e, v) ==
  Encode(e, v) # <<>> =>
    LET after == After(s, Sent(e, v))
    IN  /\ \/ k = "steam_mode" /\ v = On /\ after[STANDBY] # 0
           \/ Fits(e, v, IntegrationReads(k, after))
        /\ \A j \in Key : IntegrationReads(j, after) # IntegrationReads(j, s) => Related(j, k)

AllBack ==
  [s \in Blocks |->
     /\ \A k \in Key : \A v \in Asked(Integration[k]) : Back(s, k, Integration[k], v)
     /\ \A k \in {"auto_on", "auto_off"} : Back(s, k, Integration[k], Disabled)
     /\ \A k \in DOMAIN Mqtt : \A v \in Asked(Mqtt[k]) : Back(s, k, Mqtt[k], v)]

(* Whatever the settings are, a command that is accepted shows as the value  *)
(* asked for, to half a degree, and changes what no unrelated entity shows;  *)
(* the steam boiler's mode shows once the machine runs (entities.py).        *)
CommandsReadBack == AllBack[settings]

=============================================================================
