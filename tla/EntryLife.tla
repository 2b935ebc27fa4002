----------------------------- MODULE EntryLife -----------------------------
(***************************************************************************)
(* The life of the integration's config entry (__init__.py): set-up in its  *)
(* steps, reload when the options change, unload, and what a generation of  *)
(* its objects (client, push client, timers, clock pushes) may leave behind. *)
(* Each set-up makes new objects; those of a generation that is over and    *)
(* has nothing left are forgotten.  Home Assistant keeps set-ups and        *)
(* unloads of an entry apart, retries a set-up that is not ready, and       *)
(* cancels the coordinator's refresh once an entry is unloaded.             *)
(***************************************************************************)
EXTENDS Integers, Sequences, FiniteSets

CONSTANTS
  MaxGen,      \* bound: generations of objects that exist at a time
  Options,     \* the options the user may choose: [push, clock]
  MaxTasks     \* bound: requests of one client at a time

ASSUME EntryAssumption ==
  /\ MaxGen \in Nat \ {0}
  /\ Options \subseteq [push : BOOLEAN, clock : BOOLEAN] /\ Options # {}
  /\ MaxTasks \in Nat \ {0}

VARIABLES
  direct,   \* is the host the machine itself, which takes one client?  Or the
            \* bridge's front-end.  It never changes
  data,     \* entry.data, from when the entry was created.  It never changes
  healthy,  \* what is at the host answers
  opts,     \* entry.options: push is FALSE for a URL left blank
  wanted,   \* the entry is enabled
  entry,    \* its state
  reload,   \* a reload waits for the entry's lock
  cur,      \* the newest generation
  set,      \* the options it was set up with
  gens,     \* the generations' objects
  missed    \* history: the options changed while this set-up was under way

vars == <<direct, data, healthy, opts, wanted, entry, reload, cur, set, gens, missed>>

Generation == 1..MaxGen

Requests == {"refresh", "clock", "write"}

Objects ==
  [stream : BOOLEAN,               \* the push client's task runs
   timers : SUBSET {"daily", "health"},
   tasks  : Seq(Requests),         \* requests: the head has the client's lock
   at     : {"idle", "connect", "wait"},
   link   : BOOLEAN,               \* the client's socket is open
   over   : {"no", "closed", "cut", "abandoned"}]  \* history: how it ended

\* A URL left blank falls back to the one the entry was created with.
InEffect == [opts EXCEPT !.push = opts.push \/ data.push]

Fresh == [stream |-> FALSE, timers |-> {},
          tasks |-> IF InEffect.push THEN <<>> ELSE <<"refresh">>,
          at |-> "idle", link |-> FALSE, over |-> "no"]

Quiet(g) == ~gens[g].stream /\ gens[g].tasks = <<>> /\ ~gens[g].link

\* May be forgotten: a connection left open to the bridge hinders nobody.
Free(g) ==
  /\ gens[g].over # "no" /\ ~gens[g].stream /\ gens[g].tasks = <<>>
  /\ gens[g].link => ~direct

Put(g, x) == gens' = [gens EXCEPT ![g] = x]
Me == gens[cur]

Steps == {"refreshing", "forwarding"}
Unloads == {"unloading", "stopping", "closing"}
States == {"not_loaded", "loaded", "retry", "error", "failed_unload"} \cup Steps \cup Unloads

-----------------------------------------------------------------------------
(* Set-up.                                                                  *)

\* A new client and coordinator.  The first refresh reads the machine, but in
\* push mode, where it answers with an empty snapshot.
SetsUp ==
  /\ entry \in {"not_loaded", "retry"} /\ wanted /\ ~reload
  /\ \E g \in Generation :
       /\ Free(g) /\ \A h \in 1..(g - 1) : ~Free(h)
       /\ cur' = g /\ Put(g, Fresh) /\ set' = InEffect
  /\ entry' = "refreshing" /\ missed' = FALSE
  /\ UNCHANGED <<direct, data, healthy, opts, wanted, reload>>

\* Starts the stream and hands the entry its objects, then awaits the platforms.
GoesOn(x) ==
  /\ entry' = "forwarding" /\ Put(cur, [x EXCEPT !.stream = set.push])

SeedsPush ==
  /\ entry = "refreshing" /\ set.push
  /\ GoesOn(Me)
  /\ UNCHANGED <<direct, data, healthy, opts, wanted, reload, cur, set, missed>>

\* The client is closed and Home Assistant tries again later.
FailsAgain(x) ==
  entry' = "retry" /\ Put(cur, [x EXCEPT !.over = "closed", !.link = FALSE])

\* The bridge's health says not to poll: no request is made at all.
BridgeBlocks ==
  /\ entry = "refreshing" /\ ~set.push /\ ~healthy /\ Me.at = "idle"
  /\ FailsAgain([Me EXCEPT !.tasks = <<>>])
  /\ UNCHANGED <<direct, data, healthy, opts, wanted, reload, cur, set, missed>>

PushesClock(x) == [x EXCEPT !.tasks = Append(@, "clock")]

\* The platforms are set up: the clock is pushed, now and daily, the health
\* timer is started, and from now on a change of the options is noticed.
Loads ==
  /\ entry = "forwarding" /\ Len(Me.tasks) < MaxTasks
  /\ entry' = "loaded"
  /\ LET timed == [Me EXCEPT !.timers = (IF set.clock THEN {"daily"} ELSE {})
                                 \cup (IF set.push THEN {"health"} ELSE {})]
     IN Put(cur, IF set.clock THEN PushesClock(timed) ELSE timed)
  /\ UNCHANGED <<direct, data, healthy, opts, wanted, reload, cur, set, missed>>

\* A platform cannot be set up: the error ends the set-up where it stands.
ForwardFails ==
  /\ entry = "forwarding"
  /\ \E g \in Generation : Free(g)
  /\ entry' = "error" /\ Put(cur, [Me EXCEPT !.over = "abandoned"])
  /\ UNCHANGED <<direct, data, healthy, opts, wanted, reload, cur, set, missed>>

-----------------------------------------------------------------------------
(* Reload and unload.                                                       *)

OptionsChange_Unheard ==  \* mutant: nothing listens for changes
  /\ opts' \in Options \ {opts}
  /\ missed' = (missed \/ entry \in Steps)
  /\ UNCHANGED <<direct, data, healthy, wanted, entry, reload, cur, set, gens>>

\* The listener of a loaded entry asks for a reload; a set-up that follows an
\* unload under way reads the new options without one.
OptionsChange ==
  /\ opts' \in Options \ {opts}
  /\ reload' = (reload \/ entry = "loaded" \/ entry \in Unloads)
  /\ missed' = (missed \/ entry \in Steps)
  /\ UNCHANGED <<direct, data, healthy, wanted, entry, cur, set, gens>>

UserReloads ==
  /\ entry \in {"loaded", "retry", "error"} /\ ~reload
  /\ reload' = TRUE
  /\ UNCHANGED <<direct, data, healthy, opts, wanted, entry, cur, set, gens, missed>>

Toggles ==
  /\ entry \notin Steps \cup Unloads
  /\ wanted' = ~wanted
  /\ UNCHANGED <<direct, data, healthy, opts, entry, reload, cur, set, gens, missed>>

\* An entry that is not loaded has nothing to unload.
UnloadBegins ==
  /\ reload \/ ~wanted
  /\ \/ entry = "loaded" /\ entry' = "unloading" /\ UNCHANGED reload
     \/ entry \in {"retry", "error", "not_loaded"} /\ reload
        /\ entry' = "not_loaded" /\ reload' = FALSE
     \/ entry \in {"retry", "error"} /\ ~reload
        /\ entry' = "not_loaded" /\ UNCHANGED reload
  /\ UNCHANGED <<direct, data, healthy, opts, wanted, cur, set, gens, missed>>

\* A platform may refuse, and nothing is stopped then.
PlatformsUnload ==
  /\ entry = "unloading"
  /\ \/ entry' = "stopping" /\ UNCHANGED reload
     \/ entry' = "failed_unload" /\ reload' = FALSE
  /\ UNCHANGED <<direct, data, healthy, opts, wanted, cur, set, gens, missed>>

StreamStops_Detached ==  \* mutant: the stream's task is left to end by itself
  /\ entry = "stopping" /\ entry' = "closing"
  /\ Put(cur, [Me EXCEPT !.timers = {}])
  /\ UNCHANGED <<direct, data, healthy, opts, wanted, reload, cur, set, missed>>

StreamStops_Awaits ==  \* mutant: the stream's task is awaited, not cancelled
  /\ entry = "stopping" /\ ~Me.stream /\ entry' = "closing"
  /\ Put(cur, [Me EXCEPT !.timers = {}])
  /\ UNCHANGED <<direct, data, healthy, opts, wanted, reload, cur, set, missed>>

\* The stream's task is cancelled and awaited, then the timers are stopped.
StreamStops ==
  /\ entry = "stopping" /\ entry' = "closing"
  /\ Put(cur, [Me EXCEPT !.stream = FALSE, !.timers = {}])
  /\ UNCHANGED <<direct, data, healthy, opts, wanted, reload, cur, set, missed>>

\* A coordinator has one refresh under way at the most.
WithoutRefresh(s) ==
  IF \E i \in DOMAIN s : s[i] = "refresh"
  THEN LET i == CHOOSE i \in DOMAIN s : s[i] = "refresh"
       IN  SubSeq(s, 1, i - 1) \o SubSeq(s, i + 1, Len(s))
  ELSE s

\* Home Assistant cancels a refresh that is still under way.
Cancelled(x) ==
  [x EXCEPT !.tasks = WithoutRefresh(@),
            !.at = IF x.tasks # <<>> /\ Head(x.tasks) = "refresh" THEN "idle" ELSE @]

\* close() takes no lock: a request that waits for a reply loses its socket
\* and goes on to its next attempt, or dies of the missing stream.
Struck(x) ==
  IF x.at = "wait"
  THEN {[x EXCEPT !.link = FALSE, !.at = "connect"],
        [x EXCEPT !.link = FALSE, !.at = "idle", !.tasks = Tail(@)]}
  ELSE {[x EXCEPT !.link = FALSE]}

ClientCloses ==
  /\ entry = "closing" /\ entry' = "not_loaded" /\ reload' = FALSE
  /\ \E x \in Struck(Me) :
       Put(cur, [Cancelled(x) EXCEPT
                   !.over = IF Me.tasks = <<>> THEN "closed" ELSE "cut"])
  /\ UNCHANGED <<direct, data, healthy, opts, wanted, cur, set, missed>>

-----------------------------------------------------------------------------
(* The clients.                                                             *)

\* The coordinator's interval (without a stream), the daily push, and writes
\* of users: without a stream, or while it is not connected.
AsksFor(g, t) ==
  /\ Len(gens[g].tasks) < MaxTasks
  /\ \/ /\ t = "refresh" /\ g = cur /\ entry = "loaded" /\ ~set.push
        /\ \A i \in DOMAIN gens[g].tasks : gens[g].tasks[i] # "refresh"
     \/ t = "clock" /\ "daily" \in gens[g].timers
     \/ t = "write" /\ g = cur /\ entry = "loaded"
  /\ Put(g, [gens[g] EXCEPT !.tasks = Append(@, t)])
  /\ UNCHANGED <<direct, data, healthy, opts, wanted, entry, reload, cur, set, missed>>

Begins(g) ==
  /\ gens[g].at = "idle" /\ gens[g].tasks # <<>>
  /\ Put(g, [gens[g] EXCEPT !.at = IF gens[g].link THEN "wait" ELSE "connect"])
  /\ UNCHANGED <<direct, data, healthy, opts, wanted, entry, reload, cur, set, missed>>

\* The machine has one place, the bridge's front-end any number.
Place(g) == direct => \A h \in Generation : h # g => ~gens[h].link

Connects(g) ==
  /\ gens[g].at = "connect" /\ Place(g)
  /\ Put(g, [gens[g] EXCEPT !.link = TRUE, !.at = "wait"])
  /\ UNCHANGED <<direct, data, healthy, opts, wanted, entry, reload, cur, set, missed>>

First(g) == g = cur /\ entry = "refreshing"

\* The request is over; the first refresh's outcome is the set-up's.
Ends(g, x, ok) ==
  LET y == [x EXCEPT !.tasks = Tail(@), !.at = "idle"] IN
  IF First(g) THEN IF ok THEN GoesOn(y) ELSE FailsAgain(y)
              ELSE Put(g, y) /\ UNCHANGED entry

Answered(g) ==
  /\ gens[g].at = "wait" /\ gens[g].link
  /\ Ends(g, gens[g], TRUE)
  /\ UNCHANGED <<direct, data, healthy, opts, wanted, reload, cur, set, missed>>

\* An attempt fails; there is a next one, or the request fails.
Fails(g) ==
  /\ \/ gens[g].at = "connect" /\ (~Place(g) \/ ~healthy)
     \/ gens[g].at = "wait" /\ (~gens[g].link \/ ~healthy)
  /\ LET x == [gens[g] EXCEPT !.link = FALSE] IN
     \/ Put(g, [x EXCEPT !.at = "connect"]) /\ UNCHANGED entry
     \/ Ends(g, x, FALSE)
  /\ UNCHANGED <<direct, data, healthy, opts, wanted, reload, cur, set, missed>>

GivesUp(g) == Fails(g) /\ gens'[g].at = "idle"

\* The peer closes a connection; an idle client does not notice.
PeerDrops(g) ==
  /\ gens[g].link /\ gens[g].at = "idle"
  /\ Put(g, [gens[g] EXCEPT !.link = FALSE])
  /\ UNCHANGED <<direct, data, healthy, opts, wanted, entry, reload, cur, set, missed>>

HealthChanges ==
  /\ healthy' = ~healthy
  /\ UNCHANGED <<direct, data, opts, wanted, entry, reload, cur, set, gens, missed>>

-----------------------------------------------------------------------------
Init ==
  /\ direct \in BOOLEAN /\ data \in Options /\ opts = data
  /\ healthy = TRUE /\ wanted = TRUE
  /\ entry = "not_loaded" /\ reload = FALSE /\ missed = FALSE
  /\ cur = 1 /\ set = data
  /\ gens = [g \in Generation |-> [Fresh EXCEPT !.tasks = <<>>, !.over = "closed"]]

SetUpStep == SetsUp \/ SeedsPush \/ Loads
UnloadStep == UnloadBegins \/ PlatformsUnload \/ StreamStops \/ ClientCloses
ClientStep(g) == Begins(g) \/ Connects(g) \/ Answered(g) \/ Fails(g)

Next ==
  \/ SetUpStep \/ BridgeBlocks \/ ForwardFails \/ UnloadStep
  \/ OptionsChange \/ UserReloads \/ Toggles \/ HealthChanges
  \/ \E g \in Generation :
       ClientStep(g) \/ PeerDrops(g) \/ \E t \in Requests : AsksFor(g, t)

Spec == Init /\ [][Next]_vars

\* Home Assistant retries and reloads; every await of a client is bounded, and
\* so is the number of its attempts.
FairSpec ==
  /\ Spec
  /\ WF_vars(SetUpStep) /\ WF_vars(UnloadStep)
  /\ \A g \in Generation : WF_vars(ClientStep(g)) /\ SF_vars(GivesUp(g))

-----------------------------------------------------------------------------
Active(g) == g = cur /\ entry \in {"loaded", "failed_unload"} \cup Steps \cup Unloads

TypeOK ==
  /\ direct \in BOOLEAN /\ data \in Options /\ healthy \in BOOLEAN /\ opts \in Options
  /\ wanted \in BOOLEAN /\ entry \in States /\ reload \in BOOLEAN
  /\ cur \in Generation /\ set \in [push : BOOLEAN, clock : BOOLEAN] /\ missed \in BOOLEAN
  /\ gens \in [Generation -> Objects]
  /\ \A g \in Generation : Len(gens[g].tasks) <= MaxTasks

(* "Unload a config entry and close the client" (async_unload_entry): of a   *)
(* generation that is over nothing runs daily, no stream feeds entities and  *)
(* no request or socket is left, but for the requests unloading cut into,    *)
(* and what a set-up left that a platform ended.                            *)
OverIsQuiet ==
  \A g \in Generation : ~Active(g) =>
    /\ gens[g].timers = {}
    /\ gens[g].over # "abandoned" => ~gens[g].stream
    /\ gens[g].over \notin {"cut", "abandoned"} => Quiet(g)

(* "Reload when options (e.g. the bridge-health URL) change": a loaded entry *)
(* runs with what is in effect, or is about to be reloaded, unless the       *)
(* options changed while it was being set up.                               *)
LoadedIsCurrent ==
  entry = "loaded" => set = InEffect \/ reload \/ missed

(* An enabled entry gets loaded once the host answers for good ("Raises      *)
(* ConfigEntryNotReady"), if a machine reached directly lets go of          *)
(* connections left idle: what an earlier generation left open would keep   *)
(* the next one out.                                                        *)
PeerLetsGo == \A g \in Generation : WF_vars(gens[g].over # "no" /\ PeerDrops(g))

ComesUp ==
  <>[](healthy /\ wanted) /\ (direct => PeerLetsGo) =>
    []<>(entry \in {"loaded", "error", "failed_unload"})

=============================================================================
