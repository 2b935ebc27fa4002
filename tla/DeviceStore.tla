---------------------------- MODULE DeviceStore ----------------------------
(***************************************************************************)
(* The bridge's single arbiter of state and availability (store.py, class  *)
(* DeviceState), as operators on a store record: every method of the class *)
(* is one operator, so that a caller that makes several calls without an   *)
(* await between them composes them in one step.                           *)
(*                                                                         *)
(* The settings block is a function from addresses to bytes; a write, the  *)
(* optimistic overlay and the machine's memory are functions of the same   *)
(* shape, NoByte standing for "does not touch this address".  The live     *)
(* registers carry no decision of the store, so only the fact that one was *)
(* read (haveData) is kept.                                                *)
(***************************************************************************)
EXTENDS Integers

CONSTANTS
  Addr,              \* the addresses of the settings block (0x00..0x72)
  Byte,              \* the values a register can hold
  NoByte,            \* "no byte here"
  AvailabilityGrace  \* consecutive failures before the store goes offline

ASSUME StoreAssumption ==
  /\ NoByte \notin Byte
  /\ AvailabilityGrace \in Nat \ {0}

Block    == [Addr -> Byte]
Partial  == [Addr -> Byte \cup {NoByte}]
Nothing  == [a \in Addr |-> NoByte]

\* A write of one or more consecutive bytes: the addresses it touches.
Touched(w) == {a \in Addr : w[a] # NoByte}

\* The bytes of top where it has one, the bytes of base elsewhere.
Overlay(top, base) ==
  [a \in Addr |-> IF top[a] # NoByte THEN top[a] ELSE base[a]]

StoreType ==
  [settings   : Block \cup {Nothing},
   pending    : Partial,
   haveData   : BOOLEAN,
   failStreak : 0..AvailabilityGrace,
   available  : {"unknown", "online", "offline"}]

EmptyStore ==
  [settings |-> Nothing, pending |-> Nothing, haveData |-> FALSE,
   failStreak |-> 0, available |-> "unknown"]

\* The verdict projections read: unproven counts as available.
Available(s) == s.available # "offline"

\* Before the first settings read the cached block is the empty list.
SettingsKnown(s) == s.settings # Nothing

(***************************************************************************)
(* Cache and availability updates, called by the poll loop and the command *)
(* paths.  The failure streak is only compared with the grace, so it       *)
(* saturates there.                                                        *)
(***************************************************************************)
UpdateSettings_Raw(s, block) ==  \* mutant: the overlay is not re-applied
  [s EXCEPT !.settings = block, !.haveData = TRUE]

UpdateSettings(s, block) ==
  [s EXCEPT !.settings = Overlay(s.pending, block), !.haveData = TRUE]

UpdateLive(s) == [s EXCEPT !.haveData = TRUE]

NoteSuccess(s) == [s EXCEPT !.failStreak = 0, !.available = "online"]

NoteFailure(s) ==
  IF s.failStreak + 1 >= AvailabilityGrace
  THEN [s EXCEPT !.failStreak = AvailabilityGrace, !.available = "offline"]
  ELSE [s EXCEPT !.failStreak = s.failStreak + 1]

NoteWedged(s) ==
  [s EXCEPT !.failStreak = AvailabilityGrace, !.available = "offline"]

(***************************************************************************)
(* The optimistic write overlay.                                           *)
(***************************************************************************)
ApplyOptimistic(s, w) ==
  IF s.haveData /\ SettingsKnown(s)
  THEN [s EXCEPT !.pending  = Overlay(w, s.pending),
                 !.settings = Overlay(w, s.settings)]
  ELSE s

ReconcileClear_Keeps(s, w) == s  \* mutant: a finished command keeps its overlay

\* A byte is dropped only while the overlay still holds that very byte: the
\* comparison is by value, not by which command set it.
ReconcileClear(s, w) ==
  [s EXCEPT !.pending =
     [a \in Addr |-> IF w[a] # NoByte /\ s.pending[a] = w[a]
                     THEN NoByte ELSE s.pending[a]]]

=============================================================================
