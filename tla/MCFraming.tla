----------------------------- MODULE MCFraming -----------------------------
(***************************************************************************)
(* Small instances of Framing.                                              *)
(***************************************************************************)
EXTENDS Framing

Addresses == {74, 45056}          \* STANDBY and CURRENT_BREW_TEMP
Values == {8, 12, 128}            \* sums of writes to STANDBY that are cut short
Characters == {48, 49, 65, 75, 79, 97, 114, 119}  \* 0 1 A K O a r w

=============================================================================
