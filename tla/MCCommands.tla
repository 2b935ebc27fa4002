----------------------------- MODULE MCCommands -----------------------------
(***************************************************************************)
(* Small instances of CommandPath.                                          *)
(***************************************************************************)
EXTENDS CommandPath

=============================================================================
