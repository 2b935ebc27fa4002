------------------------------- MODULE MCPush -------------------------------
(***************************************************************************)
(* Small instances of PushChannel.                                          *)
(***************************************************************************)
EXTENDS PushChannel

CONSTANTS c1, c2

Two == {c1, c2}
OneHandler == {"intent"}

=============================================================================
