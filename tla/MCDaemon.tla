------------------------------ MODULE MCDaemon ------------------------------
(***************************************************************************)
(* Small instances of DaemonLife.                                           *)
(***************************************************************************)
EXTENDS DaemonLife

CONSTANTS a1, b1, c1, c2
OneAddr == {a1}
OneByte == {b1}
TwoClients == {c1, c2}

=============================================================================
