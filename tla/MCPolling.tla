----------------------------- MODULE MCPolling -----------------------------
(***************************************************************************)
(* Small instances of PollingCoordinator: a three-step back-off.            *)
(***************************************************************************)
EXTENDS PollingCoordinator

Backoff == <<1, 2, 3>>

=============================================================================
