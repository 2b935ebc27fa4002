------------------------------ MODULE MCClient ------------------------------
(***************************************************************************)
(* An instance of R60VClient: the settings block has a long reply, a live   *)
(* register and a write's acknowledgement have equally short ones.         *)
(***************************************************************************)
EXTENDS R60VClient

Kinds == {"settings", "live", "write"}
Sizes == [r \in Kinds |-> IF r = "settings" THEN 2 ELSE 1]
Both  == {"bridge", "integration"}

=============================================================================
