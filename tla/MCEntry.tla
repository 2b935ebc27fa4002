------------------------------ MODULE MCEntry ------------------------------
(***************************************************************************)
(* Small instances of EntryLife.                                            *)
(***************************************************************************)
EXTENDS EntryLife

Choices == {[push |-> FALSE, clock |-> TRUE], [push |-> TRUE, clock |-> TRUE],
            [push |-> TRUE, clock |-> FALSE]}

=============================================================================
