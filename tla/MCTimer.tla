------------------------------ MODULE MCTimer ------------------------------
(***************************************************************************)
(* A small instance of Entities, with the timer switch in it.               *)
(***************************************************************************)
EXTENDS Entities

Zero  == <<0, 0>>
Six   == <<6, 0>>
Late  == <<23, 59>>
Never == <<100, 100>>
Times == {Zero, Six, Late}
Profiles == {<< <<30, 30>>, <<600, 100>> >>,
             << <<1, 1>>, <<2, 2>>, <<255, 3>>, <<256, 4>>, <<0, 5>> >>,
             << <<601, 90>> >>}
Setpoints == {169, 170, 171, 209, 230, 231, 250, 251}
Bytes == {9}

=============================================================================
