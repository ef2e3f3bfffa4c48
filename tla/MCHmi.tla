------------------------------- MODULE MCHmi -------------------------------
(***************************************************************************)
(* The three errors with their blinks; delays of one to three units.       *)
(***************************************************************************)
EXTENDS Hmi

Blinks == [error \in 0 .. NumberOfErrors - 1 |-> error + 1]
=============================================================================
