------------------------- MODULE MCChargeController -------------------------
(***************************************************************************)
(* A small instance of ChargeController with any client.  Currents are in  *)
(* units of which two make an ampere.                                      *)
(***************************************************************************)
EXTENDS ChargeController, Sequences

\* A quiet house, a house near the fuse on one phase, an overload.
MCMains == {<<0, 0, 0>>, <<3, 0, 7>>, <<9, 2, 6>>}
\* No charging, charging on one phase, charging on all phases.
MCCharger == {<<0, 0, 0>>, <<5, 1, 0>>, <<4, 4, 4>>}
=============================================================================
