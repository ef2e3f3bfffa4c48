-------------------------- MODULE MCChargerSystem --------------------------
(***************************************************************************)
(* A small instance of ChargerSystem: one phase is enough here, the limit  *)
(* over three phases is checked with ChargeController.  Currents are in    *)
(* units of which two make an ampere.                                      *)
(***************************************************************************)
EXTENDS ChargerSystem

\* The limit is the fuse's 3 A while telegrams arrive and 0 A in a silence.
MCMains   == {<<0>>}
MCCharger == {<<0>>}
=============================================================================
