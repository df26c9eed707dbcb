---------------------- MODULE MCTemperatureController ----------------------
(***************************************************************************)
(* Readings below, inside and above the band of the lower limit; two limits *)
(* or one; two tunings.                                                     *)
(***************************************************************************)
EXTENDS TemperatureController
=============================================================================
