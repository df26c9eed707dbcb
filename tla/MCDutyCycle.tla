---------------------------- MODULE MCDutyCycle ----------------------------
(* A cycle of nine units and a stroke of two: rails, middle range, and a    *)
(* remainder that does not divide the cycle.                                *)
EXTENDS DutyCycle
=============================================================================
