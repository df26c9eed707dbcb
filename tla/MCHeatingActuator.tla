------------------------- MODULE MCHeatingActuator -------------------------
(***************************************************************************)
(* Small instances of HeatingActuator.  In ticks, the code renews and      *)
(* observes every 3, holds an observation for good for 12, re-checks every *)
(* 30, and accepts no lease below 12.  The instances keep what the code    *)
(* tells apart, not the ratios.  In HeatingActuatorSafe a renewal takes    *)
(* two ticks and the lease is the shortest that outlasts a renewal and     *)
(* three late ticks, so that a failure that counted as a command shows.    *)
(***************************************************************************)
EXTENDS HeatingActuator

Good      == [autoOff |-> TRUE, delay |-> MinLease, initialOff |-> TRUE, detached |-> TRUE]
NoLease   == [Good EXCEPT !.autoOff = FALSE]
Attached  == [Good EXCEPT !.detached = FALSE]

GoodOrNoLease == {Good, NoLease}
GoodOrAttached == {Good, Attached}
OnlyHalf == {2}
OffOrFull == {0, Cycle}
=============================================================================
