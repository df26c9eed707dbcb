------------------------------ MODULE MCNetwork ------------------------------
(***************************************************************************)
(* The Network task with the thresholds of LinkMonitor scaled down, the    *)
(* provisioning threshold and the width of the counter as they are.        *)
(***************************************************************************)
EXTENDS Network
=============================================================================
