-------------------------- MODULE MCRelayAutotuner --------------------------
(***************************************************************************)
(* A plant on a coarse scale: readings just outside the band, well outside  *)
(* it, inside it and beyond the envelope.                                   *)
(***************************************************************************)
EXTENDS RelayAutotuner

Readings == {-31, -20, -11, 0, 11, 20, 31}
=============================================================================
