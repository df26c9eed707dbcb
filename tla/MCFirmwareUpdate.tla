-------------------------- MODULE MCFirmwareUpdate --------------------------
(***************************************************************************)
(* A device of release 1.  GitHub may offer the same release again, release *)
(* 2 in a build that boots and in one that crashes in setup(), or a tag     *)
(* that does not parse.                                                    *)
(***************************************************************************)
EXTENDS FirmwareUpdate

Tagged(v, sound) == [valid |-> TRUE, version |-> v, sound |-> sound]
Offered == {Tagged(0, TRUE), Tagged(1, TRUE), Tagged(2, TRUE), Tagged(2, FALSE)}
=============================================================================
