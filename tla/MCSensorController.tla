-------------------------- MODULE MCSensorController --------------------------
(***************************************************************************)
(* A thermometer on the default interval, a gas sensor that needs it every *)
(* unit of time and the device sensor, configured in either order or one   *)
(* of the two alone.                                                       *)
(***************************************************************************)
EXTENDS SensorController

Fitted == [th |-> SHT4x, voc |-> SGP40, dev |-> DeviceSensor]
Intervals == [th |-> 0, voc |-> 1, dev |-> 0]
Configured == {<<"th", "voc">>, <<"voc", "th">>, <<"th">>, <<"voc">>}

ASSUME SortsRight
=============================================================================
