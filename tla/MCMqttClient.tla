----------------------------- MODULE MCMqttClient -----------------------------
(***************************************************************************)
(* Two brokers and two prefixes; the user moves the device from one to the *)
(* other, switches discovery off, or switches MQTT off.                    *)
(***************************************************************************)
EXTENDS MqttClient

Conf(on, b, p, d) == [enabled |-> on, broker |-> b, prefix |-> p, ha_discovery |-> d]
Posted == {Conf(TRUE, "b1", "p1", TRUE), Conf(TRUE, "b2", "p2", TRUE),
           Conf(TRUE, "b1", "p2", FALSE), Conf(FALSE, "b1", "p1", FALSE)}
=============================================================================
