--------------------------- MODULE MCConfigStore ---------------------------
(***************************************************************************)
(* The tasks of the device.  AsyncTCP runs at the library's default         *)
(* priority, above the firmware's own tasks.                                *)
(***************************************************************************)
EXTENDS ConfigStore

OnePriority == [t \in Task |-> 1]
WebFirst == [t \in Task |-> IF t = "web" THEN 2 ELSE 1]

\* What the pages and the setpoint topic offer; of two timings that are sane, the
\* cycle of one does not fit the travel time of the other.
Offers ==
    [updateTargetTemperature  |-> {[target |-> 21]},
     updateActuatorAssignment |-> {[host |-> "manifold", channel |-> 0],
                                   [host |-> "", channel |-> 0]},
     updateActuatorTiming     |-> {[cycle |-> 20, travel |-> 3], [cycle |-> 60, travel |-> 15]},
     updateTuning             |-> {[kp |-> 80, interval |-> 30]},
     saveMqttConfig           |-> {[mqtt |-> 30]}]

\* A flash that lost a value, or half of an assignment.
Corruption == {[target |-> 99], [cycle |-> 0], [kp |-> 0], [host |-> "garbage", channel |-> 0]}

\* Requests on the web task while the Network task has nothing to read or to store.
Requesting ==
    [web     |-> DOMAIN Offers \cup {"loadMqttConfig", "loadDeviceConfig"},
     monitor |-> {"getDeviceConfigSnapshot"}]
\* POST on the web task, an MQTT command.
PostAndMqtt == [web |-> {"updateActuatorTiming"}, network |-> {"updateTargetTemperature"}]
\* POST on the web task, a reconnect that reads its settings.
PostAndReconnect == [web |-> {"saveMqttConfig"}, network |-> {"loadMqttConfig"}]
\* GET /api/mqtt on the web task, mDNS start after a reconnect.
GetAndAdvertise ==
    [web     |-> {"updateTargetTemperature", "loadMqttConfig"},
     network |-> {"loadDeviceConfig"}]
=============================================================================
