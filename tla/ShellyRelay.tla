---------------------------- MODULE ShellyRelay ----------------------------
(***************************************************************************)
(* One channel of a Shelly relay.  The conformance check is the firmware's *)
(* (src/actuator/ShellyChannel.cpp); how the relay answers Switch.Set and  *)
(* runs its auto-off timer is external and modelled from what              *)
(* HeatingActuator relies on.  Time is counted in actuator ticks.          *)
(***************************************************************************)
EXTENDS Integers

\* The part of Switch.GetConfig that ChannelConfig::parse() keeps.
ChannelConfig == [autoOff: BOOLEAN, delay: Nat, initialOff: BOOLEAN, detached: BOOLEAN]

Conformances == {"Ok", "NotRead", "AutoOffDisabled", "AutoOffTooShort",
                 "InitialStateUnsafe", "InputNotDetached"}

\* checkConformance() of a configuration that was read: the first failure wins.
CheckConformance(cfg, minLease) ==
    IF ~cfg.autoOff THEN "AutoOffDisabled"
    ELSE IF cfg.delay < minLease THEN "AutoOffTooShort"
    ELSE IF ~cfg.initialOff THEN "InitialStateUnsafe"
    ELSE IF ~cfg.detached THEN "InputNotDetached"
    ELSE "Ok"

\* on: the contact.  lease: what is left of the auto-off timer that the firmware's
\* last on-command started; 0 when the contact is on for any other reason.
Relay(configs) == [on: BOOLEAN, lease: Nat, cfg: configs]

SwitchOn(r)  == [r EXCEPT !.on = TRUE, !.lease = IF r.cfg.autoOff THEN r.cfg.delay ELSE 0]
SwitchOff(r) == [r EXCEPT !.on = FALSE, !.lease = 0]
Switch(r, on) == IF on THEN SwitchOn(r) ELSE SwitchOff(r)

\* One tick of time: an expiring timer opens the contact.
Elapse(r) == IF r.lease = 0 THEN r
             ELSE IF r.lease = 1 THEN SwitchOff(r)
             ELSE [r EXCEPT !.lease = @ - 1]

\* A reboot of the relay: off, unless it restores or infers its previous output.
Rebooted(r) == {SwitchOff(r)} \cup
               (IF r.cfg.initialOff THEN {} ELSE {[r EXCEPT !.on = TRUE, !.lease = 0]})

\* A switch wired to a channel whose input is not detached.
Toggled(r) == IF r.cfg.detached THEN {}
              ELSE {[r EXCEPT !.on = ~@, !.lease = 0]}
=============================================================================
