---------------------------- MODULE AutotuneRun ----------------------------
(***************************************************************************)
(* What a relay autotune run promises its owner: the states, abort reasons *)
(* and calls of RelayAutotuner (src/control/RelayAutotuner.h) with         *)
(* everything measured left out.  Each operator is one member function and *)
(* returns the run after the call; Updates is the set of outcomes.         *)
(* TemperatureController owns such a run; RelayAutotuner implements it.    *)
(***************************************************************************)
EXTENDS Integers

Breaches == {"CeilingBreached", "FloorBreached", "SettlingTimeout", "RunTimeout",
             "AmplitudeTooSmall", "DerivedGainsInvalid"}
AbortReasons == Breaches \cup {"UserRequested", "SensorLost"}

\* on: the relay is commanded on.
Run == [state: {"Idle", "Active", "Done", "Aborted"}, reason: AbortReasons \cup {"None"},
        on: BOOLEAN]

NoRun == [state |-> "Idle", reason |-> "None", on |-> FALSE]

Active(r) == r.state = "Active"

\* start() discards whatever the previous run left.
Started == [state |-> "Active", reason |-> "None", on |-> TRUE]

\* abortWith(): terminal, and the relay is let go.
Aborted(why) == [state |-> "Aborted", reason |-> why, on |-> FALSE]

Cancelled(r) == IF Active(r) THEN Aborted("UserRequested") ELSE r

\* finish(), with a result.
Finished == [state |-> "Done", reason |-> "None", on |-> FALSE]

\* update(): a lost reading ends the run at once, whatever it was doing.
Updates(r, valid) ==
    IF ~Active(r) THEN {r}
    ELSE IF ~valid THEN {Aborted("SensorLost")}
    ELSE {[r EXCEPT !.on = on] : on \in BOOLEAN} \cup {Aborted(why) : why \in Breaches}
         \cup {Finished}
=============================================================================
