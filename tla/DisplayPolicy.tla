---------------------------- MODULE DisplayPolicy ----------------------------
(***************************************************************************)
(* The decisions behind the e-paper panel, as functions of what the tick   *)
(* reads: which warning the icon slot shows (WarningPolicy), how many      *)
(* segments the demand bar fills, and whether the change since the last    *)
(* paint is worth a refresh and of which kind (RefreshPolicy).             *)
(***************************************************************************)
EXTENDS Integers

CONSTANTS
    NAN,            \* no such measurement
    MinInterval,    \* DisplayConfig.interval, in passes of the Network task
    ClearDwell,     \* WARNING_CLEAR_DWELL_S, in passes
    FullEvery,      \* FULL_REFRESH_EVERY_N_PARTIALS
    TempHysteresis, HumidityHysteresis,
    FrostAt, FrostRelease, HumidAt, HumidRelease    \* warning thresholds and margins

PolicyAssumption ==
    /\ MinInterval \in Nat /\ ClearDwell \in Nat /\ FullEvery \in Nat
    /\ TempHysteresis \in Nat \ {0} /\ HumidityHysteresis \in Nat \ {0}
    /\ FrostAt \in Int /\ HumidAt \in Int /\ FrostRelease \in Nat /\ HumidRelease \in Nat

ASSUME PolicyAssumption

DEMAND_BUCKETS == 5
Width == 100 \div DEMAND_BUCKETS
BucketHysteresis == 3       \* in percent of full demand

\* Filled segments for a demand in percent: the nearest bucket to the previous
\* one whose band, widened by the hysteresis on both sides, holds the demand.
nextDemandBucket(percent, previous) ==
    IF percent <= 0 THEN 0
    ELSE IF percent >= 100 THEN DEMAND_BUCKETS
    ELSE LET TooLow(b) == b < DEMAND_BUCKETS /\ percent > b * Width + BucketHysteresis
             TooHigh(b) == b > 0 /\ percent < (b - 1) * Width - BucketHysteresis
         IN IF TooLow(previous)
            THEN CHOOSE b \in previous..DEMAND_BUCKETS :
                     ~TooLow(b) /\ \A c \in previous..(b - 1) : TooLow(c)
            ELSE CHOOSE b \in 0..previous :
                     ~TooHigh(b) /\ \A c \in (b + 1)..previous : TooHigh(c)

ControlStateOf(report) ==
    CASE report = "Disabled" -> "INACTIVE"
      [] report = "Heating" -> "ACTIVE_ON"
      [] report = "Idle" -> "ACTIVE_OFF"
      [] OTHER -> "UNCERTAIN"

readingAvailable(w) == w.valid /\ w.temperature # NAN /\ w.humidity # NAN

-----------------------------------------------------------------------------
(* WarningPolicy: pending counts the passes of an inactive condition, -1    *)
(* when no clear is pending.                                                *)

NewWarning == [displayed |-> "NONE", frost |-> FALSE, humid |-> FALSE, pending |-> -1]

\* A threshold that fires at once and lets go only beyond its release margin.
FrostLatch(latched, temperature) ==
    IF temperature = NAN THEN latched
    ELSE temperature <= FrostAt \/ (latched /\ temperature <= FrostAt + FrostRelease)

HumidityLatch(latched, humidity) ==
    IF humidity = NAN THEN latched
    ELSE humidity >= HumidAt \/ (latched /\ humidity >= HumidAt - HumidRelease)

\* The active condition of highest priority.
Candidate(w, frost, humid) ==
    CASE w.overheat -> "OVERHEAT"
      [] frost -> "FROST"
      [] ~w.valid -> "SENSOR"
      [] ControlStateOf(w.report) = "UNCERTAIN" -> "ACTUATOR"
      [] humid -> "HUMID"
      [] OTHER -> "NONE"

warningEvaluate(warning, w) ==
    LET frost == FrostLatch(warning.frost, w.temperature)
        humid == HumidityLatch(warning.humid, w.humidity)
        candidate == Candidate(w, frost, humid)
        waited == warning.pending + 1
        cleared == warning.displayed = "NONE" \/ waited >= ClearDwell
    IN [displayed |-> IF candidate = "NONE" /\ ~cleared THEN warning.displayed ELSE candidate,
        frost |-> frost, humid |-> humid,
        pending |-> IF candidate # "NONE" \/ cleared THEN -1 ELSE waited]

-----------------------------------------------------------------------------
(* RefreshPolicy: what was last committed to the panel, how many passes ago *)
(* (no more than the floor counts) and the partial refreshes since a full.  *)

Nothing == [available |-> FALSE, temperature |-> NAN, humidity |-> NAN, minute |-> 0,
            setpoint |-> NAN, state |-> "INACTIVE", bucket |-> 0, warning |-> "NONE"]

NewPolicy == [everPainted |-> FALSE, last |-> Nothing, age |-> 0, partials |-> 0]

\* What a paint would put on the panel.
Picture(w, bucket, warning) ==
    [available |-> readingAvailable(w), temperature |-> w.temperature, humidity |-> w.humidity,
     minute |-> w.minute, setpoint |-> w.target, state |-> ControlStateOf(w.report),
     bucket |-> bucket, warning |-> warning]

Apart(a, b, distance) == a - b >= distance \/ b - a >= distance

ReadingChanged(new, old) ==
    \/ new.available # old.available
    \/ /\ new.available
       /\ \/ Apart(new.temperature, old.temperature, TempHysteresis)
          \/ Apart(new.humidity, old.humidity, HumidityHysteresis)

Changed(new, old) ==
    \/ ReadingChanged(new, old)
    \/ \E field \in {"minute", "setpoint", "state", "bucket", "warning"} :
           new[field] # old[field]

Onset(new, old) == new.warning # old.warning /\ new.warning # "NONE"

commit(policy, kind, new) ==
    [everPainted |-> TRUE, last |-> new, age |-> 0,
     partials |-> IF kind = "Full" THEN 0 ELSE policy.partials + 1]

\* mutant: a warning waits for the floor like any other change
FloorForAll(policy, new) ==
    IF ~policy.everPainted THEN "Full"
    ELSE IF Changed(new, policy.last) /\ policy.age >= MinInterval
    THEN IF policy.partials >= FullEvery THEN "Full" ELSE "Partial"
    ELSE "None"

\* The refresh this change is worth now: the first paint is full, a change waits
\* for the floor unless it is the onset of a warning, every Nth partial is full.
refreshKind(policy, new) ==
    IF ~policy.everPainted THEN "Full"
    ELSE IF /\ Changed(new, policy.last)
            /\ Onset(new, policy.last) \/ policy.age >= MinInterval
    THEN IF policy.partials >= FullEvery THEN "Full" ELSE "Partial"
    ELSE "None"

\* mutant: a change that meets the floor is recorded as shown
RecordedAtTheFloor(policy, new) ==
    IF refreshKind(policy, new) # "None"
    THEN commit(policy, refreshKind(policy, new), new)
    ELSE [policy EXCEPT !.last = new]

\* The policy after its decision; a change held back by the floor is not recorded.
policyEvaluate(policy, new) ==
    IF refreshKind(policy, new) # "None"
    THEN commit(policy, refreshKind(policy, new), new)
    ELSE policy
=============================================================================
