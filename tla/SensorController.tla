--------------------------- MODULE SensorController ---------------------------
(***************************************************************************)
(* The sensor controller, driven by the Sensor Monitor task. A cycle       *)
(* retries sensors that failed, reads those that are due one after the     *)
(* other while it holds the I2C bus, recovers the bus after a streak of    *)
(* failures, drops readings that have outlived their time and publishes    *)
(* the rest to the control loop, MQTT, the web and the display. Devices    *)
(* and the bus fail and come back between any two reads.                   *)
(* Time is counted in units of the shortest interval; every stamp of the   *)
(* code is kept as the time that has passed since the start of the cycle.  *)
(***************************************************************************)
EXTENDS Integers, Sequences, FiniteSets, SequencesExt, SensorDrivers

CONSTANTS
    Driver,             \* the driver of each sensor
    Assignments,        \* orders in which the sensors may have been configured
    Device,             \* the sensor begin() appends, never on the bus
    Required,           \* requiredIntervalMs() of each sensor, 0 when it has none
    MeasurementInterval,\* MEASUREMENT_INTERVAL_MS
    ExpiryIntervals,    \* SLOT_EXPIRY_INTERVALS
    FailureThreshold,   \* READ_FAILURE_THRESHOLD
    RecoveryStreak,     \* I2C_RECOVERY_FAILURE_STREAK
    RetryInterval,      \* RETRY_INTERVAL_MS
    MaxLate,            \* bound: how late a tick may come
    MaxUnpublished      \* bound: how long the bus or the data lock keeps a cycle off

Sensors == DOMAIN Driver

SensorAssumption ==
    /\ Device \in Sensors /\ ~Driver[Device].i2c
    /\ \A s \in Sensors : Driver[s].i2c \in BOOLEAN /\ Driver[s].refuses \in BOOLEAN
    /\ Required \in [Sensors -> Nat] /\ Required[Device] = 0
    /\ {MeasurementInterval, ExpiryIntervals, FailureThreshold, RecoveryStreak,
        RetryInterval, MaxLate, MaxUnpublished} \subseteq Nat \ {0}

ASSUME SensorAssumption

VARIABLES
    order,          \* the sensors in the order they are read
    sensor,         \* status, failures and last initialisation of each sensor
    slot,           \* the last valid reading of each sensor
    sinceDefault,   \* time since the shared phase of the default interval
    streak,         \* consecutiveI2CFailures
    published,      \* age of what each sensor contributes to currentMeasurements
    unpublished,    \* time since currentMeasurements was last replaced
    stage,          \* of the task: "asleep", "awake" (about to run a cycle) or "reading"
    at,             \* place in order of the sensor to read next
    cycle,          \* anyI2CAttempted and anyI2CValid
    device,         \* what the device behind each sensor does
    wedged          \* a slave holds the bus

data == <<sensor, slot, sinceDefault, streak, published, unpublished>>
task == <<order, data, stage, at, cycle>>
sensorVars == <<task, device, wedged>>

SensorState == [status    : {"Online", "InitFailed", "ReadFailing"},
                failures  : 0 .. FailureThreshold,
                sinceInit : 0 .. RetryInterval]
Slot == [valid : BOOLEAN, age : Nat, sinceRead : Nat, input : Nat]
NewCycle == [attempted |-> FALSE, obtained |-> FALSE]

Absent == -1
Sooner(a, b) == IF a < b THEN a ELSE b
OnBus == {s \in Sensors : Driver[s].i2c}
effectiveInterval(s) == IF Required[s] = 0 THEN MeasurementInterval ELSE Required[s]

\* Gives, over a set of sensors.
Given(S) == UNION {Driver[s].gives : s \in S}

-----------------------------------------------------------------------------
(* sortSensors: sensors are placed round after round, each as soon as what *)
(* it needs is given by those placed before; what is left goes last.       *)

\* One pass over the configured sensors.
Placed(found, sorted) ==
    FoldLeft(LAMBDA done, s :
                 IF s \notin ToSet(done) /\ Driver[s].needs \subseteq Given(ToSet(done))
                 THEN Append(done, s) ELSE done,
             sorted, found)

\* Order of reading.
sortSensors(found) ==
    LET rounds == FoldLeft(LAMBDA sorted, round : Placed(found, sorted), <<>>, found)
    IN  rounds \o SelectSeq(found, LAMBDA s : s \notin ToSet(rounds))

readOrder(found) == Append(sortSensors(found), Device)

\* p gives something that s needs.
Feeds(p, s) == Driver[p].gives \cap Driver[s].needs # {}

\* What the sorting is for: every sensor has one place, and whoever needs something is
\* read after one that gives it, if there is any.
InOrder(o) ==
    /\ o \in Seq(Sensors)
    /\ \A i, j \in 1 .. Len(o) : o[i] = o[j] => i = j
    /\ \A i, j \in 1 .. Len(o) : Feeds(o[i], o[j]) => \E k \in 1 .. j - 1 : Feeds(o[k], o[j])

SortsRight == \A found \in Assignments : InOrder(readOrder(found))

minReadInterval ==
    Min({MeasurementInterval} \cup {effectiveInterval(s) : s \in ToSet(order)})

-----------------------------------------------------------------------------
(* A sensor, and the bus its device is on.                                 *)

Reachable(s) == Driver[s].i2c => ~wedged /\ device[s] # "silent"

tryBegin(s, x) ==
    IF Reachable(s) THEN [status |-> "Online", failures |-> 0, sinceInit |-> 0]
    ELSE [x EXCEPT !.status = "InitFailed", !.sinceInit = 0]

\* mutant: a sensor whose readings fail is not initialised again
retryInitFailed(s, x) ==
    IF x.status = "InitFailed" /\ x.sinceInit >= RetryInterval THEN tryBegin(s, x) ELSE x

\* The periodic retry at the start of a cycle.
retry(s, x) ==
    IF x.status \in {"InitFailed", "ReadFailing"} /\ x.sinceInit >= RetryInterval
    THEN tryBegin(s, x) ELSE x

\* read: what the driver needs has to be in prior, the union of the valid slots.
reads(s) ==
    /\ Reachable(s)
    /\ Driver[s].i2c => device[s] = "reads"
    /\ Driver[s].needs \subseteq Given({p \in ToSet(order) : slot[p].valid})

recordReadResult(x, ok) ==
    IF ok THEN [x EXCEPT !.failures = 0]
    ELSE [x EXCEPT !.failures = @ + 1,
                   !.status = IF x.failures + 1 >= FailureThreshold THEN "ReadFailing" ELSE @]

-----------------------------------------------------------------------------
(* The cycle of the Sensor Monitor task. Time passes (Elapse), then        *)
(* readSensors runs with the clock read at its start: a step for the       *)
(* retries, one for each sensor, and one for what follows the reads.       *)

Elapse ==
    /\ stage = "asleep" /\ stage' = "awake"
    /\ \E dt \in minReadInterval .. minReadInterval + MaxLate :
        /\ sensor' = [s \in Sensors |->
               [sensor[s] EXCEPT !.sinceInit = Sooner(@ + dt, RetryInterval)]]
        /\ slot' = [s \in Sensors |->
               [slot[s] EXCEPT !.age = IF slot[s].valid THEN @ + dt ELSE 0,
                               !.sinceRead = Sooner(@ + dt, effectiveInterval(s))]]
        /\ sinceDefault' = Sooner(sinceDefault + dt, MeasurementInterval)
        /\ published' = [s \in Sensors |->
               IF published[s] = Absent THEN Absent ELSE published[s] + dt]
        /\ unpublished' = unpublished + dt
    /\ UNCHANGED <<order, streak, at, cycle, device, wedged>>

\* readSensors: the bus lock is not free within its timeout, the cycle is skipped.
SkipCycle ==
    /\ stage = "awake" /\ stage' = "asleep"
    /\ unpublished < MaxUnpublished
    /\ UNCHANGED <<order, data, at, cycle, device, wedged>>

\* Phase 1, with the bus held: first the retries.
StartCycle ==
    /\ stage = "awake" /\ stage' = "reading"
    /\ sensor' = [s \in Sensors |->
           IF s \in ToSet(order) THEN retry(s, sensor[s]) ELSE sensor[s]]
    /\ UNCHANGED <<order, slot, sinceDefault, streak, published, unpublished, at, cycle,
                   device, wedged>>

\* mutant: each default sensor keeps a phase of its own
dueAlone(s) == slot[s].sinceRead >= effectiveInterval(s)

\* Due: on the shared phase, or after the interval the driver requires.
due(s) == IF Required[s] = 0 THEN sinceDefault >= MeasurementInterval
          ELSE slot[s].sinceRead >= Required[s]

\* mutant: a dependent sensor takes its input from what was published last
InputPublished(s) ==
    LET used == {i \in 1 .. Len(order) : published[order[i]] # Absent /\ Feeds(order[i], s)}
    IN  IF used = {} THEN 0 ELSE published[order[Min(used)]]

\* Age of the reading a dependent sensor takes its input from: the first in order.
InputAge(s) ==
    LET used == {i \in 1 .. Len(order) : slot[order[i]].valid /\ Feeds(order[i], s)}
    IN  IF used = {} THEN 0 ELSE slot[order[Min(used)]].age

\* The read of one sensor, and what is kept of it.
Read(s, ok) ==
    /\ sensor' = [sensor EXCEPT ![s] = recordReadResult(@, ok)]
    /\ slot' = [slot EXCEPT ![s] =
           IF ok THEN [valid |-> TRUE, age |-> 0, sinceRead |-> 0, input |-> InputAge(s)]
           ELSE [@ EXCEPT !.sinceRead = 0]]
    /\ cycle' = [attempted |-> cycle.attempted \/ Driver[s].i2c,
                 obtained  |-> cycle.obtained \/ (Driver[s].i2c /\ ok)]

ReadNext ==
    /\ stage = "reading" /\ at <= Len(order)
    /\ at' = at + 1
    /\ LET s == order[at] IN
       IF sensor[s].status = "Online" /\ due(s) THEN Read(s, reads(s))
       ELSE UNCHANGED <<sensor, slot, cycle>>
    /\ UNCHANGED <<order, sinceDefault, streak, published, unpublished, stage, device, wedged>>

\* What the streak becomes, and whether the bus is recovered.
Recovers == cycle.attempted /\ ~cycle.obtained /\ streak + 1 >= RecoveryStreak
Streak == IF cycle.obtained \/ Recovers THEN 0
          ELSE IF cycle.attempted THEN streak + 1 ELSE streak

\* I2CBus::recover: up to nine clock pulses may or may not free the data line.
recover == wedged' \in (IF Recovers THEN {wedged, FALSE} ELSE {wedged})

\* mutant: a reading is kept for as long as its sensor is online
keptOnline(s) == slot[s].valid /\ sensor[s].status = "Online"

\* Phase 2: a slot stays when its sensor is online and the reading not too old.
kept(s) ==
    /\ slot[s].valid
    /\ sensor[s].status = "Online"
    /\ slot[s].age <= ExpiryIntervals * effectiveInterval(s)

Empty(y) == [y EXCEPT !.valid = FALSE, !.age = 0, !.input = 0]

\* Phase 3: the data lock may be held past its timeout; the old values stay.
Publish ==
    \/ /\ published' = [s \in Sensors |-> IF slot'[s].valid THEN slot'[s].age ELSE Absent]
       /\ unpublished' = 0
    \/ /\ unpublished < MaxUnpublished
       /\ UNCHANGED <<published, unpublished>>

\* What follows the reads.
EndCycle ==
    /\ stage = "reading" /\ at > Len(order)
    /\ stage' = "asleep" /\ at' = 1 /\ cycle' = NewCycle
    /\ sinceDefault' = IF sinceDefault >= MeasurementInterval THEN 0 ELSE sinceDefault
    /\ streak' = Streak
    /\ recover
    /\ slot' = [s \in Sensors |-> IF kept(s) THEN slot[s] ELSE Empty(slot[s])]
    /\ Publish
    /\ UNCHANGED <<order, sensor, device>>

-----------------------------------------------------------------------------
(* The devices and the bus.                                                *)

\* A device answers, answers with readings its driver refuses, or falls silent.
Behaviours(s) == {"reads", "silent"} \cup (IF Driver[s].refuses THEN {"refuses"} ELSE {})

DeviceChanges ==
    /\ \E s \in OnBus \cap ToSet(order) : \E d \in Behaviours(s) \ {device[s]} :
           device' = [device EXCEPT ![s] = d]
    /\ UNCHANGED <<task, wedged>>

BusWedges ==
    /\ ~wedged /\ wedged' = TRUE
    /\ UNCHANGED <<task, device>>

BusFreed ==
    /\ wedged /\ wedged' = FALSE
    /\ UNCHANGED <<task, device>>

\* begin(): the configured sensors are sorted, the device sensor goes last and
\* every sensor is initialised once, on a bus and with devices in any state.
SensorInit ==
    /\ \E found \in Assignments : order = readOrder(found)
    /\ device \in [OnBus -> {"reads", "silent"}]
    /\ \A s \in OnBus \ ToSet(order) : device[s] = "silent"
    /\ wedged \in BOOLEAN
    /\ sensor = [s \in Sensors |->
           tryBegin(s, [status |-> "Uninitialized", failures |-> 0, sinceInit |-> 0])]
    /\ slot = [s \in Sensors |-> [valid |-> FALSE, age |-> 0,
                                  sinceRead |-> effectiveInterval(s), input |-> 0]]
    /\ sinceDefault = MeasurementInterval
    /\ streak = 0
    /\ published = [s \in Sensors |-> Absent]
    /\ unpublished = 0
    /\ stage = "asleep" /\ at = 1 /\ cycle = NewCycle

TaskStep == Elapse \/ SkipCycle \/ StartCycle \/ ReadNext \/ EndCycle
SensorNext == TaskStep \/ DeviceChanges \/ BusWedges \/ BusFreed

SensorSpec == SensorInit /\ [][SensorNext]_sensorVars

\* The task never stops: it wakes again, and a cycle it has begun ends. That scans and
\* copies end, too, is the bound on cycles they keep off.
SensorFairSpec == SensorSpec /\ WF_sensorVars(TaskStep)

-----------------------------------------------------------------------------
(* Properties.                                                             *)

SensorTypeOK ==
    /\ order \in Seq(Sensors)
    /\ sensor \in [Sensors -> SensorState]
    /\ slot \in [Sensors -> Slot]
    /\ sinceDefault \in 0 .. MeasurementInterval
    /\ streak \in 0 .. RecoveryStreak
    /\ published \in [Sensors -> Nat \cup {Absent}]
    /\ unpublished \in Nat
    /\ stage \in {"asleep", "awake", "reading"}
    /\ at \in 1 .. Len(order) + 1
    /\ cycle \in [attempted : BOOLEAN, obtained : BOOLEAN]
    /\ device \in [OnBus -> {"reads", "refuses", "silent"}]
    /\ wedged \in BOOLEAN

\* The control loop, MQTT and the display never work with an old value: what is
\* published of a sensor was measured at most ExpiryIntervals of its intervals
\* before the publication, however its reads fail in between, and a sensor that
\* has stopped answering is withdrawn with the same bound.
PublishedIsFresh ==
    \A s \in Sensors : published[s] # Absent =>
        published[s] <= ExpiryIntervals * effectiveInterval(s) + unpublished

\* Default sensors are read together: between two cycles, all whose last read was valid
\* have readings of the same age, the age of the shared phase, whenever they came back
\* and however late the ticks were.
CoherentPhase ==
    stage # "reading" =>
        \A s \in Sensors :
            slot[s].valid /\ Required[s] = 0 /\ sensor[s].failures = 0
                => \/ slot[s].age = sinceDefault
                   \/ sinceDefault = MeasurementInterval /\ slot[s].age >= sinceDefault

\* A reading that is computed from another sensor's used that sensor's newest one:
\* when both were obtained in the same cycle the input was obtained in it too,
\* whatever order the sensors were configured in.
InputsAreCurrent ==
    \A s \in Sensors :
        LET givers == {i \in 1 .. Len(order) : Feeds(order[i], s)}
            first == order[Min(givers)]
        IN  /\ givers # {}
            /\ slot[s].valid /\ slot[first].valid
            /\ slot[s].age = slot[first].age
            => slot[s].input = 0

\* Sensors that answer from some time on, with all that they need.
Well(s) == device[s] = "reads"
WellFed(s) == /\ s \in OnBus \cap ToSet(order) /\ Well(s)
              /\ Driver[s].needs \subseteq
                     Given({p \in OnBus \cap ToSet(order) : Well(p) /\ Driver[p].needs = {}})

\* A sensor that answers for good on a bus that is free for good is published
\* for good in the end, whatever failures it has been through.
PublishedAgain ==
    \A s \in OnBus :
        <>[](WellFed(s) /\ ~wedged) => <>[](published[s] # Absent)

-----------------------------------------------------------------------------
(* The inductive invariants behind them.                                   *)

AlreadyRead(s) == stage = "reading" /\ \E j \in 1 .. at - 1 : order[j] = s

\* What the reads rely on: a loop that starts over and a failure count that stays below
\* the threshold for as long as a sensor is read.
ReadInv ==
    /\ InOrder(order)
    /\ stage # "reading" => at = 1
    /\ \A s \in Sensors : sensor[s].status = "Online" => sensor[s].failures < FailureThreshold

\* No slot outlives its sensor's time online, and while a shared phase is being read, all
\* default sensors are either still to be read or as old as the phase that begins.
PhaseInv ==
    /\ \A s \in Sensors : slot[s].valid =>
          /\ s \in ToSet(order)
          /\ sensor[s].status = "Online" \/ (stage = "reading" /\ sensor[s].failures > 0)
    /\ \A s \in Sensors : slot[s].valid /\ Required[s] = 0 /\ sensor[s].failures = 0 =>
          IF AlreadyRead(s) /\ sinceDefault = MeasurementInterval THEN slot[s].age = 0
          ELSE \/ slot[s].age = sinceDefault
               \/ sinceDefault = MeasurementInterval /\ slot[s].age >= sinceDefault

\* A reading of age zero was obtained in the cycle that is running.
InputInv ==
    /\ InputsAreCurrent
    /\ \A s \in Sensors : slot[s].valid /\ slot[s].age = 0 =>
          stage # "awake" /\ (stage = "reading" => AlreadyRead(s))

SensorIInv == SensorTypeOK /\ ReadInv /\ PhaseInv /\ InputInv
=============================================================================
