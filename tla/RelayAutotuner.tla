--------------------------- MODULE RelayAutotuner ---------------------------
(***************************************************************************)
(* The relay autotuner: src/control/RelayAutotuner.cpp, polled by the      *)
(* control task.  Temperatures are relative to the setpoint; a cycle's     *)
(* swing is cycleMax - cycleMin, twice the amplitude of the code; gains    *)
(* are not computed, only what they are computed from.  Timestamps are     *)
(* kept as ages, and only while a run reads them.                          *)
(*                                                                         *)
(* The sensor hardware measures more slowly than the control task polls,   *)
(* so an update() is often handed the same reading again.                  *)
(***************************************************************************)
EXTENDS Integers, Sequences

CONSTANTS
    Temps,            \* readings, relative to the setpoint
    Hysteresis,       \* limits.hysteresis
    Ceiling, Floor,   \* limits.ceilingOffset and floorOffset
    Rate,             \* limits.settlingRateKPerMin, per unit of time
    SettlingTimeout, MaxDuration,
    Required,         \* limits.requiredCycles
    PeriodTolerance, SwingTolerance,   \* in percent
    MaxStep           \* longest time between two updates

ASSUME AutotunerAssumption ==
    /\ Temps \subseteq Int
    /\ {Hysteresis, Ceiling, Floor, Rate, SettlingTimeout, MaxDuration, MaxStep} \subseteq Nat \ {0}
    /\ Required \in Nat /\ Required >= 2
    /\ {PeriodTolerance, SwingTolerance} \subseteq 0 .. 100

VARIABLES
    state, reason, relayOn,
    sinceStart,                       \* nowMs - startMs; settlingStartMs is the same instant
    settling,                         \* haveSettlingSample, lastSettlingTemp and its age
    cycle,                            \* haveCycleStart, age, max and min of the cycle in progress
    last,                             \* cycleCount and the last completed cycle
    evidence,                         \* consistentCycles with the sums over them
    result,                           \* what finish() computed the gains from
    log,                              \* history: the last cycles, newest first
    measured                          \* history: measurements settling was handed, up to 2

vars == <<state, reason, relayOn, sinceStart, settling, cycle, last, evidence, result,
          log, measured>>

NoSample == [have |-> FALSE, temp |-> 0, age |-> 0]
NoCycle == [have |-> FALSE, age |-> 0, max |-> 0, min |-> 0]
NoLast == [count |-> 0, period |-> 0, swing |-> 0]
NoEvidence == [cycles |-> 0, period |-> 0, swing |-> 0]

Active == state \in {"Settling", "Oscillating"}

Init == /\ state = "Idle" /\ reason = "None" /\ relayOn = TRUE
        /\ sinceStart = 0
        /\ settling = NoSample /\ cycle = NoCycle /\ last = NoLast
        /\ evidence = NoEvidence /\ result = NoEvidence
        /\ log = <<>> /\ measured = 0

\* start() forgets the run before.  Its one caller starts a run only when none is active.
Start == /\ ~Active
         /\ state' = "Settling" /\ reason' = "None" /\ relayOn' = TRUE
         /\ sinceStart' = 0
         /\ settling' = NoSample /\ cycle' = NoCycle /\ last' = NoLast
         /\ evidence' = NoEvidence /\ result' = NoEvidence
         /\ log' = <<>> /\ measured' = 0

\* What a run leaves when it is over: nothing of its measurements is read again.
Forget == /\ sinceStart' = 0 /\ settling' = NoSample /\ cycle' = NoCycle
          /\ last' = NoLast /\ evidence' = NoEvidence /\ measured' = 0

AbortToIdle(why) ==        \* mutant: not terminal
    /\ state' = "Idle" /\ reason' = why /\ relayOn' = FALSE /\ log' = <<>>
    /\ Forget /\ UNCHANGED result
AbortInPlace(why) ==       \* mutant: the state not changed
    /\ reason' = why /\ relayOn' = FALSE /\ log' = <<>>
    /\ Forget /\ UNCHANGED <<state, result>>

Abort(why) == /\ state' = "Aborted" /\ reason' = why /\ relayOn' = FALSE
              /\ log' = <<>>
              /\ Forget
              /\ UNCHANGED result

Cancel == Active /\ Abort("UserRequested")

\* withinTolerance(): relative to the larger of the two.
WithinTolerance(a, b, percent) ==
    LET larger  == IF a > b THEN a ELSE b
        smaller == IF a > b THEN b ELSE a
    IN  100 * (larger - smaller) <= percent * larger

\* recordCycle(): the evidence after a cycle that agrees with its predecessor, or not.
Consistent(period, swing) ==
    /\ last.count > 0
    /\ WithinTolerance(period, last.period, PeriodTolerance)
    /\ WithinTolerance(swing, last.swing, SwingTolerance)

RecordedAnyway(period, swing) ==   \* mutant: a cycle out of line does not start over
    IF ~Consistent(period, swing) THEN evidence
    ELSE IF evidence.cycles = 0
    THEN [cycles |-> 2, period |-> last.period + period, swing |-> last.swing + swing]
    ELSE [cycles |-> evidence.cycles + 1, period |-> evidence.period + period,
          swing |-> evidence.swing + swing]

Recorded(period, swing) ==
    IF ~Consistent(period, swing) THEN NoEvidence
    ELSE IF evidence.cycles = 0
    THEN [cycles |-> 2, period |-> last.period + period, swing |-> last.swing + swing]
    ELSE [cycles |-> evidence.cycles + 1, period |-> evidence.period + period,
          swing |-> evidence.swing + swing]

Converged(ev) == ev.cycles >= Required

\* finish() with one more cycle in the log: the mean amplitude must clear the band by
\* a fifth (minAmplitudeRatio), else there are no gains.
Finish(ev, cycles) ==
    IF 10 * ev.swing < 24 * Hysteresis * ev.cycles
    THEN Abort("AmplitudeTooSmall")
    ELSE /\ state' = "Done" /\ relayOn' = FALSE
         /\ result' = ev
         /\ log' = cycles
         /\ Forget
         /\ UNCHANGED reason

SettledTooLong(dt) == sinceStart + dt > SettlingTimeout

\* The settling branch of update(), dt after the call before.  The sensors measure less
\* often than the control task polls: a reading can be the one before again.
Settle(t, dt) ==
    /\ state = "Settling"
    /\ IF SettledTooLong(dt) THEN Abort("SettlingTimeout")
       ELSE LET elapsed == settling.age + dt
                steady == /\ settling.have
                          /\ t - settling.temp < Rate * elapsed
                          /\ settling.temp - t < Rate * elapsed
            IN  /\ state' = IF steady THEN "Oscillating" ELSE "Settling"
                /\ settling' = IF steady THEN NoSample ELSE [have |-> TRUE, temp |-> t, age |-> 0]
                /\ relayOn' = (steady \/ relayOn)
                /\ sinceStart' = sinceStart + dt
                /\ measured' \in {IF measured = 2 THEN 2 ELSE measured + 1} \cup
                                 (IF settling.have /\ t = settling.temp THEN {measured} ELSE {})
                /\ UNCHANGED <<reason, cycle, last, evidence, result, log>>

\* The relay after a reading.
RelayAt(t) == IF relayOn THEN ~(t > Hysteresis) ELSE t < 0 - Hysteresis

\* The oscillating branch: every on-transition closes a cycle and opens the next.
Oscillate(t, dt) ==
    /\ state = "Oscillating"
    /\ LET now == IF ~cycle.have THEN cycle
                  ELSE [cycle EXCEPT !.age = @ + dt, !.max = IF t > @ THEN t ELSE @,
                                     !.min = IF t < @ THEN t ELSE @]
           turnedOn == ~relayOn /\ RelayAt(t)
           closed == turnedOn /\ cycle.have
           done == [period |-> now.age, swing |-> now.max - now.min]
           ev == Recorded(done.period, done.swing)
           cycles == SubSeq(<<done>> \o log, 1, IF Len(log) < Required THEN Len(log) + 1
                                                 ELSE Required)
       IN  IF sinceStart + dt > MaxDuration THEN Abort("RunTimeout")
           ELSE IF closed /\ Converged(ev) THEN Finish(ev, cycles)
           ELSE /\ relayOn' = RelayAt(t)
                /\ sinceStart' = sinceStart + dt
                /\ cycle' = IF turnedOn THEN [have |-> TRUE, age |-> 0, max |-> t, min |-> t]
                            ELSE now
                /\ IF closed
                   THEN /\ last' = [count |-> last.count + 1, period |-> done.period,
                                    swing |-> done.swing]
                        /\ evidence' = ev
                        /\ log' = cycles
                   ELSE UNCHANGED <<last, evidence, log>>
                /\ measured' = 0
                /\ UNCHANGED <<state, reason, settling, result>>

\* One update() of an active run; outside a run it does nothing.
Update ==
    \E t \in Temps, valid \in BOOLEAN, dt \in 1 .. MaxStep :
        /\ Active
        /\ IF ~valid THEN Abort("SensorLost")
           ELSE IF t > Ceiling THEN Abort("CeilingBreached")
           ELSE IF t < 0 - Floor THEN Abort("FloorBreached")
           ELSE Settle(t, dt) \/ Oscillate(t, dt)

Next == Start \/ Cancel \/ Update

Spec == Init /\ [][Next]_vars

\* The control task updates an active run on every sensor read.
FairSpec == Spec /\ WF_vars(Update)
-----------------------------------------------------------------------------
\* The run as its owner sees it.
Session == INSTANCE AutotuneSession WITH
    run <- [state |-> IF Active THEN "Active" ELSE state, reason |-> reason,
            on |-> Active /\ relayOn]

Samples == [have: BOOLEAN, temp: Int, age: Nat]
CyclesInProgress == [have: BOOLEAN, age: Nat, max: Int, min: Int]
LastCycles == [count: Nat, period: Nat, swing: Nat]
Evidence == [cycles: Nat, period: Nat, swing: Nat]
Cycles == [period: Nat, swing: Nat]

TypeOK ==
    /\ state \in {"Idle", "Settling", "Oscillating", "Done", "Aborted"}
    /\ reason \in Session!AbortReasons \cup {"None"}
    /\ reason = "None" <=> state # "Aborted"
    /\ relayOn \in BOOLEAN
    /\ sinceStart \in Nat
    /\ settling \in Samples /\ cycle \in CyclesInProgress /\ last \in LastCycles
    /\ evidence \in Evidence /\ result \in Evidence
    /\ log \in Seq(Cycles) /\ measured \in 0 .. 2

Periods(cycles) == [i \in DOMAIN cycles |-> cycles[i].period]
Swings(cycles) == [i \in DOMAIN cycles |-> cycles[i].swing]

\* The sum of the n newest of a log, from the oldest of them on.
Total(newest, n) ==
    LET total[i \in 0 .. n] == IF i = 0 THEN 0 ELSE total[i - 1] + newest[n + 1 - i]
    IN  total[n]

\* Each of the n newest cycles agrees with the one before it.
InAgreement(newest, n) ==
    \A i \in 1 .. n - 1 :
        /\ WithinTolerance(newest[i].period, newest[i + 1].period, PeriodTolerance)
        /\ WithinTolerance(newest[i].swing, newest[i + 1].swing, SwingTolerance)

\* A result rests on the last Required cycles and nothing else, each in agreement with
\* the one before it: no transient is averaged in (recordCycle(), finish()).
DoneIsEarned == state = "Done" =>
    /\ Len(log) = Required
    /\ InAgreement(log, Required)
    /\ result = [cycles |-> Required, period |-> Total(Periods(log), Required),
                 swing |-> Total(Swings(log), Required)]

\* finish()'s comment: "`a > h` holds for any sequence that oscillates at all", since
\* switching is strict.  So the square root is of a positive number, and only
\* minAmplitudeRatio keeps the gains from running away.
CyclesClearTheBand == \A i \in DOMAIN log : log[i].swing > 2 * Hysteresis

\* A run is bounded whatever the plant does: settling by its own timeout, measuring by
\* the run's, each noticed at the first update after it.
RunIsBounded == /\ state = "Settling" => sinceStart <= SettlingTimeout
                /\ state = "Oscillating" => sinceStart <= MaxDuration

\* A run that is updated ends, by itself, however the plant answers.
RunEnds == []<>(~Active)

\* Every step is one the owner was promised: one terminal outcome, its reason, and no
\* output outside a run.
ImplementsSession == Session!Spec
-----------------------------------------------------------------------------
\* pid-autotune spec, "Waits for a steady temperature": a run does not leave settling
\* before two measurements have told it a rate of change.
SettlesOnTwoMeasurements ==
    [][state = "Settling" /\ state' = "Oscillating" => measured' = 2]_vars
-----------------------------------------------------------------------------
(* The inductive invariants behind them (RelayAutotunerProofs).             *)

\* A run that settles has measured nothing yet.
StartsAfresh == state = "Settling" =>
    cycle = NoCycle /\ last = NoLast /\ evidence = NoEvidence /\ log = <<>>

\* While it oscillates, the log holds the last cycles up to Required of them and ends
\* in the one the next is compared with.
LogFollows == state = "Oscillating" =>
    /\ Len(log) = IF last.count < Required THEN last.count ELSE Required
    /\ last.count > 0 => log[1].period = last.period /\ log[1].swing = last.swing

\* s is what the recursive definition of Total says: it has a solution, and every
\* solution ends in s.
Accumulates(f, newest, n) ==
    f = [i \in 0 .. n |-> IF i = 0 THEN 0 ELSE f[i - 1] + newest[n + 1 - i]]
TotalIs(newest, n, s) ==
    /\ \E f : Accumulates(f, newest, n)
    /\ \A f : Accumulates(f, newest, n) => f[n] = s

\* The evidence is of fewer cycles than convergence takes, of the newest of the log, all
\* of them in agreement, and its sums are theirs.
Supports(ev) ==
    /\ ev.cycles \in 2 .. Len(log)
    /\ InAgreement(log, ev.cycles)
    /\ TotalIs(Periods(log), ev.cycles, ev.period)
    /\ TotalIs(Swings(log), ev.cycles, ev.swing)
EvidenceFollows == state = "Oscillating" =>
    evidence = NoEvidence \/ (evidence.cycles < Required /\ Supports(evidence))
DoneFollows == state = "Done" =>
    Len(log) = Required /\ result.cycles = Required /\ Supports(result)

\* A cycle opens below the band; once the relay has gone off it has been above it too.
CycleSpansTheBand == cycle.have =>
    cycle.min < 0 - Hysteresis /\ (~relayOn => cycle.max > Hysteresis)

IInv == /\ TypeOK /\ StartsAfresh /\ LogFollows /\ EvidenceFollows /\ DoneFollows
        /\ CycleSpansTheBand /\ CyclesClearTheBand
=============================================================================
