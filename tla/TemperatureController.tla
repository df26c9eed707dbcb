----------------------- MODULE TemperatureController -----------------------
(***************************************************************************)
(* The control loop: TemperatureController::update() on the Sensor Monitor *)
(* task (src/control/TemperatureController.cpp, PidController.cpp), with    *)
(* the requests the web task hands it and the permission the Network task  *)
(* reads.  The web task has the higher priority: it runs to completion at  *)
(* any point of an update, except where it waits for a flash write.  An    *)
(* update can be preempted anywhere, so each of its reads of shared state  *)
(* is a step.  The unit of time is one sensor read; timestamps are ages.   *)
(***************************************************************************)
EXTENDS AutotuneRun

CONSTANTS
    Temps,      \* readings
    Limits,     \* values of safety_max_c
    Hyst,       \* safety_hyst_c
    Gains,      \* values of one gain; a tuning is a pair of them
    Intervals,  \* values of control_interval_s, in sensor reads
    MaxStep,    \* longest time between two updates
    Happens     \* what the environment may do in this instance

ASSUME ControllerAssumption ==
    /\ Temps \subseteq Int /\ Limits \subseteq Int /\ Hyst \in Nat
    /\ Intervals \subseteq Nat \ {0} /\ MaxStep \in Nat \ {0}
    /\ Temps # {} /\ Limits # {} /\ Gains # {}
    /\ \E longest \in Intervals : \A i \in Intervals : i <= longest
    /\ Happens \subseteq {"tuning", "limits", "autotune", "accept", "writefail"}

VARIABLES
    cfg,        \* the DeviceConfig cache
    stored,     \* the gains in NVS
    posting,    \* the web task: gains between their flash write and their publication
    pending,    \* pendingGains
    gainsFlag, startFlag, cancelFlag,  \* the atomic request flags
    pc, reading, snap, firstGain,      \* the update in progress and its locals
    inputValid, \* lastInputValid
    shutoff,    \* safetyShutoff
    demand,     \* lastControlOutput > 0
    gains, running,  \* of the PID
    sinceCompute,    \* nowMs - lastPidComputeMs
    pidAge,          \* nowMs - pid.lastComputeMs
    run,        \* the autotuner
    finished,   \* history: the reading and limit of the last update that returned
    unbroken,   \* history: computed, and no skipped tick or gain change since
    held,       \* history: age of the demand; whether gains were adopted meanwhile
    stopAsked,  \* history: a reason of the user to stop since the run began
    revoked     \* history: 0, or 1 + the updates begun since a cancel followed the start
                \* request that is still pending

settings == <<cfg, stored, posting>>
requests == <<pending, gainsFlag, startFlag, cancelFlag>>
locals   == <<pc, reading, snap, firstGain>>
loop     == <<inputValid, shutoff, demand, gains, running, sinceCompute, pidAge, run>>
history  == <<finished, unbroken, held, stopAsked, revoked>>
vars     == <<settings, requests, locals, loop, history>>

Tunings == [kp: Gains, ki: Gains]
Posted == {[kp |-> g, ki |-> g] : g \in Gains}   \* what users post: any two differ in both
Config == [enabled: BOOLEAN, limit: Limits, gains: Tunings, interval: Intervals]
\* getProcessValue(): not valid after a lock timeout, too, or without a temperature.
Readings == [temp: Temps, valid: BOOLEAN]
MaxInterval == CHOOSE i \in Intervals : \A j \in Intervals : j <= i
NoPost == [on |-> FALSE, gains |-> CHOOSE g \in Posted : TRUE,
           interval |-> CHOOSE i \in Intervals : TRUE]
NoSnap == [enabled |-> FALSE, limit |-> CHOOSE l \in Limits : TRUE, gains |-> NoPost.gains,
           interval |-> NoPost.interval]
NoGain == CHOOSE g \in Gains : TRUE

\* Boot: begin() adopts the stored tuning; the decimation baseline is boot itself.
Init == /\ cfg \in [enabled: BOOLEAN, limit: Limits, gains: Posted, interval: Intervals]
        /\ stored = cfg.gains
        /\ posting = NoPost
        /\ pending = NoPost.gains
        /\ gainsFlag = FALSE /\ startFlag = FALSE /\ cancelFlag = FALSE
        /\ pc = "idle" /\ reading = [temp |-> CHOOSE t \in Temps : TRUE, valid |-> FALSE]
        /\ snap = NoSnap /\ firstGain = NoGain
        /\ inputValid = FALSE /\ shutoff = FALSE /\ demand = FALSE
        /\ gains = cfg.gains /\ running = FALSE
        /\ sinceCompute = 0 /\ pidAge = 0
        /\ run = NoRun
        /\ finished = [valid |-> FALSE, hot |-> FALSE]
        /\ unbroken = FALSE
        /\ held = [age |-> 0, regained |-> FALSE]
        /\ stopAsked = FALSE
        /\ revoked = 0

\* isHeatingPermitted(), as the Network task finds it at any moment.
Permitted == cfg.enabled /\ ~shutoff /\ inputValid
-----------------------------------------------------------------------------
(* Requests: the web task, and the Network task for MQTT.                  *)

\* setControlEnabled(): a configuration write only.
SetEnabled == /\ cfg' = [cfg EXCEPT !.enabled = ~@]
              /\ stopAsked' = (stopAsked \/ ~cfg'.enabled)
              /\ UNCHANGED <<stored, posting, requests, locals, loop, finished, unbroken, held,
                             revoked>>

\* updateActuatorTiming(): limit and hysteresis change in one step.
SetLimit == /\ "limits" \in Happens
            /\ \E l \in Limits \ {cfg.limit} : cfg' = [cfg EXCEPT !.limit = l]
            /\ UNCHANGED <<stored, posting, requests, locals, loop, history>>

\* requestGains(), the flash write; the result of it is not looked at.
Persist(g, i) ==
    /\ ~posting.on
    /\ posting' = [on |-> TRUE, gains |-> g, interval |-> i]
    /\ stored' \in {g} \cup (IF "writefail" \in Happens THEN {stored} ELSE {})
    /\ UNCHANGED <<cfg, requests, locals, loop, history>>

PostTuning == "tuning" \in Happens /\ \E g \in Posted, i \in Intervals : Persist(g, i)

\* acceptAutotuneResult(): the derived gains of a run that converged.
Accept == /\ "accept" \in Happens /\ run.state = "Done"
          /\ \E g \in Posted : Persist(g, cfg.interval)

\* requestGains(), the rest: the cache, then the pending gains, then the flag.
PublishGains ==
    /\ posting.on
    /\ posting' = NoPost
    /\ cfg' = [cfg EXCEPT !.gains = posting.gains, !.interval = posting.interval]
    /\ pending' = posting.gains
    /\ gainsFlag' = TRUE
    /\ UNCHANGED <<stored, startFlag, cancelFlag, locals, loop, history>>

RequestAutotuneStart ==
    /\ "autotune" \in Happens
    /\ cfg.enabled /\ ~Active(run)
    /\ startFlag' = TRUE
    /\ revoked' = 0
    /\ UNCHANGED <<settings, pending, gainsFlag, cancelFlag, locals, loop, finished, unbroken,
                   held, stopAsked>>

RequestAutotuneCancel ==
    /\ "autotune" \in Happens
    /\ cancelFlag' = TRUE
    /\ stopAsked' = TRUE
    /\ revoked' = IF startFlag THEN 1 ELSE 0
    /\ UNCHANGED <<settings, pending, gainsFlag, startFlag, locals, loop, finished, unbroken,
                   held>>
-----------------------------------------------------------------------------
(* update().                                                               *)

Aged(age, dt, limit) == IF age + dt > limit THEN limit ELSE age + dt

Begin ==
    /\ pc = "idle"
    /\ pc' = "snapshot"
    /\ reading' \in Readings
    /\ inputValid' = reading'.valid
    /\ \E dt \in 1 .. MaxStep :
          /\ sinceCompute' = Aged(sinceCompute, dt, MaxInterval)
          /\ pidAge' = IF running THEN Aged(pidAge, dt, MaxInterval + MaxStep) ELSE 0
          /\ held' = [held EXCEPT !.age = IF demand THEN Aged(@, dt, MaxInterval + MaxStep) ELSE 0]
    /\ revoked' = IF revoked \in {1, 2} THEN revoked + 1 ELSE revoked
    /\ UNCHANGED <<settings, requests, snap, firstGain, shutoff, demand, gains, running, run,
                   finished, unbroken, stopAsked>>

\* getDeviceConfigSnapshot(): the fields this tick uses, copied under the lock.
TakeSnapshot ==
    /\ pc = "snapshot"
    /\ pc' = "gains"
    /\ snap' = [cfg EXCEPT !.gains = NoSnap.gains]
    /\ UNCHANGED <<settings, requests, reading, firstGain, loop, history>>

\* The flag is exchanged and the copy of pendingGains begins ...
TakeGains ==
    /\ pc = "gains"
    /\ gainsFlag' = FALSE
    /\ IF gainsFlag THEN pc' = "adopt" /\ firstGain' = pending.kp
                    ELSE pc' = "latch" /\ UNCHANGED firstGain
    /\ UNCHANGED <<settings, pending, startFlag, cancelFlag, reading, snap, loop, history>>

\* suspendPid().
SuspendTimer == sinceCompute' = 0 /\ UNCHANGED <<running, pidAge>>   \* mutant: the PID goes on
SuspendPid == running' = FALSE /\ sinceCompute' = 0 /\ pidAge' = 0

SetGainsAtOnce(g) ==   \* mutant: the decimation baseline is not moved
    gains' = g /\ running' = FALSE /\ pidAge' = 0 /\ UNCHANGED sinceCompute

\* PidController::setGains() suspends, and update() restarts the interval.
SetGains(g) == gains' = g /\ SuspendPid

AdoptAndClear ==   \* mutant: the flag is cleared after the copy
    /\ pc = "adopt"
    /\ pc' = "latch"
    /\ SetGains([kp |-> firstGain, ki |-> pending.ki])
    /\ firstGain' = NoGain /\ gainsFlag' = FALSE
    /\ unbroken' = FALSE /\ held' = [held EXCEPT !.regained = demand]
    /\ UNCHANGED <<settings, pending, startFlag, cancelFlag, reading, snap, inputValid, shutoff,
                   demand, run, finished, stopAsked, revoked>>

\* ... and ends.
AdoptGains ==
    /\ pc = "adopt"
    /\ pc' = "latch"
    /\ SetGains([kp |-> firstGain, ki |-> pending.ki])
    /\ firstGain' = NoGain
    /\ unbroken' = FALSE /\ held' = [held EXCEPT !.regained = demand]
    /\ UNCHANGED <<settings, requests, reading, snap, inputValid, shutoff, demand, run, finished,
                   stopAsked, revoked>>

\* update() returns, with this demand, newly decided or held.
Return == /\ pc' = "idle"
          /\ reading' = [reading EXCEPT !.valid = FALSE, !.temp = CHOOSE t \in Temps : TRUE]
          /\ snap' = NoSnap
          /\ finished' = [valid |-> reading.valid, hot |-> reading.temp > snap.limit]
Deliver(d) == /\ Return /\ demand' = d
              /\ held' = [age |-> 0, regained |-> FALSE]

\* A tick on which the loop declines to compute.
Skip == SuspendPid /\ unbroken' = FALSE /\ Deliver(FALSE)

ShutoffOnLoss(r, s) ==      \* mutant: the limit is not looked at
    IF ~r.valid THEN TRUE ELSE IF r.temp < s.limit - Hyst THEN FALSE ELSE shutoff
ShutoffForGood(r, s) ==     \* mutant: never released
    IF ~r.valid \/ r.temp > s.limit THEN TRUE ELSE shutoff

\* The latch: an unusable or too hot reading engages it, a band below the limit releases.
ShutoffAfter(r, s) == IF ~r.valid \/ r.temp > s.limit THEN TRUE
                      ELSE IF r.temp < s.limit - Hyst THEN FALSE
                      ELSE shutoff

ShutOffPid ==   \* mutant: the run is not cancelled
    /\ pc = "latch" /\ ShutoffAfter(reading, snap)
    /\ shutoff' = TRUE
    /\ Skip
    /\ UNCHANGED <<settings, requests, firstGain, inputValid, gains, run, stopAsked, revoked>>

ShutOff ==
    /\ pc = "latch" /\ ShutoffAfter(reading, snap)
    /\ shutoff' = TRUE
    /\ run' = Cancelled(run)
    /\ Skip
    /\ UNCHANGED <<settings, requests, firstGain, inputValid, gains, stopAsked, revoked>>

StayOn ==
    /\ pc = "latch" /\ ~ShutoffAfter(reading, snap)
    /\ shutoff' = FALSE
    /\ pc' = "cancel"
    /\ UNCHANGED <<settings, requests, reading, snap, firstGain, inputValid, demand, gains,
                   running, sinceCompute, pidAge, run, history>>

\* The requests, each consumed by one exchange, the cancel first.
TakeCancel ==
    /\ pc = "cancel"
    /\ pc' = "start"
    /\ cancelFlag' = FALSE
    /\ run' = IF cancelFlag THEN Cancelled(run) ELSE run
    /\ UNCHANGED <<settings, pending, gainsFlag, startFlag, reading, snap, firstGain, inputValid,
                   shutoff, demand, gains, running, sinceCompute, pidAge, history>>

TakeStart ==
    /\ pc = "start"
    /\ pc' = "drive"
    /\ startFlag' = FALSE
    /\ IF startFlag /\ snap.enabled /\ ~Active(run)
       THEN run' = Started /\ stopAsked' = (cancelFlag \/ ~cfg.enabled)
       ELSE UNCHANGED <<run, stopAsked>>
    /\ revoked' = 0
    /\ UNCHANGED <<settings, pending, gainsFlag, cancelFlag, reading, snap, firstGain, inputValid,
                   shutoff, demand, gains, running, sinceCompute, pidAge, finished, unbroken,
                   held>>

\* A run owns the output; switched off underneath itself it is cancelled.
RunDisabled == /\ pc = "drive" /\ Active(run) /\ ~snap.enabled
               /\ run' = Cancelled(run)
               /\ Skip
               /\ UNCHANGED <<settings, requests, firstGain, inputValid, shutoff, gains,
                              stopAsked, revoked>>

DriveRun == /\ pc = "drive" /\ Active(run) /\ snap.enabled
            /\ SuspendPid /\ unbroken' = FALSE
            /\ run' \in Updates(run, reading.valid)
            /\ Deliver(run'.on)
            /\ UNCHANGED <<settings, requests, firstGain, inputValid, shutoff, gains,
                           stopAsked, revoked>>

SkipTick == /\ pc = "drive" /\ ~Active(run) /\ (~snap.enabled \/ ~reading.valid)
            /\ Skip
            /\ UNCHANGED <<settings, requests, firstGain, inputValid, shutoff, gains, run,
                           stopAsked, revoked>>

Regulating == pc = "drive" /\ ~Active(run) /\ snap.enabled /\ reading.valid

\* Between two computations the demand is held and the PID is not suspended.
HoldDemand == /\ Regulating /\ sinceCompute < snap.interval
              /\ Return
              /\ UNCHANGED <<settings, requests, firstGain, inputValid, shutoff, demand, gains,
                             running, sinceCompute, pidAge, run, unbroken, held, stopAsked,
                             revoked>>

\* PidController::update(): restarts bumplessly if it is not running.
Compute == /\ Regulating /\ sinceCompute >= snap.interval
           /\ sinceCompute' = 0 /\ pidAge' = 0 /\ running' = TRUE
           /\ unbroken' = TRUE
           /\ \E d \in BOOLEAN : Deliver(d)
           /\ UNCHANGED <<settings, requests, firstGain, inputValid, shutoff, gains, run,
                          stopAsked, revoked>>

UpdateStep == \/ Begin \/ TakeSnapshot \/ TakeGains \/ AdoptGains \/ ShutOff \/ StayOn
              \/ TakeCancel \/ TakeStart \/ RunDisabled \/ DriveRun \/ SkipTick \/ HoldDemand
              \/ Compute

Next == \/ UpdateStep
        \/ SetEnabled \/ SetLimit \/ PostTuning \/ Accept \/ PublishGains
        \/ RequestAutotuneStart \/ RequestAutotuneCancel

Spec == Init /\ [][Next]_vars

\* The Sensor Monitor task keeps reading (its watchdog resets the device otherwise).
FairSpec == Spec /\ WF_vars(UpdateStep)
-----------------------------------------------------------------------------
Posting == [on: BOOLEAN, gains: Posted, interval: Intervals]
Verdict == [valid: BOOLEAN, hot: BOOLEAN]
Holding == [age: Nat, regained: BOOLEAN]

TypeOK ==
    /\ cfg \in Config /\ stored \in Tunings /\ posting \in Posting /\ pending \in Posted
    /\ gainsFlag \in BOOLEAN /\ startFlag \in BOOLEAN /\ cancelFlag \in BOOLEAN
    /\ pc \in {"idle", "snapshot", "gains", "adopt", "latch", "cancel", "start", "drive"}
    /\ reading \in Readings /\ snap \in Config /\ firstGain \in Gains
    /\ inputValid \in BOOLEAN /\ shutoff \in BOOLEAN /\ demand \in BOOLEAN
    /\ gains \in Tunings /\ running \in BOOLEAN /\ sinceCompute \in Nat /\ pidAge \in Nat
    /\ run \in Run /\ (run.on => Active(run)) /\ (run.reason = "None" <=> run.state # "Aborted")
    /\ finished \in Verdict /\ unbroken \in BOOLEAN /\ held \in Holding
    /\ stopAsked \in BOOLEAN /\ revoked \in 0 .. 3

\* Whenever the Network task asks, in the middle of an update too, heat is asked for and
\* permitted only if the last update that returned had a usable reading, not above its
\* limit (lastInputValid is set first, the latch released last, the demand zeroed).
HeatOnGoodReading == Permitted /\ demand => finished.valid /\ ~finished.hot

\* While the shutoff is engaged or the reading unusable nothing asks for heat: not the
\* PID, not a run, and no demand is left over from before.
ShutoffSilences == pc = "idle" /\ (shutoff \/ ~inputValid) =>
                       ~demand /\ ~Active(run) /\ ~running

\* One owner of the output: the PID is suspended for the whole of a run.
RunOwnsTheOutput == pc = "idle" /\ Active(run) => ~running

\* The PID restarts bumplessly exactly when a tick was skipped or the gains changed
\* since it last computed, and a decimated tick is neither (suspendPid(), setGains()).
RestartsAfterGapsOnly == pc = "idle" => (running <=> unbroken)

\* However updates, gaps and interval changes fall, the integral is never charged with
\* more time than one control interval and a late tick.
NoGapIsCharged == Regulating /\ running => pidAge < snap.interval + MaxStep

\* No output is computed with gains nobody stored: not with the kp of one request and
\* the ki of the next (the hand-over through pendingGains).
ComputesWithWholeGains == Regulating /\ sinceCompute >= snap.interval => gains.kp = gains.ki

\* With no request on its way the running gains are the ones in the cache, whatever
\* the interleaving of the requests before (requestGains(), update()).
GainsConverge == pc = "idle" /\ ~gainsFlag /\ ~posting.on => gains = cfg.gains

\* A demand is not held past one interval and a late tick, unless gains were adopted.
DemandIsRecent == pc = "idle" /\ demand /\ ~held.regained => held.age < MaxInterval + MaxStep

\* Left alone with good readings the loop keeps computing: no shutoff, request, gap or
\* run of the past keeps it from it for good.
Healthy == /\ cfg.enabled /\ ~Active(run) /\ ~startFlag /\ ~gainsFlag /\ ~posting.on
           /\ pc \notin {"idle", "start", "drive"} =>
                 reading.valid /\ reading.temp < cfg.limit - Hyst
ComputesAgain == <>[]Healthy => []<><<Compute>>_vars
-----------------------------------------------------------------------------
(* What the specification and the comments say and the code does not do.    *)

\* TemperatureController.h: the hand-over "makes the set indivisible from the control
\* task's point of view".
GainsAreWhole == gains.kp = gains.ki

\* pid-autotune spec, "A failed write does not leave divergent state": the running
\* gains are the ones that would survive a restart.
GainsSurviveRestart == pc = "idle" /\ ~gainsFlag /\ ~posting.on => gains = stored

\* pid-autotune spec: an abort records why; "user-requested" is the caller's cancel, or
\* control switched off mid-run.
UserRequestedIsTheUser == Aborted("UserRequested") = run => stopAsked

\* pid-autotune spec: a run is cancellable at any time; a start request that was
\* cancelled a whole tick ago begins no run.
CancelledStartStaysCancelled == [][revoked = 3 => ~(Active(run') /\ ~Active(run))]_vars
-----------------------------------------------------------------------------
(* The inductive invariants behind them (SensorMonitorProofs).             *)

\* Past the latch the reading is a good one by the limit of the snapshot; a demand
\* outlives an update only if the update got there.
PastTheLatch ==
    /\ pc # "idle" => inputValid = reading.valid
    /\ pc \in {"cancel", "start", "drive"} =>
          ~shutoff /\ reading.valid /\ ~(reading.temp > snap.limit)
    /\ demand => finished.valid /\ ~finished.hot
HeatInv == PastTheLatch /\ ShutoffSilences

\* The hand-over: what is pending is what is in the cache, and a set torn in two is
\* followed by another adoption before anything is computed with it.
HandOver ==
    /\ gainsFlag \/ pc = "adopt" => pending = cfg.gains
    /\ pc = "adopt" /\ ~gainsFlag => firstGain = pending.kp
    /\ pc # "adopt" /\ ~gainsFlag => gains = cfg.gains
    /\ cfg.gains \in Posted
TornIsIdle ==
    gains.kp # gains.ki =>
        /\ gainsFlag \/ pc = "adopt"
        /\ pc \in {"latch", "cancel", "start", "drive"} => sinceCompute = 0
GainsInv == HandOver /\ TornIsIdle

\* While the PID runs both baselines count from the same computation, and an interval
\* that changes arrives with gains to adopt, which stop it.
OneBaseline ==
    running =>
        /\ sinceCompute = IF pidAge < MaxInterval THEN pidAge ELSE MaxInterval
        /\ pc = "idle" /\ ~gainsFlag => pidAge < cfg.interval
        /\ pc = "snapshot" /\ ~gainsFlag => pidAge < cfg.interval + MaxStep
        /\ pc \in {"latch", "cancel", "start", "drive"} \/ (pc = "gains" /\ ~gainsFlag) =>
              /\ pidAge < snap.interval + MaxStep
              /\ ~gainsFlag => snap.interval = cfg.interval
=============================================================================
