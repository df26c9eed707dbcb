-------------------------- MODULE HeatingActuator --------------------------
(***************************************************************************)
(* The actuator tick of the Network task (Network::tickActuator and        *)
(* src/actuator/HeatingActuator.cpp) against the relays it commands over   *)
(* HTTP.  A tick blocks on up to three requests, so it is a sequence of    *)
(* steps: what it sampled at its start can be out of date when it acts,    *)
(* and the control task, the web task, the relays and an OTA job all run   *)
(* in between.  The unit of time is TICK_MS; every stored timestamp is     *)
(* kept as its age.                                                        *)
(***************************************************************************)
EXTENDS TimeProportionalOutput, ShellyRelay

CONSTANTS
    Valve,         \* channels that can be assigned (a host and a channel number)
    NoValve,       \* no assignment
    Renew,         \* RENEW_MS, in ticks
    ObserveEvery,  \* OBSERVE_MS
    Recheck,       \* CONFORMANCE_RECHECK_MS
    StaleAfter,    \* OBSERVATION_STALE_MS
    MinLease,      \* MIN_LEASE_S
    Cycle, Travel, \* the configured TPO timing
    Shares,        \* demands of the controller, as shares of the cycle
    RelayConfigs,  \* configurations a relay can have
    Powers,        \* what a closed contact's metering can read: "none" is no metering
    MaxDelay,      \* the longest auto-off delay among them
    MaxLate,       \* longest gap between two ticks of a Network task that is not paused
    Happens        \* what the environment may do in this instance

ASSUME ActuatorAssumption ==
    /\ NoValve \notin Valve
    /\ {Renew, ObserveEvery, Recheck, StaleAfter, MinLease, MaxLate} \subseteq Nat \ {0}
    /\ Cycle \in Nat /\ Travel \in Nat /\ TimingValid(Cycle, Travel)
    /\ Shares \subseteq 0 .. Cycle
    /\ RelayConfigs \subseteq ChannelConfig
    /\ MaxDelay \in Nat /\ \A c \in RelayConfigs : c.delay <= MaxDelay
    /\ Powers \subseteq {"none", "idle", "drawing"}
    /\ Happens \subseteq {"loss", "ota", "assign", "reconfigure", "reboot", "input", "recheck",
                    "reset"}

VARIABLES
    control,     \* what the control task offers: demand share and permission
    assignment,  \* actuator_host and actuator_channel in the DeviceConfig cache
    ota,         \* OTAUpdater::isUpdateInProgress(): the loop skips the tick
    late,        \* ticks since tickActuator() last ran
    pc, sample, fetched,              \* the tick in progress and its locals
    channel,                          \* host and channel after configure()
    conformance, everChecked, confAge,
    commanded, cmdAge,
    observed, obsAge,                 \* observation (and the valve it is of: history),
                                      \* and age of the last readStatus()
    tpo,
    reported,    \* what publishActuatorState() last left for the displays
    relay,       \* the relays
    withdrawn,   \* history: ticks since a valve was last assigned and permitted
    badFor,      \* history: ticks since a relay stopped conforming
    calm, misses, \* history: nothing but failed on-requests since the last success
    asked        \* history: ticks begun since a re-check was asked for and not done

device == <<channel, conformance, everChecked, confAge, commanded, cmdAge,
            observed, obsAge, tpo, reported>>
tick   == <<pc, sample, fetched>>
world  == <<control, assignment, ota, late, relay>>
history == <<withdrawn, badFor, calm, misses, asked>>
vars   == <<device, tick, world, history>>

NoSample == [share |-> 0, permitted |-> FALSE]   \* a local that is out of scope
NoObservation == [valid |-> FALSE, output |-> FALSE, power |-> "none", age |-> 0, of |-> NoValve]
Agreements == {"Unknown", "ClosedOk", "HeatingOk", "NoActuator", "RelayRefused"}
Steps == {"idle", "fetch", "store", "drive", "observe"}

\* Ages are capped where the code no longer tells them apart, and stay 0 while the
\* code does not read them; a tick computes with the time at which it began, late
\* ticks ago.
Older(age, limit) == IF age >= limit + MaxLate THEN limit + MaxLate ELSE age + 1
SinceAge(age) == age - late

Conforms(v) == CheckConformance(relay[v].cfg, MinLease) = "Ok"

Init == /\ control = [share |-> 0, permitted |-> FALSE]
        /\ assignment \in Valve \cup {NoValve}
        /\ ota = FALSE
        /\ late = 1
        /\ pc = "idle"
        /\ sample = NoSample
        /\ fetched = "NotRead"
        /\ channel = NoValve
        /\ conformance = "NotRead" /\ everChecked = FALSE /\ confAge = 0
        /\ commanded = FALSE /\ cmdAge = 0
        /\ observed = NoObservation /\ obsAge = late
        /\ tpo = NewTpo(Cycle, Travel)
        /\ reported = [assigned |-> FALSE, agreement |-> "Unknown"]
        /\ relay \in [Valve -> {[on |-> FALSE, lease |-> 0, cfg |-> c] : c \in RelayConfigs}]
        /\ withdrawn = [v \in Valve |-> 0]
        /\ badFor = [v \in Valve |-> 0]
        /\ calm = FALSE /\ misses = 0 /\ asked = 0
-----------------------------------------------------------------------------
(* The tick.                                                               *)

\* mutant: the observation of the channel before is carried over
ConfigureKeepsObservation ==
    /\ channel' = assignment
    /\ tpo' = SetTiming(tpo, Cycle, Travel)
    /\ IF channel # assignment
       THEN /\ conformance' = "NotRead" /\ everChecked' = FALSE /\ confAge' = 0
            /\ commanded' = FALSE /\ cmdAge' = 0
       ELSE UNCHANGED <<conformance, everChecked, commanded, confAge, cmdAge>>
    /\ UNCHANGED observed

\* configure(): a different channel is a different valve.  It also re-applies the
\* timing, whether it changed or not.
Configure ==
    /\ channel' = assignment
    /\ tpo' = SetTiming(tpo, Cycle, Travel)
    /\ IF channel # assignment
       THEN /\ conformance' = "NotRead"
            /\ everChecked' = FALSE
            /\ observed' = NoObservation
            /\ commanded' = FALSE
            /\ confAge' = 0 /\ cmdAge' = 0
       ELSE UNCHANGED <<conformance, everChecked, observed, commanded, confAge, cmdAge>>

\* agreement(): how the command and the last observation line up.  The power is
\* looked at only when the contact is closed.
AgreementOf(cmd, obs, age) ==
    IF ~obs.valid \/ age > StaleAfter THEN "Unknown"
    ELSE IF ~cmd THEN "ClosedOk"
    ELSE IF ~obs.output THEN "RelayRefused"
    ELSE IF obs.power = "idle" THEN "NoActuator"
    ELSE "HeatingOk"

\* publishActuatorState() ends every tick that tickActuator() runs.
Publish(cmd, obs) == reported' = [assigned |-> channel' # NoValve,
                                  agreement |-> AgreementOf(cmd, obs, obs.age - late')]

\* The gate of tickActuator(), configure(), and the reads of demand and permission.
TickStart ==
    /\ pc = "idle" /\ ~ota /\ late >= 1
    /\ late' = 0
    /\ Configure
    /\ IF assignment = NoValve
       THEN /\ pc' = "idle" /\ sample' = NoSample
            /\ Publish(commanded', observed')
       ELSE /\ pc' = IF ~everChecked' \/ confAge' >= Recheck THEN "fetch" ELSE "drive"
            /\ sample' = control
            /\ UNCHANGED reported
    /\ asked' = IF asked > 0 /\ asked < 3 THEN asked + 1 ELSE asked
    /\ UNCHANGED <<fetched, obsAge, control, assignment, ota, relay,
                   withdrawn, badFor, calm, misses>>

\* readConfig(), the request: any failure reads as NotRead.
FetchConfig ==
    /\ pc = "fetch"
    /\ pc' = "store"
    /\ \/ fetched' = CheckConformance(relay[channel].cfg, MinLease)
       \/ "loss" \in Happens /\ fetched' = "NotRead"
    /\ asked' = 0
    /\ UNCHANGED <<sample, device, world, withdrawn, badFor, calm, misses>>

StoreGoodVerdict ==   \* mutant: a failed read keeps the last verdict
    /\ pc = "store"
    /\ pc' = "drive"
    /\ conformance' = IF fetched = "NotRead" THEN conformance ELSE fetched
    /\ everChecked' = TRUE
    /\ confAge' = late
    /\ fetched' = "NotRead"
    /\ UNCHANGED <<sample, channel, commanded, cmdAge, observed, obsAge, tpo,
                   reported, world, history>>

\* readConfig(), the answer.  The stored time is that of the tick's start.
StoreVerdict ==
    /\ pc = "store"
    /\ pc' = "drive"
    /\ conformance' = fetched
    /\ everChecked' = TRUE
    /\ confAge' = late
    /\ fetched' = "NotRead"
    /\ UNCHANGED <<sample, channel, commanded, cmdAge, observed, obsAge, tpo,
                   reported, world, history>>

\* sendSet(): the request can be lost, or applied and its answer lost.  Either is a
\* failure to the firmware.
Send(on, ok) ==
    \/ ok /\ relay' = [relay EXCEPT ![channel] = Switch(@, on)]
    \/ ~ok /\ "loss" \in Happens /\ relay' \in {relay, [relay EXCEPT ![channel] = Switch(@, on)]}

NextStep == IF SinceAge(obsAge) >= ObserveEvery THEN "observe" ELSE "idle"

\* A tick that does not observe ends here.
Finish == IF NextStep = "idle" THEN Publish(commanded', observed) ELSE UNCHANGED reported

MayDriveUnasked == conformance = "Ok"   \* mutant: the permission is not looked at

MayDrive == sample.permitted /\ conformance = "Ok"

ForceClosedSilently ==   \* mutant: closed without a request
    commanded' = FALSE /\ cmdAge' = 0 /\ UNCHANGED relay

\* forceClosed() adopts the closed state whether or not its request succeeded.
ForceClosed ==
    IF commanded
    THEN (\E ok \in BOOLEAN : Send(FALSE, ok)) /\ commanded' = FALSE /\ cmdAge' = 0
    ELSE UNCHANGED <<commanded, cmdAge, relay>>

\* Not permitted or not conforming.
HoldClosed ==
    /\ pc = "drive" /\ ~MayDrive
    /\ tpo' = Reset(tpo)
    /\ ForceClosed
    /\ pc' = NextStep /\ sample' = NoSample
    /\ UNCHANGED <<channel, late>>
    /\ Finish
    /\ calm' = FALSE
    /\ UNCHANGED <<fetched, conformance, everChecked, confAge, observed, obsAge,
                   control, assignment, ota, withdrawn, badFor, misses, asked>>

\* Driving: transitions go at once, a steady open state is renewed.
WantOpen == Update(tpo, sample.share).open
DueOnChange == WantOpen # commanded   \* mutant: a steady open state is not renewed

Due == WantOpen # commanded \/ (WantOpen /\ SinceAge(cmdAge) >= Renew)

LastCommandAnyway(ok) == IF WantOpen THEN late ELSE 0   \* mutant: a failure counts as well

\* lastCommandMs is the start of a tick whose command succeeded; the age of a close is
\* not looked at.
LastCommand(ok) == IF ~ok THEN cmdAge ELSE IF WantOpen THEN late ELSE 0

Drive ==
    /\ pc = "drive" /\ MayDrive
    /\ tpo' = Update(tpo, sample.share)
    /\ IF Due
       THEN \E ok \in BOOLEAN :
               /\ Send(WantOpen, ok)
               /\ commanded' = (IF ok THEN WantOpen ELSE commanded)
               /\ cmdAge' = LastCommand(ok)
               /\ calm' = ((ok \/ (calm /\ WantOpen)) /\ ~ota)
               /\ misses' = (IF ok THEN 0 ELSE IF misses < 2 THEN misses + 1 ELSE misses)
       ELSE UNCHANGED <<commanded, cmdAge, relay, calm, misses>>
    /\ pc' = NextStep /\ sample' = NoSample
    /\ UNCHANGED <<channel, late>>
    /\ Finish
    /\ UNCHANGED <<fetched, conformance, everChecked, confAge, observed, obsAge,
                   control, assignment, ota, withdrawn, badFor, asked>>

\* readStatus(): a failure keeps the last observation.  The power of
\* an open contact is never looked at.
ObserveRelay ==
    /\ pc = "observe"
    /\ obsAge' = late
    /\ \/ \E p \in IF relay[channel].on THEN Powers ELSE {"none"} :
             observed' = [valid |-> TRUE, output |-> relay[channel].on, power |-> p,
                          age |-> late, of |-> channel]
       \/ "loss" \in Happens /\ UNCHANGED observed
    /\ pc' = "idle"
    /\ UNCHANGED <<channel, late>>
    /\ Publish(commanded, observed')
    /\ UNCHANGED <<sample, fetched, conformance, everChecked, confAge, commanded, cmdAge, tpo,
                   control, assignment, ota, relay, history>>
-----------------------------------------------------------------------------
(* The rest of the device and of the house.                                *)

Driven(v) == assignment' = v /\ control'.permitted

\* The control task computes a new demand or changes its mind about permission.
Offer == /\ control' \in [share: Shares, permitted: BOOLEAN] \ {control}
         /\ UNCHANGED assignment
         /\ withdrawn' = [v \in Valve |-> IF Driven(v) THEN 0 ELSE withdrawn[v]]
         /\ UNCHANGED <<ota, late, relay, device, tick, badFor, calm, misses, asked>>

\* POST /api/actuator: updateActuatorAssignment().
Assign == /\ "assign" \in Happens
          /\ assignment' \in (Valve \cup {NoValve}) \ {assignment}
          /\ UNCHANGED control
          /\ withdrawn' = [v \in Valve |-> IF Driven(v) THEN 0 ELSE withdrawn[v]]
          /\ UNCHANGED <<ota, late, relay, device, tick, badFor, calm, misses, asked>>

\* POST /api/actuator/recheck, on the web task.
RequestRecheck ==
    /\ "recheck" \in Happens
    /\ everChecked' = FALSE /\ confAge' = 0
    /\ asked' = IF channel # NoValve /\ asked = 0 THEN 1 ELSE asked
    /\ UNCHANGED <<channel, conformance, commanded, cmdAge, observed, obsAge, tpo,
                   reported, tick, world, withdrawn, badFor, calm, misses>>

\* An OTA check or update begins or ends; a tick already running completes.
OtaToggle == /\ "ota" \in Happens
             /\ ota' = ~ota
             /\ calm' = FALSE
             /\ UNCHANGED <<control, assignment, late, relay, device, tick, withdrawn, badFor,
                            misses, asked>>

\* The device resets: what it knew of the relay is gone, the assignment is in flash.
DeviceResets ==
    /\ "reset" \in Happens
    /\ control' = [share |-> 0, permitted |-> FALSE]
    /\ ota' = FALSE /\ late' = 1 /\ pc' = "idle" /\ sample' = NoSample /\ fetched' = "NotRead"
    /\ channel' = NoValve
    /\ conformance' = "NotRead" /\ everChecked' = FALSE /\ confAge' = 0
    /\ commanded' = FALSE /\ cmdAge' = 0
    /\ observed' = NoObservation /\ obsAge' = 1
    /\ tpo' = NewTpo(Cycle, Travel)
    /\ reported' = [assigned |-> FALSE, agreement |-> "Unknown"]
    /\ calm' = FALSE /\ misses' = 0 /\ asked' = 0
    /\ UNCHANGED <<assignment, relay, withdrawn, badFor>>

Reconfigure(v) ==
    /\ "reconfigure" \in Happens
    /\ \E c \in RelayConfigs \ {relay[v].cfg} : relay' = [relay EXCEPT ![v].cfg = c]
    /\ badFor' = [badFor EXCEPT ![v] =
                    IF CheckConformance(relay'[v].cfg, MinLease) = "Ok" THEN 0 ELSE @]
    /\ calm' = FALSE
    /\ UNCHANGED <<control, assignment, ota, late, device, tick, withdrawn, misses, asked>>

Disturb(v) ==
    /\ \/ "reboot" \in Happens /\ \E r \in Rebooted(relay[v]) : relay' = [relay EXCEPT ![v] = r]
       \/ "input" \in Happens /\ \E r \in Toggled(relay[v]) : relay' = [relay EXCEPT ![v] = r]
    /\ calm' = FALSE
    /\ UNCHANGED <<control, assignment, ota, late, device, tick, withdrawn, badFor, misses, asked>>

Counted(n, limit) == IF n >= limit THEN limit ELSE n + 1

\* One TICK_MS of time.  Only an OTA job keeps the Network task from its tick for
\* longer than MaxLate.
Pass ==
    /\ late < MaxLate \/ (ota /\ pc = "idle")
    /\ late' = Counted(late, MaxLate)
    /\ relay' = [v \in Valve |-> Elapse(relay[v])]
    /\ confAge' = IF everChecked THEN Older(confAge, Recheck) ELSE 0
    /\ cmdAge' = IF commanded THEN Older(cmdAge, Renew) ELSE 0
    /\ obsAge' = Older(obsAge, ObserveEvery)
    /\ observed' = [observed EXCEPT !.age = IF ~observed.valid THEN 0
                                            ELSE Counted(@, StaleAfter + 2 * MaxLate + 1)]
    /\ tpo' = IF tpo.started THEN [tpo EXCEPT !.elapsed = Counted(@, Cycle)] ELSE tpo
    /\ withdrawn' = [v \in Valve |-> IF assignment = v /\ control.permitted THEN 0
                                     ELSE Counted(withdrawn[v], MaxLate + MaxDelay + 1)]
    /\ badFor' = [v \in Valve |-> IF Conforms(v) THEN 0
                                  ELSE Counted(badFor[v], Recheck + MaxLate + 1)]
    /\ UNCHANGED <<channel, conformance, everChecked, commanded, reported, tick, control,
                   assignment, ota, calm, misses, asked>>

TickStep == TickStart \/ FetchConfig \/ StoreVerdict \/ HoldClosed \/ Drive \/ ObserveRelay

Next == \/ TickStep \/ Offer \/ Assign \/ RequestRecheck \/ OtaToggle \/ DeviceResets \/ Pass
        \/ \E v \in Valve : Reconfigure(v) \/ Disturb(v)

Spec == Init /\ [][Next]_vars

\* The Network task comes back to its tick, a tick in progress goes on (each request
\* has a timeout), and time passes, however often OTA jobs begin and end.
Fairness == WF_vars(TickStep) /\ WF_vars(Pass) /\ WF_vars(TickStep \/ Pass)
FairSpec == Spec /\ Fairness
-----------------------------------------------------------------------------
Observation == [valid: BOOLEAN, output: BOOLEAN, power: Powers \cup {"none"}, age: Nat,
                of: Valve \cup {NoValve}]

TypeOK ==
    /\ control \in [share: Shares \cup {0}, permitted: BOOLEAN]
    /\ assignment \in Valve \cup {NoValve} /\ channel \in Valve \cup {NoValve}
    /\ ota \in BOOLEAN /\ late \in 0 .. MaxLate
    /\ pc \in Steps /\ (pc # "idle" => channel \in Valve)
    /\ sample \in [share: Shares \cup {0}, permitted: BOOLEAN]
    /\ fetched \in Conformances /\ conformance \in Conformances
    /\ everChecked \in BOOLEAN /\ commanded \in BOOLEAN
    /\ {confAge, cmdAge, obsAge, observed.age} \subseteq Nat
    /\ observed \in Observation
    /\ tpo \in Tpo /\ tpo.cycle = Cycle /\ tpo.travel = Travel
    /\ reported \in [assigned: BOOLEAN, agreement: Agreements]
    /\ relay \in [Valve -> Relay(RelayConfigs)]
    /\ withdrawn \in [Valve -> Nat] /\ badFor \in [Valve -> Nat]
    /\ calm \in BOOLEAN /\ misses \in 0 .. 2 /\ asked \in 0 .. 3

\* Whatever is lost, reassigned, paused or reset, a contact the firmware closed is open again
\* within one lease of the instant its valve stopped being assigned and permitted,
\* plus the tick that was already under way and still acts on the permission it read
\* at its start (tickActuator() samples, tick() sends).
LeaseFailsafe == \A v \in Valve :
    relay[v].lease > 0 => withdrawn[v] + relay[v].lease <= MaxLate + MaxDelay

\* No tick drives a channel on the strength of a check that is out of date: it was
\* conforming at most one re-check interval and one late tick ago.  A channel taken
\* over from another is checked again (configure(), readConfig()).
DrivesOnlyCheckedChannel ==
    pc = "drive" /\ MayDrive => badFor[channel] < Recheck + MaxLate

\* One failed renewal does not move the valve: while nothing else interferes, the
\* contact stays closed through it (RENEW_MS against the lease, lastCommandMs not
\* advanced by a failure).
HeldThroughOneFailure == commanded /\ calm /\ misses <= 1 => relay[channel].on

\* With every request answered, the assignment left alone and no reset, a contact that the
\* firmware closed is opened again within the gap between two ticks and one tick's
\* requests of its valve no longer being permitted: by command, its lease still
\* running, and not by the lease (tick(), forceClosed()).
ClosedByCommand == \A v \in Valve : withdrawn[v] > 2 * MaxLate => relay[v].lease = 0

\* What a tick leaves for the displays rests on an observation of the valve that is
\* assigned, not of the one before, no older than OBSERVATION_STALE_MS and the ticks
\* that took and published it, and heating is
\* reported only while that observation is of a closed contact that does not read
\* as unloaded, whatever was commanded, reassigned or paused since (agreement(),
\* publishActuatorState()).
ReportIsObserved ==
    /\ pc = "idle" /\ late = 0 /\ reported.agreement # "Unknown" =>
           observed.valid /\ observed.of = channel /\ observed.age <= StaleAfter + 2 * MaxLate
    /\ pc = "idle" /\ reported.agreement = "HeatingOk" =>
           observed.output /\ observed.power # "idle" /\ commanded

\* A valve left assigned, permitted and conforming at full demand is open again and
\* again, whatever reboots its relay and whatever it was doing before: the transition
\* and renewal rules of tick() never give up.
Wanted(v, share) == /\ assignment = v /\ control = [share |-> share, permitted |-> TRUE]
                    /\ Conforms(v)
OpensOnFullDemand == \A v \in Valve : <>[]Wanted(v, Cycle) => []<>relay[v].on

\* A valve that is never again assigned and permitted is closed for good in the end,
\* by command or by its lease.
Withdrawn(v) == ~(assignment = v /\ control.permitted)
EventuallyClosed == \A v \in Valve : <>[]Withdrawn(v) => <>[]~relay[v].on
-----------------------------------------------------------------------------
(* What the specification and the comments say and the code does not do.    *)

\* heating-actuator spec, "Duty latched for the cycle": a steady demand that is worth
\* a full open and a full closed stroke opens and closes the valve in every cycle.
DutyBecomesOpenTime == \A v \in Valve : \A s \in Shares :
    <>[]Wanted(v, s) /\ Travel <= s /\ s <= Cycle - Travel => []<>~relay[v].on

\* HeatingActuator.h: ClosedOk is "commanded off, observed off".
ClosedMeansObservedOff ==
    pc = "idle" /\ reported.agreement = "ClosedOk" => ~observed.output

\* heating-actuator spec: a failed command "SHALL NOT be treated as a successful
\* command"; the firmware believes a valve closed only once the relay has opened.
FailedCloseIsNotBelieved ==
    [][commanded /\ ~commanded' /\ channel' = channel => ~relay'[channel].on]_vars

\* requestRecheck(): "Re-read the channel configuration on the next tick".
RecheckOnNextTick == asked < 3
-----------------------------------------------------------------------------
(* The inductive invariants behind them (HeatingActuatorProofs).            *)

\* The part of a tick that still acts on what it sampled at its start.
Sampling == pc \in {"fetch", "store", "drive"}

\* A history is 0 while what it counts has not begun; a tick that acts on a
\* permission has read it late ticks ago.
PermissionIsRecent ==
    /\ \A v \in Valve : assignment = v /\ control.permitted => withdrawn[v] = 0
    /\ sample.permitted => Sampling /\ withdrawn[channel] <= late

\* A verdict is as old as its age says, as long as that age is counted; the tick that
\* goes by it began within Recheck of it.
VerdictIsRecent ==
    /\ \A v \in Valve : Conforms(v) => badFor[v] = 0
    /\ conformance = "Ok" => channel \in Valve
    /\ pc = "store" /\ fetched = "Ok" => badFor[channel] <= late
    /\ conformance = "Ok" /\ everChecked /\ confAge < Recheck + MaxLate
         => badFor[channel] <= confAge
    /\ conformance = "Ok" /\ pc = "drive" => badFor[channel] < Recheck + late

\* An observation does not outlive the assignment of its valve, and between two ticks
\* the report is that of the last one.
ReportFollowsTick ==
    /\ observed.valid => observed.of = channel
    /\ pc = "idle" /\ reported.agreement # "Unknown" =>
        /\ observed.valid /\ (late < MaxLate => observed.age <= StaleAfter + late)
        /\ reported.agreement = "HeatingOk" =>
               observed.output /\ observed.power # "idle" /\ commanded

IInv == TypeOK /\ LeaseFailsafe /\ PermissionIsRecent /\ VerdictIsRecent /\ ReportFollowsTick

\* What keeps a contact closed through one failure: its timer either does not run or
\* covers the retries that are left, one late tick each.
RetriesLeft == (IF misses = 0 THEN 0 ELSE MaxLate) + (IF Sampling THEN MaxLate ELSE 0) + late
RenewalsInTime ==
    /\ calm => ~ota
    /\ commanded => channel \in Valve
    /\ commanded /\ calm /\ misses <= 1 =>
        LET r == relay[channel] IN
        /\ r.on
        /\ r.lease = 0 \/ r.lease + RetriesLeft > MinLease - Renew
        /\ misses = 0 /\ cmdAge < Renew + MaxLate => r.lease = 0 \/ r.lease + cmdAge >= MinLease
        /\ misses = 1 => cmdAge - late >= Renew

\* With every request answered, a contact that the firmware holds closed is one it
\* commanded, and its next tick looks at the permission again.
HeldByCommand ==
    /\ ~ota /\ (pc # "idle" => channel = assignment)
    /\ \A v \in Valve : relay[v].lease > 0 =>
         /\ v = channel /\ v = assignment /\ commanded
         /\ withdrawn[v] <= late + (IF Sampling /\ ~sample.permitted THEN MaxLate ELSE 0)
=============================================================================
