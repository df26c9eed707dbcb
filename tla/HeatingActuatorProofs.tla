----------------------- MODULE HeatingActuatorProofs -----------------------
(***************************************************************************)
(* Proofs about HeatingActuator for every set of valves and relay          *)
(* configurations, every interval and everything that may happen.          *)
(***************************************************************************)
EXTENDS HeatingActuator, DutyCycle, TLAPS

LEMMA Intervals ==
    /\ Renew \in Nat /\ Renew > 0 /\ ObserveEvery \in Nat /\ ObserveEvery > 0
    /\ Recheck \in Nat /\ Recheck > 0 /\ StaleAfter \in Nat /\ StaleAfter > 0
    /\ MinLease \in Nat /\ MinLease > 0 /\ MaxLate \in Nat /\ MaxLate > 0
    /\ Cycle \in Nat /\ Travel \in Nat /\ MaxDelay \in Nat
BY ActuatorAssumption

LEMMA Zero == 0 \in Nat /\ 0 \in Int /\ 0 \in 0 .. 3 /\ 0 \in 0 .. 2 OBVIOUS

-----------------------------------------------------------------------------
(* The duty cycle stays an object of its class with its timing.             *)

Timed(t) == t \in Tpo /\ t.cycle = Cycle /\ t.travel = Travel

LEMMA LatchedIsTimed ==
    ASSUME NEW t, Timed(t), NEW on \in Nat, NEW credit \in Int
    PROVE  Timed(Latched(t, on, credit))
<1>1. PICK u : u = Latched(t, on, credit) OBVIOUS
<1>2. u \in Tpo /\ u.cycle = t.cycle /\ u.travel = t.travel
  BY <1>1, Zero DEF Latched, Timed, Tpo
<1> QED BY <1>1, <1>2 DEF Timed

LEMMA ResetIsTimed == ASSUME NEW t, Timed(t) PROVE Timed(Reset(t)) /\ ~Reset(t).started
<1>1. PICK v : v = Latched(t, 0, 0) OBVIOUS
<1>2. Timed(v) BY <1>1, Zero, LatchedIsTimed
<1>3. PICK u : u = [v EXCEPT !.started = FALSE, !.open = FALSE] OBVIOUS
<1>4. u \in Tpo /\ u.cycle = v.cycle /\ u.travel = v.travel /\ ~u.started
  <2> HIDE <1>1
  <2> QED BY <1>2, <1>3 DEF Timed, Tpo
<1>5. Reset(t) = u BY <1>1, <1>3 DEF Reset
<1> QED BY <1>2, <1>4, <1>5 DEF Timed

LEMMA SetTimingIsTimed == ASSUME NEW t, Timed(t) PROVE Timed(SetTiming(t, Cycle, Travel))
<1>1. PICK v : v = Reset(t) OBVIOUS
<1>2. Timed(v) BY <1>1, ResetIsTimed
<1>3. SetTiming(t, Cycle, Travel) = [v EXCEPT !.cycle = Cycle, !.travel = Travel]
  BY <1>1 DEF SetTiming
<1> HIDE <1>1
<1> QED BY <1>2, <1>3, Intervals DEF Timed, Tpo

LEMMA UpdateIsTimed == ASSUME NEW t, Timed(t), NEW s \in Nat PROVE Timed(Update(t, s))
<1> DEFINE bank == Banked(t, s)
           on == Snapped(t, bank)
           left == Carried(t, bank - on)
           u == IF CycleDue(t) THEN BeginCycle(t, s) ELSE t
<1>1. t.credit \in Int /\ t.cycle \in Nat /\ t.travel \in Nat BY DEF Timed, Tpo
<1>2. bank \in Int BY <1>1 DEF Banked
<1> HIDE DEF bank
<1>3. on \in Nat BY <1>1, <1>2 DEF Snapped
<1> HIDE DEF on
<1>4. left \in Int BY <1>1, <1>2, <1>3 DEF Carried
<1> HIDE DEF left
<1>5. BeginCycle(t, s) = IF s = 0 THEN Latched(t, 0, 0) ELSE Latched(t, on, left)
  BY DEF BeginCycle, bank, on, left
<1>6. Timed(u)
  BY <1>3, <1>4, <1>5, Zero, LatchedIsTimed
<1>7. Update(t, s) = [u EXCEPT !.open = u.elapsed < u.openMs]
  BY DEF Update
<1> HIDE DEF u
<1>8. (u.elapsed < u.openMs) \in BOOLEAN OBVIOUS
<1>9. PICK w : w = [u EXCEPT !.open = u.elapsed < u.openMs] OBVIOUS
<1>10. w \in Tpo /\ w.cycle = u.cycle /\ w.travel = u.travel
  BY <1>6, <1>8, <1>9 DEF Timed, Tpo
<1> QED BY <1>6, <1>7, <1>9, <1>10 DEF Timed

-----------------------------------------------------------------------------
(* The relay.                                                               *)

LEMMA ConfigKept ==
    ASSUME NEW r \in Relay(RelayConfigs)
    PROVE  /\ r.cfg \in RelayConfigs /\ r.cfg \in ChannelConfig
           /\ r.cfg.delay \in Nat /\ r.cfg.delay <= MaxDelay /\ r.lease \in Nat
BY ActuatorAssumption DEF Relay, ChannelConfig

LEMMA Switched ==
    ASSUME NEW r \in Relay(RelayConfigs), NEW on \in BOOLEAN
    PROVE  /\ Switch(r, on) \in Relay(RelayConfigs)
           /\ Switch(r, on).cfg = r.cfg /\ Switch(r, on).on = on
           /\ on /\ r.cfg.autoOff => Switch(r, on).lease = r.cfg.delay
           /\ ~on \/ ~r.cfg.autoOff => Switch(r, on).lease = 0
<1>1. r.cfg.delay \in Nat BY ConfigKept
<1>2. CASE on
  <2>1. Switch(r, on) = [r EXCEPT !.on = TRUE, !.lease = IF r.cfg.autoOff THEN r.cfg.delay ELSE 0]
    BY <1>2 DEF Switch, SwitchOn
  <2> QED BY <1>1, <1>2, <2>1, Zero DEF Relay
<1>3. CASE ~on
  <2>1. Switch(r, on) = [r EXCEPT !.on = FALSE, !.lease = 0]
    BY <1>3 DEF Switch, SwitchOff
  <2> QED BY <1>3, <2>1, Zero DEF Relay
<1> QED BY <1>2, <1>3

LEMMA Elapsed ==
    ASSUME NEW r \in Relay(RelayConfigs)
    PROVE  /\ Elapse(r) \in Relay(RelayConfigs) /\ Elapse(r).cfg = r.cfg
           /\ r.lease = 0 => Elapse(r) = r
           /\ r.lease > 0 => Elapse(r).lease = r.lease - 1
           /\ r.lease > 1 => Elapse(r).on = r.on
<1>1. r.lease \in Nat BY ConfigKept
<1>2. CASE r.lease = 0 BY <1>2 DEF Elapse
<1>3. CASE r.lease = 1
  <2>1. PICK e : e = [r EXCEPT !.on = FALSE, !.lease = 0] OBVIOUS
  <2>2. e \in Relay(RelayConfigs) /\ e.cfg = r.cfg /\ e.lease = 0
    BY <2>1, Zero DEF Relay
  <2>3. Elapse(r) = e BY <1>3, <2>1 DEF Elapse, SwitchOff
  <2> QED BY <1>3, <2>2, <2>3
<1>4. CASE r.lease > 1
  <2>1. Elapse(r) = [r EXCEPT !.lease = r.lease - 1] BY <1>4 DEF Elapse
  <2>2. r.lease - 1 \in Nat BY <1>1, <1>4
  <2> QED BY <1>4, <2>1, <2>2 DEF Relay
<1> QED BY <1>1, <1>2, <1>3, <1>4

\* A disturbed relay is on for no reason of the firmware's.
LEMMA Disturbed ==
    ASSUME NEW r \in Relay(RelayConfigs), NEW q \in Rebooted(r) \cup Toggled(r)
    PROVE  q \in Relay(RelayConfigs) /\ q.cfg = r.cfg /\ q.lease = 0
<1>1. \/ q = [r EXCEPT !.on = FALSE, !.lease = 0]
      \/ q = [r EXCEPT !.on = TRUE, !.lease = 0]
      \/ q = [r EXCEPT !.on = ~r.on, !.lease = 0]
  BY DEF Rebooted, Toggled, SwitchOff
<1> QED BY <1>1, Zero DEF Relay

\* What a request does: to the relay of the channel and to no other, and a request that
\* was answered was carried out.
LEMMA Sent ==
    ASSUME relay \in [Valve -> Relay(RelayConfigs)], channel \in Valve,
           NEW on \in BOOLEAN, NEW ok \in BOOLEAN, Send(on, ok)
    PROVE  /\ relay' \in [Valve -> Relay(RelayConfigs)]
           /\ \A v \in Valve : relay'[v].cfg = relay[v].cfg
           /\ \A v \in Valve : v # channel => relay'[v] = relay[v]
           /\ \/ relay'[channel] = Switch(relay[channel], on)
              \/ ~ok /\ "loss" \in Happens /\ relay'[channel] = relay[channel]
<1> DEFINE q == Switch(relay[channel], on)
<1>1. q \in Relay(RelayConfigs) /\ q.cfg = relay[channel].cfg
  BY Switched
<1>2. \/ relay' = [relay EXCEPT ![channel] = q]
      \/ ~ok /\ "loss" \in Happens /\ relay' = relay
  BY DEF Send
<1> HIDE DEF q
<1> QED BY <1>1, <1>2 DEF q

-----------------------------------------------------------------------------
(* Ages and histories.                                                      *)

LEMMA Aged ==
    ASSUME NEW age \in Nat, NEW limit \in Nat
    PROVE  /\ Older(age, limit) \in Nat
           /\ Older(age, limit) <= limit + MaxLate
           /\ Older(age, limit) < limit + MaxLate => Older(age, limit) = age + 1
           /\ Older(age, limit) >= limit + MaxLate \/ Older(age, limit) = age + 1
BY Intervals DEF Older

LEMMA CountedOn ==
    ASSUME NEW n \in Nat, NEW limit \in Nat
    PROVE  /\ Counted(n, limit) \in Nat /\ Counted(n, limit) <= n + 1
           /\ Counted(n, limit) <= limit
           /\ n < limit => Counted(n, limit) = n + 1
BY DEF Counted

LEMMA AgreementIsKnown ==
    ASSUME NEW cmd, NEW obs, NEW age
    PROVE  AgreementOf(cmd, obs, age) \in Agreements
BY DEF AgreementOf, Agreements

\* What a report says of the observation it rests on.
LEMMA AgreementRests ==
    ASSUME NEW cmd, NEW obs, NEW age
    PROVE  /\ AgreementOf(cmd, obs, age) # "Unknown" => obs.valid /\ ~(age > StaleAfter)
           /\ AgreementOf(cmd, obs, age) = "HeatingOk" =>
                  cmd /\ obs.output /\ obs.power # "idle"
BY DEF AgreementOf

LEMMA NoSampleIsSample == NoSample \in [share: Shares \cup {0}, permitted: BOOLEAN]
BY Zero DEF NoSample

LEMMA VerdictIsKnown ==
    ASSUME NEW cfg, NEW lease PROVE CheckConformance(cfg, lease) \in Conformances
BY DEF CheckConformance, Conformances

-----------------------------------------------------------------------------
LEMMA InitInv == Init => IInv
<1> SUFFICES ASSUME Init PROVE IInv OBVIOUS
<1>1. TypeOK
  <2>1. tpo \in Tpo /\ tpo.cycle = Cycle /\ tpo.travel = Travel
    BY Intervals, Zero DEF Init, NewTpo, Tpo
  <2>2. relay \in [Valve -> Relay(RelayConfigs)]
    <3>1. \A c \in RelayConfigs :
             [on |-> FALSE, lease |-> 0, cfg |-> c] \in Relay(RelayConfigs)
      BY Zero DEF Relay
    <3> QED BY <3>1 DEF Init
  <2>3. observed \in Observation
        /\ observed.age = 0
    BY Zero DEF Init, NoObservation, Observation
  <2>4. control \in [share: Shares \cup {0}, permitted: BOOLEAN]
        /\ sample \in [share: Shares \cup {0}, permitted: BOOLEAN]
    BY DEF Init, NoSample
  <2>5. reported \in [assigned: BOOLEAN, agreement: Agreements]
    BY DEF Init, Agreements
  <2>6. late \in 0 .. MaxLate /\ {confAge, cmdAge, obsAge, observed.age} \subseteq Nat
    BY <2>3, Intervals DEF Init
  <2> QED BY <2>1, <2>2, <2>3, <2>4, <2>5, <2>6, Zero DEF Init, TypeOK, Steps, Conformances
<1>2. LeaseFailsafe BY DEF Init, LeaseFailsafe
<1>3. PermissionIsRecent BY DEF Init, PermissionIsRecent, NoSample
<1>4. VerdictIsRecent BY DEF Init, VerdictIsRecent
<1>5. ReportFollowsTick BY DEF Init, ReportFollowsTick, NoObservation
<1> QED BY <1>1, <1>2, <1>3, <1>4, <1>5 DEF IInv

\* configure() leaves well-typed state, and a verdict only where the channel stays.
LEMMA Configured ==
    ASSUME TypeOK, Configure
    PROVE  /\ channel' = assignment /\ Timed(tpo')
           /\ conformance' \in Conformances /\ everChecked' \in BOOLEAN
           /\ commanded' \in BOOLEAN /\ confAge' \in Nat /\ cmdAge' \in Nat
           /\ observed' \in Observation
           /\ channel # channel' => /\ conformance' = "NotRead" /\ ~everChecked' /\ ~commanded'
                                    /\ ~observed'.valid
           /\ channel = channel' =>
                UNCHANGED <<conformance, everChecked, observed, commanded, confAge, cmdAge>>
<1>1. channel' = assignment /\ Timed(tpo')
  BY SetTimingIsTimed DEF Configure, TypeOK, Timed
<1>2. CASE channel # assignment
  <2>1. /\ conformance' = "NotRead" /\ everChecked' = FALSE /\ observed' = NoObservation
        /\ commanded' = FALSE /\ confAge' = 0 /\ cmdAge' = 0
    BY <1>2 DEF Configure
  <2>2. observed' \in Observation /\ ~observed'.valid
    BY <2>1, Zero DEF NoObservation, Observation
  <2> QED BY <1>1, <1>2, <2>1, <2>2, Zero DEF Conformances
<1>3. CASE channel = assignment
  BY <1>1, <1>3 DEF Configure, TypeOK
<1> QED BY <1>2, <1>3

LEMMA TickStartKeepsInv == IInv /\ TickStart => IInv'
<1> SUFFICES ASSUME IInv, TickStart PROVE IInv' OBVIOUS
<1>1. /\ Configure /\ late' = 0 /\ pc = "idle"
      /\ UNCHANGED <<fetched, obsAge, control, assignment, ota, relay, withdrawn, badFor,
                     calm, misses>>
      /\ TypeOK /\ LeaseFailsafe /\ PermissionIsRecent /\ VerdictIsRecent /\ ReportFollowsTick
  BY DEF TickStart, IInv
<1>2. /\ channel' = assignment /\ channel' \in Valve \cup {NoValve} /\ Timed(tpo')
      /\ conformance' \in Conformances /\ everChecked' \in BOOLEAN
      /\ commanded' \in BOOLEAN /\ confAge' \in Nat /\ cmdAge' \in Nat
      /\ observed' \in Observation
      /\ observed'.age \in Nat
      /\ channel # channel' => /\ conformance' = "NotRead" /\ ~everChecked' /\ ~commanded'
                               /\ ~observed'.valid
      /\ channel = channel' =>
            UNCHANGED <<conformance, everChecked, observed, commanded, confAge, cmdAge>>
  BY <1>1, Configured DEF TypeOK, Observation
<1>3. asked' \in 0 .. 3 BY <1>1 DEF TickStart, TypeOK
<1>4. \/ /\ assignment = NoValve /\ pc' = "idle" /\ sample' = NoSample
         /\ reported' = [assigned |-> FALSE,
                         agreement |-> AgreementOf(commanded', observed', observed'.age - 0)]
      \/ /\ assignment \in Valve /\ sample' = control /\ UNCHANGED reported
         /\ pc' = IF ~everChecked' \/ confAge' >= Recheck THEN "fetch" ELSE "drive"
  BY <1>1, <1>2 DEF TickStart, Publish, TypeOK
<1>5. TypeOK'
  <2>1. /\ sample' \in [share: Shares \cup {0}, permitted: BOOLEAN]
        /\ pc' \in Steps /\ (pc' # "idle" => channel' \in Valve)
    <3>1. CASE pc' = "idle"
      BY <1>1, <1>4, <3>1, NoSampleIsSample DEF TypeOK, Steps
    <3>2. CASE pc' # "idle"
      BY <1>1, <1>2, <1>4, <3>2 DEF TypeOK, Steps
    <3> QED BY <3>1, <3>2
  <2>2. reported' \in [assigned: BOOLEAN, agreement: Agreements]
    <3>1. PICK a \in Agreements : a = AgreementOf(commanded', observed', observed'.age - 0)
      BY AgreementIsKnown
    <3>2. \/ \E b \in BOOLEAN : reported' = [assigned |-> b, agreement |-> a]
          \/ reported' = reported
      BY <1>4, <3>1
    <3>3. reported \in [assigned: BOOLEAN, agreement: Agreements] BY <1>1 DEF TypeOK
    <3> HIDE <3>1
    <3> QED BY <3>2, <3>3
  <2>3. late' \in 0 .. MaxLate BY <1>1, Intervals
  <2> QED BY <1>1, <1>2, <1>3, <2>1, <2>2, <2>3 DEF TypeOK, Timed
<1>6. LeaseFailsafe' BY <1>1 DEF LeaseFailsafe
<1>7. PermissionIsRecent'
  BY <1>1, <1>2, <1>4 DEF PermissionIsRecent, Sampling, NoSample
<1>8. VerdictIsRecent'
  <2>1. conformance' = "Ok" => conformance = "Ok" /\ channel' = channel
        /\ UNCHANGED <<everChecked, confAge>>
    BY <1>2
  <2> QED BY <1>1, <1>2, <1>4, <2>1, Intervals DEF VerdictIsRecent, Conforms, TypeOK
<1>9. ReportFollowsTick'
  <2>0. observed'.valid => observed'.of = channel'
    BY <1>1, <1>2 DEF ReportFollowsTick
  <2> SUFFICES ASSUME assignment = NoValve, pc' = "idle"
               PROVE  ReportFollowsTick'
    BY <1>4, <2>0 DEF ReportFollowsTick
  <2>1. reported'.agreement = AgreementOf(commanded', observed', observed'.age - 0)
    BY <1>4, ActuatorAssumption
  <2>2. reported'.agreement # "Unknown" => observed'.valid /\ observed'.age <= StaleAfter
    BY <2>1, <1>2, AgreementRests, Intervals
  <2>3. reported'.agreement = "HeatingOk" =>
           commanded' /\ observed'.output /\ observed'.power # "idle"
    BY <2>1, AgreementRests
  <2> QED BY <1>1, <1>2, <2>0, <2>2, <2>3, Intervals DEF ReportFollowsTick
<1> QED BY <1>5, <1>6, <1>7, <1>8, <1>9 DEF IInv

\* The request of readConfig() and its answer.
LEMMA CheckKeepsInv == IInv /\ (FetchConfig \/ StoreVerdict) => IInv'
<1>1. ASSUME IInv, FetchConfig PROVE IInv'
  <2>1. /\ pc = "fetch" /\ pc' = "store" /\ asked' = 0 /\ channel \in Valve
        /\ UNCHANGED <<sample, channel, conformance, everChecked, confAge, commanded, cmdAge,
                       observed, obsAge, tpo, reported, control, assignment, ota, late, relay,
                       withdrawn, badFor, calm, misses>>
    BY <1>1 DEF FetchConfig, device, world, IInv, TypeOK
  <2>2. fetched' \in Conformances /\ (fetched' = "Ok" => Conforms(channel))
    BY <1>1, VerdictIsKnown DEF FetchConfig, Conforms, Conformances
  <2>3. TypeOK' BY <1>1, <2>1, <2>2, Zero DEF IInv, TypeOK, Steps
  <2>4. LeaseFailsafe' BY <1>1, <2>1 DEF IInv, LeaseFailsafe
  <2>5. PermissionIsRecent' BY <1>1, <2>1 DEF IInv, PermissionIsRecent, Sampling
  <2>6. VerdictIsRecent'
    <3>1. fetched' = "Ok" => badFor[channel] <= late
      BY <1>1, <2>1, <2>2, Intervals DEF IInv, VerdictIsRecent, TypeOK
    <3> QED BY <1>1, <2>1, <3>1 DEF IInv, VerdictIsRecent, Conforms
  <2>7. ReportFollowsTick' BY <1>1, <2>1 DEF IInv, ReportFollowsTick
  <2> QED BY <2>3, <2>4, <2>5, <2>6, <2>7 DEF IInv
<1>2. ASSUME IInv, StoreVerdict PROVE IInv'
  <2>1. /\ pc = "store" /\ pc' = "drive" /\ channel \in Valve
        /\ conformance' = fetched /\ everChecked' = TRUE /\ confAge' = late
        /\ fetched' = "NotRead"
        /\ UNCHANGED <<sample, channel, commanded, cmdAge,
                       observed, obsAge, tpo, reported, control, assignment, ota, late, relay,
                       withdrawn, badFor, calm, misses, asked>>
    BY <1>2 DEF StoreVerdict, world, history, IInv, TypeOK
  <2>2. TypeOK' BY <1>2, <2>1 DEF IInv, TypeOK, Steps, Conformances
  <2>3. LeaseFailsafe' BY <1>2, <2>1 DEF IInv, LeaseFailsafe
  <2>4. PermissionIsRecent' BY <1>2, <2>1 DEF IInv, PermissionIsRecent, Sampling
  <2>5. VerdictIsRecent'
    <3>1. badFor[channel] \in Nat /\ late \in Nat
      BY <1>2, <2>1, Intervals DEF IInv, TypeOK
    <3> QED BY <1>2, <2>1, <3>1, Intervals DEF IInv, VerdictIsRecent, Conforms
  <2>6. ReportFollowsTick' BY <1>2, <2>1 DEF IInv, ReportFollowsTick
  <2> QED BY <2>2, <2>3, <2>4, <2>5, <2>6 DEF IInv
<1> QED BY <1>1, <1>2

\* The end of a tick that drives or closes: what it leaves for the displays.
LEMMA FinishReports ==
    ASSUME IInv, Finish, pc' = NextStep, UNCHANGED <<channel, observed, late>>
    PROVE  /\ pc' \in {"observe", "idle"}
           /\ reported' \in [assigned: BOOLEAN, agreement: Agreements]
           /\ ReportFollowsTick'
<1>1. pc' \in {"observe", "idle"} BY DEF NextStep
<1>2. CASE pc' = "observe"
  BY <1>2 DEF Finish, IInv, TypeOK, ReportFollowsTick
<1>3. CASE pc' = "idle"
  <2>1. PICK a \in Agreements : a = AgreementOf(commanded', observed, observed.age - late)
    BY AgreementIsKnown
  <2>2. reported' = [assigned |-> channel # NoValve, agreement |-> a]
    BY <1>3, <2>1 DEF Finish, Publish
  <2>3. /\ a # "Unknown" => observed.valid /\ observed.age <= StaleAfter + late
        /\ a = "HeatingOk" => commanded' /\ observed.output /\ observed.power # "idle"
    <3>1. observed.age \in Nat /\ late \in Nat BY Intervals DEF IInv, TypeOK
    <3>2. ~(observed.age - late > StaleAfter) => observed.age <= StaleAfter + late
      BY <3>1, Intervals
    <3> QED BY <2>1, <3>2, AgreementRests
  <2> QED BY <1>3, <2>2, <2>3 DEF IInv, ReportFollowsTick
<1> QED BY <1>1, <1>2, <1>3

LEMMA HoldClosedKeepsInv == IInv /\ HoldClosed => IInv'
<1> SUFFICES ASSUME IInv, HoldClosed PROVE IInv' OBVIOUS
<1>1. /\ pc = "drive" /\ channel \in Valve /\ tpo' = Reset(tpo) /\ ForceClosed /\ Finish
      /\ pc' = NextStep /\ sample' = NoSample /\ calm' = FALSE
      /\ UNCHANGED <<channel, late, fetched, conformance, everChecked, confAge, observed, obsAge,
                     control, assignment, ota, withdrawn, badFor, misses, asked>>
      /\ TypeOK /\ LeaseFailsafe /\ PermissionIsRecent /\ VerdictIsRecent
  BY DEF HoldClosed, IInv, TypeOK
<1>2. /\ pc' \in {"observe", "idle"} /\ ReportFollowsTick'
      /\ reported' \in [assigned: BOOLEAN, agreement: Agreements]
  BY <1>1, FinishReports
<1>3. /\ relay' \in [Valve -> Relay(RelayConfigs)]
      /\ \A v \in Valve : relay'[v].cfg = relay[v].cfg
      /\ \A v \in Valve : relay'[v] = relay[v] \/ relay'[v].lease = 0
      /\ commanded' \in BOOLEAN /\ cmdAge' \in Nat
  <2>1. CASE commanded
    <3>1. PICK ok \in BOOLEAN : Send(FALSE, ok) BY <1>1, <2>1 DEF ForceClosed
    <3>2. relay \in [Valve -> Relay(RelayConfigs)] BY <1>1 DEF TypeOK
    <3>3. Switch(relay[channel], FALSE).lease = 0 BY <1>1, <3>2, Switched
    <3>4. /\ relay' \in [Valve -> Relay(RelayConfigs)]
          /\ \A v \in Valve : relay'[v].cfg = relay[v].cfg
          /\ \A v \in Valve : v # channel => relay'[v] = relay[v]
          /\ \/ relay'[channel] = Switch(relay[channel], FALSE)
             \/ relay'[channel] = relay[channel]
      BY <1>1, <3>1, <3>2, Sent
    <3> QED BY <1>1, <2>1, <3>3, <3>4, Zero DEF ForceClosed
  <2>2. CASE ~commanded
    BY <1>1, <2>2 DEF ForceClosed, TypeOK
  <2> QED BY <2>1, <2>2 
<1>4. TypeOK'
  <2>1. Timed(tpo') BY <1>1, ResetIsTimed DEF TypeOK, Timed
  <2>2. sample' \in [share: Shares \cup {0}, permitted: BOOLEAN] /\ pc' \in Steps
    BY <1>1, <1>2, NoSampleIsSample DEF Steps
  <2>3. {confAge', cmdAge', obsAge', observed'.age} \subseteq Nat
    BY <1>1, <1>3 DEF TypeOK
  <2> QED BY <1>1, <1>2, <1>3, <2>1, <2>2, <2>3 DEF TypeOK, Timed
<1>5. LeaseFailsafe'
  BY <1>1, <1>3 DEF LeaseFailsafe
<1>6. PermissionIsRecent'
  BY <1>1 DEF PermissionIsRecent, NoSample
<1>7. VerdictIsRecent'
  BY <1>1, <1>2, <1>3 DEF VerdictIsRecent, Conforms
<1> QED BY <1>2, <1>4, <1>5, <1>6, <1>7 DEF IInv

\* Driving starts a timer only while the permission it acts on is recent.
LEMMA DriveKeepsInv == IInv /\ Drive => IInv'
<1> SUFFICES ASSUME IInv, Drive PROVE IInv' OBVIOUS
<1>1. /\ pc = "drive" /\ channel \in Valve /\ MayDrive /\ Finish
      /\ tpo' = Update(tpo, sample.share)
      /\ pc' = NextStep /\ sample' = NoSample
      /\ UNCHANGED <<channel, late, fetched, conformance, everChecked, confAge, observed, obsAge,
                     control, assignment, ota, withdrawn, badFor, asked>>
      /\ TypeOK /\ LeaseFailsafe /\ PermissionIsRecent /\ VerdictIsRecent
      /\ relay \in [Valve -> Relay(RelayConfigs)]
  BY DEF Drive, IInv, TypeOK
<1>2. /\ pc' \in {"observe", "idle"} /\ ReportFollowsTick'
      /\ reported' \in [assigned: BOOLEAN, agreement: Agreements]
  BY <1>1, FinishReports
<1>3. sample.share \in Nat /\ Timed(tpo)
  <2>1. sample \in [share: Shares \cup {0}, permitted: BOOLEAN] /\ Timed(tpo)
    BY <1>1 DEF TypeOK, Timed
  <2>2. Shares \subseteq Nat BY ActuatorAssumption, Intervals
  <2> QED BY <2>1, <2>2, Zero
<1>4. Timed(tpo') /\ WantOpen \in BOOLEAN
  <2>1. Timed(Update(tpo, sample.share)) BY <1>3, UpdateIsTimed
  <2> QED BY <1>1, <2>1 DEF WantOpen, Timed, Tpo
<1>5. /\ relay' \in [Valve -> Relay(RelayConfigs)]
      /\ \A v \in Valve : relay'[v].cfg = relay[v].cfg
      /\ \A v \in Valve : \/ relay'[v] = relay[v]
                          \/ v = channel /\ relay'[v].lease <= MaxDelay
      /\ commanded' \in BOOLEAN /\ cmdAge' \in Nat /\ calm' \in BOOLEAN /\ misses' \in 0 .. 2
  <2>1. CASE Due
    <3>1. PICK ok \in BOOLEAN :
             /\ Send(WantOpen, ok)
             /\ commanded' = (IF ok THEN WantOpen ELSE commanded)
             /\ cmdAge' = (IF ~ok THEN cmdAge ELSE IF WantOpen THEN late ELSE 0)
             /\ calm' = ((ok \/ (calm /\ WantOpen)) /\ ~ota)
             /\ misses' = (IF ok THEN 0 ELSE IF misses < 2 THEN misses + 1 ELSE misses)
      BY <2>1 DEF Drive, LastCommand
    <3>2. Switch(relay[channel], WantOpen).lease <= MaxDelay
      BY <1>1, <1>4, Switched, ConfigKept, Intervals
    <3>3. /\ relay' \in [Valve -> Relay(RelayConfigs)]
          /\ \A v \in Valve : relay'[v].cfg = relay[v].cfg
          /\ \A v \in Valve : v # channel => relay'[v] = relay[v]
          /\ \/ relay'[channel] = Switch(relay[channel], WantOpen)
             \/ relay'[channel] = relay[channel]
      BY <1>1, <1>4, <3>1, Sent
    <3>4. calm' \in BOOLEAN BY <3>1
    <3>5. commanded' \in BOOLEAN /\ cmdAge' \in Nat /\ misses' \in 0 .. 2
      BY <1>1, <1>4, <3>1, Intervals DEF TypeOK
    <3> QED BY <3>2, <3>3, <3>4, <3>5
  <2>2. CASE ~Due
    BY <1>1, <2>2 DEF Drive, TypeOK
  <2> QED BY <2>1, <2>2
<1>6. TypeOK'
  BY <1>1, <1>2, <1>4, <1>5, NoSampleIsSample DEF TypeOK, Timed, Steps
<1>7. LeaseFailsafe'
  <2>1. withdrawn[channel] <= MaxLate /\ withdrawn[channel] \in Nat
    BY <1>1, Intervals DEF MayDrive, PermissionIsRecent, TypeOK
  <2>2. \A v \in Valve : relay'[v].lease \in Nat
    BY <1>5, ConfigKept
  <2> QED BY <1>1, <1>5, <2>1, <2>2, Intervals DEF LeaseFailsafe
<1>8. PermissionIsRecent'
  BY <1>1 DEF PermissionIsRecent, NoSample
<1>9. VerdictIsRecent'
  BY <1>1, <1>2, <1>5 DEF VerdictIsRecent, Conforms
<1> QED BY <1>2, <1>6, <1>7, <1>8, <1>9 DEF IInv

LEMMA ObserveKeepsInv == IInv /\ ObserveRelay => IInv'
<1> SUFFICES ASSUME IInv, ObserveRelay PROVE IInv' OBVIOUS
<1>1. /\ pc = "observe" /\ channel \in Valve /\ obsAge' = late /\ pc' = "idle"
      /\ reported' = [assigned |-> channel # NoValve,
                      agreement |-> AgreementOf(commanded, observed', observed'.age - late)]
      /\ UNCHANGED <<channel, late, sample, fetched, conformance, everChecked, confAge, commanded,
                     cmdAge, tpo, control, assignment, ota, relay, withdrawn, badFor, calm,
                     misses, asked>>
      /\ TypeOK /\ LeaseFailsafe /\ PermissionIsRecent /\ VerdictIsRecent /\ ReportFollowsTick
      /\ relay \in [Valve -> Relay(RelayConfigs)] /\ late \in Nat
  BY Intervals DEF ObserveRelay, Publish, history, IInv, TypeOK
<1>2. /\ observed' \in Observation
      /\ observed'.age \in Nat
      /\ observed'.valid => observed'.of = channel
  <2>1. CASE UNCHANGED observed BY <1>1, <2>1 DEF TypeOK, ReportFollowsTick
  <2>2. CASE observed' # observed
    <3>1. PICK p \in Powers \cup {"none"} :
            observed' = [valid |-> TRUE, output |-> relay[channel].on, power |-> p,
                         age |-> late, of |-> channel]
      BY <2>2 DEF ObserveRelay
    <3>2. relay[channel].on \in BOOLEAN BY <1>1 DEF Relay
    <3> QED BY <1>1, <3>1, <3>2 DEF Observation
  <2> QED BY <2>1, <2>2
<1>3. PICK a \in Agreements : a = AgreementOf(commanded, observed', observed'.age - late)
  BY AgreementIsKnown
<1>4. reported' = [assigned |-> channel # NoValve, agreement |-> a]
  BY <1>1, <1>3
<1>5. TypeOK'
  BY <1>1, <1>2, <1>4, Zero DEF TypeOK, Steps
<1>6. ReportFollowsTick'
  <2>1. ~(observed'.age - late > StaleAfter) => observed'.age <= StaleAfter + late
    BY <1>1, <1>2, Intervals
  <2>2. /\ a # "Unknown" => observed'.valid /\ observed'.age <= StaleAfter + late
        /\ a = "HeatingOk" => commanded /\ observed'.output /\ observed'.power # "idle"
    BY <1>3, <2>1, AgreementRests
  <2> QED BY <1>1, <1>2, <1>4, <2>2 DEF ReportFollowsTick
<1>7. LeaseFailsafe' BY <1>1 DEF LeaseFailsafe
<1>8. PermissionIsRecent' BY <1>1 DEF PermissionIsRecent, Sampling
<1>9. VerdictIsRecent' BY <1>1 DEF VerdictIsRecent, Conforms
<1> QED BY <1>5, <1>6, <1>7, <1>8, <1>9 DEF IInv

-----------------------------------------------------------------------------
(* The rest of the device and of the house.                                *)

\* A new demand, permission or assignment ends what withdrawn counts.
LEMMA OfferKeepsInv == IInv /\ (Offer \/ Assign) => IInv'
<1> SUFFICES ASSUME IInv, Offer \/ Assign PROVE IInv' OBVIOUS
<1>1. /\ UNCHANGED <<ota, late, relay, channel, conformance, everChecked, confAge, commanded,
                     cmdAge, observed, obsAge, tpo, reported, pc, sample, fetched, badFor, calm,
                     misses, asked>>
      /\ withdrawn' = [v \in Valve |-> IF Driven(v) THEN 0 ELSE withdrawn[v]]
      /\ control' \in [share: Shares \cup {0}, permitted: BOOLEAN]
      /\ assignment' \in Valve \cup {NoValve}
      /\ TypeOK /\ LeaseFailsafe /\ PermissionIsRecent /\ VerdictIsRecent /\ ReportFollowsTick
  <2>1. CASE Offer BY <2>1 DEF Offer, device, tick, IInv, TypeOK
  <2>2. CASE Assign BY <2>2 DEF Assign, device, tick, IInv, TypeOK
  <2> QED BY <2>1, <2>2
<1>2. /\ withdrawn' \in [Valve -> Nat]
      /\ \A v \in Valve : withdrawn'[v] = 0 \/ withdrawn'[v] = withdrawn[v]
      /\ \A v \in Valve : Driven(v) => withdrawn'[v] = 0
      /\ \A v \in Valve : relay[v].lease \in Nat /\ withdrawn[v] \in Nat
      /\ \A v \in Valve : relay[v].lease > 0 => relay[v].lease <= MaxLate + MaxDelay
  <2>1. withdrawn \in [Valve -> Nat] /\ \A v \in Valve : relay[v].lease \in Nat
    BY <1>1, ConfigKept DEF TypeOK
  <2> QED BY <1>1, <2>1, Zero, Intervals DEF LeaseFailsafe
<1>3. TypeOK' BY <1>1, <1>2 DEF TypeOK
<1>4. LeaseFailsafe' BY <1>1, <1>2 DEF LeaseFailsafe
<1>5. PermissionIsRecent'
  BY <1>1, <1>2, Intervals DEF PermissionIsRecent, Sampling, Driven, TypeOK
<1>6. VerdictIsRecent' BY <1>1 DEF VerdictIsRecent, Conforms
<1>7. ReportFollowsTick' BY <1>1 DEF ReportFollowsTick
<1> QED BY <1>3, <1>4, <1>5, <1>6, <1>7 DEF IInv

LEMMA RecheckKeepsInv == IInv /\ RequestRecheck => IInv'
<1> SUFFICES ASSUME IInv, RequestRecheck PROVE IInv' OBVIOUS
<1>0. everChecked' = FALSE /\ confAge' = 0 BY DEF RequestRecheck
<1>1. /\ asked' \in 0 .. 3 /\ everChecked' = FALSE
      /\ UNCHANGED <<channel, conformance, commanded, cmdAge, observed, obsAge, tpo, reported,
                     pc, sample, fetched, control, assignment, ota, late, relay, withdrawn,
                     badFor, calm, misses>>
      /\ TypeOK /\ LeaseFailsafe /\ PermissionIsRecent /\ VerdictIsRecent /\ ReportFollowsTick
  BY DEF RequestRecheck, tick, world, IInv, TypeOK
<1>2. TypeOK'
  <2>1. {confAge', cmdAge', obsAge', observed'.age} \subseteq Nat BY <1>0, <1>1, Zero DEF TypeOK
  <2>0. everChecked' \in BOOLEAN BY <1>0
  <2>2. TypeOK /\ asked' \in 0 .. 3
        /\ UNCHANGED <<channel, conformance, commanded, cmdAge, observed, obsAge, tpo, reported,
                       pc, sample, fetched, control, assignment, ota, late, relay, withdrawn,
                       badFor, calm, misses>>
    BY <1>1
  <2> HIDE <1>0, <1>1
  <2> QED BY <2>0, <2>1, <2>2 DEF TypeOK
<1>3. LeaseFailsafe' BY <1>1 DEF LeaseFailsafe
<1>4. PermissionIsRecent' BY <1>1 DEF PermissionIsRecent, Sampling
<1>5. VerdictIsRecent' BY <1>1 DEF VerdictIsRecent, Conforms
<1>6. ReportFollowsTick' BY <1>1 DEF ReportFollowsTick
<1> QED BY <1>2, <1>3, <1>4, <1>5, <1>6 DEF IInv

LEMMA OtaKeepsInv == IInv /\ OtaToggle => IInv'
<1> SUFFICES ASSUME IInv, OtaToggle PROVE IInv' OBVIOUS
<1>1. /\ ota' \in BOOLEAN /\ calm' \in BOOLEAN
      /\ UNCHANGED <<channel, conformance, everChecked, confAge, commanded, cmdAge, observed,
                     obsAge, tpo, reported, pc, sample, fetched, control, assignment, late,
                     relay, withdrawn, badFor, misses, asked>>
      /\ TypeOK /\ LeaseFailsafe /\ PermissionIsRecent /\ VerdictIsRecent /\ ReportFollowsTick
  BY DEF OtaToggle, device, tick, IInv, TypeOK
<1>2. TypeOK' BY <1>1 DEF TypeOK
<1>3. LeaseFailsafe' BY <1>1 DEF LeaseFailsafe
<1>4. PermissionIsRecent' BY <1>1 DEF PermissionIsRecent, Sampling
<1>5. VerdictIsRecent' BY <1>1 DEF VerdictIsRecent, Conforms
<1>6. ReportFollowsTick' BY <1>1 DEF ReportFollowsTick
<1> QED BY <1>2, <1>3, <1>4, <1>5, <1>6 DEF IInv

\* A device that resets knows nothing of its relays and drives none.
LEMMA DeviceKeepsInv == IInv /\ DeviceResets => IInv'
<1> SUFFICES ASSUME IInv, DeviceResets PROVE IInv' OBVIOUS
<1>1. /\ control' = [share |-> 0, permitted |-> FALSE] /\ sample' = NoSample
      /\ pc' = "idle" /\ ota' = FALSE /\ late' = 1 /\ fetched' = "NotRead"
      /\ channel' = NoValve /\ conformance' = "NotRead" /\ everChecked' = FALSE
      /\ confAge' = 0 /\ commanded' = FALSE /\ cmdAge' = 0
      /\ observed' = NoObservation /\ obsAge' = 1 /\ tpo' = NewTpo(Cycle, Travel)
      /\ reported' = [assigned |-> FALSE, agreement |-> "Unknown"]
      /\ calm' = FALSE /\ misses' = 0 /\ asked' = 0
      /\ UNCHANGED <<assignment, relay, withdrawn, badFor>>
      /\ TypeOK /\ LeaseFailsafe /\ VerdictIsRecent
  BY DEF DeviceResets, IInv
<1>2. TypeOK'
  <2>1. tpo' \in Tpo /\ tpo'.cycle = Cycle /\ tpo'.travel = Travel
    BY <1>1, Intervals, Zero DEF NewTpo, Tpo
  <2>2. observed' \in Observation /\ observed'.age = 0
    BY <1>1, Zero DEF NoObservation, Observation
  <2>3. control' \in [share: Shares \cup {0}, permitted: BOOLEAN]
        /\ sample' \in [share: Shares \cup {0}, permitted: BOOLEAN]
    BY <1>1 DEF NoSample
  <2>4. reported' \in [assigned: BOOLEAN, agreement: Agreements]
    BY <1>1 DEF Agreements
  <2>5. late' \in 0 .. MaxLate /\ {confAge', cmdAge', obsAge', observed'.age} \subseteq Nat
    BY <1>1, <2>2, Intervals
  <2>6. assignment \in Valve \cup {NoValve} /\ relay \in [Valve -> Relay(RelayConfigs)]
        /\ withdrawn \in [Valve -> Nat] /\ badFor \in [Valve -> Nat]
    BY <1>1 DEF TypeOK
  <2> QED BY <1>1, <2>1, <2>2, <2>3, <2>4, <2>5, <2>6, Zero DEF TypeOK, Steps, Conformances
<1>3. LeaseFailsafe' BY <1>1 DEF LeaseFailsafe
<1>4. PermissionIsRecent' BY <1>1 DEF PermissionIsRecent, NoSample
<1>5. VerdictIsRecent' BY <1>1 DEF VerdictIsRecent, Conforms
<1>6. ReportFollowsTick' BY <1>1 DEF ReportFollowsTick, NoObservation
<1> QED BY <1>2, <1>3, <1>4, <1>5, <1>6 DEF IInv

\* A relay that is reconfigured, rebooted or switched by hand starts no timer.
LEMMA RelayKeepsInv ==
    ASSUME NEW v \in Valve, IInv, Reconfigure(v) \/ Disturb(v) PROVE IInv'
<1>1. /\ UNCHANGED <<channel, conformance, everChecked, confAge, commanded, cmdAge, observed,
                     obsAge, tpo, reported, pc, sample, fetched, control, assignment, ota, late,
                     withdrawn, misses, asked>>
      /\ calm' \in BOOLEAN
      /\ TypeOK /\ LeaseFailsafe /\ PermissionIsRecent /\ VerdictIsRecent /\ ReportFollowsTick
      /\ relay \in [Valve -> Relay(RelayConfigs)] /\ badFor \in [Valve -> Nat]
  BY DEF Reconfigure, Disturb, device, tick, IInv, TypeOK
<1>2. /\ relay' \in [Valve -> Relay(RelayConfigs)] /\ badFor' \in [Valve -> Nat]
      /\ \A w \in Valve : relay'[w].lease = relay[w].lease \/ relay'[w].lease = 0
      /\ \A w \in Valve : badFor'[w] = badFor[w] \/ badFor'[w] = 0
      /\ \A w \in Valve : Conforms(w)' => badFor'[w] = 0
  <2>1. CASE Reconfigure(v)
    <3>1. PICK c \in RelayConfigs : relay' = [relay EXCEPT ![v].cfg = c]
      BY <2>1 DEF Reconfigure
    <3> DEFINE q == [relay[v] EXCEPT !.cfg = c]
    <3>2. q \in Relay(RelayConfigs) /\ q.lease = relay[v].lease
      BY <1>1 DEF Relay
    <3>3. relay' = [relay EXCEPT ![v] = q] BY <3>1
    <3> HIDE DEF q
    <3>4. /\ relay' \in [Valve -> Relay(RelayConfigs)]
          /\ \A w \in Valve : w # v => relay'[w] = relay[w]
          /\ relay'[v].lease = relay[v].lease
      BY <1>1, <3>2, <3>3
    <3>5. badFor' = [badFor EXCEPT ![v] = IF Conforms(v)' THEN 0 ELSE badFor[v]]
      BY <2>1 DEF Reconfigure, Conforms
    <3>6. /\ badFor' \in [Valve -> Nat]
          /\ \A w \in Valve : w # v => badFor'[w] = badFor[w]
          /\ badFor'[v] = badFor[v] \/ badFor'[v] = 0
          /\ Conforms(v)' => badFor'[v] = 0
      BY <1>1, <3>5, Zero
    <3>7. \A w \in Valve : w # v => (Conforms(w)' <=> Conforms(w))
      BY <3>4 DEF Conforms
    <3> QED BY <1>1, <3>4, <3>6, <3>7 DEF VerdictIsRecent
  <2>2. CASE Disturb(v)
    <3>1. PICK q \in Rebooted(relay[v]) \cup Toggled(relay[v]) : relay' = [relay EXCEPT ![v] = q]
      BY <2>2 DEF Disturb
    <3>2. q \in Relay(RelayConfigs) /\ q.cfg = relay[v].cfg /\ q.lease = 0
      BY <1>1, Disturbed
    <3>3. /\ relay' \in [Valve -> Relay(RelayConfigs)] /\ relay'[v] = q
          /\ \A w \in Valve : w # v => relay'[w] = relay[w]
      BY <1>1, <3>1, <3>2
    <3>4. \A w \in Valve : Conforms(w)' <=> Conforms(w)
      BY <3>2, <3>3 DEF Conforms
    <3> QED BY <1>1, <2>2, <3>2, <3>3, <3>4 DEF Disturb, VerdictIsRecent
  <2> QED BY <2>1, <2>2
<1>3. TypeOK' BY <1>1, <1>2 DEF TypeOK
<1>4. LeaseFailsafe' BY <1>1, <1>2 DEF LeaseFailsafe
<1>5. PermissionIsRecent' BY <1>1 DEF PermissionIsRecent, Sampling
<1>6. VerdictIsRecent'
  <2>1. late \in Nat /\ Recheck + late > 0 /\ confAge \in Nat
    BY <1>1, Intervals DEF TypeOK
  <2>2. pc = "store" /\ fetched = "Ok" => badFor'[channel] <= late
    BY <1>1, <1>2, <2>1 DEF VerdictIsRecent, TypeOK
  <2>3. conformance = "Ok" /\ everChecked /\ confAge < Recheck + MaxLate
          => badFor'[channel] <= confAge
    BY <1>1, <1>2, <2>1 DEF VerdictIsRecent
  <2>4. conformance = "Ok" /\ pc = "drive" => badFor'[channel] < Recheck + late
    BY <1>1, <1>2, <2>1 DEF VerdictIsRecent
  <2>5. conformance = "Ok" => channel \in Valve BY <1>1 DEF VerdictIsRecent
  <2> QED BY <1>1, <1>2, <2>2, <2>3, <2>4, <2>5 DEF VerdictIsRecent
<1>7. ReportFollowsTick' BY <1>1 DEF ReportFollowsTick
<1> QED BY <1>3, <1>4, <1>5, <1>6, <1>7 DEF IInv

\* Time runs for the ages, the timers and the histories alike.
LEMMA PassAges ==
    ASSUME TypeOK, Pass
    PROVE  /\ relay' \in [Valve -> Relay(RelayConfigs)]
           /\ \A v \in Valve : relay'[v] = Elapse(relay[v])
           /\ \A v \in Valve : Conforms(v)' <=> Conforms(v)
           /\ late' \in 0 .. MaxLate /\ late' > 0
           /\ late < MaxLate => late' = late + 1
           /\ pc # "idle" => late' = late + 1
           /\ confAge' \in Nat /\ cmdAge' \in Nat /\ obsAge' \in Nat
           /\ everChecked /\ confAge' < Recheck + MaxLate => confAge' = confAge + 1
           /\ commanded /\ cmdAge' < Renew + MaxLate => cmdAge' = cmdAge + 1
           /\ commanded => cmdAge' >= Renew + MaxLate \/ cmdAge' = cmdAge + 1
           /\ observed' \in Observation /\ observed'.of = observed.of
           /\ observed'.valid = observed.valid /\ observed'.output = observed.output
           /\ observed'.power = observed.power /\ observed'.age \in Nat
           /\ observed'.age <= observed.age + 1
           /\ Timed(tpo')
           /\ withdrawn' \in [Valve -> Nat] /\ badFor' \in [Valve -> Nat]
           /\ \A v \in Valve :
                 /\ withdrawn'[v] <= withdrawn[v] + 1
                 /\ assignment = v /\ control.permitted => withdrawn'[v] = 0
                 /\ badFor'[v] <= badFor[v] + 1
                 /\ Conforms(v) => badFor'[v] = 0
<1>1. /\ relay \in [Valve -> Relay(RelayConfigs)] /\ late \in 0 .. MaxLate /\ late \in Nat
      /\ confAge \in Nat /\ cmdAge \in Nat /\ obsAge \in Nat /\ observed.age \in Nat
      /\ observed \in Observation
      /\ Timed(tpo) /\ withdrawn \in [Valve -> Nat] /\ badFor \in [Valve -> Nat]
  BY Intervals DEF TypeOK, Timed
<1>2. /\ relay' \in [Valve -> Relay(RelayConfigs)]
      /\ \A v \in Valve : relay'[v] = Elapse(relay[v])
  BY <1>1, Elapsed DEF Pass
<1>3. \A v \in Valve : Conforms(v)' <=> Conforms(v)
  <2>1. \A v \in Valve : relay'[v].cfg = relay[v].cfg
    BY <1>1, <1>2, Elapsed
  <2> QED BY <2>1 DEF Conforms
<1>4. /\ late' \in 0 .. MaxLate /\ late' > 0
      /\ late < MaxLate => late' = late + 1
      /\ pc # "idle" => late' = late + 1
  BY <1>1, Intervals DEF Pass, Counted
<1>5. /\ confAge' \in Nat /\ cmdAge' \in Nat /\ obsAge' \in Nat
      /\ everChecked /\ confAge' < Recheck + MaxLate => confAge' = confAge + 1
      /\ commanded /\ cmdAge' < Renew + MaxLate => cmdAge' = cmdAge + 1
      /\ commanded => cmdAge' >= Renew + MaxLate \/ cmdAge' = cmdAge + 1
  <2>1. /\ confAge' = IF everChecked THEN Older(confAge, Recheck) ELSE 0
        /\ cmdAge' = IF commanded THEN Older(cmdAge, Renew) ELSE 0
        /\ obsAge' = Older(obsAge, ObserveEvery)
    BY DEF Pass
  <2> QED BY <1>1, <2>1, Aged, Intervals
<1>6. /\ observed' \in Observation /\ observed'.of = observed.of
      /\ observed'.valid = observed.valid /\ observed'.output = observed.output
      /\ observed'.power = observed.power /\ observed'.age \in Nat
      /\ observed'.age <= observed.age + 1
  <2>1. PICK n : n = IF ~observed.valid THEN 0
                     ELSE Counted(observed.age, StaleAfter + 2 * MaxLate + 1) OBVIOUS
  <2>2. StaleAfter + 2 * MaxLate + 1 \in Nat BY Intervals
  <2>3. n \in Nat /\ n <= observed.age + 1
    <3>1. CASE observed.valid BY <1>1, <2>1, <2>2, <3>1, CountedOn
    <3>2. CASE ~observed.valid BY <1>1, <2>1, <3>2, Zero
    <3> QED BY <3>1, <3>2
  <2>4. observed' = [observed EXCEPT !.age = n] BY <2>1 DEF Pass
  <2> HIDE <2>1
  <2> QED BY <1>1, <2>3, <2>4 DEF Observation
<1>7. Timed(tpo')
  <2>1. PICK n : n = Counted(tpo.elapsed, Cycle) OBVIOUS
  <2>2. tpo.elapsed \in Nat BY <1>1 DEF Timed, Tpo
  <2>3. n \in Nat BY <2>1, <2>2, Intervals, CountedOn
  <2>4. tpo' = [tpo EXCEPT !.elapsed = n] \/ tpo' = tpo BY <2>1 DEF Pass
  <2> HIDE <2>1
  <2> QED BY <1>1, <2>3, <2>4 DEF Timed, Tpo
<1>8. /\ withdrawn' \in [Valve -> Nat]
      /\ \A v \in Valve :
            /\ withdrawn'[v] <= withdrawn[v] + 1
            /\ assignment = v /\ control.permitted => withdrawn'[v] = 0
  <2>1. withdrawn' = [v \in Valve |-> IF assignment = v /\ control.permitted THEN 0
                                      ELSE Counted(withdrawn[v], MaxLate + MaxDelay + 1)]
    BY DEF Pass
  <2>2. MaxLate + MaxDelay + 1 \in Nat BY Intervals
  <2>3. \A v \in Valve : /\ Counted(withdrawn[v], MaxLate + MaxDelay + 1) \in Nat
                         /\ Counted(withdrawn[v], MaxLate + MaxDelay + 1) <= withdrawn[v] + 1
    BY <1>1, <2>2, CountedOn
  <2>4. \A v \in Valve : 0 <= withdrawn[v] + 1 BY <1>1
  <2> QED BY <2>1, <2>3, <2>4, Zero
<1>9. /\ badFor' \in [Valve -> Nat]
      /\ \A v \in Valve :
            /\ badFor'[v] <= badFor[v] + 1
            /\ Conforms(v) => badFor'[v] = 0
  <2>1. badFor' = [v \in Valve |-> IF Conforms(v) THEN 0
                                   ELSE Counted(badFor[v], Recheck + MaxLate + 1)]
    BY DEF Pass
  <2>2. Recheck + MaxLate + 1 \in Nat BY Intervals
  <2>3. \A v \in Valve : /\ Counted(badFor[v], Recheck + MaxLate + 1) \in Nat
                         /\ Counted(badFor[v], Recheck + MaxLate + 1) <= badFor[v] + 1
    BY <1>1, <2>2, CountedOn
  <2>4. \A v \in Valve : 0 <= badFor[v] + 1 BY <1>1
  <2> QED BY <2>1, <2>3, <2>4, Zero
<1> QED BY <1>2, <1>3, <1>4, <1>5, <1>6, <1>7, <1>8, <1>9

LEMMA PassKeepsInv == IInv /\ Pass => IInv'
<1> SUFFICES ASSUME IInv, Pass PROVE IInv' OBVIOUS
<1>1. /\ UNCHANGED <<channel, conformance, everChecked, commanded, reported, pc, sample, fetched,
                     control, assignment, ota, calm, misses, asked>>
      /\ TypeOK /\ LeaseFailsafe /\ PermissionIsRecent /\ VerdictIsRecent /\ ReportFollowsTick
      /\ late \in Nat /\ late <= MaxLate /\ confAge \in Nat /\ observed.age \in Nat
  BY Intervals DEF Pass, tick, IInv, TypeOK
<1>2. \A v \in Valve : /\ withdrawn[v] \in Nat /\ badFor[v] \in Nat
                       /\ withdrawn'[v] \in Nat /\ badFor'[v] \in Nat
                       /\ relay[v].lease \in Nat
                       /\ relay'[v].lease > 0 => relay[v].lease = relay'[v].lease + 1
                       /\ relay'[v].lease \in Nat
  <2>1. \A v \in Valve : relay[v] \in Relay(RelayConfigs) /\ relay[v].lease \in Nat
    BY <1>1, ConfigKept DEF TypeOK
  <2>2. \A v \in Valve : relay'[v] = Elapse(relay[v]) BY <1>1, PassAges
  <2>3. \A v \in Valve : /\ relay[v].lease = 0 => relay'[v].lease = 0
                         /\ relay[v].lease > 0 => relay'[v].lease = relay[v].lease - 1
    BY <2>1, <2>2, Elapsed
  <2>4. \A v \in Valve : /\ relay[v].lease \in Nat
                         /\ relay'[v].lease > 0 => relay[v].lease = relay'[v].lease + 1
                         /\ relay'[v].lease \in Nat
    BY <2>1, <2>3
  <2>5. \A v \in Valve : /\ withdrawn[v] \in Nat /\ badFor[v] \in Nat
                         /\ withdrawn'[v] \in Nat /\ badFor'[v] \in Nat
    BY <1>1, PassAges DEF TypeOK
  <2> QED BY <2>4, <2>5
<1>3. TypeOK'
  BY <1>1, PassAges DEF TypeOK, Timed
<1>4. LeaseFailsafe'
  <2> SUFFICES ASSUME NEW v \in Valve, relay'[v].lease > 0
               PROVE  withdrawn'[v] + relay'[v].lease <= MaxLate + MaxDelay
    BY DEF LeaseFailsafe
  <2>1. withdrawn[v] + relay[v].lease <= MaxLate + MaxDelay
    BY <1>1, <1>2 DEF LeaseFailsafe
  <2>2. withdrawn'[v] <= withdrawn[v] + 1 BY <1>1, PassAges
  <2> QED BY <1>2, <2>1, <2>2, Intervals
<1>5. PermissionIsRecent'
  <2>1. \A v \in Valve : assignment = v /\ control.permitted => withdrawn'[v] = 0
    BY <1>1, PassAges
  <2>2. sample.permitted => Sampling /\ channel \in Valve /\ withdrawn[channel] <= late
                            /\ late' = late + 1 /\ withdrawn'[channel] <= withdrawn[channel] + 1
    BY <1>1, PassAges DEF PermissionIsRecent, Sampling, TypeOK
  <2>3. sample.permitted => withdrawn'[channel] <= late'
    BY <1>1, <1>2, <2>2
  <2> QED BY <1>1, <2>1, <2>2, <2>3 DEF PermissionIsRecent, Sampling
<1>6. VerdictIsRecent'
  <2>1. \A v \in Valve : Conforms(v)' => badFor'[v] = 0
    BY <1>1, PassAges
  <2>2. pc # "idle" => late' = late + 1 BY <1>1, PassAges
  <2>3. \A v \in Valve : badFor'[v] <= badFor[v] + 1 BY <1>1, PassAges
  <2>4. everChecked /\ confAge' < Recheck + MaxLate => confAge' = confAge + 1
    BY <1>1, PassAges
  <2>5. pc = "store" /\ fetched = "Ok" => badFor'[channel] <= late'
    BY <1>1, <1>2, <2>2, <2>3 DEF VerdictIsRecent, TypeOK
  <2>6. conformance = "Ok" /\ everChecked /\ confAge' < Recheck + MaxLate
          => badFor'[channel] <= confAge'
    BY <1>1, <1>2, <2>3, <2>4, Intervals DEF VerdictIsRecent
  <2>7. conformance = "Ok" /\ pc = "drive" => badFor'[channel] < Recheck + late'
    BY <1>1, <1>2, <2>2, <2>3, Intervals DEF VerdictIsRecent
  <2> QED BY <1>1, <2>1, <2>5, <2>6, <2>7 DEF VerdictIsRecent
<1>7. ReportFollowsTick'
  <2>1. /\ observed'.valid = observed.valid /\ observed'.output = observed.output
        /\ observed'.power = observed.power /\ observed'.age \in Nat
        /\ observed'.age <= observed.age + 1 /\ observed'.of = observed.of
        /\ late' < MaxLate => late < MaxLate /\ late' = late + 1
    <3>1. late' \in 0 .. MaxLate /\ (late < MaxLate => late' = late + 1)
      BY <1>1, PassAges
    <3>2. late = MaxLate => late' = MaxLate
      BY <1>1, Intervals DEF Pass, Counted
    <3> QED BY <1>1, <3>1, <3>2, PassAges, Intervals
  <2> QED BY <1>1, <2>1, Intervals DEF ReportFollowsTick
<1> QED BY <1>3, <1>4, <1>5, <1>6, <1>7 DEF IInv

\* The inductive invariant: types, the lease, and how recent the permission, the verdict
\* and the observation are that a tick goes by.
THEOREM Invariance == Spec => []IInv
<1>1. IInv /\ [Next]_vars => IInv'
  <2> SUFFICES ASSUME IInv, [Next]_vars PROVE IInv' OBVIOUS
  <2>1. CASE UNCHANGED vars
    BY <2>1 DEF vars, device, tick, world, history, IInv, TypeOK, LeaseFailsafe,
       PermissionIsRecent, VerdictIsRecent, ReportFollowsTick, Sampling, Conforms
  <2> QED BY <2>1, TickStartKeepsInv, CheckKeepsInv, HoldClosedKeepsInv, DriveKeepsInv,
        ObserveKeepsInv, OfferKeepsInv, RecheckKeepsInv, OtaKeepsInv, RelayKeepsInv,
        DeviceKeepsInv, PassKeepsInv DEF Next, TickStep
<1> QED BY <1>1, InitInv, PTL DEF Spec

\* Every reachable state is well typed.
THEOREM TypeCorrect == Spec => []TypeOK
<1>1. IInv => TypeOK BY DEF IInv
<1> QED BY <1>1, Invariance, PTL

\* The lease bounds how long a contact stays closed after its valve is no longer assigned
\* and permitted, whatever is lost, reassigned, reconfigured, paused or reset.
THEOREM LeaseIsFailsafe == Spec => []LeaseFailsafe
<1>1. IInv => LeaseFailsafe BY DEF IInv
<1> QED BY <1>1, Invariance, PTL

\* No tick drives a channel whose check is older than a re-check interval and a late tick.
THEOREM DrivenIsChecked == Spec => []DrivesOnlyCheckedChannel
<1>1. IInv => DrivesOnlyCheckedChannel
  <2> SUFFICES ASSUME IInv, pc = "drive", MayDrive
               PROVE  badFor[channel] < Recheck + MaxLate
    BY DEF DrivesOnlyCheckedChannel
  <2>1. /\ badFor[channel] \in Nat /\ late \in Nat /\ late <= MaxLate
        /\ badFor[channel] < Recheck + late
    BY Intervals DEF IInv, TypeOK, VerdictIsRecent, MayDrive
  <2> QED BY <2>1, Intervals
<1> QED BY <1>1, Invariance, PTL

\* What the displays are told rests on a recent observation that says so.
THEOREM ReportIsTrue == Spec => []ReportIsObserved
<1>1. IInv => ReportIsObserved
  <2> SUFFICES ASSUME IInv PROVE ReportIsObserved OBVIOUS
  <2>1. observed.age \in Nat /\ late \in Nat BY Intervals DEF IInv, TypeOK
  <2>2. observed.age <= StaleAfter + 0 => observed.age <= StaleAfter + 2 * MaxLate
    BY <2>1, Intervals
  <2> QED BY <2>1, <2>2, Intervals DEF IInv, ReportFollowsTick, ReportIsObserved
<1> QED BY <1>1, Invariance, PTL

-----------------------------------------------------------------------------
(* One failure.  The lease of every relay that has a timer covers a renewal *)
(* and three late ticks: the one that was due, the one that fails and the   *)
(* one that succeeds.  MIN_LEASE_S is four times RENEW_MS: with it this says *)
(* that no tick is later than a renewal interval, and that nobody gives the *)
(* relay a shorter timer than the firmware accepts.                         *)

LeaseCoversRetry ==
    /\ MinLease >= Renew + 3 * MaxLate
    /\ \A c \in RelayConfigs : c.autoOff => c.delay >= MinLease

LEMMA RenewalsInit == Init => RenewalsInTime
BY DEF Init, RenewalsInTime


\* The numbers the argument is about.
LEMMA RenewalTypes ==
    ASSUME IInv
    PROVE  /\ late \in Nat /\ late <= MaxLate /\ cmdAge \in Nat /\ misses \in 0 .. 2
           /\ relay \in [Valve -> Relay(RelayConfigs)]
           /\ \A v \in Valve : relay[v].lease \in Nat
           /\ commanded \in BOOLEAN /\ calm \in BOOLEAN
BY Intervals, ConfigKept DEF IInv, TypeOK

LEMMA RenewalsUndisturbed ==
    ASSUME RenewalsInTime, UNCHANGED <<channel, relay, misses, late, cmdAge, commanded, calm, ota>>,
           Sampling' <=> Sampling
    PROVE  RenewalsInTime'
BY DEF RenewalsInTime, RetriesLeft

\* A disturbance ends the calm.
LEMMA RenewalsDisturbed ==
    ASSUME RenewalsInTime, calm' = FALSE, channel' = channel, commanded' => commanded
    PROVE  RenewalsInTime'
BY DEF RenewalsInTime

LEMMA RenewalsStart ==
    ASSUME IInv, RenewalsInTime, TickStart PROVE RenewalsInTime'
<1>1. /\ Configure /\ late' = 0 /\ pc = "idle" /\ TypeOK
      /\ UNCHANGED <<ota, relay, calm, misses>>
  BY DEF TickStart, IInv
<1>2. /\ channel # channel' => ~commanded'
      /\ channel = channel' => UNCHANGED <<commanded, cmdAge>>
  BY <1>1, Configured
<1>3. CASE channel # channel' BY <1>1, <1>2, <1>3 DEF RenewalsInTime
<1>5. CASE channel = channel' /\ channel \notin Valve
  BY <1>1, <1>2, <1>5 DEF RenewalsInTime
<1>4. CASE channel = channel' /\ channel \in Valve
  <2>0. Sampling'
    BY <1>1, <1>4, Configured, ActuatorAssumption DEF TickStart, Sampling
  <2>1. RetriesLeft \in Nat /\ RetriesLeft' \in Nat /\ RetriesLeft <= RetriesLeft'
    <3>1. PICK m \in Nat : m = IF misses = 0 THEN 0 ELSE MaxLate
      BY Intervals
    <3>3. RetriesLeft = m + 0 + late
      BY <1>1, <3>1 DEF RetriesLeft, Sampling
    <3>4. RetriesLeft' = m + MaxLate + 0
      BY <1>1, <2>0, <3>1 DEF RetriesLeft
    <3> QED BY <3>1, <3>3, <3>4, RenewalTypes, Intervals
  <2> QED BY <1>1, <1>2, <1>4, <2>1, RenewalTypes, Intervals DEF RenewalsInTime
<1> QED BY <1>3, <1>4, <1>5

\* Time takes as much from the timer as from what it has to cover, and the timer does not
\* run out: the retry comes before.
LEMMA RenewalsPass ==
    ASSUME LeaseCoversRetry, IInv, RenewalsInTime, Pass PROVE RenewalsInTime'
<1>1. /\ UNCHANGED <<channel, commanded, pc, ota, calm, misses>>
      /\ \A v \in Valve : relay'[v] = Elapse(relay[v])
      /\ late < MaxLate => late' = late + 1
      /\ commanded /\ cmdAge' < Renew + MaxLate => cmdAge' = cmdAge + 1
      /\ commanded => cmdAge' >= Renew + MaxLate \/ cmdAge' = cmdAge + 1
      /\ cmdAge' \in Nat /\ late' \in Nat /\ late' <= MaxLate
  BY PassAges, Intervals DEF Pass, tick, IInv
<1>2. SUFFICES ASSUME commanded, calm, misses <= 1
      PROVE  LET r == relay'[channel] IN
             /\ r.on
             /\ r.lease = 0 \/ r.lease + RetriesLeft' > MinLease - Renew
             /\ misses = 0 /\ cmdAge' < Renew + MaxLate
                  => r.lease = 0 \/ r.lease + cmdAge' >= MinLease
             /\ misses = 1 => cmdAge' - late' >= Renew
  BY <1>1 DEF RenewalsInTime
<1> DEFINE r == relay[channel]
           q == relay'[channel]
<1>3. /\ channel \in Valve /\ ~ota /\ r.on
      /\ r.lease = 0 \/ r.lease + RetriesLeft > MinLease - Renew
      /\ misses = 0 /\ cmdAge < Renew + MaxLate => r.lease = 0 \/ r.lease + cmdAge >= MinLease
      /\ misses = 1 => cmdAge - late >= Renew
  BY <1>2 DEF RenewalsInTime
<1>4. late < MaxLate /\ late' = late + 1
  BY <1>1, <1>3 DEF Pass
<1>5. /\ RetriesLeft \in Nat /\ RetriesLeft' = RetriesLeft + 1
      /\ RetriesLeft + 1 <= 3 * MaxLate
  BY <1>1, <1>4, RenewalTypes, Intervals DEF RetriesLeft, Sampling
<1>6. /\ r.lease \in Nat
      /\ r.lease = 0 => q = r
      /\ r.lease > 0 => q.lease = r.lease - 1
      /\ r.lease > 1 => q.on = r.on
  BY <1>1, <1>3, RenewalTypes, Elapsed
<1> HIDE DEF r, q
<1>7. r.lease # 1
  BY <1>3, <1>5, <1>6, Intervals DEF LeaseCoversRetry
<1>8. q.on /\ (q.lease = 0 \/ q.lease + RetriesLeft' > MinLease - Renew)
  <2>1. r.lease = 0 \/ r.lease > 1 BY <1>6, <1>7
  <2>2. q.on = r.on BY <1>6, <2>1
  <2>3. q.lease = 0 \/ q.lease + RetriesLeft' > MinLease - Renew
    BY <1>3, <1>5, <1>6, <2>1, Intervals
  <2> QED BY <1>3, <2>2, <2>3
<1>9. misses = 0 /\ cmdAge' < Renew + MaxLate => q.lease = 0 \/ q.lease + cmdAge' >= MinLease
  BY <1>1, <1>2, <1>3, <1>6, RenewalTypes, Intervals
<1>10. misses = 1 => cmdAge' - late' >= Renew
  BY <1>1, <1>2, <1>3, <1>4, RenewalTypes, Intervals
<1> QED BY <1>8, <1>9, <1>10 DEF q

\* An on-request that was carried out starts a timer that covers everything; one that
\* failed was due, and the next tick tries again.
LEMMA RenewalsDrive ==
    ASSUME LeaseCoversRetry, IInv, RenewalsInTime, Drive PROVE RenewalsInTime'
<1> DEFINE r == relay[channel]
           q == relay'[channel]
<1>1. /\ pc = "drive" /\ channel \in Valve /\ UNCHANGED <<channel, late, ota>>
      /\ pc' \in {"observe", "idle"}
  BY DEF Drive, NextStep, IInv, TypeOK
<1>2. /\ RetriesLeft = (IF misses = 0 THEN 0 ELSE MaxLate) + MaxLate + late
      /\ RetriesLeft' = (IF misses' = 0 THEN 0 ELSE MaxLate) + 0 + late
      /\ late \in Nat /\ late <= MaxLate /\ cmdAge \in Nat /\ r.lease \in Nat /\ misses \in 0 .. 2
  BY <1>1, RenewalTypes, Intervals DEF RetriesLeft, Sampling
<1>3. /\ commanded /\ calm /\ misses <= 1 =>
           /\ r.on
           /\ r.lease = 0 \/ r.lease + RetriesLeft > MinLease - Renew
           /\ misses = 0 /\ cmdAge < Renew + MaxLate => r.lease = 0 \/ r.lease + cmdAge >= MinLease
           /\ misses = 1 => cmdAge - late >= Renew
      /\ calm => ~ota
  BY DEF RenewalsInTime
<1>4. WantOpen \in BOOLEAN
  <2>1. sample.share \in Nat /\ Timed(tpo)
    <3>1. sample \in [share: Shares \cup {0}, permitted: BOOLEAN] /\ Timed(tpo)
      BY DEF IInv, TypeOK, Timed
    <3>2. Shares \subseteq Nat BY ActuatorAssumption, Intervals
    <3> QED BY <3>1, <3>2, Zero
  <2>2. Timed(Update(tpo, sample.share)) BY <2>1, UpdateIsTimed
  <2> QED BY <2>2 DEF WantOpen, Timed, Tpo
<1>5. CASE Due
  <2>1. PICK ok \in BOOLEAN :
           /\ Send(WantOpen, ok)
           /\ commanded' = (IF ok THEN WantOpen ELSE commanded)
           /\ cmdAge' = (IF ~ok THEN cmdAge ELSE IF WantOpen THEN late ELSE 0)
           /\ calm' = ((ok \/ (calm /\ WantOpen)) /\ ~ota)
           /\ misses' = (IF ok THEN 0 ELSE IF misses < 2 THEN misses + 1 ELSE misses)
    BY <1>5 DEF Drive, LastCommand
  <2>2. q = Switch(r, WantOpen) \/ (~ok /\ q = r)
    BY <1>1, <1>4, <2>1, RenewalTypes, Sent
  <2>3. WantOpen => LET w == Switch(r, WantOpen) IN w.on /\ (w.lease = 0 \/ w.lease >= MinLease)
    BY <1>1, <1>4, RenewalTypes, Switched, ConfigKept DEF LeaseCoversRetry
  <2>4. WantOpen /\ q = Switch(r, WantOpen) =>
           q.on /\ (q.lease = 0 \/ q.lease >= MinLease)
    BY <2>3
  <2>5. q.lease \in Nat
    <3>1. relay' \in [Valve -> Relay(RelayConfigs)] BY <1>1, <1>4, <2>1, RenewalTypes, Sent
    <3> QED BY <1>1, <3>1, ConfigKept
  <2>6. CASE ok
    <3>1. commanded' => WantOpen /\ q.on /\ (q.lease = 0 \/ q.lease >= MinLease)
          /\ cmdAge' = late
      BY <2>1, <2>2, <2>4, <2>6
    <3>2. misses' = 0 /\ (calm' => ~ota) BY <2>1, <2>6
    <3> HIDE DEF r, q
    <3>3. RetriesLeft' = late BY <1>2, <3>2
    <3>4. q.lease >= MinLease => q.lease + late > MinLease - Renew /\ q.lease + late >= MinLease
      BY <1>2, <2>5, Intervals
    <3>5. commanded' => q.on /\ (q.lease = 0 \/ q.lease + RetriesLeft' > MinLease - Renew)
                        /\ (q.lease = 0 \/ q.lease + cmdAge' >= MinLease)
      BY <3>1, <3>3, <3>4
    <3> QED BY <1>1, <3>2, <3>5 DEF RenewalsInTime, q
  <2>7. CASE ~ok
    <3>1. /\ commanded' = commanded /\ cmdAge' = cmdAge /\ (calm' => calm /\ WantOpen /\ ~ota)
          /\ misses' = (IF misses < 2 THEN misses + 1 ELSE misses)
      BY <2>1, <2>7
    <3>2. misses' <= 1 => misses = 0 /\ misses' = 1
      BY <1>2, <3>1
    <3>3. commanded /\ WantOpen => cmdAge - late >= Renew
      BY <1>5 DEF Due, SinceAge
    <3> HIDE DEF r, q
    <3>4. commanded /\ calm' /\ misses' <= 1 =>
             q.on /\ (q.lease = 0 \/ q.lease + RetriesLeft' > MinLease - Renew)
      <4> SUFFICES ASSUME commanded, calm', misses' <= 1
                   PROVE  q.on /\ (q.lease = 0 \/ q.lease + RetriesLeft' > MinLease - Renew)
        OBVIOUS
      <4>1. RetriesLeft' = MaxLate + late /\ RetriesLeft = MaxLate + late
        BY <1>2, <3>2, Intervals
      <4>2. CASE q = r BY <1>3, <3>1, <3>2, <4>1, <4>2
      <4>3. CASE q = Switch(r, WantOpen)
        <5>1. q.on /\ (q.lease = 0 \/ q.lease >= MinLease)
          BY <2>4, <3>1, <4>3
        <5>2. q.lease >= MinLease => q.lease + RetriesLeft' > MinLease - Renew
          BY <1>2, <2>5, <4>1, Intervals
        <5> QED BY <5>1, <5>2
      <4> QED BY <2>2, <4>2, <4>3
    <3> QED BY <1>1, <3>1, <3>2, <3>3, <3>4, <1>3 DEF RenewalsInTime, q
  <2> QED BY <2>6, <2>7
<1>6. CASE ~Due
  <2>1. UNCHANGED <<commanded, cmdAge, relay, calm, misses>> BY <1>6 DEF Drive
  <2>2. commanded => cmdAge - late < Renew
    <3>1. WantOpen = commanded /\ (WantOpen => ~(cmdAge - late >= Renew))
      BY <1>6 DEF Due, SinceAge
    <3> QED BY <1>2, <3>1, Intervals
  <2> HIDE DEF r, q
  <2>3. commanded /\ calm /\ misses <= 1 =>
           /\ misses = 0 /\ RetriesLeft' = late
           /\ r.lease = 0 \/ r.lease + late > MinLease - Renew
    BY <1>2, <1>3, <2>1, <2>2, Intervals
  <2> QED BY <1>1, <1>3, <2>1, <2>3 DEF RenewalsInTime, r
<1> QED BY <1>5, <1>6

LEMMA RenewalsNext ==
    ASSUME LeaseCoversRetry, IInv, RenewalsInTime, [Next]_vars PROVE RenewalsInTime'
<1>1. CASE UNCHANGED vars
  <2>1. UNCHANGED <<channel, relay, misses, late, cmdAge, commanded, calm, ota, pc>>
    BY <1>1 DEF vars, device, tick, world, history
  <2> QED BY <2>1, RenewalsUndisturbed DEF Sampling
<1>2. CASE FetchConfig \/ StoreVerdict \/ ObserveRelay \/ Offer \/ Assign \/ RequestRecheck
  <2>1. /\ UNCHANGED <<channel, relay, misses, late, cmdAge, commanded, calm, ota>>
        /\ Sampling' <=> Sampling
    BY <1>2 DEF FetchConfig, StoreVerdict, ObserveRelay, Offer, Assign, RequestRecheck, device,
       tick, world, history, Sampling
  <2> QED BY <2>1, RenewalsUndisturbed
<1>3. CASE HoldClosed \/ OtaToggle \/ \E v \in Valve : Reconfigure(v) \/ Disturb(v)
  <2>1. calm' = FALSE /\ channel' = channel /\ (commanded' => commanded)
    <3>1. CASE HoldClosed BY <3>1 DEF HoldClosed, ForceClosed
    <3>2. CASE OtaToggle BY <3>2 DEF OtaToggle, device
    <3>3. CASE \E v \in Valve : Reconfigure(v) \/ Disturb(v)
      BY <3>3 DEF Reconfigure, Disturb, device
    <3> QED BY <1>3, <3>1, <3>2, <3>3
  <2> QED BY <2>1, RenewalsDisturbed
<1>4. CASE DeviceResets
  <2>1. ~commanded' /\ ~calm' /\ ~ota' BY <1>4 DEF DeviceResets
  <2> QED BY <2>1 DEF RenewalsInTime
<1> QED BY <1>1, <1>2, <1>3, <1>4, RenewalsStart, RenewalsDrive, RenewalsPass DEF Next, TickStep

\* One failed renewal does not move the valve, if every relay's timer covers the renewal
\* and three late ticks.
THEOREM HeldThroughFailure ==
    ASSUME LeaseCoversRetry PROVE Spec => []HeldThroughOneFailure
<1>1. RenewalsInTime => HeldThroughOneFailure BY DEF RenewalsInTime, HeldThroughOneFailure
<1>2. IInv /\ RenewalsInTime /\ [Next]_vars => RenewalsInTime'
  BY RenewalsNext
<1> QED BY <1>1, <1>2, RenewalsInit, Invariance, PTL DEF Spec

-----------------------------------------------------------------------------
(* Closed by command: where a close may be lost, or nobody ticks for a valve *)
(* any more, only the lease closes it (LeaseIsFailsafe).                    *)

NothingLost == Happens \cap {"loss", "assign", "ota", "reset"} = {}

LEMMA CommandInit == Init => HeldByCommand
BY DEF Init, HeldByCommand

LEMMA CommandNext ==
    ASSUME NothingLost, IInv, HeldByCommand, [Next]_vars PROVE HeldByCommand'
<1>0. /\ late \in Nat /\ late <= MaxLate /\ relay \in [Valve -> Relay(RelayConfigs)]
      /\ \A v \in Valve : relay[v].lease \in Nat /\ withdrawn[v] \in Nat
      /\ TypeOK /\ PermissionIsRecent /\ ~ota
  BY RenewalTypes DEF IInv, TypeOK, HeldByCommand
<1>1. CASE UNCHANGED vars
  BY <1>1 DEF vars, device, tick, world, history, HeldByCommand, Sampling
<1>2. CASE FetchConfig \/ StoreVerdict \/ ObserveRelay \/ RequestRecheck
  <2>1. /\ UNCHANGED <<channel, assignment, relay, late, commanded, ota, sample, withdrawn>>
        /\ Sampling' <=> Sampling
        /\ pc' # "idle" => pc # "idle"
    BY <1>2 DEF FetchConfig, StoreVerdict, ObserveRelay, RequestRecheck, device,
       tick, world, history, Sampling
  <2> QED BY <2>1 DEF HeldByCommand
<1>3. CASE TickStart
  <2>1. /\ channel' = assignment /\ late' = 0 /\ pc = "idle"
        /\ channel = channel' => UNCHANGED commanded
        /\ UNCHANGED <<assignment, relay, ota, withdrawn, control>>
    BY <1>0, <1>3, Configured DEF TickStart
  <2>2. assignment \in Valve => Sampling' /\ sample' = control
    BY <1>0, <1>3, ActuatorAssumption DEF TickStart, Sampling
  <2>3. ~Sampling BY <2>1 DEF Sampling
  <2> SUFFICES ASSUME NEW v \in Valve, relay[v].lease > 0
               PROVE  /\ v = channel' /\ v = assignment' /\ commanded'
                      /\ withdrawn[v] <= 0 + (IF Sampling' /\ ~sample'.permitted
                                              THEN MaxLate ELSE 0)
    BY <1>0, <2>1 DEF HeldByCommand
  <2>4. v = channel /\ v = assignment /\ commanded /\ withdrawn[v] <= late
    BY <1>0, <2>3, Intervals DEF HeldByCommand
  <2>5. control.permitted => withdrawn[v] = 0 BY <1>0, <2>4 DEF PermissionIsRecent
  <2> QED BY <1>0, <2>1, <2>2, <2>4, <2>5, Intervals
<1>4. CASE HoldClosed
  <2>1. /\ UNCHANGED <<channel, late, assignment, ota, withdrawn>> /\ channel \in Valve
        /\ ForceClosed /\ pc = "drive"
    BY <1>0, <1>4 DEF HoldClosed, TypeOK
  <2>2. \A v \in Valve : relay'[v].lease = 0
    <3>1. CASE commanded
      <4>1. PICK ok \in BOOLEAN : Send(FALSE, ok) BY <2>1, <3>1 DEF ForceClosed
      <4>2. /\ \A v \in Valve : v # channel => relay'[v] = relay[v]
            /\ relay'[channel] = Switch(relay[channel], FALSE)
        BY <1>0, <2>1, <4>1, Sent DEF NothingLost
      <4>4. Switch(relay[channel], FALSE).lease = 0 BY <1>0, <2>1, Switched
      <4>3. relay'[channel].lease = 0 BY <4>2, <4>4
      <4>5. \A v \in Valve : v # channel => relay[v].lease = 0
        BY <1>0 DEF HeldByCommand
      <4> QED BY <4>2, <4>3, <4>5
    <3>2. CASE ~commanded
      BY <1>0, <2>1, <3>2 DEF ForceClosed, HeldByCommand
    <3> QED BY <3>1, <3>2
  <2> QED BY <1>0, <2>1, <2>2 DEF HeldByCommand
<1>5. CASE Drive
  <2>1. /\ UNCHANGED <<channel, late, assignment, ota, withdrawn>> /\ channel \in Valve
        /\ ~Sampling' /\ withdrawn[channel] <= late /\ assignment = channel
    BY <1>0, <1>5 DEF Drive, NextStep, MayDrive, PermissionIsRecent, Sampling,
       TypeOK, HeldByCommand
  <2>2. CASE Due
    <3>1. PICK ok \in BOOLEAN : /\ Send(WantOpen, ok)
                                /\ commanded' = (IF ok THEN WantOpen ELSE commanded)
      BY <1>5, <2>2 DEF Drive
    <3>2. ok BY <3>1 DEF Send, NothingLost
    <3>3. WantOpen \in BOOLEAN
      <4>1. sample \in [share: Shares \cup {0}, permitted: BOOLEAN] /\ Timed(tpo)
        BY <1>0 DEF TypeOK, Timed
      <4>2. Shares \subseteq Nat BY ActuatorAssumption, Intervals
      <4>3. sample.share \in Nat BY <4>1, <4>2, Zero
      <4>4. Timed(Update(tpo, sample.share)) BY <4>1, <4>3, UpdateIsTimed
      <4> QED BY <4>4 DEF WantOpen, Timed, Tpo
    <3>4. /\ \A v \in Valve : v # channel => relay'[v] = relay[v]
          /\ relay'[channel] = Switch(relay[channel], WantOpen)
      BY <1>0, <2>1, <3>1, <3>2, <3>3, Sent
    <3>5. ~WantOpen => relay'[channel].lease = 0
      BY <1>0, <2>1, <3>3, <3>4, Switched
    <3>6. \A v \in Valve : v # channel => relay[v].lease = 0
      BY <1>0 DEF HeldByCommand
    <3>7. relay'[channel].lease > 0 => commanded'
      BY <3>1, <3>2, <3>3, <3>5
    <3>8. \A v \in Valve : relay'[v].lease > 0 => v = channel
      BY <3>4, <3>6
    <3> QED BY <1>0, <2>1, <3>7, <3>8 DEF HeldByCommand
  <2>3. CASE ~Due
    <3>1. UNCHANGED <<commanded, relay>> BY <1>5, <2>3 DEF Drive
    <3> QED BY <1>0, <2>1, <3>1 DEF HeldByCommand
  <2> QED BY <2>2, <2>3
<1>6. CASE Offer \/ OtaToggle \/ Assign \/ DeviceResets
  <2>1. Offer BY <1>6 DEF OtaToggle, Assign, DeviceResets, NothingLost
  <2>2. /\ UNCHANGED <<channel, assignment, relay, late, commanded, ota, sample, pc>>
        /\ \A v \in Valve : withdrawn'[v] <= withdrawn[v]
    BY <1>0, <2>1 DEF Offer, device, tick
  <2>3. \A v \in Valve : withdrawn'[v] \in Nat
    BY <1>0, <2>1 DEF Offer
  <2> DEFINE bound == late + (IF Sampling /\ ~sample.permitted THEN MaxLate ELSE 0)
  <2>4. bound \in Nat /\ bound' = bound BY <1>0, <2>2, Intervals DEF Sampling
  <2>5. \A v \in Valve : relay[v].lease > 0 => withdrawn[v] <= bound
    BY DEF HeldByCommand
  <2> HIDE DEF bound
  <2>6. \A v \in Valve : relay[v].lease > 0 => withdrawn'[v] <= bound'
    BY <1>0, <2>2, <2>3, <2>4, <2>5
  <2> QED BY <1>0, <2>2, <2>6 DEF HeldByCommand, bound
<1>7. CASE \E v \in Valve : Reconfigure(v) \/ Disturb(v)
  <2>1. PICK v \in Valve : Reconfigure(v) \/ Disturb(v) BY <1>7
  <2>2. UNCHANGED <<channel, assignment, late, commanded, ota, sample, pc, withdrawn>>
    BY <2>1 DEF Reconfigure, Disturb, device, tick
  <2>3. \A w \in Valve : relay'[w].lease = relay[w].lease \/ relay'[w].lease = 0
    <3>1. CASE Reconfigure(v)
      <4>1. PICK c \in RelayConfigs : relay' = [relay EXCEPT ![v].cfg = c]
        BY <3>1 DEF Reconfigure
      <4>2. [relay[v] EXCEPT !.cfg = c].lease = relay[v].lease BY <1>0 DEF Relay
      <4> QED BY <1>0, <4>1, <4>2
    <3>2. CASE Disturb(v)
      <4>1. PICK q \in Rebooted(relay[v]) \cup Toggled(relay[v]) :
               relay' = [relay EXCEPT ![v] = q]
        BY <3>2 DEF Disturb
      <4>2. q.lease = 0 BY <1>0, Disturbed
      <4> QED BY <1>0, <4>1, <4>2
    <3> QED BY <2>1, <3>1, <3>2
  <2> QED BY <1>0, <2>2, <2>3 DEF HeldByCommand, Sampling
<1>8. CASE Pass
  <2>1. /\ UNCHANGED <<channel, assignment, commanded, ota, sample, pc>> /\ late' = late + 1
    <3>1. late < MaxLate BY <1>0, <1>8 DEF Pass
    <3> QED BY <1>0, <1>8, <3>1, PassAges DEF Pass, device, tick
  <2>2. \A v \in Valve : /\ withdrawn'[v] \in Nat /\ withdrawn'[v] <= withdrawn[v] + 1
                         /\ relay'[v].lease > 0 => relay[v].lease > 0
    <3>1. \A v \in Valve : relay'[v] = Elapse(relay[v]) BY <1>0, <1>8, PassAges
    <3>2. \A v \in Valve : relay[v].lease = 0 => relay'[v].lease = 0
      BY <1>0, <3>1, Elapsed
    <3> QED BY <1>0, <1>8, <3>2, PassAges
  <2> DEFINE more == IF Sampling /\ ~sample.permitted THEN MaxLate ELSE 0
  <2>3. more \in Nat /\ more' = more BY <2>1, Intervals DEF Sampling
  <2>4. \A v \in Valve : relay[v].lease > 0 => withdrawn[v] <= late + more
    BY DEF HeldByCommand
  <2> HIDE DEF more
  <2>5. \A v \in Valve : relay'[v].lease > 0 => withdrawn'[v] <= late' + more'
    BY <1>0, <2>1, <2>2, <2>3, <2>4
  <2> QED BY <1>0, <2>1, <2>2, <2>5 DEF HeldByCommand, more
<1> QED BY <1>1, <1>2, <1>3, <1>4, <1>5, <1>6, <1>7, <1>8 DEF Next, TickStep

\* With every request answered, the assignment left alone, no OTA job and no reset, a contact is
\* opened by command within two late ticks of the withdrawal of its permission.
THEOREM CommandCloses == ASSUME NothingLost PROVE Spec => []ClosedByCommand
<1>1. IInv /\ HeldByCommand => ClosedByCommand
  <2> SUFFICES ASSUME IInv, HeldByCommand, NEW v \in Valve, withdrawn[v] > 2 * MaxLate
               PROVE  relay[v].lease = 0
    BY DEF ClosedByCommand
  <2>1. /\ late \in Nat /\ late <= MaxLate /\ relay[v].lease \in Nat /\ withdrawn[v] \in Nat
    BY RenewalTypes DEF IInv, TypeOK
  <2>2. relay[v].lease > 0 => withdrawn[v] <= late + MaxLate \/ withdrawn[v] <= late + 0
    BY DEF HeldByCommand
  <2> QED BY <2>1, <2>2, Intervals
<1>2. IInv /\ HeldByCommand /\ [Next]_vars => HeldByCommand'
  BY CommandNext
<1> QED BY <1>1, <1>2, CommandInit, Invariance, PTL DEF Spec

-----------------------------------------------------------------------------
(* The theorems about DutyCycle: one duty cycle on its own, for every      *)
(* timing that timingValid() admits, every lateness of its ticks and every *)
(* sequence of demands.                                                    *)

\* u is t with these values in the fields that calls change.
Is(u, t, started, elapsed, on, credit, open) ==
    /\ u \in Tpo /\ u.cycle = t.cycle /\ u.travel = t.travel
    /\ u.started = started /\ u.elapsed = elapsed /\ u.openMs = on
    /\ u.credit = credit /\ u.open = open

LEMMA LatchedFields ==
    ASSUME NEW t \in Tpo, NEW on \in Nat, NEW credit \in Int
    PROVE  Is(Latched(t, on, credit), t, TRUE, 0, on, credit, t.open)
<1>1. PICK u : u = Latched(t, on, credit) OBVIOUS
<1>2. Is(u, t, TRUE, 0, on, credit, t.open)
  BY <1>1 DEF Latched, Tpo, Is
<1> QED BY <1>1, <1>2

LEMMA OpenSet ==
    ASSUME NEW t \in Tpo, NEW b \in BOOLEAN
    PROVE  Is([t EXCEPT !.open = b], t, t.started, t.elapsed, t.openMs, t.credit, b)
<1>1. PICK u : u = [t EXCEPT !.open = b] OBVIOUS
<1>2. Is(u, t, t.started, t.elapsed, t.openMs, t.credit, b)
  BY <1>1 DEF Tpo, Is
<1> QED BY <1>1, <1>2

LEMMA ElapsedSet ==
    ASSUME NEW t \in Tpo, NEW n \in Nat
    PROVE  Is([t EXCEPT !.elapsed = @ + n], t, t.started, t.elapsed + n, t.openMs, t.credit,
              t.open)
<1>1. PICK u : u = [t EXCEPT !.elapsed = @ + n] OBVIOUS
<1>2. Is(u, t, t.started, t.elapsed + n, t.openMs, t.credit, t.open)
  BY <1>1 DEF Tpo, Is
<1> QED BY <1>1, <1>2

LEMMA ResetFields ==
    ASSUME NEW t \in Tpo
    PROVE  Is(Reset(t), t, FALSE, 0, 0, 0, FALSE)
<1>1. PICK v : v = Latched(t, 0, 0) OBVIOUS
<1>2. Is(v, t, TRUE, 0, 0, 0, t.open)
  BY Zero, <1>1, LatchedFields
<1>3. PICK u : u = [v EXCEPT !.started = FALSE, !.open = FALSE] OBVIOUS
<1>4. v \in Tpo BY <1>2 DEF Is
<1>5. Is(u, v, FALSE, v.elapsed, v.openMs, v.credit, FALSE)
  <2> HIDE <1>1, <1>2
  <2> QED BY <1>3, <1>4 DEF Is, Tpo
<1>6. Reset(t) = u
  BY <1>1, <1>3 DEF Reset
<1> QED BY <1>2, <1>5, <1>6 DEF Is

\* What beginCycle() latches and carries when it finds a credit: the rails, the middle
\* of the range, and a credit that stays below one stroke.
Begun(u, credit, s) ==
    /\ u \in Tpo /\ u.cycle = CycleMs /\ u.travel = TravelMs
    /\ u.started = TRUE /\ u.elapsed = 0 /\ u.openMs \in 0 .. CycleMs
    /\ u.openMs = 0 \/ u.openMs >= TravelMs
    /\ CycleMs - u.openMs = 0 \/ CycleMs - u.openMs >= TravelMs
    /\ 0 - TravelMs < u.credit /\ u.credit < TravelMs
    /\ s = 0 => u.openMs = 0 /\ u.credit = 0
    /\ s # 0 /\ credit + s <= CycleMs => u.credit + u.openMs = credit + s
    /\ s # 0 /\ credit + s > CycleMs => u.credit = 0 /\ u.openMs = CycleMs
    /\ u.credit + s <= CycleMs

LEMMA BeginCycleSpends ==
    ASSUME NEW t \in Tpo, t.cycle = CycleMs, t.travel = TravelMs,
           NEW s \in Demands,
           0 - TravelMs < t.credit, t.credit < TravelMs
    PROVE  Begun(BeginCycle(t, s), t.credit, s)
<1> DEFINE bank == Banked(t, s)
           on == Snapped(t, bank)
           left == Carried(t, bank - on)
<1>0. /\ CycleMs \in Nat /\ TravelMs \in Nat \ {0} /\ CycleMs >= 4 * TravelMs
      /\ s \in 0 .. CycleMs /\ t.credit \in Int
  BY TimingAssumption DEF TimingValid, Demands, Tpo
<1>1. /\ bank \in Int /\ bank <= CycleMs
      /\ t.credit + s <= CycleMs => bank = t.credit + s
      /\ t.credit + s > CycleMs => bank = CycleMs
  BY <1>0 DEF Banked
<1>2. s # 0 => bank > 0 - TravelMs
  BY <1>0, <1>1
<1> HIDE DEF bank
<1>3. /\ on \in Int
      /\ bank < TravelMs => on = 0
      /\ bank >= TravelMs /\ CycleMs - bank < TravelMs => on = CycleMs
      /\ bank >= TravelMs /\ CycleMs - bank >= TravelMs => on = bank
  BY <1>0, <1>1 DEF Snapped
<1> HIDE DEF on
<1>4. s # 0 => left = bank - on /\ 0 - TravelMs < left /\ left < TravelMs /\ on \in 0 .. CycleMs
  BY <1>0, <1>1, <1>2, <1>3 DEF Carried
<1> HIDE DEF left
<1>5. CASE s = 0
  <2>1. PICK u : u = Latched(t, 0, 0) OBVIOUS
  <2>2. BeginCycle(t, s) = u
    BY <2>1, <1>5 DEF BeginCycle
  <2>3. /\ u \in Tpo /\ u.cycle = CycleMs /\ u.travel = TravelMs
        /\ u.started = TRUE /\ u.elapsed = 0 /\ u.openMs = 0 /\ u.credit = 0
    <3>1. Is(Latched(t, 0, 0), t, TRUE, 0, 0, 0, t.open)
      BY Zero, LatchedFields
    <3> QED BY <2>1, <3>1 DEF Is
  <2> QED BY <2>2, <2>3, <1>5, <1>0 DEF Begun
<1>6. CASE s # 0
  <2>1. PICK u : u = Latched(t, on, left) OBVIOUS
  <2>2. BeginCycle(t, s) = u
    BY <2>1, <1>6 DEF BeginCycle, on, left, bank
  <2>3. left \in Int /\ on \in Nat
    BY <1>0, <1>1, <1>4, <1>3, <1>6
  <2>4. /\ u \in Tpo /\ u.cycle = CycleMs /\ u.travel = TravelMs
        /\ u.started = TRUE /\ u.elapsed = 0 /\ u.openMs = on /\ u.credit = left
    <3>1. Is(Latched(t, on, left), t, TRUE, 0, on, left, t.open)
      BY <2>3, LatchedFields
    <3> QED BY <2>1, <3>1 DEF Is
  <2>5. Begun(u, t.credit, s)
    BY <2>4, <1>0, <1>1, <1>2, <1>3, <1>4, <1>6 DEF Begun
  <2> QED BY <2>2, <2>5
<1> QED BY <1>5, <1>6

\* Where no cycle begins, update() only recomputes whether the valve is open.
LEMMA UpdateKeepsCycle ==
    ASSUME NEW t \in Tpo, NEW s \in Demands, ~CycleDue(t)
    PROVE  Update(t, s) = [t EXCEPT !.open = t.elapsed < t.openMs]
BY DEF Update

LEMMA UpdateBeginsCycle ==
    ASSUME NEW t \in Tpo, NEW s \in Demands, CycleDue(t)
    PROVE  Update(t, s) = [BeginCycle(t, s) EXCEPT !.open =
                              BeginCycle(t, s).elapsed < BeginCycle(t, s).openMs]
BY DEF Update

LEMMA DutyInitInv == DutyInit => DutyIInv
<1> SUFFICES ASSUME DutyInit PROVE DutyIInv OBVIOUS
<1>1. duty = NewTpo(CycleMs, TravelMs) /\ held \in Demands /\ fresh = TRUE /\ owed = 0 /\ openFor = 0
  BY DEF DutyInit
<1>2. /\ Is(duty, duty, FALSE, 0, 0, 0, FALSE) /\ duty.cycle = CycleMs /\ duty.travel = TravelMs
  BY <1>1, TimingAssumption DEF NewTpo, Tpo, Is
<1>3. DutyTypeOK
  BY <1>1, <1>2, TimingAssumption DEF DutyTypeOK, Is
<1>4. FullStrokes /\ CreditBelowStroke /\ CreditFollowsOwed
  BY <1>1, <1>2, TimingAssumption DEF FullStrokes, CreditBelowStroke, CreditFollowsOwed, Is,
       TimingValid
<1>5. OpenTimeCounted /\ OpenTimeDelivered
  BY <1>1, <1>2, TimingAssumption DEF OpenTimeCounted, OpenTimeDelivered, Is
<1> QED BY <1>3, <1>4, <1>5 DEF DutyIInv

LEMMA DutyDemand == DutyIInv /\ Demand => DutyIInv'
BY TimingAssumption DEF DutyIInv, Demand, DutyTypeOK, FullStrokes, CreditBelowStroke,
      CreditFollowsOwed, OpenTimeCounted, OpenTimeDelivered, Demands, Tpo, TimingValid

LEMMA DutyForget == DutyIInv /\ Forget => DutyIInv'
<1> SUFFICES ASSUME DutyIInv, Forget PROVE DutyIInv' OBVIOUS
<1> USE TimingAssumption DEF TimingValid
<1>1. /\ Is(duty', duty, FALSE, 0, 0, 0, FALSE)
      /\ duty'.cycle = CycleMs /\ duty'.travel = TravelMs
  BY ResetFields DEF DutyIInv, DutyTypeOK, Forget, Is
<1>2. held' = held /\ held \in Demands /\ fresh' = TRUE /\ owed' = 0 /\ openFor' = 0
  BY DEF DutyIInv, DutyTypeOK, Forget
<1>3. DutyTypeOK'
  BY <1>1, <1>2 DEF DutyTypeOK, Is
<1>4. FullStrokes' /\ CreditBelowStroke' /\ CreditFollowsOwed'
  BY <1>1, <1>2 DEF FullStrokes, CreditBelowStroke, CreditFollowsOwed, Is
<1>5. OpenTimeCounted' /\ OpenTimeDelivered'
  BY <1>1, <1>2 DEF OpenTimeCounted, OpenTimeDelivered, Is
<1> QED BY <1>3, <1>4, <1>5 DEF DutyIInv

\* A call that begins no cycle: only the clock moves.
LEMMA DutyMidCycle ==
    ASSUME DutyIInv, NEW dt \in 1 .. MaxStep,
           ~CycleDue([duty EXCEPT !.elapsed = @ + dt]),
           duty' = Update([duty EXCEPT !.elapsed = @ + dt], held), held' = held,
           openFor' = (IF duty.open THEN openFor + dt ELSE openFor),
           UNCHANGED <<owed, fresh>>
    PROVE  DutyIInv'
<1> DEFINE seen == [duty EXCEPT !.elapsed = @ + dt]
<1> USE TimingAssumption DEF TimingValid
<1>1. /\ duty \in Tpo /\ dt \in Nat
      /\ Is(seen, duty, duty.started, duty.elapsed + dt, duty.openMs, duty.credit, duty.open)
  BY ElapsedSet DEF DutyIInv, DutyTypeOK
<1> HIDE DEF seen
<1>2. duty.started = TRUE /\ duty.elapsed + dt < CycleMs
  <2>1. seen.started /\ ~(seen.elapsed >= seen.cycle)
    BY DEF CycleDue, seen
  <2> QED BY <2>1, <1>1 DEF DutyIInv, DutyTypeOK, Tpo, Is
<1>3. duty' = [seen EXCEPT !.open = seen.elapsed < seen.openMs]
  BY <1>1, UpdateKeepsCycle DEF DutyIInv, DutyTypeOK, seen, Is
<1>4. /\ duty' \in Tpo /\ duty'.cycle = CycleMs /\ duty'.travel = TravelMs
      /\ duty'.elapsed = duty.elapsed + dt /\ duty'.openMs = duty.openMs
      /\ duty'.credit = duty.credit /\ duty'.started = TRUE
      /\ duty'.open <=> duty.elapsed + dt < duty.openMs
  <2>1. PICK b \in BOOLEAN : b <=> seen.elapsed < seen.openMs OBVIOUS
  <2>2. duty' = [seen EXCEPT !.open = b]
    BY <2>1, <1>3
  <2>3. Is(duty', seen, seen.started, seen.elapsed, seen.openMs, seen.credit, b)
    <3>1. seen \in Tpo BY <1>1 DEF Is
    <3>2. Is([seen EXCEPT !.open = b], seen, seen.started, seen.elapsed, seen.openMs,
             seen.credit, b)
      BY <3>1, OpenSet
    <3> QED BY <2>2, <3>2
  <2> QED BY <2>1, <2>3, <1>1, <1>2 DEF DutyIInv, DutyTypeOK, Is
<1>5. DutyTypeOK'
  <2>1. openFor' \in Nat
    BY <1>1 DEF DutyIInv, DutyTypeOK
  <2>2. duty'.elapsed < CycleMs + MaxStep
    BY <1>1, <1>2, <1>4 DEF Tpo
  <2>3. held' \in Demands /\ fresh' \in BOOLEAN /\ owed' \in Int
    BY DEF DutyIInv, DutyTypeOK
  <2> QED BY <2>1, <2>2, <2>3, <1>4 DEF DutyTypeOK
<1>6. FullStrokes' /\ CreditBelowStroke' /\ CreditFollowsOwed'
  BY <1>4 DEF DutyIInv, FullStrokes, CreditBelowStroke, CreditFollowsOwed
<1>7. /\ duty.elapsed \in Nat /\ duty.openMs \in Nat /\ openFor \in Nat /\ dt \in 1 .. MaxStep
      /\ MaxStep \in Nat \ {0} /\ duty.openMs <= CycleMs
      /\ duty.open <=> duty.elapsed < duty.openMs
      /\ duty.open => openFor = duty.elapsed
      /\ openFor <= duty.openMs + MaxStep - 1
      /\ ~duty.open => openFor >= duty.openMs
  BY <1>1, <1>2 DEF DutyIInv, DutyTypeOK, OpenTimeCounted, OpenTimeDelivered, Tpo
<1>8. OpenTimeCounted'
  <2>1. duty'.open => duty.open /\ openFor' = duty'.elapsed
    BY <1>4, <1>7
  <2> QED BY <2>1, <1>4, <1>7 DEF OpenTimeCounted
<1>9. OpenTimeDelivered'
  <2>1. CASE duty.open
    <3>1. openFor' = duty.elapsed + dt BY <2>1, <1>7
    <3> QED BY <3>1, <2>1, <1>4, <1>7 DEF OpenTimeDelivered
  <2>2. CASE ~duty.open
    <3>1. openFor' = openFor BY <2>2
    <3> QED BY <3>1, <2>2, <1>4, <1>7 DEF OpenTimeDelivered
  <2> QED BY <2>1, <2>2
<1> QED BY <1>5, <1>6, <1>8, <1>9 DEF DutyIInv

\* A call that begins a cycle.
LEMMA DutyNewCycle ==
    ASSUME DutyIInv, NEW dt \in 1 .. MaxStep,
           CycleDue([duty EXCEPT !.elapsed = @ + dt]),
           duty' = Update([duty EXCEPT !.elapsed = @ + dt], held), held' = held,
           owed' = owed + held - duty'.openMs, fresh' = FALSE, openFor' = 0
    PROVE  DutyIInv'
<1> DEFINE seen == [duty EXCEPT !.elapsed = @ + dt]
           u == BeginCycle(seen, held)
<1> USE TimingAssumption DEF TimingValid
<1>1. /\ seen \in Tpo /\ seen.cycle = CycleMs /\ seen.travel = TravelMs
      /\ seen.credit = duty.credit /\ held \in Demands
  <2>1. dt \in Nat /\ duty \in Tpo
    BY DEF DutyIInv, DutyTypeOK
  <2> QED BY <2>1, ElapsedSet DEF DutyIInv, DutyTypeOK, Is
<1>2. 0 - TravelMs < seen.credit /\ seen.credit < TravelMs
  BY <1>1 DEF DutyIInv, CreditBelowStroke
<1>3. duty' = [u EXCEPT !.open = u.elapsed < u.openMs]
  BY <1>1, UpdateBeginsCycle
<1>4. /\ u \in Tpo /\ u.cycle = CycleMs /\ u.travel = TravelMs
      /\ u.started = TRUE /\ u.elapsed = 0 /\ u.openMs \in 0 .. CycleMs
      /\ u.openMs = 0 \/ u.openMs >= TravelMs
      /\ CycleMs - u.openMs = 0 \/ CycleMs - u.openMs >= TravelMs
      /\ 0 - TravelMs < u.credit /\ u.credit < TravelMs
      /\ held = 0 => u.openMs = 0 /\ u.credit = 0
      /\ held # 0 /\ duty.credit + held <= CycleMs => u.credit + u.openMs = duty.credit + held
      /\ held # 0 /\ duty.credit + held > CycleMs => u.credit = 0 /\ u.openMs = CycleMs
      /\ u.credit + held <= CycleMs
  <2>1. Begun(u, seen.credit, held)
    BY <1>1, <1>2, BeginCycleSpends
  <2> QED BY <2>1, <1>1 DEF Begun
<1> HIDE DEF u
<1>5. /\ duty' \in Tpo /\ duty'.cycle = CycleMs /\ duty'.travel = TravelMs
      /\ duty'.started = TRUE /\ duty'.elapsed = 0 /\ duty'.openMs = u.openMs
      /\ duty'.credit = u.credit
      /\ duty'.open <=> 0 < u.openMs
  <2>1. PICK b \in BOOLEAN : b <=> u.elapsed < u.openMs OBVIOUS
  <2>2. duty' = [u EXCEPT !.open = b]
    BY <2>1, <1>3
  <2>3. Is(duty', u, u.started, u.elapsed, u.openMs, u.credit, b)
    BY <2>2, <1>4, OpenSet
  <2> QED BY <2>1, <2>3, <1>4 DEF Is
<1>6. /\ owed \in Int /\ duty.credit \in Int /\ u.credit \in Int /\ u.openMs \in Int
      /\ held \in Demands /\ held \in 0 .. CycleMs
  BY <1>1, <1>4 DEF DutyIInv, DutyTypeOK, Tpo, Demands
<1>7. DutyTypeOK'
  <2>1. duty'.elapsed < CycleMs + MaxStep
    BY <1>5
  <2>2. held' \in Demands
    BY <1>6
  <2>3. fresh' \in BOOLEAN /\ openFor' \in Nat
    BY Zenon, Zero
  <2>4. owed' \in Int
    <3>1. owed' = owed + held - u.openMs
      BY <1>5
    <3> QED BY <3>1, <1>6
  <2> QED BY <2>1, <2>2, <2>3, <2>4, <1>5 DEF DutyTypeOK
<1>8. FullStrokes' /\ CreditBelowStroke'
  BY <1>4, <1>5 DEF FullStrokes, CreditBelowStroke
<1>9. CreditFollowsOwed'
  <2>1. 0 - TravelMs < owed - duty.credit /\ owed - duty.credit < TravelMs
    BY DEF DutyIInv, CreditFollowsOwed
  <2>2. /\ fresh => owed = 0
        /\ ~fresh => duty.credit + held <= CycleMs /\ (held = 0 => duty.credit = 0)
    BY DEF DutyIInv, CreditFollowsOwed
  <2>3. fresh \in BOOLEAN /\ 0 - TravelMs < duty.credit /\ duty.credit < TravelMs
    BY DEF DutyIInv, DutyTypeOK, CreditBelowStroke
  <2>4. 0 - TravelMs < owed' - u.credit /\ owed' - u.credit < TravelMs
    <3>1. CASE held = 0
      BY <3>1, <2>1, <2>2, <2>3, <1>4, <1>5, <1>6
    <3>2. CASE held # 0 /\ duty.credit + held <= CycleMs
      BY <3>2, <2>1, <1>4, <1>5, <1>6
    <3>3. CASE held # 0 /\ duty.credit + held > CycleMs
      BY <3>3, <2>2, <2>3, <1>4, <1>5, <1>6
    <3> QED BY <3>1, <3>2, <3>3, <1>6
  <2> QED BY <2>4, <1>4, <1>5 DEF CreditFollowsOwed
<1>10. OpenTimeCounted'
  <2>1. duty'.open <=> duty'.elapsed < duty'.openMs
    BY <1>5
  <2> QED BY <2>1, <1>4, <1>5 DEF OpenTimeCounted
<1>11. OpenTimeDelivered'
  <2>1. ~duty'.open => 0 >= duty'.openMs
    BY <1>5, <1>6
  <2> QED BY <2>1, <1>4, <1>5 DEF OpenTimeDelivered
<1> QED BY <1>7, <1>8, <1>9, <1>10, <1>11 DEF DutyIInv

LEMMA DutyTick == DutyIInv /\ Tick => DutyIInv'
<1> SUFFICES ASSUME DutyIInv, Tick PROVE DutyIInv' OBVIOUS
<1>1. PICK dt \in 1 .. MaxStep :
        LET seen == [duty EXCEPT !.elapsed = @ + dt]
            next == Update(seen, held)
        IN  /\ duty' = next
            /\ held' = held
            /\ IF CycleDue(seen)
               THEN owed' = owed + held - next.openMs /\ fresh' = FALSE /\ openFor' = 0
               ELSE /\ openFor' = IF duty.open THEN openFor + dt ELSE openFor
                    /\ UNCHANGED <<owed, fresh>>
  BY DEF Tick
<1>2. CASE CycleDue([duty EXCEPT !.elapsed = @ + dt])
  BY <1>1, <1>2, DutyNewCycle
<1>3. CASE ~CycleDue([duty EXCEPT !.elapsed = @ + dt])
  BY <1>1, <1>3, DutyMidCycle
<1> QED BY <1>2, <1>3

\* The inductive invariant holds for every valid timing and every lateness.
THEOREM DutyInvariance == DutySpec => []DutyIInv
<1>1. DutyIInv /\ [DutyNext]_dutyVars => DutyIInv'
  <2> SUFFICES ASSUME DutyIInv, [DutyNext]_dutyVars PROVE DutyIInv' OBVIOUS
  <2>1. CASE Demand BY <2>1, DutyDemand
  <2>2. CASE Tick BY <2>2, DutyTick
  <2>3. CASE Forget BY <2>3, DutyForget
  <2>4. CASE UNCHANGED dutyVars
    BY <2>4 DEF dutyVars, DutyIInv, DutyTypeOK, FullStrokes, CreditBelowStroke, CreditFollowsOwed,
         OpenTimeCounted, OpenTimeDelivered
  <2> QED BY <2>1, <2>2, <2>3, <2>4 DEF DutyNext
<1> QED BY DutyInitInv, <1>1, PTL DEF DutySpec

\* Type correctness.
THEOREM DutyTypeCorrect == DutySpec => []DutyTypeOK
BY DutyInvariance, PTL DEF DutyIInv

\* No cycle of any legal timing asks the valve for part of a stroke (beginCycle()).
THEOREM NoPartialStroke == DutySpec => []FullStrokes
BY DutyInvariance, PTL DEF DutyIInv

\* The credit carried between cycles is less than a stroke, so the floor at a whole
\* cycle in beginCycle() is never reached.
THEOREM CreditIsBounded == DutySpec => []CreditBelowStroke
BY DutyInvariance, PTL DEF DutyIInv

\* The open time delivered tracks the demand within two strokes, however long it is
\* held: the point of carrying credit.
THEOREM AverageIsKept == DutySpec => []AverageTracksDemand
<1>1. DutyIInv => AverageTracksDemand
  BY TimingAssumption DEF DutyIInv, DutyTypeOK, Tpo, CreditBelowStroke, CreditFollowsOwed,
       AverageTracksDemand
<1> QED BY DutyInvariance, <1>1, PTL

\* A closed cycle was open for its latched time, within the lateness of one tick.
THEOREM OpenTimeIsDelivered == DutySpec => []OpenTimeDelivered
BY DutyInvariance, PTL DEF DutyIInv

\* A duty once latched waits for its cycle to end or for reset().
THEOREM DutyIsLatched == DutySpec => DutyLatched
<1> DEFINE Kept == duty'.openMs # duty.openMs =>
                    \/ ~duty.started
                    \/ ~duty'.started
                    \/ duty'.elapsed = 0 /\ duty.elapsed + MaxStep >= CycleMs
<1>1. DutyIInv /\ [DutyNext]_dutyVars => [Kept]_dutyVars
  <2> SUFFICES ASSUME DutyIInv, DutyNext PROVE Kept OBVIOUS
  <2>1. CASE Demand BY <2>1 DEF Demand
  <2>2. CASE Forget
    <3>1. duty'.started = FALSE BY <2>2 DEF Forget, Reset, DutyIInv, DutyTypeOK, Tpo
    <3> QED BY <3>1
  <2>3. CASE Tick
    <3>1. PICK dt \in 1 .. MaxStep : duty' = Update([duty EXCEPT !.elapsed = @ + dt], held)
      BY <2>3 DEF Tick
    <3> DEFINE seen == [duty EXCEPT !.elapsed = @ + dt]
    <3>2. /\ seen \in Tpo /\ seen.elapsed = duty.elapsed + dt /\ seen.openMs = duty.openMs
          /\ seen.started = duty.started /\ seen.cycle = CycleMs /\ seen.travel = TravelMs
          /\ seen.credit = duty.credit /\ held \in Demands
      BY TimingAssumption DEF DutyIInv, DutyTypeOK, Tpo
    <3>3. CASE CycleDue(seen) /\ duty.started
      <4>1. BeginCycle(seen, held) \in Tpo /\ BeginCycle(seen, held).elapsed = 0
        BY <3>2, BeginCycleSpends DEF DutyIInv, CreditBelowStroke, Begun
      <4>2. duty'.elapsed = 0
        BY <4>1, <3>1, <3>2, <3>3, UpdateBeginsCycle DEF Tpo
      <4>3. duty.elapsed + MaxStep >= CycleMs
        BY <3>2, <3>3, TimingAssumption DEF CycleDue, DutyIInv, DutyTypeOK, Tpo
      <4> QED BY <4>2, <4>3
    <3>4. CASE ~CycleDue(seen)
      <4>1. duty' = [seen EXCEPT !.open = seen.elapsed < seen.openMs]
        BY <3>1, <3>2, <3>4, UpdateKeepsCycle
      <4> QED BY <4>1, <3>2 DEF Tpo
    <3> QED BY <3>3, <3>4
  <2> QED BY <2>1, <2>2, <2>3 DEF DutyNext
<1> QED BY DutyInvariance, <1>1, PTL DEF DutySpec, DutyLatched
=============================================================================
