------------------------- MODULE SensorMonitorProofs -------------------------
(***************************************************************************)
(* Proofs about the two things the Sensor Monitor task runs: the control   *)
(* loop (TemperatureController), for any readings, limits, gains and       *)
(* intervals and any interleaving of requests with the steps of an update, *)
(* and the read cycle (SensorController), for any sensors, drivers,        *)
(* intervals and thresholds and any failure of devices and bus.            *)
(***************************************************************************)
EXTENDS TemperatureController, SensorController, WellFoundedInduction, TLAPS

LEMMA Constants ==
    /\ Temps \subseteq Int /\ Limits \subseteq Int /\ Hyst \in Nat
    /\ Intervals \subseteq Nat \ {0} /\ MaxStep \in Nat \ {0}
    /\ Temps # {} /\ Limits # {} /\ Gains # {}
BY ControllerAssumption

LEMMA Longest ==
    /\ MaxInterval \in Intervals /\ MaxInterval \in Nat
    /\ \A i \in Intervals : i <= MaxInterval
<1>1. \E longest \in Intervals : \A i \in Intervals : i <= longest
  BY ControllerAssumption
<1>2. MaxInterval \in Intervals /\ \A i \in Intervals : i <= MaxInterval
  BY <1>1 DEF MaxInterval
<1> QED BY <1>2, Constants

LEMMA PostedAreTunings ==
    /\ Posted \subseteq Tunings
    /\ \A g \in Posted : g.kp = g.ki /\ g.kp \in Gains
    /\ Posted # {}
<1>1. ASSUME NEW t \in Posted PROVE t \in Tunings /\ t.kp = t.ki /\ t.kp \in Gains
  BY DEF Posted, Tunings
<1>2. PICK g \in Gains : TRUE BY Constants
<1>3. [kp |-> g, ki |-> g] \in Posted BY DEF Posted
<1> QED BY <1>1, <1>3

LEMMA Defaults ==
    /\ NoPost \in Posting /\ NoSnap \in Config /\ NoGain \in Gains
    /\ NoPost.gains \in Posted /\ NoSnap.gains = NoPost.gains
    /\ (CHOOSE t \in Temps : TRUE) \in Temps
<1>1. (CHOOSE g \in Posted : TRUE) \in Posted BY PostedAreTunings
<1>2. (CHOOSE i \in Intervals : TRUE) \in Intervals BY Longest
<1>3. (CHOOSE l \in Limits : TRUE) \in Limits BY Constants
<1>4. FALSE \in BOOLEAN OBVIOUS
<1>5. NoPost \in Posting /\ NoPost.gains \in Posted /\ NoPost.interval \in Intervals
  BY <1>1, <1>2, <1>4 DEF NoPost, Posting
<1>6. NoSnap \in Config /\ NoSnap.gains = NoPost.gains
  <2>1. NoPost.gains \in Tunings BY <1>5, PostedAreTunings
  <2> HIDE DEF NoPost
  <2> QED BY <1>3, <1>4, <1>5, <2>1 DEF NoSnap, Config
<1>7. NoGain \in Gains BY Constants DEF NoGain
<1> QED BY <1>5, <1>6, <1>7, Constants

\* A well-formed run, and what each call makes of it.
WellFormed(r) ==
    /\ r \in Run
    /\ r.on => Active(r)
    /\ r.reason = "None" <=> r.state # "Aborted"

LEMMA Runs ==
    /\ WellFormed(NoRun) /\ WellFormed(Started)
    /\ \A r : WellFormed(r) => WellFormed(Cancelled(r)) /\ ~Active(Cancelled(r))
    /\ \A r, valid : WellFormed(r) => \A s \in Updates(r, valid) : WellFormed(s)
<1>1. WellFormed(NoRun) /\ WellFormed(Started) /\ WellFormed(Finished)
  BY DEF WellFormed, NoRun, Started, Finished, Run, Active, AbortReasons, Breaches
<1>2. \A why \in AbortReasons : WellFormed(Aborted(why)) /\ ~Active(Aborted(why))
  BY DEF WellFormed, Aborted, Run, Active, AbortReasons, Breaches
<1>3. \A r : WellFormed(r) => WellFormed(Cancelled(r)) /\ ~Active(Cancelled(r))
  BY <1>2 DEF Cancelled, AbortReasons
<1>4. ASSUME NEW r, NEW valid, WellFormed(r), NEW s \in Updates(r, valid)
      PROVE  WellFormed(s)
  <2>1. CASE ~Active(r) BY <1>4, <2>1 DEF Updates
  <2>2. CASE Active(r) /\ ~valid BY <1>2, <1>4, <2>2 DEF Updates, AbortReasons
  <2>3. CASE Active(r) /\ valid
    <3>1. CASE s \in {[r EXCEPT !.on = on] : on \in BOOLEAN}
      BY <1>4, <2>3, <3>1 DEF WellFormed, Active, Run
    <3>2. CASE s \in {Aborted(why) : why \in Breaches} \cup {Finished}
      BY <1>1, <1>2, <3>2 DEF AbortReasons
    <3> QED BY <1>4, <2>3, <3>1, <3>2 DEF Updates
  <2> QED BY <2>1, <2>2, <2>3
<1> QED BY <1>1, <1>3, <1>4

LEMMA AgedBound ==
    ASSUME NEW age \in Nat, NEW dt \in Nat, NEW limit \in Nat
    PROVE  /\ Aged(age, dt, limit) \in Nat
           /\ Aged(age, dt, limit) = IF age + dt > limit THEN limit ELSE age + dt
BY DEF Aged

-----------------------------------------------------------------------------
(* Types                                                                    *)

\* TypeOK, cut along the tuples of variables.
SettingsTyped == cfg \in Config /\ stored \in Tunings /\ posting \in Posting
RequestsTyped ==
    /\ pending \in Posted
    /\ gainsFlag \in BOOLEAN /\ startFlag \in BOOLEAN /\ cancelFlag \in BOOLEAN
LocalsTyped ==
    /\ pc \in {"idle", "snapshot", "gains", "adopt", "latch", "cancel", "start", "drive"}
    /\ reading \in Readings /\ snap \in Config /\ firstGain \in Gains
LoopTyped ==
    /\ inputValid \in BOOLEAN /\ shutoff \in BOOLEAN /\ demand \in BOOLEAN
    /\ gains \in Tunings /\ running \in BOOLEAN /\ sinceCompute \in Nat /\ pidAge \in Nat
    /\ WellFormed(run)
HistoryTyped ==
    /\ finished \in Verdict /\ unbroken \in BOOLEAN /\ held \in Holding
    /\ stopAsked \in BOOLEAN /\ revoked \in 0 .. 3

LEMMA TypeParts ==
    /\ TypeOK <=> SettingsTyped /\ RequestsTyped /\ LocalsTyped /\ LoopTyped /\ HistoryTyped
    /\ TypeOK' <=> SettingsTyped' /\ RequestsTyped' /\ LocalsTyped' /\ LoopTyped' /\ HistoryTyped'
BY DEF TypeOK, SettingsTyped, RequestsTyped, LocalsTyped, LoopTyped, HistoryTyped, WellFormed

LEMMA PartsKept ==
    /\ SettingsTyped /\ UNCHANGED settings => SettingsTyped'
    /\ RequestsTyped /\ UNCHANGED requests => RequestsTyped'
    /\ LocalsTyped /\ UNCHANGED locals => LocalsTyped'
    /\ LoopTyped /\ UNCHANGED loop => LoopTyped'
    /\ HistoryTyped /\ UNCHANGED history => HistoryTyped'
BY DEF settings, requests, locals, loop, history, SettingsTyped, RequestsTyped, LocalsTyped,
       LoopTyped, HistoryTyped, WellFormed, Active

LEMMA ReturnTyped ==
    ASSUME LocalsTyped, Return
    PROVE  reading' \in Readings /\ snap' \in Config /\ finished' \in Verdict /\ pc' = "idle"
<1>1. reading' \in Readings
  <2>1. PICK t \in Temps : t = CHOOSE x \in Temps : TRUE BY Defaults
  <2>2. reading' = [reading EXCEPT !.valid = FALSE, !.temp = t] BY <2>1 DEF Return
  <2>3. reading \in Readings /\ FALSE \in BOOLEAN BY DEF LocalsTyped
  <2> HIDE <2>1
  <2> QED BY <2>2, <2>3 DEF Readings
<1>2. finished' \in Verdict
  <2>1. reading.valid \in BOOLEAN /\ (reading.temp > snap.limit) \in BOOLEAN
    BY DEF LocalsTyped, Readings
  <2> QED BY <2>1 DEF Return, Verdict
<1> QED BY <1>1, <1>2, Defaults DEF Return

LEMMA TornTyped ==
    ASSUME RequestsTyped, LocalsTyped
    PROVE  [kp |-> firstGain, ki |-> pending.ki] \in Tunings
<1>1. pending.ki \in Gains BY PostedAreTunings DEF RequestsTyped
<1> QED BY <1>1 DEF LocalsTyped, Tunings

LEMMA InitTyped == Init => TypeOK
<1> SUFFICES ASSUME Init PROVE TypeOK OBVIOUS
<1>1. cfg \in Config /\ cfg.gains \in Posted /\ cfg.gains \in Tunings
  BY PostedAreTunings DEF Init, Config
<1>2. SettingsTyped BY <1>1, Defaults DEF Init, SettingsTyped
<1>3. RequestsTyped BY Defaults DEF Init, RequestsTyped
<1>4. LocalsTyped
  <2>1. FALSE \in BOOLEAN OBVIOUS
  <2>2. reading \in Readings BY <2>1, Defaults DEF Init, Readings
  <2> QED BY <2>2, Defaults DEF Init, LocalsTyped
<1>5. LoopTyped BY <1>1, Runs DEF Init, LoopTyped
<1>6. HistoryTyped
  <2>1. FALSE \in BOOLEAN /\ 0 \in Nat /\ 0 \in 0 .. 3 OBVIOUS
  <2>2. finished \in Verdict BY <2>1 DEF Init, Verdict
  <2>3. held \in Holding
    <3>1. PICK no \in BOOLEAN : no = FALSE BY <2>1
    <3>2. held = [age |-> 0, regained |-> no] BY <3>1 DEF Init
    <3> HIDE <3>1
    <3> QED BY <2>1, <3>2 DEF Holding
  <2> QED BY <2>1, <2>2, <2>3 DEF Init, HistoryTyped
<1> QED BY <1>2, <1>3, <1>4, <1>5, <1>6, TypeParts

\* The requests touch the settings, the flags and what is remembered of the user.
LEMMA RequestsKeepTypes ==
    ASSUME TypeOK, \/ SetEnabled \/ SetLimit \/ PostTuning \/ Accept \/ PublishGains
                   \/ RequestAutotuneStart \/ RequestAutotuneCancel
    PROVE  TypeOK'
<1>1. SettingsTyped /\ RequestsTyped /\ LocalsTyped /\ LoopTyped /\ HistoryTyped
  BY TypeParts
<1>2. cfg \in Config /\ stored \in Tunings /\ posting \in Posting BY <1>1 DEF SettingsTyped
<1>3. CASE SetEnabled
  <2>1. cfg' \in Config BY <1>2, <1>3 DEF SetEnabled, Config
  <2>2. stopAsked' \in BOOLEAN /\ UNCHANGED <<stored, posting, requests, locals, loop, finished,
                                              unbroken, held, revoked>>
    BY <1>1, <1>3 DEF SetEnabled, HistoryTyped
  <2>3. SettingsTyped' BY <1>2, <2>1, <2>2 DEF SettingsTyped
  <2>4. HistoryTyped' BY <1>1, <2>2 DEF HistoryTyped
  <2> QED BY <1>1, <2>2, <2>3, <2>4, PartsKept, TypeParts
<1>4. CASE SetLimit
  <2>1. cfg' \in Config BY <1>2, <1>4 DEF SetLimit, Config
  <2>2. UNCHANGED <<stored, posting, requests, locals, loop, history>> BY <1>4 DEF SetLimit
  <2>3. SettingsTyped' BY <1>2, <2>1, <2>2 DEF SettingsTyped
  <2> QED BY <1>1, <2>2, <2>3, PartsKept, TypeParts
<1>5. CASE PostTuning \/ Accept
  <2>1. PICK g \in Posted, i \in Intervals : Persist(g, i)
    BY <1>2, <1>5 DEF PostTuning, Accept, Config
  <2>2. posting' \in Posting
    <3>1. TRUE \in BOOLEAN OBVIOUS
    <3> QED BY <2>1, <3>1 DEF Persist, Posting
  <2>3. stored' \in Tunings BY <1>2, <2>1, PostedAreTunings DEF Persist
  <2>4. UNCHANGED <<cfg, requests, locals, loop, history>> BY <2>1 DEF Persist
  <2>5. SettingsTyped' BY <1>2, <2>2, <2>3, <2>4 DEF SettingsTyped
  <2> QED BY <1>1, <2>4, <2>5, PartsKept, TypeParts
<1>6. CASE PublishGains
  <2>1. posting.gains \in Posted /\ posting.gains \in Tunings /\ posting.interval \in Intervals
    BY <1>2, PostedAreTunings DEF Posting
  <2>2. cfg' \in Config BY <1>2, <1>6, <2>1 DEF PublishGains, Config
  <2>3. UNCHANGED <<stored, startFlag, cancelFlag, locals, loop, history>> /\ posting' = NoPost
        /\ pending' \in Posted /\ gainsFlag' \in BOOLEAN
    BY <1>6, <2>1 DEF PublishGains
  <2>4. SettingsTyped' BY <1>2, <2>2, <2>3, Defaults DEF SettingsTyped
  <2>5. RequestsTyped' BY <1>1, <2>3 DEF RequestsTyped
  <2> QED BY <1>1, <2>3, <2>4, <2>5, PartsKept, TypeParts
<1>7. CASE RequestAutotuneStart \/ RequestAutotuneCancel
  <2>1. /\ startFlag' \in BOOLEAN /\ cancelFlag' \in BOOLEAN /\ stopAsked' \in BOOLEAN
        /\ revoked' \in 0 .. 3
        /\ UNCHANGED <<settings, pending, gainsFlag, locals, loop, finished, unbroken, held>>
    <3>1. /\ startFlag \in BOOLEAN /\ cancelFlag \in BOOLEAN /\ stopAsked \in BOOLEAN
          /\ TRUE \in BOOLEAN /\ 0 \in 0 .. 3 /\ 1 \in 0 .. 3
      BY <1>1 DEF RequestsTyped, HistoryTyped
    <3>2. CASE RequestAutotuneStart BY <3>1, <3>2 DEF RequestAutotuneStart
    <3>3. CASE RequestAutotuneCancel BY <3>1, <3>3 DEF RequestAutotuneCancel
    <3> QED BY <1>7, <3>2, <3>3
  <2>2. RequestsTyped' BY <1>1, <2>1 DEF RequestsTyped
  <2>3. HistoryTyped' BY <1>1, <2>1 DEF HistoryTyped
  <2> QED BY <1>1, <2>1, <2>2, <2>3, PartsKept, TypeParts
<1> QED BY <1>3, <1>4, <1>5, <1>6, <1>7

\* The steps before the update returns.
LEMMA StepsKeepTypes ==
    ASSUME TypeOK, \/ Begin \/ TakeSnapshot \/ TakeGains \/ AdoptGains \/ StayOn
                   \/ TakeCancel \/ TakeStart
    PROVE  TypeOK'
<1>1. SettingsTyped /\ RequestsTyped /\ LocalsTyped /\ LoopTyped /\ HistoryTyped
  BY TypeParts
<1>2. CASE Begin
  <2>1. PICK dt \in 1 .. MaxStep :
          /\ sinceCompute' = Aged(sinceCompute, dt, MaxInterval)
          /\ pidAge' = IF running THEN Aged(pidAge, dt, MaxInterval + MaxStep) ELSE 0
          /\ held' = [held EXCEPT !.age = IF demand THEN Aged(@, dt, MaxInterval + MaxStep) ELSE 0]
    BY <1>2 DEF Begin
  <2>2. dt \in Nat /\ MaxInterval \in Nat /\ MaxInterval + MaxStep \in Nat
    BY Constants, Longest
  <2>3. sinceCompute \in Nat /\ pidAge \in Nat /\ held \in Holding /\ held.age \in Nat
    BY <1>1 DEF LoopTyped, HistoryTyped, Holding
  <2>4. sinceCompute' \in Nat BY <2>1, <2>2, <2>3, AgedBound
  <2>5. pidAge' \in Nat
    <3>1. Aged(pidAge, dt, MaxInterval + MaxStep) \in Nat BY <2>2, <2>3, AgedBound
    <3> QED BY <2>1, <3>1
  <2>6. held' \in Holding
    <3>1. Aged(held.age, dt, MaxInterval + MaxStep) \in Nat BY <2>2, <2>3, AgedBound
    <3>2. PICK a \in Nat : a = IF demand THEN Aged(held.age, dt, MaxInterval + MaxStep) ELSE 0
      BY <3>1
    <3>3. held' = [held EXCEPT !.age = a] BY <2>1, <3>2
    <3> HIDE <3>2
    <3> QED BY <2>3, <3>3 DEF Holding
  <2>7. reading' \in Readings /\ inputValid' \in BOOLEAN
    BY <1>2 DEF Begin, Readings
  <2>8. /\ pc' = "snapshot" /\ revoked' \in 0 .. 3
        /\ UNCHANGED <<settings, requests, snap, firstGain, shutoff, demand, gains, running, run,
                       finished, unbroken, stopAsked>>
    BY <1>1, <1>2 DEF Begin, HistoryTyped
  <2>9. LocalsTyped' BY <1>1, <2>7, <2>8 DEF LocalsTyped
  <2>10. LoopTyped' BY <1>1, <2>4, <2>5, <2>7, <2>8 DEF LoopTyped, WellFormed, Active
  <2>11. HistoryTyped' BY <1>1, <2>6, <2>8 DEF HistoryTyped
  <2> QED BY <1>1, <2>8, <2>9, <2>10, <2>11, PartsKept, TypeParts
<1>3. CASE TakeSnapshot
  <2>1. snap' \in Config
    <3>1. NoSnap.gains \in Tunings /\ cfg \in Config
      BY <1>1, Defaults, PostedAreTunings DEF SettingsTyped
    <3>2. PICK t \in Tunings : t = NoSnap.gains BY <3>1
    <3>3. snap' = [cfg EXCEPT !.gains = t] BY <1>3, <3>2 DEF TakeSnapshot
    <3> HIDE <3>2
    <3> QED BY <3>1, <3>3 DEF Config
  <2>2. pc' = "gains" /\ UNCHANGED <<settings, requests, reading, firstGain, loop, history>>
    BY <1>3 DEF TakeSnapshot
  <2>3. LocalsTyped' BY <1>1, <2>1, <2>2 DEF LocalsTyped
  <2> QED BY <1>1, <2>2, <2>3, PartsKept, TypeParts
<1>4. CASE TakeGains
  <2>1. firstGain' \in Gains
    <3>1. firstGain \in Gains /\ pending.kp \in Gains
      BY <1>1, PostedAreTunings DEF LocalsTyped, RequestsTyped
    <3> QED BY <1>4, <3>1 DEF TakeGains
  <2>2. /\ pc' \in {"adopt", "latch"} /\ gainsFlag' \in BOOLEAN
        /\ UNCHANGED <<settings, pending, startFlag, cancelFlag, reading, snap, loop, history>>
    BY <1>4 DEF TakeGains
  <2>3. LocalsTyped' BY <1>1, <2>1, <2>2 DEF LocalsTyped
  <2>4. RequestsTyped' BY <1>1, <2>2 DEF RequestsTyped
  <2> QED BY <1>1, <2>2, <2>3, <2>4, PartsKept, TypeParts
<1>5. CASE AdoptGains
  <2>1. gains' \in Tunings
    BY <1>1, <1>5, TornTyped DEF AdoptGains, SetGains
  <2>2. running' \in BOOLEAN /\ sinceCompute' = 0 /\ pidAge' = 0 /\ unbroken' \in BOOLEAN
    BY <1>5 DEF AdoptGains, SetGains, SuspendPid
  <2>3. /\ pc' = "latch" /\ firstGain' = NoGain
        /\ UNCHANGED <<settings, requests, reading, snap, inputValid, shutoff, demand, run, finished,
                       stopAsked, revoked>>
    BY <1>5 DEF AdoptGains
  <2>4. held' \in Holding
    BY <1>1, <1>5 DEF AdoptGains, HistoryTyped, LoopTyped, Holding
  <2>5. LocalsTyped' BY <1>1, <2>3, Defaults DEF LocalsTyped
  <2>6. LoopTyped' BY <1>1, <2>1, <2>2, <2>3 DEF LoopTyped, WellFormed, Active
  <2>7. HistoryTyped' BY <1>1, <2>2, <2>3, <2>4 DEF HistoryTyped
  <2> QED BY <1>1, <2>3, <2>5, <2>6, <2>7, PartsKept, TypeParts
<1>6. CASE StayOn
  <2>1. /\ pc' = "cancel" /\ shutoff' \in BOOLEAN
        /\ UNCHANGED <<settings, requests, reading, snap, firstGain, inputValid, demand, gains,
                       running, sinceCompute, pidAge, run, history>>
    BY <1>6 DEF StayOn
  <2>2. LocalsTyped' BY <1>1, <2>1 DEF LocalsTyped
  <2>3. LoopTyped' BY <1>1, <2>1 DEF LoopTyped, WellFormed, Active
  <2> QED BY <1>1, <2>1, <2>2, <2>3, PartsKept, TypeParts
<1>7. CASE TakeCancel
  <2>1. WellFormed(run') BY <1>1, <1>7, Runs DEF TakeCancel, LoopTyped
  <2>2. /\ pc' = "start" /\ cancelFlag' \in BOOLEAN
        /\ UNCHANGED <<settings, pending, gainsFlag, startFlag, reading, snap, firstGain, inputValid,
                       shutoff, demand, gains, running, sinceCompute, pidAge, history>>
    BY <1>7 DEF TakeCancel
  <2>3. LocalsTyped' BY <1>1, <2>2 DEF LocalsTyped
  <2>4. LoopTyped' BY <1>1, <2>1, <2>2 DEF LoopTyped, WellFormed, Active
  <2>5. RequestsTyped' BY <1>1, <2>2 DEF RequestsTyped
  <2> QED BY <1>1, <2>2, <2>3, <2>4, <2>5, PartsKept, TypeParts
<1>8. CASE TakeStart
  <2>1. WellFormed(run') BY <1>1, <1>8, Runs DEF TakeStart, LoopTyped
  <2>2. /\ pc' = "drive" /\ startFlag' \in BOOLEAN /\ stopAsked' \in BOOLEAN /\ revoked' \in 0 .. 3
        /\ UNCHANGED <<settings, pending, gainsFlag, cancelFlag, reading, snap, firstGain, inputValid,
                       shutoff, demand, gains, running, sinceCompute, pidAge, finished, unbroken,
                       held>>
    <3>1. stopAsked \in BOOLEAN /\ FALSE \in BOOLEAN /\ 0 \in 0 .. 3
          /\ (cancelFlag \/ ~cfg.enabled) \in BOOLEAN
      BY <1>1 DEF HistoryTyped
    <3>2. stopAsked' = stopAsked \/ stopAsked' = (cancelFlag \/ ~cfg.enabled)
      BY <1>8 DEF TakeStart
    <3> QED BY <1>8, <3>1, <3>2 DEF TakeStart
  <2>3. LocalsTyped' BY <1>1, <2>2 DEF LocalsTyped
  <2>4. LoopTyped' BY <1>1, <2>1, <2>2 DEF LoopTyped, WellFormed, Active
  <2>5. RequestsTyped' BY <1>1, <2>2 DEF RequestsTyped
  <2>6. HistoryTyped' BY <1>1, <2>2 DEF HistoryTyped
  <2> QED BY <1>1, <2>2, <2>3, <2>4, <2>5, <2>6, PartsKept, TypeParts
<1> QED BY <1>2, <1>3, <1>4, <1>5, <1>6, <1>7, <1>8

\* The ways it returns.
LEMMA ReturnsKeepTypes ==
    ASSUME TypeOK, ShutOff \/ RunDisabled \/ DriveRun \/ SkipTick \/ HoldDemand \/ Compute
    PROVE  TypeOK'
<1>1. SettingsTyped /\ RequestsTyped /\ LocalsTyped /\ LoopTyped /\ HistoryTyped
  BY TypeParts
<1>2. /\ Return
      /\ UNCHANGED <<settings, requests, firstGain, inputValid, gains, stopAsked, revoked>>
  BY DEF ShutOff, RunDisabled, DriveRun, SkipTick, HoldDemand, Compute, Skip, Deliver
<1>3. LocalsTyped' BY <1>1, <1>2, ReturnTyped DEF LocalsTyped
<1>4. WellFormed(run')
  <2>1. WellFormed(run) BY <1>1 DEF LoopTyped
  <2>2. run' = run \/ run' = Cancelled(run) \/ run' \in Updates(run, reading.valid)
    BY DEF ShutOff, RunDisabled, DriveRun, SkipTick, HoldDemand, Compute
  <2> QED BY <2>1, <2>2, Runs
<1>5. /\ shutoff' \in BOOLEAN /\ running' \in BOOLEAN /\ unbroken' \in BOOLEAN
      /\ sinceCompute' \in Nat /\ pidAge' \in Nat
  <2>1. /\ shutoff \in BOOLEAN /\ running \in BOOLEAN /\ unbroken \in BOOLEAN
        /\ sinceCompute \in Nat /\ pidAge \in Nat
    BY <1>1 DEF LoopTyped, HistoryTyped
  <2>2. shutoff' = shutoff \/ shutoff' = TRUE
    BY DEF ShutOff, RunDisabled, DriveRun, SkipTick, HoldDemand, Compute
  <2>3. unbroken' = unbroken \/ unbroken' = FALSE \/ unbroken' = TRUE
    BY DEF ShutOff, RunDisabled, DriveRun, SkipTick, HoldDemand, Compute, Skip
  <2>4. \/ UNCHANGED <<running, sinceCompute, pidAge>>
        \/ running' \in BOOLEAN /\ sinceCompute' = 0 /\ pidAge' = 0
    BY DEF ShutOff, RunDisabled, DriveRun, SkipTick, HoldDemand, Compute, Skip, SuspendPid
  <2>5. shutoff' \in BOOLEAN /\ unbroken' \in BOOLEAN BY <2>1, <2>2, <2>3
  <2>6. running' \in BOOLEAN BY <2>1, <2>4
  <2>7. sinceCompute' \in Nat /\ pidAge' \in Nat BY <2>1, <2>4
  <2> QED BY <2>5, <2>6, <2>7
<1>6. demand' \in BOOLEAN
  <2>1. demand \in BOOLEAN /\ (DriveRun => run'.on \in BOOLEAN)
    BY <1>1, <1>4 DEF LoopTyped, WellFormed, Run
  <2> QED BY <2>1 DEF ShutOff, RunDisabled, DriveRun, SkipTick, HoldDemand, Compute, Skip, Deliver
<1>7. held' \in Holding
  <2>1. held' = held \/ held' = [age |-> 0, regained |-> FALSE]
    BY DEF ShutOff, RunDisabled, DriveRun, SkipTick, HoldDemand, Compute, Skip, Deliver
  <2>2. PICK no \in BOOLEAN : no = FALSE OBVIOUS
  <2>3. held' = held \/ held' = [age |-> 0, regained |-> no] BY <2>1, <2>2
  <2> HIDE <2>2
  <2> QED BY <1>1, <2>3 DEF HistoryTyped, Holding
<1>8. finished' \in Verdict BY <1>1, <1>2, ReturnTyped
<1>9. LoopTyped' BY <1>1, <1>2, <1>4, <1>5, <1>6 DEF LoopTyped, WellFormed, Active
<1>10. HistoryTyped' BY <1>1, <1>2, <1>5, <1>7, <1>8 DEF HistoryTyped
<1> QED BY <1>1, <1>2, <1>3, <1>9, <1>10, PartsKept, TypeParts

\* Every reachable state is well typed: of a run too, whose relay is on only while it is
\* active and whose reason is set exactly when it was aborted.
THEOREM TypeCorrect == Spec => []TypeOK
<1>1. TypeOK /\ [Next]_vars => TypeOK'
  <2> SUFFICES ASSUME TypeOK, [Next]_vars PROVE TypeOK' OBVIOUS
  <2>1. CASE UNCHANGED vars
    <3>1. UNCHANGED settings /\ UNCHANGED requests /\ UNCHANGED locals /\ UNCHANGED loop
          /\ UNCHANGED history
      BY <2>1 DEF vars
    <3> QED BY <3>1, TypeParts, PartsKept
  <2> QED BY <2>1, RequestsKeepTypes, StepsKeepTypes, ReturnsKeepTypes DEF Next, UpdateStep
<1> QED BY <1>1, InitTyped, PTL DEF Spec

-----------------------------------------------------------------------------
(* The latch and the demand                                                 *)

\* A request changes nothing the latch is about.
LEMMA RequestsLeaveTheLoop ==
    ASSUME \/ SetEnabled \/ SetLimit \/ PostTuning \/ Accept \/ PublishGains
           \/ RequestAutotuneStart \/ RequestAutotuneCancel
    PROVE  UNCHANGED <<locals, loop, finished>>
BY DEF SetEnabled, SetLimit, PostTuning, Accept, Persist, PublishGains, RequestAutotuneStart,
       RequestAutotuneCancel, history

LEMMA HeatNext ==
    ASSUME TypeOK, HeatInv, [Next]_vars
    PROVE  HeatInv'
<1>1. CASE UNCHANGED <<locals, loop, finished>>
  BY <1>1 DEF HeatInv, PastTheLatch, ShutoffSilences, locals, loop, Active
<1>2. CASE Begin
  BY <1>2 DEF Begin, HeatInv, PastTheLatch, ShutoffSilences
<1>3. CASE TakeSnapshot \/ TakeGains \/ AdoptGains
  <2>1. /\ pc' \in {"gains", "adopt", "latch"} /\ pc # "idle"
        /\ UNCHANGED <<reading, inputValid, shutoff, demand, finished>>
    BY <1>3 DEF TakeSnapshot, TakeGains, AdoptGains, loop, history
  <2> QED BY <2>1 DEF HeatInv, PastTheLatch, ShutoffSilences
<1>4. CASE ShutOff
  <2>1. pc' = "idle" /\ demand' = FALSE /\ running' = FALSE /\ run' = Cancelled(run)
    BY <1>4 DEF ShutOff, Skip, SuspendPid, Deliver, Return
  <2>2. ~Active(run')
    <3>1. WellFormed(run) BY TypeParts DEF LoopTyped
    <3> QED BY <2>1, <3>1, Runs
  <2> QED BY <2>1, <2>2 DEF HeatInv, PastTheLatch, ShutoffSilences, Active
<1>5. CASE StayOn
  <2>1. reading.valid /\ ~(reading.temp > snap.limit)
    BY <1>5 DEF StayOn, ShutoffAfter
  <2> QED BY <1>5, <2>1 DEF StayOn, HeatInv, PastTheLatch, ShutoffSilences, history
<1>6. CASE TakeCancel \/ TakeStart
  <2>1. /\ pc \in {"cancel", "start"} /\ pc' \in {"start", "drive"}
        /\ UNCHANGED <<reading, snap, inputValid, shutoff, demand, finished>>
    BY <1>6 DEF TakeCancel, TakeStart, history
  <2> QED BY <2>1 DEF HeatInv, PastTheLatch, ShutoffSilences
<1>7. CASE RunDisabled \/ DriveRun \/ SkipTick \/ HoldDemand \/ Compute
  <2>1. pc = "drive" /\ Return /\ UNCHANGED <<inputValid, shutoff>>
    BY <1>7 DEF RunDisabled, DriveRun, SkipTick, HoldDemand, Compute, Skip, Deliver, Regulating
  <2>2. inputValid = reading.valid /\ ~shutoff /\ reading.valid /\ ~(reading.temp > snap.limit)
    BY <2>1 DEF HeatInv, PastTheLatch
  <2>3. finished' = [valid |-> reading.valid, hot |-> reading.temp > snap.limit] /\ pc' = "idle"
    BY <2>1 DEF Return
  <2>4. finished'.valid /\ ~finished'.hot BY <2>2, <2>3
  <2>5. ~shutoff' /\ inputValid' BY <2>1, <2>2
  <2> QED BY <2>3, <2>4, <2>5 DEF HeatInv, PastTheLatch, ShutoffSilences
<1> QED BY <1>1, <1>2, <1>3, <1>4, <1>5, <1>6, <1>7, RequestsLeaveTheLoop
        DEF Next, UpdateStep, vars, history

LEMMA HeatAlways == Spec => []HeatInv
<1>1. Init => HeatInv
  BY DEF Init, HeatInv, PastTheLatch, ShutoffSilences, Active, NoRun
<1>2. TypeOK /\ HeatInv /\ [Next]_vars => HeatInv' BY HeatNext
<1> QED BY <1>1, <1>2, TypeCorrect, PTL DEF Spec

\* Whenever the Network task looks, in the middle of an update too, heat is asked for and
\* permitted only on a usable reading not above its limit.
THEOREM HeatIsJustified == Spec => []HeatOnGoodReading
<1>1. HeatInv => HeatOnGoodReading BY DEF HeatInv, PastTheLatch, HeatOnGoodReading
<1> QED BY <1>1, HeatAlways, PTL

\* A shutoff or an unusable reading silences every source of a demand.
THEOREM ShutoffIsSilent == Spec => []ShutoffSilences
<1>1. HeatInv => ShutoffSilences BY DEF HeatInv
<1> QED BY <1>1, HeatAlways, PTL

-----------------------------------------------------------------------------
(* The hand-over of gains                                                   *)

LEMMA GainsNext ==
    ASSUME TypeOK, GainsInv, [Next]_vars
    PROVE  GainsInv'
<1>1. /\ pending \in Posted /\ pending.kp = pending.ki
      /\ pending = [kp |-> pending.kp, ki |-> pending.ki]
      /\ posting.gains \in Posted /\ posting.interval \in Intervals /\ cfg \in Config
  <2>1. pending \in Posted /\ posting \in Posting /\ cfg \in Config
    BY TypeParts DEF RequestsTyped, SettingsTyped
  <2>2. \A g \in Posted : g = [kp |-> g.kp, ki |-> g.ki] BY DEF Posted
  <2> QED BY <2>1, <2>2, PostedAreTunings DEF Posting
<1>2. CASE UNCHANGED vars
  BY <1>2 DEF vars, settings, requests, locals, loop, GainsInv, HandOver, TornIsIdle
<1>3. CASE SetEnabled \/ SetLimit
  <2>1. cfg'.gains = cfg.gains BY <1>1, <1>3 DEF SetEnabled, SetLimit, Config
  <2>2. UNCHANGED <<pending, gainsFlag, pc, firstGain, gains, sinceCompute>>
    BY <1>3 DEF SetEnabled, SetLimit, requests, locals, loop
  <2> QED BY <2>1, <2>2 DEF GainsInv, HandOver, TornIsIdle
<1>4. CASE PostTuning \/ Accept \/ RequestAutotuneStart \/ RequestAutotuneCancel
  <2>1. UNCHANGED <<cfg, pending, gainsFlag, pc, firstGain, gains, sinceCompute>>
    BY <1>4 DEF PostTuning, Accept, Persist, RequestAutotuneStart, RequestAutotuneCancel,
       settings, requests, locals, loop
  <2> QED BY <2>1 DEF GainsInv, HandOver, TornIsIdle
<1>5. CASE PublishGains
  <2>1. cfg'.gains = posting.gains /\ pending' = posting.gains /\ gainsFlag' = TRUE
        /\ UNCHANGED <<pc, firstGain, gains, sinceCompute>>
    BY <1>1, <1>5 DEF PublishGains, locals, loop, Config
  <2> QED BY <1>1, <2>1 DEF GainsInv, HandOver, TornIsIdle
<1>6. CASE Begin \/ TakeSnapshot
  <2>1. /\ pc \in {"idle", "snapshot"} /\ pc' \in {"snapshot", "gains"}
        /\ UNCHANGED <<cfg, pending, gainsFlag, firstGain, gains>>
    BY <1>6 DEF Begin, TakeSnapshot, settings, requests, loop
  <2> QED BY <2>1 DEF GainsInv, HandOver, TornIsIdle
<1>7. CASE TakeGains
  <2>1. CASE gainsFlag
    BY <1>7, <2>1 DEF TakeGains, settings, loop, GainsInv, HandOver, TornIsIdle
  <2>2. CASE ~gainsFlag
    BY <1>7, <2>2 DEF TakeGains, settings, loop, GainsInv, HandOver, TornIsIdle
  <2> QED BY <2>1, <2>2
<1>8. CASE AdoptGains
  <2>1. /\ pc = "adopt" /\ pc' = "latch" /\ gains' = [kp |-> firstGain, ki |-> pending.ki]
        /\ sinceCompute' = 0 /\ UNCHANGED <<cfg, pending, gainsFlag>>
    BY <1>8 DEF AdoptGains, SetGains, SuspendPid, settings, requests
  <2>2. CASE gainsFlag
    BY <2>1, <2>2 DEF GainsInv, HandOver, TornIsIdle
  <2>3. CASE ~gainsFlag
    <3>1. gains' = pending /\ gains' = cfg.gains /\ gains'.kp = gains'.ki
      BY <1>1, <2>1, <2>3 DEF GainsInv, HandOver
    <3> QED BY <2>1, <2>3, <3>1 DEF GainsInv, HandOver, TornIsIdle
  <2> QED BY <2>2, <2>3
<1>9. CASE StayOn \/ TakeCancel \/ TakeStart
  <2>1. /\ pc \in {"latch", "cancel", "start"} /\ pc' \in {"cancel", "start", "drive"}
        /\ UNCHANGED <<cfg, pending, gainsFlag, firstGain, gains, sinceCompute>>
    BY <1>9 DEF StayOn, TakeCancel, TakeStart, settings, requests
  <2> QED BY <2>1 DEF GainsInv, HandOver, TornIsIdle
<1>10. CASE ShutOff \/ RunDisabled \/ DriveRun \/ SkipTick \/ HoldDemand \/ Compute
  <2>1. /\ pc \in {"latch", "drive"} /\ pc' = "idle"
        /\ UNCHANGED <<cfg, pending, gainsFlag, firstGain, gains>>
    BY <1>10 DEF ShutOff, RunDisabled, DriveRun, SkipTick, HoldDemand, Compute, Skip, Deliver,
       Return, Regulating, settings, requests
  <2> QED BY <2>1 DEF GainsInv, HandOver, TornIsIdle
<1> QED BY <1>2, <1>3, <1>4, <1>5, <1>6, <1>7, <1>8, <1>9, <1>10 DEF Next, UpdateStep

LEMMA GainsAlways == Spec => []GainsInv
<1>1. Init => GainsInv
  <2> SUFFICES ASSUME Init PROVE GainsInv OBVIOUS
  <2>1. cfg.gains \in Posted BY DEF Init
  <2>2. gains.kp = gains.ki BY <2>1, PostedAreTunings DEF Init
  <2> QED BY <2>1, <2>2 DEF Init, GainsInv, HandOver, TornIsIdle
<1>2. TypeOK /\ GainsInv /\ [Next]_vars => GainsInv' BY GainsNext
<1> QED BY <1>1, <1>2, TypeCorrect, PTL DEF Spec

\* With no request on its way the running gains are those of the cache, whatever the
\* interleaving of the requests before.
THEOREM GainsArrive == Spec => []GainsConverge
<1>1. GainsInv => GainsConverge BY DEF GainsInv, HandOver, GainsConverge
<1> QED BY <1>1, GainsAlways, PTL

\* A set of gains torn by a request that overtakes the copy is never computed with.
THEOREM TornGainsAreNotUsed == Spec => []ComputesWithWholeGains
<1>1. TypeOK /\ GainsInv => ComputesWithWholeGains
  <2> SUFFICES ASSUME TypeOK, GainsInv, Regulating, sinceCompute >= snap.interval
               PROVE  gains.kp = gains.ki
    BY DEF ComputesWithWholeGains
  <2>1. snap.interval \in Nat \ {0}
    BY TypeParts, Constants DEF LocalsTyped, Config
  <2>2. sinceCompute # 0 BY <2>1
  <2> QED BY <2>2 DEF GainsInv, TornIsIdle, Regulating
<1> QED BY <1>1, GainsAlways, TypeCorrect, PTL

-----------------------------------------------------------------------------
(* The two baselines                                                        *)

\* What OneBaseline says at a point of the update, with the interval that counts there.
LEMMA BaselineNext ==
    ASSUME TypeOK, OneBaseline, [Next]_vars
    PROVE  OneBaseline'
<1>1. /\ cfg.interval \in Intervals /\ snap.interval \in Intervals /\ cfg \in Config
      /\ sinceCompute \in Nat /\ pidAge \in Nat
  BY TypeParts DEF SettingsTyped, LocalsTyped, LoopTyped, Config
<1>2. /\ MaxStep \in Nat /\ MaxStep > 0 /\ MaxInterval \in Nat /\ MaxInterval > 0
      /\ \A i \in Intervals : i \in Nat /\ i > 0 /\ i <= MaxInterval
  BY Constants, Longest
<1>3. ASSUME ~running' PROVE OneBaseline' BY <1>3 DEF OneBaseline
<1>4. ASSUME UNCHANGED <<running, sinceCompute, pidAge, pc, snap>>,
             gainsFlag' \/ (gainsFlag' = gainsFlag /\ cfg'.interval = cfg.interval)
      PROVE  OneBaseline'
  BY <1>4 DEF OneBaseline
<1>5. CASE UNCHANGED vars
  BY <1>4, <1>5 DEF vars, settings, requests, locals, loop
<1>6. CASE SetEnabled \/ SetLimit
  <2>1. cfg'.interval = cfg.interval BY <1>1, <1>6 DEF SetEnabled, SetLimit, Config
  <2> QED BY <1>4, <1>6, <2>1 DEF SetEnabled, SetLimit, requests, locals, loop
<1>7. CASE PostTuning \/ Accept \/ RequestAutotuneStart \/ RequestAutotuneCancel
  BY <1>4, <1>7 DEF PostTuning, Accept, Persist, RequestAutotuneStart, RequestAutotuneCancel,
     settings, requests, locals, loop
<1>8. CASE PublishGains
  BY <1>4, <1>8 DEF PublishGains, locals, loop
<1>9. CASE Begin
  <2>1. PICK dt \in 1 .. MaxStep :
          /\ sinceCompute' = Aged(sinceCompute, dt, MaxInterval)
          /\ pidAge' = IF running THEN Aged(pidAge, dt, MaxInterval + MaxStep) ELSE 0
    BY <1>9 DEF Begin
  <2>2. pc = "idle" /\ pc' = "snapshot" /\ UNCHANGED <<running, gainsFlag, cfg>>
    BY <1>9 DEF Begin, settings, requests
  <2>3. CASE running
    <3>1. dt \in Nat /\ dt <= MaxStep /\ MaxInterval + MaxStep \in Nat BY <1>2
    <3>2. sinceCompute' = IF sinceCompute + dt > MaxInterval THEN MaxInterval ELSE sinceCompute + dt
      BY <1>1, <1>2, <2>1, <3>1, AgedBound
    <3>3. pidAge' = IF pidAge + dt > MaxInterval + MaxStep THEN MaxInterval + MaxStep ELSE pidAge + dt
      BY <1>1, <2>1, <2>3, <3>1, AgedBound
    <3>4. sinceCompute = IF pidAge < MaxInterval THEN pidAge ELSE MaxInterval
      BY <2>3 DEF OneBaseline
    <3>5. sinceCompute' = IF pidAge' < MaxInterval THEN pidAge' ELSE MaxInterval
      BY <1>1, <1>2, <3>1, <3>2, <3>3, <3>4
    <3>6. ~gainsFlag => pidAge' < cfg.interval + MaxStep
      <4>1. ~gainsFlag => pidAge < cfg.interval BY <2>2, <2>3 DEF OneBaseline
      <4>2. cfg.interval \in Nat BY <1>1, <1>2
      <4>3. cfg.interval <= MaxInterval BY <1>1, <1>2
      <4>4. pidAge' <= pidAge + dt BY <1>1, <1>2, <3>1, <3>3
      <4>5. pidAge' \in Nat BY <1>1, <1>2, <3>1, <3>3
      <4> QED BY <1>1, <1>2, <3>1, <4>1, <4>2, <4>4, <4>5
    <3> QED BY <2>2, <3>5, <3>6 DEF OneBaseline
  <2> QED BY <1>3, <2>2, <2>3
<1>10. CASE TakeSnapshot
  <2>1. /\ pc = "snapshot" /\ pc' = "gains" /\ snap'.interval = cfg.interval
        /\ UNCHANGED <<running, sinceCompute, pidAge, gainsFlag, cfg>>
    BY <1>1, <1>10 DEF TakeSnapshot, settings, requests, loop, Config
  <2> QED BY <2>1 DEF OneBaseline
<1>11. CASE TakeGains
  <2>1. /\ pc = "gains" /\ UNCHANGED <<running, sinceCompute, pidAge, snap, cfg>>
        /\ (gainsFlag => pc' = "adopt") /\ (~gainsFlag => pc' = "latch")
    BY <1>11 DEF TakeGains, settings, loop
  <2> QED BY <2>1 DEF OneBaseline
<1>12. CASE AdoptGains \/ ShutOff \/ RunDisabled \/ DriveRun \/ SkipTick
  BY <1>3, <1>12 DEF AdoptGains, SetGains, ShutOff, RunDisabled, DriveRun, SkipTick, Skip, SuspendPid
<1>13. CASE StayOn \/ TakeCancel \/ TakeStart
  <2>1. /\ pc \in {"latch", "cancel", "start"} /\ pc' \in {"cancel", "start", "drive"}
        /\ UNCHANGED <<running, sinceCompute, pidAge, gainsFlag, snap, cfg>>
    BY <1>13 DEF StayOn, TakeCancel, TakeStart, settings, requests
  <2> QED BY <2>1 DEF OneBaseline
<1>14. CASE HoldDemand
  <2>1. /\ pc = "drive" /\ pc' = "idle" /\ sinceCompute < snap.interval
        /\ UNCHANGED <<running, sinceCompute, pidAge, gainsFlag, cfg>>
    BY <1>14 DEF HoldDemand, Regulating, Return, settings, requests
  <2>2. ASSUME running PROVE OneBaseline'
    <3>1. /\ sinceCompute = IF pidAge < MaxInterval THEN pidAge ELSE MaxInterval
          /\ ~gainsFlag => snap.interval = cfg.interval
      BY <2>1, <2>2 DEF OneBaseline
    <3>2. snap.interval \in Nat /\ snap.interval <= MaxInterval BY <1>1, <1>2
    <3>3. pidAge < snap.interval BY <1>1, <1>2, <2>1, <3>1, <3>2
    <3> QED BY <2>1, <3>1, <3>3 DEF OneBaseline
  <2> QED BY <1>3, <2>1, <2>2
<1>15. CASE Compute
  <2>1. pc' = "idle" /\ sinceCompute' = 0 /\ pidAge' = 0 /\ UNCHANGED cfg
    BY <1>15 DEF Compute, Deliver, Return, settings
  <2>2. 0 < cfg.interval /\ 0 < MaxInterval BY <1>1, <1>2
  <2> QED BY <2>1, <2>2 DEF OneBaseline
<1> QED BY <1>5, <1>6, <1>7, <1>8, <1>9, <1>10, <1>11, <1>12, <1>13, <1>14, <1>15
        DEF Next, UpdateStep

\* However updates, gaps and interval changes fall, the integral is charged with no more
\* than one interval and a late tick.
THEOREM NoGapCharged == Spec => []NoGapIsCharged
<1>1. Init => OneBaseline BY DEF Init, OneBaseline
<1>2. TypeOK /\ OneBaseline /\ [Next]_vars => OneBaseline' BY BaselineNext
<1>3. OneBaseline => NoGapIsCharged BY DEF OneBaseline, NoGapIsCharged, Regulating
<1> QED BY <1>1, <1>2, <1>3, TypeCorrect, PTL DEF Spec

-----------------------------------------------------------------------------
(* Sensors: constants and operators.                                       *)

LEMMA SensorConstants ==
    /\ MeasurementInterval \in Nat /\ MeasurementInterval > 0
    /\ ExpiryIntervals \in Nat /\ FailureThreshold \in Nat /\ FailureThreshold > 0
    /\ RecoveryStreak \in Nat /\ RecoveryStreak > 0 /\ RetryInterval \in Nat
    /\ MaxLate \in Nat /\ MaxUnpublished \in Nat
    /\ \A s \in Sensors : Driver[s].i2c \in BOOLEAN /\ Required[s] \in Nat
BY SensorAssumption DEF SensorAssumption

LEMMA IntervalIsNat ==
    \A s \in Sensors : effectiveInterval(s) \in Nat /\ effectiveInterval(s) > 0
BY SensorConstants DEF effectiveInterval

LEMMA MinIs ==
    ASSUME NEW S \in SUBSET Nat, S # {}
    PROVE  Min(S) \in S /\ \A x \in S : Min(S) <= x
<1>1. PICK x \in S : \A y \in S : ~ (<<y, x>> \in OpToRel(<, Nat))
  BY NatLessThanWellFounded, WFMin, Zenon
<1>2. \A y \in S : x <= y
  <2>1. ASSUME NEW y \in S, y < x PROVE FALSE
    <3>1. <<y, x>> \in OpToRel(<, Nat) BY <2>1 DEF OpToRel
    <3> QED BY <1>1, <3>1
  <2> QED BY <2>1
<1> QED BY <1>1, <1>2 DEF Min

LEMMA ReadIntervalIsPositive ==
    ASSUME order \in Seq(Sensors) PROVE minReadInterval \in Nat /\ minReadInterval > 0
<1> DEFINE S == {MeasurementInterval} \cup {effectiveInterval(s) : s \in ToSet(order)}
<1>1. ToSet(order) \subseteq Sensors BY DEF ToSet
<1>2. S \in SUBSET Nat /\ S # {} /\ \A n \in S : n > 0
  BY <1>1, SensorConstants, IntervalIsNat
<1>3. minReadInterval = Min(S) BY DEF minReadInterval
<1> HIDE DEF S
<1> QED BY <1>2, <1>3, MinIs

LEMMA SoonerIs ==
    ASSUME NEW a \in Nat, NEW b \in Nat
    PROVE  /\ Sooner(a, b) \in 0 .. b
           /\ Sooner(a, b) = IF a < b THEN a ELSE b
BY DEF Sooner

\* The periodic retry leaves a sensor that is online alone; one it brings back starts
\* with no failures.
LEMMA RetryIs ==
    ASSUME NEW s \in Sensors, NEW x \in SensorState, NEW y, y = retry(s, x)
    PROVE  /\ y \in SensorState
           /\ x.status = "Online" => y = x
           /\ x.status # "Online" /\ y.status = "Online" => y.failures = 0
<1>1. 0 \in 0 .. FailureThreshold /\ 0 \in 0 .. RetryInterval BY SensorConstants
<1>2. CASE y = x BY <1>2
<1>3. CASE y # x
  <2>1. y = tryBegin(s, x) /\ x.status # "Online" BY <1>3 DEF retry
  <2>2. CASE Reachable(s) BY <1>1, <2>1, <2>2 DEF tryBegin, SensorState
  <2>3. CASE ~Reachable(s)
    <3>1. y = [x EXCEPT !.status = "InitFailed", !.sinceInit = 0] BY <2>1, <2>3 DEF tryBegin
    <3> QED BY <1>1, <2>1, <3>1 DEF SensorState
  <2> QED BY <2>2, <2>3
<1> QED BY <1>2, <1>3

\* A read of a sensor that is online is a failure exactly when it counts one.
LEMMA RecordIs ==
    ASSUME NEW x \in SensorState, x.failures < FailureThreshold, NEW ok \in BOOLEAN,
           NEW y, y = recordReadResult(x, ok)
    PROVE  /\ y \in SensorState
           /\ y.status = "Online" => y.failures < FailureThreshold
           /\ IF ok THEN y.failures = 0 /\ y.status = x.status ELSE y.failures > 0
<1>1. /\ x.failures \in Nat /\ x.status \in {"Online", "InitFailed", "ReadFailing"}
      /\ x.failures + 1 \in 0 .. FailureThreshold /\ 0 \in 0 .. FailureThreshold
  BY SensorConstants DEF SensorState
<1>2. CASE ok
  <2>1. y = [x EXCEPT !.failures = 0] BY <1>2 DEF recordReadResult
  <2> QED BY <1>1, <1>2, <2>1, SensorConstants DEF SensorState
<1>3. CASE ~ok
  <2>1. PICK st : st = IF x.failures + 1 >= FailureThreshold THEN "ReadFailing" ELSE x.status
    OBVIOUS
  <2>2. y = [x EXCEPT !.failures = @ + 1, !.status = st] BY <1>3, <2>1 DEF recordReadResult
  <2>3. st \in {"Online", "InitFailed", "ReadFailing"} BY <1>1, <2>1
  <2>4. /\ y \in SensorState /\ y.failures = x.failures + 1 /\ y.status = st
    <3> HIDE <2>1
    <3> QED BY <1>1, <2>2, <2>3 DEF SensorState
  <2>5. st = "Online" => x.failures + 1 < FailureThreshold BY <1>1, <2>1, SensorConstants
  <2> QED BY <1>1, <1>3, <2>4, <2>5
<1> QED BY <1>2, <1>3

-----------------------------------------------------------------------------
(* Types, and what the loop over the sensors relies on.                    *)

ReadTypes == SensorTypeOK /\ ReadInv

LEMMA PlacesAreSensors ==
    ASSUME order \in Seq(Sensors)
    PROVE  /\ Len(order) \in Nat
           /\ \A i \in 1 .. Len(order) : order[i] \in Sensors
           /\ \A s : s \in ToSet(order) <=> \E i \in 1 .. Len(order) : order[i] = s
BY DEF ToSet

LEMMA SensorInitTypes == ASSUME SortsRight PROVE SensorInit => ReadTypes
<1> SUFFICES ASSUME SensorInit PROVE ReadTypes OBVIOUS
<1>1. InOrder(order) BY DEF SensorInit, SortsRight
<1>2. order \in Seq(Sensors) BY <1>1 DEF InOrder
<1> DEFINE x == [status |-> "Uninitialized", failures |-> 0, sinceInit |-> 0]
<1>3. \A s \in Sensors : tryBegin(s, x) \in SensorState /\ tryBegin(s, x).failures = 0
  <2> SUFFICES ASSUME NEW s \in Sensors
               PROVE  tryBegin(s, x) \in SensorState /\ tryBegin(s, x).failures = 0
    OBVIOUS
  <2>1. 0 \in 0 .. FailureThreshold /\ 0 \in 0 .. RetryInterval BY SensorConstants
  <2>2. CASE Reachable(s) BY <2>1, <2>2 DEF tryBegin, SensorState
  <2>3. CASE ~Reachable(s) BY <2>1, <2>3 DEF tryBegin, SensorState
  <2> QED BY <2>2, <2>3
<1>4. sensor = [s \in Sensors |-> tryBegin(s, x)] BY DEF SensorInit
<1> HIDE DEF x
<1>5. sensor \in [Sensors -> SensorState] /\ \A s \in Sensors : sensor[s].failures = 0
  BY <1>3, <1>4
<1>6. slot \in [Sensors -> Slot] BY IntervalIsNat DEF SensorInit, Slot
<1>7. /\ sinceDefault \in 0 .. MeasurementInterval /\ streak \in 0 .. RecoveryStreak
      /\ unpublished \in Nat /\ published \in [Sensors -> Nat \cup {Absent}]
  BY SensorConstants DEF SensorInit
<1>8. /\ stage = "asleep" /\ at = 1 /\ cycle \in [attempted : BOOLEAN, obtained : BOOLEAN]
      /\ device \in [OnBus -> {"reads", "refuses", "silent"}] /\ wedged \in BOOLEAN
  BY DEF SensorInit, NewCycle
<1>9. at \in 1 .. Len(order) + 1 BY <1>2, <1>8, PlacesAreSensors
<1>10. SensorTypeOK BY <1>2, <1>5, <1>6, <1>7, <1>8, <1>9 DEF SensorTypeOK
<1> QED BY <1>1, <1>5, <1>8, <1>10, SensorConstants DEF ReadTypes, ReadInv

\* Time passes: every reading grows older by the same time, and by some.
LEMMA ElapseIs ==
    ASSUME ReadTypes, Elapse
    PROVE  \E dt \in Nat \ {0} :
             /\ \A s \in Sensors :
                  /\ sensor'[s] \in SensorState
                  /\ sensor'[s].status = sensor[s].status
                  /\ sensor'[s].failures = sensor[s].failures
                  /\ slot'[s] \in Slot /\ slot'[s].valid = slot[s].valid
                  /\ slot'[s].input = slot[s].input
                  /\ slot[s].valid => slot'[s].age = slot[s].age + dt
                  /\ published'[s] = IF published[s] = Absent THEN Absent ELSE published[s] + dt
             /\ sensor' \in [Sensors -> SensorState] /\ slot' \in [Sensors -> Slot]
             /\ sinceDefault' = Sooner(sinceDefault + dt, MeasurementInterval)
             /\ published' \in [Sensors -> Nat \cup {Absent}]
             /\ unpublished' = unpublished + dt
<1>1. PICK dt \in minReadInterval .. minReadInterval + MaxLate :
        /\ sensor' = [s \in Sensors |->
               [sensor[s] EXCEPT !.sinceInit = Sooner(@ + dt, RetryInterval)]]
        /\ slot' = [s \in Sensors |->
               [slot[s] EXCEPT !.age = IF slot[s].valid THEN @ + dt ELSE 0,
                               !.sinceRead = Sooner(@ + dt, effectiveInterval(s))]]
        /\ sinceDefault' = Sooner(sinceDefault + dt, MeasurementInterval)
        /\ published' = [s \in Sensors |->
               IF published[s] = Absent THEN Absent ELSE published[s] + dt]
        /\ unpublished' = unpublished + dt
  BY DEF Elapse
<1>2. dt \in Nat \ {0}
  <2>1. order \in Seq(Sensors) BY DEF ReadTypes, SensorTypeOK
  <2> QED BY <2>1, ReadIntervalIsPositive, SensorConstants
<1>3. sensor \in [Sensors -> SensorState] /\ slot \in [Sensors -> Slot]
      /\ published \in [Sensors -> Nat \cup {Absent}]
  BY DEF ReadTypes, SensorTypeOK
<1>4. ASSUME NEW s \in Sensors
      PROVE  /\ sensor'[s] \in SensorState
             /\ sensor'[s].status = sensor[s].status
             /\ sensor'[s].failures = sensor[s].failures
  <2>1. sensor[s] \in SensorState BY <1>3
  <2>2. PICK i : i = Sooner(sensor[s].sinceInit + dt, RetryInterval) OBVIOUS
  <2>3. i \in 0 .. RetryInterval
    <3>1. sensor[s].sinceInit + dt \in Nat /\ RetryInterval \in Nat
      BY <1>2, <2>1, SensorConstants DEF SensorState
    <3> QED BY <2>2, <3>1, SoonerIs
  <2>4. sensor'[s] = [sensor[s] EXCEPT !.sinceInit = i] BY <1>1, <2>2
  <2> HIDE <2>2
  <2> QED BY <2>1, <2>3, <2>4 DEF SensorState
<1>5. ASSUME NEW s \in Sensors
      PROVE  /\ slot'[s] \in Slot /\ slot'[s].valid = slot[s].valid
             /\ slot'[s].input = slot[s].input
             /\ slot[s].valid => slot'[s].age = slot[s].age + dt
  <2>1. slot[s] \in Slot BY <1>3
  <2>2. PICK i : i = Sooner(slot[s].sinceRead + dt, effectiveInterval(s)) OBVIOUS
  <2>3. i \in Nat
    <3>1. slot[s].sinceRead + dt \in Nat /\ effectiveInterval(s) \in Nat
      BY <1>2, <2>1, IntervalIsNat DEF Slot
    <3> QED BY <2>2, <3>1 DEF Sooner
  <2>4. PICK a : a = IF slot[s].valid THEN slot[s].age + dt ELSE 0 OBVIOUS
  <2>5. a \in Nat /\ (slot[s].valid => a = slot[s].age + dt) BY <1>2, <2>1, <2>4 DEF Slot
  <2>6. slot'[s] = [slot[s] EXCEPT !.age = a, !.sinceRead = i] BY <1>1, <2>2, <2>4
  <2> HIDE <2>2, <2>4
  <2> QED BY <2>1, <2>3, <2>5, <2>6 DEF Slot
<1>6. sensor' \in [Sensors -> SensorState] /\ slot' \in [Sensors -> Slot]
  <2>1. DOMAIN sensor' = Sensors /\ DOMAIN slot' = Sensors BY <1>1
  <2>2. sensor' = [s \in Sensors |-> sensor'[s]] /\ slot' = [s \in Sensors |-> slot'[s]]
    BY <1>1
  <2> QED BY <1>4, <1>5, <2>2
<1>7. \A s \in Sensors :
        published'[s] = IF published[s] = Absent THEN Absent ELSE published[s] + dt
  BY <1>1
<1>8. published' \in [Sensors -> Nat \cup {Absent}]
  <2>1. \A s \in Sensors : published'[s] \in Nat \cup {Absent} BY <1>2, <1>3, <1>7
  <2>2. published' = [s \in Sensors |-> published'[s]] BY <1>1
  <2> QED BY <2>1, <2>2
<1> QED BY <1>1, <1>2, <1>4, <1>5, <1>6, <1>7, <1>8

LEMMA InputAgeIs ==
    ASSUME SensorTypeOK, NEW s \in Sensors
    PROVE  /\ InputAge(s) \in Nat
           /\ \A f \in 1 .. Len(order) :
                 /\ slot[order[f]].valid /\ Feeds(order[f], s)
                 /\ \A i \in 1 .. Len(order) : Feeds(order[i], s) => f <= i
                 => InputAge(s) = slot[order[f]].age
<1> DEFINE used == {i \in 1 .. Len(order) : slot[order[i]].valid /\ Feeds(order[i], s)}
<1>1. /\ Len(order) \in Nat
      /\ \A i \in 1 .. Len(order) : order[i] \in Sensors
      /\ slot \in [Sensors -> Slot]
  BY PlacesAreSensors DEF SensorTypeOK
<1>2. InputAge(s) = IF used = {} THEN 0 ELSE slot[order[Min(used)]].age BY DEF InputAge
<1>3. used # {} => Min(used) \in used /\ \A i \in used : Min(used) <= i
  <2>1. used \in SUBSET Nat BY <1>1
  <2> QED BY <2>1, MinIs
<1>4. InputAge(s) \in Nat
  <2>1. CASE used = {} BY <1>2, <2>1
  <2>2. CASE used # {}
    <3>1. PICK m : m = Min(used) OBVIOUS
    <3>2. m \in 1 .. Len(order) BY <1>3, <2>2, <3>1
    <3>3. slot[order[m]] \in Slot BY <1>1, <3>2
    <3> QED BY <1>2, <2>2, <3>1, <3>3 DEF Slot
  <2> QED BY <2>1, <2>2
<1>5. ASSUME NEW f \in 1 .. Len(order), slot[order[f]].valid, Feeds(order[f], s),
             \A i \in 1 .. Len(order) : Feeds(order[i], s) => f <= i
      PROVE  InputAge(s) = slot[order[f]].age
  <2>1. f \in used BY <1>5
  <2>2. PICK m : m = Min(used) OBVIOUS
  <2>3. m \in used /\ m <= f BY <1>3, <2>1, <2>2
  <2>4. m \in 1 .. Len(order) /\ f <= m BY <1>5, <2>3
  <2>5. m = f BY <1>1, <2>3, <2>4
  <2> QED BY <1>2, <2>1, <2>2, <2>5
<1> QED BY <1>4, <1>5

\* A read changes the slot and the failures of its sensor, and no other's.
LEMMA ReadIs ==
    ASSUME ReadTypes, NEW s \in Sensors, sensor[s].status = "Online", NEW ok \in BOOLEAN,
           Read(s, ok)
    PROVE  /\ sensor' \in [Sensors -> SensorState] /\ slot' \in [Sensors -> Slot]
           /\ cycle' \in [attempted : BOOLEAN, obtained : BOOLEAN]
           /\ \A p \in Sensors \ {s} : sensor'[p] = sensor[p] /\ slot'[p] = slot[p]
           /\ sensor'[s].status = "Online" => sensor'[s].failures < FailureThreshold
           /\ ok => /\ sensor'[s].failures = 0 /\ sensor'[s].status = "Online"
                    /\ slot'[s].valid /\ slot'[s].age = 0 /\ slot'[s].input = InputAge(s)
           /\ ~ok => /\ sensor'[s].failures > 0
                     /\ slot'[s].valid = slot[s].valid /\ slot'[s].age = slot[s].age
                     /\ slot'[s].input = slot[s].input
<1>1. /\ sensor \in [Sensors -> SensorState] /\ slot \in [Sensors -> Slot]
      /\ cycle \in [attempted : BOOLEAN, obtained : BOOLEAN]
      /\ sensor[s].failures < FailureThreshold
  BY DEF ReadTypes, SensorTypeOK, ReadInv
<1>2. PICK y : y = recordReadResult(sensor[s], ok) OBVIOUS
<1>3. /\ y \in SensorState /\ (y.status = "Online" => y.failures < FailureThreshold)
      /\ IF ok THEN y.failures = 0 /\ y.status = "Online" ELSE y.failures > 0
  <2>1. sensor[s] \in SensorState BY <1>1
  <2> QED BY <1>1, <1>2, <2>1, RecordIs
<1>4. sensor' = [sensor EXCEPT ![s] = y] BY <1>2 DEF Read
<1>5. PICK z : z = IF ok THEN [valid |-> TRUE, age |-> 0, sinceRead |-> 0,
                               input |-> InputAge(s)]
                   ELSE [slot[s] EXCEPT !.sinceRead = 0]
  OBVIOUS
<1>6. slot' = [slot EXCEPT ![s] = z] BY <1>5 DEF Read
<1>7. /\ z \in Slot
      /\ ok => z.valid /\ z.age = 0 /\ z.input = InputAge(s)
      /\ ~ok => z.valid = slot[s].valid /\ z.age = slot[s].age /\ z.input = slot[s].input
  <2>1. InputAge(s) \in Nat BY InputAgeIs DEF ReadTypes
  <2>2. slot[s] \in Slot BY <1>1
  <2>3. CASE ok BY <1>5, <2>1, <2>3 DEF Slot
  <2>4. CASE ~ok BY <1>5, <2>2, <2>4 DEF Slot
  <2> QED BY <2>3, <2>4
<1>8. cycle' \in [attempted : BOOLEAN, obtained : BOOLEAN]
  <2>1. Driver[s].i2c \in BOOLEAN BY SensorConstants
  <2>2. cycle' = [attempted |-> cycle.attempted \/ Driver[s].i2c,
                  obtained  |-> cycle.obtained \/ (Driver[s].i2c /\ ok)]
    BY DEF Read
  <2> QED BY <2>2
<1> HIDE <1>2, <1>5
<1> QED BY <1>1, <1>3, <1>4, <1>6, <1>7, <1>8

LEMMA ReadsIsBoolean == \A s : reads(s) \in BOOLEAN
BY DEF reads

LEMMA StartIs ==
    ASSUME ReadTypes, StartCycle
    PROVE  /\ sensor' \in [Sensors -> SensorState]
           /\ \A s \in Sensors :
                 /\ sensor[s].status = "Online" => sensor'[s] = sensor[s]
                 /\ sensor[s].status # "Online" /\ sensor'[s].status = "Online" =>
                       sensor'[s].failures = 0
<1>1. sensor \in [Sensors -> SensorState] BY DEF ReadTypes, SensorTypeOK
<1>2. sensor' = [s \in Sensors |->
          IF s \in ToSet(order) THEN retry(s, sensor[s]) ELSE sensor[s]]
  BY DEF StartCycle
<1>3. ASSUME NEW s \in Sensors
      PROVE  /\ sensor'[s] \in SensorState
             /\ sensor[s].status = "Online" => sensor'[s] = sensor[s]
             /\ sensor[s].status # "Online" /\ sensor'[s].status = "Online" =>
                   sensor'[s].failures = 0
  <2>1. sensor[s] \in SensorState BY <1>1
  <2>2. CASE sensor'[s] = sensor[s] BY <2>1, <2>2
  <2>3. CASE sensor'[s] = retry(s, sensor[s]) BY <2>1, <2>3, RetryIs
  <2> QED BY <1>2, <2>2, <2>3
<1>4. sensor' = [s \in Sensors |-> sensor'[s]] BY <1>2
<1> QED BY <1>3, <1>4

LEMMA EndIs ==
    ASSUME ReadTypes, EndCycle
    PROVE  /\ slot' \in [Sensors -> Slot]
           /\ \A s \in Sensors : slot'[s].valid => kept(s) /\ slot'[s] = slot[s]
<1>1. slot \in [Sensors -> Slot] BY DEF ReadTypes, SensorTypeOK
<1>2. slot' = [s \in Sensors |-> IF kept(s) THEN slot[s] ELSE Empty(slot[s])]
  BY DEF EndCycle
<1>3. ASSUME NEW s \in Sensors
      PROVE  slot'[s] \in Slot /\ (slot'[s].valid => kept(s) /\ slot'[s] = slot[s])
  <2>1. slot[s] \in Slot BY <1>1
  <2>2. CASE kept(s) BY <1>2, <2>1, <2>2
  <2>3. CASE ~kept(s)
    <3>1. PICK y : y = slot[s] OBVIOUS
    <3>2. slot'[s] = [y EXCEPT !.valid = FALSE, !.age = 0, !.input = 0]
      BY <1>2, <2>3, <3>1 DEF Empty
    <3>3. y \in Slot BY <2>1, <3>1
    <3>4. PICK z : z = [y EXCEPT !.valid = FALSE, !.age = 0, !.input = 0] OBVIOUS
    <3>5. z \in Slot /\ z.valid = FALSE BY <3>3, <3>4 DEF Slot
    <3>6. slot'[s] = z BY <3>2, <3>4
    <3> HIDE <3>1, <3>2, <3>4
    <3> QED BY <3>5, <3>6
  <2> QED BY <2>2, <2>3
<1>4. slot' = [s \in Sensors |-> slot'[s]] BY <1>2
<1> QED BY <1>3, <1>4

LEMMA ElapseTypes == ReadTypes /\ Elapse => ReadTypes'
<1> SUFFICES ASSUME ReadTypes, Elapse PROVE ReadTypes' OBVIOUS
<1>1. PICK dt \in Nat \ {0} :
        /\ \A s \in Sensors : sensor'[s].status = sensor[s].status
                              /\ sensor'[s].failures = sensor[s].failures
        /\ sensor' \in [Sensors -> SensorState] /\ slot' \in [Sensors -> Slot]
        /\ sinceDefault' = Sooner(sinceDefault + dt, MeasurementInterval)
        /\ published' \in [Sensors -> Nat \cup {Absent}]
        /\ unpublished' = unpublished + dt
  BY ElapseIs, Zenon
<1>2. sinceDefault' \in 0 .. MeasurementInterval /\ unpublished' \in Nat
  <2>1. sinceDefault + dt \in Nat /\ MeasurementInterval \in Nat /\ unpublished \in Nat
    BY SensorConstants DEF ReadTypes, SensorTypeOK
  <2> QED BY <1>1, <2>1, SoonerIs
<1>3. /\ order' = order /\ at' = at /\ streak' = streak /\ cycle' = cycle
      /\ device' = device /\ wedged' = wedged /\ stage = "asleep" /\ stage' = "awake"
  BY DEF Elapse
<1>4. SensorTypeOK' BY <1>1, <1>2, <1>3 DEF ReadTypes, SensorTypeOK
<1>5. ReadInv' BY <1>1, <1>3 DEF ReadTypes, ReadInv, InOrder
<1> QED BY <1>4, <1>5 DEF ReadTypes

LEMMA SkipTypes == ReadTypes /\ SkipCycle => ReadTypes'
BY DEF ReadTypes, SensorTypeOK, ReadInv, InOrder, SkipCycle, data

LEMMA StartTypes == ReadTypes /\ StartCycle => ReadTypes'
<1> SUFFICES ASSUME ReadTypes, StartCycle PROVE ReadTypes' OBVIOUS
<1>1. /\ sensor' \in [Sensors -> SensorState]
      /\ \A s \in Sensors : sensor'[s].status = "Online" =>
            \/ sensor'[s] = sensor[s] /\ sensor[s].status = "Online"
            \/ sensor'[s].failures = 0
  BY StartIs
<1>2. SensorTypeOK' BY <1>1 DEF ReadTypes, SensorTypeOK, StartCycle
<1>3. ReadInv' BY <1>1, SensorConstants DEF ReadTypes, ReadInv, InOrder, StartCycle
<1> QED BY <1>2, <1>3 DEF ReadTypes

\* The sensor that is read next, and what becomes of it.
LEMMA ReadNextIs ==
    ASSUME ReadTypes, ReadNext
    PROVE  /\ at \in 1 .. Len(order) /\ order[at] \in Sensors
           /\ at' = at + 1 /\ stage = "reading" /\ stage' = "reading"
           /\ UNCHANGED <<order, sinceDefault, streak, published, unpublished, device, wedged>>
           /\ \/ /\ sensor[order[at]].status = "Online" /\ due(order[at])
                 /\ \E ok \in BOOLEAN : ok = reads(order[at]) /\ Read(order[at], ok)
              \/ /\ ~(sensor[order[at]].status = "Online" /\ due(order[at]))
                 /\ UNCHANGED <<sensor, slot, cycle>>
<1>1. order \in Seq(Sensors) /\ at \in 1 .. Len(order) + 1 BY DEF ReadTypes, SensorTypeOK
<1>2. at \in 1 .. Len(order) /\ order[at] \in Sensors
  BY <1>1, PlacesAreSensors DEF ReadNext
<1>3. reads(order[at]) \in BOOLEAN BY ReadsIsBoolean
<1>4. IF sensor[order[at]].status = "Online" /\ due(order[at])
      THEN Read(order[at], reads(order[at])) ELSE UNCHANGED <<sensor, slot, cycle>>
  BY DEF ReadNext
<1> QED BY <1>2, <1>3, <1>4 DEF ReadNext

LEMMA ReadNextTypes == ReadTypes /\ ReadNext => ReadTypes'
<1> SUFFICES ASSUME ReadTypes, ReadNext PROVE ReadTypes' OBVIOUS
<1>1. PICK s \in Sensors : s = order[at] BY ReadNextIs
<1>2. /\ at \in 1 .. Len(order) /\ at' = at + 1
      /\ stage = "reading" /\ stage' = "reading"
      /\ UNCHANGED <<order, sinceDefault, streak, published, unpublished, device, wedged>>
  BY ReadNextIs
<1>3. /\ sensor' \in [Sensors -> SensorState] /\ slot' \in [Sensors -> Slot]
      /\ cycle' \in [attempted : BOOLEAN, obtained : BOOLEAN]
      /\ \A p \in Sensors : sensor'[p].status = "Online" =>
            sensor'[p].failures < FailureThreshold
  <2>1. CASE \E ok \in BOOLEAN : sensor[s].status = "Online" /\ Read(s, ok)
    <3>1. PICK ok \in BOOLEAN : sensor[s].status = "Online" /\ Read(s, ok) BY <2>1
    <3>2. /\ sensor' \in [Sensors -> SensorState] /\ slot' \in [Sensors -> Slot]
          /\ cycle' \in [attempted : BOOLEAN, obtained : BOOLEAN]
          /\ \A p \in Sensors \ {s} : sensor'[p] = sensor[p]
          /\ sensor'[s].status = "Online" => sensor'[s].failures < FailureThreshold
      BY <3>1, ReadIs
    <3> QED BY <3>2 DEF ReadTypes, ReadInv
  <2>2. CASE UNCHANGED <<sensor, slot, cycle>>
    BY <2>2 DEF ReadTypes, ReadInv, SensorTypeOK
  <2> QED BY <1>1, <2>1, <2>2, ReadNextIs
<1>4. at' \in 1 .. Len(order) + 1
  BY <1>2
<1>5. SensorTypeOK' BY <1>2, <1>3, <1>4 DEF ReadTypes, SensorTypeOK
<1>6. ReadInv' BY <1>2, <1>3 DEF ReadTypes, ReadInv, InOrder
<1> QED BY <1>5, <1>6 DEF ReadTypes

LEMMA EndTypes == ReadTypes /\ EndCycle => ReadTypes'
<1> SUFFICES ASSUME ReadTypes, EndCycle PROVE ReadTypes' OBVIOUS
<1>1. slot' \in [Sensors -> Slot] BY EndIs
<1>2. /\ stage' = "asleep" /\ at' = 1 /\ cycle' = NewCycle
      /\ order' = order /\ sensor' = sensor /\ device' = device
  BY DEF EndCycle
<1>3. at' \in 1 .. Len(order') + 1
  BY <1>2, PlacesAreSensors DEF ReadTypes, SensorTypeOK
<1>4. sinceDefault' \in 0 .. MeasurementInterval
  BY SensorConstants DEF EndCycle, ReadTypes, SensorTypeOK
<1>5. streak' \in 0 .. RecoveryStreak
  <2>1. streak' = Streak /\ streak \in 0 .. RecoveryStreak
    BY DEF EndCycle, ReadTypes, SensorTypeOK
  <2> QED BY <2>1, SensorConstants DEF Streak, Recovers
<1>6. wedged' \in BOOLEAN BY DEF EndCycle, recover, ReadTypes, SensorTypeOK
<1>7. published' \in [Sensors -> Nat \cup {Absent}] /\ unpublished' \in Nat
  <2>1. CASE published' = [s \in Sensors |-> IF slot'[s].valid THEN slot'[s].age ELSE Absent]
             /\ unpublished' = 0
    BY <1>1, <2>1 DEF Slot
  <2>2. CASE UNCHANGED <<published, unpublished>>
    BY <2>2 DEF ReadTypes, SensorTypeOK
  <2> QED BY <2>1, <2>2 DEF EndCycle, Publish
<1>8. cycle' \in [attempted : BOOLEAN, obtained : BOOLEAN] BY <1>2 DEF NewCycle
<1>9. SensorTypeOK'
  BY <1>1, <1>2, <1>3, <1>4, <1>5, <1>6, <1>7, <1>8 DEF ReadTypes, SensorTypeOK
<1>10. ReadInv' BY <1>2 DEF ReadTypes, ReadInv, InOrder
<1> QED BY <1>9, <1>10 DEF ReadTypes

LEMMA OutsideTypes == ReadTypes /\ (DeviceChanges \/ BusWedges \/ BusFreed) => ReadTypes'
<1> SUFFICES ASSUME ReadTypes, DeviceChanges \/ BusWedges \/ BusFreed PROVE ReadTypes'
  OBVIOUS
<1>1. task' = task BY DEF DeviceChanges, BusWedges, BusFreed
<1>2. device' \in [OnBus -> {"reads", "refuses", "silent"}]
  <2>1. device \in [OnBus -> {"reads", "refuses", "silent"}] BY DEF ReadTypes, SensorTypeOK
  <2>2. CASE DeviceChanges
    <3>1. PICK s \in OnBus \cap ToSet(order) : \E d \in Behaviours(s) \ {device[s]} :
             device' = [device EXCEPT ![s] = d]
      BY <2>2 DEF DeviceChanges
    <3>2. PICK d \in Behaviours(s) : device' = [device EXCEPT ![s] = d] BY <3>1
    <3>3. d \in {"reads", "refuses", "silent"} BY <3>2 DEF Behaviours
    <3> QED BY <2>1, <3>2, <3>3
  <2>3. CASE BusWedges \/ BusFreed BY <2>1, <2>3 DEF BusWedges, BusFreed
  <2> QED BY <2>2, <2>3
<1>3. wedged' \in BOOLEAN
  BY DEF DeviceChanges, BusWedges, BusFreed, ReadTypes, SensorTypeOK
<1>4. SensorTypeOK' BY <1>1, <1>2, <1>3 DEF task, data, ReadTypes, SensorTypeOK
<1>5. ReadInv' BY <1>1 DEF task, data, ReadTypes, ReadInv, InOrder
<1> QED BY <1>4, <1>5 DEF ReadTypes

LEMMA SensorStepTypes == ReadTypes /\ [SensorNext]_sensorVars => ReadTypes'
<1>1. ReadTypes /\ UNCHANGED sensorVars => ReadTypes'
  BY DEF sensorVars, task, data, ReadTypes, SensorTypeOK, ReadInv, InOrder
<1> QED BY <1>1, ElapseTypes, SkipTypes, StartTypes, ReadNextTypes, EndTypes, OutsideTypes
        DEF SensorNext, TaskStep

-----------------------------------------------------------------------------
(* What is published is fresh.                                             *)

LEMMA LimitIsNat ==
    ASSUME NEW s \in Sensors PROVE ExpiryIntervals * effectiveInterval(s) \in Nat
BY SensorConstants, IntervalIsNat

LEMMA FreshNext ==
    ReadTypes /\ PublishedIsFresh /\ [SensorNext]_sensorVars => PublishedIsFresh'
<1> SUFFICES ASSUME ReadTypes, PublishedIsFresh, [SensorNext]_sensorVars,
                    NEW s \in Sensors, published'[s] # Absent
             PROVE  published'[s] <= ExpiryIntervals * effectiveInterval(s) + unpublished'
  BY DEF PublishedIsFresh
<1> DEFINE limit == ExpiryIntervals * effectiveInterval(s)
<1>1. limit \in Nat BY LimitIsNat
<1>2. /\ published[s] \in Nat \cup {Absent} /\ unpublished \in Nat
      /\ published[s] # Absent => published[s] <= limit + unpublished
  BY DEF ReadTypes, SensorTypeOK, PublishedIsFresh
<1> HIDE DEF limit
<1>3. CASE UNCHANGED <<published, unpublished>> BY <1>2, <1>3 DEF limit
<1>4. CASE Elapse
  <2>1. PICK dt \in Nat \ {0} :
          /\ published'[s] = IF published[s] = Absent THEN Absent ELSE published[s] + dt
          /\ unpublished' = unpublished + dt
    BY <1>4, ElapseIs
  <2>2. published[s] # Absent /\ published[s] \in Nat BY <1>2, <2>1
  <2>3. published'[s] <= limit + unpublished' BY <1>1, <1>2, <2>1, <2>2
  <2> QED BY <2>3 DEF limit
<1>5. CASE EndCycle /\ ~UNCHANGED <<published, unpublished>>
  <2>1. /\ published' = [p \in Sensors |-> IF slot'[p].valid THEN slot'[p].age ELSE Absent]
        /\ unpublished' = 0
    BY <1>5 DEF EndCycle, Publish
  <2>2. slot'[s].valid /\ published'[s] = slot'[s].age BY <2>1
  <2>3. kept(s) /\ slot'[s] = slot[s] BY <1>5, <2>2, EndIs
  <2>4. slot[s].age <= limit /\ slot[s].age \in Nat
    BY <2>3 DEF kept, limit, ReadTypes, SensorTypeOK, Slot
  <2>5. published'[s] <= limit + unpublished' BY <1>1, <2>1, <2>2, <2>3, <2>4
  <2> QED BY <2>5 DEF limit
<1>6. CASE ~Elapse /\ ~EndCycle
  <2>1. UNCHANGED <<published, unpublished>>
    BY <1>6 DEF SensorNext, TaskStep, SkipCycle, StartCycle, ReadNext, DeviceChanges,
         BusWedges, BusFreed, sensorVars, task, data
  <2> QED BY <1>3, <2>1
<1> QED BY <1>3, <1>4, <1>5, <1>6

-----------------------------------------------------------------------------
(* Default sensors share one phase.                                        *)

InPhase(s) ==
    slot[s].valid /\ Required[s] = 0 /\ sensor[s].failures = 0 =>
        IF AlreadyRead(s) /\ sinceDefault = MeasurementInterval THEN slot[s].age = 0
        ELSE \/ slot[s].age = sinceDefault
             \/ sinceDefault = MeasurementInterval /\ slot[s].age >= sinceDefault
Justified(s) ==
    slot[s].valid =>
        /\ s \in ToSet(order)
        /\ sensor[s].status = "Online" \/ (stage = "reading" /\ sensor[s].failures > 0)

LEMMA PhaseParts ==
    /\ PhaseInv <=> \A s \in Sensors : Justified(s) /\ InPhase(s)
    /\ PhaseInv' <=> \A s \in Sensors : Justified(s)' /\ InPhase(s)'
BY DEF PhaseInv, Justified, InPhase

LEMMA PhaseValues ==
    ASSUME ReadTypes, NEW s \in Sensors
    PROVE  /\ slot[s].age \in Nat /\ slot[s].valid \in BOOLEAN
           /\ sinceDefault \in 0 .. MeasurementInterval /\ sinceDefault \in Nat
           /\ sensor[s].failures \in Nat
BY SensorConstants DEF ReadTypes, SensorTypeOK, Slot, SensorState

LEMMA PhaseElapse == ReadTypes /\ PhaseInv /\ Elapse => PhaseInv'
<1> SUFFICES ASSUME ReadTypes, PhaseInv, Elapse, NEW s \in Sensors
             PROVE  Justified(s)' /\ InPhase(s)'
  BY PhaseParts
<1>1. PICK dt \in Nat \ {0} :
        /\ sensor'[s].status = sensor[s].status
        /\ sensor'[s].failures = sensor[s].failures
        /\ slot'[s].valid = slot[s].valid
        /\ slot[s].valid => slot'[s].age = slot[s].age + dt
        /\ sinceDefault' = Sooner(sinceDefault + dt, MeasurementInterval)
  BY ElapseIs
<1>2. stage = "asleep" /\ stage' = "awake" /\ order' = order BY DEF Elapse
<1>3. ~AlreadyRead(s) /\ ~AlreadyRead(s)' BY <1>2 DEF AlreadyRead
<1>4. Justified(s) /\ InPhase(s) BY PhaseParts
<1>5. Justified(s)' BY <1>1, <1>2, <1>4 DEF Justified
<1>6. ASSUME slot'[s].valid, Required[s] = 0, sensor'[s].failures = 0
      PROVE  \/ slot'[s].age = sinceDefault'
             \/ sinceDefault' = MeasurementInterval /\ slot'[s].age >= sinceDefault'
  <2>1. \/ slot[s].age = sinceDefault
        \/ sinceDefault = MeasurementInterval /\ slot[s].age >= sinceDefault
    BY <1>1, <1>3, <1>4, <1>6 DEF InPhase
  <2>2. slot'[s].age = slot[s].age + dt BY <1>1, <1>6
  <2>3. sinceDefault' = IF sinceDefault + dt < MeasurementInterval THEN sinceDefault + dt
                        ELSE MeasurementInterval
    BY <1>1 DEF Sooner
  <2> QED BY <1>1, <2>1, <2>2, <2>3, PhaseValues, SensorConstants
<1> QED BY <1>3, <1>5, <1>6 DEF InPhase

LEMMA PhaseStart == ReadTypes /\ PhaseInv /\ StartCycle => PhaseInv'
<1> SUFFICES ASSUME ReadTypes, PhaseInv, StartCycle, NEW s \in Sensors
             PROVE  Justified(s)' /\ InPhase(s)'
  BY PhaseParts
<1>1. /\ stage = "awake" /\ stage' = "reading" /\ order' = order /\ slot' = slot
      /\ sinceDefault' = sinceDefault /\ at' = at /\ at = 1
  BY DEF StartCycle, ReadTypes, ReadInv
<1>2. ~AlreadyRead(s) /\ ~AlreadyRead(s)' BY <1>1 DEF AlreadyRead
<1>3. Justified(s) /\ InPhase(s) BY PhaseParts
<1>4. CASE slot[s].valid
  <2>1. sensor[s].status = "Online" BY <1>1, <1>3, <1>4 DEF Justified
  <2>2. sensor'[s] = sensor[s] BY <2>1, StartIs
  <2> QED BY <1>1, <1>2, <1>3, <2>1, <2>2 DEF Justified, InPhase
<1>5. CASE ~slot[s].valid BY <1>1, <1>5 DEF Justified, InPhase
<1> QED BY <1>4, <1>5

LEMMA PhaseRead == ReadTypes /\ PhaseInv /\ ReadNext => PhaseInv'
<1> SUFFICES ASSUME ReadTypes, PhaseInv, ReadNext, NEW p \in Sensors
             PROVE  Justified(p)' /\ InPhase(p)'
  BY PhaseParts
<1>1. PICK s \in Sensors : s = order[at] BY ReadNextIs
<1>2. /\ at \in 1 .. Len(order) /\ at' = at + 1 /\ order' = order
      /\ stage = "reading" /\ stage' = "reading" /\ sinceDefault' = sinceDefault
  BY ReadNextIs
<1>3. Justified(p) /\ InPhase(p) BY PhaseParts
<1>4. AlreadyRead(p)' <=> AlreadyRead(p) \/ p = s
  <2>1. at \in Nat BY <1>2
  <2>2. \A j : j \in 1 .. at' - 1 <=> j \in 1 .. at - 1 \/ j = at BY <1>2, <2>1
  <2> QED BY <1>1, <1>2, <2>2 DEF AlreadyRead
<1>5. CASE p # s
  <2>1. sensor'[p] = sensor[p] /\ slot'[p] = slot[p]
    <3>1. CASE \E ok \in BOOLEAN : sensor[s].status = "Online" /\ Read(s, ok)
      BY <1>5, <3>1, ReadIs
    <3>2. CASE UNCHANGED <<sensor, slot, cycle>> BY <3>2
    <3> QED BY <1>1, <3>1, <3>2, ReadNextIs
  <2> QED BY <1>2, <1>3, <1>4, <1>5, <2>1 DEF Justified, InPhase
<1>6. CASE p = s /\ UNCHANGED <<sensor, slot, cycle>>
           /\ ~(sensor[s].status = "Online" /\ due(s))
  <2>1. Justified(s)' BY <1>2, <1>3, <1>6 DEF Justified
  <2>2. ASSUME slot[s].valid, Required[s] = 0, sensor[s].failures = 0
        PROVE  sinceDefault # MeasurementInterval
    <3>1. sensor[s].status = "Online" BY <1>3, <1>6, <2>2, PhaseValues DEF Justified
    <3>2. ~due(s) BY <1>6, <3>1
    <3> QED BY <2>2, <3>2, PhaseValues, SensorConstants DEF due
  <2>3. InPhase(s)' BY <1>2, <1>3, <1>4, <1>6, <2>2 DEF InPhase
  <2> QED BY <1>6, <2>1, <2>3
<1>7. CASE p = s /\ sensor[s].status = "Online" /\ due(s) /\ \E ok \in BOOLEAN : Read(s, ok)
  <2>1. PICK ok \in BOOLEAN : Read(s, ok) BY <1>7
  <2>2. s \in ToSet(order)
    BY <1>1, <1>2, PlacesAreSensors DEF ReadTypes, SensorTypeOK
  <2>3. CASE ok
    <3>1. sensor'[s].status = "Online" /\ slot'[s].age = 0
      BY <1>7, <2>1, <2>3, ReadIs
    <3>2. Justified(s)' BY <1>2, <2>2, <3>1 DEF Justified
    <3>3. Required[s] = 0 => sinceDefault = MeasurementInterval
      BY <1>7, PhaseValues, SensorConstants DEF due
    <3>4. InPhase(s)' BY <1>2, <1>4, <1>7, <3>1, <3>3 DEF InPhase
    <3> QED BY <1>7, <3>2, <3>4
  <2>4. CASE ~ok
    <3>1. sensor'[s].failures > 0 /\ slot'[s].valid = slot[s].valid
      BY <1>7, <2>1, <2>4, ReadIs
    <3>2. ~(sensor'[s].failures = 0) BY <3>1
    <3>3. Justified(s)' BY <1>2, <2>2, <3>1 DEF Justified
    <3>4. InPhase(s)' BY <3>2 DEF InPhase
    <3> QED BY <1>7, <3>3, <3>4
  <2> QED BY <2>3, <2>4
<1> QED BY <1>1, <1>5, <1>6, <1>7, ReadNextIs

LEMMA PhaseEnd == ReadTypes /\ PhaseInv /\ EndCycle => PhaseInv'
<1> SUFFICES ASSUME ReadTypes, PhaseInv, EndCycle, NEW s \in Sensors
             PROVE  Justified(s)' /\ InPhase(s)'
  BY PhaseParts
<1>1. /\ stage = "reading" /\ stage' = "asleep" /\ order' = order /\ sensor' = sensor
      /\ at > Len(order)
      /\ sinceDefault' = IF sinceDefault >= MeasurementInterval THEN 0 ELSE sinceDefault
  BY DEF EndCycle
<1>2. ~AlreadyRead(s)' BY <1>1 DEF AlreadyRead
<1>3. Justified(s) /\ InPhase(s) BY PhaseParts
<1>4. CASE slot'[s].valid
  <2>1. kept(s) /\ slot'[s] = slot[s] BY <1>4, EndIs
  <2>2. slot[s].valid /\ sensor[s].status = "Online" BY <2>1 DEF kept
  <2>3. AlreadyRead(s)
    <3>1. PICK j \in 1 .. Len(order) : order[j] = s
      BY <1>3, <2>2, PlacesAreSensors DEF Justified, ReadTypes, SensorTypeOK
    <3>2. j \in 1 .. at - 1
      BY <1>1, <3>1, PlacesAreSensors DEF ReadTypes, SensorTypeOK
    <3> QED BY <1>1, <3>1, <3>2 DEF AlreadyRead
  <2>4. Justified(s)' BY <1>1, <1>3, <2>2 DEF Justified
  <2>5. ASSUME Required[s] = 0, sensor[s].failures = 0
        PROVE  slot[s].age = sinceDefault'
    BY <1>1, <1>3, <2>2, <2>3, <2>5, PhaseValues, SensorConstants DEF InPhase
  <2>6. InPhase(s)' BY <1>1, <1>2, <2>1, <2>5 DEF InPhase
  <2> QED BY <2>4, <2>6
<1>5. CASE ~slot'[s].valid BY <1>5 DEF Justified, InPhase
<1> QED BY <1>4, <1>5

LEMMA PhaseNext == ReadTypes /\ PhaseInv /\ [SensorNext]_sensorVars => PhaseInv'
<1> SUFFICES ASSUME ReadTypes, PhaseInv, [SensorNext]_sensorVars PROVE PhaseInv' OBVIOUS
<1>1. CASE task' = task
  BY <1>1 DEF task, data, PhaseInv, AlreadyRead
<1>2. CASE SkipCycle
  <2>1. /\ stage = "awake" /\ stage' = "asleep" /\ order' = order /\ data' = data
    BY <1>2 DEF SkipCycle
  <2> QED BY <2>1 DEF PhaseInv, AlreadyRead, data
<1>3. CASE Elapse BY <1>3, PhaseElapse
<1>4. CASE StartCycle BY <1>4, PhaseStart
<1>5. CASE ReadNext BY <1>5, PhaseRead
<1>6. CASE EndCycle BY <1>6, PhaseEnd
<1> QED BY <1>1, <1>2, <1>3, <1>4, <1>5, <1>6
        DEF SensorNext, TaskStep, DeviceChanges, BusWedges, BusFreed, sensorVars

-----------------------------------------------------------------------------
(* A reading computed from another uses the newest one.                    *)

\* Place f is the first to give something that s needs.
First(o, s, f) ==
    f \in 1 .. Len(o) /\ Feeds(o[f], s) /\ \A i \in 1 .. Len(o) : Feeds(o[i], s) => f <= i
Together(t, s, p) == t[s].valid /\ t[p].valid /\ t[s].age = t[p].age
UsesNewest(s) == \A f : First(order, s, f) /\ Together(slot, s, order[f]) => slot[s].input = 0
ReadInCycle(s) ==
    slot[s].valid /\ slot[s].age = 0 => stage # "awake" /\ (stage = "reading" => AlreadyRead(s))

LEMMA FirstIs ==
    ASSUME NEW o \in Seq(Sensors), NEW s, NEW G, G = {i \in 1 .. Len(o) : Feeds(o[i], s)}
    PROVE  /\ G # {} => First(o, s, Min(G))
           /\ \A f : First(o, s, f) => G # {} /\ f = Min(G)
<1>1. Len(o) \in Nat /\ G \in SUBSET Nat OBVIOUS
<1>2. G # {} => Min(G) \in G /\ \A i \in G : Min(G) <= i BY <1>1, MinIs
<1>3. PICK m : m = Min(G) OBVIOUS
<1>4. G # {} => First(o, s, m) BY <1>2, <1>3 DEF First
<1>5. ASSUME NEW f, First(o, s, f) PROVE G # {} /\ f = m
  <2>1. f \in G BY <1>5 DEF First
  <2>2. m \in G /\ m <= f BY <1>2, <1>3, <2>1
  <2>3. f <= m BY <1>5, <2>2 DEF First
  <2> QED BY <1>1, <2>1, <2>2, <2>3
<1> QED BY <1>3, <1>4, <1>5

LEMMA InputParts ==
    /\ order \in Seq(Sensors) =>
          (InputInv <=> \A s \in Sensors : UsesNewest(s) /\ ReadInCycle(s))
    /\ order' \in Seq(Sensors) =>
          (InputInv' <=> \A s \in Sensors : UsesNewest(s)' /\ ReadInCycle(s)')
<1>1. ASSUME order \in Seq(Sensors), NEW s \in Sensors,
             NEW G, G = {i \in 1 .. Len(order) : Feeds(order[i], s)}
      PROVE  UsesNewest(s) <=> (G # {} /\ Together(slot, s, order[Min(G)]) => slot[s].input = 0)
  BY <1>1, FirstIs DEF UsesNewest
<1>2. ASSUME order' \in Seq(Sensors), NEW s \in Sensors,
             NEW G, G = {i \in 1 .. Len(order') : Feeds(order'[i], s)}
      PROVE  UsesNewest(s)' <=>
                (G # {} /\ Together(slot', s, order'[Min(G)]) => slot'[s].input = 0)
  BY <1>2, FirstIs DEF UsesNewest
<1>3. order \in Seq(Sensors) => (InputsAreCurrent <=> \A s \in Sensors : UsesNewest(s))
  BY <1>1 DEF InputsAreCurrent, Together
<1>4. order' \in Seq(Sensors) => (InputsAreCurrent' <=> \A s \in Sensors : UsesNewest(s)')
  BY <1>2 DEF InputsAreCurrent, Together
<1> QED BY <1>3, <1>4 DEF InputInv, ReadInCycle

LEMMA InputElapse == ReadTypes /\ InputInv /\ Elapse => InputInv'
<1> SUFFICES ASSUME ReadTypes, InputInv, Elapse PROVE InputInv' OBVIOUS
<1>1. PICK dt \in Nat \ {0} : \A s \in Sensors :
        /\ slot'[s].valid = slot[s].valid /\ slot'[s].input = slot[s].input
        /\ slot[s].valid => slot'[s].age = slot[s].age + dt
  BY ElapseIs
<1>2. order' = order /\ order \in Seq(Sensors) /\ stage' = "awake"
  BY DEF Elapse, ReadTypes, SensorTypeOK
<1>3. \A s \in Sensors : slot[s].age \in Nat BY PhaseValues
<1>4. ASSUME NEW s \in Sensors PROVE UsesNewest(s)' /\ ReadInCycle(s)'
  <2>1. UsesNewest(s) BY <1>2, InputParts
  <2>2. ReadInCycle(s)' BY <1>1, <1>3 DEF ReadInCycle
  <2>3. ASSUME NEW f, First(order, s, f), Together(slot', s, order[f])
        PROVE  slot'[s].input = 0
    <3>1. PICK p \in Sensors : p = order[f] BY <1>2, <2>3, PlacesAreSensors DEF First
    <3>2. slot[s].valid /\ slot[p].valid /\ slot[s].age + dt = slot[p].age + dt
      BY <1>1, <2>3, <3>1 DEF Together
    <3>3. Together(slot, s, order[f]) BY <1>3, <3>1, <3>2 DEF Together
    <3> QED BY <1>1, <2>1, <2>3, <3>3 DEF UsesNewest
  <2> QED BY <1>2, <2>2, <2>3 DEF UsesNewest
<1> QED BY <1>2, <1>4, InputParts

\* A read that fails, and a sensor that is passed over, leave what the slots say.
SameReadings ==
    \A s \in Sensors : /\ slot'[s].valid = slot[s].valid /\ slot'[s].age = slot[s].age
                       /\ slot'[s].input = slot[s].input

LEMMA InputRead == ReadTypes /\ InputInv /\ ReadNext => InputInv'
<1> SUFFICES ASSUME ReadTypes, InputInv, ReadNext PROVE InputInv' OBVIOUS
<1>1. PICK q \in Sensors : q = order[at] BY ReadNextIs
<1>2. /\ at \in 1 .. Len(order) /\ at' = at + 1 /\ order' = order /\ order \in Seq(Sensors)
      /\ stage = "reading" /\ stage' = "reading" /\ Len(order) \in Nat
  BY ReadNextIs, PlacesAreSensors DEF ReadTypes, SensorTypeOK
<1>3. \A i, j \in 1 .. Len(order) : order[i] = order[j] => i = j
  BY DEF ReadTypes, ReadInv, InOrder
<1>4. \A i, j \in 1 .. Len(order) :
        Feeds(order[i], order[j]) => \E k \in 1 .. j - 1 : Feeds(order[k], order[j])
  BY DEF ReadTypes, ReadInv, InOrder
<1>5. \A s : AlreadyRead(s)' <=> AlreadyRead(s) \/ s = q
  <2>1. \A j : j \in 1 .. at' - 1 <=> j \in 1 .. at - 1 \/ j = at BY <1>2
  <2> QED BY <1>1, <1>2, <2>1 DEF AlreadyRead
<1>6. CASE SameReadings
  <2>1. ASSUME NEW s \in Sensors PROVE UsesNewest(s)' /\ ReadInCycle(s)'
    <3>1. UsesNewest(s) /\ ReadInCycle(s) BY <1>2, InputParts
    <3>2. ReadInCycle(s)' BY <1>2, <1>5, <1>6, <3>1 DEF ReadInCycle, SameReadings
    <3>3. ASSUME NEW f, First(order, s, f), Together(slot', s, order[f])
          PROVE  slot'[s].input = 0
      <4>1. PICK p \in Sensors : p = order[f] BY <1>2, <3>3, PlacesAreSensors DEF First
      <4>2. Together(slot, s, order[f]) BY <1>6, <3>3, <4>1 DEF Together, SameReadings
      <4> QED BY <1>6, <3>1, <3>3, <4>2 DEF UsesNewest, SameReadings
    <3> QED BY <1>2, <3>2, <3>3 DEF UsesNewest
  <2> QED BY <1>2, <2>1, InputParts
<1>7. CASE sensor[q].status = "Online" /\ Read(q, TRUE)
  <2>1. /\ slot'[q].valid /\ slot'[q].age = 0 /\ slot'[q].input = InputAge(q)
        /\ \A p \in Sensors \ {q} : slot'[p] = slot[p]
    BY <1>7, ReadIs
  <2>2. ASSUME NEW s \in Sensors PROVE ReadInCycle(s)'
    <3>1. ReadInCycle(s) BY <1>2, InputParts
    <3> QED BY <1>2, <1>5, <2>1, <3>1 DEF ReadInCycle
  <2>3. ASSUME NEW s \in Sensors, NEW f, First(order, s, f), Together(slot', s, order[f])
        PROVE  slot'[s].input = 0
    <3>1. PICK p \in Sensors : p = order[f] BY <1>2, <2>3, PlacesAreSensors DEF First
    <3>2. f \in 1 .. Len(order) /\ Feeds(order[f], s) BY <2>3 DEF First
    <3>3. \A j \in 1 .. Len(order) : order[j] = s => f < j
      <4> SUFFICES ASSUME NEW j \in 1 .. Len(order), order[j] = s PROVE f < j OBVIOUS
      <4>1. PICK k \in 1 .. j - 1 : Feeds(order[k], s) BY <1>4, <3>2
      <4>2. k \in 1 .. Len(order) /\ k < j BY <1>2, <4>1
      <4>3. f <= k BY <2>3, <4>1, <4>2 DEF First
      <4> QED BY <1>2, <3>2, <4>2, <4>3
    <3>4. CASE s = q
      <4>1. f < at BY <1>1, <1>2, <3>3, <3>4
      <4>2. p # q BY <1>1, <1>2, <1>3, <3>1, <3>2, <4>1
      <4>3. slot[p].valid /\ slot[p].age = 0 BY <2>1, <2>3, <3>1, <3>4, <4>2 DEF Together
      <4>4. slot[order[f]].valid BY <3>1, <4>3
      <4>5. \A i \in 1 .. Len(order) : Feeds(order[i], q) => f <= i BY <2>3, <3>4 DEF First
      <4>6. SensorTypeOK BY DEF ReadTypes
      <4>7. InputAge(q) = slot[order[f]].age
        BY <3>2, <3>4, <4>4, <4>5, <4>6, InputAgeIs
      <4> QED BY <2>1, <3>1, <3>4, <4>3, <4>7
    <3>5. CASE s # q /\ p = q
      <4>1. f = at BY <1>1, <1>2, <1>3, <3>1, <3>2, <3>5
      <4>2. slot[s].valid /\ slot[s].age = 0 BY <2>1, <2>3, <3>1, <3>5 DEF Together
      <4>3. AlreadyRead(s) BY <1>2, <4>2, InputParts DEF ReadInCycle
      <4>4. PICK j \in 1 .. at - 1 : order[j] = s BY <4>3 DEF AlreadyRead
      <4>5. j \in 1 .. Len(order) /\ j < at BY <1>2, <4>4
      <4>6. f < j BY <3>3, <4>4, <4>5
      <4> QED BY <1>2, <4>1, <4>5, <4>6
    <3>6. CASE s # q /\ p # q
      <4>1. slot'[s] = slot[s] /\ slot'[p] = slot[p] BY <2>1, <3>6
      <4>2. Together(slot, s, order[f]) BY <2>3, <3>1, <4>1 DEF Together
      <4>3. UsesNewest(s) BY <1>2, InputParts
      <4> QED BY <2>3, <4>1, <4>2, <4>3 DEF UsesNewest
    <3> QED BY <3>4, <3>5, <3>6
  <2>4. \A s \in Sensors : UsesNewest(s)' BY <1>2, <2>3 DEF UsesNewest
  <2> QED BY <1>2, <2>2, <2>4, InputParts
<1>8. CASE UNCHANGED <<sensor, slot, cycle>>
  <2>1. SameReadings BY <1>8 DEF SameReadings
  <2> QED BY <1>6, <2>1
<1>9. CASE sensor[q].status = "Online" /\ Read(q, FALSE)
  <2>1. SameReadings BY <1>9, ReadIs DEF SameReadings
  <2> QED BY <1>6, <2>1
<1> QED BY <1>1, <1>7, <1>8, <1>9, ReadNextIs

LEMMA InputEnd == ReadTypes /\ InputInv /\ EndCycle => InputInv'
<1> SUFFICES ASSUME ReadTypes, InputInv, EndCycle PROVE InputInv' OBVIOUS
<1>1. order' = order /\ order \in Seq(Sensors) /\ stage' = "asleep"
  BY DEF EndCycle, ReadTypes, SensorTypeOK
<1>2. \A s \in Sensors : slot'[s].valid => slot[s].valid /\ slot'[s] = slot[s]
  BY EndIs DEF kept
<1>3. ASSUME NEW s \in Sensors PROVE UsesNewest(s)' /\ ReadInCycle(s)'
  <2>1. UsesNewest(s) BY <1>1, InputParts
  <2>2. ReadInCycle(s)' BY <1>1 DEF ReadInCycle
  <2>3. ASSUME NEW f, First(order, s, f), Together(slot', s, order[f])
        PROVE  slot'[s].input = 0
    <3>1. PICK p \in Sensors : p = order[f] BY <1>1, <2>3, PlacesAreSensors DEF First
    <3>2. slot'[s] = slot[s] /\ slot'[p] = slot[p] BY <1>2, <2>3, <3>1 DEF Together
    <3>3. Together(slot, s, order[f]) BY <2>3, <3>1, <3>2 DEF Together
    <3> QED BY <2>1, <2>3, <3>2, <3>3 DEF UsesNewest
  <2> QED BY <1>1, <2>2, <2>3 DEF UsesNewest
<1> QED BY <1>1, <1>3, InputParts

LEMMA InputNext == ReadTypes /\ InputInv /\ [SensorNext]_sensorVars => InputInv'
<1> SUFFICES ASSUME ReadTypes, InputInv, [SensorNext]_sensorVars PROVE InputInv' OBVIOUS
<1>1. CASE task' = task
  BY <1>1 DEF task, data, InputInv, InputsAreCurrent, AlreadyRead
<1>2. CASE SkipCycle
  <2>1. /\ stage = "awake" /\ stage' = "asleep" /\ order' = order /\ slot' = slot
    BY <1>2 DEF SkipCycle, data
  <2> QED BY <2>1 DEF InputInv, InputsAreCurrent, AlreadyRead
<1>3. CASE StartCycle
  <2>1. /\ stage = "awake" /\ stage' = "reading" /\ order' = order /\ slot' = slot
    BY <1>3 DEF StartCycle
  <2> QED BY <2>1 DEF InputInv, InputsAreCurrent, AlreadyRead
<1>4. CASE Elapse BY <1>4, InputElapse
<1>5. CASE ReadNext BY <1>5, InputRead
<1>6. CASE EndCycle BY <1>6, InputEnd
<1> QED BY <1>1, <1>2, <1>3, <1>4, <1>5, <1>6
        DEF SensorNext, TaskStep, DeviceChanges, BusWedges, BusFreed, sensorVars

-----------------------------------------------------------------------------
(* What holds of every cycle, for any set of sensors, any drivers and any  *)
(* intervals, provided that sorting puts the configurations in order:      *)
(* SortsRight is about what two nested loops compute of a sequence.        *)

LEMMA NothingYet ==
    SensorInit => PublishedIsFresh /\ PhaseInv /\ (order \in Seq(Sensors) => InputInv)
<1> SUFFICES ASSUME SensorInit
             PROVE  PublishedIsFresh /\ PhaseInv /\ (order \in Seq(Sensors) => InputInv)
  OBVIOUS
<1>1. \A s \in Sensors : published[s] = Absent /\ slot[s].valid = FALSE
  BY DEF SensorInit
<1>2. PublishedIsFresh BY <1>1 DEF PublishedIsFresh
<1>3. PhaseInv BY <1>1 DEF PhaseInv
<1>4. \A s \in Sensors : UsesNewest(s) /\ ReadInCycle(s)
  BY <1>1 DEF UsesNewest, ReadInCycle, Together
<1> QED BY <1>2, <1>3, <1>4, InputParts

LEMMA SensorInvariance ==
    ASSUME SortsRight
    PROVE  SensorSpec => []((ReadTypes /\ PublishedIsFresh) /\ (PhaseInv /\ InputInv))
<1> DEFINE Inv == (ReadTypes /\ PublishedIsFresh) /\ (PhaseInv /\ InputInv)
<1>1. SensorInit => Inv
  <2>1. ReadTypes => order \in Seq(Sensors) BY DEF ReadTypes, SensorTypeOK
  <2> QED BY <2>1, SensorInitTypes, NothingYet
<1>2. Inv /\ [SensorNext]_sensorVars => Inv'
  BY SensorStepTypes, FreshNext, PhaseNext, InputNext
<1> HIDE DEF Inv
<1>3. SensorSpec => []Inv BY <1>1, <1>2, PTL DEF SensorSpec
<1> QED BY <1>3 DEF Inv

LEMMA BetweenCycles == PhaseInv => CoherentPhase
<1> SUFFICES ASSUME PhaseInv, stage # "reading", NEW s \in Sensors,
                    slot[s].valid, Required[s] = 0, sensor[s].failures = 0
             PROVE  \/ slot[s].age = sinceDefault
                    \/ sinceDefault = MeasurementInterval /\ slot[s].age >= sinceDefault
  BY DEF CoherentPhase
<1>1. ~AlreadyRead(s) BY DEF AlreadyRead
<1> QED BY <1>1 DEF PhaseInv

\* Every variable of the task keeps its type; the loop over the sensors starts over with
\* each cycle and reads no sensor whose failures have reached the threshold.
THEOREM SensorTypeCorrect == ASSUME SortsRight PROVE SensorSpec => [](SensorTypeOK /\ ReadInv)
<1>1. (ReadTypes /\ PublishedIsFresh) /\ (PhaseInv /\ InputInv) => SensorTypeOK /\ ReadInv
  BY DEF ReadTypes
<1> QED BY <1>1, SensorInvariance, PTL

\* However reads fail, sensors fall silent, the bus wedges and cycles are skipped, what
\* the control loop, MQTT and the display get of a sensor was at most ExpiryIntervals of
\* its intervals old when it was published (readSensors, phases 2 and 3).
THEOREM PublishedStaysFresh == ASSUME SortsRight PROVE SensorSpec => []PublishedIsFresh
<1>1. (ReadTypes /\ PublishedIsFresh) /\ (PhaseInv /\ InputInv) => PublishedIsFresh OBVIOUS
<1> QED BY <1>1, SensorInvariance, PTL

\* All sensors without an interval of their own are read on one phase, whenever each of
\* them failed and came back and however late the ticks were (lastDefaultReadMs_).
THEOREM PhaseIsShared == ASSUME SortsRight PROVE SensorSpec => []CoherentPhase
<1>1. (ReadTypes /\ PublishedIsFresh) /\ (PhaseInv /\ InputInv) => CoherentPhase
  BY BetweenCycles
<1> QED BY <1>1, SensorInvariance, PTL

\* A reading computed from another sensor's, obtained in the same cycle, used the value
\* of that cycle (sortSensors, and readSensors taking its inputs from the valid slots).
THEOREM InputsStayCurrent == ASSUME SortsRight PROVE SensorSpec => []InputsAreCurrent
<1>1. (ReadTypes /\ PublishedIsFresh) /\ (PhaseInv /\ InputInv) => InputsAreCurrent
  BY DEF InputInv
<1> QED BY <1>1, SensorInvariance, PTL
=============================================================================
