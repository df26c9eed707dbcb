------------------------ MODULE RelayAutotunerProofs ------------------------
(***************************************************************************)
(* Proofs about RelayAutotuner for any readings, limits and tolerances.    *)
(***************************************************************************)
EXTENDS RelayAutotuner, TLAPS

LEMMA Constants ==
    /\ \A t \in Temps : t \in Int
    /\ Hysteresis \in Nat /\ Hysteresis > 0 /\ Ceiling \in Nat /\ Floor \in Nat /\ Rate \in Nat
    /\ SettlingTimeout \in Nat /\ MaxDuration \in Nat /\ MaxStep \in Nat
    /\ Required \in Nat /\ Required >= 2
BY AutotunerAssumption

LEMMA Blank ==
    /\ NoSample \in Samples /\ NoCycle \in CyclesInProgress /\ NoLast \in LastCycles
    /\ NoEvidence \in Evidence /\ <<>> \in Seq(Cycles) /\ 0 \in Nat /\ 0 \in 0 .. 2
    /\ ~NoCycle.have
<1>1. FALSE \in BOOLEAN /\ 0 \in Nat /\ 0 \in Int OBVIOUS
<1> QED BY <1>1 DEF NoSample, NoCycle, NoLast, NoEvidence, Samples, CyclesInProgress,
                    LastCycles, Evidence

-----------------------------------------------------------------------------
(* The log: one more cycle in front of it, the oldest dropped               *)

Pushed(c, s, n) == SubSeq(<<c>> \o s, 1, n)

LEMMA PushedLog ==
    ASSUME NEW c \in Cycles, NEW s \in Seq(Cycles), NEW n \in 1 .. Len(s) + 1
    PROVE  /\ Pushed(c, s, n) \in Seq(Cycles) /\ Len(Pushed(c, s, n)) = n
           /\ Pushed(c, s, n)[1] = c
           /\ \A i \in 1 .. n - 1 : Pushed(c, s, n)[i + 1] = s[i]
<1> DEFINE whole == <<c>> \o s
<1>1. /\ whole \in Seq(Cycles) /\ Len(whole) = Len(s) + 1 /\ Len(s) \in Nat
      /\ whole[1] = c /\ \A i \in 1 .. Len(s) : whole[i + 1] = s[i]
  OBVIOUS
<1>2. Pushed(c, s, n) = SubSeq(whole, 1, n) BY DEF Pushed
<1> HIDE DEF whole
<1>3. /\ SubSeq(whole, 1, n) \in Seq(Cycles) /\ Len(SubSeq(whole, 1, n)) = n
      /\ \A i \in 1 .. n : SubSeq(whole, 1, n)[i] = whole[i]
  BY <1>1
<1> QED BY <1>1, <1>2, <1>3

-----------------------------------------------------------------------------
(* Sums.  Total is a recursive function, and what one computes for every n   *)
(* takes induction; here the invariant carries it, one cycle a step.         *)

LEMMA TotalUnfolded ==
    ASSUME NEW q, NEW n, NEW s, TotalIs(q, n, s)
    PROVE  Total(q, n) = s
<1>1. \E f : f = [i \in 0 .. n |-> IF i = 0 THEN 0 ELSE f[i - 1] + q[n + 1 - i]]
  BY DEF TotalIs, Accumulates
<1>2. \A f : f = [i \in 0 .. n |-> IF i = 0 THEN 0 ELSE f[i - 1] + q[n + 1 - i]] => f[n] = s
  BY DEF TotalIs, Accumulates
<1> QED BY <1>1, <1>2 DEF Total

LEMMA TotalOfOne ==
    ASSUME NEW q, NEW s \in Int, q[1] = s
    PROVE  TotalIs(q, 1, s)
<1> DEFINE g == [i \in 0 .. 1 |-> IF i = 0 THEN 0 ELSE s]
<1>1. Accumulates(g, q, 1)
  <2>1. \A i \in 0 .. 1 : g[i] = IF i = 0 THEN 0 ELSE g[i - 1] + q[1 + 1 - i] OBVIOUS
  <2> QED BY <2>1 DEF Accumulates
<1>2. ASSUME NEW f, Accumulates(f, q, 1) PROVE f[1] = s
  <2>1. \A i \in 0 .. 1 : f[i] = IF i = 0 THEN 0 ELSE f[i - 1] + q[1 + 1 - i]
    BY <1>2 DEF Accumulates
  <2>2. f[0] = 0 /\ f[1] = f[1 - 1] + q[1 + 1 - 1] BY <2>1
  <2> QED BY <2>2
<1> QED BY <1>1, <1>2 DEF TotalIs

\* A newer cycle in front adds to the sum.
LEMMA TotalExtended ==
    ASSUME NEW q, NEW n \in Nat, NEW s \in Int, TotalIs(q, n, s),
           NEW r, NEW x \in Int, r[1] = x, \A i \in 1 .. n : r[i + 1] = q[i]
    PROVE  TotalIs(r, n + 1, s + x)
<1>1. PICK f : Accumulates(f, q, n) BY DEF TotalIs
<1>2. \A i \in 0 .. n : f[i] = IF i = 0 THEN 0 ELSE f[i - 1] + q[n + 1 - i]
  BY <1>1 DEF Accumulates
<1>3. f[n] = s BY <1>1 DEF TotalIs
<1>4. \A i \in 1 .. n : r[(n + 1) + 1 - i] = q[n + 1 - i]
  <2> TAKE i \in 1 .. n
  <2>1. n + 1 - i \in 1 .. n /\ (n + 1 - i) + 1 = (n + 1) + 1 - i OBVIOUS
  <2> QED BY <2>1
<1> DEFINE g == [i \in 0 .. n + 1 |-> IF i = n + 1 THEN s + x ELSE f[i]]
<1>5. Accumulates(g, r, n + 1)
  <2>1. ASSUME NEW i \in 0 .. n + 1
        PROVE  g[i] = IF i = 0 THEN 0 ELSE g[i - 1] + r[(n + 1) + 1 - i]
    <3>1. CASE i = 0 BY <1>2, <3>1
    <3>2. CASE i = n + 1
      <4>1. g[i] = s + x /\ g[i - 1] = s /\ r[(n + 1) + 1 - i] = x BY <1>3, <3>2
      <4> QED BY <3>2, <4>1
    <3>3. CASE i \in 1 .. n
      <4>1. g[i] = f[i] /\ g[i - 1] = f[i - 1] BY <3>3
      <4>2. f[i] = f[i - 1] + q[n + 1 - i] BY <1>2, <3>3
      <4> QED BY <1>4, <3>3, <4>1, <4>2
    <3> QED BY <3>1, <3>2, <3>3
  <2> HIDE DEF g
  <2>2. g = [i \in 0 .. n + 1 |-> g[i]] BY DEF g
  <2> QED BY <2>1, <2>2 DEF Accumulates
<1>6. ASSUME NEW h, Accumulates(h, r, n + 1) PROVE h[n + 1] = s + x
  <2>1. \A i \in 0 .. n + 1 : h[i] = IF i = 0 THEN 0 ELSE h[i - 1] + r[(n + 1) + 1 - i]
    BY <1>6 DEF Accumulates
  <2> DEFINE k == [i \in 0 .. n |-> h[i]]
  <2>2. Accumulates(k, q, n)
    <3>1. ASSUME NEW i \in 0 .. n
          PROVE  k[i] = IF i = 0 THEN 0 ELSE k[i - 1] + q[n + 1 - i]
      <4>1. CASE i = 0 BY <2>1, <4>1
      <4>2. CASE i \in 1 .. n
        <5>1. k[i] = h[i] /\ k[i - 1] = h[i - 1] BY <4>2
        <5>2. h[i] = h[i - 1] + r[(n + 1) + 1 - i] BY <2>1, <4>2
        <5> QED BY <1>4, <4>2, <5>1, <5>2
      <4> QED BY <4>1, <4>2
    <3> HIDE DEF k
    <3>2. k = [i \in 0 .. n |-> k[i]] BY DEF k
    <3> QED BY <3>1, <3>2 DEF Accumulates
  <2>3. k[n] = s BY <2>2 DEF TotalIs
  <2>4. h[n] = s BY <2>3
  <2>5. h[n + 1] = h[(n + 1) - 1] + r[(n + 1) + 1 - (n + 1)] BY <2>1
  <2>6. (n + 1) - 1 = n /\ (n + 1) + 1 - (n + 1) = 1 OBVIOUS
  <2> QED BY <2>4, <2>5, <2>6
<1> QED BY <1>5, <1>6 DEF TotalIs
-----------------------------------------------------------------------------
(* Types                                                                    *)

LEMMA ForgetTyped ==
    ASSUME Forget
    PROVE  /\ sinceStart' \in Nat /\ settling' \in Samples /\ cycle' \in CyclesInProgress
           /\ last' \in LastCycles /\ evidence' \in Evidence /\ measured' \in 0 .. 2
           /\ ~cycle'.have
BY Blank DEF Forget

LEMMA AbortTyped ==
    ASSUME TypeOK, NEW why \in Session!AbortReasons, Abort(why)
    PROVE  TypeOK'
<1>1. why # "None" BY DEF Session!AbortReasons, Session!Breaches
<1>2. FALSE \in BOOLEAN OBVIOUS
<1> QED BY <1>1, <1>2, ForgetTyped, Blank DEF TypeOK, Abort

\* What a closing cycle measures, and the evidence with it.
LEMMA EvidenceTyped ==
    ASSUME TypeOK, NEW period \in Nat, NEW swing \in Nat
    PROVE  Recorded(period, swing) \in Evidence
<1>1. evidence \in Evidence /\ last \in LastCycles BY DEF TypeOK
<1>2. /\ last.period + period \in Nat /\ last.swing + swing \in Nat /\ 2 \in Nat
      /\ evidence.cycles + 1 \in Nat /\ evidence.period + period \in Nat
      /\ evidence.swing + swing \in Nat
  BY <1>1 DEF Evidence, LastCycles
<1>3. CASE ~Consistent(period, swing) BY <1>3, Blank DEF Recorded
<1>4. CASE Consistent(period, swing) /\ evidence.cycles = 0
  BY <1>2, <1>4 DEF Recorded, Evidence
<1>5. CASE Consistent(period, swing) /\ evidence.cycles # 0
  BY <1>2, <1>5 DEF Recorded, Evidence
<1> QED BY <1>3, <1>4, <1>5

\* The cycle in progress after one more reading.
Grown(t, dt) ==
    IF ~cycle.have THEN cycle
    ELSE [cycle EXCEPT !.age = @ + dt, !.max = IF t > @ THEN t ELSE @,
                       !.min = IF t < @ THEN t ELSE @]
Closes(t) == ~relayOn /\ RelayAt(t) /\ cycle.have
Measured(t, dt) == [period |-> Grown(t, dt).age, swing |-> Grown(t, dt).max - Grown(t, dt).min]
Logged(t, dt) ==
    SubSeq(<<Measured(t, dt)>> \o log, 1, IF Len(log) < Required THEN Len(log) + 1 ELSE Required)
Evident(t, dt) == Recorded(Measured(t, dt).period, Measured(t, dt).swing)

\* Oscillate in these terms.
Measures(t, dt) ==
    IF sinceStart + dt > MaxDuration THEN Abort("RunTimeout")
    ELSE IF Closes(t) /\ Converged(Evident(t, dt)) THEN Finish(Evident(t, dt), Logged(t, dt))
    ELSE /\ relayOn' = RelayAt(t)
         /\ sinceStart' = sinceStart + dt
         /\ cycle' = IF ~relayOn /\ RelayAt(t)
                     THEN [have |-> TRUE, age |-> 0, max |-> t, min |-> t] ELSE Grown(t, dt)
         /\ IF Closes(t)
            THEN /\ last' = [count |-> last.count + 1, period |-> Measured(t, dt).period,
                             swing |-> Measured(t, dt).swing]
                 /\ evidence' = Evident(t, dt)
                 /\ log' = Logged(t, dt)
            ELSE UNCHANGED <<last, evidence, log>>
         /\ measured' = 0
         /\ UNCHANGED <<state, reason, settling, result>>

LEMMA OscillateMeasures ==
    ASSUME NEW t, NEW dt, Oscillate(t, dt)
    PROVE  state = "Oscillating" /\ Measures(t, dt)
BY DEF Oscillate, Measures, Closes, Logged, Evident, Measured, Grown

LEMMA GrownTyped ==
    ASSUME TypeOK, NEW t \in Temps, NEW dt \in 1 .. MaxStep
    PROVE  /\ Grown(t, dt) \in CyclesInProgress
           /\ Grown(t, dt).have = cycle.have
           /\ cycle.have => /\ Grown(t, dt).max >= t /\ Grown(t, dt).max >= cycle.max
                            /\ Grown(t, dt).min <= t /\ Grown(t, dt).min <= cycle.min
<1>1. cycle \in CyclesInProgress /\ t \in Int /\ dt \in Nat BY Constants DEF TypeOK
<1>2. CASE ~cycle.have BY <1>1, <1>2 DEF Grown
<1>3. CASE cycle.have
  <2> DEFINE high == IF t > cycle.max THEN t ELSE cycle.max
             low == IF t < cycle.min THEN t ELSE cycle.min
  <2>1. Grown(t, dt) = [cycle EXCEPT !.age = cycle.age + dt, !.max = high, !.min = low]
    BY <1>3 DEF Grown
  <2>2. /\ cycle.age + dt \in Nat /\ high \in Int /\ low \in Int
        /\ high >= t /\ high >= cycle.max /\ low <= t /\ low <= cycle.min
    BY <1>1 DEF CyclesInProgress
  <2> HIDE DEF high, low
  <2> QED BY <1>1, <2>1, <2>2 DEF CyclesInProgress
<1> QED BY <1>2, <1>3

LEMMA MeasuredTyped ==
    ASSUME TypeOK, NEW t \in Temps, NEW dt \in 1 .. MaxStep, cycle.have
    PROVE  /\ Measured(t, dt) \in Cycles
           /\ Measured(t, dt).period \in Nat /\ Measured(t, dt).swing \in Nat
           /\ Measured(t, dt).swing = Grown(t, dt).max - Grown(t, dt).min
           /\ Evident(t, dt) \in Evidence
<1>1. t \in Int BY Constants
<1>2. Grown(t, dt).age \in Nat /\ Grown(t, dt).max - Grown(t, dt).min \in Nat
  <2>1. PICK g : g = Grown(t, dt) OBVIOUS
  <2>2. g \in CyclesInProgress /\ g.max >= t /\ g.min <= t BY <2>1, GrownTyped
  <2>3. g.age \in Nat /\ g.max \in Int /\ g.min \in Int BY <2>2 DEF CyclesInProgress
  <2>4. g.max - g.min \in Nat BY <1>1, <2>2, <2>3
  <2> QED BY <2>1, <2>3, <2>4
<1>3. /\ Measured(t, dt) \in Cycles
      /\ Measured(t, dt).period \in Nat /\ Measured(t, dt).swing \in Nat
      /\ Measured(t, dt).swing = Grown(t, dt).max - Grown(t, dt).min
  BY <1>2 DEF Measured, Cycles
<1> QED BY <1>3, EvidenceTyped DEF Evident

LEMMA LoggedTyped ==
    ASSUME TypeOK, NEW t \in Temps, NEW dt \in 1 .. MaxStep, cycle.have
    PROVE  /\ Logged(t, dt) \in Seq(Cycles)
           /\ Len(Logged(t, dt)) = IF Len(log) < Required THEN Len(log) + 1 ELSE Required
           /\ Logged(t, dt)[1] = Measured(t, dt)
           /\ \A i \in 1 .. Len(Logged(t, dt)) - 1 : Logged(t, dt)[i + 1] = log[i]
<1>1. Measured(t, dt) \in Cycles /\ log \in Seq(Cycles) BY MeasuredTyped DEF TypeOK
<1>2. PICK n : n = IF Len(log) < Required THEN Len(log) + 1 ELSE Required OBVIOUS
<1>3. Logged(t, dt) = Pushed(Measured(t, dt), log, n) BY <1>2 DEF Logged, Pushed
<1>4. n \in 1 .. Len(log) + 1 /\ Len(log) \in Nat BY <1>1, <1>2, Constants
<1>5. \A c \in Cycles :
         /\ Pushed(c, log, n) \in Seq(Cycles) /\ Len(Pushed(c, log, n)) = n
         /\ Pushed(c, log, n)[1] = c
         /\ \A i \in 1 .. n - 1 : Pushed(c, log, n)[i + 1] = log[i]
  BY <1>1, <1>4, PushedLog
<1>6. /\ Logged(t, dt) \in Seq(Cycles) /\ Len(Logged(t, dt)) = n
      /\ Logged(t, dt)[1] = Measured(t, dt)
      /\ \A i \in 1 .. n - 1 : Logged(t, dt)[i + 1] = log[i]
  <2>1. Measured(t, dt) \in Cycles BY <1>1
  <2>2. PICK c \in Cycles : c = Measured(t, dt) BY <2>1
  <2>3. PICK s : s = Pushed(c, log, n) OBVIOUS
  <2>4. s \in Seq(Cycles) /\ Len(s) = n /\ s[1] = c /\ \A i \in 1 .. n - 1 : s[i + 1] = log[i]
    BY <1>5, <2>3
  <2>5. Logged(t, dt) = s BY <1>3, <2>2, <2>3
  <2> QED BY <2>2, <2>4, <2>5
<1>7. \A i \in 1 .. Len(Logged(t, dt)) - 1 : Logged(t, dt)[i + 1] = log[i] BY <1>6, Zenon
<1> QED BY <1>2, <1>6, <1>7

LEMMA RelayAtTyped == ASSUME NEW t \in Temps, TypeOK PROVE RelayAt(t) \in BOOLEAN
<1>1. t \in Int /\ relayOn \in BOOLEAN BY Constants DEF TypeOK
<1>2. CASE relayOn BY <1>1, <1>2, Constants DEF RelayAt
<1>3. CASE ~relayOn BY <1>1, <1>3, Constants DEF RelayAt
<1> QED BY <1>2, <1>3

LEMMA SettleTyped ==
    ASSUME TypeOK, NEW t \in Temps, NEW dt \in 1 .. MaxStep, Settle(t, dt), ~SettledTooLong(dt)
    PROVE  /\ state' \in {"Settling", "Oscillating"} /\ TypeOK'
           /\ UNCHANGED <<reason, cycle, last, evidence, result, log>>
           /\ sinceStart' = sinceStart + dt
<1>1. PICK steady : steady = (/\ settling.have
                              /\ t - settling.temp < Rate * (settling.age + dt)
                              /\ settling.temp - t < Rate * (settling.age + dt))
  OBVIOUS
<1>2. /\ state = "Settling"
      /\ state' = IF steady THEN "Oscillating" ELSE "Settling"
      /\ settling' = IF steady THEN NoSample ELSE [have |-> TRUE, temp |-> t, age |-> 0]
      /\ relayOn' = (steady \/ relayOn)
      /\ sinceStart' = sinceStart + dt
      /\ measured' \in {IF measured = 2 THEN 2 ELSE measured + 1} \cup
                       (IF settling.have /\ t = settling.temp THEN {measured} ELSE {})
      /\ UNCHANGED <<reason, cycle, last, evidence, result, log>>
  BY <1>1 DEF Settle
<1> HIDE <1>1
<1>3. settling' \in Samples
  <2>1. t \in Int /\ TRUE \in BOOLEAN /\ 0 \in Nat BY Constants
  <2>2. [have |-> TRUE, temp |-> t, age |-> 0] \in Samples BY <2>1 DEF Samples
  <2> QED BY <1>2, <2>2, Blank
<1>4. measured' \in 0 .. 2
  <2>1. measured \in 0 .. 2 BY DEF TypeOK
  <2> QED BY <1>2, <2>1
<1>5. sinceStart' \in Nat BY <1>2, Constants DEF TypeOK
<1>6. relayOn' \in BOOLEAN BY <1>2
<1> QED BY <1>2, <1>3, <1>4, <1>5, <1>6 DEF TypeOK

LEMMA MeasuresTyped ==
    ASSUME TypeOK, NEW t \in Temps, NEW dt \in 1 .. MaxStep, state = "Oscillating",
           Measures(t, dt)
    PROVE  TypeOK'
<1>1. CASE sinceStart + dt > MaxDuration
  <2>1. Abort("RunTimeout") BY <1>1 DEF Measures
  <2> QED BY <2>1, AbortTyped DEF Session!AbortReasons, Session!Breaches
<1>2. CASE ~(sinceStart + dt > MaxDuration) /\ Closes(t) /\ Converged(Evident(t, dt))
  <2>1. Finish(Evident(t, dt), Logged(t, dt)) BY <1>2 DEF Measures
  <2>2. CASE Abort("AmplitudeTooSmall")
    BY <2>2, AbortTyped DEF Session!AbortReasons, Session!Breaches
  <2>3. CASE ~Abort("AmplitudeTooSmall")
    <3>1. /\ state' = "Done" /\ relayOn' = FALSE /\ result' = Evident(t, dt)
          /\ log' = Logged(t, dt) /\ Forget /\ UNCHANGED reason
      BY <2>1, <2>3 DEF Finish
    <3>2. result' \in Evidence /\ log' \in Seq(Cycles) /\ FALSE \in BOOLEAN
      BY <1>2, <3>1, MeasuredTyped, LoggedTyped DEF Closes
    <3>3. reason' = "None" /\ reason' \in Session!AbortReasons \cup {"None"}
      BY <3>1 DEF TypeOK
    <3> QED BY <3>1, <3>2, <3>3, ForgetTyped DEF TypeOK
  <2> QED BY <2>2, <2>3
<1>3. CASE ~(sinceStart + dt > MaxDuration) /\ ~(Closes(t) /\ Converged(Evident(t, dt)))
  <2>1. /\ relayOn' = RelayAt(t)
        /\ sinceStart' = sinceStart + dt
        /\ cycle' = IF ~relayOn /\ RelayAt(t)
                    THEN [have |-> TRUE, age |-> 0, max |-> t, min |-> t] ELSE Grown(t, dt)
        /\ IF Closes(t)
           THEN /\ last' = [count |-> last.count + 1, period |-> Measured(t, dt).period,
                            swing |-> Measured(t, dt).swing]
                /\ evidence' = Evident(t, dt)
                /\ log' = Logged(t, dt)
           ELSE UNCHANGED <<last, evidence, log>>
        /\ measured' = 0
        /\ UNCHANGED <<state, reason, settling, result>>
    BY <1>3 DEF Measures
  <2>2. cycle' \in CyclesInProgress
    <3>1. t \in Int /\ TRUE \in BOOLEAN /\ 0 \in Nat BY Constants
    <3>2. [have |-> TRUE, age |-> 0, max |-> t, min |-> t] \in CyclesInProgress
      BY <3>1 DEF CyclesInProgress
    <3> QED BY <2>1, <3>2, GrownTyped
  <2>3. last' \in LastCycles /\ evidence' \in Evidence /\ log' \in Seq(Cycles)
    <3>1. CASE Closes(t)
      <4>1. cycle.have /\ last.count + 1 \in Nat BY <3>1 DEF Closes, TypeOK, LastCycles
      <4>2. evidence' \in Evidence /\ log' \in Seq(Cycles)
        BY <2>1, <3>1, <4>1, MeasuredTyped, LoggedTyped
      <4>3. Measured(t, dt).period \in Nat /\ Measured(t, dt).swing \in Nat
        BY <4>1, MeasuredTyped
      <4>4. last' = [count |-> last.count + 1, period |-> Measured(t, dt).period,
                     swing |-> Measured(t, dt).swing]
        BY <2>1, <3>1
      <4>5. last' \in LastCycles BY <4>1, <4>3, <4>4 DEF LastCycles
      <4> QED BY <4>2, <4>5
    <3>2. CASE ~Closes(t) BY <2>1, <3>2 DEF TypeOK
    <3> QED BY <3>1, <3>2
  <2>4. sinceStart' \in Nat BY <2>1, Constants DEF TypeOK
  <2> QED BY <2>1, <2>2, <2>3, <2>4, RelayAtTyped, Blank DEF TypeOK
<1> QED BY <1>1, <1>2, <1>3

\* An update ends the run for a reason of its own, settles, or measures.
Reasons == Session!Breaches \cup {"SensorLost"}

LEMMA UpdateCases ==
    ASSUME Update
    PROVE  /\ Active
           /\ \/ \E why \in Reasons : Abort(why)
              \/ \E t \in Temps, dt \in 1 .. MaxStep : Settle(t, dt) /\ ~SettledTooLong(dt)
              \/ \E t \in Temps, dt \in 1 .. MaxStep :
                    state = "Oscillating" /\ Measures(t, dt)
<1>1. PICK t \in Temps, valid \in BOOLEAN, dt \in 1 .. MaxStep :
         /\ Active
         /\ IF ~valid THEN Abort("SensorLost")
            ELSE IF t > Ceiling THEN Abort("CeilingBreached")
            ELSE IF t < 0 - Floor THEN Abort("FloorBreached")
            ELSE Settle(t, dt) \/ Oscillate(t, dt)
  BY DEF Update
<1>2. /\ "SensorLost" \in Reasons /\ "CeilingBreached" \in Reasons
      /\ "FloorBreached" \in Reasons /\ "SettlingTimeout" \in Reasons
  BY DEF Reasons, Session!Breaches
<1>3. CASE Settle(t, dt) /\ SettledTooLong(dt)
  <2>1. Abort("SettlingTimeout") BY <1>3 DEF Settle
  <2> QED BY <1>1, <1>2, <2>1
<1>4. CASE Settle(t, dt) /\ ~SettledTooLong(dt) BY <1>1, <1>4
<1>5. CASE Oscillate(t, dt) BY <1>1, <1>5, OscillateMeasures
<1> QED BY <1>1, <1>2, <1>3, <1>4, <1>5

\* What a measurement does: the run times out, ends with or without a result, or goes on.
LEMMA MeasuresCases ==
    ASSUME NEW t, NEW dt, Measures(t, dt)
    PROVE  \/ Abort("RunTimeout") \/ Abort("AmplitudeTooSmall")
           \/ /\ Closes(t) /\ Converged(Evident(t, dt))
              /\ state' = "Done" /\ relayOn' = FALSE /\ result' = Evident(t, dt)
              /\ log' = Logged(t, dt) /\ Forget /\ UNCHANGED reason
           \/ /\ sinceStart + dt <= MaxDuration \/ ~(sinceStart + dt > MaxDuration)
              /\ Closes(t) => ~Converged(Evident(t, dt))
              /\ relayOn' = RelayAt(t)
              /\ sinceStart' = sinceStart + dt
              /\ cycle' = IF ~relayOn /\ RelayAt(t)
                          THEN [have |-> TRUE, age |-> 0, max |-> t, min |-> t]
                          ELSE Grown(t, dt)
              /\ IF Closes(t)
                 THEN /\ last' = [count |-> last.count + 1, period |-> Measured(t, dt).period,
                                  swing |-> Measured(t, dt).swing]
                      /\ evidence' = Evident(t, dt)
                      /\ log' = Logged(t, dt)
                 ELSE UNCHANGED <<last, evidence, log>>
              /\ measured' = 0
              /\ UNCHANGED <<state, reason, settling, result>>
BY DEF Measures, Finish

LEMMA InitTyped == Init => TypeOK
BY Blank DEF Init, TypeOK

LEMMA NextTyped ==
    ASSUME TypeOK, Next
    PROVE  TypeOK'
<1>1. CASE Start
  <2>1. TRUE \in BOOLEAN OBVIOUS
  <2> QED BY <1>1, <2>1, Blank DEF Start, TypeOK
<1>2. CASE Cancel
  BY <1>2, AbortTyped DEF Cancel, Session!AbortReasons
<1>3. CASE Update 
  <2>1. Reasons \subseteq Session!AbortReasons BY DEF Reasons, Session!AbortReasons
  <2> QED BY <1>3, <2>1, UpdateCases, AbortTyped, SettleTyped, MeasuresTyped
<1> QED BY <1>1, <1>2, <1>3 DEF Next

LEMMA StepTyped == TypeOK /\ [Next]_vars => TypeOK'
<1>1. TypeOK /\ UNCHANGED vars => TypeOK' BY DEF vars, TypeOK
<1> QED BY <1>1, NextTyped

\* TypeOK: the recorded cycles, their sums and the relay stay what they are declared to be,
\* and a run has a reason to be over exactly when it was aborted.
THEOREM TypeCorrect == Spec => []TypeOK
BY InitTyped, StepTyped, PTL DEF Spec

-----------------------------------------------------------------------------
(* The run as its owner sees it                                             *)

Seen == [state |-> IF Active THEN "Active" ELSE state, reason |-> reason,
         on |-> Active /\ relayOn]

LEMMA AbortIsSeen ==
    ASSUME NEW why, Abort(why)
    PROVE  Seen' = Session!Aborted(why)
BY DEF Abort, Seen, Active, Session!Aborted

\* A step in which the run stays active commands the relay and does nothing else.
LEMMA OutputIsSeen ==
    ASSUME TypeOK, TypeOK', Active, Active', reason' = reason
    PROVE  /\ Session!Active(Seen)
           /\ \E on \in BOOLEAN : Seen' = [Seen EXCEPT !.on = on]
<1>1. Seen = [state |-> "Active", reason |-> reason, on |-> relayOn]
  <2>1. relayOn \in BOOLEAN BY DEF TypeOK
  <2>2. (Active /\ relayOn) = relayOn BY <2>1
  <2> QED BY <2>2 DEF Seen
<1>2. Seen' = [state |-> "Active", reason |-> reason', on |-> relayOn']
  <2>1. relayOn' \in BOOLEAN BY DEF TypeOK
  <2>2. (Active' /\ relayOn') = relayOn' BY <2>1
  <2> QED BY <2>2 DEF Seen
<1>3. relayOn' \in BOOLEAN BY DEF TypeOK
<1> QED BY <1>1, <1>2, <1>3 DEF Session!Active

LEMMA UpdateIsSeen ==
    ASSUME TypeOK, TypeOK', Update
    PROVE  \E valid \in BOOLEAN : Seen' \in Session!Updates(Seen, valid)
<1>1. Active /\ Session!Active(Seen) BY UpdateCases DEF Seen, Session!Active
<1>2. CASE \E why \in Reasons : Abort(why)
  <2>1. PICK why \in Reasons : Seen' = Session!Aborted(why) BY <1>2, AbortIsSeen
  <2>2. CASE why = "SensorLost" BY <1>1, <2>1, <2>2 DEF Session!Updates
  <2>3. CASE why \in Session!Breaches BY <1>1, <2>1, <2>3 DEF Session!Updates
  <2> QED BY <2>1, <2>2, <2>3 DEF Reasons
<1>3. ASSUME Active', reason' = reason
      PROVE  \E valid \in BOOLEAN : Seen' \in Session!Updates(Seen, valid)
  <2>1. \E on \in BOOLEAN : Seen' = [Seen EXCEPT !.on = on] BY <1>1, <1>3, OutputIsSeen
  <2> QED BY <1>1, <2>1 DEF Session!Updates
<1>4. CASE \E t \in Temps, dt \in 1 .. MaxStep : Settle(t, dt) /\ ~SettledTooLong(dt)
  <2>1. reason' = reason /\ state' \in {"Settling", "Oscillating"} BY <1>4, SettleTyped
  <2> QED BY <1>3, <2>1 DEF Active
<1>5. ASSUME NEW t \in Temps, NEW dt \in 1 .. MaxStep, state = "Oscillating", Measures(t, dt)
      PROVE  \E valid \in BOOLEAN : Seen' \in Session!Updates(Seen, valid)
  <2>1. CASE Abort("RunTimeout") \/ Abort("AmplitudeTooSmall")
    <3>1. "RunTimeout" \in Reasons /\ "AmplitudeTooSmall" \in Reasons
      BY DEF Reasons, Session!Breaches
    <3> QED BY <1>2, <2>1, <3>1
  <2>2. CASE state' = "Done" /\ relayOn' = FALSE /\ reason' = reason
    <3>1. reason' = "None" BY <2>2 DEF TypeOK
    <3>2. Seen' = Session!Finished BY <2>2, <3>1 DEF Seen, Active, Session!Finished
    <3> QED BY <1>1, <3>2 DEF Session!Updates
  <2>3. CASE state' = state /\ reason' = reason BY <1>3, <1>5, <2>3 DEF Active
  <2> QED BY <1>5, <2>1, <2>2, <2>3, MeasuresCases
<1> QED BY <1>2, <1>4, <1>5, UpdateCases

LEMMA StepIsSeen ==
    ASSUME TypeOK, TypeOK', [Next]_vars
    PROVE  [Session!Next]_Seen
<1>1. CASE Start
  <2>1. Seen' = Session!Started BY <1>1 DEF Start, Seen, Active, Session!Started
  <2> QED BY <2>1 DEF Session!Next, Session!Start, Seen
<1>2. CASE Cancel
  <2>1. Seen' = Session!Aborted("UserRequested") BY <1>2, AbortIsSeen DEF Cancel
  <2>2. Session!Active(Seen) BY <1>2 DEF Cancel, Seen, Session!Active
  <2>3. Seen' = Session!Cancelled(Seen) BY <2>1, <2>2 DEF Session!Cancelled
  <2> QED BY <2>3 DEF Session!Next, Session!Cancel, Seen
<1>3. CASE Update
  <2>1. \E valid \in BOOLEAN : Seen' \in Session!Updates(Seen, valid)
    BY <1>3, UpdateIsSeen
  <2> QED BY <2>1 DEF Session!Next, Session!Update, Seen
<1>4. CASE UNCHANGED vars BY <1>4 DEF vars, Seen, Active
<1> QED BY <1>1, <1>2, <1>3, <1>4 DEF Next

\* ImplementsSession: whatever the plant does, the owner of a run sees only what
\* AutotuneSession promises (start, cancel and update of RelayAutotuner), so what is proved
\* and checked about TemperatureController holds with this autotuner in it.
THEOREM Refines == Spec => ImplementsSession
<1>1. Init => Session!Init
  <2>1. ASSUME Init PROVE Seen = Session!NoRun
    BY <2>1 DEF Init, Seen, Active, Session!NoRun
  <2> QED BY <2>1 DEF Session!Init, Seen
<1>2. TypeOK /\ TypeOK' /\ [Next]_vars => [Session!Next]_Seen BY StepIsSeen
<1> QED BY <1>1, <1>2, TypeCorrect, PTL DEF Spec, ImplementsSession, Session!Spec, Seen

-----------------------------------------------------------------------------
(* What the log says about the run                                          *)

Facts == /\ StartsAfresh /\ LogFollows /\ EvidenceFollows /\ DoneFollows
         /\ CycleSpansTheBand /\ CyclesClearTheBand

LEMMA EmptyLog == ASSUME NEW s, s = <<>> PROVE Len(s) = 0 /\ DOMAIN s = {}
OBVIOUS

LEMMA OverIsHarmless ==
    ASSUME Forget, state' \notin {"Settling", "Oscillating", "Done"}, log' = <<>>
    PROVE  Facts'
<1>1. DOMAIN (log') = {} BY EmptyLog
<1>2. ~cycle'.have BY ForgetTyped
<1>3. StartsAfresh' /\ LogFollows' /\ EvidenceFollows' /\ DoneFollows'
  BY DEF StartsAfresh, LogFollows, EvidenceFollows, DoneFollows
<1>4. CycleSpansTheBand' BY <1>2 DEF CycleSpansTheBand
<1>5. CyclesClearTheBand' BY <1>1 DEF CyclesClearTheBand
<1> QED BY <1>3, <1>4, <1>5 DEF Facts

LEMMA InitFacts == Init => Facts
<1> SUFFICES ASSUME Init PROVE Facts OBVIOUS
<1>1. DOMAIN log = {} /\ ~cycle.have BY EmptyLog, Blank DEF Init
<1>2. StartsAfresh /\ LogFollows /\ EvidenceFollows /\ DoneFollows
  BY DEF Init, StartsAfresh, LogFollows, EvidenceFollows, DoneFollows
<1>3. CycleSpansTheBand BY <1>1 DEF CycleSpansTheBand
<1>4. CyclesClearTheBand BY <1>1 DEF CyclesClearTheBand
<1> QED BY <1>2, <1>3, <1>4 DEF Facts

LEMMA StartFacts == Start => Facts'
<1> SUFFICES ASSUME Start PROVE Facts' OBVIOUS
<1>1. DOMAIN (log') = {} /\ ~cycle'.have BY EmptyLog, Blank DEF Start
<1>2. StartsAfresh' BY DEF Start, StartsAfresh
<1>3. LogFollows' /\ EvidenceFollows' /\ DoneFollows'
  BY DEF Start, LogFollows, EvidenceFollows, DoneFollows
<1>4. CycleSpansTheBand' BY <1>1 DEF CycleSpansTheBand
<1>5. CyclesClearTheBand' BY <1>1 DEF CyclesClearTheBand
<1> QED BY <1>2, <1>3, <1>4, <1>5 DEF Facts

LEMMA SettleFacts ==
    ASSUME TypeOK, Facts, NEW t \in Temps, NEW dt \in 1 .. MaxStep, Settle(t, dt),
           ~SettledTooLong(dt)
    PROVE  Facts'
<1>1. /\ state = "Settling" /\ state' \in {"Settling", "Oscillating"}
      /\ UNCHANGED <<reason, cycle, last, evidence, result, log>>
  BY SettleTyped DEF Settle
<1>2. cycle = NoCycle /\ last = NoLast /\ evidence = NoEvidence /\ log = <<>>
  BY <1>1 DEF Facts, StartsAfresh
<1>3. DOMAIN (log') = {} /\ Len(log') = 0 /\ ~cycle'.have BY <1>1, <1>2, EmptyLog, Blank
<1>4. StartsAfresh' BY <1>1, <1>2 DEF StartsAfresh
<1>5. LogFollows' /\ EvidenceFollows' /\ DoneFollows'
  <2>1. last'.count = 0 BY <1>1, <1>2 DEF NoLast
  <2> QED BY <1>1, <1>2, <1>3, <2>1, Constants
          DEF LogFollows, EvidenceFollows, DoneFollows
<1>6. CycleSpansTheBand' BY <1>3 DEF CycleSpansTheBand
<1>7. CyclesClearTheBand' BY <1>3 DEF CyclesClearTheBand
<1> QED BY <1>4, <1>5, <1>6, <1>7 DEF Facts

\* The relay switches on below the band and off above it.
LEMMA RelaySwitches ==
    ASSUME TypeOK, NEW t \in Temps
    PROVE  /\ relayOn /\ ~RelayAt(t) => t > Hysteresis
           /\ ~relayOn /\ RelayAt(t) => t < 0 - Hysteresis
<1>1. t \in Int BY Constants
<1> QED BY <1>1, Constants DEF RelayAt

LEMMA MeasuredClearsTheBand ==
    ASSUME TypeOK, Facts, NEW t \in Temps, NEW dt \in 1 .. MaxStep, Closes(t)
    PROVE  Measured(t, dt).swing > 2 * Hysteresis
<1>1. cycle.have /\ ~relayOn BY DEF Closes
<1>2. cycle.min < 0 - Hysteresis /\ cycle.max > Hysteresis
  BY <1>1 DEF Facts, CycleSpansTheBand
<1>3. PICK g : g = Grown(t, dt) OBVIOUS
<1>4. g \in CyclesInProgress /\ g.max >= cycle.max /\ g.min <= cycle.min
  BY <1>1, <1>3, GrownTyped
<1>5. g.max \in Int /\ g.min \in Int /\ cycle.max \in Int /\ cycle.min \in Int
  BY <1>4 DEF CyclesInProgress, TypeOK
<1>6. g.max - g.min > 2 * Hysteresis BY <1>2, <1>4, <1>5, Constants
<1> QED BY <1>1, <1>3, <1>6, MeasuredTyped

\* The log after a cycle: in agreement one further, and so are the sums.
LEMMA MoreSupport ==
    ASSUME TypeOK, Facts, state = "Oscillating",
           NEW c \in Cycles, NEW new \in Seq(Cycles), log' = new,
           Len(new) = IF Len(log) < Required THEN Len(log) + 1 ELSE Required,
           new[1] = c, \A i \in 1 .. Len(new) - 1 : new[i + 1] = log[i],
           Consistent(c.period, c.swing)
    PROVE  LET ev == Recorded(c.period, c.swing)
           IN  /\ ev.cycles = IF evidence = NoEvidence THEN 2 ELSE evidence.cycles + 1
               /\ ev.cycles \in 2 .. Required
               /\ ev.cycles \in 2 .. Len(new)
               /\ InAgreement(new, ev.cycles)
               /\ TotalIs(Periods(new), ev.cycles, ev.period)
               /\ TotalIs(Swings(new), ev.cycles, ev.swing)
<1> DEFINE n == IF evidence = NoEvidence THEN 1 ELSE evidence.cycles
           pn == IF evidence = NoEvidence THEN last.period ELSE evidence.period
           sn == IF evidence = NoEvidence THEN last.swing ELSE evidence.swing
<1>1. /\ log \in Seq(Cycles) /\ evidence \in Evidence /\ last \in LastCycles
      /\ last.count \in Nat /\ last.period \in Nat /\ last.swing \in Nat
      /\ evidence.cycles \in Nat /\ evidence.period \in Nat /\ evidence.swing \in Nat
      /\ c.period \in Nat /\ c.swing \in Nat
  BY DEF TypeOK, Evidence, LastCycles, Cycles
<1>2. last.count > 0 BY DEF Consistent
<1>3. /\ Len(log) = IF last.count < Required THEN last.count ELSE Required
      /\ log[1].period = last.period /\ log[1].swing = last.swing
  BY <1>2 DEF Facts, LogFollows
<1>4. evidence = NoEvidence \/ (evidence.cycles < Required /\ Supports(evidence))
  BY DEF Facts, EvidenceFollows
<1>5. Len(log) \in Nat /\ Len(log) >= 1 /\ Len(log) <= Required
  BY <1>1, <1>2, <1>3, Constants
<1>6. DOMAIN log = 1 .. Len(log) /\ DOMAIN new = 1 .. Len(new) BY <1>1
<1>7. NoEvidence.cycles = 0 BY DEF NoEvidence
<1>8. /\ n \in Nat /\ n >= 1 /\ n < Required /\ n <= Len(log) /\ pn \in Nat /\ sn \in Nat
      /\ TotalIs(Periods(log), n, pn) /\ TotalIs(Swings(log), n, sn)
      /\ InAgreement(log, n)
  <2>1. CASE evidence = NoEvidence
    <3>1. Periods(log)[1] = last.period /\ Swings(log)[1] = last.swing
      BY <1>3, <1>5, <1>6 DEF Periods, Swings
    <3>2. TotalIs(Periods(log), 1, last.period) /\ TotalIs(Swings(log), 1, last.swing)
      BY <1>1, <3>1, TotalOfOne
    <3>3. n = 1 /\ pn = last.period /\ sn = last.swing BY <2>1
    <3>4. InAgreement(log, 1) BY DEF InAgreement
    <3> HIDE DEF n, pn, sn
    <3> QED BY <1>1, <1>5, <3>2, <3>3, <3>4, Constants
  <2>2. CASE evidence # NoEvidence
    <3>1. n = evidence.cycles /\ pn = evidence.period /\ sn = evidence.swing BY <2>2
    <3>2. evidence.cycles < Required /\ Supports(evidence) BY <1>4, <2>2
    <3> HIDE DEF n, pn, sn
    <3> QED BY <1>1, <1>5, <3>1, <3>2 DEF Supports
  <2> QED BY <2>1, <2>2
<1>9. /\ n + 1 = IF evidence = NoEvidence THEN 2 ELSE evidence.cycles + 1
      /\ Recorded(c.period, c.swing)
            = [cycles |-> n + 1, period |-> pn + c.period, swing |-> sn + c.swing]
  <2>1. CASE evidence = NoEvidence BY <1>7, <2>1 DEF Recorded
  <2>2. CASE evidence # NoEvidence
    <3>1. evidence.cycles # 0 BY <1>1, <1>8, <2>2
    <3> QED BY <2>2, <3>1 DEF Recorded
  <2> QED BY <2>1, <2>2
<1> HIDE DEF n, pn, sn
<1>10. n + 1 \in 2 .. Required /\ n + 1 \in 2 .. Len(new) /\ n <= Len(new) - 1
  BY <1>5, <1>8, Constants
<1>11. \A i \in 1 .. n : new[i + 1] = log[i] BY <1>5, <1>8, <1>10, Constants
<1>12. /\ Periods(new)[1] = c.period /\ \A i \in 1 .. n : Periods(new)[i + 1] = Periods(log)[i]
       /\ Swings(new)[1] = c.swing /\ \A i \in 1 .. n : Swings(new)[i + 1] = Swings(log)[i]
  <2>1. /\ 1 \in DOMAIN new
        /\ \A i \in 1 .. n : i \in DOMAIN log /\ i + 1 \in DOMAIN new
    BY <1>5, <1>6, <1>8, <1>10, Constants
  <2> QED BY <1>11, <2>1 DEF Periods, Swings
<1>13. TotalIs(Periods(new), n + 1, pn + c.period) /\ TotalIs(Swings(new), n + 1, sn + c.swing)
  <2>1. pn \in Int /\ sn \in Int /\ c.period \in Int /\ c.swing \in Int BY <1>1, <1>8
  <2> DEFINE P == Periods(new)  S == Swings(new)  p == Periods(log)  s == Swings(log)
  <2>2. /\ P[1] = c.period /\ \A i \in 1 .. n : P[i + 1] = p[i]
        /\ S[1] = c.swing /\ \A i \in 1 .. n : S[i + 1] = s[i]
        /\ TotalIs(p, n, pn) /\ TotalIs(s, n, sn) /\ n \in Nat
    BY <1>8, <1>12
  <2> HIDE DEF P, S, p, s
  <2>3. TotalIs(P, n + 1, pn + c.period) BY <2>1, <2>2, TotalExtended
  <2>4. TotalIs(S, n + 1, sn + c.swing) BY <2>1, <2>2, TotalExtended
  <2> QED BY <2>3, <2>4 DEF P, S
<1>14. InAgreement(new, n + 1)
  <2>1. ASSUME NEW i \in 1 .. n
        PROVE  /\ WithinTolerance(new[i].period, new[i + 1].period, PeriodTolerance)
               /\ WithinTolerance(new[i].swing, new[i + 1].swing, SwingTolerance)
    <3>1. CASE i = 1
      <4>1. new[i] = c /\ new[i + 1] = log[1] BY <1>11, <3>1
      <4>2. /\ WithinTolerance(c.period, last.period, PeriodTolerance)
            /\ WithinTolerance(c.swing, last.swing, SwingTolerance)
        BY DEF Consistent
      <4> QED BY <1>3, <4>1, <4>2
    <3>2. CASE i > 1
      <4>1. i - 1 \in 1 .. n - 1 /\ i - 1 \in 1 .. n /\ (i - 1) + 1 = i BY <1>8, <3>2
      <4>2. new[i + 1] = log[i] /\ new[i] = log[i - 1] BY <1>11, <4>1
      <4>3. /\ WithinTolerance(log[i - 1].period, log[(i - 1) + 1].period, PeriodTolerance)
            /\ WithinTolerance(log[i - 1].swing, log[(i - 1) + 1].swing, SwingTolerance)
        BY <1>8, <4>1 DEF InAgreement
      <4> QED BY <4>1, <4>2, <4>3
    <3> QED BY <1>8, <3>1, <3>2
  <2>2. (n + 1) - 1 = n BY <1>8
  <2> QED BY <2>1, <2>2 DEF InAgreement
<1> QED BY <1>9, <1>10, <1>13, <1>14

\* What a closing cycle adds: a log one longer, and evidence that it supports.
LEMMA CycleLogged ==
    ASSUME TypeOK, Facts, NEW t \in Temps, NEW dt \in 1 .. MaxStep,
           state = "Oscillating", Closes(t), log' = Logged(t, dt)
    PROVE  /\ CyclesClearTheBand'
           /\ Len(log') = IF Len(log) < Required THEN Len(log) + 1 ELSE Required
           /\ log'[1] = Measured(t, dt)
           /\ \/ Evident(t, dt) = NoEvidence
              \/ /\ Evident(t, dt).cycles \in 2 .. Required
                 /\ Evident(t, dt).cycles \in 2 .. Len(log')
                 /\ InAgreement(log', Evident(t, dt).cycles)
                 /\ TotalIs(Periods(log'), Evident(t, dt).cycles, Evident(t, dt).period)
                 /\ TotalIs(Swings(log'), Evident(t, dt).cycles, Evident(t, dt).swing)
<1>1. cycle.have BY DEF Closes
<1>2. PICK c \in Cycles : c = Measured(t, dt) BY <1>1, MeasuredTyped
<1>3. PICK new \in Seq(Cycles) : new = Logged(t, dt) BY <1>1, LoggedTyped
<1>4. /\ Len(new) = IF Len(log) < Required THEN Len(log) + 1 ELSE Required
      /\ new[1] = c /\ \A i \in 1 .. Len(new) - 1 : new[i + 1] = log[i]
  BY <1>1, <1>2, <1>3, LoggedTyped
<1>5. Evident(t, dt) = Recorded(c.period, c.swing) BY <1>2 DEF Evident
<1>6. log' = new BY <1>3
<1>7. c.swing > 2 * Hysteresis BY <1>2, MeasuredClearsTheBand
<1>8. log \in Seq(Cycles) BY DEF TypeOK
<1> HIDE <1>2, <1>3
<1>9. \A i \in DOMAIN new : new[i].swing > 2 * Hysteresis
  <2> TAKE i \in DOMAIN new
  <2>1. i \in 1 .. Len(new) /\ Len(log) \in Nat /\ DOMAIN log = 1 .. Len(log) BY <1>8
  <2>2. CASE i = 1 BY <1>4, <1>7, <2>2
  <2>3. CASE i > 1
    <3>1. i - 1 \in 1 .. Len(new) - 1 /\ (i - 1) + 1 = i /\ i - 1 \in 1 .. Len(log)
      BY <1>4, <2>1, <2>3, Constants
    <3>2. new[i] = log[i - 1] BY <1>4, <3>1
    <3>3. log[i - 1].swing > 2 * Hysteresis BY <2>1, <3>1 DEF Facts, CyclesClearTheBand
    <3> QED BY <3>2, <3>3
  <2> QED BY <2>1, <2>2, <2>3
<1>10. CASE Consistent(c.period, c.swing)
  <2>1. PICK ev : ev = Recorded(c.period, c.swing) OBVIOUS
  <2>2. /\ ev.cycles \in 2 .. Required /\ ev.cycles \in 2 .. Len(new)
        /\ InAgreement(new, ev.cycles)
        /\ TotalIs(Periods(new), ev.cycles, ev.period)
        /\ TotalIs(Swings(new), ev.cycles, ev.swing)
    BY <1>4, <1>6, <1>10, <2>1, MoreSupport
  <2>3. Evident(t, dt) = ev BY <1>5, <2>1
  <2>4. Measured(t, dt) = c BY <1>2
  <2> QED BY <1>4, <1>6, <1>9, <2>2, <2>3, <2>4 DEF CyclesClearTheBand
<1>11. CASE ~Consistent(c.period, c.swing)
  <2>1. Evident(t, dt) = NoEvidence BY <1>5, <1>11 DEF Recorded
  <2>2. Measured(t, dt) = c BY <1>2
  <2> QED BY <1>4, <1>6, <1>9, <2>1, <2>2 DEF CyclesClearTheBand
<1> QED BY <1>10, <1>11

LEMMA MeasuresFacts ==
    ASSUME TypeOK, Facts, NEW t \in Temps, NEW dt \in 1 .. MaxStep,
           state = "Oscillating", Measures(t, dt)
    PROVE  Facts'
<1>1. CASE Abort("RunTimeout") \/ Abort("AmplitudeTooSmall")
  BY <1>1, OverIsHarmless DEF Abort
<1>2. CASE /\ Closes(t) /\ Converged(Evident(t, dt))
           /\ state' = "Done" /\ relayOn' = FALSE /\ result' = Evident(t, dt)
           /\ log' = Logged(t, dt) /\ Forget /\ UNCHANGED reason
  <2>1. ~cycle'.have BY <1>2, ForgetTyped
  <2>2. Evident(t, dt) # NoEvidence
    <3>1. NoEvidence.cycles = 0 BY DEF NoEvidence
    <3> QED BY <1>2, <3>1, Constants DEF Converged
  <2>3. Evident(t, dt).cycles >= Required BY <1>2 DEF Converged
  <2>4. /\ CyclesClearTheBand'
        /\ Len(log') = IF Len(log) < Required THEN Len(log) + 1 ELSE Required
        /\ Evident(t, dt).cycles \in 2 .. Required
        /\ Evident(t, dt).cycles \in 2 .. Len(log')
        /\ InAgreement(log', Evident(t, dt).cycles)
        /\ TotalIs(Periods(log'), Evident(t, dt).cycles, Evident(t, dt).period)
        /\ TotalIs(Swings(log'), Evident(t, dt).cycles, Evident(t, dt).swing)
    BY <1>2, <2>2, CycleLogged
  <2>5. Len(log) \in Nat BY DEF TypeOK
  <2>6. Evident(t, dt).cycles = Required /\ Len(log') = Required
    BY <2>3, <2>4, <2>5, Constants
  <2>7. DoneFollows' BY <1>2, <2>4, <2>6 DEF DoneFollows, Supports
  <2>8. StartsAfresh' /\ LogFollows' /\ EvidenceFollows'
    BY <1>2 DEF StartsAfresh, LogFollows, EvidenceFollows
  <2>9. CycleSpansTheBand' BY <2>1 DEF CycleSpansTheBand
  <2> QED BY <2>4, <2>7, <2>8, <2>9 DEF Facts
<1>3. CASE /\ Closes(t) => ~Converged(Evident(t, dt))
           /\ relayOn' = RelayAt(t)
           /\ cycle' = IF ~relayOn /\ RelayAt(t)
                       THEN [have |-> TRUE, age |-> 0, max |-> t, min |-> t]
                       ELSE Grown(t, dt)
           /\ IF Closes(t)
              THEN /\ last' = [count |-> last.count + 1, period |-> Measured(t, dt).period,
                               swing |-> Measured(t, dt).swing]
                   /\ evidence' = Evident(t, dt)
                   /\ log' = Logged(t, dt)
              ELSE UNCHANGED <<last, evidence, log>>
           /\ UNCHANGED <<state, reason, settling, result>>
  <2>1. StartsAfresh' /\ DoneFollows' BY <1>3 DEF StartsAfresh, DoneFollows
  <2>2. CycleSpansTheBand'
    <3>1. CASE ~relayOn /\ RelayAt(t)
      <4>1. relayOn' /\ cycle'.min = t BY <1>3, <3>1
      <4> QED BY <3>1, <4>1, RelaySwitches DEF CycleSpansTheBand
    <3>2. CASE ~(~relayOn /\ RelayAt(t))
      <4>1. cycle' = Grown(t, dt) BY <1>3, <3>2
      <4>2. CASE ~cycle.have BY <4>1, <4>2, GrownTyped DEF CycleSpansTheBand
      <4>3. CASE cycle.have
        <5>1. PICK g : g = Grown(t, dt) OBVIOUS
        <5>2. /\ g \in CyclesInProgress /\ g.max >= t /\ g.max >= cycle.max
              /\ g.min <= cycle.min
          BY <4>3, <5>1, GrownTyped
        <5>3. /\ g.max \in Int /\ g.min \in Int /\ cycle.max \in Int /\ cycle.min \in Int
              /\ t \in Int
          BY <5>2, Constants DEF CyclesInProgress, TypeOK
        <5>4. cycle.min < 0 - Hysteresis /\ (~relayOn => cycle.max > Hysteresis)
          BY <4>3 DEF Facts, CycleSpansTheBand
        <5>5. g.min < 0 - Hysteresis BY <5>2, <5>3, <5>4, Constants
        <5>6. ASSUME ~RelayAt(t) PROVE g.max > Hysteresis
          <6>1. CASE relayOn BY <5>2, <5>3, <5>6, <6>1, RelaySwitches, Constants
          <6>2. CASE ~relayOn BY <5>2, <5>3, <5>4, <6>2, Constants
          <6> QED BY <6>1, <6>2
        <5>7. cycle' = g /\ relayOn' = RelayAt(t) BY <1>3, <4>1, <5>1
        <5> QED BY <5>5, <5>6, <5>7 DEF CycleSpansTheBand
      <4> QED BY <4>2, <4>3
    <3> QED BY <3>1, <3>2
  <2>3. CASE Closes(t)
    <3>1. /\ last' = [count |-> last.count + 1, period |-> Measured(t, dt).period,
                      swing |-> Measured(t, dt).swing]
          /\ evidence' = Evident(t, dt) /\ log' = Logged(t, dt)
          /\ ~Converged(Evident(t, dt)) /\ state' = state
      BY <1>3, <2>3
    <3>2. /\ CyclesClearTheBand'
          /\ Len(log') = IF Len(log) < Required THEN Len(log) + 1 ELSE Required
          /\ log'[1] = Measured(t, dt)
          /\ \/ Evident(t, dt) = NoEvidence
             \/ /\ Evident(t, dt).cycles \in 2 .. Required
                /\ Evident(t, dt).cycles \in 2 .. Len(log')
                /\ InAgreement(log', Evident(t, dt).cycles)
                /\ TotalIs(Periods(log'), Evident(t, dt).cycles, Evident(t, dt).period)
                /\ TotalIs(Swings(log'), Evident(t, dt).cycles, Evident(t, dt).swing)
      BY <2>3, <3>1, CycleLogged
    <3>3. LogFollows'
      <4>1. /\ Len(log) = IF last.count < Required THEN last.count ELSE Required
            /\ last.count \in Nat
        BY DEF Facts, LogFollows, TypeOK, LastCycles
      <4>2. /\ last'.count = last.count + 1 /\ last'.period = Measured(t, dt).period
            /\ last'.swing = Measured(t, dt).swing
        BY <3>1
      <4>3. Len(log') = IF last'.count < Required THEN last'.count ELSE Required
        BY <3>2, <4>1, <4>2, Constants
      <4> QED BY <3>2, <4>2, <4>3 DEF LogFollows
    <3>4. EvidenceFollows'
      <4>1. CASE Evident(t, dt) = NoEvidence BY <3>1, <4>1 DEF EvidenceFollows
      <4>2. CASE Evident(t, dt) # NoEvidence
        <5>1. Evident(t, dt).cycles < Required
          BY <3>1, <3>2, <4>2, Constants DEF Converged
        <5> QED BY <3>1, <3>2, <4>2, <5>1 DEF EvidenceFollows, Supports
      <4> QED BY <4>1, <4>2
    <3> QED BY <2>1, <2>2, <3>2, <3>3, <3>4 DEF Facts
  <2>4. CASE ~Closes(t)
    <3>1. UNCHANGED <<state, last, evidence, log>> BY <1>3, <2>4
    <3>2. LogFollows' BY <3>1 DEF Facts, LogFollows
    <3>3. EvidenceFollows' BY <3>1 DEF Facts, EvidenceFollows, Supports
    <3>4. CyclesClearTheBand' BY <3>1 DEF Facts, CyclesClearTheBand
    <3> QED BY <2>1, <2>2, <3>2, <3>3, <3>4 DEF Facts
  <2> QED BY <2>3, <2>4
<1> QED BY <1>1, <1>2, <1>3, MeasuresCases

LEMMA StepFacts == TypeOK /\ Facts /\ [Next]_vars => Facts'
<1> SUFFICES ASSUME TypeOK, Facts, [Next]_vars PROVE Facts' OBVIOUS
<1>1. CASE Start BY <1>1, StartFacts
<1>2. CASE Cancel BY <1>2, OverIsHarmless DEF Cancel, Abort
<1>3. CASE Update
  <2>1. CASE \E why \in Reasons : Abort(why) BY <2>1, OverIsHarmless DEF Abort
  <2> QED BY <1>3, <2>1, UpdateCases, SettleFacts, MeasuresFacts
<1>4. CASE UNCHANGED vars
  <2>1. UNCHANGED <<state, relayOn, cycle, last, evidence, result, log>> BY <1>4 DEF vars
  <2> QED BY <2>1 DEF Facts, StartsAfresh, LogFollows, EvidenceFollows, DoneFollows,
                      Supports, CycleSpansTheBand, CyclesClearTheBand
<1> QED BY <1>1, <1>2, <1>3, <1>4 DEF Next

\* The inductive invariant, of the log and the evidence with the types.
THEOREM Invariance == Spec => []IInv
<1>1. TypeOK /\ Facts <=> IInv BY DEF Facts, IInv
<1> QED BY <1>1, InitTyped, InitFacts, StepTyped, StepFacts, PTL DEF Spec

\* DoneIsEarned: a run is only ever finished (recordCycle, finish) on the last Required
\* cycles, each in agreement with the one before it, and the sums its gains are computed
\* from are the sums over these cycles, whatever cycles went before.
THEOREM ResultIsEarned == Spec => []DoneIsEarned
<1>1. IInv => DoneIsEarned
  <2> SUFFICES ASSUME TypeOK, DoneFollows, state = "Done"
               PROVE  /\ Len(log) = Required /\ InAgreement(log, Required)
                      /\ result = [cycles |-> Required, period |-> Total(Periods(log), Required),
                                   swing |-> Total(Swings(log), Required)]
    BY DEF IInv, DoneIsEarned
  <2>1. Len(log) = Required /\ result.cycles = Required /\ Supports(result)
    BY DEF DoneFollows
  <2>2. /\ Total(Periods(log), Required) = result.period
        /\ Total(Swings(log), Required) = result.swing
    BY <2>1, TotalUnfolded DEF Supports
  <2>3. result \in Evidence BY DEF TypeOK
  <2>4. result = [cycles |-> Required, period |-> result.period, swing |-> result.swing]
    BY <2>1, <2>3 DEF Evidence
  <2> QED BY <2>1, <2>2, <2>4 DEF Supports
<1> QED BY <1>1, Invariance, PTL

\* CyclesClearTheBand: every cycle the relay closes has swung past the whole hysteresis
\* band, so the gains' square root (finish) is of a positive number in every run.
THEOREM EveryCycleClearsTheBand == Spec => []CyclesClearTheBand
<1>1. IInv => CyclesClearTheBand BY DEF IInv
<1> QED BY <1>1, Invariance, PTL

\* RunIsBounded: with a settling timeout no longer than the run's (30 minutes against a
\* day in Limits), no update leaves a run active beyond them.
THEOREM RunsAreBounded ==
    ASSUME SettlingTimeout <= MaxDuration
    PROVE  Spec => []RunIsBounded
<1>1. Init => RunIsBounded BY Constants DEF Init, RunIsBounded
<1>2. TypeOK /\ RunIsBounded /\ [Next]_vars => RunIsBounded'
  <2> SUFFICES ASSUME TypeOK, RunIsBounded, [Next]_vars PROVE RunIsBounded' OBVIOUS
  <2>1. ASSUME NEW why, Abort(why) PROVE RunIsBounded' BY <2>1 DEF Abort, RunIsBounded
  <2>2. CASE Start BY <2>2, Constants DEF Start, RunIsBounded
  <2>3. CASE Cancel BY <2>1, <2>3 DEF Cancel
  <2>4. ASSUME NEW t \in Temps, NEW dt \in 1 .. MaxStep, Settle(t, dt), ~SettledTooLong(dt)
        PROVE  RunIsBounded'
    <3>1. sinceStart' = sinceStart + dt /\ sinceStart \in Nat /\ dt \in Nat
      BY <2>4, SettleTyped DEF TypeOK
    <3>2. sinceStart' <= SettlingTimeout /\ sinceStart' <= MaxDuration
      BY <2>4, <3>1, Constants DEF SettledTooLong
    <3> QED BY <3>2 DEF RunIsBounded
  <2>5. ASSUME NEW t \in Temps, NEW dt \in 1 .. MaxStep, state = "Oscillating",
               Measures(t, dt)
        PROVE  RunIsBounded'
    <3>1. CASE state' = "Done" BY <3>1 DEF RunIsBounded
    <3>2. CASE /\ sinceStart' = sinceStart + dt /\ ~(sinceStart + dt > MaxDuration)
               /\ state' = state
      <4>1. sinceStart \in Nat /\ dt \in Nat BY DEF TypeOK
      <4>2. sinceStart' <= MaxDuration BY <3>2, <4>1, Constants
      <4>3. state' = "Oscillating" BY <2>5, <3>2
      <4> QED BY <4>2, <4>3 DEF RunIsBounded
    <3>3. CASE Abort("RunTimeout") \/ Abort("AmplitudeTooSmall") BY <2>1, <3>3
    <3>4. \/ Abort("RunTimeout") \/ Abort("AmplitudeTooSmall") \/ state' = "Done"
          \/ /\ sinceStart' = sinceStart + dt /\ ~(sinceStart + dt > MaxDuration)
             /\ state' = state
      BY <2>5 DEF Measures, Finish
    <3> QED BY <3>1, <3>2, <3>3, <3>4
  <2>6. CASE UNCHANGED vars BY <2>6 DEF vars, RunIsBounded
  <2> QED BY <2>1, <2>2, <2>3, <2>4, <2>5, <2>6, UpdateCases DEF Next
<1> QED BY <1>1, <1>2, TypeCorrect, PTL DEF Spec
=============================================================================
