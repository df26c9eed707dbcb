--------------------------- MODULE NetworkProofs ---------------------------
(***************************************************************************)
(* Proofs about Network for every threshold and interval.                  *)
(***************************************************************************)
EXTENDS Network, TLAPS

LEMMA Times ==
    /\ After \in Nat /\ After > 0 /\ MinInterval \in Nat /\ MinInterval > 0
    /\ Stable \in Nat /\ Stable > 0 /\ Stable <= NoStable /\ NoStable \in Nat /\ NoStable > 0
    /\ MaxFailures \in Nat /\ MaxFailures > 0
    /\ FailureThreshold \in Nat /\ FailureThreshold > 0
    /\ FailureWindow \in Nat /\ FailureWindow > 0
    /\ ApThreshold \in Nat /\ ApThreshold > 0 /\ CounterRange \in Nat /\ CounterRange > 0
BY TimesAssumption

-----------------------------------------------------------------------------
(* Numbers                                                                  *)

\* The remainders of a multiple and of its neighbours.
LEMMA Remainder ==
    ASSUME NEW a \in Nat \ {0}, NEW q \in Int, NEW r \in 0 .. (a - 1)
    PROVE  (a * q + r) % a = r
BY Z3

LEMMA Divided ==
    ASSUME NEW a \in Nat \ {0}, NEW n \in Nat
    PROVE  /\ n = a * (n \div a) + (n % a)
           /\ n % a \in 0 .. (a - 1)
           /\ n \div a \in Int
OBVIOUS

LEMMA BeforeMultiple ==
    ASSUME NEW a \in Nat \ {0}, NEW n \in Nat \ {0}, n % a # 0
    PROVE  (n - 1) % a = (n % a) - 1
<1> DEFINE q == n \div a
           r == (n % a) - 1
<1>1. n - 1 = a * q + r /\ r \in 0 .. (a - 1) /\ q \in Int
  BY Divided
<1> HIDE DEF q, r
<1>2. (a * q + r) % a = r BY <1>1, Remainder
<1> QED BY <1>1, <1>2 DEF r

LEMMA AfterMultiple ==
    ASSUME NEW a \in Nat \ {0}, a > 1, NEW n \in Nat, n % a = 0
    PROVE  (n + 1) % a = 1
<1> DEFINE q == n \div a
<1>1. n + 1 = a * q + 1 /\ 1 \in 0 .. (a - 1) /\ q \in Int
  BY Divided
<1> HIDE DEF q
<1>2. (a * q + 1) % a = 1 BY <1>1, Remainder
<1> QED BY <1>1, <1>2

LEMMA MinOfTwo ==
    ASSUME NEW a \in Int, NEW b \in Int
    PROVE  Min({a, b}) = IF a <= b THEN a ELSE b
<1>1. PICK m \in {a, b} : \A y \in {a, b} : m <= y
  OBVIOUS
<1>2. Min({a, b}) \in {a, b} /\ \A y \in {a, b} : Min({a, b}) <= y
  BY <1>1 DEF Min
<1> QED BY <1>2

LEMMA OlderAge ==
    ASSUME NEW cap \in Nat \ {0}, NEW age \in None .. cap
    PROVE  /\ Older(age, cap) \in None .. cap
           /\ age >= 0 => Older(age, cap) \in 0 .. cap
           /\ age # None => Older(age, cap) = IF age + 1 <= cap THEN age + 1 ELSE cap
           /\ age = None => Older(age, cap) = None
BY MinOfTwo DEF Older, None

-----------------------------------------------------------------------------
(* The monitor                                                              *)

LEMMA FirstStamps ==
    /\ 0 \in 0 .. MaxFailures /\ 0 \in None .. After /\ None \in None .. After
    /\ 0 \in 0 .. MinInterval /\ MinInterval \in 0 .. MinInterval
    /\ 0 \in None .. Stable /\ None \in None .. Stable
    /\ 0 \in 0 .. NoStable /\ 0 \in 0 .. FailureThreshold /\ 0 \in 0 .. FailureWindow
    /\ FailureWindow \in 0 .. FailureWindow /\ 0 \in 0 .. 3 /\ 0 \in Nat
    /\ 0 \in 0 .. (Stable + 1) /\ 1 \in 0 .. (Stable + 1) /\ 0 \in 0 .. (CounterRange - 1)
BY Times DEF None

LEMMA AgedLink ==
    ASSUME NEW l \in Monitor
    PROVE  /\ Aged(l) \in Monitor /\ Aged(l).attempts = l.attempts
           /\ Aged(l).wasConnected = l.wasConnected
           /\ Aged(l).connected = Older(l.connected, Stable)
           /\ Aged(l).stable = Older(l.stable, NoStable)
<1>1. /\ Older(l.down, After) \in None .. After
      /\ Older(l.reconnect, MinInterval) \in 0 .. MinInterval
      /\ Older(l.connected, Stable) \in None .. Stable
      /\ Older(l.stable, NoStable) \in 0 .. NoStable
  <2>1. /\ l.down \in None .. After /\ l.reconnect \in None .. MinInterval /\ l.reconnect >= 0
        /\ l.connected \in None .. Stable /\ l.stable \in None .. NoStable /\ l.stable >= 0
    BY Times DEF Monitor, None
  <2> QED BY <2>1, OlderAge, Times
<1>2. PICK m : m = Aged(l) OBVIOUS
<1>3. m = [l EXCEPT !.down = Older(l.down, After), !.reconnect = Older(l.reconnect, MinInterval),
                    !.connected = Older(l.connected, Stable), !.stable = Older(l.stable, NoStable)]
  BY <1>2 DEF Aged
<1>4. /\ m \in Monitor /\ m.attempts = l.attempts /\ m.wasConnected = l.wasConnected
      /\ m.connected = Older(l.connected, Stable) /\ m.stable = Older(l.stable, NoStable)
  <2> HIDE <1>2
  <2> QED BY <1>1, <1>3 DEF Monitor
<1> QED BY <1>2, <1>4

LEMMA EdgeLink ==
    ASSUME NEW l \in Monitor
    PROVE  /\ Edge(l) \in Monitor /\ Edge(l).attempts \in {0, l.attempts}
           /\ Edge(l).connected = l.connected /\ Edge(l).stable = l.stable
<1>1. \/ Edge(l) = [l EXCEPT !.attempts = 0, !.down = None]
      \/ Edge(l) = [l EXCEPT !.down = 0]
      \/ Edge(l) = l
  BY DEF Edge
<1>2. PICK m : m = Edge(l) OBVIOUS
<1> QED BY <1>1, FirstStamps DEF Monitor

LEMMA ForcedLink ==
    ASSUME NEW l \in Monitor, l.attempts < MaxFailures
    PROVE  /\ Forced(l) \in Monitor /\ Forced(l).connected = l.connected
           /\ Forced(l).stable = l.stable
           /\ ~forces(l) => Forced(l).attempts = l.attempts
<1>1. l.attempts + 1 \in 0 .. MaxFailures BY Times DEF Monitor
<1>2. Forced(l) = l \/ Forced(l) = [l EXCEPT !.attempts = l.attempts + 1, !.reconnect = 0]
  BY DEF Forced
<1>3. ~forces(l) => Forced(l) = l BY DEF Forced
<1> QED BY <1>1, <1>2, <1>3, FirstStamps DEF Monitor

LEMMA StreakLink ==
    ASSUME NEW l \in Monitor, up \in BOOLEAN
    PROVE  LET since == IF up THEN (IF l.connected = None THEN 0 ELSE l.connected) ELSE None
           IN  /\ Streak(l) \in Monitor /\ Streak(l).attempts = l.attempts
               /\ Streak(l).connected = since
               /\ Streak(l).stable = IF since >= Stable THEN 0 ELSE l.stable
<1> DEFINE since == IF up THEN (IF l.connected = None THEN 0 ELSE l.connected) ELSE None
           good == IF since >= Stable THEN 0 ELSE l.stable
<1>1. since \in None .. Stable BY FirstStamps DEF Monitor
<1>2. good \in 0 .. NoStable BY FirstStamps DEF Monitor
<1>3. Streak(l) = [l EXCEPT !.connected = since, !.stable = good] BY DEF Streak
<1> HIDE DEF since, good
<1>4. PICK m : m = [l EXCEPT !.connected = since, !.stable = good] OBVIOUS
<1>5. m \in Monitor /\ m.attempts = l.attempts /\ m.connected = since /\ m.stable = good
  BY <1>1, <1>2, <1>4 DEF Monitor
<1> QED BY <1>3, <1>4, <1>5 DEF since, good

\* One poll: the streak and the time without a stable one go on or start afresh, and an
\* attempt that is not the last leaves one to make.
LEMMA PolledLink ==
    ASSUME link \in Monitor, link.attempts < MaxFailures, up \in BOOLEAN
    PROVE  LET aged == Older(link.connected, Stable)
               since == IF up THEN (IF aged = None THEN 0 ELSE aged) ELSE None
           IN  /\ polled \in Monitor
               /\ polled.connected = since
               /\ polled.stable = IF since >= Stable THEN 0 ELSE Older(link.stable, NoStable)
               /\ restartVerdict = "None" =>
                     polled.attempts < MaxFailures /\ polled.stable < NoStable
<1> DEFINE a == Aged(link)
           e == Edge(a)
           f == Forced(e)
           w == [f EXCEPT !.wasConnected = up]
<1>1. a \in Monitor /\ a.attempts < MaxFailures /\ a.connected = Older(link.connected, Stable)
      /\ a.stable = Older(link.stable, NoStable)
  BY AgedLink
<1> HIDE DEF a
<1>2. e \in Monitor /\ e.attempts < MaxFailures /\ e.connected = a.connected /\ e.stable = a.stable
  BY <1>1, EdgeLink, Times
<1> HIDE DEF e
<1>3. /\ f \in Monitor /\ f.connected = a.connected /\ f.stable = a.stable
      /\ ~forces(e) => f.attempts = e.attempts
  BY <1>2, ForcedLink
<1> HIDE DEF f
<1>4. /\ w \in Monitor /\ w.connected = a.connected /\ w.stable = a.stable
      /\ w.attempts = f.attempts
  BY <1>3 DEF Monitor
<1>5. polled = Streak(w) BY DEF polled, w, f, e, a
<1> HIDE DEF w
<1>6. /\ polled \in Monitor /\ polled.attempts = f.attempts
      /\ LET since == IF up THEN (IF w.connected = None THEN 0 ELSE w.connected) ELSE None
         IN  /\ polled.connected = since
             /\ polled.stable = IF since >= Stable THEN 0 ELSE w.stable
  BY <1>4, <1>5, StreakLink
<1>7. restartVerdict = "None" => polled.attempts < MaxFailures /\ polled.stable < NoStable
  <2>1. restartVerdict = "None" =>
           /\ ~(forces(e) /\ polled.attempts >= MaxFailures)
           /\ ~(polled.stable >= NoStable)
    BY DEF restartVerdict, e, a
  <2>2. polled.attempts \in Nat /\ polled.stable \in Nat /\ e.attempts \in Nat
    BY <1>2, <1>6, Times DEF Monitor
  <2> QED BY <1>2, <1>3, <1>6, <2>1, <2>2, Times
<1> QED BY <1>1, <1>4, <1>6, <1>7

-----------------------------------------------------------------------------
(* Types and the monitor's limits                                           *)

LEMMA Incremented ==
    ASSUME NEW n \in 0 .. (CounterRange - 1)
    PROVE  /\ incremented(n) \in 0 .. (CounterRange - 1)
           /\ n + 1 < CounterRange => incremented(n) = n + 1
           /\ n + 1 = CounterRange => incremented(n) = 0
<1>1. (n + 1) % CounterRange \in 0 .. (CounterRange - 1)
  BY Times, Divided
<1>2. ASSUME n + 1 < CounterRange PROVE (n + 1) % CounterRange = n + 1
  <2>1. (CounterRange * 0 + (n + 1)) % CounterRange = n + 1
    BY <1>2, Times, Remainder
  <2> QED BY <2>1, Times
<1>3. ASSUME n + 1 = CounterRange PROVE (n + 1) % CounterRange = 0
  <2>1. (CounterRange * 1 + 0) % CounterRange = 0
    BY Times, Remainder
  <2> QED BY <1>3, <2>1, Times
<1> QED BY <1>1, <1>2, <1>3 DEF incremented

LEMMA Starts ==
    /\ NewMonitor \in Monitor /\ NewMonitor.attempts = 0
    /\ NewHealth \in Health
    /\ NewNtp \in Synchronisation
BY FirstStamps DEF NewMonitor, NewHealth, NewNtp, Monitor, Health, Synchronisation

LEMMA Counters ==
    ASSUME TypeOK
    PROVE  /\ Min({downPolls + 1, NoStable}) \in 0 .. NoStable
           /\ Min({upPolls + 1, Stable + 1}) \in 0 .. (Stable + 1)
           /\ Min({upPolls + 1, Stable + 1}) =
                  IF upPolls + 1 <= Stable + 1 THEN upPolls + 1 ELSE Stable + 1
           /\ Min({unstable + 1, NoStable}) \in 0 .. NoStable
           /\ Min({unstable + 1, NoStable}) =
                  IF unstable + 1 <= NoStable THEN unstable + 1 ELSE NoStable
<1>1. /\ downPolls \in 0 .. NoStable /\ upPolls \in 0 .. (Stable + 1)
      /\ unstable \in 0 .. NoStable
  BY DEF TypeOK
<1>2. Min({downPolls + 1, NoStable}) = IF downPolls + 1 <= NoStable THEN downPolls + 1 ELSE NoStable
  <2>1. downPolls + 1 \in Int /\ NoStable \in Int BY <1>1, Times
  <2> QED BY <2>1, MinOfTwo
<1>3. Min({upPolls + 1, Stable + 1}) =
         IF upPolls + 1 <= Stable + 1 THEN upPolls + 1 ELSE Stable + 1
  <2>1. upPolls + 1 \in Int /\ Stable + 1 \in Int BY <1>1, Times
  <2> QED BY <2>1, MinOfTwo
<1>4. Min({unstable + 1, NoStable}) = IF unstable + 1 <= NoStable THEN unstable + 1 ELSE NoStable
  <2>1. unstable + 1 \in Int /\ NoStable \in Int BY <1>1, Times
  <2> QED BY <2>1, MinOfTwo
<1> QED BY <1>1, <1>2, <1>3, <1>4, Times

LEMMA InitInv == Init => IInv
<1> SUFFICES ASSUME Init PROVE IInv OBVIOUS
<1>1. TypeOK
  <2>1. failures \in 0 .. (CounterRange - 1) /\ tries \in 0 .. MaxConnectTries /\ sinceAp \in Nat
        /\ downPolls \in 0 .. NoStable /\ upPolls \in 0 .. (Stable + 1)
        /\ unstable \in 0 .. NoStable
    BY FirstStamps DEF Init, MaxConnectTries
  <2> QED BY <2>1, Starts DEF Init, TypeOK
<1>2. MonitorCounts BY Starts, Times DEF Init, MonitorCounts
<1> QED BY <1>1, <1>2 DEF IInv

LEMMA ResetKeepsInv == ASSUME IInv, NEW why, Reset(why) PROVE IInv'
<1>1. TypeOK'
  <2>1. posted' \in {"no", "saved", "rebooted"}
    BY DEF Reset
  <2>2. tries' \in 0 .. MaxConnectTries /\ downPolls' \in 0 .. NoStable
        /\ upPolls' \in 0 .. (Stable + 1) /\ unstable' \in 0 .. NoStable
    BY FirstStamps DEF Reset, MaxConnectTries
  <2>3. up' \in BOOLEAN /\ restart' \in BOOLEAN BY DEF Reset
  <2>4. /\ link' = NewMonitor /\ health' = NewHealth /\ ntp' = NewNtp /\ pc' = "boot"
        /\ web' = "NONE" /\ UNCHANGED <<configured, failures, air, sinceAp>> /\ TypeOK
    BY DEF Reset, nvs, IInv
  <2> QED BY <2>1, <2>2, <2>3, <2>4, Starts DEF TypeOK
<1>2. MonitorCounts' BY Starts, Times DEF Reset, MonitorCounts
<1> QED BY <1>1, <1>2 DEF IInv

\* A pass of the loop: every stamp and count stays in its range, and one that does not
\* restart the device leaves the time without a stable streak below its limit.
LEMMA LoopPassKeepsInv == IInv /\ LoopPass => IInv'
<1> SUFFICES ASSUME IInv, LoopPass PROVE IInv' OBVIOUS
<1> DEFINE aged == Older(link.connected, Stable)
           since == IF up THEN (IF aged = None THEN 0 ELSE aged) ELSE None
<1>1. /\ pc = "loop" /\ link' = polled /\ TypeOK /\ link \in Monitor
      /\ link.attempts < MaxFailures /\ up \in BOOLEAN
      /\ link.connected = upPolls - 1 /\ unstable <= link.stable /\ link.stable < NoStable
      /\ UNCHANGED <<configured, failures, air, tries, web, restart, posted, sinceAp>>
      /\ upPolls \in 0 .. (Stable + 1) /\ unstable \in 0 .. NoStable
  BY DEF LoopPass, IInv, TypeOK, MonitorCounts, nvs
<1>2. /\ polled \in Monitor
      /\ polled.connected = since
      /\ polled.stable = IF since >= Stable THEN 0 ELSE Older(link.stable, NoStable)
      /\ restartVerdict = "None" => polled.attempts < MaxFailures /\ polled.stable < NoStable
  BY <1>1, PolledLink
<1>3. /\ downPolls' \in 0 .. NoStable
      /\ upPolls' = IF up THEN Min({upPolls + 1, Stable + 1}) ELSE 0
      /\ upPolls' \in 0 .. (Stable + 1)
      /\ unstable' = IF upPolls' > Stable THEN 0 ELSE Min({unstable + 1, NoStable})
      /\ unstable' \in 0 .. NoStable
  BY <1>1, Counters, FirstStamps DEF LoopPass
<1>4. /\ pc' \in {"loop", "restart"} /\ (pc' = "loop" => restartVerdict = "None")
      /\ up' \in BOOLEAN
      /\ health' \in Health
      /\ ntp' \in Synchronisation
  <2>1. CASE restartVerdict # "None"
    BY <1>1, <2>1 DEF LoopPass, TypeOK
  <2>2. CASE restartVerdict = "None"
    <3>1. PICK time \in NtpTick(health.failures) : \E n \in MqttTick(time.failures) :
             LET h == [failures |-> n, action |-> Older(health.action, FailureWindow)] IN
             /\ pc' = "loop" /\ ntp' = time.ntp
             /\ up' = (up /\ ~shouldForceReconnect(h))
             /\ health' = IF shouldForceReconnect(h) THEN [h EXCEPT !.action = 0] ELSE h
      BY <2>2 DEF LoopPass
    <3>2. PICK n \in MqttTick(time.failures) :
             LET h == [failures |-> n, action |-> Older(health.action, FailureWindow)] IN
             /\ pc' = "loop" /\ ntp' = time.ntp
             /\ up' = (up /\ ~shouldForceReconnect(h))
             /\ health' = IF shouldForceReconnect(h) THEN [h EXCEPT !.action = 0] ELSE h
      BY <3>1
    <3>3. health.failures \in 0 .. FailureThreshold /\ health.action \in 0 .. FailureWindow
          /\ ntp \in Synchronisation
      BY <1>1 DEF TypeOK, Health
    <3>4. /\ time.ntp \in Synchronisation
          /\ time.failures \in 0 .. FailureThreshold
      <4>1. CASE time = [ntp |-> ntp, failures |-> health.failures]
        BY <3>3, <4>1
      <4>2. CASE \E result \in attempt(up) : time = NtpAttempted(result, health.failures)
        <5>1. PICK result \in attempt(up) : time = NtpAttempted(result, health.failures)
          BY <4>2
        <5>2. reportFailure(health.failures) \in 0 .. FailureThreshold
          BY <3>3, Times, MinOfTwo DEF reportFailure
        <5>3. time.ntp = [synced |-> ntp.synced \/ result = "Ok",
                          failed |-> result = "Failed" \/ (ntp.failed /\ result # "Ok")]
          BY <5>1 DEF NtpAttempted
        <5>4. \/ time.failures = reportFailure(health.failures)
              \/ time.failures = 0 \/ time.failures = health.failures
          BY <5>1 DEF NtpAttempted
        <5> QED BY <3>3, <5>2, <5>3, <5>4, FirstStamps DEF Synchronisation
      <4> QED BY <4>1, <4>2 DEF NtpTick
    <3>5. n \in 0 .. FailureThreshold
      BY <3>4, Times DEF MqttTick
    <3>6. Older(health.action, FailureWindow) \in 0 .. FailureWindow
      <4>1. health.action \in None .. FailureWindow /\ health.action >= 0
        BY <3>3, Times DEF None
      <4> QED BY <4>1, OlderAge, Times
    <3>7. health' \in Health
      <4>1. PICK h : h = [failures |-> n, action |-> Older(health.action, FailureWindow)] OBVIOUS
      <4>2. h \in Health
        BY <3>5, <3>6, <4>1 DEF Health
      <4>3. health' = h \/ health' = [h EXCEPT !.action = 0]
        BY <3>2, <4>1
      <4> HIDE <4>1
      <4> QED BY <4>2, <4>3, FirstStamps DEF Health
    <3>8. up' \in BOOLEAN BY <3>2
    <3> QED BY <2>2, <3>2, <3>4, <3>7, <3>8
  <2> QED BY <2>1, <2>2
<1>5. TypeOK'
  BY <1>1, <1>2, <1>3, <1>4 DEF TypeOK
<1>6. since = upPolls' - 1
  <2>1. /\ link.connected \in None .. Stable
        /\ link.connected # None => aged = IF link.connected + 1 <= Stable
                                           THEN link.connected + 1 ELSE Stable
        /\ link.connected = None => aged = None
    BY <1>1, OlderAge, Times DEF Monitor
  <2> HIDE DEF aged
  <2> QED BY <1>1, <1>3, <2>1, Counters, Times DEF None
<1>7. polled.stable >= unstable'
  <2>1. Older(link.stable, NoStable) = link.stable + 1
    <3>1. link.stable \in None .. NoStable /\ link.stable >= 0
      BY <1>1, Times DEF Monitor, None
    <3> QED BY <1>1, <3>1, OlderAge, Times DEF None
  <2>2. polled.stable \in Nat BY <1>2 DEF Monitor
  <2> HIDE DEF since
  <2> QED BY <1>1, <1>2, <1>3, <1>6, <2>1, <2>2, Counters, Times DEF Monitor
<1>8. MonitorCounts'
  <2>1. polled.stable \in Nat BY <1>2 DEF Monitor
  <2> HIDE DEF since
  <2> QED BY <1>1, <1>2, <1>4, <1>6, <1>7, <2>1 DEF MonitorCounts
<1> QED BY <1>5, <1>8 DEF IInv

\* Everything else leaves the monitor's counts alone or starts them.
LEMMA OthersKeepInv ==
    ASSUME IInv, \/ initialize_wifi \/ runFirstBoot \/ SchedulesRestart \/ WindowEnds
                 \/ runFallbackWindow \/ startSTA \/ AttemptFails
                 \/ handle_connection_failure \/ requestRestart \/ handleWiFiConfig
                 \/ factoryReset \/ AirChanges \/ Drops \/ Rejoins
    PROVE  IInv'
<1>1. TypeOK /\ MonitorCounts /\ failures \in 0 .. (CounterRange - 1) BY DEF IInv, TypeOK
<1>2. CASE initialize_wifi
  <2>1. /\ pc = "boot" /\ pc' \in {"first boot", "window", "connect"}
        /\ web' \in {"NONE", "CONFIG", "OPERATIONAL", "ended"} /\ sinceAp' \in Nat
        /\ posted' \in {"no", "saved", "rebooted"}
        /\ UNCHANGED <<configured, failures, air, up, tries, restart, link, health, ntp,
                       downPolls, upPolls, unstable>>
    BY <1>1, <1>2, FirstStamps DEF initialize_wifi, nvs, driver, monitors, TypeOK
  <2> QED BY <1>1, <2>1 DEF IInv, TypeOK, MonitorCounts
<1>3. CASE runFirstBoot \/ SchedulesRestart \/ WindowEnds \/ requestRestart \/ factoryReset
           \/ handleWiFiConfig
  <2>1. /\ pc' \in {pc, "leaving", "closing"}
        /\ pc' = pc \/ pc \notin {"loop", "restart"}
        /\ configured' \in BOOLEAN /\ failures' \in 0 .. (CounterRange - 1)
        /\ web' \in {"NONE", "CONFIG", "OPERATIONAL", "ended"} /\ restart' \in BOOLEAN
        /\ posted' \in {"no", "saved", "rebooted"}
        /\ UNCHANGED <<air, up, tries, link, health, ntp, sinceAp, downPolls, upPolls, unstable>>
    BY <1>1, <1>3, FirstStamps DEF runFirstBoot, SchedulesRestart, WindowEnds, requestRestart,
       factoryReset, handleWiFiConfig, nvs, driver, monitors, history, TypeOK
  <2> QED BY <1>1, <2>1 DEF IInv, TypeOK, MonitorCounts
<1>4. CASE runFallbackWindow \/ handle_connection_failure
  <2>1. /\ pc' = "restart"
        /\ failures' = 0 \/ failures' = incremented(failures)
        /\ sinceAp' \in Nat
        /\ UNCHANGED <<configured, air, up, tries, web, restart, link, health, ntp, posted,
                       downPolls, upPolls, unstable>>
    <3>0. sinceAp \in Nat BY <1>1 DEF TypeOK
    <3>1. sinceAp + 1 \in Nat BY <3>0
    <3>2. CASE runFallbackWindow
      BY <3>0, <3>2 DEF runFallbackWindow, driver, monitors, history
    <3>3. CASE handle_connection_failure
      BY <3>1, <3>3 DEF handle_connection_failure, driver, monitors
    <3> QED BY <1>4, <3>2, <3>3
  <2>2. failures' \in 0 .. (CounterRange - 1)
    BY <1>1, <2>1, Incremented, FirstStamps
  <2>3. TypeOK' BY <1>1, <2>1, <2>2 DEF TypeOK
  <2>4. MonitorCounts' BY <1>1, <2>1 DEF MonitorCounts
  <2> QED BY <2>3, <2>4 DEF IInv
<1>5. CASE startSTA
  <2>1. /\ pc = "connect" /\ pc' = "online" /\ up' = TRUE /\ ntpBegin
        /\ UNCHANGED <<configured, failures, air, tries, web, restart, link, health, posted,
                       sinceAp, downPolls, upPolls, unstable>>
    BY <1>5 DEF startSTA, Associates, nvs, history
  <2>2. ntp' \in Synchronisation
    <3>1. PICK result : ntp' = [ntp EXCEPT !.synced = (result = "Ok")]
      BY <2>1 DEF ntpBegin
    <3> QED BY <1>1, <3>1 DEF TypeOK, Synchronisation
  <2>3. up' \in BOOLEAN BY <2>1
  <2> QED BY <1>1, <2>1, <2>2, <2>3 DEF IInv, TypeOK, MonitorCounts
<1>6. CASE AttemptFails
  <2>1. tries' \in 0 .. MaxConnectTries
    BY <1>1, <1>6 DEF AttemptFails, TypeOK, MaxConnectTries
  <2>2. UNCHANGED <<configured, failures, air, up, pc, web, restart, link, health, ntp, posted,
                    sinceAp, downPolls, upPolls, unstable>>
    BY <1>6 DEF AttemptFails, nvs, driver, monitors, history
  <2>3. TypeOK' BY <1>1, <2>1, <2>2 DEF TypeOK
  <2>4. MonitorCounts' BY <1>1, <2>2 DEF MonitorCounts
  <2> QED BY <2>3, <2>4 DEF IInv
<1>7. CASE AirChanges \/ Drops \/ Rejoins
  <2>1. /\ air' \in BOOLEAN /\ up' \in BOOLEAN
        /\ UNCHANGED <<configured, failures, pc, tries, web, restart, link, health, ntp, posted,
                       sinceAp, downPolls, upPolls, unstable>>
    BY <1>1, <1>7 DEF AirChanges, Drops, Rejoins, nvs, monitors, history, TypeOK
  <2>3. TypeOK' BY <1>1, <2>1 DEF TypeOK
  <2>4. MonitorCounts' BY <1>1, <2>1 DEF MonitorCounts
  <2> QED BY <2>3, <2>4 DEF IInv
<1> QED BY <1>2, <1>3, <1>4, <1>5, <1>6, <1>7

LEMMA EntersLoopKeepsInv == IInv /\ EntersLoop => IInv'
<1> SUFFICES ASSUME IInv, EntersLoop PROVE IInv' OBVIOUS
<1>1. /\ pc = "online" /\ failures' = 0 /\ sinceAp' = 0 /\ upPolls' = 1
      /\ web' = "OPERATIONAL" /\ pc' = "loop" /\ TypeOK /\ MonitorCounts /\ link \in Monitor
      /\ link' = [link EXCEPT !.wasConnected = TRUE, !.connected = 0, !.stable = 0, !.down = None]
      /\ UNCHANGED <<configured, air, up, tries, restart, health, ntp, posted, downPolls, unstable>>
  BY DEF EntersLoop, driver, IInv, TypeOK
<1>2. link' \in Monitor /\ link'.attempts = link.attempts /\ link'.connected = 0 /\ link'.stable = 0
  BY <1>1, FirstStamps DEF Monitor
<1>3. failures' \in 0 .. (CounterRange - 1) /\ sinceAp' \in Nat /\ upPolls' \in 0 .. (Stable + 1)
  BY <1>1, FirstStamps
<1>4. TypeOK'
  <2>1. /\ web' \in {"NONE", "CONFIG", "OPERATIONAL", "ended"}
        /\ pc' \in {"boot", "first boot", "leaving", "window", "closing", "connect",
                    "online", "loop", "restart"}
    BY <1>1
  <2>2. TypeOK BY <1>1
  <2>3. UNCHANGED <<configured, air, up, tries, restart, health, ntp, posted, downPolls, unstable>>
    BY <1>1
  <2> QED BY <1>2, <1>3, <2>1, <2>2, <2>3 DEF TypeOK
<1>5. MonitorCounts' BY <1>1, <1>2, Times DEF MonitorCounts
<1> QED BY <1>4, <1>5 DEF IInv

LEMMA EventKeepsInv == IInv /\ onStaDisconnected => IInv'
<1> SUFFICES ASSUME IInv, onStaDisconnected PROVE IInv' OBVIOUS
<1>1. /\ link' = [link EXCEPT !.down = 0] /\ TypeOK /\ MonitorCounts /\ link \in Monitor
      /\ UNCHANGED <<configured, failures, air, up, pc, tries, web, restart, health, ntp, posted,
                     sinceAp, downPolls, upPolls, unstable>>
  BY DEF onStaDisconnected, nvs, driver, history, IInv, TypeOK
<1>2. /\ link' \in Monitor /\ link'.attempts = link.attempts
      /\ link'.connected = link.connected /\ link'.stable = link.stable
  BY <1>1, FirstStamps DEF Monitor
<1>3. TypeOK' BY <1>1, <1>2 DEF TypeOK
<1>4. MonitorCounts' BY <1>1, <1>2 DEF MonitorCounts
<1> QED BY <1>3, <1>4 DEF IInv

\* The inductive invariant: types, and the monitor within its limits.
THEOREM Invariance == Spec => []IInv
<1>1. IInv /\ [Next]_vars => IInv'
  <2> SUFFICES ASSUME IInv, [Next]_vars PROVE IInv' OBVIOUS
  <2>1. CASE UNCHANGED vars
    <3>1. UNCHANGED <<configured, failures, air, up, pc, tries, web, restart, link, health, ntp,
                      posted, sinceAp, downPolls, upPolls, unstable>>
      BY <2>1 DEF vars, nvs, driver, monitors, history
    <3>2. TypeOK' BY <3>1 DEF IInv, TypeOK
    <3>3. MonitorCounts' BY <3>1 DEF IInv, MonitorCounts
    <3> QED BY <3>2, <3>3 DEF IInv
  <2>2. CASE AnyReset \/ checkRestart \/ restartNow
    BY <2>2, ResetKeepsInv DEF AnyReset, checkRestart, restartNow
  <2> QED BY <2>1, <2>2, LoopPassKeepsInv, OthersKeepInv, EntersLoopKeepsInv, EventKeepsInv
        DEF Next, NetworkTask, Disturbance
<1> QED BY <1>1, InitInv, PTL DEF Spec

\* Every reachable state is well typed.
THEOREM TypeCorrect == Spec => []TypeOK
<1>1. IInv => TypeOK BY DEF IInv
<1> QED BY <1>1, Invariance, PTL

\* A flickering link, or one whose driver repeats its event, does not keep the device in
\* the loop beyond the limit, whatever the thresholds are.
THEOREM InstabilityEnds == Spec => []UnstableEnds
<1>1. IInv => UnstableEnds
  <2> SUFFICES ASSUME IInv, pc = "loop" PROVE unstable < NoStable BY DEF UnstableEnds
  <2>1. link.stable \in Nat /\ unstable \in Nat /\ unstable <= link.stable
        /\ link.stable < NoStable
    BY DEF IInv, TypeOK, Monitor, MonitorCounts
  <2> QED BY <2>1, Times
<1> QED BY <1>1, Invariance, PTL
-----------------------------------------------------------------------------
(* Credentials, and offers of the access point                              *)

\* When the window opens, and what the counter says after a failed boot.
LEMMA Opening ==
    ASSUME TypeOK, ApThreshold > 1
    PROVE  /\ failures' = 0 => ~opensWindow'
           /\ failures' = failures => (opensWindow' <=> opensWindow)
           /\ opensWindow /\ failures' = incremented(failures) => ~opensWindow'
<1>1. failures \in 0 .. (CounterRange - 1) /\ failures \in Nat
  <2>1. failures \in 0 .. (CounterRange - 1) BY DEF TypeOK
  <2> QED BY <2>1, Times
<1>2. (failures' = 0 => ~opensWindow') /\ (failures' = failures => (opensWindow' <=> opensWindow))
  BY DEF opensWindow
<1>3. ASSUME opensWindow, failures' = incremented(failures) PROVE ~opensWindow'
  <2>1. CASE failures + 1 < CounterRange
    <3>1. failures' = failures + 1 BY <1>1, <1>3, <2>1, Incremented
    <3>2. (failures + 1) % ApThreshold = 1
      BY <1>1, <1>3, Times, AfterMultiple DEF opensWindow
    <3>3. failures' % ApThreshold = 1 BY <3>1, <3>2
    <3> QED BY <3>3 DEF opensWindow
  <2>2. CASE failures + 1 = CounterRange
    <3>1. failures' = 0 BY <1>1, <1>3, <2>2, Incremented
    <3> QED BY <3>1 DEF opensWindow
  <2> QED BY <1>1, <2>1, <2>2, Times
<1> QED BY <1>2, <1>3

\* Which routes are served where is kept by every step.
LEMMA ServingNext == ASSUME Serving, [Next]_vars PROVE Serving'
<1>1. CASE UNCHANGED vars
  BY <1>1 DEF vars, nvs, Serving
<1>2. CASE AnyReset \/ checkRestart \/ restartNow
  BY <1>2 DEF AnyReset, checkRestart, restartNow, Reset, Serving
<1>3. CASE initialize_wifi
  BY <1>3 DEF initialize_wifi, nvs, Serving
<1>4. CASE runFirstBoot \/ SchedulesRestart \/ WindowEnds \/ runFallbackWindow
  BY <1>4 DEF runFirstBoot, SchedulesRestart, WindowEnds, runFallbackWindow, nvs, Serving
<1>5. CASE startSTA \/ AttemptFails \/ handle_connection_failure \/ EntersLoop
  BY <1>5 DEF startSTA, Associates, AttemptFails, handle_connection_failure, EntersLoop, nvs, Serving
<1>6. CASE requestRestart \/ handleWiFiConfig \/ factoryReset
  BY <1>6 DEF requestRestart, handleWiFiConfig, factoryReset, nvs, Serving
<1>7. CASE AirChanges \/ Drops \/ onStaDisconnected \/ Rejoins
  BY <1>7 DEF AirChanges, Drops, onStaDisconnected, Rejoins, nvs, Serving
<1>8. CASE LoopPass
  <2>1. pc = "loop" /\ pc' \in {"loop", "restart"} /\ UNCHANGED <<failures, web>>
    BY <1>8 DEF LoopPass, nvs
  <2> QED BY <2>1 DEF Serving
<1> QED BY <1>1, <1>2, <1>3, <1>4, <1>5, <1>6, <1>7, <1>8 DEF Next, NetworkTask, Disturbance

\* One more failed boot leaves a window's counter off the multiples, so credentials posted
\* there, or in operation, or at the first boot meet no window at the boot they cause.
LEMMA CredentialsNext ==
    ASSUME TypeOK, CredentialsInv, ApThreshold > 1, [Next]_vars
    PROVE  CredentialsInv'
<1>1. Serving' BY ServingNext DEF CredentialsInv
<1>2. WindowsAreDue' /\ NewCredentialsAreTried'
  <2>1. CASE UNCHANGED vars
    BY <2>1, Opening DEF vars, nvs, history, CredentialsInv, Serving, WindowsAreDue, NewCredentialsAreTried
  <2>2. CASE AnyReset
    BY <2>2, Opening DEF AnyReset, Reset, nvs, CredentialsInv, WindowsAreDue, NewCredentialsAreTried
  <2>3. CASE checkRestart \/ restartNow
    BY <2>3, Opening DEF checkRestart, restartNow, Reset, nvs, CredentialsInv, WindowsAreDue,
       NewCredentialsAreTried
  <2>4. CASE initialize_wifi
    BY <2>4, Opening DEF initialize_wifi, nvs, CredentialsInv, Serving, WindowsAreDue,
       NewCredentialsAreTried
  <2>5. CASE runFirstBoot \/ SchedulesRestart \/ WindowEnds \/ runFallbackWindow
    BY <2>5, Opening DEF runFirstBoot, SchedulesRestart, WindowEnds, runFallbackWindow, nvs,
       history, CredentialsInv, Serving, WindowsAreDue, NewCredentialsAreTried
  <2>6. CASE startSTA \/ AttemptFails \/ handle_connection_failure \/ EntersLoop
    BY <2>6, Opening DEF startSTA, Associates, AttemptFails, handle_connection_failure, EntersLoop,
       nvs, history, CredentialsInv, Serving, WindowsAreDue, NewCredentialsAreTried
  <2>7. CASE requestRestart \/ handleWiFiConfig \/ factoryReset
    BY <2>7, Opening DEF requestRestart, handleWiFiConfig, factoryReset, nvs, history,
       CredentialsInv, Serving, WindowsAreDue, NewCredentialsAreTried
  <2>8. CASE AirChanges \/ Drops \/ onStaDisconnected \/ Rejoins
    BY <2>8, Opening DEF AirChanges, Drops, onStaDisconnected, Rejoins, nvs, history,
       CredentialsInv, Serving, WindowsAreDue, NewCredentialsAreTried
  <2>9. CASE LoopPass
    <3>1. pc = "loop" /\ pc' \in {"loop", "restart"} /\ UNCHANGED <<failures, web, posted>>
      BY <2>9 DEF LoopPass, nvs
    <3> QED BY <3>1, Opening DEF CredentialsInv, Serving, WindowsAreDue, NewCredentialsAreTried
  <2> QED BY <2>1, <2>2, <2>3, <2>4, <2>5, <2>6, <2>7, <2>8, <2>9
        DEF Next, NetworkTask, Disturbance
<1> QED BY <1>1, <1>2 DEF CredentialsInv

\* Credentials a user has entered are tried at the boot that follows, for every threshold
\* but 1, which would offer the access point after each failed boot.
THEOREM NewCredentialsGoFirst ==
    ASSUME ApThreshold > 1
    PROVE  Spec => []NewCredentialsAreTried
<1>1. Init => CredentialsInv
  BY DEF Init, CredentialsInv, Serving, WindowsAreDue, NewCredentialsAreTried, opensWindow
<1>2. TypeOK /\ CredentialsInv /\ [Next]_vars => CredentialsInv'
  BY CredentialsNext
<1>3. CredentialsInv => NewCredentialsAreTried BY DEF CredentialsInv
<1> QED BY <1>1, <1>2, <1>3, TypeCorrect, PTL DEF Spec

\* The failed boots since the last offer, one failure on: one more, or none after a window.
LEMMA OneMore ==
    ASSUME TypeOK, CounterRange > 1, (CounterRange - 1) % ApThreshold = 0, ~opensWindow
    PROVE  /\ incremented(failures) = failures + 1
           /\ FailuresSince(failures + 1) = FailuresSince(failures) + 1
<1>1. failures \in 0 .. (CounterRange - 1) /\ failures \in Nat
  <2>1. failures \in 0 .. (CounterRange - 1) BY DEF TypeOK
  <2> QED BY <2>1, Times
<1>2. failures + 1 < CounterRange
  <2>1. failures # CounterRange - 1 BY <1>1, Times DEF opensWindow
  <2> QED BY <1>1, <2>1, Times
<1>3. incremented(failures) = failures + 1 BY <1>1, <1>2, Incremented
<1>4. FailuresSince(failures + 1) = (failures % ApThreshold) + 1
  BY <1>1 DEF FailuresSince
<1>5. CASE failures = 0
  <2>1. (ApThreshold * 0 + 0) % ApThreshold = 0 BY Times, Remainder
  <2>2. failures % ApThreshold = 0 BY <1>5, <2>1, Times
  <2> QED BY <1>3, <1>4, <1>5, <2>2 DEF FailuresSince
<1>6. CASE failures # 0
  <2>1. failures % ApThreshold # 0 BY <1>1, <1>6 DEF opensWindow
  <2>2. (failures - 1) % ApThreshold = (failures % ApThreshold) - 1
    <3>1. failures \in Nat \ {0} /\ ApThreshold \in Nat \ {0} BY <1>1, <1>6, Times
    <3> HIDE DEF FailuresSince
    <3> QED BY <2>1, <3>1, BeforeMultiple
  <2>3. failures % ApThreshold \in Int BY <1>1, Times, Divided
  <2> QED BY <1>3, <1>4, <1>6, <2>2, <2>3 DEF FailuresSince
<1> QED BY <1>5, <1>6

\* A bound for the count, at any value of the counter.
LEMMA SinceIsBounded ==
    ASSUME NEW n \in Nat
    PROVE  FailuresSince(n) \in 0 .. ApThreshold
<1>1. CASE n = 0 BY <1>1, Times DEF FailuresSince
<1>2. CASE n # 0
  <2>1. n - 1 \in Nat BY <1>2
  <2>2. (n - 1) % ApThreshold \in 0 .. (ApThreshold - 1) BY <2>1, Times, Divided
  <2> QED BY <1>2, <2>2, Times DEF FailuresSince
<1> QED BY <1>1, <1>2

\* Only a failed boot raises the count, by one along with the counter; whatever clears the
\* counter finds the count cleared.
LEMMA OffersNext ==
    ASSUME TypeOK, OffersInv, CounterRange > 1, (CounterRange - 1) % ApThreshold = 0, [Next]_vars
    PROVE  OffersInv'
<1>1. Serving' BY ServingNext DEF OffersInv
<1>2. sinceAp \in Nat /\ failures \in Nat /\ FailuresSince(failures) \in Nat
  <2>1. sinceAp \in Nat /\ failures \in 0 .. (CounterRange - 1) BY DEF TypeOK
  <2>2. failures \in Nat BY <2>1, Times
  <2> QED BY <2>1, <2>2, SinceIsBounded, Times
<1>3. failures' = failures => FailuresSince(failures') = FailuresSince(failures)
                              /\ (opensWindow' <=> opensWindow)
  BY DEF opensWindow
<1>4. ASSUME sinceAp' = 0, pc' # "connect", failures' \in Nat PROVE OffersInv'
  <2>1. 0 <= FailuresSince(failures') BY <1>4, SinceIsBounded, Times
  <2> QED BY <1>1, <1>4, <2>1 DEF OffersInv, OffersAreCounted
<1>5. ASSUME UNCHANGED <<failures, sinceAp>>, pc' = "connect" => pc \in {"boot", "connect"},
             pc = "boot" /\ pc' = "connect" => ~opensWindow,
             web' = web \/ web' = "NONE" \/ sinceAp' = 0
      PROVE  OffersInv'
  BY <1>1, <1>2, <1>3, <1>5 DEF OffersInv, OffersAreCounted
<1>6. CASE UNCHANGED vars
  BY <1>5, <1>6 DEF vars, nvs, history
<1>7. CASE AnyReset \/ checkRestart \/ restartNow
  BY <1>5, <1>7 DEF AnyReset, checkRestart, restartNow, Reset, nvs
<1>8. CASE initialize_wifi
  <2>1. CASE pc' = "connect"
    BY <1>5, <1>8, <2>1 DEF initialize_wifi, nvs
  <2>2. CASE pc' # "connect"
    <3>1. sinceAp' = 0 /\ failures' = failures BY <1>8, <2>2 DEF initialize_wifi, nvs
    <3> QED BY <1>2, <1>4, <2>2, <3>1
  <2> QED BY <2>1, <2>2
<1>9. CASE handle_connection_failure
  <2>1. pc = "connect" /\ pc' = "restart" /\ web' = web /\ ~opensWindow /\ web = "NONE"
        /\ failures' = incremented(failures) /\ sinceAp' = sinceAp + 1
    BY <1>9 DEF handle_connection_failure, OffersInv, Serving
  <2>2. failures' = failures + 1 /\ FailuresSince(failures') = FailuresSince(failures) + 1
    BY <2>1, OneMore
  <2> QED BY <1>1, <1>2, <2>1, <2>2 DEF OffersInv, OffersAreCounted
<1>10. CASE runFirstBoot \/ runFallbackWindow \/ EntersLoop \/ factoryReset
  <2>1. sinceAp' = 0 /\ pc' # "connect"
    BY <1>10 DEF runFirstBoot, runFallbackWindow, EntersLoop, factoryReset, history, OffersInv,
       Serving, OffersAreCounted
  <2>2. failures' = 0 \/ failures' = incremented(failures)
    BY <1>10 DEF runFirstBoot, runFallbackWindow, EntersLoop, factoryReset
  <2>3. failures' \in Nat
    <3>1. failures \in 0 .. (CounterRange - 1) BY DEF TypeOK
    <3> QED BY <2>2, <3>1, Incremented, Times
  <2> QED BY <1>4, <2>1, <2>3
<1>11. CASE SchedulesRestart \/ startSTA \/ AttemptFails \/ requestRestart
            \/ AirChanges \/ Drops \/ onStaDisconnected \/ Rejoins
  <2>1. UNCHANGED <<failures, sinceAp, web>> /\ (pc' = pc \/ pc' = "online")
    BY <1>11 DEF SchedulesRestart, startSTA, Associates, AttemptFails, requestRestart, AirChanges,
       Drops, onStaDisconnected, Rejoins, nvs, history
  <2> QED BY <1>5, <2>1
<1>12. CASE WindowEnds \/ handleWiFiConfig
  <2>1. UNCHANGED <<failures, sinceAp>> /\ (pc' = pc \/ pc' = "closing")
        /\ (web' = web \/ sinceAp' = 0)
    BY <1>12 DEF WindowEnds, handleWiFiConfig, nvs, history, OffersInv, Serving, OffersAreCounted
  <2> QED BY <1>5, <2>1
<1>13. CASE LoopPass
  <2>1. pc = "loop" /\ pc' \in {"loop", "restart"} /\ UNCHANGED <<failures, web, sinceAp>>
    BY <1>13 DEF LoopPass, nvs
  <2> QED BY <1>5, <2>1
<1> QED BY <1>6, <1>7, <1>8, <1>9, <1>10, <1>11, <1>12, <1>13 DEF Next, NetworkTask, Disturbance

\* Nobody is locked out, across the wrap of the counter too.  That its largest value, 255,
\* is a multiple of the threshold, 3, is what the wrap needs: the boot that would wrap it
\* offers the access point.
THEOREM AccessPointIsOffered ==
    ASSUME CounterRange > 1, (CounterRange - 1) % ApThreshold = 0
    PROVE  Spec => []NeverLockedOut
<1>1. Init => OffersInv
  BY DEF Init, OffersInv, Serving, OffersAreCounted, FailuresSince
<1>2. TypeOK /\ OffersInv /\ [Next]_vars => OffersInv'
  BY OffersNext
<1>3. TypeOK /\ OffersInv => NeverLockedOut
  <2> SUFFICES ASSUME TypeOK, OffersInv PROVE sinceAp <= ApThreshold BY DEF NeverLockedOut
  <2>1. sinceAp \in Nat /\ failures \in 0 .. (CounterRange - 1) BY DEF TypeOK
  <2>2. failures \in Nat BY <2>1, Times
  <2>3. sinceAp <= FailuresSince(failures) BY DEF OffersInv, OffersAreCounted
  <2> QED BY <2>1, <2>2, <2>3, SinceIsBounded, Times
<1> QED BY <1>1, <1>2, <1>3, TypeCorrect, PTL DEF Spec
=============================================================================
