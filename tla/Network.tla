------------------------------- MODULE Network -------------------------------
(***************************************************************************)
(* The Network task: how the device gets on the Wi-Fi, and what it does    *)
(* when it cannot.  Boot (Network::task), the provisioning access point    *)
(* (ApProvisioning), the association (WifiStation::connect), the once-per- *)
(* second supervision of the link (WifiStation::supervise, LinkMonitor)    *)
(* together with the forced reconnects of InternetHealth, what NtpSync and *)
(* MQTT report to it, and the deferred restart of ConfigManager, which     *)
(* loop() carries out.                                                     *)
(*                                                                         *)
(* Three parties act besides the Network task: the Wi-Fi driver with its   *)
(* event task, the web server's task, and loop().  Time is counted in      *)
(* supervision polls; a stamp is kept as the number of polls since it was  *)
(* taken, saturated at the largest age the code compares it with.          *)
(***************************************************************************)
EXTENDS Integers, FiniteSetsExt

CONSTANTS
    After,          \* ACTIVE_RECONNECT_AFTER_MS
    MinInterval,    \* ACTIVE_RECONNECT_MIN_INTERVAL_MS
    MaxFailures,    \* MAX_ACTIVE_RECONNECT_FAILURES
    Stable,         \* STABLE_CONNECT_MS
    NoStable,       \* FORCE_RESTART_NO_STABLE_MS
    FailureThreshold,   \* of InternetHealth
    FailureWindow,      \* FAILURE_WINDOW_MS
    ApThreshold,    \* AP_FALLBACK_THRESHOLD
    CounterRange    \* wifi_failures is an uint8_t: 256 values

ASSUME TimesAssumption ==
    /\ {After, MinInterval, Stable} \subseteq 1..NoStable
    /\ {NoStable, MaxFailures, FailureThreshold, FailureWindow, ApThreshold, CounterRange}
          \subseteq Nat \ {0}

VARIABLES
    configured,     \* NVS: Wi-Fi credentials are stored
    failures,       \* NVS: consecutive boots that could not associate
    air,            \* the home access point can be reached
    up,             \* WiFi.status() == WL_CONNECTED
    pc,             \* where the Network task is
    tries,          \* association attempts of connect() made
    web,            \* the route table that is served
    restart,        \* a deferred restart is requested
    link,           \* LinkMonitor
    health,         \* InternetHealth: failures counted, age of the last action
    ntp,            \* NtpSync: synchronised; the last attempt failed
    \* history
    posted,         \* new credentials: not yet used, or already rebooted for
    sinceAp,        \* failed boots since the access point was last offered
    downPolls,      \* polls in a row that saw the link down
    upPolls,        \* polls in a row that saw it up, one more than Stable at most
    unstable        \* polls since upPolls was last that many

nvs == <<configured, failures>>
driver == <<air, up>>
monitors == <<link, health, ntp>>
history == <<posted, sinceAp, downPolls, upPolls, unstable>>
vars == <<nvs, driver, pc, tries, web, restart, monitors, history>>

MaxConnectTries == 3
None == -1      \* a stamp of 0 milliseconds: never taken

NewMonitor == [wasConnected |-> TRUE, down |-> None, reconnect |-> MinInterval,
               attempts |-> 0, connected |-> None, stable |-> 0]
NewHealth == [failures |-> 0, action |-> FailureWindow]
NewNtp == [synced |-> FALSE, failed |-> FALSE]

Monitor == [wasConnected : BOOLEAN, down : None..After, reconnect : 0..MinInterval,
            attempts : 0..MaxFailures, connected : None..Stable, stable : 0..NoStable]
Health == [failures : 0..FailureThreshold, action : 0..FailureWindow]
Synchronisation == [synced : BOOLEAN, failed : BOOLEAN]

TypeOK ==
    /\ configured \in BOOLEAN /\ failures \in 0..CounterRange - 1
    /\ air \in BOOLEAN /\ up \in BOOLEAN /\ restart \in BOOLEAN
    /\ pc \in {"boot", "first boot", "leaving", "window", "closing", "connect",
               "online", "loop", "restart"}
    /\ tries \in 0..MaxConnectTries
    /\ web \in {"NONE", "CONFIG", "OPERATIONAL", "ended"}
    /\ link \in Monitor /\ health \in Health /\ ntp \in Synchronisation
    /\ posted \in {"no", "saved", "rebooted"}
    /\ sinceAp \in Nat
    /\ downPolls \in 0..NoStable /\ upPolls \in 0..Stable + 1 /\ unstable \in 0..NoStable

-----------------------------------------------------------------------------
(* A reset: the two settings in NVS survive.  wifi_failures is not touched. *)

Reset(why) ==
    /\ up' = FALSE /\ pc' = "boot" /\ tries' = 0 /\ web' = "NONE" /\ restart' = FALSE
    /\ link' = NewMonitor /\ health' = NewHealth /\ ntp' = NewNtp
    /\ posted' = IF posted = "saved" /\ why = "restart" THEN "rebooted" ELSE "no"
    /\ downPolls' = 0 /\ upPolls' = 0 /\ unstable' = 0
    /\ UNCHANGED <<nvs, air, sinceAp>>

\* A power cut, a brownout, a panic or a watchdog, in any state.
AnyReset == Reset("crash")

\* loop() polls the deadline every 5 s.  A deadline is 1 s away, longer than the
\* 100 ms slot in which the provisioning loops notice what has been posted.
checkRestart ==
    /\ restart /\ pc \notin {"first boot", "window", "closing"}
    /\ Reset("restart")

restartNow == pc = "restart" /\ Reset("restart")

-----------------------------------------------------------------------------
(* The web server's task *)

\* Rebooting, or a change that is applied at boot: any restarting route.
requestRestart ==
    /\ web = "OPERATIONAL"
    /\ restart' = TRUE
    /\ UNCHANGED <<nvs, driver, pc, tries, web, monitors, history>>

\* POST /api/wifi in provisioning, POST /api/settings/wifi in operation.  One
\* that is being handled as the server is stopped is carried through.
handleWiFiConfig ==
    /\ web # "NONE"
    /\ configured' = TRUE /\ posted' = "saved" /\ restart' = TRUE
    /\ UNCHANGED <<failures, driver, pc, tries, web, monitors, sinceAp, downPolls, upPolls,
                   unstable>>

\* config.reset() clears the whole namespace.
factoryReset ==
    /\ web = "OPERATIONAL"
    /\ configured' = FALSE /\ failures' = 0 /\ posted' = "no" /\ restart' = TRUE
    /\ UNCHANGED <<driver, pc, tries, web, monitors, sinceAp, downPolls, upPolls, unstable>>

-----------------------------------------------------------------------------
(* Boot and provisioning *)

\* mutant: only the first time the threshold is reached.
opensWindowOnce == failures = ApThreshold

opensWindow == failures > 0 /\ failures % ApThreshold = 0

initialize_wifi ==
    /\ pc = "boot"
    /\ pc' = CASE ~configured -> "first boot" [] configured /\ opensWindow -> "window"
               [] OTHER -> "connect"
    /\ web' = IF pc' = "connect" THEN web ELSE "CONFIG"
    /\ sinceAp' = IF pc' = "connect" THEN sinceAp ELSE 0
    /\ posted' = IF pc' = "connect" THEN "no" ELSE posted
    /\ UNCHANGED <<nvs, driver, tries, restart, monitors, downPolls, upPolls, unstable>>

\* runFirstBoot, until credentials are stored.
runFirstBoot ==
    /\ pc = "first boot" /\ configured
    /\ pc' = "leaving" /\ failures' = 0
    /\ UNCHANGED <<configured, driver, tries, web, restart, monitors, history>>

\* Its end: a restart of its own, for which it waits.
SchedulesRestart ==
    /\ pc = "leaving"
    /\ restart' = TRUE
    /\ UNCHANGED <<nvs, driver, pc, tries, web, monitors, history>>

\* runFallbackWindow leaves its loop on a pending restart or after 5 minutes ...
WindowEnds ==
    /\ pc = "window"
    /\ pc' = "closing" /\ web' = "ended"
    /\ UNCHANGED <<nvs, driver, tries, restart, monitors, history>>

incremented(n) == (n + 1) % CounterRange

\* mutant: the failures that led here are kept.
keepsFailures ==
    /\ pc = "closing"
    /\ failures' = IF restart THEN failures ELSE incremented(failures)
    /\ pc' = "restart"
    /\ UNCHANGED <<configured, driver, tries, web, restart, monitors, history>>

\* ... and looks at the pending restart again.
runFallbackWindow ==
    /\ pc = "closing"
    /\ failures' = IF restart THEN 0 ELSE incremented(failures)
    /\ pc' = "restart"
    /\ UNCHANGED <<configured, driver, tries, web, restart, monitors, history>>

-----------------------------------------------------------------------------
(* The association at boot *)

\* NtpSync's attempt: nothing is heard from the server while the link is down.
attempt(linked) == {"Failed"} \cup IF linked THEN {"Ok", "Implausible"} ELSE {}

\* begin(): only a plausible time counts; a failure here is not reported.
ntpBegin == \E result \in attempt(TRUE) : ntp' = [ntp EXCEPT !.synced = (result = "Ok")]

\* One attempt of connect() that finds the access point ...
Associates == pc = "connect" /\ air /\ up' = TRUE /\ pc' = "online"

\* ... and what follows it.
startSTA ==
    /\ Associates
    /\ ntpBegin
    /\ UNCHANGED <<nvs, air, tries, web, restart, link, health, history>>

AttemptFails ==
    /\ pc = "connect" /\ tries < MaxConnectTries /\ ~air
    /\ tries' = tries + 1
    /\ UNCHANGED <<nvs, driver, pc, web, restart, monitors, history>>

\* The task waits out the backoff and restarts.
handle_connection_failure ==
    /\ pc = "connect" /\ tries = MaxConnectTries
    /\ failures' = incremented(failures)
    /\ sinceAp' = sinceAp + 1
    /\ pc' = "restart"
    /\ UNCHANGED <<configured, driver, tries, web, restart, monitors, posted,
                   downPolls, upPolls, unstable>>

\* The rest of task() before its loop: resetConnectionFailures, the operational
\* routes and beginSupervision, which takes the link to be up.
EntersLoop ==
    /\ pc = "online"
    /\ failures' = 0 /\ sinceAp' = 0 /\ upPolls' = 1
    /\ web' = "OPERATIONAL" /\ pc' = "loop"
    /\ link' = [link EXCEPT !.wasConnected = TRUE, !.connected = 0, !.stable = 0, !.down = None]
    /\ UNCHANGED <<configured, driver, tries, restart, health, ntp, posted, downPolls, unstable>>

-----------------------------------------------------------------------------
(* The driver and its event task *)

AirChanges == air' = ~air /\ UNCHANGED <<nvs, up, pc, tries, web, restart, monitors, history>>

\* The link is lost; the driver may or may not tell.
Drops ==
    /\ pc \in {"online", "loop"} /\ up
    /\ up' = FALSE
    /\ UNCHANGED <<nvs, air, pc, tries, web, restart, monitors, history>>

\* STA_DISCONNECTED, for the drop and again for each failed auto-reconnect.
onStaDisconnected ==
    /\ pc \in {"online", "loop"} /\ ~up
    /\ link' = [link EXCEPT !.down = 0]
    /\ UNCHANGED <<nvs, driver, pc, tries, web, restart, health, ntp, history>>

\* The driver's own reconnect.
Rejoins ==
    /\ pc \in {"online", "loop"} /\ ~up /\ air
    /\ up' = TRUE
    /\ UNCHANGED <<nvs, air, pc, tries, web, restart, monitors, history>>

-----------------------------------------------------------------------------
(* LinkMonitor::poll *)

Older(age, cap) == IF age = None THEN None ELSE Min({age + 1, cap})

\* What one more second does to the stamps.
Aged(l) == [l EXCEPT !.down = Older(@, After), !.reconnect = Older(@, MinInterval),
                     !.connected = Older(@, Stable), !.stable = Older(@, NoStable)]

\* The edge: a rejoin starts afresh, a drop is stamped unless the event was.
Edge(l) ==
    CASE ~l.wasConnected /\ up -> [l EXCEPT !.attempts = 0, !.down = None]
      [] l.wasConnected /\ ~up /\ l.down = None -> [l EXCEPT !.down = 0]
      [] OTHER -> l

forces(l) == ~up /\ l.down >= After /\ l.reconnect >= MinInterval

Forced(l) == IF forces(l) THEN [l EXCEPT !.attempts = @ + 1, !.reconnect = 0] ELSE l

\* mutant: a flicker counts as a stable connection.
FlickerCounts(l) ==
    LET since == IF up THEN (IF l.connected = None THEN 0 ELSE l.connected) ELSE None
    IN  [l EXCEPT !.connected = since, !.stable = IF up THEN 0 ELSE @]

Streak(l) ==
    LET since == IF up THEN (IF l.connected = None THEN 0 ELSE l.connected) ELSE None
    IN  [l EXCEPT !.connected = since, !.stable = IF since >= Stable THEN 0 ELSE @]

polled == Streak([Forced(Edge(Aged(link))) EXCEPT !.wasConnected = up])


restartVerdict ==
    CASE forces(Edge(Aged(link))) /\ polled.attempts >= MaxFailures -> "ReconnectExhausted"
      [] polled.stable >= NoStable -> "NoStableLink"
      [] OTHER -> "None"

(* What a pass reports to InternetHealth: the outcome of NTP, then the      *)
(* failed connects of MQTT, several bridged at once, or their end.  When    *)
(* an attempt is due is left open.                                          *)

reportFailure(n) == Min({n + 1, FailureThreshold})

NtpAttempted(result, n) ==
    [ntp |-> [synced |-> ntp.synced \/ result = "Ok",
              failed |-> result = "Failed" \/ (ntp.failed /\ result # "Ok")],
     failures |->
        CASE result = "Failed" \/ (result = "Implausible" /\ ntp.synced) -> reportFailure(n)
          [] result = "Ok" /\ ntp.failed -> 0
          [] OTHER -> n]

NtpTick(n) == {[ntp |-> ntp, failures |-> n]}
                  \cup {NtpAttempted(result, n) : result \in attempt(up)}

MqttTick(n) == {0} \cup n..FailureThreshold

shouldForceReconnect(h) == h.failures >= FailureThreshold /\ h.action >= FailureWindow

\* One pass of the loop, as far as the network is concerned: the supervision,
\* which restarts the device or goes on; the reports; and the forced reconnect of
\* InternetHealth.  A forced reconnect leaves the driver to associate again.
LoopPass ==
    /\ pc = "loop"
    /\ link' = polled
    /\ downPolls' = IF up THEN 0 ELSE Min({downPolls + 1, NoStable})
    /\ upPolls' = IF up THEN Min({upPolls + 1, Stable + 1}) ELSE 0
    /\ unstable' = IF upPolls' > Stable THEN 0 ELSE Min({unstable + 1, NoStable})
    /\ IF restartVerdict # "None"
       THEN pc' = "restart" /\ UNCHANGED <<up, health, ntp>>
       ELSE \E time \in NtpTick(health.failures) : \E n \in MqttTick(time.failures) :
            LET h == [failures |-> n, action |-> Older(health.action, FailureWindow)] IN
            /\ pc' = "loop" /\ ntp' = time.ntp
            /\ up' = (up /\ ~shouldForceReconnect(h))
            /\ health' = IF shouldForceReconnect(h) THEN [h EXCEPT !.action = 0] ELSE h
    /\ UNCHANGED <<nvs, air, tries, web, restart, posted, sinceAp>>

-----------------------------------------------------------------------------
Init ==
    /\ configured = FALSE /\ failures = 0 /\ air \in BOOLEAN /\ up = FALSE
    /\ pc = "boot" /\ tries = 0 /\ web = "NONE" /\ restart = FALSE
    /\ link = NewMonitor /\ health = NewHealth /\ ntp = NewNtp
    /\ posted = "no" /\ sinceAp = 0 /\ downPolls = 0 /\ upPolls = 0 /\ unstable = 0

NetworkTask ==
    \/ initialize_wifi \/ runFirstBoot \/ SchedulesRestart \/ WindowEnds \/ runFallbackWindow
    \/ startSTA \/ AttemptFails \/ handle_connection_failure \/ EntersLoop
    \/ LoopPass \/ restartNow

\* What the user, and the world, may do to a device.
Disturbance == AnyReset \/ requestRestart \/ handleWiFiConfig \/ factoryReset

Next ==
    \/ NetworkTask \/ checkRestart
    \/ Disturbance
    \/ AirChanges \/ Drops \/ onStaDisconnected \/ Rejoins

Spec == Init /\ [][Next]_vars

\* The scheduler runs the Network task and loop(); nothing is assumed of the
\* driver, which may never reconnect by itself.
FairSpec == Spec /\ WF_vars(NetworkTask) /\ WF_vars(checkRestart)

-----------------------------------------------------------------------------
(* Properties *)

\* However the boots end, and across the wrap of the 8-bit counter, at most
\* ApThreshold of them in a row fail without the access point being offered:
\* nobody is locked out of a device whose network is gone.
NeverLockedOut == sinceAp <= ApThreshold

\* Credentials a user has just entered are tried at the boot that follows;
\* they do not wait behind another window of the access point.
NewCredentialsAreTried == ~(pc = "window" /\ posted = "rebooted")

\* A link that flickers, or one that is down while the driver keeps repeating its
\* event, does not keep the device in the loop: the poll that finds the time
\* without a stable streak used up leaves it.
UnstableEnds == pc = "loop" => unstable < NoStable


\* A link the driver never loses by itself, and that it restores within a poll of
\* a forced reconnect: nothing about it calls for a restart.
HealthyLink == [][Next /\ ~Drops /\ (LoopPass => up \/ downPolls = 0)]_vars
HealthyLinkSpec == Init /\ HealthyLink

\* InternetHealth.h: what an outage behind a live association calls for is to
\* re-associate.  But the forced reconnects come as often as a connection takes to
\* count as stable, and the time without a stable connection runs out.
OutageDoesNotRestart == pc = "restart" => link.stable < NoStable

-----------------------------------------------------------------------------
(* The inductive invariants behind them (NetworkProofs).                    *)

\* Which routes are served where; the counter is 0 in operation.
Serving ==
    /\ pc \in {"boot", "connect", "online"} => web = "NONE"
    /\ pc \in {"first boot", "leaving", "window"} => web = "CONFIG"
    /\ pc = "closing" => web = "ended"
    /\ pc = "loop" => web = "OPERATIONAL"
    /\ web = "OPERATIONAL" \/ pc = "leaving" => failures = 0

\* Credentials that were posted, and the boot they meet: where a restart is near,
\* the counter does not open the window.
WindowsAreDue ==
    /\ pc = "connect" => ~opensWindow
    /\ pc \in {"window", "closing"} => opensWindow
    /\ posted = "saved" => web # "NONE"
    /\ web # "NONE" /\ pc \notin {"first boot", "window", "closing"} => ~opensWindow
    /\ pc = "boot" /\ posted = "rebooted" => ~opensWindow

\* Failed boots since the last offer, by the counter that decides about the next.
FailuresSince(n) == IF n = 0 THEN 0 ELSE ((n - 1) % ApThreshold) + 1
OffersAreCounted ==
    /\ sinceAp <= FailuresSince(failures)
    /\ web # "NONE" => sinceAp = 0

\* The monitor counts what the polls see, and leaves the loop at its limits.
MonitorCounts ==
    /\ pc # "restart" => link.attempts < MaxFailures
    /\ pc \notin {"loop", "restart"} => unstable = 0
    /\ pc = "loop" =>
         /\ link.connected = upPolls - 1
         /\ unstable <= link.stable /\ link.stable < NoStable

IInv == TypeOK /\ MonitorCounts
CredentialsInv == Serving /\ WindowsAreDue /\ NewCredentialsAreTried
OffersInv == Serving /\ OffersAreCounted /\ (pc = "connect" => ~opensWindow)
=============================================================================
