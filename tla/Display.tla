------------------------------- MODULE Display -------------------------------
(***************************************************************************)
(* The e-paper panel and its three users: the Network task that repaints   *)
(* it every second or shows the access point's password on it, the web     *)
(* task that switches it off and blanks it, and the setup that shows the   *)
(* splash.  The panel keeps its image without power, so what is on it       *)
(* outlives a restart.  A pass of the Network task is one unit of time.    *)
(***************************************************************************)
EXTENDS DisplayPolicy

CONSTANTS
    Temperatures, Humidities, Reports, Targets, Demands, Minutes,   \* what a tick may read
    Fields,         \* bound: the readings that change
    MaxTimeouts,    \* MAX_CONSECUTIVE_TIMEOUTS
    MaxChanges      \* bound: how often a reading changes or the device resets by itself

ASSUME DisplayAssumption ==
    /\ Demands \subseteq Int
    /\ MaxTimeouts \in Nat /\ MaxTimeouts > 1
    /\ MaxChanges \in Nat

VARIABLES
    world,          \* what the tick reads from the sensors and the control loop
    fitted,         \* whether a panel is connected
    stored,         \* DisplayConfig.enabled in NVS
    manager,        \* DisplayManager: enabled, demandBucket
    panel,          \* EPaperDisplay: initialised, faulted, consecutiveTimeouts
    policy, warning,
    image,          \* what the panel shows
    lock,           \* who holds panelMutex
    net,            \* where the Network task is
    mode,           \* "sta", or why the access point is up: "first", "fallback"
    ap,             \* the access point: "off", "open" or "wpa2"
    web,            \* the handler of POST /api/display: where it is, what it stores
    changes         \* bound

task == <<net, mode, ap>>
vars == <<world, fitted, stored, manager, panel, policy, warning, image, lock, task, web, changes>>

Worlds == [temperature : Temperatures \cup {NAN}, humidity : Humidities \cup {NAN},
           valid : BOOLEAN, overheat : BOOLEAN, report : Reports, target : Targets,
           demand : Demands, minute : Minutes]

-----------------------------------------------------------------------------
(* The driver: what each screen shows, and the operations that draw it.     *)

\* The text of the two values: a reading that is not available is a placeholder.
drawMeasurements(picture) ==
    IF picture.available THEN <<picture.temperature, picture.humidity>> ELSE <<NAN, NAN>>

\* The demand bar is drawn only while the control is on and vouched for.
DemandBar(picture) ==
    IF picture.state \in {"ACTIVE_ON", "ACTIVE_OFF"} THEN picture.bucket ELSE -1

drawFooter(picture) ==
    [minute |-> picture.minute, setpoint |-> picture.setpoint, symbol |-> picture.state,
     bar |-> DemandBar(picture)]

runPagedDraw(picture) ==
    [values |-> drawMeasurements(picture), footer |-> drawFooter(picture),
     icon |-> picture.warning]

Screen(name) == [screen |-> name, drawn |-> runPagedDraw(Nothing)]
Reading(picture) == [screen |-> "reading", drawn |-> runPagedDraw(picture)]

NewManager == [enabled |-> FALSE, bucket |-> 0]
NewPanel == [initialised |-> FALSE, faulted |-> FALSE, timeouts |-> 0]

Loop == {"idle", "locks", "paints"}

\* Bookkeeping after a panel operation: three slow ones in a row are a fault.
noteDuration(p, slow) ==
    [p EXCEPT !.timeouts = IF slow THEN @ + 1 ELSE 0,
              !.faulted = @ \/ (slow /\ p.timeouts + 1 >= MaxTimeouts)]

\* Every drawing operation: none before begin or after the fault; without a panel
\* the SPI writes go nowhere.
Draws(screen, slow) ==
    IF panel.initialised /\ ~panel.faulted
    THEN /\ panel' = noteDuration(panel, slow)
         /\ image' = IF fitted THEN screen ELSE image
    ELSE UNCHANGED <<panel, image>>

render(picture, slow) == Draws(Reading(picture), slow)
clear(slow) == Draws(Screen("blank"), slow)
drawApInfo(slow) == Draws(Screen("password"), slow)     \* showApInfo of the driver

\* begin, which succeeds without a panel; only the duration can tell.
panelBegin(p, slow) == noteDuration([p EXCEPT !.initialised = TRUE], slow)

\* mutant: the panel is believed to be there
BelievesThePanel == {TRUE}

\* probe: whether the panel answers the reset pulse on BUSY; a stuck line does not.
probe == IF fitted THEN BOOLEAN ELSE {FALSE}

Init ==
    /\ world \in {w \in Worlds : /\ readingAvailable(w) /\ ~w.overheat
                                /\ w.report = "Unknown" /\ w.demand = 0 /\ w.minute = 0}
    /\ fitted \in BOOLEAN
    /\ stored \in BOOLEAN
    /\ manager = NewManager /\ panel = NewPanel
    /\ policy = NewPolicy /\ warning = NewWarning
    /\ image = Screen("blank")
    /\ lock = "free"
    /\ net = "setup" /\ mode = "sta" /\ ap = "off"
    /\ web = [at |-> "idle", enabled |-> FALSE]
    /\ changes = 0

-----------------------------------------------------------------------------
(* Start-up.                                                                *)

\* setupDisplay: nothing if the display is switched off, else begin with the splash.
setupDisplay ==
    /\ net = "setup"
    /\ IF stored
       THEN \E slowInit, slowSplash \in BOOLEAN :
                LET begun == panelBegin(NewPanel, slowInit)
                IN /\ manager' = [manager EXCEPT !.enabled = ~begun.faulted]
                   /\ panel' = IF begun.faulted THEN begun ELSE noteDuration(begun, slowSplash)
                   /\ image' = IF fitted /\ ~begun.faulted THEN Screen("splash") ELSE image
       ELSE UNCHANGED <<manager, panel, image>>
    /\ \E m \in {"sta", "first", "fallback"} :
           /\ mode' = m
           /\ net' = IF m = "sta" THEN "idle" ELSE "begins"
    /\ UNCHANGED <<world, fitted, stored, policy, warning, lock, ap, web, changes>>

-----------------------------------------------------------------------------
(* update, by the Network task once it is connected.                        *)

Later(age) == IF age < MinInterval THEN age + 1 ELSE age

\* The tests before the lock; the time since the last paint has grown meanwhile.
updateBegins ==
    /\ net = "idle"
    /\ manager.enabled /\ ~panel.faulted
    /\ net' = "locks"
    /\ policy' = [policy EXCEPT !.age = Later(@)]
    /\ UNCHANGED <<world, fitted, stored, manager, panel, warning, image, lock, mode, ap,
                   web, changes>>

\* The lock was not to be had in 100 ms.
updateGivesUp ==
    /\ net = "locks" /\ lock # "free"
    /\ net' = "idle"
    /\ UNCHANGED <<world, fitted, stored, manager, panel, policy, warning, image, lock, mode,
                   ap, web, changes>>

\* The decision under the lock: warning first, then refresh.
Decides ==
    LET bucket == nextDemandBucket(world.demand, manager.bucket)
        judged == warningEvaluate(warning, world)
        new == Picture(world, bucket, judged.displayed)
    IN /\ manager' = [manager EXCEPT !.bucket = bucket]
       /\ warning' = judged
       /\ policy' = policyEvaluate(policy, new)
       /\ IF refreshKind(policy, new) = "None"
          THEN net' = "idle" /\ UNCHANGED lock
          ELSE net' = "paints" /\ lock' = "network"

\* mutant: the enabled flag is not tested again under the lock
DecidesUnasked ==
    /\ net = "locks" /\ lock = "free"
    /\ Decides
    /\ UNCHANGED <<world, fitted, stored, panel, image, mode, ap, web, changes>>

\* The lock is taken and the enabled flag is tested again.
updateDecides ==
    /\ net = "locks" /\ lock = "free"
    /\ IF manager.enabled
       THEN Decides
       ELSE net' = "idle" /\ UNCHANGED <<manager, warning, policy, lock>>
    /\ UNCHANGED <<world, fitted, stored, panel, image, mode, ap, web, changes>>

\* render, with the lock held.
updatePaints ==
    /\ net = "paints"
    /\ \E slow \in BOOLEAN : render(policy.last, slow)
    /\ lock' = "free" /\ net' = "idle"
    /\ UNCHANGED <<world, fitted, stored, manager, policy, warning, mode, ap, web, changes>>

-----------------------------------------------------------------------------
(* The access point: a Network task that never reaches the loop above.      *)

\* tryBeginForApInfo: an enabled display is taken to be up; another has to answer the
\* probe and then to come up.
tryBeginForApInfo(responds, slow) ==
    IF manager.enabled \/ ~responds
    THEN [up |-> manager.enabled, panel |-> panel]
    ELSE LET begun == panelBegin(panel, slow) IN [up |-> ~begun.faulted, panel |-> begun]

\* startAP: the network is protected if the panel can show its password.
startAP ==
    /\ net = "begins"
    /\ \E responds \in probe, slow \in BOOLEAN :
           LET tried == tryBeginForApInfo(responds, slow)
           IN /\ ap' = IF tried.up THEN "wpa2" ELSE "open"
              /\ net' = IF tried.up THEN "shows" ELSE "window"
              /\ panel' = tried.panel
    /\ UNCHANGED <<world, fitted, stored, manager, policy, warning, image, lock, mode, web,
                   changes>>

\* showApInfo, then endApInfo at once: the image stays when the panel hibernates.
showApInfo ==
    /\ net = "shows"
    /\ \E slow \in BOOLEAN : drawApInfo(slow)
    /\ net' = "window"
    /\ UNCHANGED <<world, fitted, stored, manager, policy, warning, lock, mode, ap, web, changes>>

\* New credentials: the first boot blanks an enabled display, the fallback any that is up.
provisioned ==
    /\ net = "window"
    /\ IF mode = "fallback" \/ manager.enabled
       THEN \E slow \in BOOLEAN : clear(slow)
       ELSE UNCHANGED <<panel, image>>
    /\ net' = "ended"
    /\ UNCHANGED <<world, fitted, stored, manager, policy, warning, lock, mode, ap, web, changes>>

\* The fallback window runs out; only the first boot waits for ever.
windowTimesOut ==
    /\ net = "window" /\ mode = "fallback"
    /\ net' = "ended"
    /\ UNCHANGED <<world, fitted, stored, manager, panel, policy, warning, image, lock, mode,
                   ap, web, changes>>

-----------------------------------------------------------------------------
(* POST /api/display.                                                       *)

\* The handler compares with what is stored, which an earlier request that still
\* waits for its restart may have changed.
postDisplay(enabled) ==
    /\ net \in Loop
    /\ web.at \in {"idle", "restarts"}
    /\ IF stored /\ ~enabled
       THEN /\ manager' = [manager EXCEPT !.enabled = FALSE]
            /\ web' = [at |-> "locks", enabled |-> FALSE]
       ELSE /\ web' = [at |-> "saves", enabled |-> enabled]
            /\ UNCHANGED manager
    /\ UNCHANGED <<world, fitted, stored, panel, policy, warning, image, lock, task, changes>>

\* disableAndClear waits for a paint in flight.
clearLocks ==
    /\ web.at = "locks" /\ lock = "free"
    /\ lock' = "web"
    /\ web' = [web EXCEPT !.at = "clears"]
    /\ UNCHANGED <<world, fitted, stored, manager, panel, policy, warning, image, task, changes>>

clearDraws ==
    /\ web.at = "clears"
    /\ \E slow \in BOOLEAN : clear(slow)
    /\ lock' = "free"
    /\ web' = [web EXCEPT !.at = "saves"]
    /\ UNCHANGED <<world, fitted, stored, manager, policy, warning, task, changes>>

saveDisplayConfig ==
    /\ web.at = "saves"
    /\ stored' = web.enabled
    /\ web' = [web EXCEPT !.at = "restarts"]
    /\ UNCHANGED <<world, fitted, manager, panel, policy, warning, image, lock, task, changes>>

-----------------------------------------------------------------------------
(* Restarts and the world.                                                  *)

\* Memory is lost, the image is not; a paint cut short leaves what it leaves.
Restarts ==
    /\ manager' = NewManager /\ panel' = NewPanel
    /\ policy' = NewPolicy /\ warning' = NewWarning
    /\ image' \in {image} \cup (IF fitted /\ lock # "free" THEN {Screen("torn")} ELSE {})
    /\ lock' = "free"
    /\ net' = "setup" /\ mode' = "sta" /\ ap' = "off"
    /\ web' = [at |-> "idle", enabled |-> FALSE]
    /\ UNCHANGED <<world, fitted, stored>>

\* The restart a saved configuration or the end of the access point asks for.
restart ==
    /\ web.at = "restarts" \/ net = "ended"
    /\ Restarts
    /\ UNCHANGED changes

\* A reset nobody asked for.
reset ==
    /\ changes < MaxChanges
    /\ Restarts
    /\ changes' = changes + 1

WorldChanges ==
    /\ changes < MaxChanges /\ net \in Loop
    /\ \E w \in Worlds, field \in Fields :
           /\ w[field] # world[field]
           /\ w = [world EXCEPT ![field] = w[field]]
           /\ world' = w
    /\ changes' = changes + 1
    /\ UNCHANGED <<fitted, stored, manager, panel, policy, warning, image, lock, task, web>>

update == updateBegins \/ updateGivesUp \/ updateDecides \/ updatePaints
accessPoint == startAP \/ showApInfo \/ provisioned \/ windowTimesOut
disable == clearLocks \/ clearDraws \/ saveDisplayConfig

Next ==
    \/ setupDisplay \/ update \/ accessPoint \/ disable
    \/ \E enabled \in BOOLEAN : postDisplay(enabled)
    \/ restart \/ reset \/ WorldChanges

Spec == Init /\ [][Next]_vars

\* The tasks are scheduled; nobody has to send a request or provide credentials.
FairSpec == Spec /\ WF_net(setupDisplay \/ update) /\ WF_web(disable) /\ WF_net(restart)

-----------------------------------------------------------------------------
(* Properties.                                                              *)

Warnings == {"NONE", "OVERHEAT", "FROST", "SENSOR", "ACTUATOR", "HUMID"}
Pictures ==
    [available : BOOLEAN, temperature : Temperatures \cup {NAN}, humidity : Humidities \cup {NAN},
     minute : Minutes \cup {0}, setpoint : Targets \cup {NAN},
     state : {"INACTIVE", "ACTIVE_ON", "ACTIVE_OFF", "UNCERTAIN"},
     bucket : 0..DEMAND_BUCKETS, warning : Warnings]
Managers == [enabled : BOOLEAN, bucket : 0..DEMAND_BUCKETS]
Panels == [initialised : BOOLEAN, faulted : BOOLEAN, timeouts : 0..MaxTimeouts]
Policies == [everPainted : BOOLEAN, last : Pictures, age : 0..MinInterval, partials : 0..FullEvery]
WarningStates == [displayed : Warnings, frost : BOOLEAN, humid : BOOLEAN, pending : -1..ClearDwell]
Handlers == [at : {"idle", "locks", "clears", "saves", "restarts"}, enabled : BOOLEAN]

\* Types; partials never run past the full refresh that wipes the ghosts.
TypeOK ==
    /\ world \in Worlds /\ fitted \in BOOLEAN /\ stored \in BOOLEAN
    /\ manager \in Managers /\ panel \in Panels /\ policy \in Policies
    /\ warning \in WarningStates
    /\ image.screen \in {"blank", "splash", "reading", "password", "torn"}
    /\ lock \in {"free", "network", "web"}
    /\ net \in Loop \cup {"setup", "begins", "shows", "window", "ended"}
    /\ mode \in {"sta", "first", "fallback"} /\ ap \in {"off", "open", "wpa2"}
    /\ web \in Handlers /\ changes \in 0..MaxChanges

\* Once the web handler has switched the display off and stored that, the panel is blank
\* and no repaint that was on its way when the request came brings a reading back
\* (disableAndClear against update), unless the driver has given the panel up.
DisabledStaysBlank ==
    (panel.initialised /\ ~stored /\ net \in Loop)
        => image = Screen("blank") \/ panel.faulted

\* Between two passes of the Network task a warning the policy has raised is on the
\* panel, whatever the minimum interval says (the onset in RefreshPolicy::evaluate).
OnsetIsShown ==
    (net = "idle" /\ manager.enabled /\ fitted /\ ~panel.faulted
        /\ warning.displayed # "NONE")
        => image.screen = "reading" /\ image.drawn.icon = warning.displayed

\* A protected access point has its password on the panel: with the status display off,
\* no missing or stuck panel makes the network one the user cannot join (startAP).
LockedApIsReadable ==
    (ap = "wpa2" /\ net = "window" /\ ~manager.enabled) => image.screen = "password"

\* The panel does not stay behind the readings: again and again it shows what the world
\* calls for, up to the hysteresis, or has been given up or switched off (update).
UpToDate ==
    /\ image = Reading(policy.last)
    /\ ~Changed(Picture(world, nextDemandBucket(world.demand, manager.bucket),
                        warning.displayed), policy.last)

PanelCatchesUp ==
    []<>(fitted /\ manager.enabled /\ net \in Loop => panel.faulted \/ UpToDate)
-----------------------------------------------------------------------------
(* The inductive invariants behind them (DisplayProofs).                    *)

\* Setup finds what a restart has left.
FreshAtSetup ==
    net = "setup" => /\ manager = NewManager /\ panel = NewPanel /\ policy = NewPolicy
                     /\ warning = NewWarning /\ ap = "off"

\* A panel that has timed out once too often is given up; one that is up has been begun.
GivenUp ==
    /\ panel.timeouts < MaxTimeouts \/ panel.faulted
    /\ manager.enabled => panel.initialised

\* The lock is held by whoever paints; the handler is served in operation only.
LockHolders ==
    /\ lock = "network" <=> net = "paints"
    /\ lock = "web" <=> web.at = "clears"
    /\ net \notin Loop => web.at = "idle"

\* From the blanking on nothing paints: the flag is off and no paint is under way.
Blanked == /\ ~manager.enabled /\ net # "paints"
           /\ image = Screen("blank") \/ panel.faulted \/ ~panel.initialised
SwitchedOff ==
    /\ ~fitted => image = Screen("blank")
    /\ web.at \in {"locks", "clears"} => ~manager.enabled
    /\ net \in Loop /\ ~stored => Blanked
    /\ net \in Loop /\ web.at = "saves" /\ ~web.enabled => Blanked

\* The warning in force is part of what was last committed to the panel, and that is what
\* an enabled panel shows.
WarningCommitted ==
    /\ warning.displayed # "NONE" =>
          policy.everPainted /\ policy.last.warning = warning.displayed
    /\ net \in {"idle", "locks"} /\ manager.enabled /\ fitted /\ ~panel.faulted
          /\ policy.everPainted => image = Reading(policy.last)

\* On the way to the access point with the status display off: an untouched panel, then
\* one that has answered, then the password on it.
PasswordShown ==
    /\ net = "begins" /\ ~manager.enabled => panel = NewPanel
    /\ net = "begins" => ap = "off"
    /\ net = "shows" /\ ~manager.enabled =>
          fitted /\ panel.initialised /\ ~panel.faulted
    /\ LockedApIsReadable

IInv == /\ TypeOK /\ FreshAtSetup /\ GivenUp /\ LockHolders
        /\ SwitchedOff /\ WarningCommitted /\ PasswordShown
=============================================================================
