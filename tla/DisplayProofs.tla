---------------------------- MODULE DisplayProofs ----------------------------
(***************************************************************************)
(* Proofs about Display for any readings, thresholds and refresh policy.   *)
(***************************************************************************)
EXTENDS Display, TLAPS

LEMMA Constants ==
    /\ MinInterval \in Nat /\ ClearDwell \in Nat /\ FullEvery \in Nat
    /\ FrostAt \in Int /\ HumidAt \in Int
    /\ \A d \in Demands : d \in Int
    /\ MaxTimeouts \in Nat /\ MaxTimeouts > 1 /\ MaxChanges \in Nat
BY PolicyAssumption, DisplayAssumption DEF PolicyAssumption

-----------------------------------------------------------------------------
(* The decisions                                                            *)

\* The demand bar has as many segments as it has.
LEMMA BucketTyped ==
    ASSUME NEW percent \in Int, NEW previous \in 0 .. 5
    PROVE  nextDemandBucket(percent, previous) \in 0 .. 5
<1> DEFINE TooLow(b) == b < 5 /\ percent > b * 20 + 3
           TooHigh(b) == b > 0 /\ percent < (b - 1) * 20 - 3
<1>1. Width = 20 /\ DEMAND_BUCKETS = 5 /\ BucketHysteresis = 3
  BY DEF Width, DEMAND_BUCKETS, BucketHysteresis
<1>2. \E b \in previous .. 5 : ~TooLow(b) /\ \A c \in previous .. (b - 1) : TooLow(c)
  <2>1. \A b \in previous .. 5 : b \in {0, 1, 2, 3, 4, 5} OBVIOUS
  <2>2. CASE \E b \in previous .. 4 : ~TooLow(b)
    <3>1. CASE previous <= 0 /\ ~TooLow(0) BY <3>1
    <3>2. CASE previous <= 1 /\ ~TooLow(1) /\ (previous = 0 => TooLow(0)) BY <3>2
    <3>3. CASE previous <= 2 /\ ~TooLow(2) /\ \A c \in previous .. 1 : TooLow(c) BY <3>3
    <3>4. CASE previous <= 3 /\ ~TooLow(3) /\ \A c \in previous .. 2 : TooLow(c) BY <3>4
    <3>5. CASE previous <= 4 /\ ~TooLow(4) /\ \A c \in previous .. 3 : TooLow(c) BY <3>5
    <3> QED BY <2>2, <3>1, <3>2, <3>3, <3>4, <3>5
  <2>3. CASE \A b \in previous .. 4 : TooLow(b) BY <2>3
  <2> QED BY <2>2, <2>3
<1>3. \E b \in 0 .. previous : ~TooHigh(b) /\ \A c \in (b + 1) .. previous : TooHigh(c)
  <2>2. CASE \E b \in 1 .. previous : ~TooHigh(b)
    <3>1. CASE previous >= 5 /\ ~TooHigh(5) BY <3>1
    <3>2. CASE previous >= 4 /\ ~TooHigh(4) /\ \A c \in 5 .. previous : TooHigh(c) BY <3>2
    <3>3. CASE previous >= 3 /\ ~TooHigh(3) /\ \A c \in 4 .. previous : TooHigh(c)
      <4>1. 3 \in 0 .. previous /\ \A c \in (3 + 1) .. previous : TooHigh(c) BY <3>3
      <4> QED BY <3>3, <4>1
    <3>4. CASE previous >= 2 /\ ~TooHigh(2) /\ \A c \in 3 .. previous : TooHigh(c)
      <4>1. 2 \in 0 .. previous /\ \A c \in (2 + 1) .. previous : TooHigh(c) BY <3>4
      <4> QED BY <3>4, <4>1
    <3>5. CASE previous >= 1 /\ ~TooHigh(1) /\ \A c \in 2 .. previous : TooHigh(c) BY <3>5
    <3> QED BY <2>2, <3>1, <3>2, <3>3, <3>4, <3>5
  <2>3. CASE \A b \in 1 .. previous : TooHigh(b) BY <2>3
  <2> QED BY <2>2, <2>3
<1>4. nextDemandBucket(percent, previous) =
         IF percent <= 0 THEN 0
         ELSE IF percent >= 100 THEN 5
         ELSE IF TooLow(previous)
              THEN CHOOSE b \in previous .. 5 :
                       ~TooLow(b) /\ \A c \in previous .. (b - 1) : TooLow(c)
              ELSE CHOOSE b \in 0 .. previous :
                       ~TooHigh(b) /\ \A c \in (b + 1) .. previous : TooHigh(c)
  BY <1>1 DEF nextDemandBucket
<1> HIDE DEF TooLow, TooHigh
<1> QED BY <1>2, <1>3, <1>4

LEMMA WarningTyped ==
    ASSUME NEW w, NEW s \in WarningStates
    PROVE  warningEvaluate(s, w) \in WarningStates
<1> DEFINE frost == FrostLatch(s.frost, w.temperature)
           humid == HumidityLatch(s.humid, w.humidity)
           candidate == Candidate(w, frost, humid)
           cleared == s.displayed = "NONE" \/ s.pending + 1 >= ClearDwell
<1>1. s.displayed \in Warnings /\ s.pending \in -1 .. ClearDwell
  BY DEF WarningStates
<1>2. frost \in BOOLEAN /\ humid \in BOOLEAN
  BY DEF WarningStates, FrostLatch, HumidityLatch
<1>3. candidate \in Warnings BY DEF Candidate, Warnings
<1>4. /\ -1 \in -1 .. ClearDwell
      /\ ~cleared => s.pending + 1 \in -1 .. ClearDwell
  BY <1>1, Constants
<1>5. warningEvaluate(s, w) =
         [displayed |-> IF candidate = "NONE" /\ ~cleared THEN s.displayed ELSE candidate,
          frost |-> frost, humid |-> humid,
          pending |-> IF candidate # "NONE" \/ cleared THEN -1 ELSE s.pending + 1]
  BY DEF warningEvaluate
<1> HIDE DEF frost, humid, candidate, cleared
<1> QED BY <1>1, <1>2, <1>3, <1>4, <1>5 DEF WarningStates

LEMMA PictureTyped ==
    ASSUME NEW w \in Worlds, NEW b \in 0 .. 5, NEW warned \in Warnings
    PROVE  Picture(w, b, warned) \in Pictures /\ Picture(w, b, warned).warning = warned
<1>1. /\ w.temperature \in Temperatures \cup {NAN} /\ w.humidity \in Humidities \cup {NAN}
      /\ w.minute \in Minutes \cup {0} /\ w.target \in Targets \cup {NAN}
  BY DEF Worlds
<1>2. readingAvailable(w) \in BOOLEAN BY DEF readingAvailable
<1>3. ControlStateOf(w.report) \in {"INACTIVE", "ACTIVE_ON", "ACTIVE_OFF", "UNCERTAIN"}
  BY DEF ControlStateOf
<1>4. b \in 0 .. DEMAND_BUCKETS BY DEF DEMAND_BUCKETS
<1> QED BY <1>1, <1>2, <1>3, <1>4 DEF Picture, Pictures

\* A refresh records what it shows; no refresh leaves everything, and is only for a picture
\* that raises no warning the panel does not have.
LEMMA PolicyDecides ==
    ASSUME NEW p \in Policies, NEW new \in Pictures
    PROVE  /\ policyEvaluate(p, new) \in Policies
           /\ refreshKind(p, new) = "None" =>
                 /\ policyEvaluate(p, new) = p /\ p.everPainted
                 /\ new.warning = "NONE" \/ new.warning = p.last.warning
           /\ refreshKind(p, new) # "None" =>
                 policyEvaluate(p, new).everPainted /\ policyEvaluate(p, new).last = new
<1>1. p.partials \in 0 .. FullEvery /\ p.everPainted \in BOOLEAN BY DEF Policies
<1>2. CASE refreshKind(p, new) = "None"
  <2>1. policyEvaluate(p, new) = p BY <1>2 DEF policyEvaluate
  <2>2. p.everPainted /\ ~(Changed(new, p.last) /\ Onset(new, p.last))
    BY <1>2 DEF refreshKind
  <2>3. new.warning # p.last.warning => Changed(new, p.last)
    <3>1. \A field \in {"minute", "setpoint", "state", "bucket", "warning"} :
             new[field] # p.last[field] => Changed(new, p.last)
      BY DEF Changed
    <3> QED BY <3>1
  <2> QED BY <1>2, <2>1, <2>2, <2>3 DEF Onset
<1>3. CASE refreshKind(p, new) # "None"
  <2>1. policyEvaluate(p, new) = commit(p, refreshKind(p, new), new)
    BY <1>3 DEF policyEvaluate
  <2>2. refreshKind(p, new) # "Full" => p.partials + 1 \in 0 .. FullEvery
    BY <1>1, <1>3, Constants DEF refreshKind
  <2>3. 0 \in 0 .. FullEvery /\ 0 \in 0 .. MinInterval /\ TRUE \in BOOLEAN BY Constants
  <2>4. PICK n \in 0 .. FullEvery :
           policyEvaluate(p, new) = [everPainted |-> TRUE, last |-> new, age |-> 0,
                                     partials |-> n]
    BY <2>1, <2>2, <2>3 DEF commit
  <2> QED BY <1>3, <2>3, <2>4 DEF Policies
<1> QED BY <1>2, <1>3

LEMMA Blank ==
    /\ NewManager \in Managers /\ ~NewManager.enabled
    /\ NewPanel \in Panels /\ ~NewPanel.initialised /\ ~NewPanel.faulted /\ NewPanel.timeouts = 0
    /\ NewPolicy \in Policies /\ ~NewPolicy.everPainted
    /\ NewWarning \in WarningStates /\ NewWarning.displayed = "NONE"
<1>1. FALSE \in BOOLEAN /\ 0 \in 0 .. DEMAND_BUCKETS BY DEF DEMAND_BUCKETS
<1>2. 0 \in 0 .. MaxTimeouts /\ 0 \in 0 .. MinInterval /\ 0 \in 0 .. FullEvery
      /\ -1 \in -1 .. ClearDwell
  BY Constants
<1>3. Nothing \in Pictures BY <1>1 DEF Nothing, Pictures, Warnings
<1> QED BY <1>1, <1>2, <1>3 DEF NewManager, Managers, NewPanel, Panels, NewPolicy, Policies,
                                NewWarning, WarningStates, Warnings

-----------------------------------------------------------------------------
(* The driver                                                               *)

LEMMA DurationNoted ==
    ASSUME NEW p \in Panels, NEW slow \in BOOLEAN, p.timeouts < MaxTimeouts
    PROVE  /\ noteDuration(p, slow) \in Panels
           /\ noteDuration(p, slow).initialised = p.initialised
           /\ p.faulted => noteDuration(p, slow).faulted
           /\ p.timeouts = 0 => noteDuration(p, slow).faulted = p.faulted
                                /\ noteDuration(p, slow).timeouts \in 0 .. 1
           /\ \/ noteDuration(p, slow).timeouts < MaxTimeouts
              \/ noteDuration(p, slow).faulted
<1>1. p.timeouts \in 0 .. MaxTimeouts /\ p.faulted \in BOOLEAN BY DEF Panels
<1>2. PICK n : n = IF slow THEN p.timeouts + 1 ELSE 0 OBVIOUS
<1>3. PICK f : f = (p.faulted \/ (slow /\ p.timeouts + 1 >= MaxTimeouts)) OBVIOUS
<1>4. /\ n \in 0 .. MaxTimeouts /\ f \in BOOLEAN /\ (p.faulted => f)
      /\ n < MaxTimeouts \/ f
      /\ p.timeouts = 0 => f = p.faulted /\ n \in 0 .. 1
  BY <1>1, <1>2, <1>3, Constants
<1>5. noteDuration(p, slow) = [p EXCEPT !.timeouts = n, !.faulted = f]
  BY <1>2, <1>3 DEF noteDuration
<1> HIDE <1>2, <1>3
<1> QED BY <1>4, <1>5 DEF Panels

LEMMA PanelBegun ==
    ASSUME NEW slow \in BOOLEAN
    PROVE  /\ panelBegin(NewPanel, slow) \in Panels
           /\ panelBegin(NewPanel, slow).initialised /\ ~panelBegin(NewPanel, slow).faulted
           /\ panelBegin(NewPanel, slow).timeouts < MaxTimeouts
<1>1. PICK p : p = [NewPanel EXCEPT !.initialised = TRUE] OBVIOUS
<1>2. p \in Panels /\ p.initialised /\ ~p.faulted /\ p.timeouts = 0
  <2>1. TRUE \in BOOLEAN OBVIOUS
  <2> QED BY <1>1, <2>1, Blank DEF Panels
<1>3. panelBegin(NewPanel, slow) = noteDuration(p, slow) BY <1>1 DEF panelBegin
<1> HIDE <1>1
<1>4. p.timeouts < MaxTimeouts BY <1>2, Constants
<1>5. /\ noteDuration(p, slow) \in Panels
      /\ noteDuration(p, slow).initialised = p.initialised
      /\ noteDuration(p, slow).faulted = p.faulted
      /\ noteDuration(p, slow).timeouts \in 0 .. 1
  BY <1>2, <1>4, DurationNoted
<1> QED BY <1>2, <1>3, <1>5, Constants

\* What an operation on the panel leaves: drawn if it was up, counted, and given up or not.
LEMMA Drawn ==
    ASSUME TypeOK, GivenUp, NEW screen, NEW slow \in BOOLEAN, Draws(screen, slow)
    PROVE  /\ panel' \in Panels
           /\ panel'.initialised = panel.initialised
           /\ panel.faulted => panel'.faulted
           /\ panel'.timeouts < MaxTimeouts \/ panel'.faulted
           /\ image' = IF panel.initialised /\ ~panel.faulted /\ fitted THEN screen ELSE image
<1>1. panel \in Panels BY DEF TypeOK
<1>2. CASE panel.initialised /\ ~panel.faulted
  <2>1. panel.timeouts < MaxTimeouts BY <1>2 DEF GivenUp
  <2>2. panel' = noteDuration(panel, slow) /\ image' = IF fitted THEN screen ELSE image
    BY <1>2 DEF Draws
  <2> QED BY <1>1, <1>2, <2>1, <2>2, DurationNoted
<1>3. CASE ~(panel.initialised /\ ~panel.faulted)
  <2>1. panel' = panel /\ image' = image BY <1>3 DEF Draws
  <2> QED BY <1>1, <1>3, <2>1 DEF GivenUp
<1> QED BY <1>2, <1>3

-----------------------------------------------------------------------------
(* Types                                                                    *)

Screens == {"blank", "splash", "reading", "password", "torn"}

\* TypeOK in three parts: most actions leave two of them alone.
RoomTyped == /\ world \in Worlds /\ fitted \in BOOLEAN /\ stored \in BOOLEAN
             /\ changes \in 0 .. MaxChanges
DeviceTyped == /\ manager \in Managers /\ panel \in Panels /\ policy \in Policies
               /\ warning \in WarningStates /\ image.screen \in Screens
TasksTyped == /\ lock \in {"free", "network", "web"}
              /\ net \in Loop \cup {"setup", "begins", "shows", "window", "ended"}
              /\ mode \in {"sta", "first", "fallback"} /\ ap \in {"off", "open", "wpa2"}
              /\ web \in Handlers

LEMMA TypeParts ==
    /\ TypeOK <=> RoomTyped /\ DeviceTyped /\ TasksTyped
    /\ TypeOK' <=> RoomTyped' /\ DeviceTyped' /\ TasksTyped'
    /\ RoomTyped /\ UNCHANGED <<world, fitted, stored, changes>> => RoomTyped'
    /\ DeviceTyped /\ UNCHANGED <<manager, panel, policy, warning, image>> => DeviceTyped'
    /\ TasksTyped /\ UNCHANGED <<lock, net, mode, ap, web>> => TasksTyped'
BY DEF TypeOK, RoomTyped, DeviceTyped, TasksTyped, Screens

LEMMA ScreenNames ==
    /\ Screen("blank").screen \in Screens /\ Screen("splash").screen \in Screens
    /\ Screen("password").screen = "password" /\ "password" \in Screens
    /\ Screen("torn").screen \in Screens
    /\ \A picture : /\ Reading(picture).screen = "reading"
                    /\ Reading(picture).drawn.icon = picture.warning
    /\ "reading" \in Screens
BY DEF Screen, Reading, Screens, runPagedDraw

LEMMA HandlerTyped ==
    /\ \A b \in BOOLEAN : [at |-> "saves", enabled |-> b] \in Handlers
    /\ [at |-> "locks", enabled |-> FALSE] \in Handlers
    /\ [at |-> "idle", enabled |-> FALSE] \in Handlers
    /\ web \in Handlers => \A a \in {"idle", "locks", "clears", "saves", "restarts"} :
          /\ [web EXCEPT !.at = a] \in Handlers
          /\ [web EXCEPT !.at = a].at = a /\ [web EXCEPT !.at = a].enabled = web.enabled
<1>1. FALSE \in BOOLEAN OBVIOUS
<1> QED BY <1>1 DEF Handlers

LEMMA Places == Loop = {"idle", "locks", "paints"}
BY DEF Loop

LEMMA ManagerTyped ==
    ASSUME NEW m \in Managers, NEW e \in BOOLEAN
    PROVE  /\ [m EXCEPT !.enabled = e] \in Managers /\ [m EXCEPT !.enabled = e].enabled = e
           /\ \A b \in 0 .. 5 : [m EXCEPT !.bucket = b] \in Managers
                                /\ [m EXCEPT !.bucket = b].enabled = m.enabled
BY DEF Managers, DEMAND_BUCKETS

-----------------------------------------------------------------------------
(* The invariant, action by action                                          *)

LEMMA InitInvariant == Init => IInv
<1> SUFFICES ASSUME Init PROVE IInv OBVIOUS
<1>1. RoomTyped
  <2>1. 0 \in 0 .. MaxChanges BY Constants
  <2> QED BY <2>1 DEF Init, RoomTyped
<1>2. DeviceTyped BY Blank, ScreenNames DEF Init, DeviceTyped
<1>3. TasksTyped BY HandlerTyped DEF Init, TasksTyped
<1>4. FreshAtSetup BY DEF Init, FreshAtSetup
<1>5. GivenUp BY Blank, Constants DEF Init, GivenUp
<1>6. LockHolders BY DEF Init, LockHolders
<1>7. SwitchedOff BY DEF Init, SwitchedOff, Loop
<1>8. WarningCommitted BY Blank DEF Init, WarningCommitted
<1>9. PasswordShown BY DEF Init, PasswordShown, LockedApIsReadable
<1> QED BY <1>1, <1>2, <1>3, <1>4, <1>5, <1>6, <1>7, <1>8, <1>9, TypeParts DEF IInv

LEMMA SetupInvariant == IInv /\ setupDisplay => IInv'
<1> SUFFICES ASSUME IInv, setupDisplay PROVE IInv' OBVIOUS
<1>1. RoomTyped /\ DeviceTyped /\ TasksTyped BY TypeParts DEF IInv
<1>2. /\ net = "setup" /\ net' \in {"idle", "begins"} /\ mode' \in {"sta", "first", "fallback"}
      /\ UNCHANGED <<world, fitted, stored, changes>> /\ UNCHANGED <<policy, warning>>
      /\ UNCHANGED <<lock, ap, web>>
  BY DEF setupDisplay
<1>3. /\ manager = NewManager /\ panel = NewPanel /\ policy = NewPolicy
      /\ warning = NewWarning /\ ap = "off" /\ web.at = "idle" /\ lock \notin {"network", "web"}
  BY <1>2, Places DEF IInv, FreshAtSetup, LockHolders
<1>4. /\ manager' \in Managers /\ panel' \in Panels /\ image'.screen \in Screens
      /\ panel'.timeouts < MaxTimeouts \/ panel'.faulted
      /\ manager'.enabled => panel'.initialised
      /\ ~manager'.enabled => panel' = NewPanel
      /\ ~fitted => image' = image
      /\ ~stored => manager' = manager /\ panel' = panel
  <2>1. CASE stored
    <3>a. PICK slowInit \in BOOLEAN, slowSplash \in BOOLEAN :
             LET begun == panelBegin(NewPanel, slowInit)
             IN /\ manager' = [manager EXCEPT !.enabled = ~begun.faulted]
                /\ panel' = IF begun.faulted THEN begun ELSE noteDuration(begun, slowSplash)
                /\ image' = IF fitted /\ ~begun.faulted THEN Screen("splash") ELSE image
      BY <2>1 DEF setupDisplay
    <3>b. PICK begun : begun = panelBegin(NewPanel, slowInit) OBVIOUS
    <3>1. /\ manager' = [manager EXCEPT !.enabled = ~begun.faulted]
          /\ panel' = IF begun.faulted THEN begun ELSE noteDuration(begun, slowSplash)
          /\ image' = IF fitted /\ ~begun.faulted THEN Screen("splash") ELSE image
      BY <3>a, <3>b
    <3>2. /\ begun \in Panels /\ begun.initialised /\ ~begun.faulted
          /\ begun.timeouts < MaxTimeouts
      BY <3>b, PanelBegun
    <3>3. /\ noteDuration(begun, slowSplash) \in Panels
          /\ noteDuration(begun, slowSplash).initialised
          /\ \/ noteDuration(begun, slowSplash).timeouts < MaxTimeouts
             \/ noteDuration(begun, slowSplash).faulted
      BY <3>2, DurationNoted
    <3>4. PICK yes \in BOOLEAN : yes = ~begun.faulted OBVIOUS
    <3>5. manager' \in Managers /\ manager'.enabled = yes
      BY <1>1, <3>1, <3>4, ManagerTyped DEF DeviceTyped
    <3>6. panel' = noteDuration(begun, slowSplash) BY <3>1, <3>2
    <3>7. image'.screen \in Screens /\ (~fitted => image' = image)
      BY <1>1, <3>1, ScreenNames DEF DeviceTyped
    <3> QED BY <2>1, <3>2, <3>3, <3>4, <3>5, <3>6, <3>7
  <2>2. CASE ~stored
    <3>1. UNCHANGED <<manager, panel, image>> BY <2>2 DEF setupDisplay
    <3> QED BY <1>1, <1>3, <2>2, <3>1, Blank, Constants DEF DeviceTyped
  <2> QED BY <2>1, <2>2
<1>5. RoomTyped' BY <1>1, <1>2, TypeParts
<1>6. DeviceTyped' BY <1>1, <1>2, <1>4 DEF DeviceTyped
<1>7. TasksTyped' BY <1>1, <1>2 DEF TasksTyped, Loop
<1>8. FreshAtSetup' BY <1>2 DEF FreshAtSetup
<1>9. GivenUp' BY <1>4 DEF GivenUp
<1>10. LockHolders' BY <1>2, <1>3, Places DEF LockHolders
<1>11. SwitchedOff'
  <2>1. ~fitted => image = Screen("blank") BY DEF IInv, SwitchedOff
  <2>2. ~stored => ~manager'.enabled /\ ~panel'.initialised BY <1>3, <1>4, Blank
  <2> QED BY <1>2, <1>3, <1>4, <2>1, <2>2 DEF SwitchedOff, Blanked
<1>12. WarningCommitted' BY <1>2, <1>3, Blank DEF WarningCommitted
<1>13. PasswordShown' BY <1>2, <1>3, <1>4 DEF PasswordShown, LockedApIsReadable
<1> QED BY <1>5, <1>6, <1>7, <1>8, <1>9, <1>10, <1>11, <1>12, <1>13, TypeParts DEF IInv

LEMMA BeginsInvariant == IInv /\ updateBegins => IInv'
<1> SUFFICES ASSUME IInv, updateBegins PROVE IInv' OBVIOUS
<1>1. RoomTyped /\ DeviceTyped /\ TasksTyped BY TypeParts DEF IInv
<1>2. /\ net = "idle" /\ net' = "locks" /\ manager.enabled
      /\ policy' = [policy EXCEPT !.age = Later(@)]
      /\ UNCHANGED <<world, fitted, stored, changes>>
      /\ UNCHANGED <<manager, panel, warning, image>> /\ UNCHANGED <<lock, mode, ap, web>>
  BY DEF updateBegins
<1>3. /\ policy' \in Policies /\ policy'.everPainted = policy.everPainted
      /\ policy'.last = policy.last
  <2>1. policy \in Policies /\ policy.age \in 0 .. MinInterval
    BY <1>1 DEF DeviceTyped, Policies
  <2>2. PICK later \in 0 .. MinInterval : later = Later(policy.age)
    BY <2>1, Constants DEF Later
  <2> QED BY <1>2, <2>1, <2>2 DEF Policies
<1>4. RoomTyped' BY <1>1, <1>2, TypeParts
<1>5. DeviceTyped' BY <1>1, <1>2, <1>3 DEF DeviceTyped
<1>6. TasksTyped' BY <1>1, <1>2 DEF TasksTyped, Loop
<1>7. FreshAtSetup' BY <1>2 DEF FreshAtSetup
<1>8. GivenUp' BY <1>2 DEF IInv, GivenUp
<1>9. LockHolders' BY <1>2, Places DEF IInv, LockHolders
<1>10. SwitchedOff' BY <1>2, Places DEF IInv, SwitchedOff, Blanked
<1>11. WarningCommitted' BY <1>2, <1>3 DEF IInv, WarningCommitted
<1>12. PasswordShown' BY <1>2 DEF PasswordShown, LockedApIsReadable
<1> QED BY <1>4, <1>5, <1>6, <1>7, <1>8, <1>9, <1>10, <1>11, <1>12, TypeParts DEF IInv

LEMMA GivesUpInvariant == IInv /\ updateGivesUp => IInv'
<1> SUFFICES ASSUME IInv, updateGivesUp PROVE IInv' OBVIOUS
<1>1. RoomTyped /\ DeviceTyped /\ TasksTyped BY TypeParts DEF IInv
<1>2. /\ net = "locks" /\ net' = "idle"
      /\ UNCHANGED <<world, fitted, stored, changes>>
      /\ UNCHANGED <<manager, panel, policy, warning, image>> /\ UNCHANGED <<lock, mode, ap, web>>
  BY DEF updateGivesUp
<1>3. RoomTyped' /\ DeviceTyped' BY <1>1, <1>2, TypeParts
<1>4. TasksTyped' BY <1>1, <1>2 DEF TasksTyped, Loop
<1>5. FreshAtSetup' BY <1>2 DEF FreshAtSetup
<1>6. GivenUp' BY <1>2 DEF IInv, GivenUp
<1>7. LockHolders' BY <1>2, Places DEF IInv, LockHolders
<1>8. SwitchedOff' BY <1>2, Places DEF IInv, SwitchedOff, Blanked
<1>9. WarningCommitted' BY <1>2 DEF IInv, WarningCommitted
<1>10. PasswordShown' BY <1>2 DEF PasswordShown, LockedApIsReadable
<1> QED BY <1>3, <1>4, <1>5, <1>6, <1>7, <1>8, <1>9, <1>10, TypeParts DEF IInv

LEMMA DecidesInvariant == IInv /\ updateDecides => IInv'
<1> SUFFICES ASSUME IInv, updateDecides PROVE IInv' OBVIOUS
<1>1. RoomTyped /\ DeviceTyped /\ TasksTyped BY TypeParts DEF IInv
<1>2. /\ net = "locks" /\ lock = "free"
      /\ UNCHANGED <<world, fitted, stored, changes>>
      /\ UNCHANGED <<panel, image>> /\ UNCHANGED <<mode, ap, web>>
  BY DEF updateDecides
<1>3. RoomTyped' BY <1>1, <1>2, TypeParts
<1>4. CASE ~manager.enabled
  <2>1. net' = "idle" /\ UNCHANGED <<manager, warning, policy, lock>>
    BY <1>4 DEF updateDecides
  <2>2. DeviceTyped' BY <1>1, <1>2, <2>1, TypeParts
  <2>3. TasksTyped' BY <1>1, <1>2, <2>1 DEF TasksTyped, Loop
  <2>4. FreshAtSetup' BY <2>1 DEF FreshAtSetup
  <2>5. GivenUp' BY <1>2, <2>1 DEF IInv, GivenUp
  <2>6. LockHolders' BY <1>2, <2>1, Places DEF IInv, LockHolders
  <2>7. SwitchedOff' BY <1>2, <2>1, Places DEF IInv, SwitchedOff, Blanked
  <2>8. WarningCommitted' BY <1>2, <2>1 DEF IInv, WarningCommitted
  <2>9. PasswordShown' BY <2>1 DEF PasswordShown, LockedApIsReadable
  <2> QED BY <1>3, <2>2, <2>3, <2>4, <2>5, <2>6, <2>7, <2>8, <2>9, TypeParts DEF IInv
<1>5. CASE manager.enabled
  <2>1. Decides BY <1>5 DEF updateDecides
  <2>2. PICK bucket : bucket = nextDemandBucket(world.demand, manager.bucket) OBVIOUS
  <2>3. PICK judged : judged = warningEvaluate(warning, world) OBVIOUS
  <2>4. PICK new : new = Picture(world, bucket, judged.displayed) OBVIOUS
  <2>5. /\ manager' = [manager EXCEPT !.bucket = bucket]
        /\ warning' = judged
        /\ policy' = policyEvaluate(policy, new)
        /\ IF refreshKind(policy, new) = "None"
           THEN net' = "idle" /\ UNCHANGED lock
           ELSE net' = "paints" /\ lock' = "network"
    BY <2>1, <2>2, <2>3, <2>4 DEF Decides
  <2>6. bucket \in 0 .. 5
    <3>1. world.demand \in Demands BY <1>1 DEF RoomTyped, Worlds
    <3>2. manager.bucket \in 0 .. 5 BY <1>1 DEF DeviceTyped, Managers, DEMAND_BUCKETS
    <3> QED BY <2>2, <3>1, <3>2, Constants, BucketTyped
  <2>7. judged \in WarningStates /\ judged.displayed \in Warnings
    <3>1. judged \in WarningStates BY <1>1, <2>3, WarningTyped DEF DeviceTyped
    <3> QED BY <3>1 DEF WarningStates
  <2>8. new \in Pictures /\ new.warning = judged.displayed
    BY <1>1, <2>4, <2>6, <2>7, PictureTyped DEF RoomTyped
  <2>9. policy \in Policies BY <1>1 DEF DeviceTyped
  <2> HIDE <2>2, <2>3, <2>4
  <2>10. manager' \in Managers /\ manager'.enabled = manager.enabled
    BY <1>1, <2>5, <2>6, ManagerTyped DEF DeviceTyped
  <2>11. policy' \in Policies BY <2>5, <2>8, <2>9, PolicyDecides
  <2>12. DeviceTyped' BY <1>1, <1>2, <2>5, <2>7, <2>10, <2>11 DEF DeviceTyped
  <2>13. TasksTyped' BY <1>1, <1>2, <2>5 DEF TasksTyped, Loop
  <2>14. FreshAtSetup' BY <2>5 DEF FreshAtSetup
  <2>15. GivenUp' BY <1>2, <2>10 DEF IInv, GivenUp
  <2>16. LockHolders' BY <1>2, <2>5, Places DEF IInv, LockHolders
  <2>17. SwitchedOff'
    <3>1. /\ stored
          /\ web.at \notin {"locks", "clears"} /\ ~(web.at = "saves" /\ ~web.enabled)
      BY <1>2, <1>5, Places DEF IInv, SwitchedOff, Blanked
    <3>2. fitted' = fitted /\ stored' = stored /\ image' = image /\ web' = web BY <1>2
    <3>3. ~fitted => image = Screen("blank") BY DEF IInv, SwitchedOff
    <3> QED BY <3>1, <3>2, <3>3 DEF SwitchedOff
  <2>18. WarningCommitted'
    <3>1. CASE refreshKind(policy, new) = "None"
      <4>1. /\ policy' = policy /\ policy.everPainted
            /\ new.warning = "NONE" \/ new.warning = policy.last.warning
        BY <2>5, <2>8, <2>9, <3>1, PolicyDecides
      <4>2. net' = "idle" /\ warning'.displayed = new.warning BY <2>5, <2>8, <3>1
      <4> QED BY <1>2, <1>5, <4>1, <4>2 DEF IInv, WarningCommitted
    <3>2. CASE refreshKind(policy, new) # "None"
      <4>1. policy'.everPainted /\ policy'.last = new
        BY <2>5, <2>8, <2>9, <3>2, PolicyDecides
      <4>2. net' = "paints" /\ warning'.displayed = new.warning BY <2>5, <2>8, <3>2
      <4> QED BY <4>1, <4>2 DEF WarningCommitted
    <3> QED BY <3>1, <3>2
  <2>19. PasswordShown' BY <2>5 DEF PasswordShown, LockedApIsReadable
  <2> QED BY <1>3, <2>12, <2>13, <2>14, <2>15, <2>16, <2>17, <2>18, <2>19, TypeParts DEF IInv
<1> QED BY <1>4, <1>5

LEMMA PaintsInvariant == IInv /\ updatePaints => IInv'
<1> SUFFICES ASSUME IInv, updatePaints PROVE IInv' OBVIOUS
<1>1. RoomTyped /\ DeviceTyped /\ TasksTyped BY TypeParts DEF IInv
<1>2. /\ net = "paints" /\ net' = "idle" /\ lock' = "free"
      /\ UNCHANGED <<world, fitted, stored, changes>>
      /\ UNCHANGED <<manager, policy, warning>> /\ UNCHANGED <<mode, ap, web>>
  BY DEF updatePaints
<1>3. PICK slow \in BOOLEAN : Draws(Reading(policy.last), slow)
  BY DEF updatePaints, render
<1>4. /\ panel' \in Panels /\ panel'.initialised = panel.initialised
      /\ panel.faulted => panel'.faulted
      /\ panel'.timeouts < MaxTimeouts \/ panel'.faulted
      /\ image' = IF panel.initialised /\ ~panel.faulted /\ fitted
                  THEN Reading(policy.last) ELSE image
  BY <1>3, Drawn DEF IInv
<1>5. RoomTyped' BY <1>1, <1>2, TypeParts
<1>6. DeviceTyped'
  <2>1. image'.screen \in Screens BY <1>1, <1>4, ScreenNames DEF DeviceTyped
  <2> QED BY <1>1, <1>2, <1>4, <2>1 DEF DeviceTyped
<1>7. TasksTyped' BY <1>1, <1>2 DEF TasksTyped, Loop
<1>8. FreshAtSetup' BY <1>2 DEF FreshAtSetup
<1>9. GivenUp' BY <1>2, <1>4 DEF IInv, GivenUp
<1>10. LockHolders' BY <1>2, Places DEF IInv, LockHolders
<1>11. SwitchedOff'
  <2>1. /\ stored /\ ~(web.at = "saves" /\ ~web.enabled)
        /\ web.at \in {"locks", "clears"} => ~manager.enabled
    BY <1>2, Places DEF IInv, SwitchedOff, Blanked
  <2>2. ~fitted => image = Screen("blank") BY DEF IInv, SwitchedOff
  <2> QED BY <1>2, <1>4, <2>1, <2>2 DEF SwitchedOff
<1>12. WarningCommitted'
  <2>1. warning.displayed # "NONE" =>
           policy.everPainted /\ policy.last.warning = warning.displayed
    BY DEF IInv, WarningCommitted
  <2>2. manager.enabled /\ fitted /\ ~panel'.faulted => image' = Reading(policy.last)
    BY <1>4 DEF IInv, GivenUp
  <2> QED BY <1>2, <2>1, <2>2 DEF WarningCommitted
<1>13. PasswordShown' BY <1>2 DEF PasswordShown, LockedApIsReadable
<1> QED BY <1>5, <1>6, <1>7, <1>8, <1>9, <1>10, <1>11, <1>12, <1>13, TypeParts DEF IInv

LEMMA StartApInvariant == IInv /\ startAP => IInv'
<1> SUFFICES ASSUME IInv, startAP PROVE IInv' OBVIOUS
<1>1. RoomTyped /\ DeviceTyped /\ TasksTyped BY TypeParts DEF IInv
<1>2. PICK asked \in probe, slow \in BOOLEAN :
         LET tried == tryBeginForApInfo(asked, slow)
         IN /\ ap' = IF tried.up THEN "wpa2" ELSE "open"
            /\ net' = IF tried.up THEN "shows" ELSE "window"
            /\ panel' = tried.panel
  BY DEF startAP
<1>3. /\ net = "begins"
      /\ UNCHANGED <<world, fitted, stored, changes>>
      /\ UNCHANGED <<manager, policy, warning, image>> /\ UNCHANGED <<lock, mode, web>>
  BY DEF startAP
<1>4. PICK up : up = tryBeginForApInfo(asked, slow).up OBVIOUS
<1>5. /\ ~manager.enabled => panel = NewPanel
      /\ web.at = "idle" /\ lock \notin {"network", "web"}
  BY <1>3, Places DEF IInv, PasswordShown, LockHolders
<1>6. /\ panel' \in Panels /\ (panel'.timeouts < MaxTimeouts \/ panel'.faulted)
      /\ panel.initialised => panel'.initialised
      /\ up /\ ~manager.enabled => fitted /\ panel'.initialised /\ ~panel'.faulted
      /\ ap' = (IF up THEN "wpa2" ELSE "open") /\ net' = (IF up THEN "shows" ELSE "window")
  <2>1. CASE manager.enabled \/ ~asked
    <3>1. up = manager.enabled /\ panel' = panel BY <1>2, <1>4, <2>1 DEF tryBeginForApInfo
    <3>2. /\ ap' = (IF up THEN "wpa2" ELSE "open")
          /\ net' = (IF up THEN "shows" ELSE "window")
      BY <1>2, <1>4
    <3> QED BY <1>1, <3>1, <3>2 DEF DeviceTyped, IInv, GivenUp
  <2>2. CASE ~(manager.enabled \/ ~asked)
    <3>1. PICK begun : begun = panelBegin(panel, slow) OBVIOUS
    <3>2. up = ~begun.faulted /\ panel' = begun
      BY <1>2, <1>4, <2>2, <3>1 DEF tryBeginForApInfo
    <3>3. begun = panelBegin(NewPanel, slow) BY <1>5, <2>2, <3>1
    <3>4. begun \in Panels /\ begun.initialised /\ ~begun.faulted /\ begun.timeouts < MaxTimeouts
      BY <3>3, PanelBegun
    <3>5. fitted BY <1>2, <2>2 DEF probe
    <3>6. ap' = (IF up THEN "wpa2" ELSE "open") /\ net' = (IF up THEN "shows" ELSE "window")
      BY <1>2, <1>4
    <3> QED BY <3>2, <3>4, <3>5, <3>6
  <2> QED BY <2>1, <2>2
<1>7. net' \in {"shows", "window"} /\ ap' \in {"wpa2", "open"} BY <1>6
<1>8. RoomTyped' BY <1>1, <1>3, TypeParts
<1>9. DeviceTyped' BY <1>1, <1>3, <1>6 DEF DeviceTyped
<1>10. TasksTyped' BY <1>1, <1>3, <1>7 DEF TasksTyped
<1>11. FreshAtSetup' BY <1>7 DEF FreshAtSetup
<1>12. GivenUp' BY <1>3, <1>6 DEF IInv, GivenUp
<1>13. LockHolders' BY <1>3, <1>5, <1>7, Places DEF LockHolders
<1>14. SwitchedOff'
  <2>1. ~fitted => image = Screen("blank") BY DEF IInv, SwitchedOff
  <2> QED BY <1>3, <1>5, <1>7, <2>1, Places DEF SwitchedOff
<1>15. WarningCommitted' BY <1>3, <1>7 DEF IInv, WarningCommitted
<1>16. PasswordShown'
  <2>1. CASE up BY <1>3, <1>6, <2>1 DEF PasswordShown, LockedApIsReadable
  <2>2. CASE ~up BY <1>6, <2>2 DEF PasswordShown, LockedApIsReadable
  <2> QED BY <2>1, <2>2
<1> QED BY <1>8, <1>9, <1>10, <1>11, <1>12, <1>13, <1>14, <1>15, <1>16, TypeParts DEF IInv

LEMMA ShowInvariant == IInv /\ showApInfo => IInv'
<1> SUFFICES ASSUME IInv, showApInfo PROVE IInv' OBVIOUS
<1>1. RoomTyped /\ DeviceTyped /\ TasksTyped BY TypeParts DEF IInv
<1>2. /\ net = "shows" /\ net' = "window"
      /\ UNCHANGED <<world, fitted, stored, changes>>
      /\ UNCHANGED <<manager, policy, warning>> /\ UNCHANGED <<lock, mode, ap, web>>
  BY DEF showApInfo
<1>3. PICK slow \in BOOLEAN : Draws(Screen("password"), slow)
  BY DEF showApInfo, drawApInfo
<1>4. /\ panel' \in Panels /\ panel'.initialised = panel.initialised
      /\ panel'.timeouts < MaxTimeouts \/ panel'.faulted
      /\ image' = IF panel.initialised /\ ~panel.faulted /\ fitted
                  THEN Screen("password") ELSE image
  BY <1>3, Drawn DEF IInv
<1>5. RoomTyped' BY <1>1, <1>2, TypeParts
<1>6. DeviceTyped'
  <2>1. image'.screen \in Screens BY <1>1, <1>4, ScreenNames DEF DeviceTyped
  <2> QED BY <1>1, <1>2, <1>4, <2>1 DEF DeviceTyped
<1>7. TasksTyped' BY <1>1, <1>2 DEF TasksTyped
<1>8. FreshAtSetup' BY <1>2 DEF FreshAtSetup
<1>9. GivenUp' BY <1>2, <1>4 DEF IInv, GivenUp
<1>10. LockHolders' BY <1>2, Places DEF IInv, LockHolders
<1>11. SwitchedOff'
  <2>1. /\ ~fitted => image = Screen("blank")
        /\ web.at = "idle"
    BY <1>2, Places DEF IInv, SwitchedOff, LockHolders
  <2> QED BY <1>2, <1>4, <2>1, Places DEF SwitchedOff
<1>12. WarningCommitted' BY <1>2 DEF IInv, WarningCommitted
<1>13. PasswordShown'
  <2>1. ~manager.enabled => fitted /\ panel.initialised /\ ~panel.faulted
    BY <1>2 DEF IInv, PasswordShown
  <2> QED BY <1>2, <1>4, <2>1, ScreenNames DEF PasswordShown, LockedApIsReadable
<1> QED BY <1>5, <1>6, <1>7, <1>8, <1>9, <1>10, <1>11, <1>12, <1>13, TypeParts DEF IInv

LEMMA ProvisionedInvariant == IInv /\ provisioned => IInv'
<1> SUFFICES ASSUME IInv, provisioned PROVE IInv' OBVIOUS
<1>1. RoomTyped /\ DeviceTyped /\ TasksTyped BY TypeParts DEF IInv
<1>2. /\ net = "window" /\ net' = "ended"
      /\ UNCHANGED <<world, fitted, stored, changes>>
      /\ UNCHANGED <<manager, policy, warning>> /\ UNCHANGED <<lock, mode, ap, web>>
  BY DEF provisioned
<1>3. /\ panel' \in Panels /\ panel'.initialised = panel.initialised
      /\ panel'.timeouts < MaxTimeouts \/ panel'.faulted
      /\ image' \in {image, Screen("blank")}
      /\ ~fitted => image' = image
  <2>1. CASE mode = "fallback" \/ manager.enabled
    <3>1. PICK slow \in BOOLEAN : Draws(Screen("blank"), slow)
      BY <2>1 DEF provisioned, clear
    <3> QED BY <3>1, Drawn DEF IInv
  <2>2. CASE ~(mode = "fallback" \/ manager.enabled)
    <3>1. panel' = panel /\ image' = image BY <2>2 DEF provisioned
    <3> QED BY <1>1, <3>1 DEF DeviceTyped, IInv, GivenUp
  <2> QED BY <2>1, <2>2
<1>4. RoomTyped' BY <1>1, <1>2, TypeParts
<1>5. DeviceTyped'
  <2>1. image'.screen \in Screens BY <1>1, <1>3, ScreenNames DEF DeviceTyped
  <2> QED BY <1>1, <1>2, <1>3, <2>1 DEF DeviceTyped
<1>6. TasksTyped' BY <1>1, <1>2 DEF TasksTyped
<1>7. FreshAtSetup' BY <1>2 DEF FreshAtSetup
<1>8. GivenUp' BY <1>2, <1>3 DEF IInv, GivenUp
<1>9. LockHolders' BY <1>2, Places DEF IInv, LockHolders
<1>10. SwitchedOff'
  <2>1. /\ ~fitted => image = Screen("blank")
        /\ web.at = "idle"
    BY <1>2, Places DEF IInv, SwitchedOff, LockHolders
  <2> QED BY <1>2, <1>3, <2>1, Places DEF SwitchedOff
<1>11. WarningCommitted' BY <1>2 DEF IInv, WarningCommitted
<1>12. PasswordShown' BY <1>2 DEF PasswordShown, LockedApIsReadable
<1> QED BY <1>4, <1>5, <1>6, <1>7, <1>8, <1>9, <1>10, <1>11, <1>12, TypeParts DEF IInv

LEMMA TimesOutInvariant == IInv /\ windowTimesOut => IInv'
<1> SUFFICES ASSUME IInv, windowTimesOut PROVE IInv' OBVIOUS
<1>1. RoomTyped /\ DeviceTyped /\ TasksTyped BY TypeParts DEF IInv
<1>2. /\ net = "window" /\ net' = "ended"
      /\ UNCHANGED <<world, fitted, stored, changes>>
      /\ UNCHANGED <<manager, panel, policy, warning, image>> /\ UNCHANGED <<lock, mode, ap, web>>
  BY DEF windowTimesOut
<1>3. RoomTyped' /\ DeviceTyped' BY <1>1, <1>2, TypeParts
<1>4. TasksTyped' BY <1>1, <1>2 DEF TasksTyped
<1>5. FreshAtSetup' BY <1>2 DEF FreshAtSetup
<1>6. GivenUp' BY <1>2 DEF IInv, GivenUp
<1>7. LockHolders' BY <1>2, Places DEF IInv, LockHolders
<1>8. SwitchedOff'
  <2>1. /\ ~fitted => image = Screen("blank")
        /\ web.at = "idle"
    BY <1>2, Places DEF IInv, SwitchedOff, LockHolders
  <2> QED BY <1>2, <2>1, Places DEF SwitchedOff
<1>9. WarningCommitted' BY <1>2 DEF IInv, WarningCommitted
<1>10. PasswordShown' BY <1>2 DEF PasswordShown, LockedApIsReadable
<1> QED BY <1>3, <1>4, <1>5, <1>6, <1>7, <1>8, <1>9, <1>10, TypeParts DEF IInv

LEMMA PostInvariant ==
    ASSUME IInv, NEW enabled \in BOOLEAN, postDisplay(enabled)
    PROVE  IInv'
<1>1. RoomTyped /\ DeviceTyped /\ TasksTyped BY TypeParts DEF IInv
<1>2. /\ net \in Loop /\ web.at \in {"idle", "restarts"}
      /\ UNCHANGED <<world, fitted, stored, changes>>
      /\ UNCHANGED <<panel, policy, warning, image>> /\ UNCHANGED <<lock, net, mode, ap>>
  BY DEF postDisplay, task
<1>3. /\ manager' \in Managers /\ (manager'.enabled => manager.enabled)
      /\ web' \in Handlers
      /\ \/ web'.at = "locks" /\ stored /\ ~manager'.enabled
         \/ web'.at = "saves" /\ manager' = manager /\ (~web'.enabled => ~stored)
  <2>1. CASE stored /\ ~enabled
    <3>1. manager' = [manager EXCEPT !.enabled = FALSE] /\ web' = [at |-> "locks", enabled |-> FALSE]
      BY <2>1 DEF postDisplay
    <3>2. PICK no \in BOOLEAN : no = FALSE OBVIOUS
    <3>3. manager' \in Managers /\ manager'.enabled = no
      BY <1>1, <3>1, <3>2, ManagerTyped DEF DeviceTyped
    <3> QED BY <2>1, <3>1, <3>2, <3>3, HandlerTyped
  <2>2. CASE ~(stored /\ ~enabled)
    <3>1. manager' = manager /\ web' = [at |-> "saves", enabled |-> enabled]
      BY <2>2 DEF postDisplay
    <3>2. web' \in Handlers BY <3>1, HandlerTyped
    <3> QED BY <1>1, <2>2, <3>1, <3>2 DEF DeviceTyped
  <2> QED BY <2>1, <2>2
<1>4. RoomTyped' BY <1>1, <1>2, TypeParts
<1>5. DeviceTyped' BY <1>1, <1>2, <1>3 DEF DeviceTyped
<1>6. TasksTyped' BY <1>1, <1>2, <1>3 DEF TasksTyped
<1>7. FreshAtSetup' BY <1>2, Places DEF FreshAtSetup
<1>8. GivenUp' BY <1>2, <1>3 DEF IInv, GivenUp
<1>9. LockHolders' BY <1>2, <1>3 DEF IInv, LockHolders
<1>10. SwitchedOff'
  <2>1. /\ ~fitted => image = Screen("blank")
        /\ ~stored => Blanked
    BY <1>2 DEF IInv, SwitchedOff
  <2>2. Blanked => Blanked' BY <1>2, <1>3 DEF Blanked
  <2> QED BY <1>2, <1>3, <2>1, <2>2 DEF SwitchedOff
<1>11. WarningCommitted' BY <1>2, <1>3 DEF IInv, WarningCommitted
<1>12. PasswordShown' BY <1>2, Places DEF PasswordShown, LockedApIsReadable
<1> QED BY <1>4, <1>5, <1>6, <1>7, <1>8, <1>9, <1>10, <1>11, <1>12, TypeParts DEF IInv

LEMMA ClearLocksInvariant == IInv /\ clearLocks => IInv'
<1> SUFFICES ASSUME IInv, clearLocks PROVE IInv' OBVIOUS
<1>1. RoomTyped /\ DeviceTyped /\ TasksTyped BY TypeParts DEF IInv
<1>2. /\ web.at = "locks" /\ lock = "free" /\ lock' = "web"
      /\ web' = [web EXCEPT !.at = "clears"]
      /\ UNCHANGED <<world, fitted, stored, changes>>
      /\ UNCHANGED <<manager, panel, policy, warning, image>> /\ UNCHANGED <<net, mode, ap>>
  BY DEF clearLocks, task
<1>3. web' \in Handlers /\ web'.at = "clears" /\ web'.enabled = web.enabled
  BY <1>1, <1>2, HandlerTyped DEF TasksTyped
<1>4. net \in Loop BY <1>2 DEF IInv, LockHolders
<1>5. RoomTyped' /\ DeviceTyped' BY <1>1, <1>2, TypeParts
<1>6. TasksTyped' BY <1>1, <1>2, <1>3 DEF TasksTyped
<1>7. FreshAtSetup' BY <1>2, <1>4, Places DEF FreshAtSetup
<1>8. GivenUp' BY <1>2 DEF IInv, GivenUp
<1>9. LockHolders' BY <1>2, <1>3, <1>4 DEF IInv, LockHolders
<1>10. SwitchedOff' BY <1>2, <1>3 DEF IInv, SwitchedOff, Blanked
<1>11. WarningCommitted' BY <1>2 DEF IInv, WarningCommitted
<1>12. PasswordShown' BY <1>2, <1>4, Places DEF PasswordShown, LockedApIsReadable
<1> QED BY <1>5, <1>6, <1>7, <1>8, <1>9, <1>10, <1>11, <1>12, TypeParts DEF IInv

LEMMA ClearDrawsInvariant == IInv /\ clearDraws => IInv'
<1> SUFFICES ASSUME IInv, clearDraws PROVE IInv' OBVIOUS
<1>1. RoomTyped /\ DeviceTyped /\ TasksTyped BY TypeParts DEF IInv
<1>2. /\ web.at = "clears" /\ lock' = "free"
      /\ web' = [web EXCEPT !.at = "saves"]
      /\ UNCHANGED <<world, fitted, stored, changes>>
      /\ UNCHANGED <<manager, policy, warning>> /\ UNCHANGED <<net, mode, ap>>
  BY DEF clearDraws, task
<1>3. PICK slow \in BOOLEAN : Draws(Screen("blank"), slow)
  BY DEF clearDraws, clear
<1>4. /\ panel' \in Panels /\ panel'.initialised = panel.initialised
      /\ panel.faulted => panel'.faulted
      /\ panel'.timeouts < MaxTimeouts \/ panel'.faulted
      /\ image' = IF panel.initialised /\ ~panel.faulted /\ fitted
                  THEN Screen("blank") ELSE image
  BY <1>3, Drawn DEF IInv
<1>5. web' \in Handlers /\ web'.at = "saves" /\ web'.enabled = web.enabled
  BY <1>1, <1>2, HandlerTyped DEF TasksTyped
<1>6. net \in Loop /\ lock = "web" /\ net # "paints" /\ ~manager.enabled
  BY <1>2 DEF IInv, LockHolders, SwitchedOff
<1>7. (~fitted => image = Screen("blank")) BY DEF IInv, SwitchedOff
<1>8. RoomTyped' BY <1>1, <1>2, TypeParts
<1>9. DeviceTyped'
  <2>1. image'.screen \in Screens BY <1>1, <1>4, ScreenNames DEF DeviceTyped
  <2> QED BY <1>1, <1>2, <1>4, <2>1 DEF DeviceTyped
<1>10. TasksTyped' BY <1>1, <1>2, <1>5 DEF TasksTyped
<1>11. FreshAtSetup' BY <1>2, <1>6, Places DEF FreshAtSetup
<1>12. GivenUp' BY <1>2, <1>4 DEF IInv, GivenUp
<1>13. LockHolders' BY <1>2, <1>5, <1>6 DEF LockHolders
<1>14. Blanked' BY <1>2, <1>4, <1>6, <1>7 DEF Blanked
<1>15. SwitchedOff' BY <1>2, <1>4, <1>5, <1>7, <1>14 DEF SwitchedOff
<1>16. WarningCommitted' BY <1>2, <1>6 DEF IInv, WarningCommitted
<1>17. PasswordShown' BY <1>2, <1>6, Places DEF PasswordShown, LockedApIsReadable
<1> QED BY <1>8, <1>9, <1>10, <1>11, <1>12, <1>13, <1>15, <1>16, <1>17, TypeParts DEF IInv

LEMMA SaveInvariant == IInv /\ saveDisplayConfig => IInv'
<1> SUFFICES ASSUME IInv, saveDisplayConfig PROVE IInv' OBVIOUS
<1>1. RoomTyped /\ DeviceTyped /\ TasksTyped BY TypeParts DEF IInv
<1>2. /\ web.at = "saves" /\ stored' = web.enabled
      /\ web' = [web EXCEPT !.at = "restarts"]
      /\ UNCHANGED <<world, fitted, changes>>
      /\ UNCHANGED <<manager, panel, policy, warning, image>>
      /\ UNCHANGED <<lock, net, mode, ap>>
  BY DEF saveDisplayConfig, task
<1>3. web' \in Handlers /\ web'.at = "restarts" /\ web.enabled \in BOOLEAN
  BY <1>1, <1>2, HandlerTyped DEF TasksTyped, Handlers
<1>4. net \in Loop BY <1>2 DEF IInv, LockHolders
<1>5. RoomTyped' BY <1>1, <1>2, <1>3 DEF RoomTyped
<1>6. DeviceTyped' BY <1>1, <1>2, TypeParts
<1>7. TasksTyped' BY <1>1, <1>2, <1>3 DEF TasksTyped
<1>8. FreshAtSetup' BY <1>2, <1>4, Places DEF FreshAtSetup
<1>9. GivenUp' BY <1>2 DEF IInv, GivenUp
<1>10. LockHolders' BY <1>2, <1>3, <1>4 DEF IInv, LockHolders
<1>11. SwitchedOff'
  <2>1. /\ ~fitted => image = Screen("blank")
        /\ ~web.enabled => Blanked
    BY <1>2, <1>4 DEF IInv, SwitchedOff
  <2>2. Blanked => Blanked' BY <1>2 DEF Blanked
  <2> QED BY <1>2, <1>3, <2>1, <2>2 DEF SwitchedOff
<1>12. WarningCommitted' BY <1>2 DEF IInv, WarningCommitted
<1>13. PasswordShown' BY <1>2, <1>4, Places DEF PasswordShown, LockedApIsReadable
<1> QED BY <1>5, <1>6, <1>7, <1>8, <1>9, <1>10, <1>11, <1>12, <1>13, TypeParts DEF IInv

LEMMA RestartsInvariant ==
    ASSUME IInv, Restarts, changes' \in 0 .. MaxChanges
    PROVE  IInv'
<1>1. RoomTyped /\ DeviceTyped /\ TasksTyped BY TypeParts DEF IInv
<1>2. /\ manager' = NewManager /\ panel' = NewPanel
      /\ policy' = NewPolicy /\ warning' = NewWarning
      /\ image' \in {image, Screen("torn")} /\ (~fitted => image' = image)
      /\ lock' = "free" /\ net' = "setup" /\ mode' = "sta" /\ ap' = "off"
      /\ web' = [at |-> "idle", enabled |-> FALSE]
      /\ UNCHANGED <<world, fitted, stored>>
  BY DEF Restarts
<1>3. RoomTyped' BY <1>1, <1>2 DEF RoomTyped
<1>4. DeviceTyped' BY <1>1, <1>2, Blank, ScreenNames DEF DeviceTyped
<1>5. TasksTyped' BY <1>1, <1>2, HandlerTyped DEF TasksTyped
<1>6. FreshAtSetup' BY <1>2 DEF FreshAtSetup
<1>7. GivenUp' BY <1>2, Blank, Constants DEF GivenUp
<1>8. LockHolders' BY <1>2 DEF LockHolders
<1>9. SwitchedOff'
  <2>1. ~fitted => image = Screen("blank") BY DEF IInv, SwitchedOff
  <2> QED BY <1>2, <2>1, Places DEF SwitchedOff
<1>10. WarningCommitted' BY <1>2, Blank DEF WarningCommitted
<1>11. PasswordShown' BY <1>2 DEF PasswordShown, LockedApIsReadable
<1> QED BY <1>3, <1>4, <1>5, <1>6, <1>7, <1>8, <1>9, <1>10, <1>11, TypeParts DEF IInv

LEMMA WorldInvariant == IInv /\ WorldChanges => IInv'
<1> SUFFICES ASSUME IInv, WorldChanges PROVE IInv' OBVIOUS
<1>1. RoomTyped /\ DeviceTyped /\ TasksTyped BY TypeParts DEF IInv
<1>2. /\ world' \in Worlds /\ changes < MaxChanges /\ changes' = changes + 1
      /\ UNCHANGED <<fitted, stored>> /\ UNCHANGED <<manager, panel, policy, warning, image>>
      /\ UNCHANGED <<lock, net, mode, ap, web>>
  BY DEF WorldChanges, task
<1>3. RoomTyped'
  <2>1. changes' \in 0 .. MaxChanges BY <1>1, <1>2, Constants DEF RoomTyped
  <2> QED BY <1>1, <1>2, <2>1 DEF RoomTyped
<1>4. DeviceTyped' /\ TasksTyped' BY <1>1, <1>2, TypeParts
<1>5. FreshAtSetup' BY <1>2 DEF IInv, FreshAtSetup
<1>6. GivenUp' BY <1>2 DEF IInv, GivenUp
<1>7. LockHolders' BY <1>2 DEF IInv, LockHolders
<1>8. SwitchedOff' BY <1>2 DEF IInv, SwitchedOff, Blanked
<1>9. WarningCommitted' BY <1>2 DEF IInv, WarningCommitted
<1>10. PasswordShown' BY <1>2 DEF IInv, PasswordShown, LockedApIsReadable
<1> QED BY <1>3, <1>4, <1>5, <1>6, <1>7, <1>8, <1>9, <1>10, TypeParts DEF IInv

LEMMA StutterInvariant == IInv /\ UNCHANGED vars => IInv'
<1> SUFFICES ASSUME IInv, UNCHANGED vars PROVE IInv' OBVIOUS
<1>1. /\ UNCHANGED <<world, fitted, stored, changes>>
      /\ UNCHANGED <<manager, panel, policy, warning, image>>
      /\ UNCHANGED <<lock, net, mode, ap, web>>
  BY DEF vars, task
<1>2. TypeOK' BY <1>1, TypeParts DEF IInv
<1> QED BY <1>1, <1>2 DEF IInv, FreshAtSetup, GivenUp, LockHolders, SwitchedOff, Blanked,
                         WarningCommitted, PasswordShown, LockedApIsReadable

\* The inductive invariant: who holds the lock, from when on nothing paints, what was last
\* committed and what the way to the access point has made of the panel.
THEOREM Invariance == Spec => []IInv
<1>1. IInv /\ [Next]_vars => IInv'
  <2> SUFFICES ASSUME IInv, [Next]_vars PROVE IInv' OBVIOUS
  <2>1. CASE update
    BY <2>1, BeginsInvariant, GivesUpInvariant, DecidesInvariant, PaintsInvariant DEF update
  <2>2. CASE accessPoint
    BY <2>2, StartApInvariant, ShowInvariant, ProvisionedInvariant, TimesOutInvariant
    DEF accessPoint
  <2>3. CASE disable
    BY <2>3, ClearLocksInvariant, ClearDrawsInvariant, SaveInvariant DEF disable
  <2>4. CASE restart
    <3>1. changes' \in 0 .. MaxChanges BY <2>4 DEF restart, IInv, TypeOK
    <3> QED BY <2>4, <3>1, RestartsInvariant DEF restart
  <2>5. CASE reset
    <3>1. changes' \in 0 .. MaxChanges BY <2>5, Constants DEF reset, IInv, TypeOK
    <3> QED BY <2>5, <3>1, RestartsInvariant DEF reset
  <2> QED BY <2>1, <2>2, <2>3, <2>4, <2>5, SetupInvariant, PostInvariant, WorldInvariant,
             StutterInvariant DEF Next
<1> QED BY <1>1, InitInvariant, PTL DEF Spec

\* TypeOK: the demand bar, the counters of slow operations and of partial refreshes and
\* everything the policies record stay in their ranges.
THEOREM TypeCorrect == Spec => []TypeOK
<1>1. IInv => TypeOK BY DEF IInv
<1> QED BY <1>1, Invariance, PTL

\* DisabledStaysBlank: whatever paint was decided or under way when the request to switch the
\* display off came, once that is stored the panel is blank (disableAndClear, update).
THEOREM DisabledIsBlank == Spec => []DisabledStaysBlank
<1>1. IInv => DisabledStaysBlank BY DEF IInv, SwitchedOff, Blanked, DisabledStaysBlank
<1> QED BY <1>1, Invariance, PTL

\* OnsetIsShown: for any thresholds, margins, dwell and minimum interval, a warning in force
\* is on an enabled panel before the Network task's pass is over (evaluate, update).
THEOREM WarningsAreShown == Spec => []OnsetIsShown
<1>1. IInv => OnsetIsShown
  <2> SUFFICES ASSUME IInv, net = "idle", manager.enabled, fitted, ~panel.faulted,
                      warning.displayed # "NONE"
               PROVE  image.screen = "reading" /\ image.drawn.icon = warning.displayed
    BY DEF OnsetIsShown
  <2>1. /\ image = Reading(policy.last) /\ policy.last.warning = warning.displayed
    BY DEF IInv, WarningCommitted
  <2> QED BY <2>1, ScreenNames
<1> QED BY <1>1, Invariance, PTL

\* LockedApIsReadable: with the status display off, a network is only protected by a password
\* that stands on the panel (tryBeginForApInfo, startAP, showApInfo).
THEOREM PasswordIsReadable == Spec => []LockedApIsReadable
<1>1. IInv => LockedApIsReadable BY DEF IInv, PasswordShown
<1> QED BY <1>1, Invariance, PTL
=============================================================================
