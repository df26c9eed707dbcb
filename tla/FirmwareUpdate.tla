--------------------------- MODULE FirmwareUpdate ---------------------------
(***************************************************************************)
(* Updating the firmware: OTAUpdater with its HTTP client and its routes,  *)
(* the deferred restart of ConfigManager and the end of setup() in         *)
(* main.cpp.  The bootloader and the Arduino Update object are external,   *)
(* modelled by what the code relies on.                                    *)
(*                                                                         *)
(* The actors are the web server's one task, the two parked workers and    *)
(* the task that runs setup() and then loop().  A reset may fall between   *)
(* any two of their steps.                                                 *)
(***************************************************************************)
EXTENDS Naturals

CONSTANTS
    Factory,        \* the version the device was delivered with
    Releases,       \* what GitHub may answer a check with
    MaxHops         \* maxRedirects of openWithRedirects

VARIABLES
    flash,      \* per partition: the image it holds and its otadata state
    target,     \* the partition otadata selects for the next boot
    running,    \* the partition the running image was started from
    phase,      \* "setup" until confirmRunningImage has run, then "loop"
    proven,     \* history: the partitions whose image has proved it can boot
    restart,    \* a restart is requested (restartState)
    activity,   \* the claim that admits one OTA job at a time
    web,        \* the web task: idle, or between an update's checks and claim
    check,      \* the check worker
    checkState,
    checkResult,
    update,     \* the update worker
    updateState,
    pendingUpdate

flashVars == <<flash, target, running, phase, proven>>
checkVars == <<check, checkState, checkResult>>
updateVars == <<update, updateState, pendingUpdate>>
vars == <<flashVars, restart, activity, web, checkVars, updateVars>>

Activity == {"None", "Checking", "Updating"}
CheckState == {"Idle", "InProgress", "Done", "Failed"}
UpdateState == {"Idle", "Downloading", "Pending", "Success", "Failed"}

Partition == {"app0", "app1"}
Other(p) == CHOOSE q \in Partition : q # p

\* FirmwareInfo: the release a check found.  Versions are numbers in order, 0
\* is a tag that does not parse; "sound" says whether the setup() of that image
\* runs to its end.
Release == [valid : {TRUE}, version : Nat, sound : BOOLEAN]
NoRelease == [valid |-> FALSE, version |-> 0, sound |-> FALSE]

ASSUME ReleasesAssumption == Releases \subseteq Release /\ Factory \in Nat
ASSUME MaxHopsAssumption == MaxHops \in Nat \ {0}

\* An image is complete when its header is readable: Update withholds the
\* header until end().
Image == [complete : BOOLEAN, version : Nat, sound : BOOLEAN,
          state : {"valid", "new", "pending", "aborted"}]

Parked == [pc |-> "parked", hops |-> 0]
ParkedCheck == [pc |-> "parked", hops |-> 0, owned |-> FALSE, info |-> NoRelease]
WebIdle == [pc |-> "idle", info |-> NoRelease]

\* The web task and the workers, with the locals they carry from step to step.
WebTask == [pc : {"idle", "claim"}, info : Releases \cup {NoRelease}]
Checker == [pc : {"parked", "begin", "hop", "body", "failed", "done", "release"},
            hops : 0..MaxHops, owned : BOOLEAN, info : Releases \cup {NoRelease}]
Updater == [pc : {"parked", "preflight", "hop", "body", "write", "writing", "failed",
                  "schedule", "success", "release"},
            hops : 0..MaxHops]

TypeOK ==
    /\ flash \in [Partition -> Image]
    /\ target \in Partition /\ running \in Partition /\ proven \subseteq Partition
    /\ phase \in {"setup", "loop"} /\ restart \in BOOLEAN
    /\ activity \in Activity
    /\ web \in WebTask
    /\ check \in Checker /\ checkState \in CheckState
    /\ checkResult \in Releases \cup {NoRelease}
    /\ update \in Updater
    /\ updateState \in UpdateState
    /\ pendingUpdate \in Releases \cup {NoRelease}

-----------------------------------------------------------------------------
(* Versions *)

compareVersions(current, available) ==
    IF current = 0 \/ available = 0 \/ current = available THEN "equal"
    ELSE IF available > current THEN "newer" ELSE "older"

isReinstallOrNewer(current, available, allowReinstall) ==
    \/ compareVersions(current, available) = "newer"
    \/ compareVersions(current, available) = "equal" /\ allowReinstall

-----------------------------------------------------------------------------
(* The claim, and what the routes test before they act *)

isUpdateInProgress == activity # "None"
hasUnconfirmedUpdate == flash[running].state = "pending"

-----------------------------------------------------------------------------
(* A reset: everything in RAM is gone and the bootloader chooses an image.  *)
(* An image that was started unconfirmed and is still so is aborted; a new  *)
(* one becomes pending; one that is not complete is passed over.            *)

Aborted(f) == [p \in Partition |->
                  [f[p] EXCEPT !.state = IF @ = "pending" THEN "aborted" ELSE @]]
Selected(f) == IF f[target].state = "aborted" THEN Other(target) ELSE target
Booted(f) == IF f[Selected(f)].complete THEN Selected(f) ELSE Other(Selected(f))

Reset ==
    LET f == Aborted(flash) IN
    /\ target' = Selected(f)
    /\ running' = Booted(f)
    /\ flash' = [f EXCEPT ![Selected(f)].state = IF @ = "new" THEN "pending" ELSE @]
    /\ phase' = "setup" /\ restart' = FALSE /\ activity' = "None" /\ web' = WebIdle
    /\ check' = ParkedCheck /\ checkState' = "Idle" /\ checkResult' = NoRelease
    /\ update' = Parked /\ updateState' = "Idle" /\ pendingUpdate' = NoRelease
    /\ UNCHANGED proven

\* A crash, a watchdog, a brownout, or the restart that Wi-Fi supervision makes.
AnyReset == Reset

-----------------------------------------------------------------------------
(* setup() and loop() *)

confirmBoot == flash' = [flash EXCEPT ![running].state = "valid"]

\* The last thing in setup(): confirmRunningImage.
SetupEnds ==
    /\ phase = "setup" /\ flash[running].sound
    /\ phase' = "loop"
    /\ IF hasUnconfirmedUpdate THEN confirmBoot ELSE UNCHANGED flash
    /\ proven' = proven \cup {running}
    /\ UNCHANGED <<target, running, restart, activity, web, checkVars, updateVars>>

\* An image whose setup() does not run to its end.
SetupCrashes == phase = "setup" /\ ~flash[running].sound /\ Reset

\* loop() polls the deadline every 5 s.
checkRestart == phase = "loop" /\ restart /\ Reset

\* A settings route asks for a restart.
requestRestart ==
    /\ restart' = TRUE
    /\ UNCHANGED <<flashVars, activity, web, checkVars, updateVars>>

-----------------------------------------------------------------------------
(* The HTTP client both workers use.  An answer is the final status, a      *)
(* redirect with the kind of its Location, or nothing at all.               *)

Answers == {"200", "other status", "dropped",
            "to https", "to a relative path", "to cleartext", "to nowhere"}

isSecureRedirectPrefix(answer) == answer \in {"to https", "to a relative path"}

\* mutant: redirects are followed for ever
HopsForEver(worker, answer) ==
    IF answer = "200" THEN [worker EXCEPT !.pc = "body", !.hops = 0]
    ELSE IF isSecureRedirectPrefix(answer)
    THEN [worker EXCEPT !.hops = (@ + 1) % MaxHops]
    ELSE [worker EXCEPT !.pc = "failed", !.hops = 0]

\* One round of openWithRedirects.
openWithRedirects(worker, answer) ==
    IF answer = "200" THEN [worker EXCEPT !.pc = "body", !.hops = 0]
    ELSE IF isSecureRedirectPrefix(answer) /\ worker.hops + 1 < MaxHops
    THEN [worker EXCEPT !.hops = @ + 1]
    ELSE [worker EXCEPT !.pc = "failed", !.hops = 0]

-----------------------------------------------------------------------------
(* The check worker *)

CheckAt(pc) ==
    /\ check.pc = pc
    /\ UNCHANGED <<flashVars, restart, web, updateVars>>

\* The claim, the payload, the notification.
startBackgroundCheck ==
    /\ CheckAt("parked")
    /\ activity = "None"
    /\ activity' = "Checking"
    /\ checkState' = "InProgress" /\ checkResult' = NoRelease
    /\ check' = [check EXCEPT !.pc = "begin"]

\* checkForUpdate claims the slot unless its caller holds it already, and on
\* return gives back only a claim of its own.
CheckBegins ==
    /\ CheckAt("begin")
    /\ check' = [check EXCEPT !.pc = "hop", !.owned = activity = "None"]
    /\ activity' = IF activity = "None" THEN "Checking" ELSE activity
    /\ UNCHANGED <<checkState, checkResult>>

CheckHops ==
    /\ CheckAt("hop")
    /\ \E answer \in Answers : check' = openWithRedirects(check, answer)
    /\ UNCHANGED <<activity, checkState, checkResult>>

\* The release names a firmware.bin, or it is unusable.
CheckReads ==
    /\ CheckAt("body")
    /\ \/ \E release \in Releases : check' = [check EXCEPT !.pc = "done", !.info = release]
       \/ check' = [check EXCEPT !.pc = "failed"]
    /\ UNCHANGED <<activity, checkState, checkResult>>

\* mutant: a check returns the claim whoever holds it
ReturnsAnyClaim == "None"

ReturnedClaim == IF check.owned THEN "None" ELSE activity

CheckPublishes ==
    /\ check.pc \in {"done", "failed"} /\ CheckAt(check.pc)
    /\ checkState' = IF check.pc = "done" THEN "Done" ELSE "Failed"
    /\ checkResult' = check.info
    /\ activity' = ReturnedClaim
    /\ check' = [check EXCEPT !.pc = "release"]

CheckReleases ==
    /\ CheckAt("release")
    /\ activity' = "None" /\ check' = ParkedCheck
    /\ UNCHANGED <<checkState, checkResult>>

-----------------------------------------------------------------------------
(* The update worker *)

UpdateAt(pc) ==
    /\ update.pc = pc
    /\ UNCHANGED <<running, phase, web, checkVars, pendingUpdate>>

UpdateTo(pc) == update' = [update EXCEPT !.pc = pc]

UpdatePreflight ==
    /\ UpdateAt("preflight")
    /\ updateState' = "Downloading"
    /\ UpdateTo("hop") \/ UpdateTo("failed")
    /\ UNCHANGED <<flash, target, proven, restart, activity>>

UpdateHops ==
    /\ UpdateAt("hop")
    /\ \E answer \in Answers : update' = openWithRedirects(update, answer)
    /\ UNCHANGED <<flash, target, proven, restart, activity, updateState>>

\* The length fits and Update.begin succeeds, or not.
UpdateBegins ==
    /\ UpdateAt("body")
    /\ UpdateTo("write") \/ UpdateTo("failed")
    /\ UNCHANGED <<flash, target, proven, restart, activity, updateState>>

\* A chunk is read and written to the other partition.
UpdateWrites ==
    /\ update.pc \in {"write", "writing"} /\ UpdateAt(update.pc)
    /\ flash' = [flash EXCEPT ![Other(running)].complete = FALSE]
    /\ proven' = proven \ {Other(running)}
    /\ UpdateTo("writing")
    /\ UNCHANGED <<target, restart, activity, updateState>>

\* The connection is lost, or the flash write fails: Update.abort.
UpdateAborts ==
    /\ update.pc \in {"write", "writing"} /\ UpdateAt(update.pc)
    /\ UpdateTo("failed")
    /\ UNCHANGED <<flash, target, proven, restart, activity, updateState>>

\* Update.end verifies the image, makes it readable and selects it.
UpdateCompletes ==
    /\ UpdateAt("writing")
    /\ flash' = [flash EXCEPT ![Other(running)] =
                    [complete |-> TRUE, version |-> pendingUpdate.version,
                     sound |-> pendingUpdate.sound, state |-> "new"]]
    /\ target' = Other(running)
    /\ updateState' = "Pending"
    /\ UpdateTo("schedule")
    /\ UNCHANGED <<proven, restart, activity>>

UpdateFails ==
    /\ UpdateAt("failed")
    /\ updateState' = "Failed"
    /\ UpdateTo("release")
    /\ UNCHANGED <<flash, target, proven, restart, activity>>

UpdateSchedulesRestart ==
    /\ UpdateAt("schedule")
    /\ restart' = TRUE
    /\ UpdateTo("success")
    /\ UNCHANGED <<flash, target, proven, activity, updateState>>

UpdateSucceeds ==
    /\ UpdateAt("success")
    /\ updateState' = "Success"
    /\ UpdateTo("release")
    /\ UNCHANGED <<flash, target, proven, restart, activity>>

UpdateReleases ==
    /\ UpdateAt("release")
    /\ activity' = "None" /\ update' = Parked
    /\ UNCHANGED <<flash, target, proven, restart, updateState>>

-----------------------------------------------------------------------------
(* The routes that act.  All handlers run on the web server's one task, so  *)
(* between two steps of one only the other tasks move.                      *)

Bodies == {"none", "urlencoded true", "urlencoded other", "json true", "json other",
           "not json"}
AllowReinstall(body) == body \in {"urlencoded true", "json true"}

\* mutant: an update is accepted while the running image is unconfirmed
StartsUnconfirmed(allowReinstall) ==
    /\ checkState = "Done" /\ checkResult.valid
    /\ isReinstallOrNewer(flash[running].version, checkResult.version, allowReinstall)
    /\ web' = [pc |-> "claim", info |-> checkResult]

\* startBackgroundUpdateFromLatestCheck up to its tests: nothing is claimed yet.
startFromLatestCheck(allowReinstall) ==
    /\ checkState = "Done" /\ checkResult.valid
    /\ isReinstallOrNewer(flash[running].version, checkResult.version, allowReinstall)
    /\ ~hasUnconfirmedUpdate
    /\ web' = [pc |-> "claim", info |-> checkResult]

PostCheck == web.pc = "idle" /\ startBackgroundCheck

handleOtaUpdateStart(allowReinstall) ==
    /\ web.pc = "idle"
    /\ startFromLatestCheck(allowReinstall)
    /\ UNCHANGED <<flashVars, restart, activity, checkVars, updateVars>>

PostUpdate(body) == body # "not json" /\ handleOtaUpdateStart(AllowReinstall(body))

\* mutant: the state of the last update is shown until the worker runs
StartsSilently ==
    /\ web.pc = "claim"
    /\ web' = WebIdle
    /\ IF activity = "None"
       THEN /\ activity' = "Updating" /\ pendingUpdate' = web.info
            /\ update' = [update EXCEPT !.pc = "preflight"]
       ELSE UNCHANGED <<activity, update, pendingUpdate>>
    /\ UNCHANGED <<flashVars, restart, checkVars, updateState>>

\* startBackgroundUpdate: the claim, the payload, the notification.
startBackgroundUpdate ==
    /\ web.pc = "claim"
    /\ web' = WebIdle
    /\ IF activity = "None"
       THEN /\ activity' = "Updating"
            /\ pendingUpdate' = web.info
            /\ updateState' = "Downloading"
            /\ update' = [update EXCEPT !.pc = "preflight"]
       ELSE UNCHANGED <<activity, updateVars>>
    /\ UNCHANGED <<flashVars, restart, checkVars>>

OtherPartitionReadable == flash[Other(running)].complete

rollbackToOtherPartition ==
    /\ ~isUpdateInProgress /\ ~hasUnconfirmedUpdate
    /\ OtherPartitionReadable
    /\ target' = Other(running)
    /\ flash' = [flash EXCEPT ![Other(running)].state = "new"]
    /\ restart' = TRUE
    /\ UNCHANGED <<running, phase, proven, activity, web, checkVars, updateVars>>

PostRollback == web.pc = "idle" /\ rollbackToOtherPartition

\* POST /api/ota/confirm: the operator vouches for the running image.
PostConfirm ==
    /\ web.pc = "idle"
    /\ confirmBoot
    /\ proven' = proven \cup {running}
    /\ UNCHANGED <<target, running, phase, restart, activity, web, checkVars, updateVars>>

-----------------------------------------------------------------------------
(* What a client that polls is told.                                        *)

GetCheck ==
    [status |-> CASE checkState = "Idle" -> "idle"
                  [] checkState = "InProgress" -> "checking"
                  [] checkState = "Done" -> "done"
                  [] checkState = "Failed" -> "error",
     update_available |->
        /\ checkState = "Done" /\ checkResult.valid
        /\ compareVersions(flash[running].version, checkResult.version) = "newer",
     can_reinstall |->
        /\ checkState = "Done"
        /\ compareVersions(flash[running].version, checkResult.version) = "equal"]

GetUpdate ==
    CASE updateState = "Idle"        -> "idle"
      [] updateState = "Downloading" -> "downloading"
      [] updateState = "Pending"     -> "pending"
      [] updateState = "Success"     -> "success"
      [] updateState = "Failed"      -> "error"

\* The consolidated status names two of the states differently.
GetStatus ==
    [unconfirmed_update |-> hasUnconfirmedUpdate,
     check |-> [GetCheck EXCEPT !.status = CASE @ = "checking" -> "in_progress"
                                             [] @ = "error" -> "failed"
                                             [] OTHER -> @],
     update |-> GetUpdate]

-----------------------------------------------------------------------------
(* The device left the factory with an image in app0 that has booted.       *)
Init ==
    /\ flash = [p \in Partition |->
                   [complete |-> p = "app0", version |-> IF p = "app0" THEN Factory ELSE 0,
                    sound |-> p = "app0", state |-> "valid"]]
    /\ target = "app0" /\ running = "app0" /\ phase = "loop" /\ proven = {"app0"}
    /\ restart = FALSE /\ activity = "None" /\ web = WebIdle
    /\ check = ParkedCheck /\ checkState = "Idle" /\ checkResult = NoRelease
    /\ update = Parked /\ updateState = "Idle" /\ pendingUpdate = NoRelease

CheckWorker == CheckBegins \/ CheckHops \/ CheckReads \/ CheckPublishes \/ CheckReleases

UpdateWorker ==
    \/ UpdatePreflight \/ UpdateHops \/ UpdateBegins \/ UpdateWrites \/ UpdateAborts
    \/ UpdateCompletes \/ UpdateFails \/ UpdateSchedulesRestart \/ UpdateSucceeds
    \/ UpdateReleases

Web ==
    \/ PostCheck \/ startBackgroundUpdate
    \/ \E body \in Bodies : PostUpdate(body)
    \/ PostRollback \/ PostConfirm \/ requestRestart

MainTask == SetupEnds \/ SetupCrashes \/ checkRestart

Next == CheckWorker \/ UpdateWorker \/ Web \/ MainTask \/ AnyReset

Spec == Init /\ [][Next]_vars

\* Tasks are scheduled; a download does not go on for ever, because its length
\* is known and a read that makes no progress times out.
FairSpec ==
    /\ Spec /\ WF_vars(MainTask) /\ WF_vars(CheckWorker)
    /\ WF_vars(UpdateWorker) /\ SF_vars(UpdateAborts \/ UpdateCompletes)

-----------------------------------------------------------------------------
\* Whatever is going on, a reset at this moment starts an image that is
\* complete; and as long as the running image has not proved itself, that
\* image is the other one, and it has.  This is what the refusals of update
\* and rollback while an image is unconfirmed are for.
SurvivesReset ==
    LET f == Aborted(flash) IN
    /\ f[Booted(f)].complete
    /\ running \notin proven => Booted(f) = Other(running) /\ Other(running) \in proven

\* A worker at work holds the claim for its own kind of job, so the shared
\* redirect buffer, the payload and the flash have one user, although
\* checkForUpdate tries to claim a slot its caller holds already.
OneJobAtATime ==
    /\ check.pc # "parked" => activity = "Checking"
    /\ update.pc # "parked" => activity = "Updating"

\* A client that polls the status learns about the job it started: never the
\* outcome of an earlier one while the worker is busy, success only when the
\* restart that completes it is on its way; and only a release the check
\* reported as an update or as a reinstallation is taken up.
PollTellsTheTruth ==
    /\ update.pc \in {"preflight", "hop", "body", "write", "writing"}
         => GetStatus.update = "downloading"
    /\ GetStatus.update = "success" => restart
    /\ web.pc = "claim"
         => GetStatus.check.update_available \/ GetStatus.check.can_reinstall

\* Every update that was accepted ends, in a failure that is reported or in a
\* restart, however GitHub answers.
UpdateEnds == update.pc # "parked" ~> update.pc = "parked" /\ GetUpdate \in {"idle", "error"}

\* What "success" promises: the image the device restarts into is all there.
InstalledImageStays == flash[target].complete
-----------------------------------------------------------------------------
(* The inductive invariant behind them (FirmwareUpdateProofs).              *)

\* The claim and the workers go together; checkForUpdate never owns a claim.
ClaimMatchesJob ==
    /\ activity = "Checking" <=> check.pc # "parked"
    /\ activity = "Updating" <=> update.pc # "parked"
    /\ ~check.owned

\* What a poll reads follows the workers; an update waiting for its claim still
\* has the result it was judged by.
StatesFollowWorkers ==
    /\ check.pc \in {"begin", "hop", "body", "failed", "done"} => checkState = "InProgress"
    /\ update.pc \in {"preflight", "hop", "body", "write", "writing"}
         => updateState = "Downloading"
    /\ update.pc = "success" \/ updateState = "Success" => restart
    /\ web.pc = "claim" =>
         /\ checkState = "Done" /\ checkResult.valid
         /\ compareVersions(flash[running].version, checkResult.version) \in {"newer", "equal"}

\* The running image has proved itself, or the other one has and is the way back;
\* nothing is written to flash before the running image is confirmed.
WayBack ==
    LET other == Other(running) IN
    /\ flash[running].complete
    /\ \A p \in proven : flash[p].complete
    /\ \/ flash[running].state = "valid" /\ running \in proven
       \/ /\ flash[running].state = "pending" /\ target = running
          /\ flash[other].state = "valid" /\ other \in proven
    /\ web.pc = "claim" \/ update.pc # "parked" => flash[running].state = "valid"
    /\ target = other => flash[other].state \in {"new", "pending"}

IInv == TypeOK /\ ClaimMatchesJob /\ StatesFollowWorkers /\ WayBack
=============================================================================
