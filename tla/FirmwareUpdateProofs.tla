------------------------ MODULE FirmwareUpdateProofs ------------------------
(***************************************************************************)
(* Proofs about FirmwareUpdate for every set of releases, every factory    *)
(* version and every number of redirects.                                  *)
(***************************************************************************)
EXTENDS FirmwareUpdate, TLAPS

\* There are two partitions, and each is the other of the other.
LEMMA TwoPartitions ==
    /\ Partition = {"app0", "app1"}
    /\ Other("app0") = "app1" /\ Other("app1") = "app0"
<1>1. Other("app0") = "app1"
  <2>1. \E q \in Partition : q # "app0" BY DEF Partition
  <2> QED BY <2>1 DEF Partition, Other
<1>2. Other("app1") = "app0"
  <2>1. \E q \in Partition : q # "app1" BY DEF Partition
  <2> QED BY <2>1 DEF Partition, Other
<1> QED BY <1>1, <1>2 DEF Partition

LEMMA NoHops == 0 \in 0 .. MaxHops
BY MaxHopsAssumption

\* One answer ends a worker's download or moves it on, no further than MaxHops allows.
LEMMA CheckerAnswered ==
    ASSUME NEW x \in Checker, x.pc = "hop", NEW answer
    PROVE  /\ openWithRedirects(x, answer) \in Checker
           /\ openWithRedirects(x, answer).pc \in {"hop", "body", "failed"}
           /\ openWithRedirects(x, answer).owned = x.owned
<1>1. PICK y : y = openWithRedirects(x, answer) OBVIOUS
<1>2. y \in Checker
  <2>1. CASE y = [x EXCEPT !.pc = "body", !.hops = 0]
    BY <2>1, NoHops DEF Checker
  <2>2. CASE y = [x EXCEPT !.pc = "failed", !.hops = 0]
    BY <2>2, NoHops DEF Checker
  <2>3. CASE y = [x EXCEPT !.hops = @ + 1] /\ x.hops + 1 < MaxHops
    <3>1. x.hops + 1 \in 0 .. MaxHops
      BY <2>3, MaxHopsAssumption DEF Checker
    <3> QED BY <2>3, <3>1 DEF Checker
  <2> QED BY <1>1, <2>1, <2>2, <2>3 DEF openWithRedirects
<1>3. y.pc \in {"hop", "body", "failed"} /\ y.owned = x.owned
  BY <1>1 DEF openWithRedirects, Checker
<1> QED BY <1>1, <1>2, <1>3

LEMMA UpdaterAnswered ==
    ASSUME NEW x \in Updater, x.pc = "hop", NEW answer
    PROVE  /\ openWithRedirects(x, answer) \in Updater
           /\ openWithRedirects(x, answer).pc \in {"hop", "body", "failed"}
<1> USE DEF Updater
<1>1. PICK y : y = openWithRedirects(x, answer) OBVIOUS
<1>2. CASE y = [x EXCEPT !.pc = "body", !.hops = 0]
  BY <1>1, <1>2, NoHops
<1>3. CASE y = [x EXCEPT !.pc = "failed", !.hops = 0]
  BY <1>1, <1>3, NoHops
<1>4. CASE y = [x EXCEPT !.hops = @ + 1] /\ x.hops + 1 < MaxHops
  <2>1. x.hops + 1 \in 0 .. MaxHops
    BY <1>4, MaxHopsAssumption
  <2> QED BY <1>1, <1>4, <2>1
<1> QED BY <1>1, <1>2, <1>3, <1>4 DEF openWithRedirects

LEMMA InitInv == Init => IInv
<1> SUFFICES ASSUME Init PROVE IInv OBVIOUS
<1> USE DEF Init, ParkedCheck, Parked, WebIdle
<1>1. TypeOK
  <2>1. flash \in [Partition -> Image] /\ target \in Partition /\ running \in Partition
    BY ReleasesAssumption DEF Partition, Image
  <2>2. web \in WebTask /\ check \in Checker /\ update \in Updater
    BY MaxHopsAssumption DEF WebTask, Checker, Updater
  <2> QED BY <2>1, <2>2 DEF TypeOK, Activity, CheckState, UpdateState
<1>2. ClaimMatchesJob /\ StatesFollowWorkers
  BY DEF ClaimMatchesJob, StatesFollowWorkers
<1>3. WayBack
  BY TwoPartitions DEF WayBack
<1> QED BY <1>1, <1>2, <1>3 DEF IInv

\* The check worker touches neither the flash nor the update, and while it works the
\* claim is its own.
LEMMA CheckWorkerKeepsInv == IInv /\ CheckWorker => IInv'
<1> SUFFICES ASSUME IInv, CheckWorker PROVE IInv' OBVIOUS
<1>1. /\ UNCHANGED <<flash, target, running, phase, proven, restart, web,
                     update, updateState, pendingUpdate>>
      /\ check.pc # "parked" /\ activity = "Checking" /\ update.pc = "parked"
      /\ check \in Checker /\ ~check.owned
  BY DEF IInv, TypeOK, ClaimMatchesJob, CheckWorker, CheckBegins, CheckHops, CheckReads,
     CheckPublishes, CheckReleases, CheckAt, flashVars, updateVars
<1>2. /\ check' \in Checker /\ ~check'.owned
      /\ activity' = "Checking" <=> check'.pc # "parked"
      /\ activity' \in {"None", "Checking"}
      /\ check'.pc \in {"begin", "hop", "body", "failed", "done"} =>
            /\ check.pc \in {"begin", "hop", "body", "failed", "done"}
            /\ UNCHANGED <<checkState, checkResult>>
      /\ \/ UNCHANGED <<checkState, checkResult>>
         \/ checkState' \in {"Done", "Failed"} /\ checkResult' = check.info
            /\ check.pc \in {"done", "failed"}
  <2>1. CASE CheckBegins
    BY <2>1, <1>1 DEF CheckBegins, CheckAt, Checker
  <2>2. CASE CheckHops
    BY <2>2, <1>1, CheckerAnswered DEF CheckHops, CheckAt
  <2>3. CASE CheckReads
    BY <2>3, <1>1 DEF CheckReads, CheckAt, Checker
  <2>4. CASE CheckPublishes
    BY <2>4, <1>1 DEF CheckPublishes, CheckAt, Checker, ReturnedClaim
  <2>5. CASE CheckReleases
    BY <2>5, <1>1, NoHops DEF CheckReleases, CheckAt, Checker, ParkedCheck
  <2> QED BY <2>1, <2>2, <2>3, <2>4, <2>5 DEF CheckWorker
<1>3. TypeOK'
  BY <1>1, <1>2 DEF IInv, TypeOK, Activity, CheckState, Checker
<1>4. ClaimMatchesJob'
  BY <1>1, <1>2 DEF ClaimMatchesJob
<1>5. StatesFollowWorkers'
  BY <1>1, <1>2 DEF IInv, StatesFollowWorkers
<1>6. WayBack'
  BY <1>1 DEF IInv, WayBack
<1> QED BY <1>3, <1>4, <1>5, <1>6 DEF IInv

\* A step of the update worker that leaves the flash and the boot partition alone.
LEMMA UpdateWorkerKeepsClaim ==
    ASSUME IInv, UpdateWorker
    PROVE  /\ UNCHANGED <<running, phase, web, check, checkState, checkResult, pendingUpdate>>
           /\ update.pc # "parked" /\ activity = "Updating" /\ check.pc = "parked"
           /\ flash[running].state = "valid"
           /\ update' \in Updater
           /\ activity' = "Updating" <=> update'.pc # "parked"
           /\ activity' \in {"None", "Updating"}
           /\ updateState' \in UpdateState /\ restart' \in BOOLEAN
           /\ restart => restart'
<1>1. /\ UNCHANGED <<running, phase, web, check, checkState, checkResult, pendingUpdate>>
      /\ update.pc # "parked" /\ activity = "Updating" /\ check.pc = "parked"
      /\ update \in Updater
  BY DEF IInv, TypeOK, ClaimMatchesJob, UpdateWorker, UpdatePreflight, UpdateHops,
     UpdateBegins, UpdateWrites, UpdateAborts, UpdateCompletes, UpdateFails,
     UpdateSchedulesRestart, UpdateSucceeds, UpdateReleases, UpdateAt, checkVars
<1>2. /\ update' \in Updater
      /\ activity' = "Updating" <=> update'.pc # "parked"
      /\ activity' \in {"None", "Updating"}
  <2>1. CASE UpdateHops
    BY <2>1, <1>1, UpdaterAnswered DEF UpdateHops, UpdateAt
  <2>2. CASE UpdateReleases
    BY <2>2, NoHops DEF UpdateReleases, Parked, Updater
  <2>3. CASE ~UpdateHops /\ ~UpdateReleases
    BY <2>3, <1>1 DEF UpdateWorker, UpdatePreflight, UpdateBegins, UpdateWrites,
       UpdateAborts, UpdateCompletes, UpdateFails, UpdateSchedulesRestart, UpdateSucceeds,
       UpdateTo, Updater
  <2> QED BY <2>1, <2>2, <2>3
<1>3. updateState' \in UpdateState /\ restart' \in BOOLEAN /\ (restart => restart')
  BY DEF IInv, TypeOK, UpdateState, UpdateWorker, UpdatePreflight, UpdateHops,
     UpdateBegins, UpdateWrites, UpdateAborts, UpdateCompletes, UpdateFails,
     UpdateSchedulesRestart, UpdateSucceeds, UpdateReleases
<1> QED BY <1>1, <1>2, <1>3 DEF IInv, WayBack

LEMMA AnyRelease ==
    ASSUME NEW release \in Releases \cup {NoRelease}
    PROVE  release.version \in Nat /\ release.sound \in BOOLEAN
<1>1. CASE release \in Releases
  BY <1>1, ReleasesAssumption DEF Release
<1>2. CASE release = NoRelease
  <2>1. 0 \in Nat OBVIOUS
  <2> QED BY <1>2, <2>1 DEF NoRelease
<1> QED BY <1>1, <1>2

\* Writing one partition leaves the other one as it is.
LEMMA PartitionWritten ==
    ASSUME NEW f \in [Partition -> Image], NEW p \in Partition, NEW image \in Image, NEW g,
           g = [f EXCEPT ![p] = image]
    PROVE  /\ g \in [Partition -> Image]
           /\ g[p] = image /\ g[Other(p)] = f[Other(p)]
           /\ Other(p) \in Partition /\ Other(p) # p /\ Other(Other(p)) = p
           /\ \A q \in Partition : q = p \/ q = Other(p)
BY TwoPartitions

\* What the update worker does to the flash: it writes the partition that is not running,
\* and what it selects for the next boot is new.
LEMMA UpdateWorkerWritesOther ==
    ASSUME IInv, UpdateWorker
    PROVE  /\ flash' \in [Partition -> Image]
           /\ flash'[running] = flash[running]
           /\ target' \in Partition /\ proven' \subseteq Partition
           /\ running \in proven <=> running \in proven'
           /\ Other(running) \in proven' => /\ Other(running) \in proven
                                            /\ flash[Other(running)].complete
                                                  => flash'[Other(running)].complete
           /\ \/ target' = target /\ flash'[Other(running)].state = flash[Other(running)].state
              \/ target' = Other(running) /\ flash'[Other(running)].state = "new"
<1> DEFINE other == Other(running)
<1>1. /\ flash \in [Partition -> Image] /\ running \in Partition /\ proven \subseteq Partition
      /\ target \in Partition /\ other \in Partition /\ other # running
      /\ pendingUpdate \in Releases \cup {NoRelease}
  BY TwoPartitions DEF IInv, TypeOK
<1>2. CASE UpdateWrites
  <2> DEFINE image == [flash[other] EXCEPT !.complete = FALSE]
  <2>1. image \in Image /\ image.state = flash[other].state
    BY <1>1 DEF Image
  <2>2. flash' = [flash EXCEPT ![other] = image] /\ proven' = proven \ {other}
        /\ target' = target
    BY <1>2 DEF UpdateWrites
  <2> HIDE DEF image
  <2> QED BY <1>1, <2>1, <2>2
<1>3. CASE UpdateCompletes
  <2> DEFINE image == [complete |-> TRUE, version |-> pendingUpdate.version,
                       sound |-> pendingUpdate.sound, state |-> "new"]
  <2>1. image \in Image /\ image.state = "new" /\ image.complete
    BY <1>1, AnyRelease DEF Image
  <2>2. flash' = [flash EXCEPT ![other] = image] /\ proven' = proven /\ target' = other
    BY <1>3 DEF UpdateCompletes
  <2> HIDE DEF image
  <2> QED BY <1>1, <2>1, <2>2
<1>4. CASE UNCHANGED <<flash, target, proven>>
  BY <1>1, <1>4
<1> QED BY <1>2, <1>3, <1>4 DEF UpdateWorker, UpdatePreflight, UpdateHops, UpdateBegins,
      UpdateAborts, UpdateFails, UpdateSchedulesRestart, UpdateSucceeds, UpdateReleases

\* What a poll reads follows the update worker.
LEMMA UpdateWorkerIsReported ==
    ASSUME IInv, UpdateWorker
    PROVE  /\ update'.pc \in {"preflight", "hop", "body", "write", "writing"}
                => updateState' = "Downloading"
           /\ update'.pc = "success" \/ updateState' = "Success" => restart'
<1>1. /\ update \in Updater /\ update.pc # "parked"
      /\ update.pc \in {"preflight", "hop", "body", "write", "writing"}
           => updateState = "Downloading"
      /\ update.pc = "success" \/ updateState = "Success" => restart
  BY UpdateWorkerKeepsClaim DEF IInv, TypeOK, StatesFollowWorkers
<1>2. CASE UpdateHops
  BY <1>1, <1>2, UpdaterAnswered DEF UpdateHops, UpdateAt
<1>3. CASE UpdateReleases
  BY <1>1, <1>3 DEF UpdateReleases, Parked
<1>4. CASE ~UpdateHops /\ ~UpdateReleases
  BY <1>1, <1>4 DEF UpdateWorker, UpdatePreflight, UpdateBegins, UpdateWrites, UpdateAborts,
     UpdateCompletes, UpdateFails, UpdateSchedulesRestart, UpdateSucceeds, UpdateAt, UpdateTo,
     Updater
<1> QED BY <1>2, <1>3, <1>4

LEMMA UpdateWorkerKeepsInv == IInv /\ UpdateWorker => IInv'
<1> SUFFICES ASSUME IInv, UpdateWorker PROVE IInv' OBVIOUS
<1>1. TypeOK'
  BY UpdateWorkerKeepsClaim, UpdateWorkerWritesOther DEF IInv, TypeOK, Activity
<1>2. ClaimMatchesJob'
  BY UpdateWorkerKeepsClaim DEF IInv, ClaimMatchesJob
<1>3. StatesFollowWorkers'
  BY UpdateWorkerKeepsClaim, UpdateWorkerWritesOther, UpdateWorkerIsReported
     DEF IInv, StatesFollowWorkers
<1>4. WayBack'
  <2>1. \A p \in Partition : p = running \/ p = Other(running)
    BY TwoPartitions DEF IInv, TypeOK
  <2>2. running' = running BY UpdateWorkerKeepsClaim
  <2>3. flash[running].state = "valid" BY UpdateWorkerKeepsClaim
  <2>4. /\ flash[running].complete
        /\ \A p \in proven : flash[p].complete
        /\ running \in proven
        /\ target = Other(running) => flash[Other(running)].state \in {"new", "pending"}
    BY <2>3 DEF IInv, WayBack
  <2>5. \A p \in proven' : flash'[p].complete
    BY <2>1, <2>4, UpdateWorkerWritesOther
  <2> QED BY <2>2, <2>3, <2>4, <2>5, UpdateWorkerWritesOther DEF WayBack
<1> QED BY <1>1, <1>2, <1>3, <1>4 DEF IInv

\* The running image is confirmed, by the end of setup() or by the operator.
LEMMA ConfirmKeepsInv ==
    ASSUME IInv, confirmBoot \/ (UNCHANGED flash /\ ~hasUnconfirmedUpdate),
           proven' = proven \cup {running}, phase' \in {"setup", "loop"},
           UNCHANGED <<target, running, restart, activity, web, check, checkState, checkResult,
                       update, updateState, pendingUpdate>>
    PROVE  IInv'
<1> DEFINE image == [flash[running] EXCEPT !.state = "valid"]
<1>1. /\ TypeOK /\ ClaimMatchesJob /\ StatesFollowWorkers /\ WayBack
      /\ flash \in [Partition -> Image] /\ running \in Partition /\ proven \subseteq Partition
      /\ Other(running) \in Partition /\ Other(running) # running
  BY TwoPartitions DEF IInv, TypeOK
<1>2. image \in Image /\ image.state = "valid" /\ image.complete = flash[running].complete
      /\ image.version = flash[running].version
  BY <1>1 DEF Image
<1>3. flash' = [flash EXCEPT ![running] = image] \/ (flash' = flash /\ ~hasUnconfirmedUpdate)
  BY DEF confirmBoot
<1> HIDE DEF image
<1>4. /\ flash' \in [Partition -> Image] /\ flash'[running].state = "valid"
      /\ flash'[running].version = flash[running].version
      /\ \A p \in Partition : flash'[p].complete = flash[p].complete
      /\ flash'[Other(running)] = flash[Other(running)]
  <2>1. CASE flash' = [flash EXCEPT ![running] = image]
    BY <1>1, <1>2, <2>1
  <2>2. CASE flash' = flash /\ ~hasUnconfirmedUpdate
    BY <1>1, <2>2 DEF WayBack, hasUnconfirmedUpdate
  <2> QED BY <1>3, <2>1, <2>2
<1>5. TypeOK' BY <1>1, <1>4 DEF TypeOK
<1>6. ClaimMatchesJob' BY <1>1 DEF ClaimMatchesJob
<1>7. StatesFollowWorkers' BY <1>1, <1>4 DEF StatesFollowWorkers
<1>8. WayBack' BY <1>1, <1>4 DEF WayBack
<1> QED BY <1>5, <1>6, <1>7, <1>8 DEF IInv

\* The steps of the web task.
LEMMA WebKeepsInv == IInv /\ Web => IInv'
<1> SUFFICES ASSUME IInv, Web PROVE IInv' OBVIOUS
<1>0. /\ TypeOK /\ ClaimMatchesJob /\ StatesFollowWorkers /\ WayBack
      /\ flash \in [Partition -> Image] /\ running \in Partition /\ target \in Partition
      /\ check \in Checker /\ update \in Updater /\ web \in WebTask
      /\ NoRelease \in Releases \cup {NoRelease}
  BY DEF IInv, TypeOK
<1>1. CASE PostCheck
  <2>1. check' \in Checker /\ check'.pc = "begin" /\ check'.owned = check.owned
        /\ check.pc = "parked" /\ activity = "None" /\ activity' = "Checking"
        /\ checkState' = "InProgress" /\ checkResult' = NoRelease /\ web.pc = "idle"
        /\ UNCHANGED <<flash, target, running, phase, proven, restart, web,
                       update, updateState, pendingUpdate>>
    BY <1>0, <1>1 DEF PostCheck, startBackgroundCheck, CheckAt, Checker, flashVars, updateVars
  <2>2. TypeOK' BY <1>0, <2>1 DEF TypeOK, Activity, CheckState
  <2>3. ClaimMatchesJob' BY <1>0, <2>1 DEF ClaimMatchesJob
  <2>4. StatesFollowWorkers' BY <1>0, <2>1 DEF StatesFollowWorkers
  <2>5. WayBack' BY <1>0, <2>1 DEF WayBack
  <2> QED BY <2>2, <2>3, <2>4, <2>5 DEF IInv
<1>2. CASE startBackgroundUpdate
  <2>1. web.pc = "claim" /\ web' = WebIdle /\ web' \in WebTask /\ web.info \in Releases \cup {NoRelease}
        /\ UNCHANGED <<flash, target, running, phase, proven, restart,
                       check, checkState, checkResult>>
    BY <1>0, <1>2 DEF startBackgroundUpdate, flashVars, checkVars, WebTask, WebIdle
  <2>2. \/ UNCHANGED <<activity, update, updateState, pendingUpdate>>
        \/ /\ activity = "None" /\ activity' = "Updating"
           /\ pendingUpdate' = web.info /\ updateState' = "Downloading"
           /\ update' \in Updater /\ update'.pc = "preflight"
    BY <1>0, <1>2 DEF startBackgroundUpdate, updateVars, Updater
  <2>3. TypeOK' BY <1>0, <2>1, <2>2 DEF TypeOK, Activity, UpdateState
  <2>4. ClaimMatchesJob' BY <1>0, <2>1, <2>2 DEF ClaimMatchesJob
  <2>5. StatesFollowWorkers' BY <1>0, <2>1, <2>2 DEF StatesFollowWorkers, WebIdle
  <2>6. WayBack' BY <1>0, <2>1, <2>2 DEF WayBack, WebIdle
  <2> QED BY <2>3, <2>4, <2>5, <2>6 DEF IInv
<1>3. CASE \E body \in Bodies : PostUpdate(body)
  <2>1. PICK allow : handleOtaUpdateStart(allow)
    <3>1. PICK body \in Bodies : PostUpdate(body) BY <1>3
    <3> QED BY <3>1 DEF PostUpdate
  <2>2. /\ checkState = "Done" /\ checkResult.valid /\ ~hasUnconfirmedUpdate
        /\ compareVersions(flash[running].version, checkResult.version) \in {"newer", "equal"}
        /\ web' = [pc |-> "claim", info |-> checkResult]
        /\ UNCHANGED <<flash, target, running, phase, proven, restart, activity, check,
                       checkState, checkResult, update, updateState, pendingUpdate>>
    BY <2>1 DEF handleOtaUpdateStart, startFromLatestCheck, isReinstallOrNewer, flashVars,
       checkVars, updateVars
  <2>3. TypeOK' BY <1>0, <2>2 DEF TypeOK, WebTask
  <2>4. ClaimMatchesJob' BY <1>0, <2>2 DEF ClaimMatchesJob
  <2>5. StatesFollowWorkers' BY <1>0, <2>2 DEF StatesFollowWorkers
  <2>6. WayBack' BY <1>0, <2>2 DEF WayBack, hasUnconfirmedUpdate
  <2> QED BY <2>3, <2>4, <2>5, <2>6 DEF IInv
<1>4. CASE PostRollback
  <2> DEFINE other == Other(running)
             image == [flash[other] EXCEPT !.state = "new"]
  <2>1. other \in Partition /\ flash[other] \in Image
    BY <1>0, TwoPartitions
  <2>2. image \in Image /\ image.state = "new" /\ image.complete = flash[other].complete
    BY <2>1 DEF Image
  <2>3. /\ flash' = [flash EXCEPT ![other] = image] /\ target' = other /\ restart' = TRUE
        /\ activity = "None" /\ ~hasUnconfirmedUpdate /\ web.pc = "idle"
        /\ UNCHANGED <<running, phase, proven, activity, web, check, checkState, checkResult,
                       update, updateState, pendingUpdate>>
    BY <1>4 DEF PostRollback, rollbackToOtherPartition, isUpdateInProgress, checkVars, updateVars
  <2> HIDE DEF image
  <2>4. /\ flash' \in [Partition -> Image] /\ flash'[other] = image
        /\ flash'[running] = flash[running]
        /\ \A p \in Partition : flash'[p].complete = flash[p].complete
    BY <1>0, <2>1, <2>2, <2>3, TwoPartitions
  <2> HIDE DEF other
  <2>5. TypeOK' BY <1>0, <2>1, <2>3, <2>4 DEF TypeOK
  <2>6. ClaimMatchesJob' BY <1>0, <2>3 DEF ClaimMatchesJob
  <2>7. StatesFollowWorkers' BY <1>0, <2>3 DEF StatesFollowWorkers
  <2>8. WayBack'
    <3>1. flash[running].state = "valid" /\ running \in proven /\ proven \subseteq Partition
      BY <1>0, <2>3 DEF WayBack, hasUnconfirmedUpdate, TypeOK
    <3> QED BY <1>0, <2>2, <2>3, <2>4, <3>1 DEF WayBack, other
  <2> QED BY <2>5, <2>6, <2>7, <2>8 DEF IInv
<1>5. CASE PostConfirm
  <2>1. /\ confirmBoot /\ proven' = proven \cup {running}
        /\ UNCHANGED <<target, running, restart, activity, web, check,
                       checkState, checkResult, update, updateState, pendingUpdate>>
        /\ phase' \in {"setup", "loop"} /\ web.pc = "idle"
    BY <1>0, <1>5 DEF PostConfirm, checkVars, updateVars, TypeOK
  <2> QED BY <2>1, ConfirmKeepsInv
<1>6. CASE requestRestart
  <2>1. /\ restart' = TRUE
        /\ UNCHANGED <<flash, target, running, phase, proven, activity, web, check,
                       checkState, checkResult, update, updateState, pendingUpdate>>
    BY <1>6 DEF requestRestart, flashVars, checkVars, updateVars
  <2>2. TypeOK' BY <1>0, <2>1 DEF TypeOK
  <2>3. ClaimMatchesJob' BY <1>0, <2>1 DEF ClaimMatchesJob
  <2>4. StatesFollowWorkers' BY <1>0, <2>1 DEF StatesFollowWorkers
  <2>5. WayBack' BY <1>0, <2>1 DEF WayBack
  <2> QED BY <2>2, <2>3, <2>4, <2>5 DEF IInv
<1> QED BY <1>1, <1>2, <1>3, <1>4, <1>5, <1>6 DEF Web

\* What the bootloader finds: an unconfirmed image is aborted, the other one is as it was.
LEMMA AbortedFlash ==
    ASSUME NEW f \in [Partition -> Image]
    PROVE  /\ Aborted(f) \in [Partition -> Image]
           /\ \A p \in Partition :
                /\ Aborted(f)[p].complete = f[p].complete
                /\ f[p].state = "pending" => Aborted(f)[p].state = "aborted"
                /\ f[p].state # "pending" => Aborted(f)[p].state = f[p].state
<1>1. \A p \in Partition :
         /\ Aborted(f)[p] \in Image
         /\ Aborted(f)[p].complete = f[p].complete
         /\ f[p].state = "pending" => Aborted(f)[p].state = "aborted"
         /\ f[p].state # "pending" => Aborted(f)[p].state = f[p].state
  <2> SUFFICES ASSUME NEW p \in Partition
               PROVE  /\ Aborted(f)[p] \in Image
                      /\ Aborted(f)[p].complete = f[p].complete
                      /\ f[p].state = "pending" => Aborted(f)[p].state = "aborted"
                      /\ f[p].state # "pending" => Aborted(f)[p].state = f[p].state
    OBVIOUS
  <2>1. Aborted(f)[p] =
           [f[p] EXCEPT !.state = IF f[p].state = "pending" THEN "aborted" ELSE f[p].state]
    BY DEF Aborted
  <2>2. f[p] \in Image OBVIOUS
  <2> QED BY <2>1, <2>2 DEF Image
<1>2. \E g : Aborted(f) = [p \in Partition |-> g[p]]
  <2>1. Aborted(f) = [p \in Partition |-> Aborted(f)[p]]
    BY DEF Aborted
  <2> QED BY <2>1
<1> QED BY <1>1, <1>2

\* Where a reset leads: to the image that was running, or past it to the other one, which
\* is complete and confirmed; or to the other one for its first start, and the one that was
\* running stays the way back.
LEMMA ResetBoots ==
    ASSUME IInv, NEW f, f = Aborted(flash)
    PROVE  LET s == Selected(f)
               b == Booted(f)
               o == Other(running)
           IN /\ s \in Partition /\ b \in Partition
              /\ \/ /\ running \in proven /\ s = running /\ b = running
                    /\ f[running].state = "valid"
                 \/ /\ running \in proven /\ s = o /\ f[running].state = "valid"
                    /\ f[o].state = "new" /\ (b = o <=> f[o].complete)
                    /\ b = o \/ b = running
                 \/ s = o /\ b = o /\ o \in proven /\ f[o].state = "valid"
<1> DEFINE o == Other(running)
<1>1. /\ flash \in [Partition -> Image] /\ running \in Partition /\ target \in Partition
      /\ o \in Partition /\ o # running /\ Other(o) = running
      /\ target = running \/ target = o
  BY TwoPartitions DEF IInv, TypeOK
<1>2. /\ flash[running].complete
      /\ \A p \in proven : flash[p].complete
      /\ \/ flash[running].state = "valid" /\ running \in proven
         \/ /\ flash[running].state = "pending" /\ target = running
            /\ flash[o].state = "valid" /\ o \in proven
      /\ target = o => flash[o].state \in {"new", "pending"}
  BY DEF IInv, WayBack
<1>3. \A p \in Partition :
         /\ f[p].complete = flash[p].complete
         /\ flash[p].state = "pending" => f[p].state = "aborted"
         /\ flash[p].state # "pending" => f[p].state = flash[p].state
  BY <1>1, AbortedFlash
<1> HIDE DEF o
<1>4. CASE flash[running].state = "pending"
  <2>1. Selected(f) = o
    BY <1>1, <1>2, <1>3, <1>4 DEF Selected, o
  <2>2. Booted(f) = o
    BY <1>1, <1>2, <1>3, <1>4, <2>1 DEF Booted
  <2> QED BY <1>1, <1>2, <1>3, <1>4, <2>1, <2>2 DEF o
<1>5. CASE flash[running].state = "valid" /\ running \in proven
  <2>1. CASE target = running
    <3>1. Selected(f) = running BY <1>1, <1>3, <1>5, <2>1 DEF Selected
    <3>2. Booted(f) = running BY <1>1, <1>2, <1>3, <3>1 DEF Booted
    <3> QED BY <1>1, <1>3, <1>5, <3>1, <3>2
  <2>2. CASE target = o /\ flash[o].state = "pending"
    <3>1. Selected(f) = running BY <1>1, <1>3, <2>2 DEF Selected
    <3>2. Booted(f) = running BY <1>1, <1>2, <1>3, <3>1 DEF Booted
    <3> QED BY <1>1, <1>3, <1>5, <3>1, <3>2
  <2>3. CASE target = o /\ flash[o].state = "new"
    <3>1. Selected(f) = o BY <1>1, <1>3, <2>3 DEF Selected
    <3>2. Booted(f) = IF f[o].complete THEN o ELSE running BY <1>1, <3>1 DEF Booted
    <3> QED BY <1>1, <1>3, <1>5, <2>3, <3>1, <3>2 DEF o
  <2> QED BY <1>1, <1>2, <2>1, <2>2, <2>3
<1> QED BY <1>2, <1>4, <1>5

LEMMA ResetKeepsInv == IInv /\ Reset => IInv'
<1> SUFFICES ASSUME IInv, Reset PROVE IInv' OBVIOUS
<1> DEFINE f == Aborted(flash)
           s == Selected(f)
           b == Booted(f)
           o == Other(running)
           image == [f[s] EXCEPT !.state = IF f[s].state = "new" THEN "pending" ELSE f[s].state]
<1>1. /\ target' = s /\ running' = b /\ flash' = [f EXCEPT ![s] = image]
      /\ phase' = "setup" /\ restart' = FALSE /\ activity' = "None" /\ web' = WebIdle
      /\ check' = ParkedCheck /\ checkState' = "Idle" /\ checkResult' = NoRelease
      /\ update' = Parked /\ updateState' = "Idle" /\ pendingUpdate' = NoRelease
      /\ proven' = proven
  BY DEF Reset
<1>2. /\ flash \in [Partition -> Image] /\ f \in [Partition -> Image]
      /\ \A p \in Partition : f[p].complete = flash[p].complete
      /\ running \in Partition /\ o \in Partition /\ o # running /\ Other(o) = running
      /\ proven \subseteq Partition /\ \A p \in proven : flash[p].complete
      /\ flash[running].complete
  BY TwoPartitions, AbortedFlash DEF IInv, TypeOK, WayBack
<1>3. /\ s \in Partition /\ b \in Partition
      /\ \/ running \in proven /\ s = running /\ b = running /\ f[running].state = "valid"
         \/ /\ running \in proven /\ s = o /\ f[running].state = "valid"
            /\ f[o].state = "new" /\ (b = o <=> f[o].complete) /\ (b = o \/ b = running)
         \/ s = o /\ b = o /\ o \in proven /\ f[o].state = "valid"
  BY ResetBoots
<1> HIDE DEF f, s, b, o
<1>4. /\ image \in Image /\ image.complete = f[s].complete
      /\ f[s].state = "new" => image.state = "pending"
      /\ f[s].state # "new" => image.state = f[s].state
  <2>1. f[s] \in Image BY <1>2, <1>3
  <2> QED BY <2>1 DEF Image
<1> HIDE DEF image
<1>5. /\ flash' \in [Partition -> Image] /\ flash'[s] = image
      /\ \A p \in Partition : flash'[p].complete = flash[p].complete
      /\ \A p \in Partition : p # s => flash'[p] = f[p]
  BY <1>1, <1>2, <1>3, <1>4
<1>6. TypeOK'
  <2>1. web' \in WebTask /\ check' \in Checker /\ update' \in Updater
    BY <1>1, NoHops DEF WebTask, Checker, Updater, WebIdle, ParkedCheck, Parked
  <2> QED BY <1>1, <1>2, <1>3, <1>5, <2>1 DEF TypeOK, Activity, CheckState, UpdateState
<1>7. ClaimMatchesJob'
  BY <1>1 DEF ClaimMatchesJob, ParkedCheck, Parked
<1>8. StatesFollowWorkers'
  BY <1>1 DEF StatesFollowWorkers, ParkedCheck, Parked, WebIdle
<1>9. WayBack'
  <2>1. web'.pc # "claim" /\ update'.pc = "parked"
    BY <1>1 DEF WebIdle, Parked
  <2>2. \A p \in proven' : flash'[p].complete
    BY <1>1, <1>2, <1>5
  <2>3. CASE s = running /\ b = running /\ running \in proven /\ f[running].state = "valid"
    BY <1>1, <1>2, <1>4, <1>5, <2>1, <2>2, <2>3 DEF WayBack, o
  <2>4. CASE /\ s = o /\ b = o /\ f[o].state = "new" /\ f[o].complete
             /\ running \in proven /\ f[running].state = "valid"
    BY <1>1, <1>2, <1>4, <1>5, <2>1, <2>2, <2>4 DEF WayBack
  <2>5. CASE /\ s = o /\ b = running /\ f[o].state = "new"
             /\ running \in proven /\ f[running].state = "valid"
    BY <1>1, <1>2, <1>4, <1>5, <2>1, <2>2, <2>5 DEF WayBack, o
  <2>6. CASE s = o /\ b = o /\ o \in proven /\ f[o].state = "valid"
    BY <1>1, <1>2, <1>4, <1>5, <2>1, <2>2, <2>6 DEF WayBack
  <2> QED BY <1>3, <1>2, <2>3, <2>4, <2>5, <2>6
<1> QED BY <1>6, <1>7, <1>8, <1>9 DEF IInv

LEMMA MainTaskKeepsInv == IInv /\ MainTask => IInv'
<1> SUFFICES ASSUME IInv, MainTask PROVE IInv' OBVIOUS
<1>1. CASE SetupEnds
  <2>1. /\ confirmBoot \/ (UNCHANGED flash /\ ~hasUnconfirmedUpdate)
        /\ proven' = proven \cup {running} /\ phase' \in {"setup", "loop"}
        /\ UNCHANGED <<target, running, restart, activity, web, check, checkState, checkResult,
                       update, updateState, pendingUpdate>>
    BY <1>1 DEF SetupEnds, checkVars, updateVars
  <2> QED BY <2>1, ConfirmKeepsInv
<1>2. CASE SetupCrashes \/ checkRestart
  BY <1>2, ResetKeepsInv DEF SetupCrashes, checkRestart
<1> QED BY <1>1, <1>2 DEF MainTask

\* The inductive invariant: types, the claim, what is polled and the way back together.
THEOREM Invariance == Spec => []IInv
<1>1. IInv /\ [Next]_vars => IInv'
  <2> SUFFICES ASSUME IInv, [Next]_vars PROVE IInv' OBVIOUS
  <2>1. CASE UNCHANGED vars
    BY <2>1 DEF vars, flashVars, checkVars, updateVars, IInv, TypeOK, ClaimMatchesJob,
       StatesFollowWorkers, WayBack
  <2> QED BY <2>1, CheckWorkerKeepsInv, UpdateWorkerKeepsInv, WebKeepsInv, MainTaskKeepsInv,
        ResetKeepsInv DEF Next, AnyReset
<1> QED BY <1>1, InitInv, PTL DEF Spec

\* Every reachable state is well typed.
THEOREM TypeCorrect == Spec => []TypeOK
<1>1. IInv => TypeOK BY DEF IInv
<1> QED BY <1>1, Invariance, PTL

\* One job at a time uses the shared buffer, the payload and the flash, whatever
\* GitHub answers and whenever clients post.
THEOREM JobsExclude == Spec => []OneJobAtATime
<1>1. IInv => OneJobAtATime BY DEF IInv, ClaimMatchesJob, OneJobAtATime
<1> QED BY <1>1, Invariance, PTL

\* A polling client is never told the outcome of an earlier job, nor of a success without
\* the restart that completes it.
THEOREM PollIsTrue == Spec => []PollTellsTheTruth
<1>1. IInv => PollTellsTheTruth
  <2> SUFFICES ASSUME IInv PROVE PollTellsTheTruth OBVIOUS
  <2>1. updateState \in UpdateState BY DEF IInv, TypeOK
  <2>2. /\ GetStatus.update = GetUpdate
        /\ GetStatus.check.update_available = GetCheck.update_available
        /\ GetStatus.check.can_reinstall = GetCheck.can_reinstall
    BY DEF GetStatus, GetCheck
  <2>3. updateState = "Downloading" => GetUpdate = "downloading"
    BY DEF GetUpdate
  <2>4. GetUpdate = "success" => updateState = "Success"
    BY <2>1 DEF GetUpdate, UpdateState
  <2>5. web.pc = "claim" => GetCheck.update_available \/ GetCheck.can_reinstall
    BY DEF IInv, StatesFollowWorkers, GetCheck
  <2> QED BY <2>2, <2>3, <2>4, <2>5 DEF IInv, StatesFollowWorkers, PollTellsTheTruth
<1> QED BY <1>1, Invariance, PTL

\* A reset at any moment, of a download, of a first start or of a rollback, starts a
\* complete image, and past an image that has not proved itself one that has.
THEOREM ResetIsSurvived == Spec => []SurvivesReset
<1>1. IInv => SurvivesReset
  <2> SUFFICES ASSUME IInv PROVE SurvivesReset OBVIOUS
  <2>1. /\ flash \in [Partition -> Image] /\ running \in Partition
        /\ Other(running) \in Partition
        /\ \A p \in proven : flash[p].complete
        /\ flash[running].complete
    BY TwoPartitions DEF IInv, TypeOK, WayBack
  <2>2. \A p \in Partition : Aborted(flash)[p].complete = flash[p].complete
    BY <2>1, AbortedFlash
  <2> QED BY <2>1, <2>2, ResetBoots DEF SurvivesReset
<1> QED BY <1>1, Invariance, PTL
=============================================================================
