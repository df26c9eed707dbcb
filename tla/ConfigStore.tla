---------------------------- MODULE ConfigStore ----------------------------
(***************************************************************************)
(* ConfigManager (src/Config.h, src/Config.cpp) as the tasks of a          *)
(* single-core device use it: one Preferences handle without a lock, the   *)
(* DeviceConfig cache behind a spinlock, and a preemptive scheduler that    *)
(* runs the highest-priority task that wants to run.  Each operation is a   *)
(* sequence of accesses to what is shared; between any two the task can be  *)
(* preempted, and the device can lose its power.  The fields are one that   *)
(* stands alone, two that are cleared together, two that only make sense    *)
(* together, two that are written together and judged one by one, and one   *)
(* that is stored without being cached.                                     *)
(***************************************************************************)
EXTENDS Integers, Sequences, FiniteSets

CONSTANTS
    Task,
    Priority,   \* of each task, with the scheduler of FreeRTOS on one core
    Does,       \* the operations each task calls in this instance
    Requests,   \* per update: the settings a caller may offer
    Hosts,      \* the manifolds a user may name
    MinStrokes, \* TPO_MIN_STROKES_PER_CYCLE
    Garbage,    \* what a corrupted flash may hold at the first start
    MaxResets   \* bound: losses of power

\* The settings, and which of them a call of each update brings.
Settings == {"target", "host", "channel", "cycle", "travel", "kp", "interval"}
Brings == [updateTargetTemperature  |-> {"target"},
           updateActuatorAssignment |-> {"host", "channel"},
           updateActuatorTiming     |-> {"cycle", "travel"},
           updateTuning             |-> {"kp", "interval"},
           saveMqttConfig           |-> {"mqtt"}]
Operations == DOMAIN Brings \cup {"loadMqttConfig", "loadDeviceConfig", "getDeviceConfigSnapshot"}

ASSUME StoreAssumption ==
    /\ IsFiniteSet(Task) /\ Priority \in [Task -> Nat]
    /\ \A t \in Task : IsFiniteSet(Does[t]) /\ Does[t] \subseteq Operations
    /\ DOMAIN Requests = DOMAIN Brings
    /\ \A o \in DOMAIN Brings : \A r \in Requests[o] : r = [f \in Brings[o] |-> r[f]]
    /\ \A damage \in Garbage : DOMAIN damage \subseteq Settings
    /\ {MinStrokes, MaxResets} \subseteq Nat

VARIABLES
    handle,  \* the Preferences object: _started and _readOnly
    nvs,     \* the flash
    cache,   \* deviceConfig
    lock,    \* deviceConfigLock
    op, pc,  \* per task: the operation under way and its next access
    val,     \* per task: what it writes
    got,     \* per task: what it has read
    resets   \* bound

vars == <<handle, nvs, cache, lock, op, pc, val, got, resets>>

-----------------------------------------------------------------------------
(* Settings and their validation.                                          *)

\* DeviceConfig of a new device (cycle and travel in minutes, the gain in percent).
Default == [target |-> 22, host |-> "", channel |-> -1, cycle |-> 20, travel |-> 3,
            kp |-> 50, interval |-> 60]

\* A record with the fields of another put over its own.
Over(new, c) == [f \in DOMAIN new \cup DOMAIN c |-> IF f \in DOMAIN new THEN new[f] ELSE c[f]]

\* What the Preferences keep besides.
DefaultStored == Over([mqtt |-> 15], Default)
Cached(stored) == [f \in Settings |-> stored[f]]

\* A value that is not trustworthy becomes the default ...
Trusted(c, f, range) == IF c[f] \in range THEN c ELSE [c EXCEPT ![f] = Default[f]]

TargetMended(c) == Trusted(c, "target", 10 .. 30)
TuningMended(c) == Trusted(Trusted(c, "kp", 1 .. 10000), "interval", 1 .. 600)

\* ... and takes with it the one that means nothing alone.
AssignmentMended(c) ==
    LET placed == Trusted(c, "channel", 0 .. 3)
    IN  IF c.host \in Hosts \cup {""} THEN placed
        ELSE [placed EXCEPT !.host = Default.host, !.channel = Default.channel]

TimingMended(c) ==
    IF /\ c.travel \in 1 .. 15 /\ c.cycle \in 1 .. 120
       /\ c.cycle >= c.travel * MinStrokes
    THEN c
    ELSE [c EXCEPT !.cycle = Default.cycle, !.travel = Default.travel]

validateDeviceConfig(c) == TuningMended(TimingMended(AssignmentMended(TargetMended(c))))

\* updateActuatorAssignment accepts a host with a channel, or clears both.
Assigned(r) == IF r.host \in Hosts /\ r.channel \in 0 .. 3 THEN r
               ELSE [r EXCEPT !.host = Default.host, !.channel = Default.channel]

\* What an update makes of an offer: it is judged next to the settings in force.
Accepted(o, r) ==
    IF o = "updateActuatorAssignment" THEN Assigned(r)
    ELSE LET candidate == validateDeviceConfig(Over(r, cache))
         IN  [f \in DOMAIN r |-> candidate[f]]

-----------------------------------------------------------------------------
(* The accesses of each operation, in order.                               *)

openRW == [do |-> "openRW", of |-> ""]
openRO == [do |-> "openRO", of |-> ""]
close == [do |-> "close", of |-> ""]
put(f) == [do |-> "put", of |-> f]
get(f) == [do |-> "get", of |-> f]
acquire == [do |-> "lock", of |-> ""]
release == [do |-> "unlock", of |-> ""]
set(f) == [do |-> "set", of |-> f]
fetch(f) == [do |-> "fetch", of |-> f]
copy(f) == [do |-> "copy", of |-> f]
mend(part) == [do |-> "mend", of |-> part]

\* Mutants: an update that does not lock, and one whose guard ends too early.
WithoutLock(f, g) == <<openRW, put(f), put(g), set(f), set(g), close>>
ClosedEarly(f, g) == <<openRW, put(f), close, put(g), acquire, set(f), set(g), release>>

\* The shape of every update: the guard is closed by its destructor, after the cache
\* was written.
Update(f, g) == <<openRW, put(f), put(g), acquire, set(f), set(g), release, close>>

updateTargetTemperature == <<openRW, put("target"), acquire, set("target"), release, close>>
updateActuatorAssignment == Update("host", "channel")
updateActuatorTiming == Update("cycle", "travel")
updateTuning == Update("kp", "interval")

\* The settings that are not cached: only the flash is written, or read.
saveMqttConfig == <<openRW, put("mqtt"), close>>
loadMqttConfig == <<openRO, get("mqtt"), close>>

\* The cache is filled under the lock, and validated where it lies after the lock.
loadDeviceConfig ==
    <<openRO, acquire,
      fetch("target"), fetch("host"), fetch("channel"), fetch("cycle"), fetch("travel"),
      fetch("kp"), fetch("interval"), release,
      mend("target"), mend("assignment"), mend("timing"), mend("tuning"), close>>

\* The copy of the struct, field by field.
getDeviceConfigSnapshot ==
    <<acquire, copy("target"), copy("host"), copy("channel"), copy("cycle"), copy("travel"),
      copy("kp"), copy("interval"), release>>

Accesses ==
    [updateTargetTemperature  |-> updateTargetTemperature,
     updateActuatorAssignment |-> updateActuatorAssignment,
     updateActuatorTiming     |-> updateActuatorTiming,
     updateTuning             |-> updateTuning,
     saveMqttConfig           |-> saveMqttConfig,
     loadMqttConfig           |-> loadMqttConfig,
     loadDeviceConfig         |-> loadDeviceConfig,
     getDeviceConfigSnapshot  |-> getDeviceConfigSnapshot]

-----------------------------------------------------------------------------
(* The tasks.                                                              *)

Busy(t) == op[t] # "none"
NextAccess(t) == Accesses[op[t]][pc[t]]
At(t, what) == Busy(t) /\ NextAccess(t).do = what
Field(t) == NextAccess(t).of

\* A task has the core unless one of higher priority wants it.
Runs(t) == \A u \in Task : Priority[u] > Priority[t] => ~Busy(u)

Nothing == [f \in {} |-> 0]

Init ==
    /\ handle = [open |-> FALSE, ro |-> FALSE]
    /\ nvs \in {DefaultStored} \cup {Over(damage, DefaultStored) : damage \in Garbage}
    /\ cache = validateDeviceConfig(Cached(nvs))
    /\ lock = FALSE
    /\ op = [t \in Task |-> "none"] /\ pc = [t \in Task |-> 1]
    /\ val = [t \in Task |-> Nothing] /\ got = [t \in Task |-> Nothing]
    /\ resets = 0

\* A call begins: a request arrives, a reconnect, a control tick.
Call(t) ==
    /\ Runs(t) /\ ~Busy(t)
    /\ \E o \in Does[t] :
          /\ op' = [op EXCEPT ![t] = o]
          /\ IF o \in DOMAIN Requests
             THEN \E r \in Requests[o] : val' = [val EXCEPT ![t] = Accepted(o, r)]
             ELSE UNCHANGED val
    /\ UNCHANGED <<handle, nvs, cache, lock, pc, got, resets>>

\* The last access of a call ends it.
Last(t) == pc[t] = Len(Accesses[op[t]])
Proceed(t) ==
    IF Last(t)
    THEN /\ pc' = [pc EXCEPT ![t] = 1] /\ op' = [op EXCEPT ![t] = "none"]
         /\ val' = [val EXCEPT ![t] = Nothing]
    ELSE pc' = [pc EXCEPT ![t] = @ + 1] /\ UNCHANGED <<op, val>>
Drops(t) == got' = IF Last(t) THEN [got EXCEPT ![t] = Nothing] ELSE got

\* Preferences::begin() fails if the handle is open, whoever opened it and how; the
\* guard does not look.
Open(t, ro) ==
    /\ handle' = IF handle.open THEN handle ELSE [open |-> TRUE, ro |-> ro]
    /\ Proceed(t)
    /\ UNCHANGED <<nvs, cache, lock, got, resets>>

OpenForWriting(t) == At(t, "openRW") /\ Open(t, FALSE)
OpenForReading(t) == At(t, "openRO") /\ Open(t, TRUE)

\* Preferences::end() closes it, whoever opened it.
Close(t) ==
    /\ At(t, "close")
    /\ handle' = [open |-> FALSE, ro |-> FALSE]
    /\ Proceed(t) /\ Drops(t)
    /\ UNCHANGED <<nvs, cache, lock, resets>>

\* putX() writes nothing without a writable handle, and the result is not looked at.
Put(t) ==
    /\ At(t, "put")
    /\ nvs' = IF handle.open /\ ~handle.ro THEN [nvs EXCEPT ![Field(t)] = val[t][Field(t)]]
              ELSE nvs
    /\ Proceed(t)
    /\ UNCHANGED <<handle, cache, lock, got, resets>>

\* getX() hands back the default without a handle, getString() leaves its buffer alone.
Stored(f, buffer) == IF handle.open THEN nvs[f] ELSE buffer

\* test_and_set(): taken, or the task spins.
Lock(t) ==
    /\ At(t, "lock") /\ ~lock
    /\ lock' = TRUE
    /\ Proceed(t)
    /\ UNCHANGED <<handle, nvs, cache, got, resets>>

Spin(t) == At(t, "lock") /\ lock /\ UNCHANGED vars

Unlock(t) ==
    /\ At(t, "unlock")
    /\ lock' = FALSE
    /\ Proceed(t) /\ Drops(t)
    /\ UNCHANGED <<handle, nvs, cache, resets>>

\* The cache is written from the candidate, from flash, or by the validation ...
Writes(t, new) ==
    /\ cache' = new
    /\ Proceed(t)
    /\ UNCHANGED <<handle, nvs, lock, got, resets>>

Set(t) == At(t, "set") /\ Writes(t, [cache EXCEPT ![Field(t)] = val[t][Field(t)]])

Fetch(t) ==
    /\ At(t, "fetch")
    /\ LET buffer == IF Field(t) = "host" THEN cache.host ELSE Default[Field(t)]
       IN  Writes(t, [cache EXCEPT ![Field(t)] = Stored(Field(t), buffer)])

Mend(t) ==
    /\ At(t, "mend")
    /\ Writes(t, CASE Field(t) = "target"     -> TargetMended(cache)
                   [] Field(t) = "assignment" -> AssignmentMended(cache)
                   [] Field(t) = "timing"     -> TimingMended(cache)
                   [] Field(t) = "tuning"     -> TuningMended(cache))

\* ... or read, from flash or from the cache.
Reads(t, v) ==
    /\ got' = [got EXCEPT ![t] = Over([f \in {Field(t)} |-> v], @)]
    /\ Proceed(t)
    /\ UNCHANGED <<handle, nvs, cache, lock, resets>>

Get(t) == At(t, "get") /\ Reads(t, Stored(Field(t), DefaultStored[Field(t)]))
Copy(t) == At(t, "copy") /\ Reads(t, cache[Field(t)])

Access(t) ==
    /\ Runs(t)
    /\ \/ OpenForWriting(t) \/ OpenForReading(t) \/ Close(t) \/ Put(t) \/ Get(t)
       \/ Lock(t) \/ Spin(t) \/ Unlock(t) \/ Set(t) \/ Fetch(t) \/ Mend(t) \/ Copy(t)

\* The power fails; begin() loads what the flash holds before any task runs.
Restart ==
    /\ resets < MaxResets
    /\ resets' = resets + 1
    /\ handle' = [open |-> FALSE, ro |-> FALSE] /\ lock' = FALSE
    /\ cache' = validateDeviceConfig(Cached(nvs))
    /\ op' = [t \in Task |-> "none"] /\ pc' = [t \in Task |-> 1]
    /\ val' = [t \in Task |-> Nothing] /\ got' = [t \in Task |-> Nothing]
    /\ UNCHANGED nvs

Next == Restart \/ \E t \in Task : Call(t) \/ Access(t)

Spec == Init /\ [][Next]_vars

\* A task that has the core goes on; tasks of equal priority share it by time slices.
FairSpec == Spec /\ \A t \in Task : SF_vars(Access(t))
-----------------------------------------------------------------------------
(* Properties.                                                             *)

\* Between its lock and its unlock.
Locked(accesses, i) == \E a, b \in DOMAIN accesses :
    accesses[a].do = "lock" /\ accesses[b].do = "unlock" /\ a < i /\ i <= b
Inside(t) == Busy(t) /\ Locked(Accesses[op[t]], pc[t])

TypeOK ==
    /\ handle \in [open: BOOLEAN, ro: BOOLEAN]
    /\ nvs = [f \in DOMAIN DefaultStored |-> nvs[f]]
    /\ cache = [f \in Settings |-> cache[f]]
    /\ lock \in BOOLEAN /\ resets \in 0 .. MaxResets
    /\ op \in [Task -> {"none"} \cup Operations]
    /\ pc \in [Task -> Nat]
    /\ \A t \in Task : IF Busy(t) THEN pc[t] \in DOMAIN Accesses[op[t]] ELSE pc[t] = 1
    /\ val = [t \in Task |-> val[t]] /\ got = [t \in Task |-> got[t]]
    /\ \A t \in Task : /\ val[t] = [f \in IF op[t] \in DOMAIN Brings THEN Brings[op[t]] ELSE {}
                                         |-> val[t][f]]
                       /\ DOMAIN got[t] \subseteq DOMAIN DefaultStored

Quiet(kinds) == \A t \in Task : op[t] \notin kinds
Updates == {"updateTargetTemperature", "updateActuatorAssignment", "updateActuatorTiming",
            "updateTuning"}

\* getDeviceConfigSnapshot() hands out settings that were in force together: under its
\* lock nothing changes them, however it is preempted and whoever stores what meanwhile;
\* nothing but a reload that validates what it has fetched (see ReloadIsUnseen).
Copying(t) == op[t] = "getDeviceConfigSnapshot" /\ (At(t, "copy") \/ At(t, "unlock"))
Validates == \E t \in Task : At(t, "mend") /\ pc'[t] # pc[t]
SnapshotIsWhole == [][\A t \in Task : Copying(t) /\ Copying(t)' => Validates]_cache

\* Once no write is under way, what a restart would bring back is what is in force.
SettingsSurvive ==
    Quiet(Updates \cup {"loadDeviceConfig"}) => cache = validateDeviceConfig(Cached(nvs))
-----------------------------------------------------------------------------
(* What the specification and the comments say and the code does not do.    *)

\* No call waits for ever for the cache: Config.h:387 takes the spinlock for a few loads
\* and stores that nothing need wait for.
CallsReturn == \A t \in Task : Busy(t) ~> ~Busy(t)

\* loadDeviceConfig(): "no other reader observes the fields it might rewrite".
ReloadIsUnseen == \A t \in Task :
    op[t] = "getDeviceConfigSnapshot" /\ At(t, "unlock") => got[t] = validateDeviceConfig(got[t])

\* A setting that was stored is not read back as the default (loadMqttConfig() and the
\* other loads).
ReadsWhatIsStored == \A t \in Task :
    At(t, "close") /\ op[t] = "loadMqttConfig" => got[t].mqtt = nvs.mqtt
-----------------------------------------------------------------------------
(* The inductive invariants behind them (ConfigStoreProofs).                *)

\* The lock is set while one task is between its lock and its unlock.
OneInside ==
    /\ \A t, u \in Task : Inside(t) /\ Inside(u) => t = u
    /\ lock <=> \E t \in Task : Inside(t)
IInv == TypeOK /\ OneInside

\* Whoever stores or loads does so alone; the others take snapshots meanwhile.
Storing(t) == op[t] \notin {"none", "getDeviceConfigSnapshot"}
OneAtATime == \A t, u \in Task : Storing(t) /\ Storing(u) => t = u

\* Settings once what a task has under way is stored.
Completed(t, c) == [f \in Settings |-> IF f \in DOMAIN val[t] THEN val[t][f] ELSE c[f]]
Did(t, what, f) == \E i \in DOMAIN Accesses[op[t]] :
                      i < pc[t] /\ Accesses[op[t]][i] = [do |-> what, of |-> f]

\* The handle is the task's own.
HandleIsOwn(t) ==
    /\ handle.open <=> pc[t] > 1
    /\ handle.open => handle.ro = (op[t] \notin DOMAIN Brings)

\* What has been stored is there, and what will have been stored makes flash and cache
\* agree.
UpdateIsTrue(t) ==
    /\ \A f \in DOMAIN val[t] : Did(t, "put", f) => nvs[f] = val[t][f]
    /\ \A f \in DOMAIN val[t] : Did(t, "set", f) => cache[f] = val[t][f]
    /\ Completed(t, cache) = validateDeviceConfig(Completed(t, nvs))

\* A load fetches what is stored and mends it step by step.
LoadIsTrue(t) ==
    LET read == Cached(nvs)
    IN  /\ ~At(t, "mend") /\ ~At(t, "close") =>
              \A f \in Settings : Did(t, "fetch", f) => cache[f] = nvs[f]
        /\ At(t, "mend") => cache =
              CASE Field(t) = "target"     -> read
                [] Field(t) = "assignment" -> TargetMended(read)
                [] Field(t) = "timing"     -> AssignmentMended(TargetMended(read))
                [] Field(t) = "tuning"     -> TimingMended(AssignmentMended(TargetMended(read)))
        /\ At(t, "close") => cache = validateDeviceConfig(read)

StoreInv ==
    /\ (\A t \in Task : ~Storing(t)) =>
          ~handle.open /\ cache = validateDeviceConfig(Cached(nvs))
    /\ \A t \in Task : Storing(t) =>
          /\ HandleIsOwn(t)
          /\ IF op[t] = "loadDeviceConfig" THEN LoadIsTrue(t) ELSE UpdateIsTrue(t)
=============================================================================
