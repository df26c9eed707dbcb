-------------------------- MODULE ConfigStoreProofs --------------------------
(***************************************************************************)
(* Proofs about ConfigStore for any tasks, priorities, requests, manifolds, *)
(* garbage in the flash and losses of power.                                *)
(***************************************************************************)
EXTENDS ConfigStore, TLAPS

-----------------------------------------------------------------------------
(* The accesses of each operation, and where it holds the lock.            *)

Kinds == {"openRW", "openRO", "close", "put", "get", "lock", "unlock", "set", "fetch",
          "copy", "mend"}

\* The access at i of a list of n that locks at l and unlocks at u, or (0) not at all.
Fits(a, i, l, u, n) ==
    /\ a.do \in Kinds
    /\ a.do = "lock" <=> i = l
    /\ a.do = "unlock" <=> i = u
    /\ a.do \in {"set", "fetch", "copy"} => l < i /\ i < u
    /\ i = n => a.do \in {"close", "unlock"}
Bracketed(L, l, u) ==
    /\ Len(L) \in Nat /\ Len(L) > 1 /\ DOMAIN L = 1 .. Len(L)
    /\ l \in 0 .. Len(L) /\ u \in 0 .. Len(L) /\ (l = 0 <=> u = 0) /\ (l # 0 => l < u)
    /\ \A i \in 1 .. Len(L) : Fits(L[i], i, l, u, Len(L))

LEMMA UpdateIs ==
    ASSUME NEW f, NEW g, NEW L, L = Update(f, g)
    PROVE  /\ DOMAIN L = 1 .. 8 /\ Len(L) = 8
           /\ L[1] = openRW /\ L[2] = put(f) /\ L[3] = put(g) /\ L[4] = acquire
           /\ L[5] = set(f) /\ L[6] = set(g) /\ L[7] = release /\ L[8] = close
BY DEF Update

LEMMA TargetIs ==
    ASSUME NEW L, L = updateTargetTemperature
    PROVE  /\ DOMAIN L = 1 .. 6 /\ Len(L) = 6
           /\ L[1] = openRW /\ L[2] = put("target") /\ L[3] = acquire
           /\ L[4] = set("target") /\ L[5] = release /\ L[6] = close
BY DEF updateTargetTemperature

LEMMA SaveIs ==
    ASSUME NEW L, L = saveMqttConfig
    PROVE  /\ DOMAIN L = 1 .. 3 /\ Len(L) = 3
           /\ L[1] = openRW /\ L[2] = put("mqtt") /\ L[3] = close
BY DEF saveMqttConfig

LEMMA LoadMqttIs ==
    ASSUME NEW L, L = loadMqttConfig
    PROVE  /\ DOMAIN L = 1 .. 3 /\ Len(L) = 3
           /\ L[1] = openRO /\ L[2] = get("mqtt") /\ L[3] = close
BY DEF loadMqttConfig

LEMMA LoadIs ==
    ASSUME NEW L, L = loadDeviceConfig
    PROVE  /\ DOMAIN L = 1 .. 15 /\ Len(L) = 15
           /\ L[1] = openRO /\ L[2] = acquire /\ L[3] = fetch("target") /\ L[4] = fetch("host")
           /\ L[5] = fetch("channel") /\ L[6] = fetch("cycle") /\ L[7] = fetch("travel")
           /\ L[8] = fetch("kp") /\ L[9] = fetch("interval") /\ L[10] = release
           /\ L[11] = mend("target") /\ L[12] = mend("assignment") /\ L[13] = mend("timing")
           /\ L[14] = mend("tuning") /\ L[15] = close
BY DEF loadDeviceConfig

LEMMA SnapshotIs ==
    ASSUME NEW L, L = getDeviceConfigSnapshot
    PROVE  /\ DOMAIN L = 1 .. 9 /\ Len(L) = 9
           /\ L[1] = acquire /\ L[2] = copy("target") /\ L[3] = copy("host")
           /\ L[4] = copy("channel") /\ L[5] = copy("cycle") /\ L[6] = copy("travel")
           /\ L[7] = copy("kp") /\ L[8] = copy("interval") /\ L[9] = release
BY DEF getDeviceConfigSnapshot

LEMMA Brackets ==
    ASSUME NEW L, NEW n \in Nat, NEW l \in 0 .. n, NEW u \in 0 .. n, n > 1,
           l = 0 <=> u = 0, l # 0 => l < u, Len(L) = n, DOMAIN L = 1 .. n,
           \A i \in 1 .. n : Fits(L[i], i, l, u, n)
    PROVE  Bracketed(L, l, u)
BY DEF Bracketed

\* Each access fits, and the small ranges have no other place.
LEMMA UpdateBracketed ==
    ASSUME NEW f, NEW g, NEW L, L = Update(f, g)
    PROVE  Bracketed(L, 4, 7)
<1>1. /\ Fits(openRW, 1, 4, 7, 8) /\ Fits(put(f), 2, 4, 7, 8)
      /\ Fits(put(g), 3, 4, 7, 8) /\ Fits(acquire, 4, 4, 7, 8)
      /\ Fits(set(f), 5, 4, 7, 8) /\ Fits(set(g), 6, 4, 7, 8)
      /\ Fits(release, 7, 4, 7, 8) /\ Fits(close, 8, 4, 7, 8)
  BY DEF Fits, Kinds, openRW, put, acquire, set, release, close
<1>2. \A i \in 1 .. 8 : \/ i = 1 \/ i = 2 \/ i = 3 \/ i = 4 \/ i = 5 \/ i = 6
                     \/ i = 7 \/ i = 8
  OBVIOUS
<1>3. \A i \in 1 .. 8 : Fits(L[i], i, 4, 7, 8)
  BY <1>1, <1>2, UpdateIs
<1>4. DOMAIN L = 1 .. 8 /\ Len(L) = 8 BY UpdateIs
<1>5. /\ 8 \in Nat /\ 4 \in 0 .. 8 /\ 7 \in 0 .. 8 /\ 8 > 1
      /\ (4 = 0 <=> 7 = 0) /\ (4 # 0 => 4 < 7)
  OBVIOUS
<1> QED BY <1>3, <1>4, <1>5, Brackets, Zenon

LEMMA TargetBracketed ==
    ASSUME NEW L, L = updateTargetTemperature
    PROVE  Bracketed(L, 3, 5)
<1>1. /\ Fits(openRW, 1, 3, 5, 6) /\ Fits(put("target"), 2, 3, 5, 6)
      /\ Fits(acquire, 3, 3, 5, 6) /\ Fits(set("target"), 4, 3, 5, 6)
      /\ Fits(release, 5, 3, 5, 6) /\ Fits(close, 6, 3, 5, 6)
  BY DEF Fits, Kinds, openRW, put, acquire, set, release, close
<1>2. \A i \in 1 .. 6 : \/ i = 1 \/ i = 2 \/ i = 3 \/ i = 4 \/ i = 5 \/ i = 6
  OBVIOUS
<1>3. \A i \in 1 .. 6 : Fits(L[i], i, 3, 5, 6)
  BY <1>1, <1>2, TargetIs
<1>4. DOMAIN L = 1 .. 6 /\ Len(L) = 6 BY TargetIs
<1>5. /\ 6 \in Nat /\ 3 \in 0 .. 6 /\ 5 \in 0 .. 6 /\ 6 > 1
      /\ (3 = 0 <=> 5 = 0) /\ (3 # 0 => 3 < 5)
  OBVIOUS
<1> QED BY <1>3, <1>4, <1>5, Brackets, Zenon

LEMMA SaveBracketed ==
    ASSUME NEW L, L = saveMqttConfig
    PROVE  Bracketed(L, 0, 0)
<1>1. /\ Fits(openRW, 1, 0, 0, 3) /\ Fits(put("mqtt"), 2, 0, 0, 3)
      /\ Fits(close, 3, 0, 0, 3)
  BY DEF Fits, Kinds, openRW, put, close
<1>2. \A i \in 1 .. 3 : \/ i = 1 \/ i = 2 \/ i = 3
  OBVIOUS
<1>3. \A i \in 1 .. 3 : Fits(L[i], i, 0, 0, 3)
  BY <1>1, <1>2, SaveIs
<1>4. DOMAIN L = 1 .. 3 /\ Len(L) = 3 BY SaveIs
<1>5. /\ 3 \in Nat /\ 0 \in 0 .. 3 /\ 0 \in 0 .. 3 /\ 3 > 1
      /\ (0 = 0 <=> 0 = 0) /\ (0 # 0 => 0 < 0)
  OBVIOUS
<1> QED BY <1>3, <1>4, <1>5, Brackets, Zenon

LEMMA LoadMqttBracketed ==
    ASSUME NEW L, L = loadMqttConfig
    PROVE  Bracketed(L, 0, 0)
<1>1. /\ Fits(openRO, 1, 0, 0, 3) /\ Fits(get("mqtt"), 2, 0, 0, 3)
      /\ Fits(close, 3, 0, 0, 3)
  BY DEF Fits, Kinds, openRO, get, close
<1>2. \A i \in 1 .. 3 : \/ i = 1 \/ i = 2 \/ i = 3
  OBVIOUS
<1>3. \A i \in 1 .. 3 : Fits(L[i], i, 0, 0, 3)
  BY <1>1, <1>2, LoadMqttIs
<1>4. DOMAIN L = 1 .. 3 /\ Len(L) = 3 BY LoadMqttIs
<1>5. /\ 3 \in Nat /\ 0 \in 0 .. 3 /\ 0 \in 0 .. 3 /\ 3 > 1
      /\ (0 = 0 <=> 0 = 0) /\ (0 # 0 => 0 < 0)
  OBVIOUS
<1> QED BY <1>3, <1>4, <1>5, Brackets, Zenon

LEMMA LoadBracketed ==
    ASSUME NEW L, L = loadDeviceConfig
    PROVE  Bracketed(L, 2, 10)
<1>1. /\ Fits(openRO, 1, 2, 10, 15) /\ Fits(acquire, 2, 2, 10, 15)
      /\ Fits(fetch("target"), 3, 2, 10, 15) /\ Fits(fetch("host"), 4, 2, 10, 15)
      /\ Fits(fetch("channel"), 5, 2, 10, 15) /\ Fits(fetch("cycle"), 6, 2, 10, 15)
      /\ Fits(fetch("travel"), 7, 2, 10, 15) /\ Fits(fetch("kp"), 8, 2, 10, 15)
      /\ Fits(fetch("interval"), 9, 2, 10, 15) /\ Fits(release, 10, 2, 10, 15)
      /\ Fits(mend("target"), 11, 2, 10, 15) /\ Fits(mend("assignment"), 12, 2, 10, 15)
      /\ Fits(mend("timing"), 13, 2, 10, 15) /\ Fits(mend("tuning"), 14, 2, 10, 15)
      /\ Fits(close, 15, 2, 10, 15)
  BY DEF Fits, Kinds, openRO, acquire, fetch, release, mend, close
<1>2. \A i \in 1 .. 15 : \/ i = 1 \/ i = 2 \/ i = 3 \/ i = 4 \/ i = 5 \/ i = 6
                     \/ i = 7 \/ i = 8 \/ i = 9 \/ i = 10 \/ i = 11 \/ i = 12
                     \/ i = 13 \/ i = 14 \/ i = 15
  OBVIOUS
<1>3. \A i \in 1 .. 15 : Fits(L[i], i, 2, 10, 15)
  BY <1>1, <1>2, LoadIs
<1>4. DOMAIN L = 1 .. 15 /\ Len(L) = 15 BY LoadIs
<1>5. /\ 15 \in Nat /\ 2 \in 0 .. 15 /\ 10 \in 0 .. 15 /\ 15 > 1
      /\ (2 = 0 <=> 10 = 0) /\ (2 # 0 => 2 < 10)
  OBVIOUS
<1> QED BY <1>3, <1>4, <1>5, Brackets, Zenon

LEMMA SnapshotBracketed ==
    ASSUME NEW L, L = getDeviceConfigSnapshot
    PROVE  Bracketed(L, 1, 9)
<1>1. /\ Fits(acquire, 1, 1, 9, 9) /\ Fits(copy("target"), 2, 1, 9, 9)
      /\ Fits(copy("host"), 3, 1, 9, 9) /\ Fits(copy("channel"), 4, 1, 9, 9)
      /\ Fits(copy("cycle"), 5, 1, 9, 9) /\ Fits(copy("travel"), 6, 1, 9, 9)
      /\ Fits(copy("kp"), 7, 1, 9, 9) /\ Fits(copy("interval"), 8, 1, 9, 9)
      /\ Fits(release, 9, 1, 9, 9)
  BY DEF Fits, Kinds, acquire, copy, release
<1>2. \A i \in 1 .. 9 : \/ i = 1 \/ i = 2 \/ i = 3 \/ i = 4 \/ i = 5 \/ i = 6
                     \/ i = 7 \/ i = 8 \/ i = 9
  OBVIOUS
<1>3. \A i \in 1 .. 9 : Fits(L[i], i, 1, 9, 9)
  BY <1>1, <1>2, SnapshotIs
<1>4. DOMAIN L = 1 .. 9 /\ Len(L) = 9 BY SnapshotIs
<1>5. /\ 9 \in Nat /\ 1 \in 0 .. 9 /\ 9 \in 0 .. 9 /\ 9 > 1
      /\ (1 = 0 <=> 9 = 0) /\ (1 # 0 => 1 < 9)
  OBVIOUS
<1> QED BY <1>3, <1>4, <1>5, Brackets, Zenon

LEMMA Lists ==
    /\ Accesses["updateTargetTemperature"] = updateTargetTemperature
    /\ Accesses["updateActuatorAssignment"] = Update("host", "channel")
    /\ Accesses["updateActuatorTiming"] = Update("cycle", "travel")
    /\ Accesses["updateTuning"] = Update("kp", "interval")
    /\ Accesses["saveMqttConfig"] = saveMqttConfig
    /\ Accesses["loadMqttConfig"] = loadMqttConfig
    /\ Accesses["loadDeviceConfig"] = loadDeviceConfig
    /\ Accesses["getDeviceConfigSnapshot"] = getDeviceConfigSnapshot
BY DEF Accesses, updateActuatorAssignment, updateActuatorTiming, updateTuning

LEMMA OperationNames ==
    /\ DOMAIN Brings = {"updateTargetTemperature", "updateActuatorAssignment",
                        "updateActuatorTiming", "updateTuning", "saveMqttConfig"}
    /\ Operations = {"updateTargetTemperature", "updateActuatorAssignment",
                     "updateActuatorTiming", "updateTuning", "saveMqttConfig",
                     "loadMqttConfig", "loadDeviceConfig", "getDeviceConfigSnapshot"}
    /\ "none" \notin Operations
BY DEF Brings, Operations

LEMMA AllBracketed ==
    ASSUME NEW o \in Operations
    PROVE  \E l, u \in Nat : Bracketed(Accesses[o], l, u)
BY Lists, OperationNames, UpdateBracketed, TargetBracketed, SaveBracketed, LoadMqttBracketed,
   LoadBracketed, SnapshotBracketed

\* What the steps of an operation do to whether it holds the lock.
LEMMA LockedNext ==
    ASSUME NEW o \in Operations, NEW L, L = Accesses[o], NEW i \in 1 .. Len(L)
    PROVE  /\ Len(L) \in Nat /\ Len(L) > 1 /\ DOMAIN L = 1 .. Len(L) /\ L[i].do \in Kinds
           /\ ~Locked(L, 1)
           /\ L[i].do = "lock" => i < Len(L) /\ ~Locked(L, i) /\ Locked(L, i + 1)
           /\ L[i].do = "unlock" => Locked(L, i) /\ ~Locked(L, i + 1)
           /\ L[i].do \notin {"lock", "unlock"} => (Locked(L, i + 1) <=> Locked(L, i))
           /\ L[i].do \in {"set", "fetch", "copy"} => Locked(L, i)
           /\ i = Len(L) => L[i].do \in {"close", "unlock"}
           /\ ~Locked(L, Len(L) + 1)
<1>1. PICK l \in Nat, u \in Nat : Bracketed(L, l, u) BY AllBracketed
<1>2. /\ Len(L) \in Nat /\ Len(L) > 1 /\ DOMAIN L = 1 .. Len(L)
      /\ l \in 0 .. Len(L) /\ u \in 0 .. Len(L) /\ (l = 0 <=> u = 0) /\ (l # 0 => l < u)
      /\ \A j \in 1 .. Len(L) :
            /\ L[j].do \in Kinds
            /\ L[j].do = "lock" <=> j = l
            /\ L[j].do = "unlock" <=> j = u
            /\ L[j].do \in {"set", "fetch", "copy"} => l < j /\ j < u
            /\ j = Len(L) => L[j].do \in {"close", "unlock"}
  BY <1>1 DEF Bracketed, Fits
<1>3. \A j \in Nat : Locked(L, j) <=> l # 0 /\ l < j /\ j <= u
  <2>1. ASSUME NEW j \in Nat, Locked(L, j) PROVE l # 0 /\ l < j /\ j <= u
    BY <1>2, <2>1 DEF Locked
  <2>2. ASSUME NEW j \in Nat, l # 0, l < j, j <= u PROVE Locked(L, j)
    <3>1. l \in DOMAIN L /\ u \in DOMAIN L BY <1>2, <2>2
    <3>2. L[l].do = "lock" /\ L[u].do = "unlock" BY <1>2, <3>1
    <3> QED BY <2>2, <3>1, <3>2 DEF Locked
  <2> QED BY <2>1, <2>2
<1>4. i \in Nat /\ i + 1 \in Nat /\ 1 \in Nat /\ Len(L) + 1 \in Nat BY <1>2
<1> QED BY <1>2, <1>3, <1>4

-----------------------------------------------------------------------------
(* What an access is about.                                                *)

Parts == {"target", "assignment", "timing", "tuning"}
Concerns(a, o, i, n) ==
    /\ a = [do |-> a.do, of |-> a.of]
    /\ a.do = "openRW" => o \in DOMAIN Brings
    /\ a.do = "openRO" => o \in {"loadMqttConfig", "loadDeviceConfig"}
    /\ a.do \in {"openRW", "openRO"} => i = 1
    /\ a.do = "close" => i = n /\ o # "getDeviceConfigSnapshot"
    /\ o # "getDeviceConfigSnapshot" /\ i = 1 => a.do \in {"openRW", "openRO"}
    /\ o # "getDeviceConfigSnapshot" /\ i = n => a.do = "close"
    /\ a.do \in {"put", "set"} => o \in DOMAIN Brings /\ a.of \in Brings[o]
    /\ a.do = "put" => a.of \in Settings \cup {"mqtt"}
    /\ a.do \in {"set", "fetch", "copy"} => a.of \in Settings
    /\ a.do = "get" => a.of = "mqtt" /\ o = "loadMqttConfig"
    /\ a.do \in {"fetch", "mend"} => o = "loadDeviceConfig"
    /\ a.do = "mend" => a.of \in Parts
    /\ a.do = "copy" => o = "getDeviceConfigSnapshot"

LEMMA BringsIs ==
    /\ Brings["updateTargetTemperature"] = {"target"}
    /\ Brings["updateActuatorAssignment"] = {"host", "channel"}
    /\ Brings["updateActuatorTiming"] = {"cycle", "travel"}
    /\ Brings["updateTuning"] = {"kp", "interval"}
    /\ Brings["saveMqttConfig"] = {"mqtt"}
BY DEF Brings

LEMMA UpdateConcerns ==
    ASSUME NEW o \in DOMAIN Brings, NEW f \in Settings, NEW g \in Settings, Brings[o] = {f, g}
    PROVE  \A i \in DOMAIN Update(f, g) : Concerns(Update(f, g)[i], o, i, 8)
<1> o # "getDeviceConfigSnapshot" BY OperationNames
<1>1. /\ Concerns(openRW, o, 1, 8) /\ Concerns(put(f), o, 2, 8)
      /\ Concerns(put(g), o, 3, 8) /\ Concerns(acquire, o, 4, 8)
      /\ Concerns(set(f), o, 5, 8) /\ Concerns(set(g), o, 6, 8)
      /\ Concerns(release, o, 7, 8) /\ Concerns(close, o, 8, 8)
  BY DEF Concerns, openRW, put, acquire, set, release, close
<1>2. \A i \in 1 .. 8 : \/ i = 1 \/ i = 2 \/ i = 3 \/ i = 4 \/ i = 5 \/ i = 6
                     \/ i = 7 \/ i = 8
  OBVIOUS
<1> QED BY <1>1, <1>2, UpdateIs

LEMMA TargetConcerns ==
    \A i \in DOMAIN updateTargetTemperature :
        Concerns(updateTargetTemperature[i], "updateTargetTemperature", i, 6)
<1> DEFINE o == "updateTargetTemperature"
<1>1. /\ Concerns(openRW, o, 1, 6) /\ Concerns(put("target"), o, 2, 6)
      /\ Concerns(acquire, o, 3, 6) /\ Concerns(set("target"), o, 4, 6)
      /\ Concerns(release, o, 5, 6) /\ Concerns(close, o, 6, 6)
  BY BringsIs, OperationNames
  DEF Concerns, openRW, put, acquire, set, release, close, Settings
<1>2. \A i \in 1 .. 6 : \/ i = 1 \/ i = 2 \/ i = 3 \/ i = 4 \/ i = 5 \/ i = 6
  OBVIOUS
<1> QED BY <1>1, <1>2, TargetIs

LEMMA SaveConcerns ==
    \A i \in DOMAIN saveMqttConfig :
        Concerns(saveMqttConfig[i], "saveMqttConfig", i, 3)
<1> DEFINE o == "saveMqttConfig"
<1>1. /\ Concerns(openRW, o, 1, 3) /\ Concerns(put("mqtt"), o, 2, 3)
      /\ Concerns(close, o, 3, 3)
  BY BringsIs, OperationNames DEF Concerns, openRW, put, close
<1>2. \A i \in 1 .. 3 : \/ i = 1 \/ i = 2 \/ i = 3
  OBVIOUS
<1> QED BY <1>1, <1>2, SaveIs

LEMMA LoadMqttConcerns ==
    \A i \in DOMAIN loadMqttConfig :
        Concerns(loadMqttConfig[i], "loadMqttConfig", i, 3)
<1> DEFINE o == "loadMqttConfig"
<1>1. /\ Concerns(openRO, o, 1, 3) /\ Concerns(get("mqtt"), o, 2, 3)
      /\ Concerns(close, o, 3, 3)
  BY OperationNames DEF Concerns, openRO, get, close
<1>2. \A i \in 1 .. 3 : \/ i = 1 \/ i = 2 \/ i = 3
  OBVIOUS
<1> QED BY <1>1, <1>2, LoadMqttIs

LEMMA LoadConcerns ==
    \A i \in DOMAIN loadDeviceConfig :
        Concerns(loadDeviceConfig[i], "loadDeviceConfig", i, 15)
<1> DEFINE o == "loadDeviceConfig"
<1>1. /\ Concerns(openRO, o, 1, 15) /\ Concerns(acquire, o, 2, 15)
      /\ Concerns(fetch("target"), o, 3, 15) /\ Concerns(fetch("host"), o, 4, 15)
      /\ Concerns(fetch("channel"), o, 5, 15) /\ Concerns(fetch("cycle"), o, 6, 15)
      /\ Concerns(fetch("travel"), o, 7, 15) /\ Concerns(fetch("kp"), o, 8, 15)
      /\ Concerns(fetch("interval"), o, 9, 15) /\ Concerns(release, o, 10, 15)
      /\ Concerns(mend("target"), o, 11, 15) /\ Concerns(mend("assignment"), o, 12, 15)
      /\ Concerns(mend("timing"), o, 13, 15) /\ Concerns(mend("tuning"), o, 14, 15)
      /\ Concerns(close, o, 15, 15)
  BY OperationNames
  DEF Concerns, openRO, acquire, fetch, release, mend, close, Settings, Parts
<1>2. \A i \in 1 .. 15 : \/ i = 1 \/ i = 2 \/ i = 3 \/ i = 4 \/ i = 5 \/ i = 6
                     \/ i = 7 \/ i = 8 \/ i = 9 \/ i = 10 \/ i = 11 \/ i = 12
                     \/ i = 13 \/ i = 14 \/ i = 15
  OBVIOUS
<1> QED BY <1>1, <1>2, LoadIs

LEMMA SnapshotConcerns ==
    \A i \in DOMAIN getDeviceConfigSnapshot :
        Concerns(getDeviceConfigSnapshot[i], "getDeviceConfigSnapshot", i, 9)
<1> DEFINE o == "getDeviceConfigSnapshot"
<1>1. /\ Concerns(acquire, o, 1, 9) /\ Concerns(copy("target"), o, 2, 9)
      /\ Concerns(copy("host"), o, 3, 9) /\ Concerns(copy("channel"), o, 4, 9)
      /\ Concerns(copy("cycle"), o, 5, 9) /\ Concerns(copy("travel"), o, 6, 9)
      /\ Concerns(copy("kp"), o, 7, 9) /\ Concerns(copy("interval"), o, 8, 9)
      /\ Concerns(release, o, 9, 9)
  BY OperationNames DEF Concerns, acquire, copy, release, Settings
<1>2. \A i \in 1 .. 9 : \/ i = 1 \/ i = 2 \/ i = 3 \/ i = 4 \/ i = 5 \/ i = 6
                     \/ i = 7 \/ i = 8 \/ i = 9
  OBVIOUS
<1> QED BY <1>1, <1>2, SnapshotIs

LEMMA AllConcern ==
    ASSUME NEW o \in Operations, NEW i \in DOMAIN Accesses[o]
    PROVE  Concerns(Accesses[o][i], o, i, Len(Accesses[o]))
<1>1. {"target", "host", "channel", "cycle", "travel", "kp", "interval"} \subseteq Settings
  BY DEF Settings
<1>2. CASE o \in {"updateActuatorAssignment", "updateActuatorTiming", "updateTuning"}
  <2>1. PICK f \in Settings, g \in Settings : Accesses[o] = Update(f, g) /\ Brings[o] = {f, g}
    BY <1>1, <1>2, Lists, BringsIs
  <2>2. o \in DOMAIN Brings BY <1>2, OperationNames
  <2>3. \A j \in DOMAIN Update(f, g) : Concerns(Update(f, g)[j], o, j, 8)
    BY <2>1, <2>2, UpdateConcerns
  <2>4. Len(Accesses[o]) = 8 BY <2>1, UpdateIs
  <2>5. \A j \in DOMAIN Accesses[o] : Concerns(Accesses[o][j], o, j, 8) BY <2>1, <2>3
  <2>6. Concerns(Accesses[o][i], o, i, 8) BY <2>5
  <2> QED BY <2>4, <2>6
<1>3. CASE o = "updateTargetTemperature" BY <1>3, Lists, TargetConcerns, TargetIs
<1>4. CASE o = "saveMqttConfig" BY <1>4, Lists, SaveConcerns, SaveIs
<1>5. CASE o = "loadMqttConfig" BY <1>5, Lists, LoadMqttConcerns, LoadMqttIs
<1>6. CASE o = "loadDeviceConfig" BY <1>6, Lists, LoadConcerns, LoadIs
<1>7. CASE o = "getDeviceConfigSnapshot" BY <1>7, Lists, SnapshotConcerns, SnapshotIs
<1> QED BY <1>2, <1>3, <1>4, <1>5, <1>6, <1>7, OperationNames

-----------------------------------------------------------------------------
(* The parts of the type invariant.                                        *)

TasksOK ==
    /\ op \in [Task -> {"none"} \cup Operations]
    /\ pc \in [Task -> Nat]
    /\ \A t \in Task : IF Busy(t) THEN pc[t] \in DOMAIN Accesses[op[t]] ELSE pc[t] = 1
Brought(o) == IF o \in DOMAIN Brings THEN Brings[o] ELSE {}
ValuesOK ==
    /\ val = [t \in Task |-> val[t]]
    /\ \A t \in Task : val[t] = [f \in Brought(op[t]) |-> val[t][f]]
ReadOK ==
    /\ got = [t \in Task |-> got[t]]
    /\ \A t \in Task : DOMAIN got[t] \subseteq DOMAIN DefaultStored
Shaped(c) == c = [f \in Settings |-> c[f]]
SharedOK ==
    /\ handle \in [open: BOOLEAN, ro: BOOLEAN]
    /\ nvs = [f \in DOMAIN DefaultStored |-> nvs[f]]
    /\ Shaped(cache)
    /\ lock \in BOOLEAN /\ resets \in 0 .. MaxResets

LEMMA TypeParts == TypeOK <=> TasksOK /\ ValuesOK /\ ReadOK /\ SharedOK
BY DEF TypeOK, TasksOK, ValuesOK, ReadOK, SharedOK, Shaped, Brought

LEMMA StoredFields == DOMAIN DefaultStored = Settings \cup {"mqtt"}
BY DEF DefaultStored, Over, Default, Settings

\* Validation keeps the settings a record has.
LEMMA TrustedShaped ==
    ASSUME NEW c, Shaped(c), NEW f \in Settings, NEW range
    PROVE  Shaped(Trusted(c, f, range))
BY DEF Shaped, Trusted

LEMMA MendedShaped ==
    ASSUME NEW c, Shaped(c)
    PROVE  /\ Shaped(TargetMended(c)) /\ Shaped(AssignmentMended(c))
           /\ Shaped(TimingMended(c)) /\ Shaped(TuningMended(c))
<1>1. {"target", "channel", "kp", "interval"} \subseteq Settings BY DEF Settings
<1>2. Shaped(TargetMended(c)) BY <1>1, TrustedShaped DEF TargetMended
<1>3. Shaped(Trusted(c, "channel", 0 .. 3)) BY <1>1, TrustedShaped
<1>4. Shaped(AssignmentMended(c)) BY <1>3 DEF Shaped, AssignmentMended
<1>5. Shaped(TimingMended(c)) BY DEF Shaped, TimingMended
<1>6. Shaped(Trusted(c, "kp", 1 .. 10000)) BY <1>1, TrustedShaped
<1>7. Shaped(TuningMended(c)) BY <1>1, <1>6, TrustedShaped DEF TuningMended
<1> QED BY <1>2, <1>4, <1>5, <1>7

LEMMA ValidatedShaped ==
    ASSUME NEW c, Shaped(c)
    PROVE  Shaped(validateDeviceConfig(c))
BY MendedShaped DEF validateDeviceConfig

LEMMA CachedShaped == \A stored : Shaped(Cached(stored))
BY DEF Shaped, Cached

-----------------------------------------------------------------------------
(* Types and mutual exclusion.                                             *)

\* What going on does to the task, and to no other.
LEMMA ProceedIs ==
    ASSUME TasksOK, ValuesOK, NEW t \in Task, Busy(t), Proceed(t)
    PROVE  /\ op[t] \in Operations /\ pc[t] \in DOMAIN Accesses[op[t]] /\ pc[t] \in Nat
           /\ Last(t) => op'[t] = "none" /\ pc'[t] = 1 /\ val'[t] = Nothing
           /\ ~Last(t) => op' = op /\ pc'[t] = pc[t] + 1 /\ val' = val
           /\ \A u \in Task \ {t} : op'[u] = op[u] /\ pc'[u] = pc[u] /\ val'[u] = val[u]
<1>1. op[t] \in Operations /\ pc[t] \in DOMAIN Accesses[op[t]] /\ pc[t] \in Nat
  BY DEF TasksOK, Busy
<1>2. CASE Last(t) BY <1>1, <1>2 DEF Proceed, TasksOK, ValuesOK
<1>3. CASE ~Last(t) BY <1>1, <1>3 DEF Proceed, TasksOK
<1> QED BY <1>1, <1>2, <1>3

LEMMA ProceedTypes ==
    ASSUME TasksOK, ValuesOK, NEW t \in Task, Busy(t), Proceed(t)
    PROVE  TasksOK' /\ ValuesOK'
<1>1. op[t] \in Operations /\ pc[t] \in DOMAIN Accesses[op[t]] /\ pc[t] \in Nat
  BY ProceedIs
<1>2. /\ Len(Accesses[op[t]]) \in Nat
      /\ DOMAIN Accesses[op[t]] = 1 .. Len(Accesses[op[t]])
  BY <1>1, LockedNext
<1>3. CASE Last(t)
  <2>1. /\ pc' = [pc EXCEPT ![t] = 1] /\ op' = [op EXCEPT ![t] = "none"]
        /\ val' = [val EXCEPT ![t] = Nothing]
    BY <1>3 DEF Proceed
  <2>2. TasksOK' BY <2>1 DEF TasksOK, Busy
  <2>3. Nothing = [f \in Brought("none") |-> Nothing[f]]
    BY OperationNames DEF Nothing, Brought, Operations
  <2>4. \A u \in Task : val'[u] = [f \in Brought(op'[u]) |-> val'[u][f]]
    <3> TAKE u \in Task
    <3>1. CASE u = t BY <3>1, <2>1, <2>3 DEF ValuesOK, TasksOK
    <3>2. CASE u # t
      <4>1. val'[u] = val[u] /\ op'[u] = op[u] BY <3>2, <2>1 DEF ValuesOK, TasksOK
      <4> QED BY <4>1 DEF ValuesOK
    <3> QED BY <3>1, <3>2
  <2>5. val' = [u \in Task |-> val'[u]] BY <2>1 DEF ValuesOK
  <2> QED BY <2>2, <2>4, <2>5 DEF ValuesOK
<1>4. CASE ~Last(t)
  <2>1. pc' = [pc EXCEPT ![t] = @ + 1] /\ op' = op /\ val' = val BY <1>4 DEF Proceed
  <2>2. pc[t] + 1 \in DOMAIN Accesses[op[t]] BY <1>1, <1>2, <1>4 DEF Last
  <2>3. TasksOK' BY <2>1, <2>2, <1>1 DEF TasksOK, Busy
  <2> QED BY <2>1, <2>3 DEF ValuesOK
<1> QED BY <1>3, <1>4

\* Where an access leaves the task that makes it.
LEMMA ProceedInside ==
    ASSUME TasksOK, ValuesOK, NEW t \in Task, Busy(t), Proceed(t)
    PROVE  /\ Inside(t) <=> Locked(Accesses[op[t]], pc[t])
           /\ Inside(t)' <=> Locked(Accesses[op[t]], pc[t] + 1)
           /\ \A u \in Task \ {t} : Inside(u)' <=> Inside(u)
<1>1. /\ op[t] \in Operations /\ pc[t] \in DOMAIN Accesses[op[t]] /\ pc[t] \in Nat
      /\ Last(t) => op'[t] = "none" /\ pc'[t] = 1
      /\ ~Last(t) => op' = op /\ pc'[t] = pc[t] + 1
      /\ \A u \in Task \ {t} : op'[u] = op[u] /\ pc'[u] = pc[u]
  BY ProceedIs
<1>2. Inside(t) <=> Locked(Accesses[op[t]], pc[t]) BY DEF Inside
<1>3. CASE Last(t)
  <2>1. ~Inside(t)' BY <1>1, <1>3 DEF Inside, Busy
  <2>2. ~Locked(Accesses[op[t]], pc[t] + 1) BY <1>1, <1>3, LockedNext DEF Last
  <2> QED BY <1>1, <1>2, <2>1, <2>2 DEF Inside, Busy
<1>4. CASE ~Last(t) BY <1>1, <1>2, <1>4 DEF Inside, Busy
<1> QED BY <1>3, <1>4

\* An access that is neither a lock nor an unlock leaves every task where it was.
LEMMA SameInside ==
    ASSUME TasksOK, ValuesOK, OneInside, NEW t \in Task, Busy(t), Proceed(t),
           NextAccess(t).do \notin {"lock", "unlock"}, lock' = lock
    PROVE  OneInside' /\ \A u \in Task : Inside(u)' <=> Inside(u)
<1>1. op[t] \in Operations /\ pc[t] \in DOMAIN Accesses[op[t]] /\ pc[t] \in Nat
  BY ProceedIs
<1>2. Locked(Accesses[op[t]], pc[t] + 1) <=> Locked(Accesses[op[t]], pc[t])
  BY <1>1, LockedNext DEF NextAccess
<1>3. \A u \in Task : Inside(u)' <=> Inside(u) BY <1>2, ProceedInside
<1> QED BY <1>3 DEF OneInside

LEMMA LockInside ==
    ASSUME TasksOK, ValuesOK, OneInside, NEW t \in Task, Lock(t)
    PROVE  OneInside' /\ Inside(t)' /\ \A u \in Task \ {t} : ~Inside(u)'
<1>1. Busy(t) /\ Proceed(t) /\ NextAccess(t).do = "lock" /\ ~lock /\ lock'
  BY DEF Lock, At
<1>2. op[t] \in Operations /\ pc[t] \in DOMAIN Accesses[op[t]] /\ pc[t] \in Nat
  BY <1>1, ProceedIs
<1>3. Locked(Accesses[op[t]], pc[t] + 1) BY <1>1, <1>2, LockedNext DEF NextAccess
<1>4. Inside(t)' BY <1>1, <1>3, ProceedInside
<1>5. \A u \in Task : ~Inside(u) BY <1>1 DEF OneInside
<1>6. \A u \in Task \ {t} : ~Inside(u)' BY <1>1, <1>5, ProceedInside
<1> QED BY <1>1, <1>4, <1>6 DEF OneInside

LEMMA UnlockInside ==
    ASSUME TasksOK, ValuesOK, OneInside, NEW t \in Task, Unlock(t)
    PROVE  OneInside' /\ \A u \in Task : ~Inside(u)'
<1>1. Busy(t) /\ Proceed(t) /\ NextAccess(t).do = "unlock" /\ ~lock'
  BY DEF Unlock, At
<1>2. op[t] \in Operations /\ pc[t] \in DOMAIN Accesses[op[t]] /\ pc[t] \in Nat
  BY <1>1, ProceedIs
<1>3. /\ Locked(Accesses[op[t]], pc[t]) /\ ~Locked(Accesses[op[t]], pc[t] + 1)
  BY <1>1, <1>2, LockedNext DEF NextAccess
<1>4. Inside(t) /\ ~Inside(t)' BY <1>1, <1>3, ProceedInside
<1>5. \A u \in Task \ {t} : ~Inside(u) BY <1>4 DEF OneInside
<1>6. \A u \in Task \ {t} : ~Inside(u)' BY <1>1, <1>5, ProceedInside
<1> QED BY <1>1, <1>4, <1>6 DEF OneInside

\* What an update writes has the fields it brings.
LEMMA AcceptedFields ==
    ASSUME NEW o \in DOMAIN Brings, NEW r \in Requests[o]
    PROVE  Accepted(o, r) = [f \in Brings[o] |-> Accepted(o, r)[f]]
<1>1. r = [f \in Brings[o] |-> r[f]] BY StoreAssumption DEF StoreAssumption
<1>2. CASE o = "updateActuatorAssignment" BY <1>1, <1>2 DEF Accepted, Assigned
<1>3. CASE o # "updateActuatorAssignment"
  <2> DEFINE candidate == validateDeviceConfig(Over(r, cache))
  <2>1. Accepted(o, r) = [f \in DOMAIN r |-> candidate[f]] BY <1>3 DEF Accepted
  <2>2. DOMAIN r = Brings[o] BY <1>1
  <2> HIDE DEF candidate
  <2> QED BY <2>1, <2>2
<1> QED BY <1>2, <1>3

LEMMA RequestsAre == DOMAIN Requests = DOMAIN Brings /\ DOMAIN Brings \subseteq Operations
BY StoreAssumption DEF StoreAssumption, Operations

LEMMA CallIs ==
    ASSUME TasksOK, ValuesOK, NEW t \in Task, Call(t)
    PROVE  \E o \in Does[t] :
              /\ o \in Operations /\ op' = [op EXCEPT ![t] = o] /\ op'[t] = o
              /\ IF o \in DOMAIN Brings
                 THEN \E r \in Requests[o] : val' = [val EXCEPT ![t] = Accepted(o, r)]
                 ELSE val' = val /\ val[t] = Nothing
<1>1. PICK o \in Does[t] :
          /\ op' = [op EXCEPT ![t] = o]
          /\ IF o \in DOMAIN Requests
             THEN \E r \in Requests[o] : val' = [val EXCEPT ![t] = Accepted(o, r)]
             ELSE UNCHANGED val
  BY DEF Call
<1>2. o \in Operations BY StoreAssumption DEF StoreAssumption
<1>3. val[t] = Nothing
  <2>1. op[t] = "none" BY DEF Call, Busy
  <2>2. Brought(op[t]) = {} BY <2>1, OperationNames DEF Brought, Operations
  <2> QED BY <2>2 DEF ValuesOK, Nothing
<1>4. op'[t] = o BY <1>1 DEF TasksOK
<1> QED BY <1>1, <1>2, <1>3, <1>4, RequestsAre

LEMMA CallTypes ==
    ASSUME TypeOK, NEW t \in Task, Call(t)
    PROVE  TypeOK' /\ \A u \in Task : Inside(u)' <=> Inside(u)
<1>1. TasksOK /\ ValuesOK /\ ReadOK /\ SharedOK BY TypeParts
<1>2. PICK o \in Does[t] :
          /\ o \in Operations /\ op' = [op EXCEPT ![t] = o] /\ op'[t] = o
          /\ IF o \in DOMAIN Brings
             THEN \E r \in Requests[o] : val' = [val EXCEPT ![t] = Accepted(o, r)]
             ELSE val' = val /\ val[t] = Nothing
  BY <1>1, CallIs
<1>3. /\ op[t] = "none" /\ pc' = pc /\ handle' = handle /\ nvs' = nvs /\ cache' = cache
      /\ lock' = lock /\ got' = got /\ resets' = resets
  BY DEF Call, Busy
<1>4. pc[t] = 1 BY <1>1, <1>3 DEF TasksOK, Busy
<1>5. /\ 1 \in DOMAIN Accesses[o] /\ ~Locked(Accesses[o], 1) /\ o # "none"
  <2>1. PICK l, u \in Nat : Bracketed(Accesses[o], l, u) BY <1>2, AllBracketed
  <2>2. Len(Accesses[o]) \in Nat /\ Len(Accesses[o]) > 1
        /\ DOMAIN Accesses[o] = 1 .. Len(Accesses[o])
    BY <2>1 DEF Bracketed
  <2>3. 1 \in DOMAIN Accesses[o] /\ 1 \in 1 .. Len(Accesses[o]) BY <2>2
  <2> QED BY <1>2, <2>3, LockedNext, OperationNames
<1>6. TasksOK' BY <1>1, <1>2, <1>3, <1>4, <1>5 DEF TasksOK, Busy
<1>7. ValuesOK'
  <2>1. CASE o \in DOMAIN Brings
    <3>1. PICK r \in Requests[o] : val' = [val EXCEPT ![t] = Accepted(o, r)]
      BY <1>2, <2>1
    <3>2. PICK a : a = Accepted(o, r) OBVIOUS
    <3>3. a = [f \in Brings[o] |-> a[f]] BY <2>1, <3>2, AcceptedFields
    <3>4. val' = [val EXCEPT ![t] = a] BY <3>1, <3>2
    <3>5. \A u \in Task : val'[u] = IF u = t THEN a ELSE val[u] BY <1>1, <3>4 DEF ValuesOK
    <3>6. \A u \in Task : val'[u] = [f \in Brought(op'[u]) |-> val'[u][f]]
      <4> TAKE u \in Task
      <4>1. CASE u = t
        <5>1. Brought(op'[u]) = Brings[o] BY <4>1, <1>2, <2>1 DEF Brought
        <5> QED BY <5>1, <4>1, <3>3, <3>5
      <4>2. CASE u # t
        <5>1. val'[u] = val[u] /\ op'[u] = op[u] BY <4>2, <3>5, <1>1, <1>2 DEF TasksOK
        <5> QED BY <5>1, <1>1 DEF ValuesOK
      <4> QED BY <4>1, <4>2
    <3>7. val' = [u \in Task |-> val'[u]] BY <1>1, <3>4 DEF ValuesOK
    <3> QED BY <3>6, <3>7 DEF ValuesOK
  <2>2. CASE o \notin DOMAIN Brings
    <3>1. val' = val /\ val[t] = Nothing BY <1>2, <2>2
    <3>2. Brought(o) = {} /\ Nothing = [f \in {} |-> Nothing[f]]
      BY <2>2 DEF Brought, Nothing
    <3>3. \A u \in Task : val'[u] = [f \in Brought(op'[u]) |-> val'[u][f]]
      <4> TAKE u \in Task
      <4>1. CASE u = t BY <4>1, <1>2, <3>1, <3>2
      <4>2. CASE u # t
        <5>1. val'[u] = val[u] /\ op'[u] = op[u] BY <4>2, <3>1, <1>1, <1>2 DEF TasksOK
        <5> QED BY <5>1, <1>1 DEF ValuesOK
      <4> QED BY <4>1, <4>2
    <3> QED BY <3>1, <3>3, <1>1 DEF ValuesOK
  <2> QED BY <2>1, <2>2
<1>8. ReadOK' /\ SharedOK' BY <1>1, <1>3 DEF ReadOK, SharedOK, Shaped
<1>9. \A u \in Task : Inside(u)' <=> Inside(u)
  <2> TAKE u \in Task
  <2>1. CASE u = t BY <2>1, <1>2, <1>3, <1>4, <1>5 DEF Inside, Busy
  <2>2. CASE u # t
    <3>1. op'[u] = op[u] /\ pc'[u] = pc[u] BY <2>2, <1>1, <1>2, <1>3 DEF TasksOK
    <3> QED BY <3>1 DEF Inside, Busy
  <2> QED BY <2>1, <2>2
<1>10. TypeOK' BY <1>6, <1>7, <1>8, TypeParts, PTL
<1> QED BY <1>9, <1>10

\* What every access has in common.
Accessing(t) == OpenForWriting(t) \/ OpenForReading(t) \/ Close(t) \/ Put(t) \/ Get(t)
                  \/ Lock(t) \/ Unlock(t) \/ Set(t) \/ Fetch(t) \/ Mend(t) \/ Copy(t)

LEMMA AccessIs ==
    ASSUME NEW t \in Task, Access(t)
    PROVE  Accessing(t) \/ UNCHANGED vars
BY DEF Access, Accessing, Spin

LEMMA AccessingIs ==
    ASSUME TasksOK, ValuesOK, NEW t \in Task, Accessing(t)
    PROVE  /\ Busy(t) /\ Proceed(t) /\ resets' = resets
           /\ op[t] \in Operations /\ pc[t] \in DOMAIN Accesses[op[t]] /\ pc[t] \in Nat
           /\ Concerns(NextAccess(t), op[t], pc[t], Len(Accesses[op[t]]))
<1>1. Busy(t) /\ Proceed(t) /\ resets' = resets
  BY DEF Accessing, OpenForWriting, OpenForReading, Open, Close, Put, Get, Reads, Lock, Unlock,
         Set, Fetch, Mend, Writes, Copy, At
<1>2. op[t] \in Operations /\ pc[t] \in DOMAIN Accesses[op[t]] /\ pc[t] \in Nat
  BY <1>1, ProceedIs
<1>3. Concerns(NextAccess(t), op[t], pc[t], Len(Accesses[op[t]]))
  BY <1>2, AllConcern DEF NextAccess
<1> QED BY <1>1, <1>2, <1>3

LEMMA DropsRead ==
    ASSUME ReadOK, NEW t \in Task, Drops(t) \/ got' = got
    PROVE  ReadOK'
BY DEF ReadOK, Drops, Nothing

LEMMA ReadsRead ==
    ASSUME ReadOK, NEW t \in Task, NEW v, Reads(t, v), Field(t) \in DOMAIN DefaultStored
    PROVE  ReadOK'
<1>1. PICK g : g = Over([f \in {Field(t)} |-> v], got[t]) OBVIOUS
<1>2. got' = [got EXCEPT ![t] = g] BY <1>1 DEF Reads
<1>3. DOMAIN g \subseteq DOMAIN DefaultStored
  <2>1. DOMAIN g = {Field(t)} \cup DOMAIN got[t] BY <1>1 DEF Over
  <2> QED BY <2>1 DEF ReadOK
<1> QED BY <1>2, <1>3 DEF ReadOK

LEMMA SetShaped ==
    ASSUME NEW c, Shaped(c), NEW f, NEW v
    PROVE  Shaped([c EXCEPT ![f] = v])
BY DEF Shaped

LEMMA AccessTypes ==
    ASSUME TypeOK, NEW t \in Task, Accessing(t)
    PROVE  TypeOK'
<1>1. TasksOK /\ ValuesOK /\ ReadOK /\ SharedOK BY TypeParts
<1>2. /\ Busy(t) /\ Proceed(t) /\ resets' = resets
      /\ op[t] \in Operations
      /\ Concerns(NextAccess(t), op[t], pc[t], Len(Accesses[op[t]]))
  BY <1>1, AccessingIs
<1>3. TasksOK' /\ ValuesOK' BY <1>1, <1>2, ProceedTypes
<1>4. ReadOK' /\ SharedOK'
  <2>1. CASE OpenForWriting(t) \/ OpenForReading(t)
    <3>1. PICK ro \in BOOLEAN : Open(t, ro)
      BY <2>1 DEF OpenForWriting, OpenForReading
    <3>2. handle' \in [open: BOOLEAN, ro: BOOLEAN] BY <3>1, <1>1 DEF Open, SharedOK
    <3>3. nvs' = nvs /\ cache' = cache /\ lock' = lock /\ got' = got BY <3>1 DEF Open
    <3> QED BY <3>2, <3>3, <1>1, <1>2 DEF ReadOK, SharedOK, Shaped
  <2>2. CASE Close(t)
    <3>1. ReadOK' BY <2>2, <1>1, DropsRead DEF Close
    <3>2. SharedOK' BY <2>2, <1>1 DEF Close, SharedOK, Shaped
    <3> QED BY <3>1, <3>2
  <2>3. CASE Put(t)
    <3>1. nvs' = [f \in DOMAIN DefaultStored |-> nvs'[f]] BY <2>3, <1>1 DEF Put, SharedOK
    <3> QED BY <3>1, <2>3, <1>1 DEF Put, ReadOK, SharedOK, Shaped
  <2>4. CASE Get(t) \/ Copy(t)
    <3>1. Field(t) \in DOMAIN DefaultStored
      BY <2>4, <1>2, StoredFields DEF Get, Copy, At, Concerns, Field
    <3>2. ReadOK' BY <2>4, <3>1, <1>1, ReadsRead DEF Get, Copy
    <3>3. SharedOK' BY <2>4, <1>1 DEF Get, Copy, Reads, SharedOK, Shaped
    <3> QED BY <3>2, <3>3
  <2>5. CASE Lock(t) BY <2>5, <1>1 DEF Lock, ReadOK, SharedOK, Shaped
  <2>6. CASE Unlock(t)
    <3>1. ReadOK' BY <2>6, <1>1, DropsRead DEF Unlock
    <3>2. SharedOK' BY <2>6, <1>1 DEF Unlock, SharedOK, Shaped
    <3> QED BY <3>1, <3>2
  <2>7. CASE Set(t) \/ Fetch(t) \/ Mend(t)
    <3>1. Shaped(cache')
      <4>1. Shaped(cache) BY <1>1 DEF SharedOK
      <4>2. CASE Set(t) BY <4>1, <4>2, SetShaped DEF Set, Writes
      <4>3. CASE Fetch(t) BY <4>1, <4>3, SetShaped DEF Fetch, Writes
      <4>4. CASE Mend(t)
        <5>1. Field(t) \in Parts BY <4>4, <1>2 DEF Mend, At, Concerns, Field
        <5>2. \/ cache' = TargetMended(cache) \/ cache' = AssignmentMended(cache)
              \/ cache' = TimingMended(cache) \/ cache' = TuningMended(cache)
          BY <4>4, <5>1 DEF Mend, Writes, Parts
        <5> QED BY <4>1, <5>2, MendedShaped
      <4> QED BY <2>7, <4>2, <4>3, <4>4
    <3>2. ReadOK' BY <2>7, <1>1 DEF Set, Fetch, Mend, Writes, ReadOK
    <3>3. /\ handle' = handle /\ nvs' = nvs /\ lock' = lock
      BY <2>7 DEF Set, Fetch, Mend, Writes
    <3> QED BY <3>1, <3>2, <3>3, <1>1, <1>2 DEF SharedOK
  <2> QED BY <2>1, <2>2, <2>3, <2>4, <2>5, <2>6, <2>7 DEF Accessing
<1> QED BY <1>3, <1>4, TypeParts, PTL

LEMMA AccessExclusion ==
    ASSUME TypeOK, OneInside, NEW t \in Task, Accessing(t)
    PROVE  OneInside'
<1>1. TasksOK /\ ValuesOK BY TypeParts
<1>2. Busy(t) /\ Proceed(t) BY <1>1, AccessingIs
<1>3. CASE Lock(t) BY <1>1, <1>3, LockInside
<1>4. CASE Unlock(t) BY <1>1, <1>4, UnlockInside
<1>5. CASE ~Lock(t) /\ ~Unlock(t)
  <2>1. NextAccess(t).do \notin {"lock", "unlock"} /\ lock' = lock
    BY <1>5 DEF Accessing, OpenForWriting, OpenForReading, Open, Close, Put, Get, Reads, Set,
                Fetch, Mend, Writes, Copy, At
  <2> QED BY <1>1, <1>2, <2>1, SameInside
<1> QED BY <1>3, <1>4, <1>5

LEMMA IdleInside == \A t \in Task : op[t] = "none" => ~Inside(t)
BY DEF Inside, Busy

LEMMA InitTypes == Init => IInv
<1> SUFFICES ASSUME Init PROVE IInv OBVIOUS
<1>1. TasksOK BY DEF Init, TasksOK, Busy
<1>2. ValuesOK /\ ReadOK
  <2>1. Brought("none") = {} BY OperationNames DEF Brought, Operations
  <2>2. /\ op = [t \in Task |-> "none"] /\ val = [t \in Task |-> Nothing]
        /\ got = [t \in Task |-> Nothing]
    BY DEF Init
  <2>3. Nothing = [f \in {} |-> Nothing[f]] /\ DOMAIN Nothing = {} BY DEF Nothing
  <2>4. \A t \in Task : val[t] = [f \in Brought(op[t]) |-> val[t][f]]
    BY <2>1, <2>2, <2>3
  <2> QED BY <2>2, <2>3, <2>4 DEF ValuesOK, ReadOK
<1>3. SharedOK
  <2>1. nvs = [f \in DOMAIN DefaultStored |-> nvs[f]]
    <3>1. nvs = DefaultStored \/ \E damage \in Garbage : nvs = Over(damage, DefaultStored)
      BY DEF Init
    <3>2. \A damage \in Garbage : DOMAIN damage \subseteq DOMAIN DefaultStored
      BY StoreAssumption, StoredFields DEF StoreAssumption
    <3>3. DefaultStored = [f \in DOMAIN DefaultStored |-> DefaultStored[f]]
      BY DEF DefaultStored, Over
    <3>4. ASSUME NEW damage \in Garbage, nvs = Over(damage, DefaultStored)
          PROVE  nvs = [f \in DOMAIN DefaultStored |-> nvs[f]]
      <4>1. DOMAIN damage \cup DOMAIN DefaultStored = DOMAIN DefaultStored BY <3>2
      <4> QED BY <3>4, <4>1 DEF Over
    <3> QED BY <3>1, <3>3, <3>4
  <2>2. Shaped(cache) BY CachedShaped, ValidatedShaped DEF Init
  <2>3. MaxResets \in Nat BY StoreAssumption DEF StoreAssumption
  <2>4. /\ handle \in [open: BOOLEAN, ro: BOOLEAN] /\ lock \in BOOLEAN
        /\ resets \in 0 .. MaxResets
    <3>1. handle = [open |-> FALSE, ro |-> FALSE] /\ lock = FALSE /\ resets = 0 BY DEF Init
    <3>2. handle \in [open: BOOLEAN, ro: BOOLEAN] BY <3>1
    <3>3. lock \in BOOLEAN BY <3>1
    <3>4. resets \in 0 .. MaxResets BY <2>3, <3>1
    <3> QED BY <3>2, <3>3, <3>4
  <2> QED BY <2>1, <2>2, <2>4 DEF SharedOK
<1>4. OneInside BY IdleInside DEF Init, OneInside
<1> QED BY <1>1, <1>2, <1>3, <1>4, TypeParts DEF IInv

LEMMA RestartTypes ==
    ASSUME TypeOK, Restart
    PROVE  TypeOK' /\ OneInside'
<1>1. SharedOK BY TypeParts
<1>2. TasksOK' BY DEF Restart, TasksOK, Busy
<1>3. ValuesOK' /\ ReadOK'
  <2>1. Brought("none") = {} BY OperationNames DEF Brought, Operations
  <2>2. /\ op' = [t \in Task |-> "none"] /\ val' = [t \in Task |-> Nothing]
        /\ got' = [t \in Task |-> Nothing]
    BY DEF Restart
  <2>3. Nothing = [f \in {} |-> Nothing[f]] /\ DOMAIN Nothing = {} BY DEF Nothing
  <2>4. \A t \in Task : val'[t] = [f \in Brought(op'[t]) |-> val'[t][f]]
    BY <2>1, <2>2, <2>3
  <2> QED BY <2>2, <2>3, <2>4 DEF ValuesOK, ReadOK
<1>4. SharedOK'
  <2>1. Shaped(cache') BY CachedShaped, ValidatedShaped DEF Restart
  <2>2. MaxResets \in Nat BY StoreAssumption DEF StoreAssumption
  <2>3. resets' \in 0 .. MaxResets BY <1>1, <2>2 DEF Restart, SharedOK
  <2> QED BY <1>1, <2>1, <2>3 DEF Restart, SharedOK
<1>5. OneInside' BY DEF Restart, OneInside, Inside, Busy
<1> QED BY <1>2, <1>3, <1>4, <1>5, TypeParts, PTL

LEMMA StepTypes ==
    ASSUME IInv, [Next]_vars
    PROVE  IInv'
<1>1. TypeOK /\ OneInside BY DEF IInv
<1>2. CASE UNCHANGED vars
  BY <1>1, <1>2 DEF vars, IInv, TypeOK, OneInside, Inside, Busy
<1>3. CASE Restart BY <1>1, <1>3, RestartTypes DEF IInv
<1>4. ASSUME NEW t \in Task, Call(t) PROVE IInv'
  <2>1. TypeOK' /\ \A u \in Task : Inside(u)' <=> Inside(u) BY <1>1, <1>4, CallTypes
  <2>2. lock' = lock BY <1>4 DEF Call
  <2>3. OneInside' BY <1>1, <2>1, <2>2 DEF OneInside
  <2> QED BY <2>1, <2>3 DEF IInv
<1>5. ASSUME NEW t \in Task, Access(t) PROVE IInv'
  BY <1>1, <1>2, <1>5, AccessIs, AccessTypes, AccessExclusion DEF IInv
<1> QED BY <1>2, <1>3, <1>4, <1>5 DEF Next

\* In every reachable state the values have their types, and at most one task is between
\* the lock and the unlock of deviceConfigLock: exactly when the lock is set.
THEOREM Exclusion == Spec => []IInv
<1>1. Init => IInv BY InitTypes
<1>2. IInv /\ [Next]_vars => IInv' BY StepTypes
<1> QED BY <1>1, <1>2, PTL DEF Spec

\* The values of the store have their types.
THEOREM TypeCorrect == Spec => []TypeOK
BY Exclusion, PTL DEF IInv

-----------------------------------------------------------------------------
(* A snapshot is of settings that were in force together.                  *)

\* What changes the cache while the device runs.
LEMMA CacheWriters ==
    ASSUME NEW t \in Task, Accessing(t), cache' # cache
    PROVE  Set(t) \/ Fetch(t) \/ Mend(t)
BY DEF Accessing, OpenForWriting, OpenForReading, Open, Close, Put, Get, Reads, Lock, Unlock, Copy

LEMMA CopyingInside ==
    ASSUME TasksOK, NEW t \in Task, Copying(t)
    PROVE  Inside(t) /\ Busy(t) /\ NextAccess(t).do \in {"copy", "unlock"}
<1>1. Busy(t) /\ NextAccess(t).do \in {"copy", "unlock"} BY DEF Copying, At
<1>2. op[t] \in Operations /\ pc[t] \in DOMAIN Accesses[op[t]] BY <1>1 DEF TasksOK, Busy
<1>3. PICK l, u \in Nat : Bracketed(Accesses[op[t]], l, u) BY <1>2, AllBracketed
<1>4. pc[t] \in 1 .. Len(Accesses[op[t]]) BY <1>2, <1>3 DEF Bracketed
<1>5. Locked(Accesses[op[t]], pc[t]) BY <1>1, <1>2, <1>4, LockedNext DEF NextAccess
<1> QED BY <1>1, <1>5 DEF Inside

LEMMA StepWhole ==
    ASSUME IInv, [Next]_vars
    PROVE  [\A t \in Task : Copying(t) /\ Copying(t)' => Validates]_cache
<1>1. TasksOK /\ ValuesOK /\ OneInside BY TypeParts DEF IInv
<1>2. SUFFICES ASSUME cache' # cache, NEW u \in Task, Copying(u), Copying(u)'
               PROVE  Validates
  OBVIOUS
<1>3. Inside(u) /\ Busy(u) /\ NextAccess(u).do \in {"copy", "unlock"}
  BY <1>1, <1>2, CopyingInside
<1>4. ~Restart BY <1>2 DEF Restart, Copying, At, Busy
<1>5. PICK t \in Task : Access(t) BY <1>2, <1>4 DEF Next, vars, Call
<1>6. Accessing(t) BY <1>2, <1>5, AccessIs DEF vars
<1>7. Set(t) \/ Fetch(t) \/ Mend(t) BY <1>2, <1>6, CacheWriters
<1>8. /\ Busy(t) /\ Proceed(t)
      /\ op[t] \in Operations /\ pc[t] \in DOMAIN Accesses[op[t]] /\ pc[t] \in Nat
  BY <1>1, <1>6, AccessingIs
<1>9. pc[t] \in 1 .. Len(Accesses[op[t]]) BY <1>8, LockedNext
<1>10. ~Set(t) /\ ~Fetch(t)
  <2>1. ASSUME Set(t) \/ Fetch(t) PROVE FALSE
    <3>1. NextAccess(t).do \in {"set", "fetch"} BY <2>1 DEF Set, Fetch, At
    <3>2. Locked(Accesses[op[t]], pc[t]) BY <3>1, <1>8, <1>9, LockedNext DEF NextAccess
    <3>3. Inside(t) BY <3>2, <1>8 DEF Inside
    <3>4. t = u BY <3>3, <1>1, <1>3 DEF OneInside
    <3> QED BY <3>1, <3>4, <1>3
  <2> QED BY <2>1
<1>11. At(t, "mend") BY <1>7, <1>10 DEF Mend
<1>12. ~Last(t) BY <1>8, <1>9, <1>11, LockedNext DEF Last, At, NextAccess
<1>13. pc'[t] # pc[t] BY <1>1, <1>8, <1>12, ProceedIs
<1> QED BY <1>11, <1>13 DEF Validates

\* getDeviceConfigSnapshot() hands out settings that were in force together: while it
\* copies them nothing changes the cache but a load that validates what it fetched.
THEOREM WholeSnapshots == Spec => SnapshotIsWhole
<1>1. IInv /\ [Next]_vars => [\A t \in Task : Copying(t) /\ Copying(t)' => Validates]_cache
  BY StepWhole
<1> QED BY <1>1, Exclusion, PTL DEF Spec, SnapshotIsWhole

-----------------------------------------------------------------------------
(* What validation makes of each setting.                                  *)

Sane(cycle, travel) ==
    /\ travel \in 1 .. 15 /\ cycle \in 1 .. 120
    /\ cycle >= travel * MinStrokes
TargetOf(x) == IF x \in 10 .. 30 THEN x ELSE 22
HostOf(x) == IF x \in Hosts \cup {""} THEN x ELSE ""
ChannelOf(x) == IF x \in 0 .. 3 THEN x ELSE -1
KpRange == 1 .. 10000
IntervalRange == 1 .. 600
KpOf(x) == IF x \in KpRange THEN x ELSE 50
IntervalOf(x) == IF x \in IntervalRange THEN x ELSE 60

LEMMA Names ==
    /\ "target" \in Settings /\ "host" \in Settings /\ "channel" \in Settings
    /\ "cycle" \in Settings /\ "travel" \in Settings /\ "kp" \in Settings
    /\ "interval" \in Settings /\ "mqtt" \notin Settings
BY DEF Settings

LEMMA DefaultIs ==
    /\ Default["target"] = 22 /\ Default["host"] = "" /\ Default["channel"] = -1
    /\ Default["cycle"] = 20 /\ Default["travel"] = 3 /\ Default["kp"] = 50
    /\ Default["interval"] = 60
BY DEF Default

LEMMA TrustedIs ==
    ASSUME NEW c, Shaped(c), NEW f \in Settings, NEW range, NEW p, p = Trusted(c, f, range)
    PROVE  /\ Shaped(p)
           /\ p[f] = IF c[f] \in range THEN c[f] ELSE Default[f]
           /\ \A g \in Settings : g # f => p[g] = c[g]
<1>1. Shaped(p) BY TrustedShaped
<1>2. /\ p[f] = IF c[f] \in range THEN c[f] ELSE Default[f]
      /\ \A g \in Settings : g # f => p[g] = c[g]
  BY DEF Shaped, Trusted
<1> QED BY <1>1, <1>2

LEMMA TargetMendedIs ==
    ASSUME NEW c, Shaped(c)
    PROVE  \A g \in Settings : TargetMended(c)[g] =
              IF g = "target" THEN TargetOf(c["target"]) ELSE c[g]
<1>1. PICK p : p = TargetMended(c) OBVIOUS
<1>2. /\ p["target"] = IF c["target"] \in 10 .. 30 THEN c["target"] ELSE Default["target"]
      /\ \A g \in Settings : g # "target" => p[g] = c[g]
  BY <1>1, Names, TrustedIs DEF TargetMended
<1>3. p["target"] = TargetOf(c["target"]) BY <1>2, DefaultIs DEF TargetOf
<1> QED BY <1>1, <1>2, <1>3

LEMMA AssignmentMendedIs ==
    ASSUME NEW c, Shaped(c)
    PROVE  \A g \in Settings : AssignmentMended(c)[g] =
              IF c["host"] \in Hosts \cup {""}
              THEN IF g = "channel" THEN ChannelOf(c["channel"]) ELSE c[g]
              ELSE IF g = "channel" THEN -1 ELSE IF g = "host" THEN "" ELSE c[g]
<1>1. PICK p : p = Trusted(c, "channel", 0 .. 3) OBVIOUS
<1>2. /\ Shaped(p)
      /\ p["channel"] = IF c["channel"] \in 0 .. 3 THEN c["channel"] ELSE Default["channel"]
      /\ \A g \in Settings : g # "channel" => p[g] = c[g]
  BY <1>1, Names, TrustedIs
<1>3. \A g \in Settings : p[g] = IF g = "channel" THEN ChannelOf(c["channel"]) ELSE c[g]
  <2>1. p["channel"] = ChannelOf(c["channel"]) BY <1>2, DefaultIs DEF ChannelOf
  <2> QED BY <1>2, <2>1
<1>4. AssignmentMended(c) = IF c["host"] \in Hosts \cup {""} THEN p
                            ELSE [p EXCEPT !.host = "", !.channel = -1]
  BY <1>1, DefaultIs DEF AssignmentMended
<1>5. CASE c["host"] \in Hosts \cup {""} BY <1>3, <1>4, <1>5
<1>6. CASE c["host"] \notin Hosts \cup {""}
  <2>1. AssignmentMended(c) = [p EXCEPT !.host = "", !.channel = -1] BY <1>4, <1>6
  <2>2. \A g \in Settings : [p EXCEPT !.host = "", !.channel = -1][g] =
            IF g = "channel" THEN -1 ELSE IF g = "host" THEN "" ELSE p[g]
    BY <1>2, Names DEF Shaped
  <2> QED BY <1>3, <1>6, <2>1, <2>2
<1> QED BY <1>5, <1>6

LEMMA TimingMendedIs ==
    ASSUME NEW c, Shaped(c)
    PROVE  \A g \in Settings : TimingMended(c)[g] =
              IF Sane(c["cycle"], c["travel"]) THEN c[g]
              ELSE IF g = "cycle" THEN 20 ELSE IF g = "travel" THEN 3 ELSE c[g]
<1>1. TimingMended(c) = IF Sane(c["cycle"], c["travel"]) THEN c
                        ELSE [c EXCEPT !.cycle = 20, !.travel = 3]
  BY DefaultIs DEF TimingMended, Sane
<1>2. \A g \in Settings : [c EXCEPT !.cycle = 20, !.travel = 3][g] =
          IF g = "cycle" THEN 20 ELSE IF g = "travel" THEN 3 ELSE c[g]
  BY Names DEF Shaped
<1> QED BY <1>1, <1>2

LEMMA TuningMendedIs ==
    ASSUME NEW c, Shaped(c)
    PROVE  \A g \in Settings : TuningMended(c)[g] =
              IF g = "kp" THEN KpOf(c["kp"])
              ELSE IF g = "interval" THEN IntervalOf(c["interval"]) ELSE c[g]
<1>1. PICK p : p = Trusted(c, "kp", KpRange) OBVIOUS
<1>2. /\ Shaped(p)
      /\ p["kp"] = IF c["kp"] \in KpRange THEN c["kp"] ELSE Default["kp"]
      /\ \A g \in Settings : g # "kp" => p[g] = c[g]
  BY <1>1, Names, TrustedIs
<1>3. \A g \in Settings : p[g] = IF g = "kp" THEN KpOf(c["kp"]) ELSE c[g]
  <2>1. p["kp"] = KpOf(c["kp"]) BY <1>2, DefaultIs DEF KpOf
  <2> QED BY <1>2, <2>1
<1>4. PICK q : q = Trusted(p, "interval", IntervalRange) OBVIOUS
<1>5. TuningMended(c) = q
  <2>1. TuningMended(c) = Trusted(Trusted(c, "kp", KpRange), "interval", IntervalRange)
    BY DEF TuningMended, KpRange, IntervalRange
  <2> QED BY <1>1, <1>4, <2>1
<1>6. \A g \in Settings : q[g] = IF g = "interval" THEN IntervalOf(p["interval"]) ELSE p[g]
  <2>1. /\ q["interval"] = IF p["interval"] \in IntervalRange THEN p["interval"]
                            ELSE Default["interval"]
        /\ \A g \in Settings : g # "interval" => q[g] = p[g]
    BY <1>2, <1>4, Names, TrustedIs
  <2>2. q["interval"] = IntervalOf(p["interval"]) BY <2>1, DefaultIs DEF IntervalOf
  <2> QED BY <2>1, <2>2
<1>7. p["interval"] = c["interval"] BY <1>3, Names
<1> QED BY <1>3, <1>5, <1>6, <1>7

\* Each setting depends only on those it makes sense with.
Placed(host, channel) == IF host \in Hosts \cup {""} THEN ChannelOf(channel) ELSE -1
LEMMA ValidatedIs ==
    ASSUME NEW c, Shaped(c), NEW v, v = validateDeviceConfig(c)
    PROVE  /\ Shaped(v)
           /\ v["target"] = TargetOf(c["target"])
           /\ v["host"] = HostOf(c["host"])
           /\ v["channel"] = Placed(c["host"], c["channel"])
           /\ v["cycle"] = IF Sane(c["cycle"], c["travel"]) THEN c["cycle"] ELSE 20
           /\ v["travel"] = IF Sane(c["cycle"], c["travel"]) THEN c["travel"] ELSE 3
           /\ v["kp"] = KpOf(c["kp"])
           /\ v["interval"] = IntervalOf(c["interval"])
<1>1. PICK d : d = TargetMended(c) OBVIOUS
<1>2. PICK e : e = AssignmentMended(d) OBVIOUS
<1>3. PICK h : h = TimingMended(e) OBVIOUS
<1>4. v = TuningMended(h) BY <1>1, <1>2, <1>3 DEF validateDeviceConfig
<1>5. Shaped(d) /\ Shaped(e) /\ Shaped(h) /\ Shaped(v)
  BY <1>1, <1>2, <1>3, <1>4, MendedShaped
<1>6. \A g \in Settings : d[g] = IF g = "target" THEN TargetOf(c["target"]) ELSE c[g]
  BY <1>1, TargetMendedIs
<1>7. /\ d["target"] = TargetOf(c["target"]) /\ d["host"] = c["host"]
      /\ d["channel"] = c["channel"] /\ d["cycle"] = c["cycle"] /\ d["travel"] = c["travel"]
      /\ d["kp"] = c["kp"] /\ d["interval"] = c["interval"]
  BY <1>6, Names
<1>8. \A g \in Settings : e[g] =
          IF d["host"] \in Hosts \cup {""}
          THEN IF g = "channel" THEN ChannelOf(d["channel"]) ELSE d[g]
          ELSE IF g = "channel" THEN -1 ELSE IF g = "host" THEN "" ELSE d[g]
  BY <1>2, <1>5, AssignmentMendedIs
<1>9. /\ e["target"] = d["target"] /\ e["host"] = HostOf(d["host"])
      /\ e["channel"] = Placed(d["host"], d["channel"]) /\ e["cycle"] = d["cycle"]
      /\ e["travel"] = d["travel"] /\ e["kp"] = d["kp"] /\ e["interval"] = d["interval"]
  BY <1>8, Names DEF Placed, HostOf
<1>10. \A g \in Settings : h[g] =
          IF Sane(e["cycle"], e["travel"]) THEN e[g]
          ELSE IF g = "cycle" THEN 20 ELSE IF g = "travel" THEN 3 ELSE e[g]
  BY <1>3, <1>5, TimingMendedIs
<1>11. /\ h["target"] = e["target"] /\ h["host"] = e["host"] /\ h["channel"] = e["channel"]
       /\ h["cycle"] = IF Sane(e["cycle"], e["travel"]) THEN e["cycle"] ELSE 20
       /\ h["travel"] = IF Sane(e["cycle"], e["travel"]) THEN e["travel"] ELSE 3
       /\ h["kp"] = e["kp"] /\ h["interval"] = e["interval"]
  BY <1>10, Names
<1>12. \A g \in Settings : v[g] =
          IF g = "kp" THEN KpOf(h["kp"])
          ELSE IF g = "interval" THEN IntervalOf(h["interval"]) ELSE h[g]
  BY <1>4, <1>5, TuningMendedIs
<1>13. /\ v["target"] = h["target"] /\ v["host"] = h["host"] /\ v["channel"] = h["channel"]
       /\ v["cycle"] = h["cycle"] /\ v["travel"] = h["travel"]
       /\ v["kp"] = KpOf(h["kp"])
       /\ v["interval"] = IntervalOf(h["interval"])
  BY <1>12, Names
<1>14. v["target"] = TargetOf(c["target"]) BY <1>7, <1>9, <1>11, <1>13
<1>15. v["host"] = HostOf(c["host"]) BY <1>7, <1>9, <1>11, <1>13
<1>16. v["channel"] = Placed(c["host"], c["channel"]) BY <1>7, <1>9, <1>11, <1>13
<1>17. /\ v["cycle"] = IF Sane(c["cycle"], c["travel"]) THEN c["cycle"] ELSE 20
       /\ v["travel"] = IF Sane(c["cycle"], c["travel"]) THEN c["travel"] ELSE 3
  BY <1>7, <1>9, <1>11, <1>13
<1>18. v["kp"] = KpOf(c["kp"]) BY <1>7, <1>9, <1>11, <1>13
<1>19. v["interval"] = IntervalOf(c["interval"]) BY <1>7, <1>9, <1>11, <1>13
<1> QED BY <1>5, <1>14, <1>15, <1>16, <1>17, <1>18, <1>19

-----------------------------------------------------------------------------
(* An accepted value survives validation, and does not disturb it.         *)

Merged(a, c) == [f \in Settings |-> IF f \in DOMAIN a THEN a[f] ELSE c[f]]

LEMMA MergedIs ==
    ASSUME NEW a, NEW c, NEW m, m = Merged(a, c)
    PROVE  /\ Shaped(m)
           /\ \A f \in Settings : m[f] = IF f \in DOMAIN a THEN a[f] ELSE c[f]
BY DEF Merged, Shaped

LEMMA SameSettings ==
    ASSUME NEW c, Shaped(c), NEW d, Shaped(d), c["target"] = d["target"], c["host"] = d["host"],
           c["channel"] = d["channel"], c["cycle"] = d["cycle"], c["travel"] = d["travel"],
           c["kp"] = d["kp"], c["interval"] = d["interval"]
    PROVE  c = d
<1>1. \A f \in Settings : c[f] = d[f] BY DEF Settings
<1> QED BY <1>1 DEF Shaped

LEMMA Stable ==
    /\ \A x : TargetOf(TargetOf(x)) = TargetOf(x)
    /\ \A x : KpOf(KpOf(x)) = KpOf(x)
    /\ \A x : IntervalOf(IntervalOf(x)) = IntervalOf(x)
BY DEF TargetOf, KpOf, IntervalOf

\* What each update stores.
LEMMA AcceptedIs ==
    ASSUME Shaped(cache), NEW o \in DOMAIN Brings, NEW r \in Requests[o],
           NEW a, a = Accepted(o, r)
    PROVE  /\ DOMAIN a = Brings[o]
           /\ o = "updateTargetTemperature" => a["target"] = TargetOf(a["target"])
           /\ o = "updateActuatorAssignment" =>
                 \/ a["host"] \in Hosts /\ a["channel"] \in 0 .. 3
                 \/ a["host"] = "" /\ a["channel"] = -1
           /\ o = "updateActuatorTiming" =>
                 \/ Sane(a["cycle"], a["travel"])
                 \/ a["cycle"] = 20 /\ a["travel"] = 3
           /\ o = "updateTuning" =>
                 a["kp"] = KpOf(a["kp"]) /\ a["interval"] = IntervalOf(a["interval"])
<1>1. DOMAIN a = Brings[o] BY AcceptedFields
<1>2. r = [f \in Brings[o] |-> r[f]] BY StoreAssumption DEF StoreAssumption
<1>3. CASE o = "updateActuatorAssignment"
  <2>1. a = Assigned(r) BY <1>3 DEF Accepted
  <2>2. Brings[o] = {"host", "channel"} BY <1>3, BringsIs
  <2>3. CASE r.host \in Hosts /\ r.channel \in 0 .. 3 BY <1>1, <1>3, <2>1, <2>3 DEF Assigned
  <2>4. CASE ~(r.host \in Hosts /\ r.channel \in 0 .. 3)
    <3>1. a = [r EXCEPT !.host = "", !.channel = -1] BY <2>1, <2>4, DefaultIs DEF Assigned
    <3>2. a["host"] = "" /\ a["channel"] = -1 BY <3>1, <1>2, <2>2
    <3> QED BY <1>1, <1>3, <3>2
  <2> QED BY <2>3, <2>4
<1>4. CASE o = "saveMqttConfig" BY <1>1, <1>4
<1>5. CASE o \in {"updateTargetTemperature", "updateActuatorTiming", "updateTuning"}
  <2>1. PICK c : c = Over(r, cache) OBVIOUS
  <2>2. Brings[o] \subseteq Settings BY <1>5, BringsIs, Names
  <2>3. Shaped(c)
    <3>1. DOMAIN r \cup DOMAIN cache = Settings BY <1>2, <2>2 DEF Shaped
    <3> QED BY <2>1, <3>1 DEF Over, Shaped
  <2>4. PICK v : v = validateDeviceConfig(c) OBVIOUS
  <2>5. /\ v["target"] = TargetOf(c["target"])
        /\ v["cycle"] = IF Sane(c["cycle"], c["travel"]) THEN c["cycle"] ELSE 20
        /\ v["travel"] = IF Sane(c["cycle"], c["travel"]) THEN c["travel"] ELSE 3
        /\ v["kp"] = KpOf(c["kp"])
        /\ v["interval"] = IntervalOf(c["interval"])
    BY <2>3, <2>4, ValidatedIs
  <2>6. a = [f \in DOMAIN r |-> v[f]] BY <1>5, <2>1, <2>4 DEF Accepted
  <2>7. \A f \in Brings[o] : a[f] = v[f] BY <1>2, <2>6
  <2>8. CASE o = "updateTargetTemperature"
    <3>1. a["target"] = v["target"] BY <2>7, <2>8, BringsIs
    <3> QED BY <1>1, <2>5, <2>8, <3>1, Stable
  <2>9. CASE o = "updateActuatorTiming"
    <3>1. a["cycle"] = v["cycle"] /\ a["travel"] = v["travel"] BY <2>7, <2>9, BringsIs
    <3> QED BY <1>1, <2>5, <2>9, <3>1
  <2>10. CASE o = "updateTuning"
    <3>1. a["kp"] = v["kp"] /\ a["interval"] = v["interval"] BY <2>7, <2>10, BringsIs
    <3> QED BY <1>1, <2>5, <2>10, <3>1, Stable
  <2> QED BY <1>5, <2>8, <2>9, <2>10
<1> QED BY <1>3, <1>4, <1>5, OperationNames

LEMMA Agreement ==
    ASSUME NEW stored, Shaped(stored), cache = validateDeviceConfig(stored),
           NEW o \in DOMAIN Brings, NEW r \in Requests[o], NEW a, a = Accepted(o, r)
    PROVE  Merged(a, cache) = validateDeviceConfig(Merged(a, stored))
<1>1. /\ Shaped(cache)
      /\ cache["target"] = TargetOf(stored["target"])
      /\ cache["host"] = HostOf(stored["host"])
      /\ cache["channel"] = Placed(stored["host"], stored["channel"])
      /\ cache["cycle"] = IF Sane(stored["cycle"], stored["travel"]) THEN stored["cycle"] ELSE 20
      /\ cache["travel"] = IF Sane(stored["cycle"], stored["travel"]) THEN stored["travel"] ELSE 3
      /\ cache["kp"] = KpOf(stored["kp"])
      /\ cache["interval"] = IntervalOf(stored["interval"])
  BY ValidatedIs
<1>2. PICK m : m = Merged(a, stored) OBVIOUS
<1>3. PICK v : v = validateDeviceConfig(m) OBVIOUS
<1>4. PICK n : n = Merged(a, cache) OBVIOUS
<1>5. Shaped(m) /\ \A f \in Settings : m[f] = IF f \in DOMAIN a THEN a[f] ELSE stored[f]
  BY <1>2, MergedIs
<1>6. Shaped(n) /\ \A f \in Settings : n[f] = IF f \in DOMAIN a THEN a[f] ELSE cache[f]
  BY <1>4, MergedIs
<1>7. /\ Shaped(v)
      /\ v["target"] = TargetOf(m["target"])
      /\ v["host"] = HostOf(m["host"])
      /\ v["channel"] = Placed(m["host"], m["channel"])
      /\ v["cycle"] = IF Sane(m["cycle"], m["travel"]) THEN m["cycle"] ELSE 20
      /\ v["travel"] = IF Sane(m["cycle"], m["travel"]) THEN m["travel"] ELSE 3
      /\ v["kp"] = KpOf(m["kp"])
      /\ v["interval"] = IntervalOf(m["interval"])
  BY <1>3, <1>5, ValidatedIs
<1>8. DOMAIN a = Brings[o] BY <1>1, AcceptedIs
<1>9. n["target"] = v["target"]
  <2>1. CASE "target" \in Brings[o]
    <3>1. o = "updateTargetTemperature" BY <2>1, BringsIs, OperationNames
    <3>2. a["target"] = TargetOf(a["target"]) BY <1>1, <3>1, AcceptedIs
    <3>3. n["target"] = a["target"] /\ m["target"] = a["target"]
      BY <1>5, <1>6, <1>8, <2>1, Names
    <3> QED BY <1>7, <3>2, <3>3
  <2>2. CASE "target" \notin Brings[o] BY <1>1, <1>5, <1>6, <1>7, <1>8, <2>2, Names
  <2> QED BY <2>1, <2>2
<1>10. n["host"] = v["host"] /\ n["channel"] = v["channel"]
  <2>1. CASE o = "updateActuatorAssignment"
    <3>1. "host" \in DOMAIN a /\ "channel" \in DOMAIN a BY <1>8, <2>1, BringsIs
    <3>2. /\ n["host"] = a["host"] /\ m["host"] = a["host"]
          /\ n["channel"] = a["channel"] /\ m["channel"] = a["channel"]
      BY <1>5, <1>6, <3>1, Names
    <3>3. \/ a["host"] \in Hosts /\ a["channel"] \in 0 .. 3
          \/ a["host"] = "" /\ a["channel"] = -1
      BY <1>1, <2>1, AcceptedIs
    <3> QED BY <1>7, <3>2, <3>3 DEF HostOf, Placed, ChannelOf
  <2>2. CASE o # "updateActuatorAssignment"
    <3>1. "host" \notin Brings[o] /\ "channel" \notin Brings[o]
      BY <2>2, BringsIs, OperationNames
    <3>2. /\ n["host"] = cache["host"] /\ m["host"] = stored["host"]
          /\ n["channel"] = cache["channel"] /\ m["channel"] = stored["channel"]
      BY <1>5, <1>6, <1>8, <3>1, Names
    <3> QED BY <1>1, <1>7, <3>2
  <2> QED BY <2>1, <2>2
<1>11. n["cycle"] = v["cycle"] /\ n["travel"] = v["travel"]
  <2>1. CASE o = "updateActuatorTiming"
    <3>1. "cycle" \in DOMAIN a /\ "travel" \in DOMAIN a BY <1>8, <2>1, BringsIs
    <3>2. /\ n["cycle"] = a["cycle"] /\ m["cycle"] = a["cycle"]
          /\ n["travel"] = a["travel"] /\ m["travel"] = a["travel"]
      BY <1>5, <1>6, <3>1, Names
    <3>3. o = "updateActuatorTiming" =>
             \/ Sane(a["cycle"], a["travel"])
             \/ a["cycle"] = 20 /\ a["travel"] = 3
      BY <1>1, AcceptedIs
    <3>4. \/ Sane(a["cycle"], a["travel"])
          \/ a["cycle"] = 20 /\ a["travel"] = 3
      BY <2>1, <3>3
    <3> QED BY <1>7, <3>2, <3>4
  <2>2. CASE o # "updateActuatorTiming"
    <3>1. "cycle" \notin Brings[o] /\ "travel" \notin Brings[o]
      BY <2>2, BringsIs, OperationNames
    <3>2. /\ n["cycle"] = cache["cycle"] /\ m["cycle"] = stored["cycle"]
          /\ n["travel"] = cache["travel"] /\ m["travel"] = stored["travel"]
      BY <1>5, <1>6, <1>8, <3>1, Names
    <3> QED BY <1>1, <1>7, <3>2
  <2> QED BY <2>1, <2>2
<1>12. n["kp"] = v["kp"] /\ n["interval"] = v["interval"]
  <2>1. CASE o = "updateTuning"
    <3>1. "kp" \in DOMAIN a /\ "interval" \in DOMAIN a BY <1>8, <2>1, BringsIs
    <3>2. /\ n["kp"] = a["kp"] /\ m["kp"] = a["kp"]
          /\ n["interval"] = a["interval"] /\ m["interval"] = a["interval"]
      BY <1>5, <1>6, <3>1, Names
    <3>3. a["kp"] = KpOf(a["kp"]) /\ a["interval"] = IntervalOf(a["interval"])
      BY <1>1, <2>1, AcceptedIs
    <3> QED BY <1>7, <3>2, <3>3
  <2>2. CASE o # "updateTuning"
    <3>1. "kp" \notin Brings[o] /\ "interval" \notin Brings[o]
      BY <2>2, BringsIs, OperationNames
    <3>2. /\ n["kp"] = cache["kp"] /\ m["kp"] = stored["kp"]
          /\ n["interval"] = cache["interval"] /\ m["interval"] = stored["interval"]
      BY <1>5, <1>6, <1>8, <3>1, Names
    <3> QED BY <1>1, <1>7, <3>2
  <2> QED BY <2>1, <2>2
<1>13. n = v BY <1>6, <1>7, <1>9, <1>10, <1>11, <1>12, SameSettings
<1> QED BY <1>2, <1>3, <1>4, <1>13

-----------------------------------------------------------------------------
(* One task stores at a time: what it has done, and what it is at.          *)

Own(t) == HandleIsOwn(t) /\ IF op[t] = "loadDeviceConfig" THEN LoadIsTrue(t) ELSE UpdateIsTrue(t)
Settled == ~handle.open /\ cache = validateDeviceConfig(Cached(nvs))

LEMMA StoreParts == StoreInv <=>
    /\ (\A t \in Task : ~Storing(t)) => Settled
    /\ \A t \in Task : Storing(t) => Own(t)
BY DEF StoreInv, Own, Settled

LEMMA CompletedIs == \A t \in Task : \A c : Completed(t, c) = Merged(val[t], c)
BY DEF Completed, Merged

LEMMA DidNext ==
    ASSUME TasksOK, ValuesOK, NEW t \in Task, Busy(t), Proceed(t), ~Last(t), NEW what, NEW f
    PROVE  Did(t, what, f)' <=> Did(t, what, f) \/ NextAccess(t) = [do |-> what, of |-> f]
<1>1. /\ op[t] \in Operations /\ pc[t] \in DOMAIN Accesses[op[t]] /\ pc[t] \in Nat
      /\ op' = op /\ pc'[t] = pc[t] + 1
  BY ProceedIs
<1>2. PICK L : L = Accesses[op[t]] OBVIOUS
<1>3. DOMAIN L = 1 .. Len(L) /\ Len(L) \in Nat
  <2>1. PICK l, u \in Nat : Bracketed(L, l, u) BY <1>1, <1>2, AllBracketed
  <2> QED BY <2>1 DEF Bracketed
<1>4. PICK a : a = [do |-> what, of |-> f] OBVIOUS
<1>5. Did(t, what, f) <=> \E i \in DOMAIN L : i < pc[t] /\ L[i] = a
  BY <1>2, <1>4 DEF Did
<1>6. Did(t, what, f)' <=> \E i \in DOMAIN L : i < pc[t] + 1 /\ L[i] = a
  BY <1>1, <1>2, <1>4 DEF Did
<1>7. \A i \in DOMAIN L : i < pc[t] + 1 <=> i < pc[t] \/ i = pc[t] BY <1>1, <1>3
<1>8. NextAccess(t) = L[pc[t]] BY <1>2 DEF NextAccess
<1>9. pc[t] \in DOMAIN L BY <1>1, <1>2
<1> QED BY <1>4, <1>5, <1>6, <1>7, <1>8, <1>9

\* At its beginning a call has done nothing.
LEMMA DidNothing ==
    ASSUME NEW t \in Task, op[t] \in Operations, pc[t] = 1, NEW what, NEW f
    PROVE  ~Did(t, what, f)
<1>1. PICK l, u \in Nat : Bracketed(Accesses[op[t]], l, u) BY AllBracketed
<1> QED BY <1>1 DEF Bracketed, Did

\* Before it closes the handle an update has stored what it brings, and set it.
LEMMA AllStored ==
    ASSUME NEW t \in Task, op[t] \in Updates, Last(t), NEW f \in Brings[op[t]]
    PROVE  Did(t, "put", f) /\ Did(t, "set", f)
<1>1. put(f) = [do |-> "put", of |-> f] /\ set(f) = [do |-> "set", of |-> f] BY DEF put, set
<1>2. PICK L : L = Accesses[op[t]] OBVIOUS
<1>3. SUFFICES \E i, j \in DOMAIN L : i < Len(L) /\ j < Len(L) /\ L[i] = put(f) /\ L[j] = set(f)
  BY <1>1, <1>2 DEF Did, Last
<1>4. CASE op[t] = "updateTargetTemperature"
  <2>1. L = updateTargetTemperature /\ f = "target" BY <1>2, <1>4, Lists, BringsIs
  <2>2. /\ Len(L) = 6 /\ L[2] = put(f) /\ L[4] = set(f) /\ DOMAIN L = 1 .. 6
    BY <2>1, TargetIs
  <2>3. 2 \in DOMAIN L /\ 4 \in DOMAIN L /\ 2 < Len(L) /\ 4 < Len(L) BY <2>2
  <2> QED BY <2>2, <2>3
<1>5. CASE op[t] # "updateTargetTemperature"
  <2>1. PICK a, b : L = Update(a, b) /\ f \in {a, b}
    BY <1>2, <1>5, Lists, BringsIs DEF Updates
  <2>2. /\ Len(L) = 8 /\ L[2] = put(a) /\ L[3] = put(b) /\ L[5] = set(a) /\ L[6] = set(b)
        /\ DOMAIN L = 1 .. 8
    BY <2>1, UpdateIs
  <2>3. /\ 2 \in DOMAIN L /\ 3 \in DOMAIN L /\ 5 \in DOMAIN L /\ 6 \in DOMAIN L
        /\ 2 < Len(L) /\ 3 < Len(L) /\ 5 < Len(L) /\ 6 < Len(L)
    BY <2>2
  <2>4. CASE f = a BY <2>2, <2>3, <2>4
  <2>5. CASE f = b BY <2>2, <2>3, <2>5
  <2> QED BY <2>1, <2>4, <2>5
<1> QED BY <1>4, <1>5

\* A load, access by access.
LoadForm == \A t \in Task : \A c : op[t] = "loadDeviceConfig" /\ c = Cached(nvs) =>
    /\ pc[t] \in 1 .. 10 =>
          (LoadIsTrue(t) <=> \A f \in Settings : Did(t, "fetch", f) => cache[f] = nvs[f])
    /\ pc[t] = 11 => (LoadIsTrue(t) <=> cache = c)
    /\ pc[t] = 12 => (LoadIsTrue(t) <=> cache = TargetMended(c))
    /\ pc[t] = 13 => (LoadIsTrue(t) <=> cache = AssignmentMended(TargetMended(c)))
    /\ pc[t] = 14 => (LoadIsTrue(t) <=> cache = TimingMended(AssignmentMended(TargetMended(c))))
    /\ pc[t] = 15 => (LoadIsTrue(t) <=> cache = validateDeviceConfig(c))

LEMMA LoadPc == LoadForm
<1> SUFFICES ASSUME NEW t \in Task, NEW c, op[t] = "loadDeviceConfig", c = Cached(nvs)
             PROVE
               /\ pc[t] \in 1 .. 10 =>
                     (LoadIsTrue(t) <=> \A f \in Settings : Did(t, "fetch", f) => cache[f] = nvs[f])
               /\ pc[t] = 11 => (LoadIsTrue(t) <=> cache = c)
               /\ pc[t] = 12 => (LoadIsTrue(t) <=> cache = TargetMended(c))
               /\ pc[t] = 13 => (LoadIsTrue(t) <=> cache = AssignmentMended(TargetMended(c)))
               /\ pc[t] = 14 => (LoadIsTrue(t) <=> cache = TimingMended(AssignmentMended(TargetMended(c))))
               /\ pc[t] = 15 => (LoadIsTrue(t) <=> cache = validateDeviceConfig(c))
  BY DEF LoadForm
<1>1. Busy(t) BY DEF Busy
<1>2. PICK L : L = loadDeviceConfig OBVIOUS
<1>3. Accesses[op[t]] = L BY <1>2, Lists
<1>4. NextAccess(t) = L[pc[t]] BY <1>3 DEF NextAccess
<1>5. CASE pc[t] \in 1 .. 10
  <2>1. \A i \in 1 .. 10 : L[i].do \notin {"mend", "close"}
    <3>1. \A i \in 1 .. 10 : \/ i = 1 \/ i = 2 \/ i = 3 \/ i = 4 \/ i = 5 \/ i = 6
                             \/ i = 7 \/ i = 8 \/ i = 9 \/ i = 10
      OBVIOUS
    <3>2. /\ openRO.do = "openRO" /\ acquire.do = "lock" /\ release.do = "unlock"
          /\ \A f : fetch(f).do = "fetch"
      BY DEF openRO, acquire, release, fetch
    <3>3. /\ L[1].do = "openRO" /\ L[2].do = "lock" /\ L[3].do = "fetch" /\ L[4].do = "fetch"
          /\ L[5].do = "fetch" /\ L[6].do = "fetch" /\ L[7].do = "fetch" /\ L[8].do = "fetch"
          /\ L[9].do = "fetch" /\ L[10].do = "unlock"
      BY <1>2, <3>2, LoadIs
    <3> QED BY <3>1, <3>3
  <2>2. ~At(t, "mend") /\ ~At(t, "close") BY <1>4, <1>5, <2>1 DEF At
  <2> QED BY <1>5, <2>2 DEF LoadIsTrue
<1>6. ASSUME NEW part \in Parts, NextAccess(t) = mend(part)
      PROVE  LoadIsTrue(t) <=> cache =
                CASE part = "target"     -> c
                  [] part = "assignment" -> TargetMended(c)
                  [] part = "timing"     -> AssignmentMended(TargetMended(c))
                  [] part = "tuning"     -> TimingMended(AssignmentMended(TargetMended(c)))
  <2>1. At(t, "mend") /\ ~At(t, "close") /\ Field(t) = part BY <1>1, <1>6 DEF At, Field, mend
  <2> QED BY <2>1 DEF LoadIsTrue
<1>7. {"target", "assignment", "timing", "tuning"} \subseteq Parts BY DEF Parts
<1>8. CASE pc[t] = 11
  <2>1. NextAccess(t) = mend("target") BY <1>2, <1>4, <1>8, LoadIs
  <2> QED BY <1>6, <1>7, <1>8, <2>1
<1>9. CASE pc[t] = 12
  <2>1. NextAccess(t) = mend("assignment") BY <1>2, <1>4, <1>9, LoadIs
  <2> QED BY <1>6, <1>7, <1>9, <2>1
<1>10. CASE pc[t] = 13
  <2>1. NextAccess(t) = mend("timing") BY <1>2, <1>4, <1>10, LoadIs
  <2> QED BY <1>6, <1>7, <1>10, <2>1
<1>11. CASE pc[t] = 14
  <2>1. NextAccess(t) = mend("tuning") BY <1>2, <1>4, <1>11, LoadIs
  <2> QED BY <1>6, <1>7, <1>11, <2>1
<1>12. CASE pc[t] = 15
  <2>1. NextAccess(t) = close BY <1>2, <1>4, <1>12, LoadIs
  <2>2. NextAccess(t).do = "close"
    <3>1. close.do = "close" BY DEF close
    <3> QED BY <2>1, <3>1
  <2>3. At(t, "close") /\ ~At(t, "mend") BY <1>1, <2>2 DEF At
  <2> QED BY <1>12, <2>3 DEF LoadIsTrue
<1> QED BY <1>5, <1>8, <1>9, <1>10, <1>11, <1>12

\* The handle is the task's own until it closes it, at the end.
LEMMA OwnHandle ==
    ASSUME TasksOK, ValuesOK, SharedOK, NEW t \in Task, Storing(t), Accessing(t), HandleIsOwn(t)
    PROVE  /\ pc[t] > 1 => handle.open /\ handle.ro = (op[t] \notin DOMAIN Brings)
           /\ At(t, "put") \/ At(t, "fetch") => pc[t] > 1
           /\ ~Last(t) => HandleIsOwn(t)'
           /\ Last(t) => ~handle'.open /\ nvs' = nvs /\ cache' = cache /\ At(t, "close")
<1>1. /\ Busy(t) /\ Proceed(t)
      /\ op[t] \in Operations /\ pc[t] \in DOMAIN Accesses[op[t]] /\ pc[t] \in Nat
      /\ Concerns(NextAccess(t), op[t], pc[t], Len(Accesses[op[t]]))
  BY AccessingIs
<1>2. /\ Len(Accesses[op[t]]) \in Nat /\ Len(Accesses[op[t]]) > 1
      /\ pc[t] \in 1 .. Len(Accesses[op[t]])
  <2>1. PICK l, u \in Nat : Bracketed(Accesses[op[t]], l, u) BY <1>1, AllBracketed
  <2> QED BY <1>1, <2>1 DEF Bracketed
<1>3. op[t] # "getDeviceConfigSnapshot" BY DEF Storing
<1>4. /\ pc[t] = 1 => NextAccess(t).do \in {"openRW", "openRO"}
      /\ NextAccess(t).do \in {"openRW", "openRO"} => pc[t] = 1
      /\ Last(t) => NextAccess(t).do = "close"
      /\ NextAccess(t).do = "close" => Last(t)
      /\ NextAccess(t).do = "openRW" => op[t] \in DOMAIN Brings
      /\ NextAccess(t).do = "openRO" => op[t] \notin DOMAIN Brings
  BY <1>1, <1>3, OperationNames DEF Concerns, Last
<1>5. pc[t] > 1 => handle.open /\ handle.ro = (op[t] \notin DOMAIN Brings)
  BY DEF HandleIsOwn
<1>6. At(t, "put") \/ At(t, "fetch") => pc[t] > 1 BY <1>1, <1>2, <1>4 DEF At
<1>7. ASSUME ~Last(t) PROVE HandleIsOwn(t)'
  <2>1. op' = op /\ pc'[t] = pc[t] + 1 BY <1>1, <1>7, ProceedIs
  <2>2. CASE pc[t] = 1
    <3>1. ~handle.open BY <2>2 DEF HandleIsOwn
    <3>2. CASE NextAccess(t).do = "openRW"
      <4>1. OpenForWriting(t)
        BY <3>2 DEF Accessing, OpenForReading, Close, Put, Get, Lock, Unlock, Set, Fetch, Mend,
                    Copy, At
      <4>2. handle' = [open |-> TRUE, ro |-> FALSE] BY <3>1, <4>1 DEF OpenForWriting, Open
      <4>3. handle'.open /\ ~handle'.ro BY <4>2
      <4>4. op'[t] \in DOMAIN Brings /\ pc'[t] > 1 BY <1>4, <2>1, <2>2, <3>2
      <4> QED BY <4>2, <4>3, <4>4 DEF HandleIsOwn
    <3>3. CASE NextAccess(t).do = "openRO"
      <4>1. OpenForReading(t)
        BY <3>3 DEF Accessing, OpenForWriting, Close, Put, Get, Lock, Unlock, Set, Fetch, Mend,
                    Copy, At
      <4>2. handle' = [open |-> TRUE, ro |-> TRUE] BY <3>1, <4>1 DEF OpenForReading, Open
      <4>3. handle'.open /\ handle'.ro BY <4>2
      <4>4. op'[t] \notin DOMAIN Brings /\ pc'[t] > 1 BY <1>4, <2>1, <2>2, <3>3
      <4> QED BY <4>2, <4>3, <4>4 DEF HandleIsOwn
    <3> QED BY <1>4, <2>2, <3>2, <3>3
  <2>3. CASE pc[t] # 1
    <3>1. pc[t] > 1 /\ pc'[t] > 1 BY <1>1, <1>2, <2>1, <2>3
    <3>2. NextAccess(t).do \notin {"openRW", "openRO", "close"} BY <1>4, <1>7, <2>3
    <3>3. handle' = handle
      BY <3>2 DEF Accessing, OpenForWriting, OpenForReading, Close, Put, Get, Reads, Lock,
                  Unlock, Set, Fetch, Mend, Writes, Copy, At
    <3> QED BY <2>1, <3>1, <3>3 DEF HandleIsOwn
  <2> QED BY <2>2, <2>3
<1>8. ASSUME Last(t)
      PROVE  ~handle'.open /\ nvs' = nvs /\ cache' = cache /\ At(t, "close")
  <2>1. NextAccess(t).do = "close" BY <1>4, <1>8
  <2>2. Close(t)
    BY <2>1 DEF Accessing, OpenForWriting, OpenForReading, Put, Get, Lock, Unlock, Set, Fetch,
                Mend, Copy, At
  <2>3. handle' = [open |-> FALSE, ro |-> FALSE] /\ nvs' = nvs /\ cache' = cache /\ At(t, "close")
    BY <2>2 DEF Close
  <2> QED BY <2>3
<1> QED BY <1>5, <1>6, <1>7, <1>8

UpdateForm == \A t \in Task : UpdateIsTrue(t) <=>
    /\ \A f \in DOMAIN val[t] : Did(t, "put", f) => nvs[f] = val[t][f]
    /\ \A f \in DOMAIN val[t] : Did(t, "set", f) => cache[f] = val[t][f]
    /\ \E c, d : c = Completed(t, cache) /\ d = Completed(t, nvs) /\ c = validateDeviceConfig(d)

LEMMA UpdateFormed == UpdateForm
BY DEF UpdateForm, UpdateIsTrue

\* An update, or a load of settings that are not cached, goes on.
LEMMA UpdateStep ==
    ASSUME TasksOK, ValuesOK, SharedOK, NEW t \in Task, Storing(t), Accessing(t), HandleIsOwn(t),
           op[t] # "loadDeviceConfig", UpdateIsTrue(t), ~Last(t)
    PROVE  UpdateIsTrue(t)'
<1>1. /\ Busy(t) /\ Proceed(t)
      /\ op[t] \in Operations /\ pc[t] \in DOMAIN Accesses[op[t]] /\ pc[t] \in Nat
      /\ Concerns(NextAccess(t), op[t], pc[t], Len(Accesses[op[t]]))
  BY AccessingIs
<1>2. op' = op /\ val' = val BY <1>1, ProceedIs
<1>4. NextAccess(t) = [do |-> NextAccess(t).do, of |-> Field(t)] BY <1>1 DEF Concerns, Field
<1>5. \A f : /\ Did(t, "put", f)' =>
                    Did(t, "put", f) \/ (NextAccess(t).do = "put" /\ f = Field(t))
             /\ Did(t, "set", f)' =>
                    Did(t, "set", f) \/ (NextAccess(t).do = "set" /\ f = Field(t))
  <2> TAKE f
  <2>1. Did(t, "put", f)' => Did(t, "put", f) \/ (NextAccess(t).do = "put" /\ f = Field(t))
    <3>1. Did(t, "put", f)' <=> Did(t, "put", f) \/ NextAccess(t) = [do |-> "put", of |-> f]
      BY <1>1, DidNext
    <3>2. NextAccess(t) = [do |-> "put", of |-> f] => NextAccess(t).do = "put" /\ f = Field(t)
      BY DEF Field
    <3> QED BY <3>1, <3>2, Zenon
  <2>2. Did(t, "set", f)' => Did(t, "set", f) \/ (NextAccess(t).do = "set" /\ f = Field(t))
    <3>1. Did(t, "set", f)' <=> Did(t, "set", f) \/ NextAccess(t) = [do |-> "set", of |-> f]
      BY <1>1, DidNext
    <3>2. NextAccess(t) = [do |-> "set", of |-> f] => NextAccess(t).do = "set" /\ f = Field(t)
      BY DEF Field
    <3> QED BY <3>1, <3>2, Zenon
  <2> QED BY <2>1, <2>2
<1>6. PICK a : a = val[t] OBVIOUS
<1>7. /\ \A f \in DOMAIN a : Did(t, "put", f) => nvs[f] = a[f]
      /\ \A f \in DOMAIN a : Did(t, "set", f) => cache[f] = a[f]
      /\ Merged(a, cache) = validateDeviceConfig(Merged(a, nvs))
  <2>1. Completed(t, cache) = Merged(a, cache) /\ Completed(t, nvs) = Merged(a, nvs)
    BY <1>6, CompletedIs
  <2>2. /\ \A f \in DOMAIN a : Did(t, "put", f) => nvs[f] = a[f]
        /\ \A f \in DOMAIN a : Did(t, "set", f) => cache[f] = a[f]
    BY <1>6 DEF UpdateIsTrue
  <2>3. Completed(t, cache) = validateDeviceConfig(Completed(t, nvs)) BY DEF UpdateIsTrue
  <2> QED BY <2>1, <2>2, <2>3
<1>8. DOMAIN a = Brought(op[t]) BY <1>6 DEF ValuesOK
<1>9. SUFFICES /\ \A f \in DOMAIN a : Did(t, "put", f)' => nvs'[f] = a[f]
               /\ \A f \in DOMAIN a : Did(t, "set", f)' => cache'[f] = a[f]
               /\ Merged(a, cache') = validateDeviceConfig(Merged(a, nvs'))
  <2>1. a = val'[t] BY <1>2, <1>6
  <2>2. Completed(t, cache)' = Merged(a, cache') /\ Completed(t, nvs)' = Merged(a, nvs')
    BY <2>1 DEF Completed, Merged
  <2>3. UpdateIsTrue(t)' <=>
            /\ \A f \in DOMAIN val'[t] : Did(t, "put", f)' => nvs'[f] = val'[t][f]
            /\ \A f \in DOMAIN val'[t] : Did(t, "set", f)' => cache'[f] = val'[t][f]
            /\ \E c, d : /\ c = Completed(t, cache)' /\ d = Completed(t, nvs)'
                        /\ c = validateDeviceConfig(d)
    <3>1. UpdateForm' BY UpdateFormed, PTL
    <3> QED BY <3>1 DEF UpdateForm
  <2> QED BY <2>1, <2>2, <2>3
<1>10. CASE NextAccess(t).do = "put"
  <2>1. Put(t)
    BY <1>10 DEF Accessing, OpenForWriting, OpenForReading, Close, Get, Lock, Unlock, Set, Fetch,
                 Mend, Copy, At
  <2>2. /\ Field(t) \in Brings[op[t]] /\ op[t] \in DOMAIN Brings
        /\ Field(t) \in Settings \cup {"mqtt"}
    BY <1>1, <1>10 DEF Concerns, Field
  <2>3. handle.open /\ ~handle.ro
    <3>1. pc[t] > 1 BY <2>1, OwnHandle DEF Put
    <3> QED BY <2>2, <3>1, OwnHandle
  <2>4. nvs' = [nvs EXCEPT ![Field(t)] = a[Field(t)]] /\ cache' = cache
    BY <1>6, <2>1, <2>3 DEF Put
  <2>5. Field(t) \in DOMAIN a /\ Field(t) \in DOMAIN nvs
    BY <1>8, <2>2, StoredFields DEF Brought, SharedOK
  <2>6. \A f \in DOMAIN nvs : nvs'[f] = IF f = Field(t) THEN a[f] ELSE nvs[f] BY <2>4, <2>5
  <2>7. \A f \in DOMAIN a : Did(t, "put", f)' => nvs'[f] = a[f]
    <3>1. DOMAIN a \subseteq DOMAIN nvs
      <4>1. DOMAIN a = Brings[op[t]] BY <1>8, <2>2 DEF Brought
      <4>2. Brings[op[t]] \subseteq Settings \cup {"mqtt"}
        BY <2>2, BringsIs, OperationNames, Names
      <4> QED BY <4>1, <4>2, StoredFields DEF SharedOK
    <3> QED BY <1>5, <1>7, <2>6, <3>1
  <2>8. \A f \in DOMAIN a : Did(t, "set", f)' => cache'[f] = a[f]
    BY <1>5, <1>7, <1>10, <2>4
  <2>9. Merged(a, nvs') = Merged(a, nvs)
    <3>1. \A f \in Settings : f \notin DOMAIN a => nvs'[f] = nvs[f]
      BY <2>5, <2>6, StoredFields DEF SharedOK
    <3> QED BY <3>1 DEF Merged
  <2> QED BY <1>7, <2>4, <2>7, <2>8, <2>9
<1>11. CASE NextAccess(t).do = "set"
  <2>1. Set(t)
    BY <1>11 DEF Accessing, OpenForWriting, OpenForReading, Close, Put, Get, Lock, Unlock, Fetch,
                 Mend, Copy, At
  <2>2. Field(t) \in Brings[op[t]] /\ op[t] \in DOMAIN Brings /\ Field(t) \in Settings
    BY <1>1, <1>11 DEF Concerns, Field
  <2>3. cache' = [cache EXCEPT ![Field(t)] = a[Field(t)]] /\ nvs' = nvs
    BY <1>6, <2>1 DEF Set, Writes
  <2>4. Field(t) \in DOMAIN a /\ Field(t) \in DOMAIN cache
    BY <1>8, <2>2 DEF Brought, SharedOK, Shaped
  <2>5. cache'[Field(t)] = a[Field(t)] /\ \A f : f # Field(t) => cache'[f] = cache[f]
    BY <2>3, <2>4
  <2>6. \A f \in DOMAIN a : Did(t, "set", f)' => cache'[f] = a[f] BY <1>5, <1>7, <2>5
  <2>7. \A f \in DOMAIN a : Did(t, "put", f)' => nvs'[f] = a[f]
    BY <1>5, <1>7, <1>11, <2>3
  <2>8. Merged(a, cache') = Merged(a, cache)
    <3>1. \A f \in Settings : f \notin DOMAIN a => cache'[f] = cache[f] BY <2>4, <2>5
    <3> QED BY <3>1 DEF Merged
  <2> QED BY <1>7, <2>3, <2>6, <2>7, <2>8
<1>12. CASE NextAccess(t).do \notin {"put", "set"}
  <2>1. NextAccess(t).do \notin {"fetch", "mend"} BY <1>1 DEF Concerns
  <2>2. nvs' = nvs /\ cache' = cache
    BY <1>12, <2>1 DEF Accessing, OpenForWriting, OpenForReading, Open, Close, Put, Get, Reads,
                       Lock, Unlock, Set, Fetch, Mend, Copy, At
  <2> QED BY <1>5, <1>7, <1>12, <2>2
<1> QED BY <1>10, <1>11, <1>12

\* What is stored when the call ends is what is in force.
LEMMA UpdateEnd ==
    ASSUME TasksOK, ValuesOK, SharedOK, NEW t \in Task, op[t] \in Operations,
           op[t] # "loadDeviceConfig", UpdateIsTrue(t), Last(t) \/ op[t] \notin Updates
    PROVE  cache = validateDeviceConfig(Cached(nvs))
<1>1. PICK a : a = val[t] OBVIOUS
<1>2. /\ \A f \in DOMAIN a : Did(t, "put", f) => nvs[f] = a[f]
      /\ \A f \in DOMAIN a : Did(t, "set", f) => cache[f] = a[f]
  BY <1>1 DEF UpdateIsTrue
<1>3. Merged(a, cache) = validateDeviceConfig(Merged(a, nvs))
  BY <1>1, CompletedIs DEF UpdateIsTrue
<1>4. DOMAIN a = Brought(op[t]) BY <1>1 DEF ValuesOK
<1>5. \A f \in Settings : f \in DOMAIN a => nvs[f] = a[f] /\ cache[f] = a[f]
  <2>1. CASE op[t] \in Updates
    <3>1. op[t] \in DOMAIN Brings /\ Last(t) BY <2>1, OperationNames DEF Updates
    <3>2. DOMAIN a = Brings[op[t]] BY <1>4, <3>1 DEF Brought
    <3> QED BY <1>2, <2>1, <3>1, <3>2, AllStored
  <2>2. CASE op[t] = "saveMqttConfig"
    <3>1. DOMAIN a = {"mqtt"} BY <1>4, <2>2, BringsIs, OperationNames DEF Brought
    <3> QED BY <3>1, Names
  <2>3. CASE op[t] \notin Updates /\ op[t] # "saveMqttConfig"
    <3>1. op[t] \notin DOMAIN Brings BY <2>3, OperationNames DEF Updates
    <3> QED BY <1>4, <3>1 DEF Brought
  <2> QED BY <2>1, <2>2, <2>3
<1>6. Merged(a, cache) = cache BY <1>5 DEF Merged, SharedOK, Shaped
<1>7. Merged(a, nvs) = Cached(nvs) BY <1>5 DEF Merged, Cached
<1> QED BY <1>3, <1>6, <1>7

\* A load goes on.
LEMMA LoadStep ==
    ASSUME TasksOK, ValuesOK, SharedOK, NEW t \in Task, Storing(t), Accessing(t), HandleIsOwn(t),
           op[t] = "loadDeviceConfig", LoadIsTrue(t), ~Last(t)
    PROVE  LoadIsTrue(t)'
<1>1. /\ Busy(t) /\ Proceed(t)
      /\ op[t] \in Operations /\ pc[t] \in DOMAIN Accesses[op[t]] /\ pc[t] \in Nat
      /\ Concerns(NextAccess(t), op[t], pc[t], Len(Accesses[op[t]]))
  BY AccessingIs
<1>2. op' = op /\ pc'[t] = pc[t] + 1 BY <1>1, ProceedIs
<1>3. PICK L : L = loadDeviceConfig OBVIOUS
<1>4. Accesses[op[t]] = L BY <1>3, Lists
<1>5. pc[t] \in 1 .. 14
  <2>1. DOMAIN L = 1 .. 15 /\ Len(L) = 15 BY <1>3, LoadIs
  <2>2. pc[t] \in 1 .. 15 /\ pc[t] # 15 BY <1>1, <1>4, <2>1 DEF Last
  <2> QED BY <2>2
<1>6. NextAccess(t) = L[pc[t]] BY <1>4 DEF NextAccess
<1>7. PICK c : c = Cached(nvs) OBVIOUS
<1>8.
      /\ pc[t] \in 1 .. 10 =>
            (LoadIsTrue(t) <=> \A f \in Settings : Did(t, "fetch", f) => cache[f] = nvs[f])
      /\ pc[t] = 11 => (LoadIsTrue(t) <=> cache = c)
      /\ pc[t] = 12 => (LoadIsTrue(t) <=> cache = TargetMended(c))
      /\ pc[t] = 13 => (LoadIsTrue(t) <=> cache = AssignmentMended(TargetMended(c)))
      /\ pc[t] = 14 => (LoadIsTrue(t) <=> cache = TimingMended(AssignmentMended(TargetMended(c))))
  BY <1>7, LoadPc DEF LoadForm
<1>9. LoadForm' BY LoadPc, PTL
<1>10. nvs' = nvs
  <2>1. NextAccess(t).do # "put" BY <1>1, OperationNames DEF Concerns
  <2> QED BY <2>1 DEF Accessing, OpenForWriting, OpenForReading, Open, Close, Put, Get, Reads,
                      Lock, Unlock, Set, Fetch, Mend, Writes, Copy, At
<1>11. op'[t] = "loadDeviceConfig" =>
      /\ pc'[t] \in 1 .. 10 =>
            (LoadIsTrue(t)' <=> \A f \in Settings : Did(t, "fetch", f)' => cache'[f] = nvs'[f])
      /\ pc'[t] = 11 => (LoadIsTrue(t)' <=> cache' = c)
      /\ pc'[t] = 12 => (LoadIsTrue(t)' <=> cache' = TargetMended(c))
      /\ pc'[t] = 13 => (LoadIsTrue(t)' <=> cache' = AssignmentMended(TargetMended(c)))
      /\ pc'[t] = 14 => (LoadIsTrue(t)' <=> cache' = TimingMended(AssignmentMended(TargetMended(c))))
      /\ pc'[t] = 15 => (LoadIsTrue(t)' <=> cache' = validateDeviceConfig(c))
  <2>1. c = Cached(nvs)' BY <1>10, <1>7 DEF Cached
  <2> QED BY <1>9, <2>1 DEF LoadForm
<1>12. CASE pc[t] \in 1 .. 9
  <2>1. \A f \in Settings : Did(t, "fetch", f) => cache[f] = nvs[f] BY <1>5, <1>8, <1>12
  <2>2. pc'[t] \in 1 .. 10 /\ op'[t] = "loadDeviceConfig" BY <1>2, <1>12
  <2>3. LoadIsTrue(t)' <=> \A f \in Settings : Did(t, "fetch", f)' => cache'[f] = nvs'[f]
    BY <1>11, <2>2
  <2>4. \A f : Did(t, "fetch", f)' =>
                  Did(t, "fetch", f) \/ (NextAccess(t).do = "fetch" /\ f = Field(t))
    <3> TAKE f
    <3>1. Did(t, "fetch", f)' <=> Did(t, "fetch", f) \/ NextAccess(t) = [do |-> "fetch", of |-> f]
      BY <1>1, DidNext
    <3>2. NextAccess(t) = [do |-> "fetch", of |-> f] => NextAccess(t).do = "fetch" /\ f = Field(t)
      BY DEF Field
    <3> QED BY <3>1, <3>2, Zenon
  <2>5. CASE NextAccess(t).do = "fetch"
    <3>1. Fetch(t)
      BY <2>5 DEF Accessing, OpenForWriting, OpenForReading, Close, Put, Get, Lock, Unlock, Set,
                  Mend, Copy, At
    <3>2. handle.open
      <4>1. At(t, "fetch") BY <3>1 DEF Fetch
      <4> QED BY <4>1, OwnHandle
    <3>3. Field(t) \in Settings BY <1>1, <2>5 DEF Concerns, Field
    <3>4. cache' = [cache EXCEPT ![Field(t)] = nvs[Field(t)]]
      BY <3>1, <3>2 DEF Fetch, Writes, Stored
    <3>5. Field(t) \in DOMAIN cache BY <3>3 DEF SharedOK, Shaped
    <3>6. cache'[Field(t)] = nvs[Field(t)] /\ \A f : f # Field(t) => cache'[f] = cache[f]
      BY <3>4, <3>5
    <3> QED BY <1>10, <2>1, <2>3, <2>4, <3>6
  <2>6. CASE NextAccess(t).do # "fetch"
    <3>1. NextAccess(t).do \notin {"set", "mend"}
      <4>1. \A i \in 1 .. 9 : \/ i = 1 \/ i = 2 \/ i = 3 \/ i = 4 \/ i = 5 \/ i = 6
                              \/ i = 7 \/ i = 8 \/ i = 9
        OBVIOUS
      <4>2. openRO.do = "openRO" /\ acquire.do = "lock" /\ \A f : fetch(f).do = "fetch"
        BY DEF openRO, acquire, fetch
      <4>3. /\ L[1].do = "openRO" /\ L[2].do = "lock" /\ L[3].do = "fetch" /\ L[4].do = "fetch"
            /\ L[5].do = "fetch" /\ L[6].do = "fetch" /\ L[7].do = "fetch"
            /\ L[8].do = "fetch" /\ L[9].do = "fetch"
        BY <1>3, <4>2, LoadIs
      <4> QED BY <1>6, <1>12, <4>1, <4>3
    <3>2. cache' = cache
      BY <2>6, <3>1 DEF Accessing, OpenForWriting, OpenForReading, Open, Close, Put, Get, Reads,
                        Lock, Unlock, Set, Fetch, Mend, Copy, At
    <3> QED BY <1>10, <2>1, <2>3, <2>4, <2>6, <3>2
  <2> QED BY <2>5, <2>6
<1>13. CASE pc[t] = 10
  <2>1. \A f \in Settings : Did(t, "fetch", f) => cache[f] = nvs[f] BY <1>5, <1>8, <1>13
  <2>2. \A f \in Settings : Did(t, "fetch", f)
    <3>1. ASSUME NEW f, NEW i \in 3 .. 9, L[i] = fetch(f) PROVE Did(t, "fetch", f)
      <4>1. i \in DOMAIN L /\ i < pc[t] BY <1>3, <1>13, <3>1, LoadIs
      <4> QED BY <1>4, <3>1, <4>1 DEF Did, fetch
    <3>2. /\ L[3] = fetch("target") /\ L[4] = fetch("host") /\ L[5] = fetch("channel")
          /\ L[6] = fetch("cycle") /\ L[7] = fetch("travel") /\ L[8] = fetch("kp")
          /\ L[9] = fetch("interval")
      BY <1>3, LoadIs
    <3>3. /\ 3 \in 3 .. 9 /\ 4 \in 3 .. 9 /\ 5 \in 3 .. 9 /\ 6 \in 3 .. 9 /\ 7 \in 3 .. 9
          /\ 8 \in 3 .. 9 /\ 9 \in 3 .. 9
      OBVIOUS
    <3>4. /\ Did(t, "fetch", "target") /\ Did(t, "fetch", "host") /\ Did(t, "fetch", "channel")
          /\ Did(t, "fetch", "cycle") /\ Did(t, "fetch", "travel") /\ Did(t, "fetch", "kp")
          /\ Did(t, "fetch", "interval")
      BY <3>1, <3>2, <3>3
    <3> QED BY <3>4 DEF Settings
  <2>3. cache = c BY <1>7, <2>1, <2>2 DEF SharedOK, Shaped, Cached
  <2>4. NextAccess(t) = release BY <1>3, <1>6, <1>13, LoadIs
  <2>5. NextAccess(t).do = "unlock"
    <3>1. release.do = "unlock" BY DEF release
    <3> QED BY <2>4, <3>1
  <2>6. cache' = cache
    BY <2>5 DEF Accessing, OpenForWriting, OpenForReading, Open, Close, Put, Get, Reads,
                Lock, Unlock, Set, Fetch, Mend, Copy, At
  <2>7. pc'[t] = 11 /\ op'[t] = "loadDeviceConfig" BY <1>2, <1>13
  <2> QED BY <1>11, <2>3, <2>6, <2>7
<1>14. ASSUME NEW part \in Parts, NextAccess(t) = mend(part)
       PROVE  cache' = CASE part = "target"     -> TargetMended(cache)
                         [] part = "assignment" -> AssignmentMended(cache)
                         [] part = "timing"     -> TimingMended(cache)
                         [] part = "tuning"     -> TuningMended(cache)
  <2>1. mend(part).do = "mend" /\ mend(part).of = part BY DEF mend
  <2>2. NextAccess(t).do = "mend" /\ Field(t) = part BY <1>14, <2>1 DEF Field
  <2>3. Mend(t)
    BY <2>2 DEF Accessing, OpenForWriting, OpenForReading, Close, Put, Get, Lock, Unlock, Set,
                Fetch, Copy, At
  <2> QED BY <2>2, <2>3 DEF Mend, Writes
<1>15. {"target", "assignment", "timing", "tuning"} \subseteq Parts BY DEF Parts
<1>16. CASE pc[t] = 11
  <2>1. cache = c /\ pc'[t] = 12 /\ op'[t] = "loadDeviceConfig" BY <1>2, <1>8, <1>16
  <2>2. NextAccess(t) = mend("target") BY <1>3, <1>6, <1>16, LoadIs
  <2>3. cache' = TargetMended(cache) BY <1>14, <1>15, <2>2
  <2> QED BY <1>11, <2>1, <2>3
<1>17. CASE pc[t] = 12
  <2>1. cache = TargetMended(c) /\ pc'[t] = 13 /\ op'[t] = "loadDeviceConfig"
    BY <1>2, <1>8, <1>17
  <2>2. NextAccess(t) = mend("assignment") BY <1>3, <1>6, <1>17, LoadIs
  <2>3. cache' = AssignmentMended(cache) BY <1>14, <1>15, <2>2
  <2> QED BY <1>11, <2>1, <2>3
<1>18. CASE pc[t] = 13
  <2>1. /\ cache = AssignmentMended(TargetMended(c)) /\ pc'[t] = 14
        /\ op'[t] = "loadDeviceConfig"
    BY <1>2, <1>8, <1>18
  <2>2. NextAccess(t) = mend("timing") BY <1>3, <1>6, <1>18, LoadIs
  <2>3. cache' = TimingMended(cache) BY <1>14, <1>15, <2>2
  <2> QED BY <1>11, <2>1, <2>3
<1>19. CASE pc[t] = 14
  <2>1. /\ cache = TimingMended(AssignmentMended(TargetMended(c))) /\ pc'[t] = 15
        /\ op'[t] = "loadDeviceConfig"
    BY <1>2, <1>8, <1>19
  <2>2. NextAccess(t) = mend("tuning") BY <1>3, <1>6, <1>19, LoadIs
  <2>3. cache' = TuningMended(cache) BY <1>14, <1>15, <2>2
  <2>4. cache' = validateDeviceConfig(c) BY <2>1, <2>3 DEF validateDeviceConfig
  <2> QED BY <1>11, <2>1, <2>4
<1> QED BY <1>5, <1>12, <1>13, <1>16, <1>17, <1>18, <1>19

\* A task whose variables a step leaves alone, with the store, stays where it was.
LEMMA OwnStays ==
    ASSUME NEW t \in Task, op'[t] = op[t], pc'[t] = pc[t], val'[t] = val[t],
           handle' = handle, nvs' = nvs, cache' = cache
    PROVE  Own(t)' <=> Own(t)
<1>1. HandleIsOwn(t)' <=> HandleIsOwn(t) BY DEF HandleIsOwn
<1>2. Completed(t, cache)' = Completed(t, cache) /\ Completed(t, nvs)' = Completed(t, nvs)
  BY DEF Completed
<1>3. UpdateIsTrue(t)' <=> UpdateIsTrue(t)
  <2>1. UpdateForm /\ UpdateForm' BY UpdateFormed, PTL
  <2>2. \A f : (Did(t, "put", f)' <=> Did(t, "put", f)) /\ (Did(t, "set", f)' <=> Did(t, "set", f))
    BY DEF Did
  <2> QED BY <1>2, <2>1, <2>2 DEF UpdateForm
<1>4. LoadIsTrue(t)' <=> LoadIsTrue(t)
  BY DEF LoadIsTrue, Did, At, Busy, NextAccess, Field, Cached
<1> QED BY <1>1, <1>3, <1>4 DEF Own

\* A step of the task that stores.
LEMMA StoringStep ==
    ASSUME TasksOK, ValuesOK, SharedOK, NEW t \in Task, Storing(t), Accessing(t), Own(t)
    PROVE  IF Last(t) THEN ~Storing(t)' /\ Settled' ELSE Storing(t)' /\ Own(t)'
<1>1. /\ Busy(t) /\ Proceed(t)
      /\ op[t] \in Operations /\ pc[t] \in DOMAIN Accesses[op[t]] /\ pc[t] \in Nat
  BY AccessingIs
<1>2. HandleIsOwn(t) BY DEF Own
<1>3. CASE Last(t)
  <2>1. ~Storing(t)' BY <1>1, <1>3, ProceedIs DEF Storing
  <2>2. ~handle'.open /\ nvs' = nvs /\ cache' = cache /\ At(t, "close")
    BY <1>2, <1>3, OwnHandle
  <2>3. cache = validateDeviceConfig(Cached(nvs))
    <3>1. CASE op[t] = "loadDeviceConfig" BY <2>2, <3>1 DEF Own, LoadIsTrue
    <3>2. CASE op[t] # "loadDeviceConfig" BY <1>1, <1>3, <3>2, UpdateEnd DEF Own
    <3> QED BY <3>1, <3>2
  <2>4. PICK c : c = Cached(nvs) OBVIOUS
  <2>5. Cached(nvs)' = c BY <2>2, <2>4 DEF Cached
  <2>6. Settled' BY <2>2, <2>3, <2>4, <2>5 DEF Settled
  <2> QED BY <1>3, <2>1, <2>6
<1>4. CASE ~Last(t)
  <2>1. op' = op BY <1>1, <1>4, ProceedIs
  <2>2. Storing(t)' BY <2>1 DEF Storing
  <2>3. HandleIsOwn(t)' BY <1>2, <1>4, OwnHandle
  <2>4. CASE op[t] = "loadDeviceConfig"
    <3>1. LoadIsTrue(t)' BY <1>2, <1>4, <2>4, LoadStep DEF Own
    <3> QED BY <1>4, <2>1, <2>2, <2>3, <2>4, <3>1 DEF Own
  <2>5. CASE op[t] # "loadDeviceConfig"
    <3>1. UpdateIsTrue(t)' BY <1>2, <1>4, <2>5, UpdateStep DEF Own
    <3> QED BY <1>4, <2>1, <2>2, <2>3, <2>5, <3>1 DEF Own
  <2> QED BY <2>4, <2>5
<1> QED BY <1>3, <1>4

\* A step of a task that does not: it takes a snapshot.
LEMMA SnapshotStep ==
    ASSUME TasksOK, ValuesOK, NEW t \in Task, ~Storing(t), Accessing(t)
    PROVE  /\ ~Storing(t)' /\ handle' = handle /\ nvs' = nvs /\ cache' = cache
<1>1. /\ Busy(t) /\ Proceed(t)
      /\ op[t] \in Operations /\ pc[t] \in DOMAIN Accesses[op[t]] /\ pc[t] \in Nat
      /\ Concerns(NextAccess(t), op[t], pc[t], Len(Accesses[op[t]]))
  BY AccessingIs
<1>2. op[t] = "getDeviceConfigSnapshot" BY <1>1 DEF Storing, Busy
<1>3. NextAccess(t).do \notin {"openRW", "openRO", "close", "put", "set", "fetch", "mend"}
  BY <1>1, <1>2, OperationNames DEF Concerns
<1>4. handle' = handle /\ nvs' = nvs /\ cache' = cache
  BY <1>3 DEF Accessing, OpenForWriting, OpenForReading, Close, Put, Get, Reads, Lock, Unlock,
              Set, Fetch, Mend, Copy, At
<1>5. ~Storing(t)' BY <1>1, <1>2, ProceedIs DEF Storing
<1> QED BY <1>4, <1>5

\* A call begins with nothing done, and what it will store agrees with what is in force.
LEMMA CallBegins ==
    ASSUME TasksOK, ValuesOK, SharedOK, NEW t \in Task, Call(t), Settled, Storing(t)'
    PROVE  Own(t)'
<1>1. PICK o \in Does[t] :
          /\ o \in Operations /\ op' = [op EXCEPT ![t] = o] /\ op'[t] = o
          /\ IF o \in DOMAIN Brings
             THEN \E r \in Requests[o] : val' = [val EXCEPT ![t] = Accepted(o, r)]
             ELSE val' = val /\ val[t] = Nothing
  BY CallIs
<1>2. pc' = pc /\ handle' = handle /\ nvs' = nvs /\ cache' = cache /\ ~Busy(t) BY DEF Call
<1>3. pc'[t] = 1 BY <1>2 DEF TasksOK
<1>4. HandleIsOwn(t)' BY <1>2, <1>3 DEF HandleIsOwn, Settled
<1>5. \A what, f : ~Did(t, what, f)'
  <2>1. PICK l, u \in Nat : Bracketed(Accesses[o], l, u) BY <1>1, AllBracketed
  <2> QED BY <1>1, <1>3, <2>1 DEF Bracketed, Did
<1>6. CASE o = "loadDeviceConfig"
  <2>1. LoadForm' BY LoadPc, PTL
  <2>2. PICK c : c = Cached(nvs)' OBVIOUS
  <2>3. LoadIsTrue(t)' <=> \A f \in Settings : Did(t, "fetch", f)' => cache'[f] = nvs'[f]
    BY <1>1, <1>3, <1>6, <2>1, <2>2 DEF LoadForm
  <2>4. \A f : ~Did(t, "fetch", f)' BY <1>5
  <2> QED BY <1>1, <1>4, <1>6, <2>3, <2>4 DEF Own
<1>7. CASE o # "loadDeviceConfig"
  <2>1. \A f : ~Did(t, "put", f)' /\ ~Did(t, "set", f)' BY <1>5
  <2>2. UpdateForm' BY UpdateFormed, PTL
  <2>3. PICK a : a = val'[t] OBVIOUS
  <2>4. Completed(t, cache)' = Merged(a, cache) /\ Completed(t, nvs)' = Merged(a, nvs)
    BY <1>2, <2>3 DEF Completed, Merged
  <2>5. Merged(a, cache) = validateDeviceConfig(Merged(a, nvs))
    <3>1. PICK stored : stored = Cached(nvs) OBVIOUS
    <3>2. Shaped(stored) /\ cache = validateDeviceConfig(stored)
      BY <3>1, CachedShaped DEF Settled
    <3>3. Merged(a, nvs) = Merged(a, stored) BY <3>1 DEF Merged, Cached
    <3>4. CASE o \in DOMAIN Brings
      <4>1. PICK r \in Requests[o] : val' = [val EXCEPT ![t] = Accepted(o, r)] BY <1>1, <3>4
      <4>2. a = Accepted(o, r) BY <2>3, <4>1 DEF ValuesOK
      <4>3. Merged(a, cache) = validateDeviceConfig(Merged(a, stored))
        BY <3>2, <3>4, <4>2, Agreement
      <4> QED BY <3>3, <4>3
    <3>5. CASE o \notin DOMAIN Brings
      <4>1. a = Nothing BY <1>1, <2>3, <3>5
      <4>2. DOMAIN a = {} BY <4>1 DEF Nothing
      <4>3. Merged(a, cache) = cache BY <4>2 DEF Merged, SharedOK, Shaped
      <4>4. Merged(a, stored) = stored BY <3>2, <4>2 DEF Merged, Shaped
      <4> QED BY <3>2, <3>3, <4>3, <4>4
    <3> QED BY <3>4, <3>5
  <2>6. UpdateIsTrue(t)' BY <2>1, <2>2, <2>4, <2>5 DEF UpdateForm
  <2> QED BY <1>1, <1>4, <1>7, <2>6 DEF Own
<1> QED BY <1>6, <1>7

LEMMA StoreStep ==
    ASSUME IInv, StoreInv, OneAtATime, OneAtATime', [Next]_vars
    PROVE  StoreInv'
<1>1. TasksOK /\ ValuesOK /\ SharedOK BY TypeParts DEF IInv
<1>2. /\ (\A t \in Task : ~Storing(t)) => Settled
      /\ \A t \in Task : Storing(t) => Own(t)
  BY StoreParts
<1>3. SUFFICES /\ (\A t \in Task : ~Storing(t)') => Settled'
               /\ \A t \in Task : Storing(t)' => Own(t)'
  <2>1. (/\ (\A t \in Task : ~Storing(t)) => Settled
         /\ \A t \in Task : Storing(t) => Own(t))' => StoreInv'
    BY StoreParts, PTL
  <2> QED BY <2>1
<1>4. ASSUME NEW t \in Task, op'[t] = op[t] PROVE Storing(t)' <=> Storing(t)
  BY <1>4 DEF Storing
<1>5. ASSUME handle' = handle, nvs' = nvs, cache' = cache PROVE Settled' <=> Settled
  <2>1. PICK c : c = Cached(nvs) OBVIOUS
  <2>2. Cached(nvs)' = c BY <1>5, <2>1 DEF Cached
  <2> QED BY <1>5, <2>1, <2>2 DEF Settled
<1>6. CASE UNCHANGED vars
  <2>1. /\ handle' = handle /\ nvs' = nvs /\ cache' = cache
        /\ \A t \in Task : op'[t] = op[t] /\ pc'[t] = pc[t] /\ val'[t] = val[t]
    BY <1>6 DEF vars
  <2> QED BY <1>2, <1>4, <1>5, <2>1, OwnStays
<1>7. CASE Restart
  <2>1. \A t \in Task : ~Storing(t)' BY <1>7 DEF Restart, Storing
  <2>2. PICK c : c = Cached(nvs) OBVIOUS
  <2>3. Cached(nvs)' = c BY <1>7, <2>2 DEF Restart, Cached
  <2>4. ~handle'.open /\ cache' = validateDeviceConfig(c) BY <1>7, <2>2 DEF Restart
  <2>5. Settled' BY <2>3, <2>4 DEF Settled
  <2> QED BY <2>1, <2>5
<1>8. ASSUME NEW t \in Task, Call(t)
      PROVE  /\ (\A u \in Task : ~Storing(u)') => Settled'
             /\ \A u \in Task : Storing(u)' => Own(u)'
  <2>1. PICK o \in Does[t] :
            /\ o \in Operations /\ op' = [op EXCEPT ![t] = o] /\ op'[t] = o
            /\ IF o \in DOMAIN Brings
               THEN \E r \in Requests[o] : val' = [val EXCEPT ![t] = Accepted(o, r)]
               ELSE val' = val /\ val[t] = Nothing
    BY <1>1, <1>8, CallIs
  <2>2. /\ pc' = pc /\ handle' = handle /\ nvs' = nvs /\ cache' = cache
        /\ ~Storing(t)
    BY <1>8 DEF Call, Busy, Storing
  <2>3. \A u \in Task \ {t} : op'[u] = op[u] /\ pc'[u] = pc[u] /\ val'[u] = val[u]
    BY <1>1, <2>1, <2>2 DEF TasksOK, ValuesOK
  <2>4. \A u \in Task \ {t} : Storing(u)' => Storing(u) /\ Own(u)'
    BY <1>2, <1>4, <2>2, <2>3, OwnStays
  <2>5. Storing(t)' => Own(t)'
    <3>1. SUFFICES ASSUME Storing(t)' PROVE Own(t)' OBVIOUS
    <3>2. \A u \in Task \ {t} : ~Storing(u)' BY <3>1 DEF OneAtATime
    <3>3. \A u \in Task : ~Storing(u) BY <1>4, <2>2, <2>3, <3>2
    <3> QED BY <1>1, <1>2, <1>8, <3>1, <3>3, CallBegins
  <2>6. (\A u \in Task : ~Storing(u)') => Settled'
    <3>1. SUFFICES ASSUME \A u \in Task : ~Storing(u)' PROVE Settled' OBVIOUS
    <3>2. \A u \in Task : ~Storing(u) BY <1>4, <2>2, <2>3, <3>1
    <3> QED BY <1>2, <1>5, <2>2, <3>2
  <2> QED BY <2>4, <2>5, <2>6
<1>9. ASSUME NEW t \in Task, Accessing(t)
      PROVE  /\ (\A u \in Task : ~Storing(u)') => Settled'
             /\ \A u \in Task : Storing(u)' => Own(u)'
  <2>1. Busy(t) /\ Proceed(t) BY <1>1, <1>9, AccessingIs
  <2>2. \A u \in Task \ {t} : op'[u] = op[u] /\ pc'[u] = pc[u] /\ val'[u] = val[u]
    BY <1>1, <2>1, ProceedIs
  <2>3. CASE Storing(t)
    <3>1. IF Last(t) THEN ~Storing(t)' /\ Settled' ELSE Storing(t)' /\ Own(t)'
      BY <1>1, <1>2, <1>9, <2>3, StoringStep
    <3>2. \A u \in Task \ {t} : ~Storing(u)' BY <1>4, <2>2, <2>3 DEF OneAtATime
    <3> QED BY <3>1, <3>2
  <2>4. CASE ~Storing(t)
    <3>1. ~Storing(t)' /\ handle' = handle /\ nvs' = nvs /\ cache' = cache
      BY <1>1, <1>9, <2>4, SnapshotStep
    <3>2. \A u \in Task \ {t} : (Storing(u)' <=> Storing(u)) /\ (Own(u)' <=> Own(u))
      BY <1>4, <2>2, <3>1, OwnStays
    <3>3. \A u \in Task : Storing(u)' <=> Storing(u) BY <2>4, <3>1, <3>2
    <3>4. \A u \in Task : Storing(u)' => Own(u)' BY <1>2, <3>1, <3>2
    <3> QED BY <1>2, <1>5, <3>1, <3>3, <3>4
  <2> QED BY <2>3, <2>4
<1> QED BY <1>6, <1>7, <1>8, <1>9, AccessIs DEF Next

LEMMA StoreInit == Init => StoreInv
<1> SUFFICES ASSUME Init PROVE StoreInv OBVIOUS
<1>1. \A t \in Task : ~Storing(t) BY DEF Init, Storing
<1>2. Settled BY DEF Init, Settled
<1> QED BY <1>1, <1>2, StoreParts

\* In a settled store, and during a call that settings of the cache are not part of, a
\* restart would bring back what is in force.
LEMMA StoreSurvives == IInv /\ StoreInv => SettingsSurvive
<1> SUFFICES ASSUME IInv, StoreInv, Quiet(Updates \cup {"loadDeviceConfig"})
             PROVE  cache = validateDeviceConfig(Cached(nvs))
  BY DEF SettingsSurvive
<1>1. TasksOK /\ ValuesOK /\ SharedOK BY TypeParts DEF IInv
<1>2. CASE \A t \in Task : ~Storing(t) BY <1>2, StoreParts DEF Settled
<1>3. ASSUME NEW t \in Task, Storing(t) PROVE cache = validateDeviceConfig(Cached(nvs))
  <2>1. op[t] \notin Updates /\ op[t] # "loadDeviceConfig" BY DEF Quiet
  <2>2. op[t] \in Operations BY <1>1, <1>3 DEF TasksOK, Storing
  <2>3. UpdateIsTrue(t) BY <1>3, <2>1, StoreParts DEF Own
  <2> QED BY <1>1, <2>1, <2>2, <2>3, UpdateEnd
<1> QED BY <1>2, <1>3

\* As long as no two tasks store or load at once, what a restart would bring back is what
\* is in force whenever no write is under way: whatever else the tasks do, wherever they
\* are preempted, wherever the power fails, and whatever the flash held at first.
THEOREM SettingsSurviveAlone == Spec /\ []OneAtATime => []SettingsSurvive
<1>1. Init => StoreInv BY StoreInit
<1>2. IInv /\ StoreInv /\ OneAtATime /\ OneAtATime' /\ [Next]_vars => StoreInv' BY StoreStep
<1>3. IInv /\ StoreInv => SettingsSurvive BY StoreSurvives
<1> QED BY <1>1, <1>2, <1>3, Exclusion, PTL DEF Spec

=============================================================================
