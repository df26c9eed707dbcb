------------------------------ MODULE MqttClient ------------------------------
(***************************************************************************)
(* The MQTT client and its publisher, run once a second by the Network     *)
(* task, against brokers that keep retained messages and sessions with a   *)
(* last will, and the web task that changes the configuration meanwhile.   *)
(* A tick of the task is cut where it waits for the network: the TCP       *)
(* connect, the CONNECT packet, its answer, and the publishes.             *)
(***************************************************************************)
EXTENDS Integers, FiniteSets

CONSTANTS
    Brokers,        \* hosts the configuration may name
    Prefixes,       \* topic prefixes it may name
    Configs,        \* configurations the user may post
    Setpoints,      \* target temperatures
    None,           \* no session, no message
    BaseBackoff,    \* RECONNECT_INTERVAL_MS, in ticks
    MaxBackoff,     \* MAX_RECONNECT_INTERVAL_MS, in ticks
    MaxTrouble,     \* bound: how often a link, a broker or the configuration changes
    Races,          \* whether a configuration may arrive while a connection is set up
    WriteFails      \* whether a publish on a healthy connection may fail

MqttAssumption ==
    /\ Configs \subseteq [enabled : BOOLEAN, broker : Brokers, prefix : Prefixes,
                          ha_discovery : BOOLEAN]
    /\ Configs # {}
    /\ BaseBackoff \in Nat \ {0} /\ MaxBackoff \in Nat \ {0} /\ BaseBackoff <= MaxBackoff
    /\ None \notin Prefixes \cup Setpoints \cup {"online", "offline"}
    /\ MaxTrouble \in Nat
    /\ Races \in BOOLEAN /\ WriteFails \in BOOLEAN

ASSUME MqttAssumption

VARIABLES
    pc,             \* where the Network task is in its tick
    config,         \* the client's configuration
    connected,      \* mqttClient.connected()
    failures,       \* consecutiveConnectFailures
    sinceAttempt,   \* ticks since lastConnectAttempt
    degraded,       \* bufferDegraded: the discovery message does not fit
    unseen,         \* connectCount # lastConnectCount
    lastSetpoint,   \* the publisher's baseline
    setpoint,       \* the control loop's target temperature
    target,         \* the broker behind the client's socket
    alive,          \* the socket still reaches the session it opened
    session,        \* at each broker, the prefix of this client's will
    retained,       \* at each broker, the retained messages
    reachable,      \* whether a broker can be reached
    trouble,        \* bound on what else can go wrong
    (* history, read by the properties and by no action's guard *)
    named,          \* the prefix of the will in a CONNECT that is not answered yet
    stray,          \* status topics whose last word the device has got wrong, or failed to send
    missed          \* what of this connection's refresh has failed and not been made good

client == <<config, connected, failures, sinceAttempt, degraded>>
publisher == <<unseen, lastSetpoint>>
broker == <<session, retained>>
history == <<named, stray, missed>>
vars == <<pc, client, publisher, setpoint, target, alive, broker, reachable, trouble, history>>

Sooner(a, b) == IF a < b THEN a ELSE b

\* Backoff after f failures, doubled up to the cap.
backoff(f) == Sooner(BaseBackoff * 2^f, MaxBackoff)

\* Failures beyond the cap change nothing.
Failed(f) == IF backoff(f) = MaxBackoff THEN f ELSE f + 1

\* Whether a publish returns true: on a half-open connection it does, too.
Written == IF WriteFails THEN BOOLEAN ELSE {TRUE}

-----------------------------------------------------------------------------
(* Brokers. What a client publishes arrives only while its socket is alive.*)

\* Retained messages of a broker that has none.
NoMessages == [status    |-> [p \in Prefixes |-> None],
               setpoint  |-> [p \in Prefixes |-> None],
               discovery |-> FALSE]

\* The will of the session at b, if there is one, as published by the broker.
WillPublished(b) ==
    IF session[b] = None THEN retained
    ELSE [retained EXCEPT ![b].status[session[b]] = "offline"]

\* It is the last word on that topic, and a true one.
WillHeard(b) == stray \ {<<b, session[b]>>}

Trouble == trouble > 0 /\ trouble' = trouble - 1

\* The path to the broker breaks and nobody is told.
LinkLost ==
    /\ alive /\ Trouble /\ alive' = FALSE
    /\ UNCHANGED <<pc, client, publisher, setpoint, target, broker, reachable, history>>

\* A broker gives up a session without a live socket: it publishes the will.
SessionEnds(b) ==
    /\ session[b] # None
    /\ ~(alive /\ target = b)
    /\ retained' = WillPublished(b)
    /\ stray' = WillHeard(b)
    /\ session' = [session EXCEPT ![b] = None]
    /\ UNCHANGED <<pc, client, publisher, setpoint, target, alive, reachable, trouble, named,
                   missed>>

\* A broker restarts and has kept nothing.
BrokerRestarts(b) ==
    /\ Trouble
    /\ session' = [session EXCEPT ![b] = None]
    /\ retained' = [retained EXCEPT ![b] = NoMessages]
    /\ stray' = stray \ ({b} \X Prefixes)
    /\ alive' = (alive /\ target # b)
    /\ UNCHANGED <<pc, client, publisher, setpoint, target, reachable, named, missed>>

\* A broker cannot be reached for a while.
BrokerLeaves(b) ==
    /\ reachable[b] /\ Trouble
    /\ reachable' = [reachable EXCEPT ![b] = FALSE]
    /\ alive' = (alive /\ target # b)
    /\ UNCHANGED <<pc, client, publisher, setpoint, target, broker, history>>

BrokerReturns(b) ==
    /\ ~reachable[b]
    /\ reachable' = [reachable EXCEPT ![b] = TRUE]
    /\ UNCHANGED <<pc, client, publisher, setpoint, target, alive, broker, trouble, history>>

-----------------------------------------------------------------------------
(* MqttClient::loop, in the Network task.                                  *)

\* The socket is found closed, or a ping has not been answered in time.
LossNoticed ==
    /\ connected /\ ~alive
    /\ connected' = FALSE
    /\ UNCHANGED <<pc, config, failures, sinceAttempt, degraded, publisher, setpoint, target,
                   alive, broker, reachable, trouble, history>>

TickBegins == pc = "idle" /\ sinceAttempt' = Sooner(sinceAttempt + 1, MaxBackoff)

\* Nothing configured, connected already, or still backing off.
LoopReturns ==
    /\ TickBegins
    /\ ~config.enabled \/ connected \/ sinceAttempt' < backoff(failures)
    /\ pc' = "publish"
    /\ UNCHANGED <<config, connected, failures, degraded, publisher, setpoint, target, alive,
                   broker, reachable, trouble, history>>

\* An inbound command is handled inside mqttClient.loop().
CommandArrives ==
    /\ TickBegins
    /\ config.enabled /\ connected /\ alive
    /\ setpoint' \in Setpoints \ {setpoint}
    /\ pc' = "publish"
    /\ UNCHANGED <<config, connected, failures, degraded, publisher, target, alive, broker,
                   reachable, trouble, history>>

\* The old socket is stopped and the TCP connect to the configured host is tried.
Dial ==
    /\ pc = "idle"
    /\ config.enabled /\ ~connected
    /\ Sooner(sinceAttempt + 1, MaxBackoff) >= backoff(failures)
    /\ sinceAttempt' = 0
    /\ target' = config.broker
    /\ alive' = reachable[config.broker]
    /\ IF reachable[config.broker]
       THEN pc' = "connect" /\ failures' = failures
       ELSE pc' = "publish" /\ failures' = Failed(failures)
    /\ UNCHANGED <<config, connected, degraded, publisher, setpoint, broker, reachable, trouble,
                   history>>

\* CONNECT names the will under the prefix of this moment; a session that this
\* client id still has at the broker is taken over, and its will published.
Connect ==
    /\ pc = "connect"
    /\ pc' = "connack"
    /\ named' = config.prefix
    /\ IF alive
       THEN /\ retained' = WillPublished(target)
            /\ stray' = WillHeard(target)
            /\ session' = [session EXCEPT ![target] = config.prefix]
       ELSE UNCHANGED <<broker, stray>>
    /\ UNCHANGED <<client, publisher, setpoint, target, alive, reachable, trouble, missed>>

\* mutant: a connection counts as new only if the last tick ended without one
SeesEdge == UNCHANGED unseen

\* connectCount++
CountsConnect == unseen' = TRUE

\* The status topic the device writes to.
Topic == <<target, config.prefix>>

\* The broker accepts: online is announced under the prefix of this moment.  If
\* that is no longer the one CONNECT named, nothing will ever take it back.
Accepted ==
    /\ pc = "connack" /\ alive
    /\ pc' = "publish"
    /\ connected' = TRUE /\ failures' = 0
    /\ CountsConnect
    /\ degraded' \in BOOLEAN
    /\ \E ok \in Written :
           IF ok THEN /\ retained' = [retained EXCEPT ![target].status[config.prefix] = "online"]
                      /\ stray' = IF named = config.prefix THEN stray \ {Topic}
                                  ELSE stray \cup {Topic}
                 ELSE UNCHANGED <<retained, stray>>
    /\ named' = None /\ missed' = {}
    /\ UNCHANGED <<config, sinceAttempt, lastSetpoint, setpoint, target, alive, session,
                   reachable, trouble>>

\* No answer in time, or the broker refuses: the socket is stopped.
Refused ==
    /\ pc = "connack" /\ (~alive \/ trouble > 0)
    /\ trouble' = IF alive THEN trouble - 1 ELSE trouble
    /\ pc' = "publish"
    /\ alive' = FALSE
    /\ failures' = Failed(failures)
    /\ named' = None
    /\ UNCHANGED <<config, connected, sinceAttempt, degraded, publisher, setpoint, target, broker,
                   reachable, stray, missed>>

-----------------------------------------------------------------------------
(* MqttPublisher::tick, after loop() has returned.                         *)

\* mutant: the control state is only published when a connection is new
ChangedNever == FALSE

\* publishControlState(false) sends what differs from the baseline.
Changed == setpoint # lastSetpoint

\* What a tick publishes: a fresh connection is refreshed entirely, the discovery
\* message only if it is enabled; each computation of the control loop publishes
\* the control state once more; otherwise a tick tells what has changed.
Due(computed) ==
    (IF unseen \/ computed \/ Changed THEN {"setpoint"} ELSE {})
        \cup (IF unseen /\ config.enabled /\ config.ha_discovery THEN {"discovery"} ELSE {})

\* What of it is sent: the discovery message only if it fits the buffer.
SentOf(due) == LET fitting == IF degraded THEN due \ {"discovery"} ELSE due
               IN  IF WriteFails THEN SUBSET fitting ELSE {fitting}

\* Only a publish that succeeds moves the baseline; discovery has none.
Publish ==
    /\ pc = "publish" /\ connected
    /\ pc' = "idle"
    /\ unseen' = FALSE
    /\ \E computed \in BOOLEAN : \E sent \in SentOf(Due(computed)) :
        /\ lastSetpoint' = IF "setpoint" \in sent THEN setpoint ELSE lastSetpoint
        /\ missed' = (IF unseen THEN Due(computed) ELSE missed) \ sent
        /\ retained' =
               IF ~alive THEN retained
               ELSE [retained EXCEPT
                        ![target].discovery = @ \/ "discovery" \in sent,
                        ![target].setpoint[config.prefix] = IF "setpoint" \in sent THEN setpoint
                                                            ELSE @]
    /\ UNCHANGED <<client, setpoint, target, alive, session, reachable, trouble, named, stray>>

\* Not connected: the next connection is new.
Forget ==
    /\ pc = "publish" /\ ~connected
    /\ pc' = "idle"
    /\ unseen' = TRUE
    /\ UNCHANGED <<client, lastSetpoint, setpoint, target, alive, broker, reachable, trouble,
                   history>>

-----------------------------------------------------------------------------
(* The web task and the control loop.                                      *)

\* mutant: the link is dropped without a word
DisconnectSilently(new) ==
    /\ session' = [session EXCEPT ![target] = None]
    /\ UNCHANGED <<retained, stray>>

\* The farewell on a connection that works: the device is removed from Home
\* Assistant if it is to be, offline is published, DISCONNECT discards the will.
Farewell(new) ==
    /\ \E ok, removed \in Written :
           /\ retained' = [retained EXCEPT
                  ![target].discovery =
                      @ /\ ~(removed /\ config.ha_discovery /\ ~new.ha_discovery),
                  ![target].status[config.prefix] = IF ok THEN "offline" ELSE @]
           /\ stray' = IF ok THEN stray \ {Topic} ELSE stray \cup {Topic}
    /\ session' = [session EXCEPT ![target] = None]

\* MqttClient::setConfig, called by POST /api/mqtt.
setConfig(new) ==
    /\ Trouble
    /\ pc \in {"idle", "publish"} \/ Races
    /\ IF connected /\ alive THEN Farewell(new) ELSE UNCHANGED <<broker, stray>>
    /\ alive' = (alive /\ ~connected)
    /\ connected' = FALSE
    /\ config' = new
    /\ sinceAttempt' = MaxBackoff
    /\ failures' = 0
    /\ UNCHANGED <<pc, degraded, publisher, setpoint, target, reachable, named, missed>>

\* The end of a firmware update brings the backoff back to its base.
resetBackoff ==
    /\ pc = "idle" /\ failures > 0
    /\ failures' = 0
    /\ UNCHANGED <<pc, config, connected, sinceAttempt, degraded, publisher, setpoint, target,
                   alive, broker, reachable, trouble, history>>

\* The setpoint is changed in the web interface.
SetpointChanges ==
    /\ setpoint' \in Setpoints \ {setpoint}
    /\ UNCHANGED <<pc, client, publisher, target, alive, broker, reachable, trouble, history>>

Init ==
    /\ pc = "idle"
    /\ config \in Configs
    /\ connected = FALSE /\ failures = 0 /\ sinceAttempt = MaxBackoff /\ degraded = FALSE
    /\ unseen = FALSE /\ lastSetpoint = None
    /\ setpoint \in Setpoints
    /\ target = config.broker /\ alive = FALSE
    /\ session = [b \in Brokers |-> None]
    /\ retained = [b \in Brokers |-> NoMessages]
    /\ reachable = [b \in Brokers |-> TRUE]
    /\ trouble = MaxTrouble
    /\ named = None /\ stray = {} /\ missed = {}

NetworkTask ==
    LoopReturns \/ CommandArrives \/ Dial \/ Connect \/ Accepted \/ Refused \/ Publish \/ Forget

Environment ==
    \/ LinkLost \/ LossNoticed \/ resetBackoff \/ SetpointChanges
    \/ \E b \in Brokers :
           SessionEnds(b) \/ BrokerRestarts(b) \/ BrokerLeaves(b) \/ BrokerReturns(b)
    \/ \E new \in Configs : setConfig(new)

Next == NetworkTask \/ Environment

Spec == Init /\ [][Next]_vars

\* The task keeps ticking, a dead socket is noticed by the keepalive, and a
\* broker that cannot be reached comes back.
FairSpec ==
    /\ Spec
    /\ WF_vars(NetworkTask) /\ WF_vars(LossNoticed)
    /\ \A b \in Brokers : WF_vars(BrokerReturns(b))

-----------------------------------------------------------------------------
(* Properties.                                                             *)

Messages == [status : [Prefixes -> {None, "online", "offline"}],
             setpoint : [Prefixes -> Setpoints \cup {None}],
             discovery : BOOLEAN]

TypeOK ==
    /\ pc \in {"idle", "connect", "connack", "publish"}
    /\ config \in Configs
    /\ connected \in BOOLEAN /\ alive \in BOOLEAN /\ degraded \in BOOLEAN /\ unseen \in BOOLEAN
    /\ failures \in Nat /\ sinceAttempt \in 0 .. MaxBackoff
    /\ lastSetpoint \in Setpoints \cup {None} /\ setpoint \in Setpoints
    /\ target \in Brokers
    /\ session \in [Brokers -> Prefixes \cup {None}]
    /\ retained \in [Brokers -> Messages]
    /\ reachable \in [Brokers -> BOOLEAN]
    /\ trouble \in 0 .. MaxTrouble
    /\ named \in Prefixes \cup {None}
    /\ stray \subseteq Brokers \X Prefixes
    /\ missed \subseteq {"setpoint", "discovery"}

\* The retained status of a device does not stay `online' after it is gone: where
\* it says so, the broker has a session of the device whose will is that topic.
\* There are two ways to break it and no other: a new prefix that arrives within
\* a connect, announced without a will, and a goodbye that could not be sent.  A
\* topic spoilt by them is true again from the next word said on it.
AvailabilityIsTrue ==
    \A b \in Brokers, p \in Prefixes :
        retained[b].status[p] = "online" => session[b] = p \/ <<b, p>> \in stray

\* No connection goes without the full refresh, however it was lost and made
\* again within a tick: between ticks a broker the device is connected to holds
\* the setpoint last published, and the discovery message if it was to be sent,
\* except for what the client was told it could not send on this connection.
Refreshed ==
    /\ "setpoint" \notin missed => retained[target].setpoint[config.prefix] = lastSetpoint
    /\ config.enabled /\ config.ha_discovery /\ "discovery" \notin missed =>
           retained[target].discovery
EveryConnectionIsRefreshed == pc = "idle" /\ connected /\ alive => Refreshed

\* The comment in publishControlState (MqttPublisher.cpp:197): a topic that failed
\* is retried on the next tick.  What is retried is what differs from the baseline.
\* Without a computation of the control loop, nothing else sends it again.
FailedIsRetried == pc = "idle" /\ connected /\ "setpoint" \in missed => Changed

\* The comment in loop (MqttClient.cpp:152): the broker publishes `offline' where
\* the device has announced itself, so no `online' is without a will.
OnlineHasAWill ==
    \A b \in Brokers, p \in Prefixes : retained[b].status[p] = "online" => session[b] = p

\* Once links and configuration are left alone, a subscriber finds the setpoint
\* that is in force and the device online, on the broker it is connected to.
Told(v) == \E b \in Brokers : /\ session[b] = config.prefix
                              /\ retained[b].setpoint[config.prefix] = v
                              /\ retained[b].status[config.prefix] = "online"

BrokerLearns ==
    \A v \in Setpoints : <>[](config.enabled /\ setpoint = v) => <>[]Told(v)

\* Not checked by a run, see the README: the broker that learns is the one the
\* configuration names.
ConfiguredBrokerLearns ==
    <>[]config.enabled => <>[](session[config.broker] = config.prefix)
-----------------------------------------------------------------------------
(* The inductive invariants behind them (MqttClientProofs).                 *)

\* A topic that says online without a session behind it is a stray one.
Excused(b, p) == retained[b].status[p] = "online" => <<b, p>> \in stray

\* Where the socket is alive past CONNECT the will is the one CONNECT named, on a
\* topic that does not say online yet; a connection whose prefix was changed
\* meanwhile leaves that topic as it is.
SessionIsOurs ==
    /\ pc \in {"connect", "connack"} => ~connected
    /\ pc = "connack" /\ alive => /\ session[target] = named /\ named \in Prefixes
                                  /\ Excused(target, named)
    /\ connected /\ alive =>
          session[target] = config.prefix
              \/ (session[target] \in Prefixes /\ Excused(target, session[target]))
AvailabilityInv == SessionIsOurs /\ AvailabilityIsTrue

\* A connection the publisher has seen is refreshed, and a tick ends with it seen.
SeenIsRefreshed ==
    /\ pc \in {"connect", "connack"} => ~connected
    /\ pc = "idle" /\ connected => ~unseen
    /\ connected /\ alive /\ ~unseen => Refreshed
=============================================================================
