--------------------------- MODULE MqttClientProofs ---------------------------
(***************************************************************************)
(* Proofs about MqttClient for any brokers, prefixes and configurations.   *)
(***************************************************************************)
EXTENDS MqttClient, TLAPS

LEMMA Constants ==
    /\ \A c \in Configs : /\ c.enabled \in BOOLEAN /\ c.ha_discovery \in BOOLEAN
                          /\ c.broker \in Brokers /\ c.prefix \in Prefixes
    /\ BaseBackoff \in Nat /\ MaxBackoff \in Nat /\ MaxTrouble \in Nat
    /\ None \notin Prefixes /\ None \notin Setpoints /\ None # "online" /\ None # "offline"
BY MqttAssumption DEF MqttAssumption

-----------------------------------------------------------------------------
(* What is written into the retained messages                               *)

Statuses == {None, "online", "offline"}

PutStatus(r, b, p, v) == [r EXCEPT ![b].status[p] = v]
PutFarewell(r, b, p, v, d) == [r EXCEPT ![b].discovery = d, ![b].status[p] = v]
PutState(r, b, p, v, d) == [r EXCEPT ![b].discovery = d, ![b].setpoint[p] = v]

LEMMA StatusWritten ==
    ASSUME NEW r \in [Brokers -> Messages], NEW b \in Brokers, NEW p \in Prefixes,
           NEW v \in Statuses, NEW s, s = PutStatus(r, b, p, v)
    PROVE  /\ s \in [Brokers -> Messages]
           /\ \A c \in Brokers : s[c].setpoint = r[c].setpoint /\ s[c].discovery = r[c].discovery
           /\ \A c \in Brokers, q \in Prefixes :
                 s[c].status[q] = IF c = b /\ q = p THEN v ELSE r[c].status[q]
<1> DEFINE m == [r[b] EXCEPT !.status[p] = v]
<1>1. r[b] \in Messages OBVIOUS
<1>2. /\ m \in Messages /\ m.setpoint = r[b].setpoint /\ m.discovery = r[b].discovery
      /\ \A q \in Prefixes : m.status[q] = IF q = p THEN v ELSE r[b].status[q]
  BY <1>1 DEF Messages, Statuses
<1>3. s = [r EXCEPT ![b] = m] BY DEF PutStatus
<1> HIDE DEF m
<1>4. s \in [Brokers -> Messages] /\ s[b] = m /\ \A c \in Brokers : c # b => s[c] = r[c]
  BY <1>2, <1>3
<1>5. \A c \in Brokers, q \in Prefixes :
         s[c].status[q] = IF c = b /\ q = p THEN v ELSE r[c].status[q]
  <2> TAKE c \in Brokers, q \in Prefixes
  <2>1. CASE c = b BY <1>2, <1>4, <2>1
  <2>2. CASE c # b BY <1>4, <2>2
  <2> QED BY <2>1, <2>2
<1>6. \A c \in Brokers : s[c].setpoint = r[c].setpoint /\ s[c].discovery = r[c].discovery
  BY <1>2, <1>4
<1> QED BY <1>4, <1>5, <1>6

LEMMA FarewellWritten ==
    ASSUME NEW r \in [Brokers -> Messages], NEW b \in Brokers, NEW p \in Prefixes,
           NEW v \in Statuses, NEW d \in BOOLEAN,
           NEW s, s = PutFarewell(r, b, p, v, d)
    PROVE  /\ s \in [Brokers -> Messages]
           /\ \A c \in Brokers, q \in Prefixes :
                 s[c].status[q] = IF c = b /\ q = p THEN v ELSE r[c].status[q]
<1> DEFINE m == [r[b] EXCEPT !.discovery = d, !.status[p] = v]
<1>1. r[b] \in Messages OBVIOUS
<1>2. /\ m \in Messages
      /\ \A q \in Prefixes : m.status[q] = IF q = p THEN v ELSE r[b].status[q]
  BY <1>1 DEF Messages, Statuses
<1>3. s = [r EXCEPT ![b] = m] BY DEF PutFarewell
<1> HIDE DEF m
<1>4. s \in [Brokers -> Messages] /\ s[b] = m /\ \A c \in Brokers : c # b => s[c] = r[c]
  BY <1>2, <1>3
<1>5. \A c \in Brokers, q \in Prefixes :
         s[c].status[q] = IF c = b /\ q = p THEN v ELSE r[c].status[q]
  <2> TAKE c \in Brokers, q \in Prefixes
  <2>1. CASE c = b BY <1>2, <1>4, <2>1
  <2>2. CASE c # b BY <1>4, <2>2
  <2> QED BY <2>1, <2>2
<1> QED BY <1>4, <1>5

LEMMA StateWritten ==
    ASSUME NEW r \in [Brokers -> Messages], NEW b \in Brokers, NEW p \in Prefixes,
           NEW v \in Setpoints \cup {None}, NEW d \in BOOLEAN,
           NEW s, s = PutState(r, b, p, v, d)
    PROVE  /\ s \in [Brokers -> Messages]
           /\ \A c \in Brokers : s[c].status = r[c].status
           /\ s[b].discovery = d /\ s[b].setpoint[p] = v
<1> DEFINE m == [r[b] EXCEPT !.discovery = d, !.setpoint[p] = v]
<1>1. r[b] \in Messages OBVIOUS
<1>2. m \in Messages /\ m.status = r[b].status /\ m.discovery = d /\ m.setpoint[p] = v
  BY <1>1 DEF Messages
<1>3. s = [r EXCEPT ![b] = m] BY DEF PutState
<1> HIDE DEF m
<1>4. s \in [Brokers -> Messages] /\ s[b] = m /\ \A c \in Brokers : c # b => s[c] = r[c]
  BY <1>2, <1>3
<1> QED BY <1>2, <1>3, <1>4

LEMMA NothingRetained == NoMessages \in Messages /\ \A p \in Prefixes : NoMessages.status[p] = None
<1>1. FALSE \in BOOLEAN OBVIOUS
<1> QED BY <1>1 DEF NoMessages, Messages

\* The will replaces the status under its own topic and nothing else.
LEMMA WillWritten ==
    ASSUME TypeOK, NEW b \in Brokers
    PROVE  /\ WillPublished(b) \in [Brokers -> Messages]
           /\ \A c \in Brokers : /\ WillPublished(b)[c].setpoint = retained[c].setpoint
                                 /\ WillPublished(b)[c].discovery = retained[c].discovery
           /\ \A c \in Brokers, q \in Prefixes :
                 WillPublished(b)[c].status[q] = IF c = b /\ q = session[b] THEN "offline"
                                                 ELSE retained[c].status[q]
<1>1. retained \in [Brokers -> Messages] /\ session[b] \in Prefixes \cup {None} BY DEF TypeOK
<1>2. CASE session[b] = None BY <1>1, <1>2, Constants DEF WillPublished
<1>3. CASE session[b] # None
  <2>1. session[b] \in Prefixes /\ "offline" \in Statuses BY <1>1, <1>3 DEF Statuses
  <2>2. WillPublished(b) = PutStatus(retained, b, session[b], "offline")
    BY <1>3 DEF WillPublished, PutStatus
  <2> QED BY <1>1, <2>1, <2>2, StatusWritten
<1> QED BY <1>2, <1>3

-----------------------------------------------------------------------------
(* Types                                                                    *)

LEMMA Numbers ==
    ASSUME TypeOK
    PROVE  /\ Sooner(sinceAttempt + 1, MaxBackoff) \in 0 .. MaxBackoff
           /\ 0 \in 0 .. MaxBackoff /\ MaxBackoff \in 0 .. MaxBackoff
           /\ Failed(failures) \in Nat /\ 0 \in Nat
           /\ \A n \in 0 .. MaxTrouble : n > 0 => n - 1 \in 0 .. MaxTrouble
<1>1. sinceAttempt \in 0 .. MaxBackoff /\ failures \in Nat BY DEF TypeOK
<1>2. Failed(failures) = failures \/ Failed(failures) = failures + 1 BY DEF Failed
<1> QED BY <1>1, <1>2, Constants DEF Sooner

\* TypeOK of everything but the brokers' side, which few actions touch.
TaskTyped ==
    /\ pc \in {"idle", "connect", "connack", "publish"}
    /\ config \in Configs /\ connected \in BOOLEAN /\ degraded \in BOOLEAN /\ unseen \in BOOLEAN
    /\ failures \in Nat /\ sinceAttempt \in 0 .. MaxBackoff
    /\ lastSetpoint \in Setpoints \cup {None} /\ setpoint \in Setpoints
LineTyped ==
    target \in Brokers /\ alive \in BOOLEAN /\ reachable \in [Brokers -> BOOLEAN]
        /\ trouble \in 0 .. MaxTrouble
HistoryTyped ==
    /\ named \in Prefixes \cup {None} /\ stray \subseteq Brokers \X Prefixes
    /\ missed \subseteq {"setpoint", "discovery"}
BrokerTyped ==
    session \in [Brokers -> Prefixes \cup {None}] /\ retained \in [Brokers -> Messages]

SystemTyped == TaskTyped /\ LineTyped /\ BrokerTyped

LEMMA TypeParts ==
    /\ TypeOK <=> SystemTyped /\ HistoryTyped
    /\ TypeOK' <=> SystemTyped' /\ HistoryTyped'
    /\ SystemTyped <=> TaskTyped /\ LineTyped /\ BrokerTyped
    /\ SystemTyped' <=> TaskTyped' /\ LineTyped' /\ BrokerTyped'
    /\ TaskTyped /\ UNCHANGED <<pc, client, publisher, setpoint>> => TaskTyped'
    /\ LineTyped /\ UNCHANGED <<target, alive, reachable, trouble>> => LineTyped'
    /\ BrokerTyped /\ UNCHANGED broker => BrokerTyped'
<1>1. TypeOK <=> SystemTyped /\ HistoryTyped
  BY DEF TypeOK, SystemTyped, TaskTyped, LineTyped, BrokerTyped, HistoryTyped
<1>2. TypeOK' <=> SystemTyped' /\ HistoryTyped'
  BY DEF TypeOK, SystemTyped, TaskTyped, LineTyped, BrokerTyped, HistoryTyped
<1>3. TaskTyped /\ UNCHANGED <<pc, client, publisher, setpoint>> => TaskTyped'
  BY DEF client, publisher, TaskTyped
<1>4. LineTyped /\ UNCHANGED <<target, alive, reachable, trouble>> => LineTyped'
  BY DEF LineTyped
<1>5. BrokerTyped /\ UNCHANGED broker => BrokerTyped'
  BY DEF broker, BrokerTyped
<1>6. /\ SystemTyped <=> TaskTyped /\ LineTyped /\ BrokerTyped
      /\ SystemTyped' <=> TaskTyped' /\ LineTyped' /\ BrokerTyped'
  BY DEF SystemTyped
<1> QED BY <1>1, <1>2, <1>3, <1>4, <1>5, <1>6

LEMMA InitTyped == Init => TypeOK
<1> SUFFICES ASSUME Init PROVE TypeOK OBVIOUS
<1>1. TaskTyped
  <2>1. FALSE \in BOOLEAN /\ 0 \in Nat /\ MaxBackoff \in 0 .. MaxBackoff BY Constants
  <2> QED BY <2>1 DEF Init, TaskTyped
<1>2. LineTyped
  <2>1. FALSE \in BOOLEAN /\ TRUE \in BOOLEAN /\ MaxTrouble \in 0 .. MaxTrouble BY Constants
  <2>2. config.broker \in Brokers BY Constants DEF Init
  <2> QED BY <2>1, <2>2 DEF Init, LineTyped
<1>3. BrokerTyped BY NothingRetained DEF Init, BrokerTyped
<1>4. HistoryTyped BY DEF Init, HistoryTyped
<1> QED BY <1>1, <1>2, <1>3, <1>4, TypeParts

\* What the farewell leaves at the broker: the topic says offline, or is a stray one.
LEMMA FarewellTyped ==
    ASSUME TypeOK, NEW new \in Configs, Farewell(new)
    PROVE  /\ BrokerTyped'
           /\ session' = [session EXCEPT ![target] = None]
           /\ retained'[target].status[config.prefix] = "offline" \/ Topic \in stray'
           /\ stray' \subseteq stray \cup {Topic}
           /\ \A c \in Brokers, q \in Prefixes : c # target \/ q # config.prefix =>
                 /\ retained'[c].status[q] = retained[c].status[q]
                 /\ <<c, q>> \in stray => <<c, q>> \in stray'
<1>1. /\ session \in [Brokers -> Prefixes \cup {None}] /\ retained \in [Brokers -> Messages]
      /\ target \in Brokers /\ config.prefix \in Prefixes
  BY Constants DEF TypeOK
<1>2. PICK ok \in Written, removed \in Written :
         /\ retained' = [retained EXCEPT
                ![target].discovery =
                    @ /\ ~(removed /\ config.ha_discovery /\ ~new.ha_discovery),
                ![target].status[config.prefix] = IF ok THEN "offline" ELSE @]
         /\ stray' = IF ok THEN stray \ {Topic} ELSE stray \cup {Topic}
  BY DEF Farewell
<1>3. PICK v : v = IF ok THEN "offline" ELSE retained[target].status[config.prefix]
  OBVIOUS
<1>4. PICK d : d = (retained[target].discovery
                       /\ ~(removed /\ config.ha_discovery /\ ~new.ha_discovery))
  OBVIOUS
<1>5. v \in Statuses /\ d \in BOOLEAN /\ (ok => v = "offline")
  BY <1>1, <1>3, <1>4 DEF Messages, Statuses
<1>6. retained' = PutFarewell(retained, target, config.prefix, v, d)
  BY <1>1, <1>2, <1>3, <1>4 DEF PutFarewell
<1>7. session' = [session EXCEPT ![target] = None] BY DEF Farewell
<1>8. /\ retained' \in [Brokers -> Messages]
      /\ \A c \in Brokers, q \in Prefixes :
            retained'[c].status[q] = IF c = target /\ q = config.prefix THEN v
                                     ELSE retained[c].status[q]
  <2>1. /\ retained \in [Brokers -> Messages] /\ target \in Brokers /\ config.prefix \in Prefixes
        /\ v \in Statuses /\ d \in BOOLEAN
    BY <1>1, <1>5
  <2> HIDE <1>2, <1>3, <1>4, <1>5
  <2> QED BY <1>6, <2>1, FarewellWritten
<1>9. BrokerTyped' BY <1>1, <1>7, <1>8 DEF BrokerTyped
<1>10. stray' = IF ok THEN stray \ {Topic} ELSE stray \cup {Topic} BY <1>2
<1>11. retained'[target].status[config.prefix] = v BY <1>1, <1>8
<1>12. retained'[target].status[config.prefix] = "offline" \/ Topic \in stray'
  BY <1>5, <1>10, <1>11
<1>13. stray' \subseteq stray \cup {Topic} BY <1>10
<1>14. ASSUME NEW c \in Brokers, NEW q \in Prefixes, c # target \/ q # config.prefix
       PROVE  /\ retained'[c].status[q] = retained[c].status[q]
              /\ <<c, q>> \in stray => <<c, q>> \in stray'
  <2>1. <<c, q>> # Topic BY <1>14 DEF Topic
  <2> QED BY <1>8, <1>10, <1>14, <2>1
<1> QED BY <1>7, <1>9, <1>12, <1>13, <1>14

\* What a publish leaves there: what was refreshed stays so, and a new connection is.
LEMMA PublishTyped ==
    ASSUME TypeOK, Publish
    PROVE  /\ BrokerTyped'
           /\ \A c \in Brokers : retained'[c].status = retained[c].status
           /\ lastSetpoint' \in Setpoints \cup {None}
           /\ missed' \subseteq {"setpoint", "discovery"}
           /\ alive /\ (~unseen => Refreshed) => Refreshed'
<1>1. /\ session \in [Brokers -> Prefixes \cup {None}] /\ retained \in [Brokers -> Messages]
      /\ target \in Brokers /\ config.prefix \in Prefixes /\ retained[target] \in Messages
      /\ setpoint \in Setpoints /\ lastSetpoint \in Setpoints \cup {None}
      /\ missed \subseteq {"setpoint", "discovery"}
  BY Constants DEF TypeOK
<1>2. PICK computed \in BOOLEAN : \E sent \in SentOf(Due(computed)) :
        /\ lastSetpoint' = IF "setpoint" \in sent THEN setpoint ELSE lastSetpoint
        /\ missed' = (IF unseen THEN Due(computed) ELSE missed) \ sent
        /\ retained' =
               IF ~alive THEN retained
               ELSE [retained EXCEPT
                        ![target].discovery = @ \/ "discovery" \in sent,
                        ![target].setpoint[config.prefix] = IF "setpoint" \in sent THEN setpoint
                                                            ELSE @]
  BY DEF Publish
<1>3. PICK due : due = Due(computed) OBVIOUS
<1>4. PICK sent \in SentOf(due) :
        /\ lastSetpoint' = IF "setpoint" \in sent THEN setpoint ELSE lastSetpoint
        /\ missed' = (IF unseen THEN due ELSE missed) \ sent
        /\ retained' =
               IF ~alive THEN retained
               ELSE [retained EXCEPT
                        ![target].discovery = @ \/ "discovery" \in sent,
                        ![target].setpoint[config.prefix] = IF "setpoint" \in sent THEN setpoint
                                                            ELSE @]
  BY <1>2, <1>3
<1>5. PICK v : v = IF "setpoint" \in sent THEN setpoint
                   ELSE retained[target].setpoint[config.prefix]
  OBVIOUS
<1>6. PICK d : d = (retained[target].discovery \/ "discovery" \in sent)
  OBVIOUS
<1>7. v \in Setpoints \cup {None} /\ d \in BOOLEAN
  BY <1>1, <1>5, <1>6 DEF Messages
<1>8. alive => retained' = PutState(retained, target, config.prefix, v, d)
  BY <1>1, <1>4, <1>5, <1>6 DEF PutState
<1>9. due \subseteq {"setpoint", "discovery"} BY <1>3 DEF Due
<1>10. UNCHANGED <<session, config, target>> BY DEF Publish, client
<1>11. ~alive => retained' = retained BY <1>4
<1>12. /\ lastSetpoint' = (IF "setpoint" \in sent THEN setpoint ELSE lastSetpoint)
       /\ missed' = (IF unseen THEN due ELSE missed) \ sent
  BY <1>4
<1>13. alive => /\ retained' \in [Brokers -> Messages]
                /\ \A c \in Brokers : retained'[c].status = retained[c].status
                /\ retained'[target].discovery = d /\ retained'[target].setpoint[config.prefix] = v
  <2>1. /\ retained \in [Brokers -> Messages] /\ target \in Brokers /\ config.prefix \in Prefixes
        /\ v \in Setpoints \cup {None} /\ d \in BOOLEAN
    BY <1>1, <1>7
  <2> HIDE <1>4, <1>5, <1>6, <1>7
  <2> QED BY <1>8, <2>1, StateWritten
<1>14. BrokerTyped' BY <1>1, <1>10, <1>11, <1>13 DEF BrokerTyped
<1>15. lastSetpoint' \in Setpoints \cup {None} BY <1>1, <1>12
<1>16. missed' \subseteq {"setpoint", "discovery"} BY <1>1, <1>9, <1>12
<1>17. \A c \in Brokers : retained'[c].status = retained[c].status BY <1>11, <1>13
<1>18. ASSUME alive, ~unseen => Refreshed PROVE Refreshed'
  <2>1. ASSUME "setpoint" \notin missed'
        PROVE  retained'[target].setpoint[config.prefix] = lastSetpoint'
    <3>1. CASE "setpoint" \in sent BY <1>5, <1>12, <1>13, <1>18, <3>1
    <3>2. CASE "setpoint" \notin sent
      <4>1. ~unseen /\ "setpoint" \notin missed BY <1>3, <1>12, <2>1, <3>2 DEF Due
      <4>2. retained[target].setpoint[config.prefix] = lastSetpoint BY <1>18, <4>1 DEF Refreshed
      <4> QED BY <1>5, <1>12, <1>13, <1>18, <3>2, <4>2
    <3> QED BY <3>1, <3>2
  <2>2. ASSUME config.enabled, config.ha_discovery, "discovery" \notin missed'
        PROVE  retained'[target].discovery
    <3>1. CASE "discovery" \in sent BY <1>6, <1>13, <1>18, <3>1
    <3>2. CASE "discovery" \notin sent
      <4>1. ~unseen /\ "discovery" \notin missed BY <1>3, <1>12, <2>2, <3>2 DEF Due
      <4>2. retained[target].discovery BY <1>18, <2>2, <4>1 DEF Refreshed
      <4> QED BY <1>6, <1>13, <1>18, <4>2
    <3> QED BY <3>1, <3>2
  <2> QED BY <1>10, <2>1, <2>2 DEF Refreshed
<1> QED BY <1>14, <1>15, <1>16, <1>17, <1>18

\* The task's own steps.
LEMMA TaskKeepsTypes == ASSUME TypeOK, NetworkTask PROVE SystemTyped'
<1>1. TaskTyped /\ LineTyped /\ BrokerTyped BY TypeParts
<1>2. /\ config \in Configs /\ config.broker \in Brokers /\ config.prefix \in Prefixes
      /\ TRUE \in BOOLEAN /\ FALSE \in BOOLEAN
  BY <1>1, Constants DEF TaskTyped
<1>3. CASE LoopReturns
  <2>1. /\ pc' = "publish" /\ sinceAttempt' = Sooner(sinceAttempt + 1, MaxBackoff)
        /\ UNCHANGED <<config, connected, failures, degraded, unseen, lastSetpoint, setpoint, target,
                       alive, broker, reachable, trouble>>
    BY <1>3 DEF LoopReturns, TickBegins, publisher
  <2>2. TaskTyped' BY <1>1, <2>1, Numbers DEF TaskTyped
  <2> QED BY <1>1, <2>1, <2>2, TypeParts
<1>4. CASE CommandArrives
  <2>1. /\ pc' = "publish" /\ sinceAttempt' = Sooner(sinceAttempt + 1, MaxBackoff)
        /\ setpoint' \in Setpoints
        /\ UNCHANGED <<config, connected, failures, degraded, unseen, lastSetpoint, target,
                       alive, broker, reachable, trouble>>
    BY <1>4 DEF CommandArrives, TickBegins, publisher
  <2>2. TaskTyped' BY <1>1, <2>1, Numbers DEF TaskTyped
  <2> QED BY <1>1, <2>1, <2>2, TypeParts
<1>5. CASE Dial
  <2>1. /\ sinceAttempt' = 0 /\ target' = config.broker /\ alive' = reachable[config.broker]
        /\ UNCHANGED <<config, connected, degraded, unseen, lastSetpoint, setpoint, broker,
                       reachable, trouble>>
    BY <1>5 DEF Dial, publisher
  <2>2. pc' \in {"connect", "publish"} /\ failures' \in Nat
    <3>1. failures \in Nat BY <1>1 DEF TaskTyped
    <3> QED BY <1>5, <3>1, Numbers DEF Dial
  <2>3. TaskTyped' BY <1>1, <2>1, <2>2, Numbers DEF TaskTyped
  <2>4. LineTyped' BY <1>1, <1>2, <2>1 DEF LineTyped
  <2> QED BY <1>1, <2>1, <2>3, <2>4, TypeParts
<1>6. CASE Connect
  <2>1. pc' = "connack" /\ UNCHANGED <<config, connected, failures, sinceAttempt, degraded, unseen,
             lastSetpoint, setpoint, target, alive, reachable, trouble>>
    BY <1>6 DEF Connect, client, publisher
  <2>2. BrokerTyped'
    <3>1. CASE alive
      <4>1. retained' = WillPublished(target) /\ session' = [session EXCEPT ![target] = config.prefix]
        BY <1>6, <3>1 DEF Connect
      <4>2. target \in Brokers BY <1>1 DEF LineTyped
      <4>3. retained' \in [Brokers -> Messages] BY <4>1, <4>2, WillWritten
      <4> QED BY <1>1, <1>2, <4>1, <4>2, <4>3 DEF BrokerTyped
    <3>2. CASE ~alive BY <1>1, <1>6, <3>2, TypeParts DEF Connect
    <3> QED BY <3>1, <3>2
  <2>3. TaskTyped' BY <1>1, <2>1 DEF TaskTyped
  <2> QED BY <1>1, <2>1, <2>2, <2>3, TypeParts
<1>7. CASE Accepted
  <2>1. /\ pc' = "publish" /\ connected' = TRUE /\ failures' = 0 /\ unseen' = TRUE
        /\ degraded' \in BOOLEAN
        /\ UNCHANGED <<config, sinceAttempt, lastSetpoint, setpoint, target, alive, session,
                       reachable, trouble>>
    BY <1>7 DEF Accepted, CountsConnect
  <2>2. connected' \in BOOLEAN /\ unseen' \in BOOLEAN BY <2>1
  <2>3. retained' \in [Brokers -> Messages]
    <3>1. /\ retained \in [Brokers -> Messages] /\ target \in Brokers /\ "online" \in Statuses
      BY <1>1 DEF BrokerTyped, LineTyped, Statuses
    <3>2. retained' = retained \/ retained' = PutStatus(retained, target, config.prefix, "online")
      BY <1>7 DEF Accepted, PutStatus
    <3> QED BY <1>2, <3>1, <3>2, StatusWritten
  <2>4. TaskTyped' BY <1>1, <2>1, <2>2, Numbers DEF TaskTyped
  <2>5. BrokerTyped' BY <1>1, <2>1, <2>3 DEF BrokerTyped
  <2> QED BY <1>1, <2>1, <2>4, <2>5, TypeParts
<1>8. CASE Refused
  <2>1. /\ pc' = "publish" /\ alive' = FALSE /\ failures' = Failed(failures)
        /\ trouble' = trouble \/ (trouble > 0 /\ trouble' = trouble - 1)
        /\ UNCHANGED <<config, connected, sinceAttempt, degraded, unseen, lastSetpoint, setpoint,
                       target, broker, reachable>>
    BY <1>8 DEF Refused, publisher
  <2>2. trouble' \in 0 .. MaxTrouble BY <1>1, <2>1, Numbers DEF LineTyped
  <2>3. TaskTyped' BY <1>1, <2>1, Numbers DEF TaskTyped
  <2>4. alive' \in BOOLEAN BY <2>1
  <2>5. LineTyped' BY <1>1, <2>1, <2>2, <2>4 DEF LineTyped
  <2> QED BY <1>1, <2>1, <2>3, <2>5, TypeParts
<1>9. CASE Publish
  <2>1. pc' = "idle" /\ unseen' = FALSE /\ UNCHANGED <<config, connected, failures, sinceAttempt,
             degraded, setpoint, target, alive, reachable, trouble>>
    BY <1>9 DEF Publish, client
  <2>2. unseen' \in BOOLEAN BY <2>1
  <2>3. TaskTyped' BY <1>1, <1>9, <2>1, <2>2, PublishTyped DEF TaskTyped
  <2> QED BY <1>1, <1>9, <2>1, <2>3, PublishTyped, TypeParts
<1>10. CASE Forget
  <2>1. pc' = "idle" /\ unseen' = TRUE /\ UNCHANGED <<config, connected, failures, sinceAttempt,
             degraded, lastSetpoint, setpoint, target, alive, broker, reachable, trouble>>
    BY <1>10 DEF Forget, client
  <2>2. unseen' \in BOOLEAN BY <2>1
  <2>3. TaskTyped' BY <1>1, <2>1, <2>2 DEF TaskTyped
  <2> QED BY <1>1, <2>1, <2>3, TypeParts
<1> QED BY <1>3, <1>4, <1>5, <1>6, <1>7, <1>8, <1>9, <1>10 DEF NetworkTask

\* What happens to it.
LEMMA EnvironmentKeepsTypes == ASSUME TypeOK, Environment PROVE SystemTyped'
<1>1. TaskTyped /\ LineTyped /\ BrokerTyped BY TypeParts
<1>2. ASSUME Trouble PROVE trouble' \in 0 .. MaxTrouble
  BY <1>1, <1>2, Numbers DEF Trouble, LineTyped
<1>3. alive \in BOOLEAN /\ target \in Brokers BY <1>1 DEF LineTyped
<1>4. CASE LinkLost
  <2>1. Trouble /\ alive' \in BOOLEAN
        /\ UNCHANGED <<pc, client, publisher, setpoint, target, broker, reachable>>
    BY <1>4 DEF LinkLost
  <2>2. LineTyped' BY <1>1, <1>2, <2>1 DEF LineTyped
  <2> QED BY <1>1, <2>1, <2>2, TypeParts
<1>5. CASE LossNoticed \/ resetBackoff \/ SetpointChanges
  <2>1. /\ connected' \in BOOLEAN /\ failures' \in Nat /\ setpoint' \in Setpoints
        /\ UNCHANGED <<pc, config, sinceAttempt, degraded, unseen, lastSetpoint,
                       target, alive, broker, reachable, trouble>>
    <3>1. connected \in BOOLEAN /\ FALSE \in BOOLEAN /\ failures \in Nat /\ 0 \in Nat
          /\ setpoint \in Setpoints
      BY <1>1 DEF TaskTyped
    <3>2. CASE LossNoticed BY <3>1, <3>2 DEF LossNoticed, publisher
    <3>3. CASE resetBackoff BY <3>1, <3>3 DEF resetBackoff, publisher
    <3>4. CASE SetpointChanges BY <3>1, <3>4 DEF SetpointChanges, client, publisher
    <3> QED BY <1>5, <3>2, <3>3, <3>4
  <2>2. TaskTyped' BY <1>1, <2>1 DEF TaskTyped
  <2> QED BY <1>1, <2>1, <2>2, TypeParts
<1>6. ASSUME NEW b \in Brokers, SessionEnds(b) PROVE SystemTyped'
  <2>1. /\ retained' = WillPublished(b) /\ session' = [session EXCEPT ![b] = None]
        /\ UNCHANGED <<pc, client, publisher, setpoint, target, alive, reachable, trouble>>
    BY <1>6 DEF SessionEnds
  <2>2. retained' \in [Brokers -> Messages] BY <2>1, WillWritten
  <2>3. BrokerTyped' BY <1>1, <2>1, <2>2 DEF BrokerTyped
  <2> QED BY <1>1, <2>1, <2>3, TypeParts
<1>7. ASSUME NEW b \in Brokers, BrokerRestarts(b) PROVE SystemTyped'
  <2>1. /\ retained' = [retained EXCEPT ![b] = NoMessages] /\ session' = [session EXCEPT ![b] = None]
        /\ Trouble /\ alive' = (alive /\ target # b)
        /\ UNCHANGED <<pc, client, publisher, setpoint, target, reachable>>
    BY <1>7 DEF BrokerRestarts
  <2>2. BrokerTyped' BY <1>1, <2>1, NothingRetained DEF BrokerTyped
  <2>3. alive' \in BOOLEAN BY <2>1
  <2>4. LineTyped' BY <1>1, <1>2, <2>1, <2>3 DEF LineTyped
  <2> QED BY <1>1, <2>1, <2>2, <2>4, TypeParts
<1>8. ASSUME NEW b \in Brokers, BrokerLeaves(b) \/ BrokerReturns(b) PROVE SystemTyped'
  <2>1. /\ reachable' = [reachable EXCEPT ![b] = FALSE] \/ reachable' = [reachable EXCEPT ![b] = TRUE]
        /\ Trouble \/ trouble' = trouble
        /\ alive' = alive \/ alive' = (alive /\ target # b)
        /\ UNCHANGED <<pc, client, publisher, setpoint, target, broker>>
    BY <1>8 DEF BrokerLeaves, BrokerReturns
  <2>2. reachable' \in [Brokers -> BOOLEAN] BY <1>1, <2>1 DEF LineTyped
  <2>3. alive' \in BOOLEAN BY <1>3, <2>1
  <2>4. LineTyped' BY <1>1, <1>2, <2>1, <2>2, <2>3 DEF LineTyped
  <2> QED BY <1>1, <2>1, <2>4, TypeParts
<1>9. ASSUME NEW new \in Configs, setConfig(new) PROVE SystemTyped'
  <2>1. /\ Trouble /\ alive' = (alive /\ ~connected) /\ connected' = FALSE /\ config' = new
        /\ sinceAttempt' = MaxBackoff /\ failures' = 0
        /\ Farewell(new) \/ UNCHANGED broker
        /\ UNCHANGED <<pc, degraded, unseen, lastSetpoint, setpoint, target, reachable>>
    BY <1>9 DEF setConfig, publisher
  <2>2. BrokerTyped' BY <1>1, <2>1, FarewellTyped, TypeParts
  <2>3. alive' \in BOOLEAN /\ connected' \in BOOLEAN BY <2>1
  <2>4. LineTyped' BY <1>1, <1>2, <2>1, <2>3 DEF LineTyped
  <2>5. TaskTyped' BY <1>1, <2>1, <2>3, Numbers DEF TaskTyped
  <2> QED BY <2>2, <2>4, <2>5, TypeParts
<1> QED BY <1>4, <1>5, <1>6, <1>7, <1>8, <1>9 DEF Environment

\* What is remembered for the properties.
LEMMA HistoryKeepsTypes == ASSUME TypeOK, Next PROVE HistoryTyped'
<1>1. /\ HistoryTyped /\ Topic \in Brokers \X Prefixes /\ config.prefix \in Prefixes
  BY TypeParts, Constants DEF TypeOK, Topic
<1>2. ASSUME named' \in {named, None, config.prefix}, stray' \subseteq stray \cup {Topic},
             missed' = missed \/ missed' = {}
      PROVE  HistoryTyped'
  BY <1>1, <1>2 DEF HistoryTyped
<1>3. CASE \/ LoopReturns \/ CommandArrives \/ Dial \/ Forget
           \/ LinkLost \/ LossNoticed \/ resetBackoff \/ SetpointChanges
  <2>1. UNCHANGED history
    BY <1>3 DEF LoopReturns, CommandArrives, Dial, Forget, LinkLost, LossNoticed, resetBackoff,
       SetpointChanges
  <2> QED BY <1>2, <2>1 DEF history
<1>4. CASE Connect
  <2>1. named' = config.prefix /\ missed' = missed /\ (stray' = WillHeard(target) \/ stray' = stray)
    BY <1>4 DEF Connect
  <2> QED BY <1>2, <2>1 DEF WillHeard
<1>5. CASE Accepted
  <2>1. named' = None /\ missed' = {}
        /\ (stray' = stray \/ stray' = stray \ {Topic} \/ stray' = stray \cup {Topic})
    BY <1>5 DEF Accepted
  <2> QED BY <1>2, <2>1
<1>6. CASE Refused
  <2>1. named' = None /\ UNCHANGED <<stray, missed>> BY <1>6 DEF Refused
  <2> QED BY <1>2, <2>1
<1>7. CASE Publish
  <2>1. UNCHANGED <<named, stray>> BY <1>7 DEF Publish
  <2>2. missed' \subseteq {"setpoint", "discovery"} BY <1>7, PublishTyped
  <2> QED BY <1>1, <2>1, <2>2 DEF HistoryTyped
<1>8. ASSUME NEW b \in Brokers, SessionEnds(b) \/ BrokerRestarts(b) PROVE HistoryTyped'
  <2>1. UNCHANGED <<named, missed>>
        /\ (stray' = WillHeard(b) \/ stray' = stray \ ({b} \X Prefixes))
    BY <1>8 DEF SessionEnds, BrokerRestarts
  <2> QED BY <1>2, <2>1 DEF WillHeard
<1>9. ASSUME NEW b \in Brokers, BrokerLeaves(b) \/ BrokerReturns(b) PROVE HistoryTyped'
  <2>1. UNCHANGED history BY <1>9 DEF BrokerLeaves, BrokerReturns
  <2> QED BY <1>2, <2>1 DEF history
<1>10. ASSUME NEW new \in Configs, setConfig(new) PROVE HistoryTyped'
  <2>1. UNCHANGED <<named, missed>> /\ (Farewell(new) \/ stray' = stray)
    BY <1>10 DEF setConfig
  <2>2. stray' \subseteq stray \cup {Topic} BY <2>1, FarewellTyped
  <2> QED BY <1>2, <2>1, <2>2
<1> QED BY <1>3, <1>4, <1>5, <1>6, <1>7, <1>8, <1>9, <1>10 DEF Next, NetworkTask, Environment

\* Every reachable state is well typed.
THEOREM TypeCorrect == Spec => []TypeOK
<1>1. TypeOK /\ [Next]_vars => TypeOK'
  <2> SUFFICES ASSUME TypeOK, [Next]_vars PROVE TypeOK' OBVIOUS
  <2>1. CASE UNCHANGED vars
    <3>1. UNCHANGED <<pc, client, publisher, setpoint>> /\ UNCHANGED broker
          /\ UNCHANGED <<target, alive, reachable, trouble>> /\ UNCHANGED <<named, stray, missed>>
      BY <2>1 DEF vars, history
    <3>2. HistoryTyped' BY <3>1, TypeParts DEF HistoryTyped
    <3> QED BY <3>1, <3>2, TypeParts
  <2>2. CASE Next BY <2>2, TaskKeepsTypes, EnvironmentKeepsTypes, HistoryKeepsTypes, TypeParts DEF Next
  <2> QED BY <2>1, <2>2
<1> QED BY <1>1, InitTyped, PTL DEF Spec

-----------------------------------------------------------------------------
(* The retained status                                                      *)

\* A topic that says online has the session of its own, or is a stray one.
LEMMA Sound ==
    /\ AvailabilityIsTrue <=>
          \A b \in Brokers, p \in Prefixes : Excused(b, p) \/ session[b] = p
    /\ AvailabilityIsTrue' <=>
          \A b \in Brokers, p \in Prefixes : Excused(b, p)' \/ session'[b] = p
<1>1. AvailabilityIsTrue <=>
          \A b \in Brokers, p \in Prefixes : Excused(b, p) \/ session[b] = p
  BY DEF AvailabilityIsTrue, Excused
<1>2. AvailabilityIsTrue' <=>
          \A b \in Brokers, p \in Prefixes : Excused(b, p)' \/ session'[b] = p
  BY DEF AvailabilityIsTrue, Excused
<1> QED BY <1>1, <1>2

\* Where nothing is said, what is excused stays so.
LEMMA NothingSaid ==
    ASSUME NEW b \in Brokers, NEW p \in Prefixes, Excused(b, p),
           retained'[b].status[p] = retained[b].status[p],
           <<b, p>> \in stray => <<b, p>> \in stray'
    PROVE  Excused(b, p)'
BY DEF Excused

\* The will is heard: of the topics of its broker, its own says offline and no other says
\* anything new.
LEMMA WillSaid ==
    ASSUME TypeOK, NEW b \in Brokers, retained' = WillPublished(b), stray' = WillHeard(b)
    PROVE  /\ \A c \in Brokers, q \in Prefixes : Excused(c, q) => Excused(c, q)'
           /\ \A q \in Prefixes : session[b] = q => Excused(b, q)'
<1>1. \A c \in Brokers, q \in Prefixes :
         retained'[c].status[q] = IF c = b /\ q = session[b] THEN "offline"
                                  ELSE retained[c].status[q]
  BY WillWritten
<1>2. ASSUME NEW c \in Brokers, NEW q \in Prefixes, Excused(c, q) PROVE Excused(c, q)'
  <2>1. CASE c = b /\ q = session[b] BY <1>1, <2>1 DEF Excused
  <2>2. CASE ~(c = b /\ q = session[b])
    <3>1. retained'[c].status[q] = retained[c].status[q] BY <1>1, <2>2
    <3>2. <<c, q>> # <<b, session[b]>> BY <2>2
    <3>3. <<c, q>> \in stray => <<c, q>> \in stray' BY <3>2 DEF WillHeard
    <3> QED BY <1>2, <3>1, <3>3, NothingSaid
  <2> QED BY <2>1, <2>2
<1>3. ASSUME NEW q \in Prefixes, session[b] = q PROVE Excused(b, q)'
  BY <1>1, <1>3 DEF Excused
<1> QED BY <1>2, <1>3

\* The device says online only on a session of its own, and whatever replaces or ends the
\* session takes the status with it; what it leaves behind else is a stray topic.
LEMMA AvailabilityNext ==
    ASSUME TypeOK, AvailabilityInv, [Next]_vars
    PROVE  AvailabilityInv'
<1>1. /\ session \in [Brokers -> Prefixes \cup {None}] /\ retained \in [Brokers -> Messages]
      /\ target \in Brokers /\ config.prefix \in Prefixes
      /\ None \notin Prefixes /\ None # "online"
  BY Constants DEF TypeOK
<1>2. /\ SessionIsOurs
      /\ \A b \in Brokers, p \in Prefixes : Excused(b, p) \/ session[b] = p
  BY Sound DEF AvailabilityInv
<1>3. ASSUME \A b \in Brokers : retained'[b].status = retained[b].status, UNCHANGED <<session, stray>>
      PROVE  /\ AvailabilityIsTrue'
             /\ \A b \in Brokers, p \in Prefixes : Excused(b, p) => Excused(b, p)'
  <2>1. \A b \in Brokers, p \in Prefixes : Excused(b, p) => Excused(b, p)' BY <1>3 DEF Excused
  <2> QED BY <1>2, <1>3, <2>1, Sound
\* SessionIsOurs of a connection that is as it was, or no longer alive.
<1>4. ASSUME UNCHANGED <<config, session, target, named>>, alive' => alive,
             connected' => connected, pc' \in {"connect", "connack"} => pc' = pc,
             alive => \A p \in Prefixes : Excused(target, p) => Excused(target, p)'
      PROVE  SessionIsOurs'
  <2>1. pc' \in {"connect", "connack"} => ~connected' BY <1>2, <1>4 DEF SessionIsOurs
  <2>2. ASSUME pc' = "connack", alive'
        PROVE  session'[target'] = named' /\ named' \in Prefixes /\ Excused(target, named)'
    <3>1. pc = "connack" /\ alive BY <1>4, <2>2
    <3>2. session[target] = named /\ named \in Prefixes /\ Excused(target, named)
      BY <1>2, <3>1 DEF SessionIsOurs
    <3>3. Excused(target, named)' BY <1>4, <3>1, <3>2 DEF Excused
    <3> QED BY <1>4, <3>2, <3>3
  <2>3. ASSUME connected', alive'
        PROVE  session'[target'] = config'.prefix
                  \/ (session'[target'] \in Prefixes /\ Excused(target, session[target])')
    <3>1. session[target] = config.prefix
             \/ (session[target] \in Prefixes /\ Excused(target, session[target]))
      BY <1>2, <1>4, <2>3 DEF SessionIsOurs
    <3>2. CASE session[target] = config.prefix BY <1>4, <3>2
    <3>3. CASE session[target] \in Prefixes /\ Excused(target, session[target])
      <4>1. Excused(target, session[target])' BY <1>4, <2>3, <3>3 DEF Excused
      <4> QED BY <1>4, <3>3, <4>1
    <3> QED BY <3>1, <3>2, <3>3
  <2> QED BY <2>1, <2>2, <2>3 DEF SessionIsOurs
<1>5. CASE \/ UNCHANGED vars
           \/ LinkLost \/ LossNoticed \/ resetBackoff \/ SetpointChanges \/ Forget
           \/ LoopReturns \/ CommandArrives
  <2>1. /\ UNCHANGED <<config, session, retained, target, stray, named>>
        /\ alive' => alive
        /\ connected' => connected
        /\ pc' \in {"connect", "connack"} => pc' = pc
    BY <1>5 DEF vars, LinkLost, LossNoticed, resetBackoff, SetpointChanges, Forget, LoopReturns,
       CommandArrives, TickBegins, client, broker, history
  <2>2. /\ AvailabilityIsTrue'
        /\ \A b \in Brokers, p \in Prefixes : Excused(b, p) => Excused(b, p)'
    BY <1>3, <2>1
  <2>3. SessionIsOurs' BY <1>1, <1>4, <2>1, <2>2
  <2> QED BY <2>2, <2>3 DEF AvailabilityInv
<1>6. CASE Refused
  <2>1. /\ UNCHANGED <<config, connected, session, retained, target, stray>>
        /\ ~alive' /\ pc' = "publish"
    BY <1>6 DEF Refused, broker
  <2>2. AvailabilityIsTrue' BY <1>3, <2>1
  <2> QED BY <2>1, <2>2 DEF AvailabilityInv, SessionIsOurs
<1>7. CASE Dial
  <2>1. UNCHANGED <<session, retained, stray>> /\ ~connected' /\ pc' # "connack"
    BY <1>7 DEF Dial, broker, history
  <2>2. AvailabilityIsTrue' BY <1>3, <2>1
  <2> QED BY <2>1, <2>2 DEF AvailabilityInv, SessionIsOurs
<1>8. CASE Connect
  <2>1. /\ pc = "connect" /\ pc' = "connack" /\ named' = config.prefix
        /\ UNCHANGED <<config, connected, target, alive>>
    BY <1>8 DEF Connect, client
  <2>2. ~connected' BY <1>2, <2>1 DEF SessionIsOurs
  <2>3. CASE ~alive
    <3>1. UNCHANGED <<session, retained, stray>> BY <1>8, <2>3 DEF Connect, broker
    <3>2. AvailabilityIsTrue' BY <1>3, <3>1
    <3> QED BY <2>1, <2>2, <2>3, <3>2 DEF AvailabilityInv, SessionIsOurs
  <2>4. CASE alive
    <3>1. /\ retained' = WillPublished(target) /\ stray' = WillHeard(target)
          /\ session' = [session EXCEPT ![target] = config.prefix]
      BY <1>8, <2>4 DEF Connect
    <3>a. PICK b \in Brokers : b = target BY <1>1
    <3>b. retained' = WillPublished(b) /\ stray' = WillHeard(b) BY <3>1, <3>a
    <3>c. /\ \A c \in Brokers, q \in Prefixes : Excused(c, q) => Excused(c, q)'
          /\ \A q \in Prefixes : session[b] = q => Excused(b, q)'
      BY <3>b, WillSaid
    <3>2. /\ \A c \in Brokers, q \in Prefixes : Excused(c, q) => Excused(c, q)'
          /\ \A q \in Prefixes : session[target] = q => Excused(target, q)'
      BY <2>1, <3>a, <3>c DEF Excused
    <3>3. session'[target] = config.prefix /\ \A c \in Brokers : c # target => session'[c] = session[c]
      BY <1>1, <3>1
    <3>4. \A q \in Prefixes : Excused(target, q)'
      BY <1>1, <1>2, <2>1, <3>2 DEF Excused
    <3>5. AvailabilityIsTrue'
      <4>1. ASSUME NEW c \in Brokers, NEW q \in Prefixes PROVE Excused(c, q)' \/ session'[c] = q
        <5>1. CASE c = target BY <2>1, <3>4, <5>1 DEF Excused
        <5>2. CASE c # target BY <1>2, <3>2, <3>3, <5>2
        <5> QED BY <5>1, <5>2
      <4> QED BY <4>1, Sound
    <3>6. Excused(target, named)' BY <1>1, <2>1, <3>4 DEF Excused
    <3>7. SessionIsOurs' BY <1>1, <2>1, <2>2, <3>3, <3>6 DEF SessionIsOurs
    <3> QED BY <3>5, <3>7 DEF AvailabilityInv
  <2> QED BY <2>3, <2>4
<1>9. CASE Accepted
  <2>1. /\ pc = "connack" /\ pc' = "publish" /\ alive /\ UNCHANGED <<config, target, alive, session>>
    BY <1>9 DEF Accepted
  <2>2. session[target] = named /\ named \in Prefixes /\ Excused(target, named)
    BY <1>2, <2>1 DEF SessionIsOurs
  <2>3. \/ UNCHANGED <<retained, stray>>
        \/ /\ retained' = PutStatus(retained, target, config.prefix, "online")
           /\ stray' = IF named = config.prefix THEN stray \ {Topic} ELSE stray \cup {Topic}
    BY <1>9 DEF Accepted, PutStatus
  <2>4. CASE UNCHANGED <<retained, stray>>
    <3>1. /\ AvailabilityIsTrue'
          /\ \A b \in Brokers, p \in Prefixes : Excused(b, p) => Excused(b, p)'
      BY <1>3, <2>1, <2>4
    <3>2. Excused(target, session[target])' BY <2>1, <2>2, <2>4 DEF Excused
    <3> QED BY <2>1, <2>2, <3>1, <3>2 DEF AvailabilityInv, SessionIsOurs
  <2>5. CASE /\ retained' = PutStatus(retained, target, config.prefix, "online")
             /\ stray' = IF named = config.prefix THEN stray \ {Topic} ELSE stray \cup {Topic}
    <3>1. \A c \in Brokers, q \in Prefixes :
            retained'[c].status[q] = IF c = target /\ q = config.prefix THEN "online"
                                     ELSE retained[c].status[q]
      <4>1. "online" \in Statuses BY DEF Statuses
      <4> QED BY <1>1, <2>5, <4>1, StatusWritten
    <3>2. ASSUME NEW c \in Brokers, NEW q \in Prefixes, c # target \/ q # config.prefix, Excused(c, q)
          PROVE  Excused(c, q)'
      <4>1. retained'[c].status[q] = retained[c].status[q] BY <3>1, <3>2
      <4>2. <<c, q>> # Topic BY <3>2 DEF Topic
      <4>3. <<c, q>> \in stray => <<c, q>> \in stray' BY <2>5, <4>2
      <4> QED BY <3>2, <4>1, <4>3, NothingSaid
    <3>3. CASE named = config.prefix
      <4>1. \A c \in Brokers, q \in Prefixes : Excused(c, q)' \/ session'[c] = q
        BY <1>2, <2>1, <2>2, <3>2, <3>3
      <4> QED BY <2>1, <2>2, <3>3, <4>1, Sound DEF AvailabilityInv, SessionIsOurs
    <3>4. CASE named # config.prefix
      <4>1. Topic \in stray' BY <2>5, <3>4
      <4>2. Excused(target, config.prefix)' BY <2>1, <4>1 DEF Excused, Topic
      <4>3. \A c \in Brokers, q \in Prefixes : Excused(c, q)' \/ session'[c] = q
        <5> SUFFICES ASSUME NEW c \in Brokers, NEW q \in Prefixes
                     PROVE  Excused(c, q)' \/ session'[c] = q
          OBVIOUS
        <5>1. CASE c = target /\ q = config.prefix BY <2>1, <4>2, <5>1 DEF Excused
        <5>2. CASE ~(c = target /\ q = config.prefix) BY <1>2, <2>1, <3>2, <5>2
        <5> QED BY <5>1, <5>2
      <4>4. Excused(target, session[target])'
        <5>1. session[target] \in Prefixes /\ session[target] # config.prefix
              /\ Excused(target, session[target])
          BY <2>2, <3>4
        <5>2. PICK q : q = session[target] OBVIOUS
        <5>3. Excused(target, q)' BY <1>1, <2>1, <3>2, <5>1, <5>2 DEF Excused
        <5> QED BY <2>1, <5>2, <5>3 DEF Excused
      <4> QED BY <2>1, <2>2, <4>3, <4>4, Sound DEF AvailabilityInv, SessionIsOurs
    <3> QED BY <3>3, <3>4
  <2> QED BY <2>3, <2>4, <2>5
<1>10. CASE Publish
  <2>1. \A c \in Brokers : retained'[c].status = retained[c].status BY <1>10, PublishTyped
  <2>2. UNCHANGED <<config, session, target, alive, connected, named, stray>> /\ pc' = "idle"
    BY <1>10 DEF Publish, client
  <2>3. /\ AvailabilityIsTrue'
        /\ \A b \in Brokers, p \in Prefixes : Excused(b, p) => Excused(b, p)'
    BY <1>3, <2>1, <2>2
  <2>4. \A p \in Prefixes : Excused(target, p) => Excused(target, p)' BY <1>1, <2>3, <2>2 DEF Excused
  <2>5. SessionIsOurs' BY <1>4, <2>2, <2>4
  <2> QED BY <2>3, <2>5 DEF AvailabilityInv
<1>11. ASSUME NEW b \in Brokers, SessionEnds(b) PROVE AvailabilityInv'
  <2>1. /\ retained' = WillPublished(b) /\ session' = [session EXCEPT ![b] = None]
        /\ stray' = WillHeard(b)
        /\ ~(alive /\ target = b) /\ UNCHANGED <<pc, config, connected, target, alive, named>>
    BY <1>11 DEF SessionEnds, client
  <2>2. /\ \A c \in Brokers, q \in Prefixes : Excused(c, q) => Excused(c, q)'
        /\ \A q \in Prefixes : session[b] = q => Excused(b, q)'
    BY <2>1, WillSaid
  <2>3. \A c \in Brokers : c # b => session'[c] = session[c] BY <1>1, <2>1
  <2>4. AvailabilityIsTrue'
    <3>1. ASSUME NEW c \in Brokers, NEW q \in Prefixes PROVE Excused(c, q)' \/ session'[c] = q
      <4>1. CASE c = b BY <1>2, <2>2, <4>1
      <4>2. CASE c # b BY <1>2, <2>2, <2>3, <4>2
      <4> QED BY <4>1, <4>2
    <3> QED BY <3>1, Sound
  <2>5. SessionIsOurs'
    <3>1. \A p \in Prefixes : Excused(target, p) => Excused(target, p)' BY <1>1, <2>1, <2>2 DEF Excused
    <3>2. alive => session'[target] = session[target] BY <1>1, <2>1, <2>3
    <3> QED BY <1>2, <2>1, <3>1, <3>2 DEF SessionIsOurs, Excused
  <2> QED BY <2>4, <2>5 DEF AvailabilityInv
<1>12. ASSUME NEW b \in Brokers, BrokerRestarts(b) PROVE AvailabilityInv'
  <2>1. /\ retained' = [retained EXCEPT ![b] = NoMessages] /\ session' = [session EXCEPT ![b] = None]
        /\ stray' = stray \ ({b} \X Prefixes)
        /\ alive' = (alive /\ target # b) /\ UNCHANGED <<pc, config, connected, target, named>>
    BY <1>12 DEF BrokerRestarts, client
  <2>2. \A c \in Brokers : c # b => session'[c] = session[c] /\ retained'[c] = retained[c]
    BY <1>1, <2>1
  <2>3. retained'[b] = NoMessages BY <1>1, <2>1
  <2>4. ASSUME NEW c \in Brokers, NEW q \in Prefixes, c # b, Excused(c, q) PROVE Excused(c, q)'
    <3>1. <<c, q>> \notin {b} \X Prefixes BY <2>4
    <3>2. <<c, q>> \in stray => <<c, q>> \in stray' BY <2>1, <3>1
    <3> QED BY <2>2, <2>4, <3>2, NothingSaid
  <2>5. \A q \in Prefixes : Excused(b, q)' BY <1>1, <2>3, NothingRetained DEF Excused
  <2>6. AvailabilityIsTrue'
    <3>1. ASSUME NEW c \in Brokers, NEW q \in Prefixes PROVE Excused(c, q)' \/ session'[c] = q
      <4>1. CASE c = b BY <2>5, <4>1
      <4>2. CASE c # b BY <1>2, <2>2, <2>4, <4>2
      <4> QED BY <4>1, <4>2
    <3> QED BY <3>1, Sound
  <2>7. SessionIsOurs'
    <3>1. alive' => alive /\ target # b BY <2>1
    <3>2. alive' => \A p \in Prefixes : Excused(target, p) => Excused(target, p)'
      BY <1>1, <2>1, <2>4, <3>1 DEF Excused
    <3>3. alive' => session'[target] = session[target] BY <1>1, <2>2, <3>1
    <3> QED BY <1>2, <2>1, <3>1, <3>2, <3>3 DEF SessionIsOurs, Excused
  <2> QED BY <2>6, <2>7 DEF AvailabilityInv
<1>13. ASSUME NEW b \in Brokers, BrokerLeaves(b) \/ BrokerReturns(b) PROVE AvailabilityInv'
  <2>1. /\ alive' => alive
        /\ UNCHANGED <<pc, config, connected, session, retained, target, named, stray>>
    <3>1. CASE BrokerLeaves(b) BY <3>1 DEF BrokerLeaves, client, broker, history
    <3>2. CASE BrokerReturns(b) BY <3>2 DEF BrokerReturns, client, broker, history
    <3> QED BY <1>13, <3>1, <3>2
  <2>2. /\ AvailabilityIsTrue'
        /\ \A c \in Brokers, p \in Prefixes : Excused(c, p) => Excused(c, p)'
    BY <1>3, <2>1
  <2>3. SessionIsOurs' BY <1>1, <1>4, <2>1, <2>2
  <2> QED BY <2>2, <2>3 DEF AvailabilityInv
<1>14. ASSUME NEW new \in Configs, setConfig(new) PROVE AvailabilityInv'
  <2>1. /\ ~connected' /\ UNCHANGED <<pc, target, named>> /\ alive' = (alive /\ ~connected)
    BY <1>14 DEF setConfig
  <2>2. CASE connected /\ alive
    <3>1. /\ Farewell(new) /\ pc \notin {"connect", "connack"}
          /\ session[target] = config.prefix
                \/ (session[target] \in Prefixes /\ Excused(target, session[target]))
      BY <1>2, <1>14, <2>2 DEF setConfig, SessionIsOurs
    <3>2. /\ session' = [session EXCEPT ![target] = None]
          /\ retained'[target].status[config.prefix] = "offline" \/ Topic \in stray'
          /\ \A c \in Brokers, q \in Prefixes : c # target \/ q # config.prefix =>
                /\ retained'[c].status[q] = retained[c].status[q]
                /\ <<c, q>> \in stray => <<c, q>> \in stray'
      BY <3>1, FarewellTyped
    <3>3. \A c \in Brokers : c # target => session'[c] = session[c] BY <1>1, <3>2
    <3>4. ASSUME NEW c \in Brokers, NEW q \in Prefixes PROVE Excused(c, q)' \/ session'[c] = q
      <4>1. CASE c = target /\ q = config.prefix BY <2>1, <3>2, <4>1 DEF Excused, Topic
      <4>2. CASE c = target /\ q # config.prefix
        <5>1. Excused(c, q) BY <1>2, <3>1, <4>2
        <5> QED BY <3>2, <4>2, <5>1, NothingSaid
      <4>3. CASE c # target
        <5>1. CASE Excused(c, q) BY <3>2, <4>3, <5>1, NothingSaid
        <5>2. CASE ~Excused(c, q) BY <1>2, <3>3, <4>3, <5>2
        <5> QED BY <5>1, <5>2
      <4> QED BY <4>1, <4>2, <4>3
    <3>5. AvailabilityIsTrue' BY <3>4, Sound
    <3>6. ~alive' /\ pc' \notin {"connect", "connack"} BY <2>1, <2>2, <3>1
    <3> QED BY <2>1, <3>5, <3>6 DEF AvailabilityInv, SessionIsOurs
  <2>3. CASE ~(connected /\ alive)
    <3>1. UNCHANGED <<session, retained, stray>> BY <1>14, <2>3 DEF setConfig, broker
    <3>2. /\ AvailabilityIsTrue'
          /\ \A c \in Brokers, p \in Prefixes : Excused(c, p) => Excused(c, p)'
      BY <1>3, <3>1
    <3>3. SessionIsOurs'
      <4>1. ASSUME pc' = "connack", alive'
            PROVE  session'[target'] = named' /\ named' \in Prefixes /\ Excused(target, named)'
        <5>1. session[target] = named /\ named \in Prefixes /\ Excused(target, named)
          BY <1>2, <2>1, <4>1 DEF SessionIsOurs
        <5> QED BY <2>1, <3>1, <5>1 DEF Excused
      <4> QED BY <2>1, <4>1 DEF SessionIsOurs
    <3> QED BY <3>2, <3>3 DEF AvailabilityInv
  <2> QED BY <2>2, <2>3
<1> QED BY <1>5, <1>6, <1>7, <1>8, <1>9, <1>10, <1>11, <1>12, <1>13, <1>14
        DEF Next, NetworkTask, Environment

\* The retained status of a device that is gone does not stay online, whatever becomes of
\* links, brokers, sessions, configurations and single publishes, except on a topic whose
\* last word could not be sent or was said without a will (loop and setConfig of the client).
THEOREM GoneIsOffline == Spec => []AvailabilityIsTrue
<1>1. Init => AvailabilityInv
  <2> SUFFICES ASSUME Init PROVE AvailabilityInv OBVIOUS
  <2>1. \A b \in Brokers : retained[b] = NoMessages BY DEF Init
  <2>2. AvailabilityIsTrue BY <2>1, NothingRetained, Constants DEF AvailabilityIsTrue
  <2>3. ~connected /\ ~alive /\ pc = "idle" BY DEF Init
  <2> QED BY <2>2, <2>3 DEF AvailabilityInv, SessionIsOurs
<1>2. TypeOK /\ AvailabilityInv /\ [Next]_vars => AvailabilityInv' BY AvailabilityNext
<1>3. AvailabilityInv => AvailabilityIsTrue BY DEF AvailabilityInv
<1> QED BY <1>1, <1>2, <1>3, TypeCorrect, PTL DEF Spec

-----------------------------------------------------------------------------
(* The refresh of a connection                                              *)

LEMMA RefreshNext ==
    ASSUME TypeOK, SeenIsRefreshed, [Next]_vars
    PROVE  SeenIsRefreshed'
<1>1. target \in Brokers BY DEF TypeOK
<1>2. ASSUME UNCHANGED <<config, target, lastSetpoint, missed>>,
             retained'[target].setpoint = retained[target].setpoint,
             retained'[target].discovery = retained[target].discovery,
             Refreshed
      PROVE  Refreshed'
  BY <1>2 DEF Refreshed
<1>3. CASE \/ UNCHANGED vars
           \/ LinkLost \/ LossNoticed \/ resetBackoff \/ SetpointChanges \/ LoopReturns
           \/ CommandArrives \/ Refused
  <2>1. /\ UNCHANGED <<config, retained, target, unseen, lastSetpoint, missed>>
        /\ alive' => alive
        /\ connected' => connected
        /\ pc' = pc \/ pc' = "publish"
    BY <1>3 DEF vars, LinkLost, LossNoticed, resetBackoff, SetpointChanges, LoopReturns,
       CommandArrives, Refused, TickBegins, client, publisher, broker, history
  <2>2. Refreshed => Refreshed' BY <1>2, <2>1
  <2> QED BY <2>1, <2>2 DEF SeenIsRefreshed
<1>4. CASE Dial
  <2>1. ~connected' BY <1>4 DEF Dial
  <2> QED BY <2>1 DEF SeenIsRefreshed
<1>5. CASE Connect
  <2>1. pc = "connect" /\ connected' = connected BY <1>5 DEF Connect, client
  <2> QED BY <2>1 DEF SeenIsRefreshed
<1>6. CASE Accepted
  <2>1. pc' = "publish" /\ unseen' BY <1>6 DEF Accepted, CountsConnect
  <2> QED BY <2>1 DEF SeenIsRefreshed
<1>7. CASE Publish
  <2>1. pc' = "idle" /\ ~unseen' /\ connected /\ UNCHANGED <<connected, alive>>
    BY <1>7 DEF Publish, client
  <2>2. alive => Refreshed' BY <1>7, <2>1, PublishTyped DEF SeenIsRefreshed
  <2> QED BY <2>1, <2>2 DEF SeenIsRefreshed
<1>8. CASE Forget
  <2>1. ~connected' /\ pc' = "idle" BY <1>8 DEF Forget, client
  <2> QED BY <2>1 DEF SeenIsRefreshed
<1>9. ASSUME NEW b \in Brokers, SessionEnds(b) PROVE SeenIsRefreshed'
  <2>1. /\ retained' = WillPublished(b)
        /\ UNCHANGED <<pc, config, connected, target, alive, unseen, lastSetpoint, missed>>
    BY <1>9 DEF SessionEnds, client, publisher
  <2>2. /\ retained'[target].setpoint = retained[target].setpoint
        /\ retained'[target].discovery = retained[target].discovery
    BY <1>1, <2>1, WillWritten
  <2>3. Refreshed => Refreshed' BY <1>2, <2>1, <2>2
  <2> QED BY <2>1, <2>3 DEF SeenIsRefreshed
<1>10. ASSUME NEW b \in Brokers, BrokerRestarts(b) PROVE SeenIsRefreshed'
  <2>1. /\ retained' = [retained EXCEPT ![b] = NoMessages]
        /\ alive' = (alive /\ target # b)
        /\ UNCHANGED <<pc, config, connected, target, unseen, lastSetpoint, missed>>
    BY <1>10 DEF BrokerRestarts, client, publisher
  <2>2. alive' => alive /\ retained'[target] = retained[target]
    BY <1>1, <2>1 DEF TypeOK
  <2>3. alive' /\ Refreshed => Refreshed' BY <1>2, <2>1, <2>2
  <2> QED BY <2>1, <2>2, <2>3 DEF SeenIsRefreshed
<1>11. ASSUME NEW b \in Brokers, BrokerLeaves(b) \/ BrokerReturns(b) PROVE SeenIsRefreshed'
  <2>1. /\ alive' => alive
        /\ UNCHANGED <<pc, config, connected, retained, target, unseen, lastSetpoint, missed>>
    <3>1. CASE BrokerLeaves(b) BY <3>1 DEF BrokerLeaves, client, publisher, broker, history
    <3>2. CASE BrokerReturns(b) BY <3>2 DEF BrokerReturns, client, publisher, broker, history
    <3> QED BY <1>11, <3>1, <3>2
  <2>2. Refreshed => Refreshed' BY <1>2, <2>1
  <2> QED BY <2>1, <2>2 DEF SeenIsRefreshed
<1>12. ASSUME NEW new \in Configs, setConfig(new) PROVE SeenIsRefreshed'
  <2>1. ~connected' BY <1>12 DEF setConfig
  <2> QED BY <2>1 DEF SeenIsRefreshed
<1> QED BY <1>3, <1>4, <1>5, <1>6, <1>7, <1>8, <1>9, <1>10, <1>11, <1>12
        DEF Next, NetworkTask, Environment

\* No connection goes without the full refresh, however it was lost and made again, but
\* for what the client was told it could not send on it (tick of the publisher).
THEOREM ConnectionsAreRefreshed == Spec => []EveryConnectionIsRefreshed
<1>1. Init => SeenIsRefreshed BY DEF Init, SeenIsRefreshed
<1>2. TypeOK /\ SeenIsRefreshed /\ [Next]_vars => SeenIsRefreshed' BY RefreshNext
<1>3. SeenIsRefreshed => EveryConnectionIsRefreshed
  BY DEF SeenIsRefreshed, EveryConnectionIsRefreshed
<1> QED BY <1>1, <1>2, <1>3, TypeCorrect, PTL DEF Spec
=============================================================================
