------------------------------- MODULE MultiTls -------------------------------
(***************************************************************************)
(* The persistent multi-TLS demo (Demos/multi_tls) over the TLS transport. *)
(*                                                                         *)
(* Session 1 is the connection of the MQTT agent task                      *)
(* (Demos/mqtt_agent/mqtt_agent_task.c); a heartbeat task watches it by    *)
(* polling and publishes over it.  Session 2 is established, used and      *)
(* closed by a task of its own, which forces one reconnect when the two    *)
(* have overlapped for long enough.  What the tasks know of each other is  *)
(* in variables guarded by xMultiTlsStateMutex; every change of them is    *)
(* printed under the mutex as a marker for tools/ci/monitor_multi_tls.py,  *)
(* and the demo ends with TEST_COMPLETE.                                   *)
(*                                                                         *)
(* Time is in ticks of no fixed length: session 2 has overlapped for       *)
(* MULTI_TLS_MIN_OVERLAP_MS after MinOverlap ticks, and no task stays      *)
(* between sampling the tick count and taking the mutex over a tick.       *)
(* Heartbeats carry no sequence numbers here.                              *)
(*                                                                         *)
(* The agent tries to connect for ever (RETRY_MAX_ATTEMPTS).               *)
(***************************************************************************)
EXTENDS TlsTransport, Naturals

CONSTANTS
    Primary, Secondary,     \* the connections of session 1 and session 2
    MinOverlap,             \* MULTI_TLS_MIN_OVERLAP_MS in ticks
    MaxGenerations          \* bound: connections of the agent

ASSUME SessionsAssumption == Conns = {Primary, Secondary} /\ Primary # Secondary
ASSUME OverlapAssumption == MinOverlap \in Nat \ {0} /\ MaxGenerations \in Nat

VARIABLES
    agent,          \* where the MQTT agent task is
    gen,            \* ulConnectionGeneration of the agent
    beat,           \* where prvPrimaryHeartbeatTask is
    seen,           \* xInfo.ulConnectionGeneration, from the poll that finds a
                    \* new connection until it is reported up
    ownGen,         \* ulPrimaryConnectionGeneration
    subscribed,     \* xSubscriptionReady
    wasUp,          \* xWasUp
    inFlight,       \* a heartbeat of session 1 may still come back
    task2,          \* where prvSecondarySessionTask is
    forced,         \* xForcedReconnectDone
    beaten,         \* ulConnectedHeartbeats > 0, while session 2 is up
    \* guarded by xMultiTlsStateMutex
    up,             \* xPrimaryUp, xSecondaryUp
    bothUp,         \* xBothUpReported
    requested,      \* xSecondaryReconnectRequested
    observed,       \* xSecondaryReconnectObserved
    heard1,         \* ulPrimaryRxCount > ulPrimaryRxAtSecondaryDown
    heard2,         \* ulSecondaryRxSinceConnect > 0
    age,            \* ticks since xSecondaryUpTick, up to MinOverlap
    complete        \* xTestCompleteReported

agentVars == <<agent, gen>>
beatVars == <<beat, seen, ownGen, subscribed, wasUp>>
countVars == <<forced, beaten>>
taskVars == <<task2, countVars>>
reconnectVars == <<requested, observed>>
evidenceVars == <<up, bothUp, requested, observed, heard1, heard2, age, complete>>
demoVars == <<agentVars, beatVars, taskVars, evidenceVars, inFlight>>
vars == <<tlsVars, demoVars>>

(* MQTT_AGENT_STATE_CONNECTED; "received" is inside the callback of a publish. *)
Connected == agent \in {"connected", "received"}

Init ==
    /\ TlsInit
    /\ agent = "connecting" /\ gen = 0
    /\ beat = "start" /\ seen = 0 /\ ownGen = 0
    /\ subscribed = FALSE /\ wasUp = FALSE /\ inFlight = FALSE
    /\ task2 = "start" /\ forced = FALSE /\ beaten = FALSE
    /\ up = [c \in Conns |-> FALSE] /\ bothUp = FALSE
    /\ requested = FALSE /\ observed = FALSE
    /\ heard1 = FALSE /\ heard2 = FALSE /\ age = 0
    /\ complete = FALSE

------------------------------------------------------------------------------
(* The MQTT agent task *)

AgentConnect ==
    /\ agent = "connecting"
    /\ TcpConnect(Primary)
    /\ UNCHANGED demoVars

(* MQTT CONNECT over the established TLS connection. *)
AgentConnected ==
    /\ agent = "connecting" /\ at[Primary] = "up"
    /\ gen < MaxGenerations
    /\ agent' = "connected"
    /\ gen' = gen + 1
    /\ UNCHANGED <<tlsVars, beatVars, taskVars, evidenceVars, inFlight>>

(* CONNECT is refused, or the command loop returns an error. *)
AgentLost ==
    /\ agent \in {"connecting", "connected"} /\ at[Primary] = "up"
    /\ agent' = "closing"
    /\ UNCHANGED <<tlsVars, gen, beatVars, taskVars, evidenceVars, inFlight>>

AgentDisconnect ==
    /\ agent = "closing"
    /\ Disconnect(Primary)
    /\ agent' = "connecting"
    /\ UNCHANGED <<gen, beatVars, taskVars, evidenceVars, inFlight>>

AgentRecord ==
    /\ agent \in {"connecting", "connected"}
    /\ SendRecord(Primary)
    /\ UNCHANGED demoVars

------------------------------------------------------------------------------
(* Evidence, under xMultiTlsStateMutex *)

(* Fault: any session 2 that comes back counts as the forced reconnect. *)
ReportUpAny(s) ==
    /\ up' = [up EXCEPT ![s] = TRUE]
    /\ bothUp' = (bothUp \/ \A c \in Conns : up'[c])
    /\ IF s = Secondary
       THEN /\ heard2' = FALSE
            /\ age' = 0
            /\ requested' = FALSE
            /\ observed' = (observed \/ requested \/ heard2)
       ELSE UNCHANGED <<heard2, age, requested, observed>>
    /\ UNCHANGED <<heard1, complete>>

(* prvReportSessionUp, with prvMaybeReportBothUpLocked *)
ReportUp(s) ==
    /\ up' = [up EXCEPT ![s] = TRUE]
    /\ bothUp' = (bothUp \/ \A c \in Conns : up'[c])
    /\ IF s = Secondary
       THEN /\ heard2' = FALSE
            /\ age' = 0
            /\ requested' = FALSE
            /\ observed' = (observed \/ requested)
       ELSE UNCHANGED <<heard2, age, requested, observed>>
    /\ UNCHANGED <<heard1, complete>>

(* Fault: the next overlap is not announced. *)
ReportDownQuiet(s) ==
    /\ up' = [up EXCEPT ![s] = FALSE]
    /\ IF s = Secondary THEN heard1' = FALSE /\ age' = 0 ELSE UNCHANGED <<heard1, age>>
    /\ UNCHANGED <<bothUp, requested, observed, heard2, complete>>

(* prvReportSessionDown *)
ReportDown(s) ==
    /\ up' = [up EXCEPT ![s] = FALSE]
    /\ bothUp' = FALSE
    /\ IF s = Secondary THEN heard1' = FALSE /\ age' = 0 ELSE UNCHANGED <<heard1, age>>
    /\ UNCHANGED <<requested, observed, heard2, complete>>

(* prvMaybeReportComplete; the counters of TEST_COMPLETE are read under
   mutexUseTsip. *)
MaybeComplete ==
    /\ complete' = (\/ complete
                    \/ /\ observed /\ \A c \in Conns : up[c]
                       /\ heard1 /\ heard2
                       /\ age >= MinOverlap)
    /\ complete' = complete \/ tsip = NoConn
    /\ UNCHANGED <<up, bothUp, requested, observed, heard1, heard2, age>>

(* A heartbeat came back. *)
Heard(s) ==
    /\ heard1' = (heard1 \/ s = Primary)
    /\ heard2' = (heard2 \/ s = Secondary)
    /\ UNCHANGED <<up, bothUp, requested, observed, age, complete>>

------------------------------------------------------------------------------
(* prvPrimaryHeartbeatTask, and the callback of its subscription *)

PrimaryStart ==
    /\ beat = "start" /\ Connected
    /\ beat' = "poll"
    /\ UNCHANGED <<tlsVars, agentVars, taskVars, evidenceVars, inFlight, seen, ownGen,
                   subscribed, wasUp>>

(* Fault: only a poll that finds the agent disconnected notices a reconnect. *)
PrimaryPollState ==
    /\ beat = "poll"
    /\ \/ /\ Connected
          /\ seen' = gen
          /\ beat' = IF subscribed THEN "publish" ELSE "subscribe"
       \/ /\ ~Connected /\ wasUp
          /\ beat' = "lost"
          /\ seen' = seen
    /\ UNCHANGED <<tlsVars, agentVars, taskVars, evidenceVars, inFlight, ownGen,
                   subscribed, wasUp>>

(* xGetMQTTAgentConnectionInfo, and what the task does next. *)
PrimaryPoll ==
    /\ beat = "poll"
    /\ \/ /\ Connected
          /\ seen' = IF wasUp /\ ownGen = gen THEN seen ELSE gen
          /\ beat' = IF wasUp /\ ownGen # gen THEN "reconnected"
                     ELSE IF subscribed THEN "publish" ELSE "subscribe"
       \/ /\ ~Connected /\ wasUp
          /\ beat' = "lost"
          /\ seen' = seen
    /\ UNCHANGED <<tlsVars, agentVars, taskVars, evidenceVars, inFlight, ownGen,
                   subscribed, wasUp>>

PrimaryReportDown ==
    /\ beat \in {"reconnected", "lost"}
    /\ ReportDown(Primary)
    /\ subscribed' = FALSE
    /\ wasUp' = FALSE
    /\ beat' = IF beat = "lost" THEN "poll" ELSE "subscribe"
    /\ UNCHANGED <<tlsVars, agentVars, taskVars, inFlight, seen, ownGen>>

(* MqttAgent_SubscribeSync returns: refused, or answered by the agent, for which
   it waits without limit. *)
PrimarySubscribe ==
    /\ beat = "subscribe"
    /\ subscribed' \in BOOLEAN /\ (subscribed' => Connected)
    /\ beat' = IF ~wasUp THEN "report" ELSE IF subscribed' THEN "publish" ELSE "poll"
    /\ UNCHANGED <<tlsVars, agentVars, taskVars, evidenceVars, inFlight, seen, ownGen,
                   wasUp>>

PrimaryReportUp ==
    /\ beat = "report"
    /\ ReportUp(Primary)
    /\ wasUp' = TRUE
    /\ ownGen' = seen
    /\ seen' = 0
    /\ beat' = IF subscribed THEN "publish" ELSE "poll"
    /\ UNCHANGED <<tlsVars, agentVars, taskVars, inFlight, subscribed>>

(* mqttWrapper_publish returns: refused, or answered by the agent, for which it
   waits without limit (portMAX_DELAY); an answer may be a failure, and then
   there is no heartbeat. *)
PrimaryPublish ==
    /\ beat = "publish"
    /\ inFlight' \in {inFlight, TRUE} /\ (inFlight' => inFlight \/ Connected)
    /\ beat' = "poll"
    /\ UNCHANGED <<tlsVars, agentVars, taskVars, evidenceVars, seen, ownGen, subscribed,
                   wasUp>>

(* prvPrimaryIncomingPublish, in the agent task. *)
PrimaryHeard ==
    /\ agent = "connected" /\ at[Primary] = "up"
    /\ inFlight
    /\ inFlight' = FALSE
    /\ Heard(Primary)
    /\ agent' = "received"
    /\ UNCHANGED <<tlsVars, gen, beatVars, taskVars>>

PrimaryMaybeComplete ==
    /\ agent = "received"
    /\ MaybeComplete
    /\ agent' = "connected"
    /\ UNCHANGED <<tlsVars, gen, beatVars, taskVars, inFlight>>

------------------------------------------------------------------------------
(* prvSecondarySessionTask *)

Task2(from, to) == task2 = from /\ task2' = to

SecondaryStart ==
    /\ beat # "start"           \* xPrimaryIdentityReady
    /\ Task2("start", "connect")
    /\ UNCHANGED <<tlsVars, agentVars, beatVars, countVars, evidenceVars, inFlight>>

SecondaryConnect ==
    /\ task2 = "connect"
    /\ TcpConnect(Secondary)
    /\ UNCHANGED demoVars

(* xEstablishMqttSession and xSubscribeToTopic succeed, or one of them fails. *)
SecondaryConnected ==
    /\ at[Secondary] = "up"
    /\ Task2("connect", "report") \/ Task2("connect", "close")
    /\ UNCHANGED <<tlsVars, agentVars, beatVars, countVars, evidenceVars, inFlight>>

SecondaryReportUp ==
    /\ Task2("report", "publish")
    /\ ReportUp(Secondary)
    /\ UNCHANGED <<tlsVars, agentVars, beatVars, countVars, inFlight>>

(* The process loop of xPublishToTopic: prvSecondaryIncomingPacket. *)
SecondaryHeard ==
    /\ at[Secondary] = "up"
    /\ Task2("publish", "received")
    /\ Heard(Secondary)
    /\ UNCHANGED <<tlsVars, agentVars, beatVars, countVars, inFlight>>

(* After a heartbeat that came back. *)
SecondaryMaybeComplete ==
    /\ at[Secondary] = "up"
    /\ Task2("received", "publish")
    /\ MaybeComplete
    /\ UNCHANGED <<tlsVars, agentVars, beatVars, countVars, inFlight>>

(* xPublishToTopic returns pdPASS. *)
Published ==
    /\ at[Secondary] = "up"
    /\ Task2("publish", "decide")
    /\ MaybeComplete
    /\ beaten' = TRUE
    /\ UNCHANGED <<tlsVars, agentVars, beatVars, forced, inFlight>>

(* The forced reconnect, once, of a session that published and has overlapped for
   long enough; "otherwise" is where the task goes without it. *)
ForceReconnect(otherwise) ==
    /\ IF ~forced /\ beaten /\ age >= MinOverlap
       THEN forced' = TRUE /\ requested' = TRUE /\ task2' = "down"
       ELSE task2' = otherwise /\ UNCHANGED <<forced, requested>>
    /\ UNCHANGED <<tlsVars, agentVars, beatVars, beaten, inFlight, up, bothUp,
                   observed, heard1, heard2, age, complete>>

(* Fault: a lost connection is closed without a marker. *)
PublishFailsQuiet ==
    /\ at[Secondary] = "up"
    /\ Task2("publish", "close")
    /\ UNCHANGED <<tlsVars, agentVars, beatVars, countVars, evidenceVars, inFlight>>

(* xPublishToTopic fails, and the check for the forced reconnect is made all the
   same: a connection that the network loses then is taken for it. *)
PublishFails ==
    /\ at[Secondary] = "up"
    /\ task2 = "publish"
    /\ ForceReconnect("down")

(* The same check after a heartbeat was published. *)
Decide ==
    /\ task2 = "decide"
    /\ ForceReconnect("publish")

SecondaryReportDown ==
    /\ Task2("down", "close")
    /\ ReportDown(Secondary)
    /\ beaten' = FALSE
    /\ UNCHANGED <<tlsVars, agentVars, beatVars, forced, inFlight>>

(* xDisconnectMqttSession, and the hold before the next attempt. *)
SecondaryDisconnect ==
    /\ Task2("close", "connect")
    /\ Disconnect(Secondary)
    /\ UNCHANGED <<agentVars, beatVars, countVars, evidenceVars, inFlight>>

SecondaryRecord ==
    /\ task2 \in {"connect", "publish"}
    /\ SendRecord(Secondary)
    /\ UNCHANGED demoVars

------------------------------------------------------------------------------

Tick ==
    /\ up[Secondary] /\ age < MinOverlap
    /\ age' = age + 1
    /\ UNCHANGED <<tlsVars, agentVars, beatVars, taskVars, inFlight, up, bothUp,
                   reconnectVars, heard1, heard2, complete>>

Transport == \E c \in Conns : TlsStep(c) /\ UNCHANGED demoVars

Agent ==
    \/ AgentConnect \/ AgentConnected \/ AgentLost \/ AgentDisconnect
    \/ AgentRecord \/ PrimaryHeard \/ PrimaryMaybeComplete

HeartbeatTask ==
    \/ PrimaryStart \/ PrimaryPoll \/ PrimaryReportDown \/ PrimarySubscribe
    \/ PrimaryReportUp \/ PrimaryPublish

SecondaryTask ==
    \/ SecondaryStart \/ SecondaryConnect \/ SecondaryConnected \/ SecondaryReportUp
    \/ SecondaryHeard \/ SecondaryMaybeComplete \/ Published \/ PublishFails \/ Decide
    \/ SecondaryReportDown \/ SecondaryDisconnect \/ SecondaryRecord

Next == Transport \/ Agent \/ HeartbeatTask \/ SecondaryTask \/ Tick

Spec == Init /\ [][Next]_vars

(* The heartbeat task goes on; a call of it returns while the agent is connected,
   and nothing is assumed of the network. *)
FairSpec ==
    /\ Spec /\ TlsFairness
    /\ WF_vars(PrimaryStart \/ PrimaryPoll \/ PrimaryReportDown \/ PrimaryReportUp)
    /\ WF_vars(Connected /\ (PrimarySubscribe \/ PrimaryPublish))

------------------------------------------------------------------------------
(* Properties *)

AgentPlaces == {"connecting", "connected", "received", "closing"}
BeatPlaces == {"start", "poll", "reconnected", "lost", "subscribe", "report", "publish"}
Task2Places == {"start", "connect", "report", "publish", "received", "decide", "down",
                "close"}

TypeOK ==
    /\ TlsTypeOK
    /\ agent \in AgentPlaces /\ gen \in 0..MaxGenerations
    /\ beat \in BeatPlaces
    /\ seen \in 0..MaxGenerations /\ ownGen \in 0..MaxGenerations
    /\ task2 \in Task2Places
    /\ up \in [Conns -> BOOLEAN]
    /\ subscribed \in BOOLEAN /\ wasUp \in BOOLEAN /\ inFlight \in BOOLEAN
    /\ beaten \in BOOLEAN
    /\ forced \in BOOLEAN /\ requested \in BOOLEAN /\ observed \in BOOLEAN
    /\ bothUp \in BOOLEAN /\ heard1 \in BOOLEAN /\ heard2 \in BOOLEAN
    /\ complete \in BOOLEAN
    /\ age \in 0..MinOverlap

(* The monitor accepts the markers while the agent keeps its first connection:
   every overlap of the two sessions is announced by one BOTH_UP, and a heartbeat
   of session 1 that may come back belongs to a session reported up. *)
EvidenceWellFormed ==
    /\ bothUp <=> \A c \in Conns : up[c]
    /\ gen <= 1 /\ Connected /\ inFlight => up[Primary]

(* Session 2 is reported up only while its TLS connection is established, and the
   marker for its end is printed before the connection is closed. *)
ReportedIsEstablished == up[Secondary] => Established(Secondary)

(* TEST_COMPLETE is printed only after session 2 came back from the one reconnect
   that was asked for when it had published and overlapped session 1 for long
   enough.  A connection that the network loses earlier never counts as it; one
   that it loses then, before the task closes it, does. *)
CompleteMeansForced == complete => forced /\ ~requested

(* Session 1 goes on while session 2 reconnects: the handshake of session 2, which
   may never end, does not hold up a record of session 1. *)
PrimaryContinues == TrafficContinues(Primary)

(* A reconnect of the agent that falls between two polls does not go unnoticed:
   session 1 is reported down, sooner or later, unless the agent loses that
   connection too, which may hold the heartbeat task in a call for ever.  Until
   the poll a heartbeat may go out over the new connection. *)
ReconnectNoticed == (up[Primary] /\ ownGen # gen) ~> (~up[Primary] \/ ~Connected)
==============================================================================
