----------------------------- MODULE MqttSession ------------------------------
(***************************************************************************)
(* The MQTT agent task of Demos/mqtt_agent/mqtt_agent_task.c and the tasks *)
(* that use it: the pub/sub demo (Demos/SimplePubSub) and the callers of   *)
(* the MQTT wrapper (Demos/common/mqtt-wrapper), which is how the OTA      *)
(* agent reaches the network.                                              *)
(*                                                                         *)
(* A client takes a command from a pool, queues it and waits for a task    *)
(* notification; command and topic stay on the client's stack until then.  *)
(* The agent task sends the queued commands, and answers a command when    *)
(* the broker acknowledges it.  When the connection is lost it reconnects, *)
(* resumes the session, and subscribes again what is marked as managed.    *)
(*                                                                         *)
(* The command loop and the session of coreMQTT-Agent, and the broker, are *)
(* external.  Every client has one topic, named by the client itself.      *)
(***************************************************************************)
EXTENDS Integers, Sequences, FiniteSets

CONSTANTS
    Demos,              \* pub/sub tasks
    Wrappers,           \* tasks that call the MQTT wrapper
    PoolSize,           \* MQTT_COMMAND_CONTEXTS_POOL_SIZE
    Publishes,          \* mqttexamplePUBLISH_COUNT
    PublishRetries,     \* mqttexampleNUM_PUBLISH_RETRIES
    UnsubscribeRetries, \* mqttexampleUNSUBSCRIBE_RETRIES
    AgentTask,          \* the owner of a command no client waits for
    MaxDrops,           \* bound: connections lost
    MaxSessionLosses,   \* bound: sessions the broker forgets
    MaxRefusals         \* bound: subscriptions the broker refuses

Clients == Demos \cup Wrappers

ASSUME ClientsAssumption ==
    /\ Demos \cap Wrappers = {} /\ AgentTask \notin Clients
    /\ IsFiniteSet(Clients)
ASSUME CountsAssumption ==
    /\ PoolSize \in Nat \ {0} /\ Publishes \in Nat \ {0}
    /\ PublishRetries \in Nat /\ UnsubscribeRetries \in Nat \ {0}
    /\ MaxDrops \in Nat /\ MaxSessionLosses \in Nat /\ MaxRefusals \in Nat

VARIABLES
    agent,          \* where the agent task is
    pool,           \* command structures that are free
    queue,          \* the command queue
    awaiting,       \* commands sent that await an acknowledgment
    table,          \* xTopicFilterSubscriptions
    resubTopics,    \* xSubInfo of prvHandleResubscribe
    pc,             \* where each client is
    notified,       \* the notification each client was sent
    left,           \* publishes a demo task still has to do
    tries,          \* retries left of the call in progress
    \* the broker
    session,        \* it has a session of the device
    brokerSubs,     \* topics subscribed in it
    drops, losses, refusals     \* counted for the bounds

agentVars == <<agent, pool, queue, awaiting, table, resubTopics>>
clientVars == <<pc, notified, left, tries>>
brokerVars == <<session, brokerSubs>>
bounds == <<drops, losses, refusals>>
vars == <<agentVars, clientVars, brokerVars, bounds>>

(* A command, and what the acknowledgment that is on its way will say. *)
Command(kind, client) == [kind |-> kind, client |-> client, ack |-> "none"]

Kinds == {"sub", "unsub", "publishQoS0", "publishQoS1", "resub"}

Waiting == {"subWait", "pubWait", "unsubWait"}

(* The device has just started: the broker may still have its session. *)
Init ==
    /\ agent = "start"
    /\ pool = PoolSize /\ queue = <<>> /\ awaiting = <<>>
    /\ table = {} /\ resubTopics = {}
    /\ pc = [c \in Clients |-> IF c \in Demos THEN "subscribe" ELSE "idle"]
    /\ notified = [c \in Clients |-> "none"]
    /\ left = [d \in Demos |-> Publishes]
    /\ tries = [d \in Demos |-> 0]
    /\ session \in BOOLEAN
    /\ brokerSubs \in IF session THEN SUBSET Clients ELSE {{}}
    /\ drops = 0 /\ losses = 0 /\ refusals = 0

(* MQTTAgent_CommandLoop runs. *)
InLoop == agent = "loop"

(* xGetMQTTAgentState() = MQTT_AGENT_STATE_CONNECTED: the state changes only
   after the loop has ended, with its last command already answered. *)
Connected == agent \in {"loop", "lost"}

(* mqttWrapper_isConnected reads the status that MQTT_Connect sets. *)
IsConnected == agent \in {"resubscribe", "loop", "lost"}

------------------------------------------------------------------------------
(* Agent_GetCommand and Agent_MessageSend; the queue is longer than the pool. *)
Enqueue(command) ==
    /\ pool > 0
    /\ pool' = pool - 1
    /\ queue' = Append(queue, command)

(* A client queues a command and waits for its notification, which it has
   cleared before. *)
Call(c, kind, wait) ==
    /\ Enqueue(Command(kind, c))
    /\ notified' = [notified EXCEPT ![c] = "none"]
    /\ pc' = [pc EXCEPT ![c] = wait]
    /\ UNCHANGED <<agent, awaiting, table, resubTopics, brokerVars, bounds>>

(* Fault: the client waits with a time limit. *)
AnsweredOrTimeout(c, wait, result) ==
    /\ pc[c] = wait
    /\ notified[c] \in {result} \cup (IF result = "failed" THEN {"none"} ELSE {})
    /\ notified' = [notified EXCEPT ![c] = "none"]

(* xTaskNotifyWait, which also clears the notification. *)
Answered(c, wait, result) ==
    /\ pc[c] = wait /\ notified[c] = result
    /\ notified' = [notified EXCEPT ![c] = "none"]

------------------------------------------------------------------------------
(* vSimpleSubscribePublishTask *)

(* xWaitForMQTTAgentState: the connection may be lost again before the command
   is queued. *)
SeesConnected(d) ==
    /\ Connected /\ pc[d] \in {"subscribe", "publish"}
    /\ pc' = [pc EXCEPT ![d] = CASE @ = "subscribe" -> "subSend"
                                 [] @ = "publish" -> IF left[d] > 0 THEN "pubSend"
                                                     ELSE "unsubSend"]
    /\ UNCHANGED <<agentVars, notified, left, tries, brokerVars, bounds>>

SubscribeToTopic(d) ==
    /\ pc[d] = "subSend"
    /\ Call(d, "sub", "subWait")
    /\ UNCHANGED <<left, tries>>

(* A subscription is tried until it succeeds.  The first publish does not look
   at the connection. *)
Subscribed(d) ==
    /\ \/ /\ Answered(d, "subWait", "success")
          /\ pc' = [pc EXCEPT ![d] = "pubSend"]
          /\ tries' = [tries EXCEPT ![d] = PublishRetries]
       \/ /\ Answered(d, "subWait", "failed")
          /\ pc' = [pc EXCEPT ![d] = "subscribe"]
          /\ UNCHANGED tries
    /\ UNCHANGED <<agentVars, left, brokerVars, bounds>>

PublishToTopic(d) ==
    /\ pc[d] = "pubSend"
    /\ \E kind \in {"publishQoS0", "publishQoS1"} : Call(d, kind, "pubWait")
    /\ UNCHANGED <<left, tries>>

(* A publish that failed is tried again while retries are left.  Before the next
   attempt or publish, and after the last one, the task waits for the connection. *)
PublishEnds(d, result) ==
    /\ pc' = [pc EXCEPT ![d] = "publish"]
    /\ IF result = "failed" /\ tries[d] > 0
       THEN /\ tries' = [tries EXCEPT ![d] = @ - 1]
            /\ UNCHANGED left
       ELSE /\ left' = [left EXCEPT ![d] = @ - 1]
            /\ tries' = [tries EXCEPT ![d] = IF left[d] > 1 THEN PublishRetries
                                             ELSE UnsubscribeRetries]

Published(d) ==
    \E result \in {"success", "failed"} :
        /\ Answered(d, "pubWait", result)
        /\ PublishEnds(d, result)
        /\ UNCHANGED <<agentVars, brokerVars, bounds>>

UnsubscribeToTopic(d) ==
    /\ pc[d] = "unsubSend"
    /\ Call(d, "unsub", "unsubWait")
    /\ tries' = [tries EXCEPT ![d] = @ - 1]
    /\ UNCHANGED left

(* Fault: a failed attempt is not repeated. *)
UnsubscribedOnce(d) ==
    \E result \in {"success", "failed"} :
        /\ Answered(d, "unsubWait", result)
        /\ pc' = [pc EXCEPT ![d] = "done"]
        /\ UNCHANGED <<agentVars, left, tries, brokerVars, bounds>>

(* Succeeded or not, the task deletes itself when no retry is left. *)
Unsubscribed(d) ==
    \E result \in {"success", "failed"} :
        /\ Answered(d, "unsubWait", result)
        /\ pc' = [pc EXCEPT ![d] = IF result = "failed" /\ tries[d] > 0
                                   THEN "unsubSend" ELSE "done"]
        /\ UNCHANGED <<agentVars, left, tries, brokerVars, bounds>>

(* No structure becomes free within the block time: the call fails with nothing
   queued, and is taken like one that was answered so. *)
CallFails(d) ==
    /\ pool = 0
    /\ \/ /\ pc[d] = "subSend"
          /\ pc' = [pc EXCEPT ![d] = "subscribe"]
          /\ UNCHANGED <<left, tries>>
       \/ /\ pc[d] = "pubSend"
          /\ PublishEnds(d, "failed")
       \/ /\ pc[d] = "unsubSend"
          /\ pc' = [pc EXCEPT ![d] = IF tries[d] > 1 THEN "unsubSend" ELSE "done"]
          /\ tries' = [tries EXCEPT ![d] = @ - 1]
          /\ UNCHANGED left
    /\ UNCHANGED <<agentVars, notified, brokerVars, bounds>>

DemoStep(d) ==
    \/ SeesConnected(d) \/ SubscribeToTopic(d) \/ Subscribed(d) \/ CallFails(d)
    \/ PublishToTopic(d) \/ Published(d) \/ UnsubscribeToTopic(d) \/ Unsubscribed(d)

------------------------------------------------------------------------------
(* The MQTT wrapper *)

(* mqttWrapper_subscribe and mqttWrapper_publish: nothing is done unless the
   connection is up when it is looked at. *)
WrapperCall(w) ==
    /\ pc[w] = "idle" /\ IsConnected
    /\ \E send \in {"subSend", "pubSend"} : pc' = [pc EXCEPT ![w] = send]
    /\ UNCHANGED <<agentVars, notified, left, tries, brokerVars, bounds>>

(* MqttAgent_SubscribeSync registers the callback first, unmanaged.  It waits for
   a structure without a time limit. *)
WrapperSubscribe(w) ==
    /\ pc[w] = "subSend"
    /\ table' = table \cup {[topic |-> w, managed |-> FALSE]}
    /\ Enqueue(Command("sub", w))
    /\ notified' = [notified EXCEPT ![w] = "none"]
    /\ pc' = [pc EXCEPT ![w] = "subWait"]
    /\ UNCHANGED <<agent, awaiting, resubTopics, left, tries, brokerVars, bounds>>

WrapperPublish(w) ==
    /\ pc[w] = "pubSend"
    /\ Call(w, "publishQoS0", "pubWait")
    /\ UNCHANGED <<left, tries>>

WrapperUnsubscribe(w) ==
    /\ pc[w] = "idle"
    /\ Call(w, "unsub", "unsubWait")
    /\ UNCHANGED <<left, tries>>

WrapperPublishFails(w) ==
    /\ pc[w] = "pubSend" /\ pool = 0
    /\ pc' = [pc EXCEPT ![w] = "idle"]
    /\ UNCHANGED <<agentVars, notified, left, tries, brokerVars, bounds>>

(* mqttWrapper_subscribe asserts that the subscription succeeded. *)
WrapperReturn(w) ==
    \E wait \in Waiting, result \in {"success", "failed"} :
        /\ Answered(w, wait, result)
        /\ pc' = [pc EXCEPT ![w] = IF wait = "subWait" /\ result = "failed"
                                   THEN "halted" ELSE "idle"]
        /\ UNCHANGED <<agentVars, left, tries, brokerVars, bounds>>

WrapperStep(w) ==
    \/ WrapperSubscribe(w) \/ WrapperPublish(w) \/ WrapperPublishFails(w)
    \/ WrapperReturn(w)

------------------------------------------------------------------------------
(* prvMQTTAgentTask *)

(* prvSubscribeCommandCallback of the demo adds the topic, and both
   prvUnsubscribeCommandCallback remove it, before the client is notified. *)
TableAfter(command, result) ==
    CASE result = "success" /\ command.kind = "sub" /\ command.client \in Demos ->
             table \cup {[topic |-> command.client, managed |-> TRUE]}
      [] result = "success" /\ command.kind = "unsub" ->
             {e \in table : e.topic # command.client}
      [] OTHER -> table

(* The command is answered: its callback runs, and it returns to the pool. *)
Conclude(command, result) ==
    /\ table' = TableAfter(command, result)
    /\ notified' = IF command.client = AgentTask THEN notified
                   ELSE [notified EXCEPT ![command.client] = result]
    /\ pool' = pool + 1

(* MQTTAgent_CommandLoop sends the next command; a publish without
   acknowledgment is answered at once. *)
ProcessCommand ==
    /\ InLoop /\ queue # <<>>
    /\ queue' = Tail(queue)
    /\ IF Head(queue).kind = "publishQoS0"
       THEN Conclude(Head(queue), "success") /\ UNCHANGED awaiting
       ELSE /\ awaiting' = Append(awaiting, Head(queue))
            /\ UNCHANGED <<table, notified, pool>>
    /\ UNCHANGED <<agent, resubTopics, pc, left, tries, brokerVars, bounds>>

(* The command cannot be sent, and the command loop ends. *)
SendFails ==
    /\ InLoop /\ queue # <<>> /\ drops < MaxDrops
    /\ queue' = Tail(queue)
    /\ Conclude(Head(queue), "failed")
    /\ agent' = "lost" /\ drops' = drops + 1
    /\ UNCHANGED <<awaiting, resubTopics, pc, left, tries, brokerVars, losses, refusals>>

(* A SUBACK may refuse the subscription. *)
ReceiveAck ==
    /\ InLoop /\ awaiting # <<>> /\ Head(awaiting).ack # "none"
    /\ awaiting' = Tail(awaiting)
    /\ Conclude(Head(awaiting), Head(awaiting).ack)
    /\ UNCHANGED <<agent, queue, resubTopics, pc, left, tries, brokerVars, bounds>>

(* MQTTAgent_CommandLoop ends. *)
ConnectionLost ==
    /\ InLoop /\ drops < MaxDrops
    /\ agent' = "lost" /\ drops' = drops + 1
    /\ UNCHANGED <<pool, queue, awaiting, table, resubTopics, clientVars, brokerVars, losses, refusals>>

(* The state is MQTT_AGENT_STATE_DISCONNECTED from here on. *)
LeaveLoop ==
    /\ agent = "lost"
    /\ agent' = "connecting"
    /\ UNCHANGED <<pool, queue, awaiting, table, resubTopics, clientVars, brokerVars, bounds>>

(* MQTTAgent_ResumeSession cancels what was not acknowledged, except publishes
   of a session that is still there, which are sent again. *)
Canceled(command) == ~session \/ command.kind # "publishQoS1"

Kept ==
    LET kept == {i \in 1 .. Len(awaiting) : ~Canceled(awaiting[i])}
        inOrder == CHOOSE f \in [1 .. Cardinality(kept) -> kept] :
                      \A m, n \in DOMAIN f : m < n => f[m] < f[n]
    IN  [n \in 1 .. Cardinality(kept) |-> awaiting[inOrder[n]]]

KeptAgain == [i \in 1 .. Len(Kept) |-> [Kept[i] EXCEPT !.ack = "none"]]

CanceledClients ==
    {awaiting[i].client : i \in {k \in 1 .. Len(awaiting) : Canceled(awaiting[k])}}

(* Fault: a canceled command does not return to the pool. *)
ResumeSessionLeaking ==
    /\ awaiting' = KeptAgain
    /\ notified' = [c \in Clients |-> IF c \in CanceledClients THEN "failed" ELSE notified[c]]
    /\ UNCHANGED pool

(* Fault: what is sent again is released as well. *)
ResumeSessionReleasingAll ==
    /\ awaiting' = KeptAgain
    /\ notified' = [c \in Clients |-> IF c \in CanceledClients THEN "failed" ELSE notified[c]]
    /\ pool' = pool + Len(awaiting)

(* Fault: a command is canceled without its callback. *)
ResumeSessionSilent ==
    /\ awaiting' = KeptAgain
    /\ pool' = pool + Len(awaiting) - Len(Kept)
    /\ UNCHANGED notified

ResumeSession ==
    /\ awaiting' = KeptAgain
    /\ notified' = [c \in Clients |-> IF c \in CanceledClients THEN "failed" ELSE notified[c]]
    /\ pool' = pool + Len(awaiting) - Len(Kept)

(* prvConnectToMQTTBroker tries until it succeeds.  The first connection takes
   the session as it is. *)
FirstConnect ==
    /\ agent = "start"
    /\ agent' = "loop"
    /\ session' = TRUE
    /\ UNCHANGED <<pool, queue, awaiting, table, resubTopics, clientVars, brokerSubs, bounds>>

Reconnect ==
    /\ agent = "connecting"
    /\ ResumeSession
    /\ agent' = IF session THEN "loop" ELSE "resubscribe"
    /\ session' = TRUE
    /\ UNCHANGED <<queue, table, resubTopics, pc, left, tries, brokerSubs, bounds>>

(* prvHandleResubscribe, for a new session.  All its commands point to one
   static list of topics. *)
Managed == {e.topic : e \in {f \in table : f.managed}}

HandleResubscribe ==
    /\ agent = "resubscribe"
    /\ agent' = "loop"
    /\ IF Managed = {} THEN UNCHANGED <<pool, queue, resubTopics>>
       ELSE Enqueue(Command("resub", AgentTask)) /\ resubTopics' = Managed
    /\ UNCHANGED <<awaiting, table, clientVars, brokerVars, bounds>>

(* It does not wait for a free structure.  The agent connects again when there is
   none, to a session that is now there, so nothing is subscribed. *)
ResubscribeFails ==
    /\ agent = "resubscribe" /\ Managed # {} /\ pool = 0
    /\ agent' = "connecting"
    /\ resubTopics' = Managed
    /\ UNCHANGED <<pool, queue, awaiting, table, clientVars, brokerVars, bounds>>

------------------------------------------------------------------------------
(* The broker (external) *)

(* It receives the first command on its way, and acknowledges it. *)
Acknowledge(i, answer) ==
    /\ InLoop
    /\ awaiting[i].ack = "none" /\ \A k \in 1 .. i - 1 : awaiting[k].ack # "none"
    /\ awaiting' = [awaiting EXCEPT ![i].ack = answer]
    /\ UNCHANGED <<agent, pool, queue, table, resubTopics, clientVars, session, drops, losses>>

BrokerReceives ==
    \E i \in 1 .. Len(awaiting) :
        LET command == awaiting[i]
        IN  /\ Acknowledge(i, "success")
            /\ brokerSubs' = CASE command.kind = "sub" -> brokerSubs \cup {command.client}
                               [] command.kind = "unsub" -> brokerSubs \ {command.client}
                               [] command.kind = "resub" -> brokerSubs \cup resubTopics
                               [] OTHER -> brokerSubs
            /\ UNCHANGED refusals

(* MQTTSubAckFailure *)
BrokerRefuses ==
    /\ refusals < MaxRefusals /\ refusals' = refusals + 1
    /\ \E i \in 1 .. Len(awaiting) :
          awaiting[i].kind \in {"sub", "resub"} /\ Acknowledge(i, "failed")
    /\ UNCHANGED brokerSubs

(* The session expires while the device is away. *)
LoseSession ==
    /\ agent = "connecting" /\ session /\ losses < MaxSessionLosses
    /\ session' = FALSE /\ brokerSubs' = {} /\ losses' = losses + 1
    /\ UNCHANGED <<agentVars, clientVars, drops, refusals>>

------------------------------------------------------------------------------
AgentStep ==
    \/ ProcessCommand \/ ReceiveAck \/ LeaveLoop
    \/ FirstConnect \/ Reconnect \/ HandleResubscribe \/ ResubscribeFails

Next ==
    \/ AgentStep \/ SendFails \/ ConnectionLost
    \/ BrokerReceives \/ BrokerRefuses \/ LoseSession
    \/ \E d \in Demos : DemoStep(d)
    \/ \E w \in Wrappers : WrapperStep(w) \/ WrapperCall(w) \/ WrapperUnsubscribe(w)

(* Every task runs when it can, a connection can be made in the end, and the
   broker answers as long as the connection is up. *)
Fairness ==
    /\ WF_vars(ProcessCommand) /\ WF_vars(ReceiveAck) /\ WF_vars(BrokerReceives)
    /\ WF_vars(LeaveLoop \/ FirstConnect \/ Reconnect \/ HandleResubscribe \/ ResubscribeFails)
    /\ \A d \in Demos : WF_vars(DemoStep(d))
    /\ \A w \in Wrappers : WF_vars(WrapperStep(w))

Spec == Init /\ [][Next]_vars /\ Fairness

------------------------------------------------------------------------------
Commands == [kind : Kinds, client : Clients \cup {AgentTask},
             ack : {"none", "success", "failed"}]

TypeOK ==
    /\ agent \in {"start", "loop", "lost", "connecting", "resubscribe"}
    /\ pool \in 0 .. PoolSize
    /\ queue \in Seq(Commands) /\ awaiting \in Seq(Commands)
    /\ table \subseteq [topic : Clients, managed : BOOLEAN]
    /\ resubTopics \subseteq Clients
    /\ pc \in [Clients -> Waiting \cup {"subscribe", "subSend", "publish", "pubSend",
                                        "unsubSend", "done", "idle", "halted"}]
    /\ notified \in [Clients -> {"none", "success", "failed"}]
    /\ left \in [Demos -> 0 .. Publishes]
    /\ tries \in [Demos -> Nat]
    /\ session \in BOOLEAN /\ brokerSubs \subseteq Clients

One(condition) == IF condition THEN 1 ELSE 0

CommandsOf(c, commands) == {i \in 1 .. Len(commands) : commands[i].client = c}

Outstanding(c) ==
    Cardinality(CommandsOf(c, queue)) + Cardinality(CommandsOf(c, awaiting))

(* While a client waits, exactly one of these exists: its command, or the
   notification that answers it; while it does not, none.  So no command refers
   to the stack of a client that has gone on (simple_pub_sub_task.c:511,
   mqtt_wrapper.c:240), and no answer is taken for that of another call,
   whatever is canceled, sent again or acknowledged late. *)
OneAnswer ==
    \A c \in Clients :
        Outstanding(c) + One(notified[c] # "none") = One(pc[c] \in Waiting)

(* Every command structure returns to the pool, and there is never more than
   one resubscription for each session that was lost; so the resubscription,
   which does not wait for a free structure, finds one as long as the pool has
   one for each client and for each session lost so far. *)
PoolSuffices ==
    /\ pool + Len(queue) + Len(awaiting) = PoolSize
    /\ Outstanding(AgentTask) <= losses
    /\ agent = "resubscribe" /\ Cardinality(Clients) + losses <= PoolSize => pool > 0

(* A topic filter in the table is on the stack of a task that still exists,
   unless that task gave up unsubscribing. *)
TopicsAlive == \A e \in table : pc[e.topic] = "done" => tries[e.topic] = 0

(* Every call is answered, over reconnections and lost sessions: the clients
   wait without a time limit. *)
CallsAnswered == \A c \in Clients : pc[c] \in Waiting ~> pc[c] \notin Waiting

------------------------------------------------------------------------------
(* mqtt_agent_task.h:202, "Managed subscriptions are resubscribed by MQTT agent
   if the connection is lost and then reconnected": while nothing is under way,
   a task that uses its subscription has it. *)
ManagedResubscribed ==
    InLoop /\ queue = <<>> /\ awaiting = <<>> =>
        \A e \in table : e.managed /\ pc[e.topic] \in {"publish", "pubSend"} =>
            e.topic \in brokerSubs
==============================================================================
