---------------------------- MODULE OtaAgent_proofs ----------------------------
(***************************************************************************)
(* Proofs about OtaAgent, for any number of jobs, blocks and buffers and    *)
(* any length of the event queue.                                          *)
(***************************************************************************)
EXTENDS OtaAgent, TLAPS, FiniteSetTheorems, NaturalsInduction, SequenceTheorems

USE SizesAssumption DEF NoJob, Jobs, Blocks, Buffers, DocumentFileId

------------------------------------------------------------------------------
(* The event queue, the network and the messages *)

(* A set of natural numbers that is not empty has a least element. *)
LEMMA LeastElement ==
    ASSUME NEW T \in SUBSET Nat, T # {}
    PROVE  \E least \in T : \A k \in T : least <= k
<1>1. IsWellFoundedOn({ss \in Nat \X Nat : ss[1] < ss[2]}, Nat)
    BY NatLessThanWellFounded DEF OpToRel
<1>2. PICK least \in T : \A k \in T : <<k, least>> \notin {ss \in Nat \X Nat : ss[1] < ss[2]}
    BY <1>1, WFMin
<1>3. \A k \in T : ~(k < least)
    <2> TAKE k \in T
    <2>1. <<k, least>> \in Nat \X Nat
        OBVIOUS
    <2> QED
        BY <1>2, <2>1
<1> QED
    BY <1>3

(* The least element is what CHOOSE takes. *)
LEMMA LeastChosen ==
    ASSUME NEW n \in Nat, NEW T \in SUBSET (1 .. n), T # {}
    PROVE  (CHOOSE i \in T : \A k \in T : i <= k) \in T
<1>1. T \in SUBSET Nat
    OBVIOUS
<1>2. PICK least \in T : \A k \in T : least <= k
    BY <1>1, LeastElement
<1> QED
    BY <1>2

(* An event other than that of a received block points to no buffer. *)
LEMMA EventTyped ==
    ASSUME NEW name \in EventIds \ {"ReceivedFileBlock"}
    PROVE  Event(name) \in Events /\ Event(name).id = name
BY DEF Event, Events

(* OtaSendEvent_FreeRTOS leaves what is queued where it is; its event, if it is
   not dropped, is the last one. *)
LEMMA SendProperties ==
    ASSUME NEW q \in Seq(Events), Len(q) <= MaxMessages, NEW e \in Events
    PROVE  /\ Send(q, e) \in Seq(Events)
           /\ Len(Send(q, e)) \in {Len(q), Len(q) + 1} /\ Len(Send(q, e)) <= MaxMessages
           /\ \A i \in 1 .. Len(q) : Send(q, e)[i] = q[i]
           /\ Len(Send(q, e)) = Len(q) + 1 => Send(q, e)[Len(q) + 1] = e
           /\ Len(q) < MaxMessages => Len(Send(q, e)) = Len(q) + 1
<1>1. Len(q) \in Nat
    OBVIOUS
<1>2. CASE Len(q) < MaxMessages
    <2>1. Send(q, e) = Append(q, e)
        BY <1>2 DEF Send
    <2>2. /\ Append(q, e) \in Seq(Events) /\ Len(Append(q, e)) = Len(q) + 1
          /\ \A i \in 1 .. Len(q) : Append(q, e)[i] = q[i]
          /\ Append(q, e)[Len(q) + 1] = e
        OBVIOUS
    <2> QED
        BY <1>1, <1>2, <2>1, <2>2
<1>3. CASE ~(Len(q) < MaxMessages)
    BY <1>1, <1>3 DEF Send
<1> QED
    BY <1>2, <1>3

(* Without its first event, the queue is what followed it. *)
LEMMA TailProperties ==
    ASSUME NEW q \in Seq(Events), q # <<>>
    PROVE  /\ Tail(q) \in Seq(Events) /\ Len(q) \in Nat \ {0} /\ Len(Tail(q)) = Len(q) - 1
           /\ \A i \in 1 .. Len(q) - 1 : Tail(q)[i] = q[i + 1]
           /\ Head(q) = q[1] /\ Head(q) \in Events
OBVIOUS

(* What is queued is an event. *)
LEMMA QueuedIsEvent ==
    ASSUME NEW q \in Seq(Events), NEW i \in 1 .. Len(q)
    PROVE  q[i] \in Events
OBVIOUS

(* What is on its way after messages are sent, and after one is taken. *)
LEMMA NetProperties ==
    ASSUME NEW A, NEW B
    PROVE  /\ BagToSet(A (+) B) = BagToSet(A) \cup BagToSet(B)
           /\ BagToSet(A (-) B) \subseteq BagToSet(A)
BY DEF BagToSet, (+), (-)

(* What SetToBag holds. *)
LEMMA SetToBagProperties ==
    ASSUME NEW S
    PROVE  BagToSet(SetToBag(S)) = S /\ BagToSet(EmptyBag) = {}
BY DEF BagToSet, SetToBag, EmptyBag

(* A change of the pending jobs sends at most the notification. *)
LEMMA NotifiedProperties ==
    ASSUME NEW st
    PROVE  /\ BagToSet(Notified(st)) \subseteq {NotifyMsg}
           /\ "notify" \notin subs => BagToSet(Notified(st)) = {}
BY SetToBagProperties DEF Notified

(* The messages of each type. *)
LEMMA MessageTyped ==
    /\ NoMsg \in Messages /\ NotifyMsg \in Messages
    /\ \A j \in Jobs \cup {NoJob} : Doc(j) \in Messages
    /\ \A j \in Jobs : CancelMsg(j) \in Messages
    /\ \A j \in Jobs, b \in Blocks : BlockMsg(j, b) \in Messages
BY DEF Messages

(* A message of a type carries what the type says. *)
LEMMA MessageProperties ==
    ASSUME NEW m \in Messages
    PROVE  /\ m.job \in Jobs \cup {NoJob}
           /\ m.type = "block" => m.job \in Jobs /\ m.block \in Blocks
           /\ m.type = "cancel" => m.job \in Jobs
           /\ m.type \in {"none", "notify", "doc", "cancel", "block"}
BY DEF Messages, NoMsg, NotifyMsg, Doc, CancelMsg, BlockMsg

(* The job that StartNextPendingJobExecution answers with is a job, or none. *)
LEMMA NextJobTyped == NextJob \in Jobs \cup {NoJob}
<1> DEFINE first(S) == CHOOSE j \in S : \A k \in S : j <= k
           started == {j \in Jobs : status[j] = "inProgress"}
<1>1. ASSUME NEW S \in SUBSET Jobs, S # {} PROVE first(S) \in S
    BY <1>1, LeastChosen
<1>2. started \in SUBSET Jobs /\ Pending(status) \in SUBSET Jobs
    BY DEF Pending
<1>3. NextJob = IF started # {} THEN first(started)
                ELSE IF Pending(status) # {} THEN first(Pending(status)) ELSE NoJob
    BY DEF NextJob
<1> QED
    BY <1>1, <1>2, <1>3

------------------------------------------------------------------------------
(* Types *)

(* What jobFields holds is the job whose stream is downloaded, or nothing. *)
FieldsOfStream == fields \in {NoJob, stream} /\ (signature => fields # NoJob)

(* The buffer of an event holds a block. *)
EventsHoldBlocks == \A i \in BlockEvents : buffers[events[i].buffer].msg.type = "block"

TypeInv == TypeOK /\ FieldsOfStream /\ EventsHoldBlocks

(* An event taken from the queue has the type of its name. *)
LEMMA ReceiveProperties ==
    ASSUME TypeOK, NEW name \in EventIds, Receive(name)
    PROVE  /\ Tail(events) \in Seq(Events) /\ Len(Tail(events)) + 1 = Len(events)
           /\ Len(Tail(events)) < MaxMessages /\ Len(events) \in Nat \ {0}
           /\ \A i \in 1 .. Len(Tail(events)) : Tail(events)[i] = events[i + 1]
           /\ events[1] = Head(events) /\ events[1].id = name
           /\ events[1].buffer \in IF name = "ReceivedFileBlock" THEN Buffers ELSE {0}
<1>1. events \in Seq(Events) /\ events # <<>> /\ Len(events) <= MaxMessages
    BY DEF TypeOK, Receive
<1>2. events[1] \in Events /\ events[1].id = name
    BY <1>1, TailProperties DEF Receive
<1>3. events[1].buffer \in IF name = "ReceivedFileBlock" THEN Buffers ELSE {0}
    BY <1>2 DEF Events
<1> QED
    BY <1>1, <1>2, <1>3, TailProperties

(* Taking the first event and sending another one. *)
LEMMA ReceiveAndSend ==
    ASSUME TypeOK, NEW name \in EventIds, Receive(name),
           NEW other \in EventIds \ {"ReceivedFileBlock"}
    PROVE  /\ Send(Tail(events), Event(other)) \in Seq(Events)
           /\ Len(Send(Tail(events), Event(other))) <= MaxMessages
<1>1. /\ Tail(events) \in Seq(Events) /\ Len(Tail(events)) < MaxMessages
      /\ Len(Tail(events)) <= MaxMessages
    BY ReceiveProperties
<1>2. Event(other) \in Events
    BY EventTyped
<1> QED
    BY <1>1, <1>2, SendProperties

(* All buffers that are freed at once keep what they hold. *)
LEMMA FreeAllProperties ==
    ASSUME TypeOK
    PROVE  /\ FreeAll(buffers) \in [Buffers -> [used : BOOLEAN, msg : Messages]]
           /\ \A i \in Buffers : /\ FreeAll(buffers)[i].msg = buffers[i].msg
                                 /\ ~FreeAll(buffers)[i].used
BY ZenonT(60) DEF TypeOK, FreeAll

(* The report of a failed job. *)
LEMMA SendFailedMessageProperties ==
    ASSUME TypeOK, NEW j, SendFailedMessage(j)
    PROVE  /\ globalJob' \in Jobs \cup {NoJob} /\ jobDoc' \in Messages
           /\ status' \in [Jobs -> {"none", "queued", "inProgress", "failed", "canceled"}]
           /\ BagToSet(net') \subseteq Messages
<1>1. CASE j = NoJob
    BY <1>1 DEF SendFailedMessage, TypeOK
<1>2. CASE j # NoJob
    <2>1. globalJob' = NoJob /\ jobDoc' = NoMsg /\ NoMsg \in Messages
        BY <1>2, MessageTyped DEF SendFailedMessage
    <2>2. CASE UNCHANGED <<status, net>>
        BY <2>1, <2>2 DEF TypeOK
    <2>3. CASE /\ status' = [status EXCEPT ![j] = IF @ = "inProgress" THEN "failed" ELSE @]
               /\ net' = net (+) Notified(status')
        <3>1. status' \in [Jobs -> {"none", "queued", "inProgress", "failed", "canceled"}]
            BY <2>3 DEF TypeOK
        <3>2. BagToSet(net') \subseteq Messages
            BY <2>3, NetProperties, NotifiedProperties, MessageTyped DEF TypeOK
        <3> QED
            BY <2>1, <3>1, <3>2
    <2> QED
        BY <1>2, <2>2, <2>3 DEF SendFailedMessage
<1> QED
    BY <1>1, <1>2

(* A request for blocks moves the offset to another block, or the end, and sends
   blocks of the stream only. *)
LEMMA RequestDataBlockProperties ==
    ASSUME TypeOK, NEW offset \in 0 .. NumBlocks, RequestDataBlock(offset)
    PROVE  /\ next' \in 0 .. NumBlocks
           /\ BagToSet(net') \subseteq BagToSet(net) \cup {BlockMsg(stream, b) : b \in Blocks}
           /\ stream = NoJob => BagToSet(net') = BagToSet(net)
           /\ BagToSet(net') \subseteq Messages
<1> DEFINE n == IF RequestSize > total - offset THEN total - offset ELSE RequestSize
           asked == IF "stream" \in subs
                    THEN {BlockMsg(stream, b) : b \in offset .. offset + n - 1} ELSE {}
<1>1. total \in {0, NumBlocks} /\ (stream = NoJob => total = 0)
    BY DEF total
<1>2. offset < total => n \in 1 .. NumBlocks /\ offset + n \in 0 .. NumBlocks /\ stream # NoJob
    BY <1>1
<1>3. offset < total => asked \subseteq {BlockMsg(stream, b) : b \in Blocks}
    BY <1>2
<1>4. next' \in 0 .. NumBlocks
    BY <1>1, <1>2 DEF RequestDataBlock
<1>5. \/ UNCHANGED net
      \/ /\ offset < total
         /\ net' = net (+) SetToBag({m \in asked : OnTheWay(m) < MaxCopies})
    BY DEF RequestDataBlock
<1>6. /\ BagToSet(net') \subseteq BagToSet(net) \cup {BlockMsg(stream, b) : b \in Blocks}
      /\ stream = NoJob => BagToSet(net') = BagToSet(net)
    <2>1. CASE UNCHANGED net
        BY <2>1 DEF BagToSet
    <2>2. CASE /\ offset < total
               /\ net' = net (+) SetToBag({m \in asked : OnTheWay(m) < MaxCopies})
        <3>1. BagToSet(net') = BagToSet(net) \cup {m \in asked : OnTheWay(m) < MaxCopies}
            BY <2>2, NetProperties, SetToBagProperties
        <3> HIDE DEF asked
        <3> QED
            BY <1>2, <1>3, <2>2, <3>1
    <2> QED
        BY <1>5, <2>1, <2>2
<1>7. stream # NoJob => {BlockMsg(stream, b) : b \in Blocks} \subseteq Messages
    BY MessageTyped DEF TypeOK
<1>8. BagToSet(net) \subseteq Messages
    BY DEF TypeOK
<1> QED
    BY <1>4, <1>6, <1>7, <1>8

(* A call for the topics keeps to those it names. *)
LEMMA TopicsTyped ==
    ASSUME TypeOK
    PROVE  /\ \A topics : Unsubscribe(topics) => subs' \subseteq subs
           /\ \A kept, topics : Subscribe(kept, topics) => subs' \subseteq kept \cup topics
           /\ \A topics : Unsubscribe(topics) => subs' \subseteq {"stream", "event", "notify"}
           /\ Subscribe(subs, {"notify"}) => subs' \subseteq {"stream", "event", "notify"}
           /\ \A j : InitMqttDownloader(j) => subs' \subseteq {"stream", "event", "notify"}
<1>1. \A topics : Unsubscribe(topics) => subs' \subseteq subs
    BY DEF Unsubscribe, Topics
<1>2. \A kept, topics : Subscribe(kept, topics) => subs' \subseteq kept \cup topics
    BY DEF Subscribe, Topics
<1>3. subs \subseteq {"stream", "event", "notify"}
    BY DEF TypeOK
<1>4. ASSUME NEW j, InitMqttDownloader(j) PROVE subs' \subseteq {"stream", "event", "notify"}
    <2>1. PICK others : Subscribe(subs \ others, {"event", "stream"})
        BY <1>4 DEF InitMqttDownloader
    <2>2. subs' \subseteq (subs \ others) \cup {"event", "stream"}
        BY <1>2, <2>1
    <2> QED
        BY <1>3, <2>2
<1> QED
    BY <1>1, <1>2, <1>3, <1>4

(* Every step preserves the types: the cloud and the MQTT agent task. *)
LEMMA CloudTypeOK ==
    ASSUME TypeInv, Cloud \/ MQTTAgentTask
    PROVE  TypeOK'
<1> USE DEF TypeInv, TypeOK, taskVars, jobVars, loadVars, palVars
<1>1. ASSUME NEW j \in Jobs, CreateJob(j) PROVE TypeOK'
    <2>1. BagToSet(net') \subseteq Messages
        BY <1>1, NetProperties, NotifiedProperties, MessageTyped DEF CreateJob
    <2> QED
        BY <1>1, <2>1, ZenonT(60) DEF CreateJob
<1>2. ASSUME NEW j \in Jobs, CancelJob(j) PROVE TypeOK'
    <2> DEFINE told == IF "event" \in subs /\ eventTopic = j
                       THEN SetToBag({CancelMsg(j)}) ELSE EmptyBag
    <2>1. BagToSet(told) \subseteq Messages
        <3>1. BagToSet(SetToBag({CancelMsg(j)})) = {CancelMsg(j)} /\ BagToSet(EmptyBag) = {}
            BY SetToBagProperties
        <3>2. CancelMsg(j) \in Messages
            BY MessageTyped
        <3> QED
            BY <3>1, <3>2
    <2>2. net' = (net (+) Notified(status')) (+) told
        BY <1>2 DEF CancelJob
    <2> HIDE DEF told
    <2>3. BagToSet(net') = BagToSet(net (+) Notified(status')) \cup BagToSet(told)
        BY <2>2, NetProperties
    <2>4. BagToSet(net (+) Notified(status')) = BagToSet(net) \cup BagToSet(Notified(status'))
        BY NetProperties
    <2>5. BagToSet(Notified(status')) \subseteq Messages
        BY NotifiedProperties, MessageTyped
    <2>6. BagToSet(net') \subseteq Messages
        BY <2>1, <2>3, <2>4, <2>5
    <2> QED
        BY <1>2, <2>6, ZenonT(60) DEF CancelJob
<1>3. ASSUME NEW m \in BagToSet(net), Lose(m) PROVE TypeOK'
    <2>1. BagToSet(net') \subseteq Messages
        BY <1>3, NetProperties DEF Lose
    <2> QED
        BY <1>3, <2>1, ZenonT(60) DEF Lose
<1>4. ASSUME NEW m \in BagToSet(net), Deliver(m) PROVE TypeOK'
    <2>1. m \in Messages
        OBVIOUS
    <2>2. Take(m) => BagToSet(net') \subseteq Messages
        BY NetProperties DEF Take
    <2>3. CASE Ignore(m)
        BY <2>2, <2>3 DEF Ignore
    <2>4. CASE BlockArrived(m)
        <3> DEFINE free == {i \in Buffers : ~buffers[i].used}
                   first == CHOOSE i \in free : \A k \in free : i <= k
        <3>1. CASE free = {}
            BY <2>2, <2>4, <3>1 DEF BlockArrived
        <3>2. CASE free # {}
            <4>1. first \in Buffers
                <5>1. NumBuffers \in Nat /\ free \in SUBSET (1 .. NumBuffers)
                    OBVIOUS
                <5>2. first \in free
                    BY <3>2, <5>1, LeastChosen
                <5> QED
                    BY <5>2
            <4>2. [id |-> "ReceivedFileBlock", buffer |-> first] \in Events
                BY <4>1 DEF Events
            <4>3. /\ buffers' = [buffers EXCEPT ![first] = [used |-> TRUE, msg |-> m]]
                  /\ events' = Send(events, [id |-> "ReceivedFileBlock", buffer |-> first])
                BY <2>4, <3>2 DEF BlockArrived
            <4>4. buffers' \in [Buffers -> [used : BOOLEAN, msg : Messages]]
                BY <2>1, <4>3
            <4>5. events' \in Seq(Events) /\ Len(events') <= MaxMessages
                BY <4>2, <4>3, SendProperties
            <4> QED
                BY <2>2, <2>4, <4>4, <4>5 DEF BlockArrived
        <3> QED
            BY <3>1, <3>2
    <2>5. CASE NotifyArrived(m)
        <3>1. Event("NotifyCanceled") \in Events /\ Event("RequestJobDocument") \in Events
            BY EventTyped DEF EventIds
        <3>2. /\ Send(events, Event("NotifyCanceled")) \in Seq(Events)
              /\ Len(Send(events, Event("NotifyCanceled"))) <= MaxMessages
            BY <3>1, SendProperties
        <3>3. events' \in Seq(Events) /\ Len(events') <= MaxMessages
            BY <2>5, <3>1, <3>2, SendProperties DEF NotifyArrived
        <3> QED
            BY <2>2, <2>5, <3>3, ZenonT(60) DEF NotifyArrived
    <2>6. CASE JobDocumentArrived(m)
        <3>1. events' \in Seq(Events) /\ Len(events') <= MaxMessages
            BY <2>6, EventTyped, SendProperties DEF JobDocumentArrived, EventIds
        <3> QED
            BY <2>1, <2>2, <2>6, <3>1, ZenonT(60) DEF JobDocumentArrived
    <2>7. CASE CancelArrived(m)
        <3>1. events' \in Seq(Events) /\ Len(events') <= MaxMessages
            BY <2>7, EventTyped, SendProperties DEF CancelArrived, EventIds
        <3> QED
            BY <2>2, <2>7, <3>1, ZenonT(60) DEF CancelArrived
    <2> QED
        BY <1>4, <2>3, <2>4, <2>5, <2>6, <2>7 DEF Deliver
<1>5. CASE LoseSession
    <2>1. subs' \subseteq {"stream", "event", "notify"}
        BY <1>5 DEF LoseSession
    <2> QED
        BY <1>5, <2>1 DEF LoseSession
<1> QED
    BY <1>1, <1>2, <1>3, <1>4, <1>5 DEF Cloud, MQTTAgentTask

(* The first block from the given one on that is missing, or the end. *)
LEMMA FirstMissing ==
    ASSUME NEW m \in Nat, NEW c \in 0 .. m, NEW marked \in SUBSET Nat
    PROVE  \E n \in c .. m : /\ c .. n - 1 \subseteq marked
                             /\ n = m \/ n \notin marked
<1> DEFINE candidates == {n \in c .. m : n = m \/ n \notin marked}
<1>1. m \in candidates /\ candidates \in SUBSET Nat
    OBVIOUS
<1>2. PICK n \in candidates : \A k \in candidates : n <= k
    BY <1>1, LeastElement
<1>3. \A k \in c .. n - 1 : k \in marked
    BY <1>2
<1> QED
    BY <1>2, <1>3

(* The block of the event that is received is one of the stream's. *)
LEMMA ReceivedIsBlock ==
    ASSUME TypeInv, Receive("ReceivedFileBlock")
    PROVE  /\ received \in Buffers /\ block \in Blocks
           /\ buffers[received].msg.job \in Jobs
           /\ buffers[received].msg \in Messages
<1>1. received \in Buffers /\ 1 \in BlockEvents /\ events[1].buffer = received
    BY ReceiveProperties DEF TypeInv, received, BlockEvents, EventIds
<1>2. buffers[received].msg.type = "block" /\ buffers[received].msg \in Messages
    BY <1>1 DEF TypeInv, EventsHoldBlocks, TypeOK
<1> QED
    BY <1>1, <1>2, MessageProperties DEF block

(* Every step preserves the types: what the agent does with a block. *)
LEMMA BlockTypeOK ==
    ASSUME TypeInv, IgnoreFileBlock \/ WriteFileBlock \/ RejectFileBlock
    PROVE  TypeOK'
<1> USE DEF TypeInv, TypeOK, taskVars, jobVars, loadVars, palVars, cloudVars
<1>1. /\ Receive("ReceivedFileBlock")
      /\ buffers' = [buffers EXCEPT ![received].used = FALSE]
    BY DEF IgnoreFileBlock, WriteFileBlock, RejectFileBlock, ReceiveFileBlock
<1>2. received \in Buffers /\ block \in Blocks /\ buffers[received].msg.job \in Jobs
    BY <1>1, ReceivedIsBlock
<1>3. buffers' \in [Buffers -> [used : BOOLEAN, msg : Messages]]
    BY <1>1, <1>2
<1>4. /\ Tail(events) \in Seq(Events) /\ Len(Tail(events)) <= MaxMessages
      /\ last' = "ReceivedFileBlock"
    BY <1>1, ReceiveProperties, SMTT(30) DEF EventIds, Receive
<1>5. CASE IgnoreFileBlock
    BY <1>3, <1>4, <1>5, SMTT(30) DEF IgnoreFileBlock, EventIds
<1>6. CASE WriteFileBlock
    <2>1. bitmap' \subseteq Blocks /\ remaining' \in Int /\ remaining' <= NumBlocks
        <3>1. bitmap' = bitmap \cup {block} /\ remaining' = remaining - 1
            BY <1>6 DEF WriteFileBlock
        <3>2. bitmap \subseteq Blocks /\ remaining \in Int /\ remaining <= NumBlocks
            OBVIOUS
        <3>3. NumBlocks \in Nat
            BY SizesAssumption
        <3> HIDE DEF TypeInv, TypeOK
        <3>4. bitmap' \subseteq Blocks
            BY <1>2, <3>1, <3>2
        <3>5. remaining' \in Int /\ remaining' <= NumBlocks
            BY <3>1, <3>2, <3>3
        <3> QED
            BY <3>4, <3>5
    <2>2. current' \in 0 .. NumBlocks
        <3>1. total = NumBlocks /\ current \in 0 .. NumBlocks /\ bitmap' \in SUBSET Nat
            BY <1>6, <2>1, SMTT(30) DEF WriteFileBlock, FieldsOfStream, total
        <3>2. \E n \in current .. NumBlocks : /\ current .. n - 1 \subseteq bitmap'
                                              /\ n = NumBlocks \/ n \notin bitmap'
            BY <3>1, FirstMissing
        <3>3. current' = CHOOSE n \in current .. NumBlocks :
                            /\ current .. n - 1 \subseteq bitmap'
                            /\ n = NumBlocks \/ n \notin bitmap'
            BY <1>6, <3>1 DEF WriteFileBlock
        <3>4. current' \in current .. NumBlocks
            BY <3>2, <3>3
        <3> QED
            BY <3>1, <3>4
    <2>3. next' \in 0 .. NumBlocks
        BY <1>6, <2>2 DEF WriteFileBlock
    <2>4. events' \in Seq(Events) /\ Len(events') <= MaxMessages
        BY <1>1, <1>4, <1>6, ReceiveAndSend DEF WriteFileBlock, EventIds
    <2>5. content' \in [Blocks -> Jobs \cup {NoJob, Mixed}] /\ palError' \in BOOLEAN
        <3> DEFINE bytes == buffers[received].msg.job
        <3>1. \/ /\ content' = [content EXCEPT ![block] =
                                  IF @ \in {NoJob, bytes} THEN bytes ELSE Mixed]
                 /\ UNCHANGED palError
              \/ palError' = TRUE /\ UNCHANGED content
            BY <1>6 DEF WriteFileBlock
        <3> HIDE DEF bytes
        <3>2. bytes \in Jobs
            BY <1>2 DEF bytes
        <3> QED
            BY <3>1, <3>2
    <2> QED
        BY <1>3, <1>4, <1>6, <2>1, <2>2, <2>3, <2>4, <2>5 DEF WriteFileBlock, EventIds
<1>7. CASE RejectFileBlock
    <2>1. /\ globalJob' \in Jobs \cup {NoJob} /\ jobDoc' \in Messages
          /\ status' \in [Jobs -> {"none", "queued", "inProgress", "failed", "canceled"}]
          /\ BagToSet(net') \subseteq Messages
        BY <1>7, SendFailedMessageProperties DEF RejectFileBlock
    <2>2. /\ pc' = "failDelay" /\ current' = 0 /\ next' = 0 /\ bitmap' = {}
          /\ palError' \in BOOLEAN /\ events' = Tail(events)
        BY <1>7 DEF RejectFileBlock
    <2>3. UNCHANGED <<state, fields, signature, fileId, eventTopic, notifyTopic, stream,
                      remaining, handle, file, content, subs, resets>>
        BY <1>7 DEF RejectFileBlock
    <2> QED
        BY <1>3, <1>4, <2>1, <2>2, <2>3, SMTT(30) DEF EventIds
<1> QED
    BY <1>5, <1>6, <1>7

(* Every step preserves the types: what the agent does with a job document. *)
LEMMA DocumentTypeOK ==
    ASSUME TypeInv,
           \/ DropJobDocument \/ NoPendingJob \/ SameJobDocument
           \/ JobAccepted \/ FileCreateFailed \/ SubscriptionRefused \/ JobDocParseFailed
    PROVE  TypeOK'
<1> USE DEF TypeInv, TypeOK, taskVars, jobVars, loadVars, palVars, cloudVars
<1>1. Receive("ReceivedJobDocument") /\ last' = "ReceivedJobDocument"
    BY DEF DropJobDocument, NoPendingJob, SameJobDocument, JobAccepted, FileCreateFailed,
           SubscriptionRefused, JobDocParseFailed, NewJobDocument, ReceiveDocument, Receive
<1>2. Tail(events) \in Seq(Events) /\ Len(Tail(events)) <= MaxMessages
    BY <1>1, ReceiveProperties DEF EventIds, Receive
<1>3. \A other \in {"WaitForJob", "RequestFileBlock"} :
          /\ Send(Tail(events), Event(other)) \in Seq(Events)
          /\ Len(Send(Tail(events), Event(other))) <= MaxMessages
    BY <1>1, ReceiveAndSend DEF EventIds
<1>4. FreeAll(buffers) \in [Buffers -> [used : BOOLEAN, msg : Messages]]
    BY FreeAllProperties
<1>5. jobDoc.job \in Jobs \cup {NoJob}
    BY MessageProperties
<1>6. 0 \in 0 .. HandleLimit - 1 /\ (handle + 1) % HandleLimit \in 0 .. HandleLimit - 1
    OBVIOUS
<1>7. Erased \in [Blocks -> Jobs \cup {NoJob, Mixed}]
    BY DEF Erased
<1>8. CASE DropJobDocument
    BY <1>1, <1>2, <1>8 DEF DropJobDocument, EventIds
<1>9. CASE NoPendingJob
    <2>1. subs' \subseteq {"stream", "event", "notify"}
        BY <1>9, TopicsTyped DEF NoPendingJob
    <2> QED
        BY <1>1, <1>3, <1>6, <1>9, <2>1, ZenonT(60) DEF NoPendingJob, EventIds
<1>10. CASE SameJobDocument
    BY <1>1, <1>3, <1>6, <1>10 DEF SameJobDocument, EventIds
<1>11. CASE JobAccepted
    <2>1. events' \in Seq(Events) /\ Len(events') <= MaxMessages
        BY <1>3, <1>11 DEF JobAccepted
    <2>2. /\ globalJob' \in Jobs \cup {NoJob} /\ fields' \in Jobs \cup {NoJob}
          /\ eventTopic' \in Jobs \cup {NoJob} /\ stream' \in Jobs \cup {NoJob}
        BY <1>5, <1>11 DEF JobAccepted, InitMqttDownloader
    <2>3. /\ remaining' = NumBlocks /\ current' = 0 /\ next' = 0 /\ bitmap' = {}
          /\ subs' \subseteq {"stream", "event", "notify"}
        BY <1>11, TopicsTyped DEF JobAccepted, InitMqttDownloader
    <2>4. /\ fileId' = handle /\ handle' = (handle + 1) % HandleLimit
          /\ file' = "open" /\ palError' = FALSE /\ content' = Erased
        BY <1>11 DEF JobAccepted, CreateFileForRx
    <2>5. /\ buffers' = FreeAll(buffers) /\ signature' = TRUE /\ state' = "CreatingFile"
          /\ UNCHANGED <<pc, jobDoc, notifyTopic, net, status>>
        BY <1>11 DEF JobAccepted
    <2>6. {fileId', handle'} \subseteq 0 .. HandleLimit - 1
        BY <1>6, <2>4
    <2>7. content' \in [Blocks -> Jobs \cup {NoJob, Mixed}]
        BY <1>7, <2>4
    <2>8. /\ remaining' \in Int /\ remaining' <= NumBlocks
          /\ current' \in 0 .. NumBlocks /\ next' \in 0 .. NumBlocks
          /\ bitmap' \subseteq Blocks /\ subs' \subseteq {"stream", "event", "notify"}
        BY <2>3
    <2>9. /\ last' \in EventIds \cup {"Start"} /\ signature' \in BOOLEAN
          /\ palError' \in BOOLEAN /\ file' \in {"none", "open", "verified"}
          /\ buffers' \in [Buffers -> [used : BOOLEAN, msg : Messages]]
        BY <1>1, <1>4, <2>4, <2>5 DEF EventIds
    <2> QED
        BY <2>1, <2>2, <2>5, <2>6, <2>7, <2>8, <2>9
<1>12. CASE FileCreateFailed
    <2>1. /\ globalJob' \in Jobs \cup {NoJob} /\ fields' \in Jobs \cup {NoJob}
          /\ eventTopic' \in Jobs \cup {NoJob} /\ stream' \in Jobs \cup {NoJob}
        BY <1>5, <1>12 DEF FileCreateFailed, InitMqttDownloader
    <2>2. /\ remaining' = NumBlocks /\ current' = 0 /\ next' = 0 /\ bitmap' = {}
          /\ subs' \subseteq {"stream", "event", "notify"}
        BY <1>12, TopicsTyped DEF FileCreateFailed, InitMqttDownloader
    <2>3. /\ fileId' \in 0 .. HandleLimit - 1 /\ handle' \in 0 .. HandleLimit - 1
          /\ file' \in {"none", "open", "verified"} /\ palError' \in BOOLEAN
          /\ signature' \in BOOLEAN
        BY <1>6, <1>12 DEF FileCreateFailed
    <2>4. /\ buffers' = FreeAll(buffers) /\ events' = Tail(events)
          /\ UNCHANGED <<pc, state, jobDoc, notifyTopic, content, net, status>>
        BY <1>12 DEF FileCreateFailed
    <2> QED
        BY <1>1, <1>2, <1>4, <2>1, <2>2, <2>3, <2>4, SMTT(30) DEF EventIds
<1>13. CASE JobDocParseFailed
    <2>1. /\ globalJob' \in Jobs \cup {NoJob} /\ jobDoc' \in Messages
          /\ status' \in [Jobs -> {"none", "queued", "inProgress", "failed", "canceled"}]
          /\ BagToSet(net') \subseteq Messages
        BY <1>13, SendFailedMessageProperties DEF JobDocParseFailed
    <2> QED
        BY <1>1, <1>2, <1>4, <1>6, <1>13, <2>1, ZenonT(60) DEF JobDocParseFailed, EventIds
<1>14. CASE SubscriptionRefused
    BY <1>1, <1>14 DEF SubscriptionRefused, EventIds
<1> QED
    BY <1>8, <1>9, <1>10, <1>11, <1>12, <1>13, <1>14

(* Every step preserves the types: the other steps of the agent task. *)
LEMMA AgentTypeOK ==
    ASSUME TypeInv,
           \/ RequestJobDocument \/ WaitForJob \/ NotifyCanceled \/ RequestFileBlock
           \/ CloseFile \/ CloseFileFailed \/ ActivateImage \/ JobCanceled
           \/ RequestAfterFailure \/ CleanUpCanceledJob \/ Timeout \/ Reset
    PROVE  TypeOK'
<1> USE DEF TypeInv, TypeOK, taskVars, jobVars, loadVars, palVars, cloudVars
<1>1. ASSUME NEW name \in EventIds, Receive(name)
      PROVE  /\ Tail(events) \in Seq(Events) /\ Len(Tail(events)) <= MaxMessages
             /\ last' \in EventIds \cup {"Start"}
    BY <1>1, ReceiveProperties DEF Receive
<1>2. Event("RequestJobDocument") \in Events
    BY EventTyped DEF EventIds
<1>3. CASE RequestJobDocument
    <2>1. /\ events' \in Seq(Events) /\ Len(events') <= MaxMessages
          /\ last' \in EventIds \cup {"Start"}
        BY <1>1, <1>3 DEF RequestJobDocument, EventIds
    <2>2. NextJob \in Jobs \cup {NoJob}
        BY NextJobTyped
    <2>3. status' \in [Jobs -> {"none", "queued", "inProgress", "failed", "canceled"}]
        BY <1>3, <2>2 DEF RequestJobDocument
    <2>4. BagToSet(net') \subseteq Messages
        <3>1. UNCHANGED net \/ net' = net (+) SetToBag({Doc(NextJob)})
            BY <1>3 DEF RequestJobDocument
        <3>2. Doc(NextJob) \in Messages
            BY <2>2, MessageTyped
        <3>3. CASE UNCHANGED net
            BY <3>3 DEF BagToSet
        <3>4. CASE net' = net (+) SetToBag({Doc(NextJob)})
            <4>1. BagToSet(net') = BagToSet(net) \cup BagToSet(SetToBag({Doc(NextJob)}))
                BY <3>4, NetProperties
            <4>2. BagToSet(SetToBag({Doc(NextJob)})) = {Doc(NextJob)}
                BY SetToBagProperties
            <4> QED
                BY <3>2, <4>1, <4>2
        <3> QED
            BY <3>1, <3>3, <3>4
    <2> QED
        BY <1>3, <2>1, <2>3, <2>4 DEF RequestJobDocument
<1>4. CASE WaitForJob
    BY <1>1, <1>4 DEF WaitForJob, EventIds
<1>5. CASE NotifyCanceled
    <2>1. subs' \subseteq {"stream", "event", "notify"}
        BY <1>5, TopicsTyped DEF NotifyCanceled
    <2> QED
        BY <1>1, <1>5, <2>1 DEF NotifyCanceled, EventIds
<1>6. CASE RequestFileBlock
    <2>1. /\ events' \in Seq(Events) /\ Len(events') <= MaxMessages
          /\ last' \in EventIds \cup {"Start"}
        BY <1>1, <1>6 DEF RequestFileBlock, EventIds
    <2>2. next' \in 0 .. NumBlocks /\ BagToSet(net') \subseteq Messages
        BY <1>6, RequestDataBlockProperties DEF RequestFileBlock
    <2> QED
        BY <1>6, <2>1, <2>2 DEF RequestFileBlock
<1>7. CASE CloseFile
    <2>1. /\ events' \in Seq(Events) /\ Len(events') <= MaxMessages
          /\ last' \in EventIds \cup {"Start"}
        BY <1>1, <1>7, ReceiveAndSend DEF CloseFile, EventIds
    <2>2. subs' \subseteq {"stream", "event", "notify"}
        BY <1>7, TopicsTyped DEF CloseFile
    <2> QED
        BY <1>7, <2>1, <2>2 DEF CloseFile
<1>8. CASE CloseFileFailed
    <2>1. /\ events' \in Seq(Events) /\ Len(events') <= MaxMessages
          /\ last' \in EventIds \cup {"Start"}
        BY <1>1, <1>8 DEF CloseFileFailed, EventIds
    <2>2. /\ globalJob' \in Jobs \cup {NoJob} /\ jobDoc' \in Messages
          /\ status' \in [Jobs -> {"none", "queued", "inProgress", "failed", "canceled"}]
          /\ BagToSet(net') \subseteq Messages
        BY <1>8, SendFailedMessageProperties DEF CloseFileFailed
    <2> QED
        BY <1>8, <2>1, <2>2 DEF CloseFileFailed
<1>9. CASE ActivateImage
    BY <1>1, <1>9 DEF ActivateImage, EventIds
<1>10. CASE JobCanceled
    <2>1. last' \in EventIds \cup {"Start"}
        BY <1>1, <1>10 DEF JobCanceled, EventIds
    <2>2. subs' \subseteq {"stream", "event", "notify"}
        BY <1>10, TopicsTyped DEF JobCanceled
    <2> QED
        BY <1>10, <2>1, <2>2 DEF JobCanceled
<1>11. CASE RequestAfterFailure
    <2>1. events' \in Seq(Events) /\ Len(events') <= MaxMessages
        BY <1>2, <1>11, SendProperties DEF RequestAfterFailure
    <2> QED
        BY <1>11, <2>1 DEF RequestAfterFailure
<1>12. CASE CleanUpCanceledJob
    <2>1. events' \in Seq(Events) /\ Len(events') <= MaxMessages
        BY <1>2, <1>12, SendProperties DEF CleanUpCanceledJob
    <2>2. buffers' \in [Buffers -> [used : BOOLEAN, msg : Messages]]
        BY <1>12, FreeAllProperties DEF CleanUpCanceledJob
    <2>3. content' \in [Blocks -> Jobs \cup {NoJob, Mixed}] /\ jobDoc' \in Messages
        BY <1>12, MessageTyped DEF CleanUpCanceledJob, Erased
    <2> QED
        BY <1>12, <2>1, <2>2, <2>3 DEF CleanUpCanceledJob
<1>13. CASE Timeout
    <2>1. next' \in 0 .. NumBlocks /\ BagToSet(net') \subseteq Messages
        BY <1>13, RequestDataBlockProperties DEF Timeout
    <2> QED
        BY <1>13, <2>1 DEF Timeout
<1>14. CASE Reset
    <2>1. events' \in Seq(Events) /\ Len(events') <= MaxMessages
        BY <1>2, <1>14 DEF Reset
    <2>2. buffers' \in [Buffers -> [used : BOOLEAN, msg : Messages]] /\ jobDoc' \in Messages
        BY <1>14, MessageTyped DEF Reset, Free
    <2>3. BagToSet(net') \subseteq Messages
        BY <1>14, SetToBagProperties DEF Reset
    <2>4. /\ globalJob' = 0 /\ fields' = 0 /\ eventTopic' = 0 /\ stream' = 0
          /\ fileId' = 0 /\ handle' = 0 /\ remaining' = 0 /\ current' = 0 /\ next' = 0
          /\ bitmap' = {} /\ subs' = {} /\ UNCHANGED <<content, status>>
        BY <1>14 DEF Reset
    <2>5. /\ pc' = "loop" /\ state' = "Init" /\ last' = "Start" /\ file' = "none"
          /\ notifyTopic' = FALSE /\ signature' = FALSE /\ palError' = FALSE
        BY <1>14 DEF Reset
    <2>6. /\ {globalJob', fields', eventTopic', stream'} \subseteq Jobs \cup {NoJob}
          /\ {fileId', handle'} \subseteq 0 .. HandleLimit - 1
          /\ remaining' \in Int /\ remaining' <= NumBlocks
          /\ current' \in 0 .. NumBlocks /\ next' \in 0 .. NumBlocks
        BY <2>4
    <2> QED
        BY <2>1, <2>2, <2>3, <2>4, <2>5, <2>6
<1> QED
    BY <1>3, <1>4, <1>5, <1>6, <1>7, <1>8, <1>9, <1>10, <1>11, <1>12, <1>13, <1>14

(* Every step preserves the types. *)
LEMMA NextTypeOK == TypeInv /\ [Next]_vars => TypeOK'
<1>1. ASSUME TypeInv, UNCHANGED vars PROVE TypeOK'
    BY <1>1 DEF TypeInv, TypeOK, vars, taskVars, jobVars, loadVars, palVars, cloudVars, BagToSet
<1> QED
    BY <1>1, CloudTypeOK, BlockTypeOK, DocumentTypeOK, AgentTypeOK
       DEF Next, AgentTask, HandleEvent

------------------------------------------------------------------------------
(* What each step does to the event queue *)

(* The queue loses its first n events, and gets events of the given names. *)
QueueStep(n, ids) ==
    /\ \A i \in 1 .. Len(events) - n : i <= Len(events') /\ events'[i] = events[i + n]
    /\ \A i \in 1 .. Len(events') : i <= Len(events) - n \/ events'[i].id \in ids

(* The first event is taken. *)
LEMMA Received ==
    ASSUME TypeOK, NEW name \in EventIds, Receive(name), events' = Tail(events)
    PROVE  QueueStep(1, {})
BY ReceiveProperties DEF QueueStep

(* The first event is taken, and another one sent. *)
LEMMA ReceivedAndSent ==
    ASSUME TypeOK, NEW name \in EventIds, Receive(name),
           NEW other \in EventIds \ {"ReceivedFileBlock"},
           events' = Send(Tail(events), Event(other))
    PROVE  QueueStep(1, {other})
<1> DEFINE rest == Tail(events)
           e == Event(other)
<1>1. /\ rest \in Seq(Events) /\ Len(rest) + 1 = Len(events)
      /\ Len(rest) < MaxMessages /\ Len(rest) \in Nat /\ Len(rest) <= MaxMessages
      /\ \A i \in 1 .. Len(rest) : rest[i] = events[i + 1]
    <2>1. /\ rest \in Seq(Events) /\ Len(rest) + 1 = Len(events) /\ Len(rest) < MaxMessages
          /\ \A i \in 1 .. Len(rest) : rest[i] = events[i + 1]
        BY ReceiveProperties
    <2> HIDE DEF rest
    <2> QED
        BY <2>1
<1>2. e \in Events /\ e.id = other /\ events' = Send(rest, e)
    BY EventTyped
<1> HIDE DEF rest, e
<1>3. /\ Len(events') = Len(rest) + 1
      /\ \A i \in 1 .. Len(rest) : events'[i] = rest[i]
      /\ events'[Len(rest) + 1].id = other
    <2>1. /\ rest \in Seq(Events) /\ Len(rest) <= MaxMessages
          /\ Len(rest) < MaxMessages /\ Len(rest) \in Nat
        BY <1>1
    <2>2. \A i \in 1 .. Len(rest) : Send(rest, e)[i] = rest[i]
        BY <1>2, <2>1, SendProperties
    <2>3. /\ Len(Send(rest, e)) = Len(rest) + 1
          /\ Send(rest, e)[Len(rest) + 1] = e
        BY <1>2, <2>1, SendProperties
    <2> QED
        BY <1>2, <2>2, <2>3
<1>4. Len(events) - 1 = Len(rest)
    BY <1>1
<1>5. \A i \in 1 .. Len(events) - 1 : i <= Len(events') /\ events'[i] = events[i + 1]
    BY <1>1, <1>3, <1>4
<1>6. \A i \in 1 .. Len(events') : i <= Len(events) - 1 \/ events'[i].id \in {other}
    BY <1>1, <1>3, <1>4
<1> QED
    BY <1>5, <1>6 DEF QueueStep

(* An event is sent. *)
LEMMA Sent ==
    ASSUME TypeOK, NEW e \in Events, events' = Send(events, e)
    PROVE  QueueStep(0, {e.id})
<1>1. events \in Seq(Events) /\ Len(events) <= MaxMessages
    BY DEF TypeOK
<1>2. /\ Len(events') \in {Len(events), Len(events) + 1}
      /\ \A i \in 1 .. Len(events) : events'[i] = events[i]
      /\ Len(events') = Len(events) + 1 => events'[Len(events) + 1] = e
    BY <1>1, SendProperties, ZenonT(60)
<1> QED
    BY <1>1, <1>2 DEF QueueStep

(* The queue is left alone. *)
LEMMA Unqueued ==
    ASSUME TypeOK, UNCHANGED events
    PROVE  QueueStep(0, {})
BY DEF QueueStep, TypeOK

(* A notification queues two events, the second only after the first. *)
LEMMA NotifiedQueue ==
    ASSUME TypeOK, NEW m, NotifyArrived(m)
    PROVE  /\ QueueStep(0, {"NotifyCanceled", "RequestJobDocument"})
           /\ \A i \in 1 .. Len(events') :
                  i > Len(events) /\ events'[i].id = "RequestJobDocument" =>
                      i > Len(events) + 1 /\ events'[i - 1].id = "NotifyCanceled"
<1> DEFINE canceled == Event("NotifyCanceled")
           first == Send(events, canceled)
           request == Event("RequestJobDocument")
<1>1. events \in Seq(Events) /\ Len(events) \in Nat /\ Len(events) <= MaxMessages
    BY DEF TypeOK
<1>2. /\ canceled \in Events /\ canceled.id = "NotifyCanceled"
      /\ request \in Events /\ request.id = "RequestJobDocument"
    BY EventTyped DEF EventIds
<1>3. events' = Send(first, request)
    BY DEF NotifyArrived
<1> HIDE DEF canceled, request
<1>4. /\ first \in Seq(Events) /\ Len(first) <= MaxMessages
      /\ Len(first) \in {Len(events), Len(events) + 1}
      /\ \A i \in 1 .. Len(events) : first[i] = events[i]
      /\ Len(first) = Len(events) + 1 => first[Len(events) + 1] = canceled
      /\ Len(events) < MaxMessages => Len(first) = Len(events) + 1
    BY <1>1, <1>2, SendProperties
<1> HIDE DEF first
<1>5. /\ Len(events') \in {Len(first), Len(first) + 1} /\ Len(events') <= MaxMessages
      /\ \A i \in 1 .. Len(first) : events'[i] = first[i]
      /\ Len(events') = Len(first) + 1 => events'[Len(first) + 1] = request
    BY <1>2, <1>3, <1>4, SendProperties, ZenonT(60)
<1>6. CASE Len(first) = Len(events)
    BY <1>1, <1>4, <1>5, <1>6 DEF QueueStep
<1>7. CASE Len(first) = Len(events) + 1
    <2>1. \A i \in 1 .. Len(events) : i <= Len(events') /\ events'[i] = events[i]
        BY <1>1, <1>4, <1>5, <1>7
    <2>2. events'[Len(events) + 1].id = "NotifyCanceled"
        BY <1>1, <1>2, <1>4, <1>5, <1>7
    <2>3. Len(events') = Len(events) + 2 => events'[Len(events) + 2].id = "RequestJobDocument"
        BY <1>1, <1>2, <1>5, <1>7
    <2>4. Len(events') \in {Len(events) + 1, Len(events) + 2}
        BY <1>1, <1>5, <1>7
    <2>5. \A i \in 1 .. Len(events') : \/ i <= Len(events) \/ i = Len(events) + 1
                                       \/ i = Len(events) + 2 /\ Len(events') = Len(events) + 2
        BY <1>1, <2>4
    <2>6. "NotifyCanceled" # "RequestJobDocument"
        OBVIOUS
    <2>7. QueueStep(0, {"NotifyCanceled", "RequestJobDocument"})
        BY <1>1, <2>1, <2>2, <2>3, <2>5 DEF QueueStep
    <2>8. ASSUME NEW i \in 1 .. Len(events'), i > Len(events),
                 events'[i].id = "RequestJobDocument"
          PROVE  i > Len(events) + 1 /\ events'[i - 1].id = "NotifyCanceled"
        <3>1. i = Len(events) + 2
            BY <1>1, <2>2, <2>5, <2>6, <2>8
        <3> QED
            BY <1>1, <2>2, <3>1
    <2> QED
        BY <2>7, <2>8
<1> QED
    BY <1>4, <1>6, <1>7

(* The events of each handler. *)
LEMMA HandlerQueue ==
    ASSUME TypeInv
    PROVE  /\ \/ RequestJobDocument \/ WaitForJob \/ NotifyCanceled \/ DropJobDocument
              \/ FileCreateFailed \/ JobDocParseFailed \/ RequestFileBlock \/ IgnoreFileBlock
              \/ RejectFileBlock \/ CloseFileFailed \/ ActivateImage
              => QueueStep(1, {})
           /\ NoPendingJob => QueueStep(1, {"WaitForJob"})
           /\ SameJobDocument \/ JobAccepted => QueueStep(1, {"RequestFileBlock"})
           /\ CloseFile => QueueStep(1, {"ActivateImage"})
           /\ SubscriptionRefused => QueueStep(0, {})
<1> USE DEF TypeInv
<1> DEFINE taking ==
               \/ RequestJobDocument \/ WaitForJob \/ NotifyCanceled \/ DropJobDocument
               \/ FileCreateFailed \/ JobDocParseFailed \/ RequestFileBlock \/ IgnoreFileBlock
               \/ RejectFileBlock \/ CloseFileFailed \/ ActivateImage
<1>1. taking => events' = Tail(events) /\ \E name \in EventIds : Receive(name)
    <2>1. \/ RequestJobDocument \/ WaitForJob \/ NotifyCanceled
          \/ RequestFileBlock \/ CloseFileFailed \/ ActivateImage
          => events' = Tail(events) /\ \E name \in EventIds : Receive(name)
        BY DEF RequestJobDocument, WaitForJob, NotifyCanceled, RequestFileBlock, CloseFileFailed,
               ActivateImage, EventIds
    <2>2. DropJobDocument \/ FileCreateFailed \/ JobDocParseFailed
          => events' = Tail(events) /\ \E name \in EventIds : Receive(name)
        BY DEF DropJobDocument, FileCreateFailed, JobDocParseFailed, NewJobDocument,
               ReceiveDocument, EventIds
    <2>3. IgnoreFileBlock \/ RejectFileBlock
          => events' = Tail(events) /\ \E name \in EventIds : Receive(name)
        BY DEF IgnoreFileBlock, RejectFileBlock, ReceiveFileBlock, EventIds
    <2> QED
        BY <2>1, <2>2, <2>3
<1>2. taking => QueueStep(1, {})
    BY <1>1, Received
<1>3. NoPendingJob => QueueStep(1, {"WaitForJob"})
    <2> SUFFICES ASSUME NoPendingJob PROVE QueueStep(1, {"WaitForJob"})
        OBVIOUS
    <2>1. /\ Receive("ReceivedJobDocument") /\ events' = Send(Tail(events), Event("WaitForJob"))
          /\ "ReceivedJobDocument" \in EventIds
          /\ "WaitForJob" \in EventIds \ {"ReceivedFileBlock"}
        BY DEF NoPendingJob, ReceiveDocument, EventIds
    <2> QED
        BY <2>1, ReceivedAndSent
<1>4. SameJobDocument \/ JobAccepted => QueueStep(1, {"RequestFileBlock"})
    <2> SUFFICES ASSUME SameJobDocument \/ JobAccepted PROVE QueueStep(1, {"RequestFileBlock"})
        OBVIOUS
    <2>1. /\ Receive("ReceivedJobDocument")
          /\ events' = Send(Tail(events), Event("RequestFileBlock"))
          /\ "ReceivedJobDocument" \in EventIds
          /\ "RequestFileBlock" \in EventIds \ {"ReceivedFileBlock"}
        BY DEF SameJobDocument, JobAccepted, NewJobDocument, ReceiveDocument, EventIds
    <2> QED
        BY <2>1, ReceivedAndSent
<1>5. CloseFile => QueueStep(1, {"ActivateImage"})
    <2> SUFFICES ASSUME CloseFile PROVE QueueStep(1, {"ActivateImage"})
        OBVIOUS
    <2>1. /\ Receive("CloseFile") /\ events' = Send(Tail(events), Event("ActivateImage"))
          /\ "CloseFile" \in EventIds
          /\ "ActivateImage" \in EventIds \ {"ReceivedFileBlock"}
        BY DEF CloseFile, EventIds
    <2> QED
        BY <2>1, ReceivedAndSent
<1>6. SubscriptionRefused => QueueStep(0, {})
    BY Unqueued DEF SubscriptionRefused
<1> QED
    BY <1>2, <1>3, <1>4, <1>5, <1>6

(* The event that a block which is written sends, if any. *)
LEMMA WrittenQueue ==
    ASSUME TypeInv, WriteFileBlock
    PROVE  \/ remaining' = 0 /\ QueueStep(1, {"CloseFile"})
           \/ remaining' # 0 /\ QueueStep(1, {"RequestFileBlock"})
<1> USE DEF TypeInv
<1>1. Receive("ReceivedFileBlock")
    BY DEF WriteFileBlock, ReceiveFileBlock
<1>2. \/ remaining' = 0 /\ events' = Send(Tail(events), Event("CloseFile"))
      \/ /\ remaining' # 0
         /\ events' = Send(Tail(events), Event("RequestFileBlock"))
      \/ remaining' # 0 /\ events' = Tail(events)
    BY DEF WriteFileBlock
<1>3. /\ "ReceivedFileBlock" \in EventIds
      /\ "CloseFile" \in EventIds \ {"ReceivedFileBlock"}
      /\ "RequestFileBlock" \in EventIds \ {"ReceivedFileBlock"}
    BY DEF EventIds
<1>4. CASE remaining' = 0 /\ events' = Send(Tail(events), Event("CloseFile"))
    BY <1>1, <1>3, <1>4, ReceivedAndSent
<1>5. CASE remaining' # 0 /\ events' = Send(Tail(events), Event("RequestFileBlock"))
    BY <1>1, <1>3, <1>5, ReceivedAndSent
<1>6. CASE remaining' # 0 /\ events' = Tail(events)
    <2>1. QueueStep(1, {})
        BY <1>1, <1>3, <1>6, Received
    <2> QED
        BY <1>6, <2>1 DEF QueueStep
<1> QED
    BY <1>2, <1>4, <1>5, <1>6

(* The events of the other steps. *)
LEMMA OtherQueue ==
    ASSUME TypeInv
    PROVE  /\ Timeout \/ Cloud => QueueStep(0, {})
           /\ \A m : Ignore(m) => QueueStep(0, {})
           /\ \A m : JobDocumentArrived(m) => QueueStep(0, {"ReceivedJobDocument"})
           /\ \A m : CancelArrived(m) => QueueStep(0, {"JobCanceled"})
           /\ RequestAfterFailure \/ CleanUpCanceledJob => QueueStep(0, {"RequestJobDocument"})
           /\ JobCanceled => events' = <<>>
           /\ Reset => events' = <<Event("RequestJobDocument")>>
<1> USE DEF TypeInv
<1>1. Timeout \/ Cloud => UNCHANGED events
    BY DEF Timeout, Cloud, CreateJob, CancelJob, Lose, LoseSession, taskVars
<1>2. \A m : Ignore(m) => UNCHANGED events
    BY DEF Ignore, taskVars
<1>3. \A name \in {"ReceivedJobDocument", "JobCanceled", "RequestJobDocument"} :
          Event(name) \in Events /\ Event(name).id = name
    BY EventTyped DEF EventIds
<1>4. \A m : JobDocumentArrived(m) => QueueStep(0, {"ReceivedJobDocument"})
    BY <1>3, Sent DEF JobDocumentArrived
<1>5. \A m : CancelArrived(m) => QueueStep(0, {"JobCanceled"})
    BY <1>3, Sent DEF CancelArrived
<1>6. RequestAfterFailure \/ CleanUpCanceledJob => QueueStep(0, {"RequestJobDocument"})
    BY <1>3, Sent DEF RequestAfterFailure, CleanUpCanceledJob
<1> QED
    BY <1>1, <1>2, <1>4, <1>5, <1>6, Unqueued DEF JobCanceled, Reset

(* The message of a block, in the first free buffer. *)
LEMMA BlockArrivedQueue ==
    ASSUME TypeInv, NEW m \in BagToSet(net), BlockArrived(m)
    PROVE  \/ UNCHANGED <<buffers, events>>
           \/ \E first \in Buffers :
                 /\ ~buffers[first].used
                 /\ buffers' = [buffers EXCEPT ![first] = [used |-> TRUE, msg |-> m]]
                 /\ QueueStep(0, {"ReceivedFileBlock"})
                 /\ \A i \in 1 .. Len(events') : i > Len(events) =>
                       events'[i] = [id |-> "ReceivedFileBlock", buffer |-> first]
                 /\ Len(events') <= Len(events) + 1
                 /\ Len(events) < MaxMessages => Len(events') = Len(events) + 1
<1> DEFINE free == {i \in Buffers : ~buffers[i].used}
           first == CHOOSE i \in free : \A k \in free : i <= k
           e == [id |-> "ReceivedFileBlock", buffer |-> first]
<1> SUFFICES ASSUME free # {}
             PROVE  /\ first \in Buffers /\ ~buffers[first].used
                    /\ buffers' = [buffers EXCEPT ![first] = [used |-> TRUE, msg |-> m]]
                    /\ QueueStep(0, {"ReceivedFileBlock"})
                    /\ \A i \in 1 .. Len(events') : i > Len(events) => events'[i] = e
                    /\ Len(events') <= Len(events) + 1
                    /\ Len(events) < MaxMessages => Len(events') = Len(events) + 1
    BY DEF BlockArrived
<1>1. first \in free
    <2>1. NumBuffers \in Nat /\ free \in SUBSET (1 .. NumBuffers)
        OBVIOUS
    <2> QED
        BY <2>1, LeastChosen
<1>2. /\ buffers' = [buffers EXCEPT ![first] = [used |-> TRUE, msg |-> m]]
      /\ events' = Send(events, e)
    BY DEF BlockArrived
<1>3. first \in Buffers /\ ~buffers[first].used
    BY <1>1
<1> HIDE DEF first
<1>4. e \in Events /\ e.id = "ReceivedFileBlock"
    BY <1>3 DEF Events
<1> HIDE DEF e
<1>5. events \in Seq(Events) /\ Len(events) \in Nat /\ Len(events) <= MaxMessages
    BY DEF TypeInv, TypeOK
<1>6. /\ Len(events') \in {Len(events), Len(events) + 1}
      /\ Len(events') = Len(events) + 1 => events'[Len(events) + 1] = e
      /\ Len(events) < MaxMessages => Len(events') = Len(events) + 1
    BY <1>2, <1>4, <1>5, SendProperties
<1>7. \A i \in 1 .. Len(events') : i > Len(events) => events'[i] = e
    BY <1>5, <1>6
<1>8. QueueStep(0, {"ReceivedFileBlock"})
    BY <1>2, <1>4, <1>5, Sent DEF TypeInv
<1> QED
    BY <1>2, <1>3, <1>5, <1>6, <1>7, <1>8

------------------------------------------------------------------------------
(* The types hold in every state *)

(* jobFields is cleared, or filled with the job whose stream is set up with it. *)
LEMMA NextFieldsOfStream == TypeInv /\ [Next]_vars => FieldsOfStream'
<1> SUFFICES ASSUME TypeInv, [Next]_vars PROVE FieldsOfStream'
    OBVIOUS
<1> USE DEF TypeInv, FieldsOfStream, taskVars, jobVars, loadVars, palVars, cloudVars
<1>1. CASE UNCHANGED vars
    BY <1>1 DEF vars
<1>2. CASE \/ DropJobDocument \/ NoPendingJob \/ SameJobDocument \/ SubscriptionRefused
           \/ JobDocParseFailed \/ Reset
    BY <1>2 DEF DropJobDocument, NoPendingJob, SameJobDocument, SubscriptionRefused,
                JobDocParseFailed, Reset
<1>3. CASE JobAccepted \/ FileCreateFailed
    <2>1. /\ fields' = jobDoc.job /\ stream' = jobDoc.job /\ jobDoc.job # NoJob
        BY <1>3 DEF JobAccepted, FileCreateFailed, NewJobDocument, InitMqttDownloader
    <2> QED
        BY <2>1
<1>4. CASE \/ RequestJobDocument \/ WaitForJob \/ NotifyCanceled \/ RequestFileBlock
           \/ IgnoreFileBlock \/ WriteFileBlock \/ RejectFileBlock
    BY <1>4 DEF RequestJobDocument, WaitForJob, NotifyCanceled, RequestFileBlock, IgnoreFileBlock,
                WriteFileBlock, RejectFileBlock
<1>5. CASE \/ CloseFile \/ CloseFileFailed \/ ActivateImage \/ JobCanceled
           \/ RequestAfterFailure \/ CleanUpCanceledJob \/ Timeout
    BY <1>5 DEF CloseFile, CloseFileFailed, ActivateImage, JobCanceled, RequestAfterFailure,
                CleanUpCanceledJob, Timeout
<1>6. CASE MQTTAgentTask
    BY <1>6 DEF MQTTAgentTask, Deliver, Ignore, BlockArrived, NotifyArrived, JobDocumentArrived,
                CancelArrived
<1>7. CASE Cloud
    <2>1. UNCHANGED <<fields, signature, stream>>
        BY <1>7 DEF Cloud, CreateJob, CancelJob, Lose, LoseSession
    <2> QED
        BY <2>1
<1> QED
    BY <1>1, <1>2, <1>3, <1>4, <1>5, <1>6, <1>7 DEF Next, AgentTask, HandleEvent

(* What the buffers hold is left alone. *)
MessagesKept == \A b \in Buffers : buffers'[b].msg = buffers[b].msg

(* The agent changes no message in a buffer. *)
LEMMA MessagesKeptByAgent ==
    ASSUME TypeInv, AgentTask
    PROVE  MessagesKept
<1> USE DEF TypeInv
<1>1. CASE \/ RequestJobDocument \/ WaitForJob \/ NotifyCanceled \/ DropJobDocument
           \/ NoPendingJob \/ SameJobDocument \/ SubscriptionRefused \/ RequestFileBlock
           \/ CloseFile \/ CloseFileFailed \/ ActivateImage \/ JobCanceled
           \/ RequestAfterFailure \/ Timeout
    BY <1>1 DEF SubscriptionRefused, RequestJobDocument, WaitForJob, NotifyCanceled, DropJobDocument, NoPendingJob,
                SameJobDocument, RequestFileBlock, CloseFile, CloseFileFailed, ActivateImage,
                JobCanceled, RequestAfterFailure, Timeout, MessagesKept
<1>2. CASE JobAccepted \/ FileCreateFailed \/ JobDocParseFailed \/ CleanUpCanceledJob
    <2>1. buffers' = FreeAll(buffers)
        BY <1>2 DEF JobAccepted, FileCreateFailed, JobDocParseFailed, CleanUpCanceledJob
    <2>2. \A i \in Buffers : FreeAll(buffers)[i].msg = buffers[i].msg
        BY FreeAllProperties
    <2> QED
        BY <2>1, <2>2 DEF MessagesKept
<1>3. CASE IgnoreFileBlock \/ WriteFileBlock \/ RejectFileBlock
    <2>1. /\ Receive("ReceivedFileBlock")
          /\ buffers' = [buffers EXCEPT ![received].used = FALSE]
        BY <1>3 DEF IgnoreFileBlock, WriteFileBlock, RejectFileBlock, ReceiveFileBlock
    <2>2. received \in Buffers
        BY <2>1, ReceivedIsBlock
    <2>3. buffers \in [Buffers -> [used : BOOLEAN, msg : Messages]]
        BY DEF TypeOK
    <2>4. ASSUME NEW b \in Buffers PROVE buffers'[b].msg = buffers[b].msg
        BY <2>1, <2>2, <2>3
    <2> QED
        BY <2>4 DEF MessagesKept
<1> QED
    BY <1>1, <1>2, <1>3 DEF AgentTask, HandleEvent

(* Only the arrival of a block changes what a buffer holds. *)
LEMMA BuffersKept ==
    ASSUME \/ Cloud
           \/ \E m : \/ Ignore(m) \/ NotifyArrived(m) \/ JobDocumentArrived(m)
                     \/ CancelArrived(m)
    PROVE  UNCHANGED buffers /\ MessagesKept
<1>1. UNCHANGED buffers
    BY DEF Cloud, CreateJob, CancelJob, Lose, LoseSession, Ignore, NotifyArrived, JobDocumentArrived,
           CancelArrived
<1> QED
    BY <1>1 DEF MessagesKept

(* No block is queued with a step that queues other events only. *)
LEMMA QueueKeepsBlocks ==
    ASSUME TypeInv, NEW n \in Nat, NEW ids, QueueStep(n, ids), "ReceivedFileBlock" \notin ids,
           MessagesKept
    PROVE  EventsHoldBlocks'
<1> SUFFICES ASSUME NEW i \in BlockEvents'
             PROVE  buffers'[events'[i].buffer].msg.type = "block"
    BY DEF EventsHoldBlocks
<1>1. i \in 1 .. Len(events') /\ events'[i].id = "ReceivedFileBlock"
    BY DEF BlockEvents
<1>2. Len(events) \in Nat /\ events \in Seq(Events)
    BY DEF TypeInv, TypeOK
<1>3. /\ i \in 1 .. Len(events) - n /\ events'[i] = events[i + n]
      /\ i + n \in 1 .. Len(events)
    BY <1>1, <1>2 DEF QueueStep
<1>4. i + n \in BlockEvents
    BY <1>1, <1>3 DEF BlockEvents
<1>5. events[i + n] \in Events
    BY <1>2, <1>3, QueuedIsEvent
<1>6. events[i + n].buffer \in Buffers
    BY <1>1, <1>3, <1>5 DEF Events
<1>7. buffers[events[i + n].buffer].msg.type = "block"
    BY <1>4 DEF TypeInv, EventsHoldBlocks
<1> QED
    BY <1>3, <1>6, <1>7 DEF MessagesKept

(* The step of the agent, as its queue sees it. *)
LEMMA AgentQueue ==
    ASSUME TypeInv, AgentTask
    PROVE  \/ events' = <<>>
           \/ \E n \in {0, 1} : QueueStep(n, {"RequestJobDocument", "WaitForJob", "RequestFileBlock",
                                              "CloseFile", "ActivateImage"})
<1> DEFINE ids == {"RequestJobDocument", "WaitForJob", "RequestFileBlock", "CloseFile",
                   "ActivateImage"}
<1>1. ASSUME NEW n \in {0, 1}, NEW some \in SUBSET ids, QueueStep(n, some)
      PROVE  QueueStep(n, ids)
    BY <1>1 DEF QueueStep
<1>2. /\ {} \in SUBSET ids /\ {"WaitForJob"} \in SUBSET ids /\ {"RequestFileBlock"} \in SUBSET ids
      /\ {"CloseFile"} \in SUBSET ids /\ {"ActivateImage"} \in SUBSET ids
      /\ {"RequestJobDocument"} \in SUBSET ids
    OBVIOUS
<1> HIDE DEF ids
<1> SUFFICES events' = <<>> \/ \E n \in {0, 1}, some \in SUBSET ids : QueueStep(n, some)
    BY <1>1 DEF ids
<1>3. CASE \/ RequestJobDocument \/ WaitForJob \/ NotifyCanceled \/ DropJobDocument
           \/ FileCreateFailed \/ JobDocParseFailed \/ RequestFileBlock \/ IgnoreFileBlock
           \/ RejectFileBlock \/ CloseFileFailed \/ ActivateImage
    <2>1. QueueStep(1, {})
        BY <1>3, HandlerQueue
    <2> QED
        BY <1>2, <2>1
<1>4. CASE NoPendingJob \/ SameJobDocument \/ JobAccepted \/ CloseFile \/ SubscriptionRefused
    BY <1>2, <1>4, HandlerQueue
<1>5. CASE WriteFileBlock
    BY <1>2, <1>5, WrittenQueue
<1>6. CASE RequestAfterFailure \/ CleanUpCanceledJob \/ Timeout \/ JobCanceled
    BY <1>2, <1>6, OtherQueue
<1> QED
    BY <1>3, <1>4, <1>5, <1>6 DEF AgentTask, HandleEvent

(* The buffer of an event holds a block after every step. *)
LEMMA NextEventsHoldBlocks == TypeInv /\ [Next]_vars => EventsHoldBlocks'
<1> SUFFICES ASSUME TypeInv, [Next]_vars PROVE EventsHoldBlocks'
    OBVIOUS
<1>1. CASE AgentTask
    <2>1. CASE events' = <<>>
        BY <2>1 DEF EventsHoldBlocks, BlockEvents
    <2>2. ASSUME NEW n \in {0, 1},
                 QueueStep(n, {"RequestJobDocument", "WaitForJob", "RequestFileBlock", "CloseFile",
                               "ActivateImage"})
          PROVE  EventsHoldBlocks'
        <3>1. MessagesKept /\ n \in Nat
            BY <1>1, MessagesKeptByAgent
        <3> QED
            BY <2>2, <3>1, QueueKeepsBlocks
    <2> QED
        BY <1>1, <2>1, <2>2, AgentQueue
<1>2. CASE Cloud
    <2>1. QueueStep(0, {}) /\ MessagesKept
        BY <1>2, OtherQueue, BuffersKept
    <2> QED
        BY <2>1, QueueKeepsBlocks
<1>3. ASSUME NEW m \in BagToSet(net), Deliver(m) PROVE EventsHoldBlocks'
    <2>1. CASE Ignore(m) \/ NotifyArrived(m) \/ JobDocumentArrived(m) \/ CancelArrived(m)
        <3>1. MessagesKept
            BY <2>1, BuffersKept
        <3>2. \/ QueueStep(0, {}) \/ QueueStep(0, {"ReceivedJobDocument"})
              \/ QueueStep(0, {"JobCanceled"})
              \/ QueueStep(0, {"NotifyCanceled", "RequestJobDocument"})
            BY <2>1, OtherQueue, NotifiedQueue DEF TypeInv
        <3> QED
            BY <3>1, <3>2, QueueKeepsBlocks
    <2>2. CASE BlockArrived(m)
        <3>1. CASE UNCHANGED <<buffers, events>>
            BY <3>1 DEF EventsHoldBlocks, BlockEvents, TypeInv
        <3>2. ASSUME NEW first \in Buffers,
                     buffers' = [buffers EXCEPT ![first] = [used |-> TRUE, msg |-> m]],
                     QueueStep(0, {"ReceivedFileBlock"}),
                     \A i \in 1 .. Len(events') : i > Len(events) =>
                        events'[i] = [id |-> "ReceivedFileBlock", buffer |-> first]
              PROVE  EventsHoldBlocks'
            <4> SUFFICES ASSUME NEW i \in BlockEvents'
                         PROVE  buffers'[events'[i].buffer].msg.type = "block"
                BY DEF EventsHoldBlocks
            <4>1. i \in 1 .. Len(events') /\ events'[i].id = "ReceivedFileBlock"
                BY DEF BlockEvents
            <4>2. m.type = "block"
                BY <2>2 DEF BlockArrived
            <4>3. /\ Len(events) \in Nat /\ events \in Seq(Events)
                  /\ buffers \in [Buffers -> [used : BOOLEAN, msg : Messages]]
                BY DEF TypeInv, TypeOK
            <4>4. CASE i > Len(events)
                <5>1. events'[i].buffer = first
                    BY <3>2, <4>1, <4>4
                <5> QED
                    BY <3>2, <4>2, <4>3, <5>1
            <4>5. CASE i <= Len(events)
                <5>1. i \in 1 .. Len(events) /\ events'[i] = events[i]
                    BY <3>2, <4>1, <4>3, <4>5 DEF QueueStep
                <5>2. i \in BlockEvents /\ events[i] \in Events
                    BY <4>1, <4>3, <5>1, QueuedIsEvent DEF BlockEvents
                <5>3. /\ events[i].buffer \in Buffers
                      /\ buffers[events[i].buffer].msg.type = "block"
                    BY <4>1, <5>1, <5>2 DEF Events, TypeInv, EventsHoldBlocks
                <5> QED
                    BY <3>2, <4>2, <4>3, <5>1, <5>3
            <4> QED
                BY <4>1, <4>3, <4>4, <4>5
        <3> QED
            BY <2>2, <3>1, <3>2, BlockArrivedQueue
    <2> QED
        BY <1>3, <2>1, <2>2 DEF Deliver
<1>4. CASE Reset
    <2>1. events' = <<Event("RequestJobDocument")>>
        BY <1>4, OtherQueue
    <2> QED
        BY <2>1 DEF EventsHoldBlocks, BlockEvents, Event
<1>5. CASE UNCHANGED vars
    BY <1>5 DEF vars, taskVars, EventsHoldBlocks, BlockEvents, TypeInv
<1> QED
    BY <1>1, <1>2, <1>3, <1>4, <1>5 DEF Next, MQTTAgentTask

(* The initial states have the types. *)
LEMMA InitTypeInv == Init => TypeInv
<1> SUFFICES ASSUME Init PROVE TypeInv
    OBVIOUS
<1>1. events = <<Event("RequestJobDocument")>> /\ Event("RequestJobDocument") \in Events
    BY EventTyped DEF Init, DeviceInit, EventIds
<1>2. events \in Seq(Events) /\ Len(events) <= MaxMessages
    BY <1>1
<1>3. /\ buffers \in [Buffers -> [used : BOOLEAN, msg : Messages]] /\ jobDoc \in Messages
      /\ BagToSet(net) \subseteq Messages
    BY MessageTyped, SetToBagProperties DEF Init, DeviceInit, Free
<1>4. /\ globalJob = 0 /\ fields = 0 /\ eventTopic = 0 /\ stream = 0 /\ fileId = 0 /\ handle = 0
      /\ remaining = 0 /\ current = 0 /\ next = 0 /\ bitmap = {} /\ subs = {}
    BY DEF Init, DeviceInit
<1>5. /\ {globalJob, fields, eventTopic, stream} \subseteq Jobs \cup {NoJob}
      /\ {fileId, handle} \subseteq 0 .. HandleLimit - 1
      /\ remaining \in Int /\ remaining <= NumBlocks
      /\ current \in 0 .. NumBlocks /\ next \in 0 .. NumBlocks
    BY <1>4
<1>6. /\ pc = "loop" /\ state = "Init" /\ last = "Start" /\ file = "none"
      /\ notifyTopic = FALSE /\ signature = FALSE /\ palError = FALSE
    BY DEF Init, DeviceInit
<1>7. /\ content \in [Blocks -> Jobs \cup {NoJob, Mixed}]
      /\ status \in [Jobs -> {"none", "queued", "inProgress", "failed", "canceled"}]
    BY DEF Init, Erased
<1>8. TypeOK
    BY <1>2, <1>3, <1>4, <1>5, <1>6, <1>7 DEF TypeOK
<1>9. FieldsOfStream
    BY <1>4, <1>6 DEF FieldsOfStream
<1>10. EventsHoldBlocks
    BY <1>1 DEF EventsHoldBlocks, BlockEvents, Event
<1> QED
    BY <1>8, <1>9, <1>10 DEF TypeInv

(* The types are inductive. *)
LEMMA NextTypeInv == TypeInv /\ [Next]_vars => TypeInv'
BY NextTypeOK, NextFieldsOfStream, NextEventsHoldBlocks DEF TypeInv

(* With the types, jobFields holds the job of the stream or nothing, and every
   queued event of a block points to a buffer that holds one. *)
THEOREM TypeInvariant == Spec => []TypeInv
BY InitTypeInv, NextTypeInv, PTL DEF Spec

(* Every variable has its type in every state, whatever fails: the offsets stay
   within the image, the handle within its byte, the queue within its length. *)
THEOREM TypeCorrect == Spec => []TypeOK
<1>1. TypeInv => TypeOK
    BY DEF TypeInv
<1> QED
    BY <1>1, TypeInvariant, PTL

------------------------------------------------------------------------------
(* No buffer leaks, unless a block finds the event queue full *)

(* The condition under which a buffer in use must have its event. *)
Owing == pc # "cancelDelay" /\ Running

(* Some queued event points to the buffer. *)
Pointed(b) == \E i \in BlockEvents : events[i].buffer = b

(* What is queued and not taken still points to its buffer. *)
LEMMA StillPointed ==
    ASSUME TypeInv, NEW n \in {0, 1}, NEW ids, QueueStep(n, ids), NEW b,
           NEW i \in BlockEvents, events[i].buffer = b, i > n
    PROVE  Pointed(b)'
<1>1. Len(events) \in Nat /\ i \in 1 .. Len(events) /\ events[i].id = "ReceivedFileBlock"
    BY DEF BlockEvents, TypeInv, TypeOK
<1>2. i - n \in 1 .. Len(events) - n /\ (i - n) + n = i
    BY <1>1
<1>3. i - n <= Len(events') /\ events'[i - n] = events[i]
    BY <1>2 DEF QueueStep
<1>4. i - n \in BlockEvents'
    BY <1>1, <1>2, <1>3 DEF BlockEvents
<1> QED
    BY <1>3, <1>4 DEF Pointed

(* A step that takes no event of a block and changes no buffer leaks none. *)
LEMMA OthersLeakNothing ==
    ASSUME TypeInv, NoBufferLeak, NEW n \in {0, 1}, NEW ids, QueueStep(n, ids), UNCHANGED buffers,
           n = 1 => events[1].id # "ReceivedFileBlock", Owing' => Owing
    PROVE  NoBufferLeak'
<1> SUFFICES ASSUME Owing', NEW b \in Buffers, buffers'[b].used
             PROVE  Pointed(b)'
    BY DEF NoBufferLeak, Owing, Pointed
<1>1. PICK i \in BlockEvents : events[i].buffer = b
    BY DEF NoBufferLeak, Owing
<1>2. i > n
    BY DEF BlockEvents
<1> QED
    BY <1>1, <1>2, StillPointed

(* Freeing every buffer leaks none. *)
LEMMA FreedLeakNothing ==
    ASSUME TypeInv, buffers' = FreeAll(buffers) \/ buffers' = [i \in Buffers |-> Free]
    PROVE  NoBufferLeak'
<1>1. \A b \in Buffers : ~buffers'[b].used
    BY FreeAllProperties DEF TypeInv, Free
<1> QED
    BY <1>1 DEF NoBufferLeak

(* The buffer of the event that is received is freed with it. *)
LEMMA HandledLeakNothing ==
    ASSUME TypeInv, NoBufferLeak, ReceiveFileBlock, NEW ids, QueueStep(1, ids), Owing' => Owing
    PROVE  NoBufferLeak'
<1> SUFFICES ASSUME Owing', NEW b \in Buffers, buffers'[b].used
             PROVE  Pointed(b)'
    BY DEF NoBufferLeak, Owing, Pointed
<1>1. /\ Receive("ReceivedFileBlock")
      /\ buffers' = [buffers EXCEPT ![received].used = FALSE]
    BY DEF ReceiveFileBlock
<1>2. received \in Buffers /\ buffers \in [Buffers -> [used : BOOLEAN, msg : Messages]]
    BY <1>1, ReceivedIsBlock DEF TypeInv, TypeOK
<1>3. b # received /\ buffers[b].used
    BY <1>1, <1>2
<1>4. PICK i \in BlockEvents : events[i].buffer = b
    BY <1>3 DEF NoBufferLeak, Owing
<1>5. events[1].buffer = received
    BY <1>1, ReceiveProperties DEF TypeInv, received, EventIds
<1>6. i > 1
    BY <1>3, <1>4, <1>5 DEF BlockEvents
<1> QED
    BY <1>4, <1>6, StillPointed

(* A block that arrives uses a buffer, and queues the event that points to it if
   the queue is not full. *)
LEMMA ArrivedLeakNothing ==
    ASSUME TypeInv, NoBufferLeak, NEW m \in BagToSet(net), BlockArrived(m),
           Len(events) < MaxMessages
    PROVE  NoBufferLeak'
<1>1. Owing' => Owing
    BY DEF BlockArrived, Owing, Running
<1>2. CASE UNCHANGED <<buffers, events>>
    BY <1>1, <1>2, OthersLeakNothing, Unqueued DEF TypeInv
<1>3. ASSUME NEW first \in Buffers,
             buffers' = [buffers EXCEPT ![first] = [used |-> TRUE, msg |-> m]],
             QueueStep(0, {"ReceivedFileBlock"}),
             \A i \in 1 .. Len(events') : i > Len(events) =>
                events'[i] = [id |-> "ReceivedFileBlock", buffer |-> first],
             Len(events') = Len(events) + 1
      PROVE  NoBufferLeak'
    <2> SUFFICES ASSUME Owing', NEW b \in Buffers, buffers'[b].used
                 PROVE  Pointed(b)'
        BY DEF NoBufferLeak, Owing, Pointed
    <2>1. /\ Len(events) \in Nat
          /\ buffers \in [Buffers -> [used : BOOLEAN, msg : Messages]]
        BY DEF TypeInv, TypeOK
    <2>2. CASE b = first
        <3>1. Len(events') \in 1 .. Len(events') /\ Len(events') > Len(events)
            BY <1>3, <2>1
        <3>2. events'[Len(events')] = [id |-> "ReceivedFileBlock", buffer |-> first]
            BY <1>3, <3>1
        <3>3. Len(events') \in BlockEvents'
            BY <3>1, <3>2 DEF BlockEvents
        <3> QED
            BY <2>2, <3>2, <3>3 DEF Pointed
    <2>3. CASE b # first
        <3>1. buffers[b].used
            BY <1>3, <2>1, <2>3
        <3>2. PICK i \in BlockEvents : events[i].buffer = b
            BY <1>1, <3>1 DEF NoBufferLeak, Owing
        <3>3. i > 0
            BY DEF BlockEvents
        <3> QED
            BY <1>3, <3>2, <3>3, StillPointed
    <2> QED
        BY <2>2, <2>3
<1> QED
    BY <1>2, <1>3, BlockArrivedQueue

(* The room that the event of a block needs in the queue when it arrives. *)
RoomForBlocks == \A m \in BagToSet(net) : BlockArrived(m) => Len(events) < MaxMessages

(* No step leaks a buffer. *)
LEMMA NextNoBufferLeak ==
    ASSUME TypeInv, NoBufferLeak, [Next]_vars, RoomForBlocks
    PROVE  NoBufferLeak'
<1> USE DEF taskVars, Running, Owing
<1>1. CASE \/ RequestJobDocument \/ WaitForJob \/ NotifyCanceled \/ DropJobDocument
           \/ RequestFileBlock \/ CloseFileFailed \/ ActivateImage
    <2>1. QueueStep(1, {}) /\ UNCHANGED buffers
        BY <1>1, HandlerQueue DEF RequestJobDocument, WaitForJob, NotifyCanceled, DropJobDocument,
                                  RequestFileBlock, CloseFileFailed, ActivateImage
    <2>2. \E name \in EventIds \ {"ReceivedFileBlock"} : Receive(name)
        BY <1>1 DEF RequestJobDocument, WaitForJob, NotifyCanceled, DropJobDocument,
                    RequestFileBlock, CloseFileFailed, ActivateImage, EventIds
    <2>3. events[1].id # "ReceivedFileBlock" /\ Owing
        BY <2>2, ReceiveProperties DEF TypeInv, Receive
    <2> QED
        BY <2>1, <2>3, OthersLeakNothing
<1>2. CASE NoPendingJob \/ SameJobDocument \/ CloseFile
    <2>1. (\E ids : QueueStep(1, ids)) /\ UNCHANGED buffers
        BY <1>2, HandlerQueue DEF NoPendingJob, SameJobDocument, CloseFile
    <2>2. Receive("ReceivedJobDocument") \/ Receive("CloseFile")
        BY <1>2 DEF NoPendingJob, SameJobDocument, CloseFile, ReceiveDocument
    <2>3. events[1].id # "ReceivedFileBlock" /\ Owing
        BY <2>2, ReceiveProperties DEF TypeInv, Receive, EventIds
    <2> QED
        BY <2>1, <2>3, OthersLeakNothing
<1>3. CASE JobAccepted \/ FileCreateFailed \/ JobDocParseFailed \/ CleanUpCanceledJob \/ Reset
    BY <1>3, FreedLeakNothing
       DEF JobAccepted, FileCreateFailed, JobDocParseFailed, CleanUpCanceledJob, Reset
<1>4. CASE IgnoreFileBlock \/ WriteFileBlock \/ RejectFileBlock
    <2>1. ReceiveFileBlock /\ \E ids : QueueStep(1, ids)
        BY <1>4, HandlerQueue, WrittenQueue DEF IgnoreFileBlock, WriteFileBlock, RejectFileBlock
    <2>2. Owing
        BY <2>1 DEF ReceiveFileBlock, Receive
    <2> QED
        BY <2>1, <2>2, HandledLeakNothing
<1>5. CASE JobCanceled
    BY <1>5 DEF JobCanceled, NoBufferLeak
<1>6. CASE RequestAfterFailure \/ Timeout \/ Cloud
    <2>1. (\E ids : QueueStep(0, ids)) /\ UNCHANGED buffers
        BY <1>6, OtherQueue, BuffersKept DEF RequestAfterFailure, Timeout
    <2>2. Owing' => Owing
        BY <1>6 DEF RequestAfterFailure, Timeout, Cloud, CreateJob, CancelJob, Lose, LoseSession
    <2> QED
        BY <2>1, <2>2, OthersLeakNothing
<1>7. ASSUME NEW m \in BagToSet(net), Deliver(m) PROVE NoBufferLeak'
    <2>1. CASE Ignore(m) \/ NotifyArrived(m) \/ JobDocumentArrived(m) \/ CancelArrived(m)
        <3>1. (\E ids : QueueStep(0, ids)) /\ UNCHANGED buffers
            BY <2>1, OtherQueue, NotifiedQueue, BuffersKept DEF TypeInv
        <3>2. Owing' => Owing
            BY <2>1 DEF Ignore, NotifyArrived, JobDocumentArrived, CancelArrived
        <3> QED
            BY <3>1, <3>2, OthersLeakNothing
    <2>2. CASE BlockArrived(m)
        BY <2>2, ArrivedLeakNothing DEF RoomForBlocks
    <2> QED
        BY <1>7, <2>1, <2>2 DEF Deliver
<1>8. CASE UNCHANGED vars
    <2>1. QueueStep(0, {}) /\ UNCHANGED buffers /\ (Owing' => Owing)
        BY <1>8, Unqueued DEF vars, TypeInv
    <2> QED
        BY <2>1, OthersLeakNothing
<1>9. CASE SubscriptionRefused
    BY <1>9 DEF SubscriptionRefused, NoBufferLeak
<1> QED
    BY <1>1, <1>2, <1>3, <1>4, <1>5, <1>6, <1>7, <1>8, <1>9
       DEF Next, AgentTask, HandleEvent, MQTTAgentTask

(* As long as the event queue has room for the event of each block that arrives,
   no data buffer is lost: the one in use is the one of some queued event.  The
   condition is needed: getOtaDataEventBuffer has handed the buffer out when
   OtaSendEvent_FreeRTOS finds the queue full, and nobody frees it. *)
THEOREM NoBufferIsLost == Spec /\ [][RoomForBlocks]_vars => []NoBufferLeak
<1>1. Init => NoBufferLeak
    BY DEF Init, DeviceInit, NoBufferLeak, Free
<1>2. TypeInv /\ NoBufferLeak /\ [Next]_vars /\ [RoomForBlocks]_vars => NoBufferLeak'
    <2>1. TypeInv /\ NoBufferLeak /\ UNCHANGED vars => NoBufferLeak'
        BY DEF NoBufferLeak, vars, taskVars, Running, BlockEvents
    <2> QED
        BY <2>1, NextNoBufferLeak
<1> QED
    BY <1>1, <1>2, TypeInvariant, PTL DEF Spec


------------------------------------------------------------------------------
(* Who owns the buffers *)

(* The queue has a length. *)
LEMMA QueueTyped ==
    ASSUME TypeInv
    PROVE  events \in Seq(Events) /\ Len(events) \in Nat
BY DEF TypeInv, TypeOK

(* The queued events of blocks, before and after a step that queues none. *)
LEMMA OldBlockEvents ==
    ASSUME TypeInv, NEW n \in {0, 1}, NEW ids, QueueStep(n, ids), "ReceivedFileBlock" \notin ids,
           NEW i \in BlockEvents'
    PROVE  /\ i + n \in BlockEvents /\ events'[i] = events[i + n]
           /\ events[i + n].buffer \in Buffers
<1>1. i \in 1 .. Len(events') /\ events'[i].id = "ReceivedFileBlock"
    BY DEF BlockEvents
<1>2. i \in 1 .. Len(events) - n
    BY <1>1, QueueTyped DEF QueueStep
<1>3. i + n \in 1 .. Len(events) /\ events'[i] = events[i + n]
    BY <1>2, QueueTyped DEF QueueStep
<1>4. events[i + n] \in Events
    BY <1>3, QueueTyped, QueuedIsEvent
<1> QED
    BY <1>1, <1>3, <1>4 DEF BlockEvents, Events

LEMMA NoBlockEvents ==
    ASSUME TypeInv, NEW n \in {0, 1}, NEW ids, QueueStep(n, ids), "ReceivedFileBlock" \notin ids,
           BlockEvents = {}
    PROVE  Owned'
BY OldBlockEvents DEF Owned

(* The events keep their buffers in a step that changes none. *)
LEMMA OwnersKept ==
    ASSUME TypeInv, Owned, NEW n \in {0, 1}, NEW ids, QueueStep(n, ids),
           "ReceivedFileBlock" \notin ids, UNCHANGED buffers
    PROVE  Owned'
<1>1. ASSUME NEW i \in BlockEvents' PROVE buffers'[events'[i].buffer].used
    <2>1. i + n \in BlockEvents /\ events'[i] = events[i + n]
        BY OldBlockEvents
    <2> QED
        BY <2>1 DEF Owned
<1>2. ASSUME NEW i \in BlockEvents', NEW k \in BlockEvents', i # k
      PROVE  events'[i].buffer # events'[k].buffer
    <2>1. /\ i + n \in BlockEvents /\ events'[i] = events[i + n]
          /\ k + n \in BlockEvents /\ events'[k] = events[k + n]
        BY OldBlockEvents
    <2>2. i + n # k + n
        BY <1>2 DEF BlockEvents
    <2> QED
        BY <2>1, <2>2 DEF Owned
<1> QED
    BY <1>1, <1>2 DEF Owned

(* The event that is handled frees its own buffer. *)
LEMMA OwnerFrees ==
    ASSUME TypeInv, Owned, ReceiveFileBlock, NEW ids, QueueStep(1, ids),
           "ReceivedFileBlock" \notin ids
    PROVE  Owned'
<1>1. /\ Receive("ReceivedFileBlock")
      /\ buffers' = [buffers EXCEPT ![received].used = FALSE]
    BY DEF ReceiveFileBlock
<1>2. received \in Buffers /\ buffers \in [Buffers -> [used : BOOLEAN, msg : Messages]]
    BY <1>1, ReceivedIsBlock DEF TypeInv, TypeOK
<1>3. 1 \in BlockEvents /\ events[1].buffer = received
    BY <1>1, ReceiveProperties DEF TypeInv, received, EventIds, BlockEvents
<1>4. ASSUME NEW i \in BlockEvents' PROVE buffers'[events'[i].buffer].used
    <2>1. /\ i + 1 \in BlockEvents /\ events'[i] = events[i + 1]
          /\ events[i + 1].buffer \in Buffers
        BY OldBlockEvents
    <2>2. i + 1 # 1
        BY <1>4 DEF BlockEvents
    <2>3. events[i + 1].buffer # received /\ buffers[events[i + 1].buffer].used
        BY <1>3, <2>1, <2>2 DEF Owned
    <2> QED
        BY <1>1, <1>2, <2>1, <2>3
<1>5. ASSUME NEW i \in BlockEvents', NEW k \in BlockEvents', i # k
      PROVE  events'[i].buffer # events'[k].buffer
    <2>1. /\ i + 1 \in BlockEvents /\ events'[i] = events[i + 1]
          /\ k + 1 \in BlockEvents /\ events'[k] = events[k + 1]
        BY OldBlockEvents
    <2>2. i + 1 # k + 1
        BY <1>5 DEF BlockEvents
    <2> QED
        BY <2>1, <2>2 DEF Owned
<1> QED
    BY <1>4, <1>5 DEF Owned

(* The event of a block that arrives gets a buffer that was free. *)
LEMMA NewOwner ==
    ASSUME TypeInv, Owned, NEW m \in BagToSet(net), BlockArrived(m)
    PROVE  Owned'
<1>1. CASE UNCHANGED <<buffers, events>>
    BY <1>1, OwnersKept, Unqueued DEF TypeInv
<1>2. ASSUME NEW first \in Buffers, ~buffers[first].used,
             buffers' = [buffers EXCEPT ![first] = [used |-> TRUE, msg |-> m]],
             QueueStep(0, {"ReceivedFileBlock"}),
             \A i \in 1 .. Len(events') : i > Len(events) =>
                events'[i] = [id |-> "ReceivedFileBlock", buffer |-> first],
             Len(events') <= Len(events) + 1, Len(events') \in Nat
      PROVE  Owned'
    <2>1. /\ Len(events) \in Nat
          /\ buffers \in [Buffers -> [used : BOOLEAN, msg : Messages]]
        BY DEF TypeInv, TypeOK
    <2>2. ASSUME NEW i \in BlockEvents', i <= Len(events)
          PROVE  /\ i \in BlockEvents /\ events'[i] = events[i]
                 /\ events[i].buffer \in Buffers /\ events[i].buffer # first
        <3>1. i \in 1 .. Len(events) /\ events'[i] = events[i] /\ events[i].id = "ReceivedFileBlock"
            BY <1>2, <2>1, <2>2 DEF QueueStep, BlockEvents
        <3>2. i \in BlockEvents /\ events[i] \in Events
            BY <3>1, QueueTyped, QueuedIsEvent DEF BlockEvents
        <3> QED
            BY <1>2, <3>1, <3>2 DEF Owned, Events
    <2>3. ASSUME NEW i \in BlockEvents', ~(i <= Len(events))
          PROVE  i = Len(events) + 1 /\ events'[i].buffer = first
        <3>1. i \in 1 .. Len(events') /\ i > Len(events)
            BY <2>1, <2>3 DEF BlockEvents
        <3> QED
            BY <1>2, <2>1, <3>1
    <2>4. ASSUME NEW i \in BlockEvents' PROVE buffers'[events'[i].buffer].used
        <3>1. CASE i <= Len(events)
            <4>1. /\ i \in BlockEvents /\ events'[i] = events[i]
                  /\ events[i].buffer \in Buffers /\ events[i].buffer # first
                BY <2>2, <2>4, <3>1
            <4> QED
                BY <1>2, <2>1, <4>1 DEF Owned
        <3>2. CASE ~(i <= Len(events))
            <4>1. events'[i].buffer = first
                BY <2>3, <2>4, <3>2
            <4> QED
                BY <1>2, <2>1, <4>1
        <3> QED
            BY <3>1, <3>2
    <2>5. ASSUME NEW i \in BlockEvents', NEW k \in BlockEvents', i # k
          PROVE  events'[i].buffer # events'[k].buffer
        BY <2>2, <2>3, <2>5 DEF Owned
    <2> QED
        BY <2>4, <2>5 DEF Owned
<1>3. Len(events') \in Nat
    BY NextTypeInv, QueueTyped DEF Next, MQTTAgentTask, Deliver, TypeInv, TypeOK
<1> QED
    BY <1>1, <1>2, <1>3, BlockArrivedQueue

(* A step takes no buffer from its event, but one that frees all of them. *)
LEMMA NextOwned ==
    ASSUME TypeInv, Owned, [Next]_vars
    PROVE  Owned' \/ (BlockEvents # {} /\ buffers' = FreeAll(buffers))
<1>1. CASE \/ RequestJobDocument \/ WaitForJob \/ NotifyCanceled \/ DropJobDocument
           \/ NoPendingJob \/ SameJobDocument \/ SubscriptionRefused \/ RequestFileBlock
           \/ CloseFile \/ CloseFileFailed \/ ActivateImage
    <2>1. \/ QueueStep(1, {}) \/ QueueStep(1, {"WaitForJob"}) \/ QueueStep(0, {})
          \/ QueueStep(1, {"RequestFileBlock"}) \/ QueueStep(1, {"ActivateImage"})
        BY <1>1, HandlerQueue
    <2>2. UNCHANGED buffers
        BY <1>1 DEF RequestJobDocument, WaitForJob, NotifyCanceled, DropJobDocument, NoPendingJob,
                    SameJobDocument, SubscriptionRefused, RequestFileBlock, CloseFile,
                    CloseFileFailed, ActivateImage
    <2> QED
        BY <2>1, <2>2, OwnersKept
<1>2. CASE JobAccepted \/ FileCreateFailed \/ JobDocParseFailed \/ CleanUpCanceledJob
    <2>1. buffers' = FreeAll(buffers)
        BY <1>2 DEF JobAccepted, FileCreateFailed, JobDocParseFailed, CleanUpCanceledJob
    <2>2. \/ QueueStep(1, {}) \/ QueueStep(1, {"RequestFileBlock"})
          \/ QueueStep(0, {"RequestJobDocument"})
        BY <1>2, HandlerQueue, OtherQueue
    <2> QED
        BY <2>1, <2>2, NoBlockEvents
<1>3. CASE IgnoreFileBlock \/ WriteFileBlock \/ RejectFileBlock
    <2>1. ReceiveFileBlock
        BY <1>3 DEF IgnoreFileBlock, WriteFileBlock, RejectFileBlock
    <2>2. QueueStep(1, {}) \/ QueueStep(1, {"CloseFile"}) \/ QueueStep(1, {"RequestFileBlock"})
        BY <1>3, HandlerQueue, WrittenQueue
    <2> QED
        BY <2>1, <2>2, OwnerFrees
<1>4. CASE JobCanceled \/ Reset
    <2>1. events' = <<>> \/ events' = <<Event("RequestJobDocument")>>
        BY <1>4, OtherQueue
    <2>2. BlockEvents' = {}
        BY <2>1 DEF BlockEvents, Event
    <2> QED
        BY <2>2 DEF Owned
<1>5. CASE RequestAfterFailure \/ Timeout \/ Cloud
    <2>1. QueueStep(0, {}) \/ QueueStep(0, {"RequestJobDocument"})
        BY <1>5, OtherQueue
    <2>2. UNCHANGED buffers
        BY <1>5, BuffersKept DEF RequestAfterFailure, Timeout
    <2> QED
        BY <2>1, <2>2, OwnersKept
<1>6. ASSUME NEW m \in BagToSet(net), Deliver(m) PROVE Owned'
    <2>1. CASE Ignore(m) \/ NotifyArrived(m) \/ JobDocumentArrived(m) \/ CancelArrived(m)
        <3>1. UNCHANGED buffers
            BY <2>1, BuffersKept
        <3>2. \/ QueueStep(0, {}) \/ QueueStep(0, {"ReceivedJobDocument"})
              \/ QueueStep(0, {"JobCanceled"})
              \/ QueueStep(0, {"NotifyCanceled", "RequestJobDocument"})
            BY <2>1, OtherQueue, NotifiedQueue DEF TypeInv
        <3> QED
            BY <3>1, <3>2, OwnersKept
    <2> QED
        BY <1>6, <2>1, NewOwner DEF Deliver
<1>7. CASE UNCHANGED vars
    BY <1>7, Unqueued, OwnersKept DEF vars, taskVars, TypeInv
<1> QED
    BY <1>1, <1>2, <1>3, <1>4, <1>5, <1>6, <1>7
       DEF Next, AgentTask, HandleEvent, MQTTAgentTask

(* A buffer that holds a block for the agent is neither filled again nor freed
   twice: whatever fails, and whichever messages arrive and when, only
   resetOtaBuffers, called with blocks in the queue, takes buffers from their
   events. *)
THEOREM BuffersNeverShared == Spec => BufferOwnership
<1>1. Init => Owned
    BY DEF Init, DeviceInit, Owned, BlockEvents, Event
<1>2. TypeInv /\ [Next]_vars =>
          [Owned => Owned' \/ (BlockEvents # {} /\ buffers' = FreeAll(buffers))]_vars
    BY NextOwned
<1> QED
    BY <1>1, <1>2, TypeInvariant, PTL DEF Spec, BufferOwnership

------------------------------------------------------------------------------
(* Job documents on their way *)

DocsOnTheWay == {m \in BagToSet(net) : m.type = "doc"}

(* A step sends no document, and a single one stays single. *)
NoNewDocs ==
    \A m \in DocsOnTheWay' : m \in DocsOnTheWay /\ (net[m] = 1 => net'[m] = 1)

LEMMA SentNoDoc ==
    ASSUME NEW B, \A m \in BagToSet(B) : m.type # "doc", net' = net (+) B
    PROVE  NoNewDocs
<1> SUFFICES ASSUME NEW m \in DocsOnTheWay'
             PROVE  m \in DocsOnTheWay /\ (net[m] = 1 => net'[m] = 1)
    BY DEF NoNewDocs
<1>1. m \in BagToSet(net') /\ m.type = "doc"
    BY DEF DocsOnTheWay
<1>2. m \notin DOMAIN B
    BY <1>1 DEF BagToSet
<1>3. m \in DOMAIN net /\ m \in (DOMAIN net) \cup (DOMAIN B)
    <2>1. BagToSet(net') = BagToSet(net) \cup BagToSet(B)
        BY NetProperties
    <2> QED
        BY <1>1, <1>2, <2>1 DEF BagToSet
<1>4. net'[m] = net[m] + 0
    BY <1>2, <1>3 DEF (+)
<1> QED
    BY <1>1, <1>3, <1>4 DEF DocsOnTheWay, BagToSet

LEMMA NothingSent ==
    ASSUME UNCHANGED net
    PROVE  NoNewDocs
BY DEF NoNewDocs, DocsOnTheWay, BagToSet

(* Taking a message leaves the other ones; a single document is gone. *)
LEMMA TakenDoc ==
    ASSUME NEW m, net' = net (-) SetToBag({m})
    PROVE  NoNewDocs /\ (net[m] = 1 => m \notin BagToSet(net'))
<1> DEFINE rest == [e \in DOMAIN net |-> IF e \in DOMAIN SetToBag({m})
                                         THEN net[e] - SetToBag({m})[e] ELSE net[e]]
<1>1. net' = [e \in {d \in DOMAIN rest : rest[d] > 0} |-> rest[e]]
    BY DEF (-)
<1>2. DOMAIN SetToBag({m}) = {m} /\ SetToBag({m})[m] = 1
    BY DEF SetToBag
<1>3. \A e \in DOMAIN net' : /\ e \in DOMAIN net /\ net'[e] = rest[e] /\ rest[e] > 0
                             /\ rest[e] = IF e = m THEN net[e] - 1 ELSE net[e]
    BY <1>1, <1>2
<1> HIDE DEF rest
<1>4. net[m] = 1 => m \notin DOMAIN net'
    BY <1>3
<1>5. ASSUME NEW d \in DocsOnTheWay' PROVE d \in DocsOnTheWay /\ (net[d] = 1 => net'[d] = 1)
    <2>1. d \in DOMAIN net' /\ d.type = "doc"
        BY <1>5 DEF DocsOnTheWay, BagToSet
    <2> QED
        BY <1>3, <1>4, <2>1 DEF DocsOnTheWay, BagToSet
<1> QED
    BY <1>4, <1>5 DEF NoNewDocs, BagToSet

(* The only step that sends a document is the request for one. *)
LEMMA NoDocSent ==
    ASSUME TypeInv,
           \/ WaitForJob \/ NotifyCanceled \/ DropJobDocument \/ NoPendingJob
           \/ SameJobDocument \/ JobAccepted \/ FileCreateFailed \/ SubscriptionRefused
           \/ JobDocParseFailed \/ RequestFileBlock \/ IgnoreFileBlock \/ WriteFileBlock
           \/ RejectFileBlock \/ CloseFile \/ CloseFileFailed \/ ActivateImage \/ JobCanceled
           \/ RequestAfterFailure \/ CleanUpCanceledJob \/ Timeout
           \/ MQTTAgentTask \/ Cloud \/ Reset \/ UNCHANGED vars
    PROVE  NoNewDocs
<1> USE DEF TypeInv, taskVars, jobVars, loadVars, palVars, cloudVars
<1>1. ASSUME NEW st PROVE \A m \in BagToSet(Notified(st)) : m.type # "doc"
    BY NotifiedProperties DEF NotifyMsg
<1>2. ASSUME NEW j, SendFailedMessage(j) PROVE NoNewDocs
    <2>1. UNCHANGED net \/ net' = net (+) Notified(status')
        BY <1>2 DEF SendFailedMessage
    <2> QED
        BY <1>1, <2>1, SentNoDoc, NothingSent
<1>3. ASSUME NEW offset, RequestDataBlock(offset) PROVE NoNewDocs
    <2> DEFINE n == IF RequestSize > total - offset THEN total - offset ELSE RequestSize
               asked == IF "stream" \in subs
                        THEN {BlockMsg(stream, b) : b \in offset .. offset + n - 1} ELSE {}
               told == {m \in asked : OnTheWay(m) < MaxCopies}
    <2>1. UNCHANGED net \/ net' = net (+) SetToBag(told)
        BY <1>3 DEF RequestDataBlock
    <2>2. \A m \in told : m.type # "doc"
        BY DEF BlockMsg
    <2> HIDE DEF told
    <2>3. \A m \in BagToSet(SetToBag(told)) : m.type # "doc"
        BY <2>2, SetToBagProperties
    <2> QED
        BY <2>1, <2>3, SentNoDoc, NothingSent
<1>4. CASE RejectFileBlock \/ CloseFileFailed \/ JobDocParseFailed
    BY <1>2, <1>4 DEF RejectFileBlock, CloseFileFailed, JobDocParseFailed
<1>5. CASE RequestFileBlock \/ Timeout
    BY <1>3, <1>5 DEF RequestFileBlock, Timeout
<1>6. CASE \/ WaitForJob \/ NotifyCanceled \/ DropJobDocument \/ NoPendingJob \/ SameJobDocument
           \/ JobAccepted \/ FileCreateFailed \/ SubscriptionRefused \/ IgnoreFileBlock
           \/ WriteFileBlock \/ CloseFile \/ ActivateImage \/ JobCanceled \/ RequestAfterFailure \/ CleanUpCanceledJob
    <2>1. UNCHANGED net
        BY <1>6 DEF WaitForJob, NotifyCanceled, DropJobDocument, NoPendingJob, SameJobDocument,
                    JobAccepted, FileCreateFailed, SubscriptionRefused, IgnoreFileBlock,
                    WriteFileBlock, CloseFile, ActivateImage, JobCanceled, RequestAfterFailure, CleanUpCanceledJob
    <2> QED
        BY <2>1, NothingSent
<1>7. ASSUME NEW m, Deliver(m) PROVE NoNewDocs
    <2>1. net' = net (-) SetToBag({m})
        BY <1>7 DEF Deliver, Ignore, BlockArrived, NotifyArrived, JobDocumentArrived,
                    CancelArrived, Take
    <2> QED
        BY <2>1, TakenDoc
<1>8. CASE Cloud
    <2>1. ASSUME NEW j \in Jobs, CreateJob(j) PROVE NoNewDocs
        BY <1>1, <2>1, SentNoDoc DEF CreateJob
    <2>2. ASSUME NEW j \in Jobs, CancelJob(j) PROVE NoNewDocs
        <3> DEFINE told == IF "event" \in subs /\ eventTopic = j
                           THEN SetToBag({CancelMsg(j)}) ELSE EmptyBag
        <3>1. \A m \in BagToSet(told) : m.type # "doc"
            <4>1. BagToSet(told) \subseteq {CancelMsg(j)}
                BY SetToBagProperties
            <4> QED
                BY <4>1 DEF CancelMsg
        <3>2. net' = (net (+) Notified(status')) (+) told
            BY <2>2 DEF CancelJob
        <3> HIDE DEF told
        <3> SUFFICES ASSUME NEW m \in DocsOnTheWay'
                     PROVE  m \in DocsOnTheWay /\ (net[m] = 1 => net'[m] = 1)
            BY DEF NoNewDocs
        <3>3. m \in DOMAIN net' /\ m.type = "doc"
            BY DEF DocsOnTheWay, BagToSet
        <3>4. m \notin DOMAIN told /\ m \notin DOMAIN Notified(status')
            BY <1>1, <3>1, <3>3 DEF BagToSet
        <3> DEFINE between == net (+) Notified(status')
        <3>5. /\ m \in DOMAIN net => m \in DOMAIN between /\ between[m] = net[m] + 0
              /\ m \in DOMAIN between => m \in DOMAIN net
            BY <3>4 DEF (+)
        <3>6. net' = between (+) told
            BY <3>2
        <3> HIDE DEF between
        <3>7. m \in DOMAIN between /\ net'[m] = between[m] + 0
            BY <3>3, <3>4, <3>6 DEF (+)
        <3> QED
            BY <3>3, <3>5, <3>7 DEF DocsOnTheWay, BagToSet
    <2>3. ASSUME NEW m \in BagToSet(net), Lose(m) PROVE NoNewDocs
        BY <2>3, TakenDoc DEF Lose
    <2> QED
        BY <1>8, <2>1, <2>2, <2>3, NothingSent DEF Cloud, LoseSession
<1>9. CASE Reset
    BY <1>9, SetToBagProperties DEF Reset, NoNewDocs, DocsOnTheWay
<1>10. CASE UNCHANGED vars
    BY <1>10, NothingSent DEF vars
<1> QED
    BY <1>4, <1>5, <1>6, <1>7, <1>8, <1>9, <1>10 DEF MQTTAgentTask

------------------------------------------------------------------------------
(* A job is asked for once, and never while another one is downloaded *)

Queued(id) == \E i \in 1 .. Len(events) : events[i].id = id

AskEvents == {"RequestJobDocument", "ReceivedJobDocument", "NotifyCanceled"}
LoadEvents == {"RequestFileBlock", "CloseFile", "ActivateImage", "JobCanceled"}

(* The requests that are queued.  What is queued behind a cancellation does not
   count: it is deleted with the queue. *)
Asks == {i \in 1 .. Len(events) :
            /\ events[i].id \in AskEvents
            /\ \A k \in 1 .. i - 1 : events[k].id # "JobCanceled"}

(* The next job is asked for, waited for, or about to be looked at. *)
Asking == notifyTopic \/ Asks # {} \/ DocsOnTheWay # {}

(* A job is downloaded, or about to be given up. *)
Loading ==
    \/ \E i \in 1 .. Len(events) : events[i].id \in LoadEvents
    \/ pc \in {"cancelDelay", "resetting"}

(* Blocks of a job that was given up may still arrive while the next one is asked
   for: then the platform layer refuses them. *)
OneOrOther == Asking => ~Loading /\ globalJob = NoJob /\ (fields = NoJob \/ palError)

(* While the agent waits for a notification, it has asked for nothing else: each
   request that is queued follows the end of the wait. *)
NotifyWaits ==
    notifyTopic =>
        /\ DocsOnTheWay = {}
        /\ \A i \in 1 .. Len(events) :
              /\ events[i].id # "ReceivedJobDocument"
              /\ events[i].id = "RequestJobDocument" =>
                    i > 1 /\ events[i - 1].id = "NotifyCanceled"

(* One request, or the one document that answers it. *)
OneAsked ==
    /\ \A i, k \in Asks : i = k /\ events[i].id # "NotifyCanceled"
    /\ DocsOnTheWay # {} => Asks = {}
    /\ \A m, d \in DocsOnTheWay : m = d /\ net[m] = 1

(* A second end of the same wait is taken before any document is looked at: the
   assertion of mqttWrapper_unsubscribe stops the task. *)
AboutToHalt ==
    \E i \in Asks : /\ events[i].id = "NotifyCanceled"
                    /\ \A k \in 1 .. i - 1 : events[k].id # "ReceivedJobDocument"

SingleRequest == ~notifyTopic /\ pc # "halted" => OneAsked \/ AboutToHalt

(* Only late blocks and another cancellation can come during the wait after a
   cancellation. *)
CancelWait ==
    pc = "cancelDelay" =>
        \A i \in 1 .. Len(events) : events[i].id \in {"ReceivedFileBlock", "JobCanceled"}

TokenInv == /\ pc # "failDelay" /\ CancelWait
            /\ OneOrOther /\ NotifyWaits /\ SingleRequest

(* The events before and after a step, by their places. *)
LEMMA QueueMap ==
    ASSUME TypeInv, NEW n \in {0, 1}, NEW ids, QueueStep(n, ids)
    PROVE  /\ \A i \in 1 .. Len(events') :
                 \/ i + n \in 1 .. Len(events) /\ events'[i] = events[i + n]
                 \/ ~(i + n <= Len(events)) /\ events'[i].id \in ids
           /\ \A i \in 1 .. Len(events) : i > n =>
                 i - n \in 1 .. Len(events') /\ events'[i - n] = events[i]
<1>1. Len(events) \in Nat
    BY QueueTyped
<1>2. ASSUME NEW i \in 1 .. Len(events')
      PROVE  \/ i + n \in 1 .. Len(events) /\ events'[i] = events[i + n]
             \/ ~(i + n <= Len(events)) /\ events'[i].id \in ids
    BY <1>1, <1>2 DEF QueueStep
<1>3. ASSUME NEW i \in 1 .. Len(events), i > n
      PROVE  i - n \in 1 .. Len(events') /\ events'[i - n] = events[i]
    <2>1. i - n \in 1 .. Len(events) - n /\ (i - n) + n = i
        BY <1>1, <1>3
    <2> QED
        BY <2>1 DEF QueueStep
<1> QED
    BY <1>2, <1>3

(* Only what a step queues is queued anew. *)
LEMMA OldQueued ==
    ASSUME TypeInv, NEW n \in {0, 1}, NEW ids, QueueStep(n, ids), NEW id, id \notin ids, Queued(id)'
    PROVE  Queued(id)
BY QueueMap DEF Queued

(* The requests before and after a step that takes no cancellation. *)
LEMMA AsksMap ==
    ASSUME TypeInv, NEW n \in {0, 1}, NEW ids, QueueStep(n, ids),
           n = 1 => events[1].id # "JobCanceled"
    PROVE  /\ \A i \in Asks' :
                 \/ i + n \in Asks /\ events'[i] = events[i + n]
                 \/ ~(i + n <= Len(events)) /\ events'[i].id \in ids
           /\ \A i \in Asks : i > n => i - n \in Asks' /\ events'[i - n] = events[i]
<1>1. Len(events) \in Nat
    BY QueueTyped
<1>2. ASSUME NEW i \in Asks', i + n \in 1 .. Len(events), events'[i] = events[i + n]
      PROVE  i + n \in Asks
    <2>1. i \in 1 .. Len(events') /\ events'[i].id \in AskEvents
        BY DEF Asks
    <2>2. ASSUME NEW k \in 1 .. i + n - 1 PROVE events[k].id # "JobCanceled"
        <3>1. CASE k <= n
            BY <3>1
        <3>2. CASE k > n
            <4>1. k \in 1 .. Len(events) /\ k - n \in 1 .. i - 1
                BY <1>1, <1>2, <2>1, <3>2
            <4>2. events'[k - n] = events[k]
                BY <3>2, <4>1, QueueMap
            <4> QED
                BY <4>1, <4>2 DEF Asks
        <3> QED
            BY <3>1, <3>2
    <2> QED
        BY <1>2, <2>1, <2>2 DEF Asks
<1>3. ASSUME NEW i \in Asks, i > n
      PROVE  i - n \in Asks' /\ events'[i - n] = events[i]
    <2>1. i \in 1 .. Len(events) /\ events[i].id \in AskEvents
        BY DEF Asks
    <2>2. i - n \in 1 .. Len(events') /\ events'[i - n] = events[i]
        BY <1>3, <2>1, QueueMap
    <2>3. ASSUME NEW k \in 1 .. i - n - 1 PROVE events'[k].id # "JobCanceled"
        <3>1. k + n \in 1 .. Len(events) /\ k + n > n /\ (k + n) - n = k /\ k + n \in 1 .. i - 1
            BY <1>1, <2>1
        <3>2. events'[k] = events[k + n]
            BY <3>1, QueueMap
        <3> QED
            BY <3>1, <3>2 DEF Asks
    <2> QED
        BY <2>1, <2>2, <2>3 DEF Asks
<1>4. ASSUME NEW i \in Asks'
      PROVE  \/ i + n \in Asks /\ events'[i] = events[i + n]
             \/ ~(i + n <= Len(events)) /\ events'[i].id \in ids
    <2>1. i \in 1 .. Len(events')
        BY DEF Asks
    <2> QED
        BY <1>2, <2>1, QueueMap
<1> QED
    BY <1>3, <1>4

(* Without a request, all is well with the requests. *)
LEMMA NotAsking ==
    ASSUME ~Asking'
    PROVE  OneOrOther' /\ NotifyWaits' /\ SingleRequest'
BY DEF Asking, OneOrOther, NotifyWaits, SingleRequest, OneAsked

(* A step that queues no request and sends no document does not begin to ask. *)
LEMMA NothingAsked ==
    ASSUME TypeInv, NEW n \in {0, 1}, NEW ids, QueueStep(n, ids), ids \cap AskEvents = {},
           n = 1 => events[1].id # "JobCanceled",
           NoNewDocs, notifyTopic' => notifyTopic, Asking'
    PROVE  Asking
<1>1. \A i \in Asks' : i + n \in Asks
    <2>1. \A i \in Asks' : events'[i].id \in AskEvents
        BY DEF Asks
    <2> QED
        BY <2>1, AsksMap
<1> QED
    BY <1>1 DEF Asking, NoNewDocs

(* Nor does a step begin to download that queues no event of a download. *)
LEMMA NothingLoaded ==
    ASSUME TypeInv, NEW n \in {0, 1}, NEW ids, QueueStep(n, ids), ids \cap LoadEvents = {},
           ~Loading, pc' \notin {"cancelDelay", "resetting"}
    PROVE  ~Loading'
BY QueueMap DEF Loading

(* The event that is taken tells what the agent is doing. *)
LEMMA ReceiveTells ==
    ASSUME TypeInv, TokenInv, NEW name \in EventIds, Receive(name)
    PROVE  /\ Queued(name) /\ pc = "loop" /\ events[1].id = name /\ Len(events) \in Nat \ {0}
           /\ name \in AskEvents =>
                 1 \in Asks /\ Asking /\ ~Loading /\ globalJob = NoJob
                 /\ (fields = NoJob \/ palError)
           /\ name \in LoadEvents => ~Asking
<1>1. Len(events) \in Nat \ {0} /\ events[1].id = name /\ pc = "loop"
    BY ReceiveProperties DEF TypeInv, Receive
<1>2. 1 \in 1 .. Len(events)
    BY <1>1
<1>3. name \in AskEvents => 1 \in Asks
    BY <1>1, <1>2 DEF Asks
<1>4. name \in LoadEvents => Loading
    BY <1>1, <1>2 DEF Loading
<1> QED
    BY <1>1, <1>2, <1>3, <1>4 DEF Queued, Asking, TokenInv, OneOrOther

(* The order of the requests outlives a step that takes and queues none. *)
LEMMA QuietStep ==
    ASSUME TypeInv, NotifyWaits, SingleRequest, NEW n \in {0, 1}, NEW ids, QueueStep(n, ids),
           ids \cap AskEvents = {}, NoNewDocs, UNCHANGED notifyTopic,
           pc' # "halted" => pc # "halted",
           n = 1 => events[1].id \notin AskEvents \cup {"JobCanceled"}
    PROVE  NotifyWaits' /\ SingleRequest'
<1>1. Len(events) \in Nat
    BY QueueTyped
<1>2. \A i \in Asks' : i + n \in Asks /\ events'[i] = events[i + n]
    <2>1. \A i \in Asks' : events'[i].id \in AskEvents
        BY DEF Asks
    <2> QED
        BY <2>1, AsksMap
<1>3. \A i \in Asks : i \in 1 .. Len(events) /\ i > n
    <2>1. \A i \in Asks : i \in 1 .. Len(events) /\ events[i].id \in AskEvents
        BY DEF Asks
    <2> QED
        BY <1>1, <2>1
<1>4. \A i \in Asks : i - n \in Asks' /\ events'[i - n] = events[i]
    BY <1>3, AsksMap
<1>5. ASSUME notifyTopic' PROVE NotifyWaits'
    <2> SUFFICES ASSUME NEW i \in 1 .. Len(events')
                 PROVE  /\ events'[i].id # "ReceivedJobDocument"
                        /\ events'[i].id = "RequestJobDocument" =>
                              i > 1 /\ events'[i - 1].id = "NotifyCanceled"
        BY <1>5 DEF NotifyWaits, NoNewDocs
    <2>1. CASE i + n \in 1 .. Len(events) /\ events'[i] = events[i + n]
        <3>1. events[i + n].id # "ReceivedJobDocument"
            BY <1>5, <2>1 DEF NotifyWaits
        <3>2. ASSUME events'[i].id = "RequestJobDocument"
              PROVE  i > 1 /\ events'[i - 1].id = "NotifyCanceled"
            <4>1. i + n > 1 /\ events[i + n - 1].id = "NotifyCanceled"
                BY <1>5, <2>1, <3>2 DEF NotifyWaits
            <4>2. i > 1
                BY <4>1 DEF AskEvents
            <4>3. i - 1 + n \in 1 .. Len(events) /\ i - 1 + n > n /\ (i - 1 + n) - n = i - 1
                BY <1>1, <2>1, <4>2
            <4>4. events'[i - 1] = events[i - 1 + n]
                BY <4>3, QueueMap
            <4> QED
                BY <4>1, <4>2, <4>4
        <3> QED
            BY <2>1, <3>1, <3>2
    <2>2. CASE events'[i].id \in ids
        BY <2>2 DEF AskEvents
    <2> QED
        BY <2>1, <2>2, QueueMap
<1>6. ASSUME OneAsked PROVE OneAsked'
    <2>1. ASSUME NEW i \in Asks', NEW k \in Asks' PROVE i = k /\ events'[i].id # "NotifyCanceled"
        <3>1. i + n \in Asks /\ k + n \in Asks /\ events'[i] = events[i + n]
            BY <1>2
        <3>2. i + n = k + n /\ events[i + n].id # "NotifyCanceled"
            BY <1>6, <3>1 DEF OneAsked
        <3>3. i \in Int /\ k \in Int
            BY DEF Asks
        <3> QED
            BY <3>1, <3>2, <3>3
    <2>2. DocsOnTheWay' # {} => Asks' = {}
        BY <1>2, <1>6 DEF OneAsked, NoNewDocs
    <2>3. \A m, d \in DocsOnTheWay' : m = d /\ net'[m] = 1
        BY <1>6 DEF OneAsked, NoNewDocs
    <2> QED
        BY <2>1, <2>2, <2>3 DEF OneAsked
<1>7. ASSUME AboutToHalt PROVE AboutToHalt'
    <2>1. PICK i \in Asks : /\ events[i].id = "NotifyCanceled"
                            /\ \A k \in 1 .. i - 1 : events[k].id # "ReceivedJobDocument"
        BY <1>7 DEF AboutToHalt
    <2>2. i - n \in Asks' /\ events'[i - n].id = "NotifyCanceled"
        BY <1>4, <2>1
    <2>3. ASSUME NEW k \in 1 .. i - n - 1 PROVE events'[k].id # "ReceivedJobDocument"
        <3>1. k + n \in 1 .. Len(events) /\ k + n > n /\ (k + n) - n = k /\ k + n \in 1 .. i - 1
            BY <1>1, <1>3
        <3>2. events'[k] = events[k + n]
            BY <3>1, QueueMap
        <3> QED
            BY <2>1, <3>1, <3>2
    <2> QED
        BY <2>2, <2>3 DEF AboutToHalt
<1> QED
    BY <1>5, <1>6, <1>7 DEF NotifyWaits, SingleRequest

(* While a job is asked for, what comes with a download cannot happen, and what can
   changes nothing of it. *)
LEMMA QuietOneOrOther ==
    ASSUME TypeInv, TokenInv, Asking,
           \/ WaitForJob \/ SubscriptionRefused \/ RequestFileBlock \/ IgnoreFileBlock
           \/ WriteFileBlock \/ CloseFile \/ CloseFileFailed \/ ActivateImage \/ Timeout
           \/ Cloud \/ UNCHANGED vars
           \/ \E m \in BagToSet(net) : Ignore(m) \/ BlockArrived(m) \/ CancelArrived(m)
    PROVE  OneOrOther'
<1> USE DEF taskVars, jobVars, palVars
<1>1. ~Loading /\ globalJob = NoJob /\ (fields = NoJob \/ palError)
    BY DEF TokenInv, OneOrOther
<1>2. CASE RequestFileBlock \/ CloseFile \/ CloseFileFailed \/ ActivateImage
    <2>1. \E name \in LoadEvents : Receive(name)
        BY <1>2 DEF RequestFileBlock, CloseFile, CloseFileFailed, ActivateImage, LoadEvents
    <2> QED
        BY <2>1, ReceiveTells DEF LoadEvents, EventIds
<1>3. CASE WriteFileBlock
    BY <1>1, <1>3 DEF WriteFileBlock
<1>4. ASSUME NEW m, CancelArrived(m) PROVE FALSE
    BY <1>1, <1>4 DEF CancelArrived, Unhandled
<1>5. CASE \/ WaitForJob \/ SubscriptionRefused \/ IgnoreFileBlock \/ Timeout \/ Cloud
           \/ UNCHANGED vars \/ \E m \in BagToSet(net) : Ignore(m) \/ BlockArrived(m)
    <2>1. \/ QueueStep(0, {}) \/ QueueStep(1, {}) \/ QueueStep(0, {"ReceivedFileBlock"})
        BY <1>5, HandlerQueue, OtherQueue, BlockArrivedQueue, Unqueued DEF vars, TypeInv
    <2>2. UNCHANGED <<globalJob, fields, palError>> /\ (UNCHANGED pc \/ pc' = "halted")
        <3>1. CASE WaitForJob \/ SubscriptionRefused \/ IgnoreFileBlock \/ Timeout
            BY <3>1 DEF WaitForJob, SubscriptionRefused, IgnoreFileBlock, Timeout
        <3>2. CASE Cloud \/ UNCHANGED vars
            BY <3>2 DEF Cloud, CreateJob, CancelJob, Lose, LoseSession, vars
        <3>3. CASE \E m \in BagToSet(net) : Ignore(m) \/ BlockArrived(m)
            BY <3>3 DEF Ignore, BlockArrived
        <3> QED
            BY <1>5, <3>1, <3>2, <3>3
    <2>3. pc' \notin {"cancelDelay", "resetting"}
        BY <1>1, <2>2 DEF Loading
    <2>4. ~Loading'
        BY <1>1, <2>1, <2>3, NothingLoaded DEF LoadEvents
    <2> QED
        BY <1>1, <2>2, <2>4 DEF OneOrOther
<1> QED
    BY <1>2, <1>3, <1>4, <1>5

(* The steps that neither ask for a job nor take an answer. *)
LEMMA NextQuiet ==
    ASSUME TypeInv, TokenInv,
           \/ WaitForJob \/ SubscriptionRefused \/ RequestFileBlock \/ IgnoreFileBlock
           \/ WriteFileBlock \/ CloseFile \/ CloseFileFailed \/ ActivateImage \/ Timeout
           \/ Cloud \/ UNCHANGED vars
           \/ \E m \in BagToSet(net) : Ignore(m) \/ BlockArrived(m) \/ CancelArrived(m)
    PROVE  OneOrOther' /\ NotifyWaits' /\ SingleRequest'
<1> USE DEF taskVars, jobVars, cloudVars
<1>1. NoNewDocs
    BY NoDocSent DEF MQTTAgentTask, Deliver
<1>2. CASE \/ WaitForJob \/ RequestFileBlock \/ IgnoreFileBlock \/ WriteFileBlock \/ CloseFile
           \/ CloseFileFailed \/ ActivateImage
    <2>1. \/ QueueStep(1, {}) \/ QueueStep(1, {"ActivateImage"})
          \/ QueueStep(1, {"CloseFile"}) \/ QueueStep(1, {"RequestFileBlock"})
        BY <1>2, HandlerQueue, WrittenQueue
    <2>2. \E name \in EventIds \ (AskEvents \cup {"JobCanceled"}) : Receive(name)
        BY <1>2 DEF WaitForJob, RequestFileBlock, IgnoreFileBlock, WriteFileBlock, CloseFile,
                    CloseFileFailed, ActivateImage, ReceiveFileBlock, EventIds, AskEvents
    <2>3. events[1].id \notin AskEvents \cup {"JobCanceled"} /\ pc = "loop"
        BY <2>2, ReceiveTells
    <2>4. UNCHANGED notifyTopic
        BY <1>2 DEF WaitForJob, RequestFileBlock, IgnoreFileBlock, WriteFileBlock, CloseFile,
                    CloseFileFailed, ActivateImage
    <2>5. NotifyWaits' /\ SingleRequest'
        BY <1>1, <2>1, <2>3, <2>4, QuietStep DEF TokenInv, AskEvents
    <2>6. Asking' => Asking
        BY <1>1, <2>1, <2>3, <2>4, NothingAsked DEF AskEvents
    <2> QED
        BY <1>2, <2>5, <2>6, QuietOneOrOther, NotAsking
<1>3. CASE \/ SubscriptionRefused \/ Timeout \/ Cloud \/ UNCHANGED vars
           \/ \E m \in BagToSet(net) : Ignore(m) \/ BlockArrived(m) \/ CancelArrived(m)
    <2>1. \/ QueueStep(0, {}) \/ QueueStep(0, {"ReceivedFileBlock"})
          \/ QueueStep(0, {"JobCanceled"})
        BY <1>3, HandlerQueue, OtherQueue, BlockArrivedQueue, Unqueued DEF vars, TypeInv
    <2>2. UNCHANGED notifyTopic /\ (UNCHANGED pc \/ pc' = "halted")
        <3>1. CASE SubscriptionRefused \/ Timeout
            BY <3>1 DEF SubscriptionRefused, Timeout
        <3>2. CASE Cloud \/ UNCHANGED vars
            BY <3>2 DEF Cloud, CreateJob, CancelJob, Lose, LoseSession, vars
        <3>3. CASE \E m \in BagToSet(net) : Ignore(m) \/ BlockArrived(m) \/ CancelArrived(m)
            BY <3>3 DEF Ignore, BlockArrived, CancelArrived
        <3> QED
            BY <1>3, <3>1, <3>2, <3>3
    <2>3. NotifyWaits' /\ SingleRequest'
        BY <1>1, <2>1, <2>2, QuietStep DEF TokenInv, AskEvents
    <2>4. Asking' => Asking
        BY <1>1, <2>1, <2>2, NothingAsked DEF AskEvents
    <2> QED
        BY <1>3, <2>3, <2>4, QuietOneOrOther, NotAsking
<1> QED
    BY <1>2, <1>3

(* The document that is looked at answered the only request. *)
LEMMA Answered ==
    ASSUME TypeInv, TokenInv, Receive("ReceivedJobDocument")
    PROVE  /\ ~notifyTopic /\ DocsOnTheWay = {} /\ ~Loading /\ globalJob = NoJob /\ pc = "loop"
           /\ \A i \in 1 .. Len(events) : i > 1 =>
                 events[i].id \in {"WaitForJob", "ReceivedFileBlock"}
<1>1. /\ 1 \in Asks /\ ~Loading /\ globalJob = NoJob /\ pc = "loop"
      /\ events[1].id = "ReceivedJobDocument" /\ Len(events) \in Nat \ {0}
    BY ReceiveTells DEF EventIds, AskEvents
<1>2. ~notifyTopic
    <2>1. 1 \in 1 .. Len(events)
        BY <1>1
    <2> QED
        BY <1>1, <2>1 DEF TokenInv, NotifyWaits
<1>3. ~AboutToHalt
    <2> SUFFICES ASSUME NEW i \in Asks, events[i].id = "NotifyCanceled",
                        \A k \in 1 .. i - 1 : events[k].id # "ReceivedJobDocument"
                 PROVE  FALSE
        BY DEF AboutToHalt
    <2>1. i \in 1 .. Len(events) /\ i # 1
        BY <1>1 DEF Asks
    <2>2. 1 \in 1 .. i - 1
        BY <1>1, <2>1
    <2> QED
        BY <1>1, <2>2
<1>4. OneAsked
    BY <1>1, <1>2, <1>3 DEF TokenInv, SingleRequest
<1>5. DocsOnTheWay = {}
    BY <1>1, <1>4 DEF OneAsked
<1>6. ASSUME NEW i \in 1 .. Len(events), i > 1
      PROVE  events[i].id \in {"WaitForJob", "ReceivedFileBlock"}
    <2>1. events[i].id \in EventIds
        BY QueueTyped, QueuedIsEvent DEF Events, EventIds
    <2>2. \A k \in 1 .. Len(events) : events[k].id \notin LoadEvents
        BY <1>1 DEF Loading
    <2>3. events[i].id \notin AskEvents
        <3> SUFFICES ASSUME events[i].id \in AskEvents PROVE FALSE
            OBVIOUS
        <3>1. \A k \in 1 .. i - 1 : k \in 1 .. Len(events)
            BY <1>1
        <3>2. i \in Asks
            BY <2>2, <3>1 DEF Asks, LoadEvents
        <3> QED
            BY <1>1, <1>4, <1>6, <3>2 DEF OneAsked
    <2> QED
        BY <2>1, <2>2, <2>3 DEF EventIds, AskEvents, LoadEvents
<1> QED
    BY <1>1, <1>2, <1>5, <1>6

(* With the answer taken, a job is not asked for any more. *)
LEMMA AnswerTaken ==
    ASSUME TypeInv, TokenInv,
           \/ DropJobDocument \/ SameJobDocument \/ JobAccepted \/ FileCreateFailed
           \/ JobDocParseFailed
    PROVE  ~Asking'
<1>1. Receive("ReceivedJobDocument") /\ UNCHANGED notifyTopic
    BY DEF DropJobDocument, SameJobDocument, JobAccepted, FileCreateFailed, JobDocParseFailed,
           NewJobDocument, ReceiveDocument, jobVars
<1>2. /\ ~notifyTopic /\ DocsOnTheWay = {}
      /\ \A i \in 1 .. Len(events) : i > 1 => events[i].id \in {"WaitForJob", "ReceivedFileBlock"}
    BY <1>1, Answered
<1>3. DocsOnTheWay' = {}
    BY <1>2, NoDocSent DEF NoNewDocs
<1>4. QueueStep(1, {}) \/ QueueStep(1, {"RequestFileBlock"})
    BY HandlerQueue
<1>5. ASSUME NEW i \in Asks' PROVE FALSE
    <2>1. i \in 1 .. Len(events') /\ events'[i].id \in AskEvents
        BY DEF Asks
    <2>2. i + 1 \in 1 .. Len(events) /\ events'[i] = events[i + 1]
        BY <1>4, <2>1, QueueMap DEF AskEvents
    <2>3. i + 1 > 1
        BY <2>1
    <2> QED
        BY <1>2, <2>1, <2>2, <2>3 DEF AskEvents
<1> QED
    BY <1>1, <1>2, <1>3, <1>5 DEF Asking

(* The request for a job, answered or not. *)
LEMMA NextRequest ==
    ASSUME TypeInv, TokenInv, RequestJobDocument
    PROVE  OneOrOther' /\ NotifyWaits' /\ SingleRequest'
<1>1. Receive("RequestJobDocument") /\ UNCHANGED <<pc, notifyTopic, globalJob, fields, palError>>
    BY DEF RequestJobDocument, jobVars, palVars
<1>2. /\ 1 \in Asks /\ ~Loading /\ globalJob = NoJob /\ (fields = NoJob \/ palError)
      /\ pc = "loop" /\ events[1].id = "RequestJobDocument" /\ Len(events) \in Nat \ {0}
    BY <1>1, ReceiveTells DEF EventIds, AskEvents
<1>3. ~notifyTopic /\ (OneAsked \/ AboutToHalt)
    <2>1. 1 \in 1 .. Len(events)
        BY <1>2
    <2> QED
        BY <1>2, <2>1 DEF TokenInv, NotifyWaits, SingleRequest
<1>4. QueueStep(1, {})
    BY HandlerQueue
<1>5. ~Loading'
    BY <1>1, <1>2, <1>4, NothingLoaded
<1>6. CASE OneAsked
    <2>1. DocsOnTheWay = {}
        BY <1>2, <1>6 DEF OneAsked
    <2>2. Asks' = {}
        <3> SUFFICES ASSUME NEW i \in Asks' PROVE FALSE
            OBVIOUS
        <3>1. i + 1 \in Asks /\ i \in 1 .. Len(events')
            BY <1>2, <1>4, AsksMap DEF Asks
        <3>2. i + 1 = 1
            BY <1>2, <1>6, <3>1 DEF OneAsked
        <3> QED
            BY <3>1, <3>2
    <2>3. \A m, d \in DocsOnTheWay' : m = d /\ net'[m] = 1
        <3> DEFINE told == Doc(NextJob)
        <3>1. UNCHANGED net \/ net' = net (+) SetToBag({told})
            BY DEF RequestJobDocument
        <3>2. told.type = "doc"
            BY DEF Doc
        <3> HIDE DEF told
        <3>3. CASE UNCHANGED net
            BY <2>1, <3>3 DEF DocsOnTheWay, BagToSet
        <3>4. CASE net' = net (+) SetToBag({told})
            <4>1. BagToSet(net') = BagToSet(net) \cup BagToSet(SetToBag({told}))
                BY <3>4, NetProperties
            <4>2. BagToSet(SetToBag({told})) = {told}
                BY SetToBagProperties
            <4>3. \A m \in DocsOnTheWay' : m = told
                BY <2>1, <4>1, <4>2 DEF DocsOnTheWay
            <4>4. told \notin DOMAIN net
                BY <2>1, <3>2 DEF DocsOnTheWay, BagToSet
            <4>5. net'[told] = 0 + 1
                BY <3>4, <4>4 DEF (+), SetToBag
            <4> QED
                BY <4>3, <4>5
        <3> QED
            BY <3>1, <3>3, <3>4
    <2>4. OneAsked'
        BY <2>2, <2>3 DEF OneAsked
    <2> QED
        BY <1>1, <1>2, <1>3, <1>5, <2>4 DEF OneOrOther, NotifyWaits, SingleRequest
<1>7. CASE AboutToHalt
    <2>1. PICK i \in Asks : /\ events[i].id = "NotifyCanceled"
                            /\ \A k \in 1 .. i - 1 : events[k].id # "ReceivedJobDocument"
        BY <1>7 DEF AboutToHalt
    <2>2. i \in 1 .. Len(events) /\ i > 1
        <3>1. i \in 1 .. Len(events) /\ i # 1
            BY <1>2, <2>1 DEF Asks
        <3> QED
            BY <1>2, <3>1
    <2>3. i - 1 \in Asks' /\ events'[i - 1] = events[i]
        BY <1>2, <1>4, <2>2, AsksMap
    <2>4. ASSUME NEW k \in 1 .. i - 1 - 1 PROVE events'[k].id # "ReceivedJobDocument"
        <3>1. k + 1 \in 1 .. Len(events) /\ k + 1 > 1 /\ (k + 1) - 1 = k /\ k + 1 \in 1 .. i - 1
            BY <1>2, <2>2
        <3>2. events'[k] = events[k + 1]
            BY <1>4, <3>1, QueueMap
        <3> QED
            BY <2>1, <3>1, <3>2
    <2>5. AboutToHalt'
        BY <2>1, <2>3, <2>4 DEF AboutToHalt
    <2> QED
        BY <1>1, <1>2, <1>3, <1>5, <2>5 DEF OneOrOther, NotifyWaits, SingleRequest
<1> QED
    BY <1>3, <1>6, <1>7

(* The end of a wait for a notification, or the assertion. *)
LEMMA NextNotifyCanceled ==
    ASSUME TypeInv, TokenInv, NotifyCanceled
    PROVE  OneOrOther' /\ NotifyWaits' /\ SingleRequest'
<1>1. /\ Receive("NotifyCanceled") /\ ~notifyTopic'
      /\ pc' = IF notifyTopic THEN "loop" ELSE "halted"
      /\ UNCHANGED <<globalJob, fields, palError>>
    BY DEF NotifyCanceled, palVars
<1>2. /\ 1 \in Asks /\ ~Loading /\ globalJob = NoJob /\ (fields = NoJob \/ palError)
      /\ events[1].id = "NotifyCanceled" /\ Len(events) \in Nat \ {0}
    BY <1>1, ReceiveTells DEF EventIds, AskEvents
<1>3. QueueStep(1, {}) /\ NoNewDocs
    BY HandlerQueue, NoDocSent
<1>4. ~Loading'
    BY <1>1, <1>2, <1>3, NothingLoaded
<1>5. CASE ~notifyTopic
    BY <1>1, <1>2, <1>4, <1>5 DEF OneOrOther, NotifyWaits, SingleRequest
<1>6. CASE notifyTopic
    <2>1. /\ DocsOnTheWay = {}
          /\ \A i \in 1 .. Len(events) :
                /\ events[i].id # "ReceivedJobDocument"
                /\ events[i].id = "RequestJobDocument" =>
                      i > 1 /\ events[i - 1].id = "NotifyCanceled"
        BY <1>6 DEF TokenInv, NotifyWaits
    <2>2. DocsOnTheWay' = {}
        BY <1>3, <2>1 DEF NoNewDocs
    <2>3. \A i \in Asks' : i \in 1 .. Len(events') /\ i + 1 \in Asks /\ events'[i] = events[i + 1]
        BY <1>2, <1>3, AsksMap DEF Asks
    <2>4. CASE \E i \in Asks' : events'[i].id = "NotifyCanceled"
        <3>1. \A k \in 1 .. Len(events') : events'[k].id # "ReceivedJobDocument"
            BY <1>3, <2>1, QueueMap
        <3>2. ASSUME NEW i \in Asks', NEW k \in 1 .. i - 1 PROVE k \in 1 .. Len(events')
            <4>1. i \in 1 .. Len(events') /\ i + 1 \in 1 .. Len(events)
                BY <2>3 DEF Asks
            <4>2. k + 1 \in 1 .. Len(events) /\ k + 1 > 1 /\ (k + 1) - 1 = k
                BY <1>2, <4>1
            <4> QED
                BY <1>3, <4>2, QueueMap
        <3>3. AboutToHalt'
            BY <2>4, <3>1, <3>2 DEF AboutToHalt
        <3> QED
            BY <1>1, <1>2, <1>4, <3>3 DEF OneOrOther, NotifyWaits, SingleRequest
    <2>5. CASE \A i \in Asks' : events'[i].id # "NotifyCanceled"
        <3>1. ASSUME NEW i \in Asks' PROVE i = 1
            <4>1. /\ i \in 1 .. Len(events') /\ i + 1 \in Asks /\ events'[i] = events[i + 1]
                  /\ i + 1 \in 1 .. Len(events) /\ events[i + 1].id \in AskEvents
                BY <2>3 DEF Asks
            <4>2. events[i + 1].id = "RequestJobDocument"
                BY <2>1, <2>5, <4>1 DEF AskEvents
            <4>3. events[i].id = "NotifyCanceled"
                BY <2>1, <4>1, <4>2
            <4>4. ASSUME i > 1 PROVE FALSE
                <5>1. i \in 1 .. Len(events)
                    BY <1>2, <4>1
                <5>2. \A k \in 1 .. i - 1 : k \in 1 .. i + 1 - 1
                    BY <4>1
                <5>3. i \in Asks
                    BY <4>1, <4>3, <5>1, <5>2 DEF Asks, AskEvents
                <5>4. i - 1 \in Asks' /\ events'[i - 1] = events[i]
                    BY <1>2, <1>3, <4>4, <5>3, AsksMap
                <5> QED
                    BY <2>5, <4>3, <5>4
            <4> QED
                BY <4>1, <4>4
        <3>2. OneAsked'
            BY <2>2, <2>5, <3>1 DEF OneAsked
        <3> QED
            BY <1>1, <1>2, <1>4, <3>2 DEF OneOrOther, NotifyWaits, SingleRequest
    <2> QED
        BY <2>4, <2>5
<1> QED
    BY <1>5, <1>6

(* The agent waits for the next job. *)
LEMMA NextNoPendingJob ==
    ASSUME TypeInv, TokenInv, NoPendingJob
    PROVE  OneOrOther' /\ NotifyWaits' /\ SingleRequest'
<1>1. /\ Receive("ReceivedJobDocument") /\ notifyTopic' /\ fields' = NoJob
      /\ UNCHANGED <<pc, globalJob>>
    BY DEF NoPendingJob, ReceiveDocument
<1>2. /\ DocsOnTheWay = {} /\ ~Loading /\ globalJob = NoJob /\ pc = "loop"
      /\ \A i \in 1 .. Len(events) : i > 1 => events[i].id \in {"WaitForJob", "ReceivedFileBlock"}
    BY <1>1, Answered
<1>3. QueueStep(1, {"WaitForJob"}) /\ NoNewDocs
    BY HandlerQueue, NoDocSent
<1>4. ~Loading'
    BY <1>1, <1>2, <1>3, NothingLoaded DEF LoadEvents
<1>5. ASSUME NEW i \in 1 .. Len(events') PROVE events'[i].id \in {"WaitForJob", "ReceivedFileBlock"}
    <2>1. \/ i + 1 \in 1 .. Len(events) /\ events'[i] = events[i + 1]
          \/ events'[i].id = "WaitForJob"
        BY <1>3, QueueMap
    <2>2. i + 1 > 1
        OBVIOUS
    <2> QED
        BY <1>2, <2>1, <2>2
<1>6. NotifyWaits'
    BY <1>2, <1>3, <1>5 DEF NotifyWaits, NoNewDocs
<1> QED
    BY <1>1, <1>2, <1>4, <1>6 DEF OneOrOther, SingleRequest

(* A notification arrives: the wait is to end, and a request to follow. *)
LEMMA NextNotifyArrived ==
    ASSUME TypeInv, TokenInv, NEW m \in BagToSet(net), NotifyArrived(m)
    PROVE  OneOrOther' /\ NotifyWaits' /\ SingleRequest'
<1>1. notifyTopic /\ UNCHANGED <<notifyTopic, pc, globalJob, fields, palError>>
    BY DEF NotifyArrived, Unhandled, jobVars, palVars
<1>2. ~Loading /\ globalJob = NoJob /\ (fields = NoJob \/ palError)
    BY <1>1 DEF TokenInv, OneOrOther, Asking
<1>3. /\ QueueStep(0, {"NotifyCanceled", "RequestJobDocument"})
      /\ \A i \in 1 .. Len(events') :
             i > Len(events) /\ events'[i].id = "RequestJobDocument" =>
                 i > Len(events) + 1 /\ events'[i - 1].id = "NotifyCanceled"
    BY NotifiedQueue DEF TypeInv
<1>4. NoNewDocs
    BY NoDocSent DEF MQTTAgentTask, Deliver
<1>5. ~Loading'
    <2>1. pc' \notin {"cancelDelay", "resetting"}
        BY <1>1, <1>2 DEF Loading
    <2> QED
        BY <1>2, <1>3, <2>1, NothingLoaded DEF LoadEvents
<1>6. Len(events) \in Nat
    BY QueueTyped
<1>7. ASSUME NEW i \in 1 .. Len(events')
      PROVE  /\ events'[i].id # "ReceivedJobDocument"
             /\ events'[i].id = "RequestJobDocument" =>
                   i > 1 /\ events'[i - 1].id = "NotifyCanceled"
    <2>1. CASE i <= Len(events)
        <3>1. i \in 1 .. Len(events) /\ events'[i] = events[i]
            BY <1>3, <1>6, <2>1 DEF QueueStep
        <3>2. /\ events[i].id # "ReceivedJobDocument"
              /\ events[i].id = "RequestJobDocument" => i > 1 /\ events[i - 1].id = "NotifyCanceled"
            BY <1>1, <3>1 DEF TokenInv, NotifyWaits
        <3>3. i > 1 => events'[i - 1] = events[i - 1]
            <4>1. i > 1 => i - 1 \in 1 .. Len(events) - 0 /\ (i - 1) + 0 = i - 1
                BY <1>6, <3>1
            <4> QED
                BY <1>3, <4>1 DEF QueueStep
        <3> QED
            BY <3>1, <3>2, <3>3
    <2>2. CASE ~(i <= Len(events))
        <3>1. events'[i].id \in {"NotifyCanceled", "RequestJobDocument"}
            BY <1>3, <1>6, <2>2 DEF QueueStep
        <3>2. i > Len(events)
            BY <1>6, <2>2
        <3>3. events'[i].id = "RequestJobDocument" =>
                 i > Len(events) + 1 /\ events'[i - 1].id = "NotifyCanceled"
            BY <1>3, <3>2
        <3>4. i > Len(events) + 1 => i > 1
            BY <1>6
        <3> QED
            BY <3>1, <3>3, <3>4
    <2> QED
        BY <2>1, <2>2
<1>8. DocsOnTheWay' = {}
    BY <1>1, <1>4 DEF TokenInv, NotifyWaits, NoNewDocs
<1>9. NotifyWaits'
    BY <1>7, <1>8 DEF NotifyWaits
<1> QED
    BY <1>1, <1>2, <1>5, <1>9 DEF OneOrOther, SingleRequest

(* The document arrives: it takes the place of the request. *)
LEMMA NextDocumentArrived ==
    ASSUME TypeInv, TokenInv, NEW m \in BagToSet(net), JobDocumentArrived(m)
    PROVE  OneOrOther' /\ NotifyWaits' /\ SingleRequest'
<1>1. /\ m \in DocsOnTheWay /\ pc # "halted"
      /\ UNCHANGED <<notifyTopic, pc, globalJob, fields, palError>>
      /\ net' = net (-) SetToBag({m}) /\ events' = Send(events, Event("ReceivedJobDocument"))
    BY DEF JobDocumentArrived, Running, Take, DocsOnTheWay, palVars
<1>2. /\ ~notifyTopic /\ ~Loading /\ globalJob = NoJob /\ (fields = NoJob \/ palError)
      /\ OneAsked \/ AboutToHalt
    BY <1>1 DEF TokenInv, OneOrOther, Asking, NotifyWaits, SingleRequest
<1>3. QueueStep(0, {"ReceivedJobDocument"}) /\ NoNewDocs
    BY OtherQueue, NoDocSent DEF MQTTAgentTask, Deliver
<1>4. ~Loading'
    <2>1. pc' \notin {"cancelDelay", "resetting"}
        BY <1>1, <1>2 DEF Loading
    <2> QED
        BY <1>2, <1>3, <2>1, NothingLoaded DEF LoadEvents
<1>5. Len(events) \in Nat
    BY QueueTyped
<1>6. Len(events') \in {Len(events), Len(events) + 1}
    <2>1. Event("ReceivedJobDocument") \in Events
        BY EventTyped DEF EventIds
    <2>2. events \in Seq(Events) /\ Len(events) <= MaxMessages
        BY DEF TypeInv, TypeOK
    <2>3. Len(Send(events, Event("ReceivedJobDocument"))) \in {Len(events), Len(events) + 1}
        BY <2>1, <2>2, SendProperties
    <2> QED
        BY <1>1, <2>3
<1>7. \A i \in Asks' : \/ i \in Asks /\ events'[i] = events[i]
                       \/ i = Len(events) + 1 /\ events'[i].id = "ReceivedJobDocument"
    <2> SUFFICES ASSUME NEW i \in Asks'
                 PROVE  \/ i \in Asks /\ events'[i] = events[i]
                        \/ i = Len(events) + 1 /\ events'[i].id = "ReceivedJobDocument"
        OBVIOUS
    <2>1. i \in 1 .. Len(events') /\ i + 0 = i
        BY DEF Asks
    <2>2. \/ i + 0 \in Asks /\ events'[i] = events[i + 0]
          \/ ~(i + 0 <= Len(events)) /\ events'[i].id \in {"ReceivedJobDocument"}
        BY <1>3, AsksMap
    <2> QED
        BY <1>5, <1>6, <2>1, <2>2
<1>8. ASSUME OneAsked PROVE OneAsked'
    <2>1. Asks = {}
        BY <1>1, <1>8 DEF OneAsked
    <2>2. DocsOnTheWay' = {}
        <3>1. \A d \in DocsOnTheWay : d = m /\ net[m] = 1
            BY <1>1, <1>8 DEF OneAsked
        <3>2. m \notin BagToSet(net')
            BY <1>1, <3>1, TakenDoc
        <3> QED
            BY <1>3, <3>1, <3>2 DEF NoNewDocs, DocsOnTheWay
    <2> QED
        BY <1>7, <2>1, <2>2 DEF OneAsked
<1>9. ASSUME AboutToHalt PROVE AboutToHalt'
    <2>1. PICK i \in Asks : /\ events[i].id = "NotifyCanceled"
                            /\ \A k \in 1 .. i - 1 : events[k].id # "ReceivedJobDocument"
        BY <1>9 DEF AboutToHalt
    <2>2. i \in 1 .. Len(events) /\ i > 0 /\ i - 0 = i
        BY <1>5 DEF Asks
    <2>3. i \in Asks' /\ events'[i] = events[i]
        BY <1>3, <2>2, AsksMap
    <2>4. ASSUME NEW k \in 1 .. i - 1 PROVE events'[k] = events[k]
        <3>1. k \in 1 .. Len(events) /\ k > 0 /\ k - 0 = k
            BY <1>5, <2>2
        <3> QED
            BY <1>3, <3>1, QueueMap
    <2> QED
        BY <2>1, <2>3, <2>4 DEF AboutToHalt
<1> QED
    BY <1>1, <1>2, <1>4, <1>8, <1>9 DEF OneOrOther, NotifyWaits, SingleRequest

(* A new request, after a job that was canceled, or after a reset, or none at all, with
   the queue deleted. *)
LEMMA NextFresh ==
    ASSUME TypeInv, TokenInv, CleanUpCanceledJob \/ Reset \/ JobCanceled
    PROVE  OneOrOther' /\ NotifyWaits' /\ SingleRequest'
<1>1. CASE CleanUpCanceledJob
    <2>1. /\ pc = "cancelDelay" /\ pc' = "loop" /\ globalJob' = NoJob /\ palError'
          /\ UNCHANGED <<notifyTopic, net>>
          /\ events' = Send(events, Event("RequestJobDocument"))
        BY <1>1 DEF CleanUpCanceledJob, cloudVars
    <2>2. \A i \in 1 .. Len(events) : events[i].id \in {"ReceivedFileBlock", "JobCanceled"}
        BY <2>1 DEF TokenInv, CancelWait
    <2>3. ~notifyTopic /\ DocsOnTheWay = {} /\ Asks = {}
        BY <2>1 DEF TokenInv, OneOrOther, Loading, Asking
    <2>4. DocsOnTheWay' = {}
        BY <2>1, <2>3 DEF DocsOnTheWay, BagToSet
    <2>5. QueueStep(0, {"RequestJobDocument"})
        BY <1>1, OtherQueue
    <2>6. Len(events) \in Nat
        BY QueueTyped
    <2>7. Len(events') \in {Len(events), Len(events) + 1}
        <3>1. Event("RequestJobDocument") \in Events
            BY EventTyped DEF EventIds
        <3>2. events \in Seq(Events) /\ Len(events) <= MaxMessages
            BY DEF TypeInv, TypeOK
        <3>3. Len(Send(events, Event("RequestJobDocument"))) \in {Len(events), Len(events) + 1}
            BY <3>1, <3>2, SendProperties
        <3> QED
            BY <2>1, <3>3
    <2>8. ASSUME NEW i \in Asks'
          PROVE  i = Len(events) + 1 /\ events'[i].id = "RequestJobDocument"
        <3>1. i \in 1 .. Len(events') /\ i + 0 = i
            BY DEF Asks
        <3>2. \/ i + 0 \in Asks
              \/ ~(i + 0 <= Len(events)) /\ events'[i].id \in {"RequestJobDocument"}
            BY <2>5, AsksMap
        <3> QED
            BY <2>3, <2>6, <2>7, <3>1, <3>2
    <2>9. OneAsked'
        BY <2>4, <2>8 DEF OneAsked
    <2>10. ASSUME NEW i \in Asks' PROVE ~Loading'
        <3>1. i = Len(events) + 1
            BY <2>8
        <3>2. \A k \in 1 .. Len(events) : events'[k] = events[k]
            BY <2>5, <2>6 DEF QueueStep
        <3>3. \A k \in 1 .. Len(events) : events'[k].id = "ReceivedFileBlock"
            <4>1. \A k \in 1 .. Len(events) : k \in 1 .. i - 1
                BY <2>6, <3>1
            <4>2. \A k \in 1 .. i - 1 : events'[k].id # "JobCanceled"
                BY DEF Asks
            <4> QED
                BY <2>2, <3>2, <4>1, <4>2
        <3>4. ASSUME NEW k \in 1 .. Len(events')
              PROVE  events'[k].id \in {"ReceivedFileBlock", "RequestJobDocument"}
            <4>1. k \in 1 .. Len(events) \/ k = i
                BY <2>6, <2>7, <3>1
            <4> QED
                BY <2>8, <3>3, <4>1
        <3> QED
            BY <2>1, <3>4 DEF Loading, LoadEvents
    <2> QED
        BY <2>1, <2>3, <2>4, <2>9, <2>10
           DEF OneOrOther, Asking, NotifyWaits, SingleRequest
<1>2. CASE Reset
    <2>1. /\ pc' = "loop" /\ ~notifyTopic' /\ net' = EmptyBag
          /\ globalJob' = NoJob /\ fields' = NoJob
          /\ events' = <<Event("RequestJobDocument")>>
        BY <1>2 DEF Reset
    <2>2. DocsOnTheWay' = {}
        BY <2>1, SetToBagProperties DEF DocsOnTheWay
    <2>3. Len(events') = 1 /\ events'[1].id = "RequestJobDocument"
        BY <2>1 DEF Event
    <2>4. \A i \in 1 .. Len(events') : i = 1
        BY <2>3
    <2>5. ~Loading' /\ OneAsked'
        BY <2>1, <2>2, <2>3, <2>4 DEF Loading, LoadEvents, OneAsked, Asks
    <2> QED
        BY <2>1, <2>5 DEF OneOrOther, NotifyWaits, SingleRequest
<1>3. CASE JobCanceled
    <2>1. Receive("JobCanceled") /\ events' = <<>> /\ UNCHANGED <<notifyTopic, net>>
        BY <1>3 DEF JobCanceled, jobVars
    <2>2. ~Asking
        BY <2>1, ReceiveTells DEF LoadEvents, EventIds
    <2>3. ~Asking'
        BY <2>1, <2>2 DEF Asking, Asks, DocsOnTheWay, BagToSet
    <2> QED
        BY <2>3, NotAsking
<1> QED
    BY <1>1, <1>2, <1>3

(* Nothing else happens to the queue while the agent waits after a cancellation. *)
LEMMA NextCancelWait ==
    ASSUME TypeInv, TokenInv, [Next]_vars, ~RejectFileBlock
    PROVE  pc' # "failDelay" /\ CancelWait'
<1> USE DEF TokenInv, CancelWait, taskVars, cloudVars
<1>1. CASE \/ RequestJobDocument \/ WaitForJob \/ NotifyCanceled \/ DropJobDocument
           \/ NoPendingJob \/ SameJobDocument \/ JobAccepted \/ FileCreateFailed
           \/ SubscriptionRefused \/ JobDocParseFailed \/ RequestFileBlock \/ IgnoreFileBlock
           \/ WriteFileBlock \/ CloseFile \/ CloseFileFailed \/ ActivateImage
           \/ RequestAfterFailure \/ CleanUpCanceledJob \/ Timeout \/ Reset
    <2>1. pc' \in {"loop", "halted", "resetting"}
        <3>1. CASE \/ RequestJobDocument \/ WaitForJob \/ NotifyCanceled \/ RequestFileBlock
                   \/ CloseFile \/ CloseFileFailed \/ ActivateImage
                   \/ RequestAfterFailure \/ CleanUpCanceledJob \/ Timeout \/ Reset
            BY <3>1 DEF RequestJobDocument, WaitForJob, NotifyCanceled, RequestFileBlock,
                        CloseFile, CloseFileFailed, ActivateImage, RequestAfterFailure,
                        CleanUpCanceledJob, Timeout, Reset, Receive
        <3>2. CASE \/ DropJobDocument \/ NoPendingJob \/ SameJobDocument \/ JobAccepted
                   \/ FileCreateFailed \/ SubscriptionRefused \/ JobDocParseFailed
                   \/ IgnoreFileBlock \/ WriteFileBlock
            BY <3>2 DEF DropJobDocument, NoPendingJob, SameJobDocument, JobAccepted,
                        FileCreateFailed, SubscriptionRefused, JobDocParseFailed, IgnoreFileBlock,
                        WriteFileBlock, NewJobDocument, ReceiveDocument, ReceiveFileBlock, Receive
        <3> QED
            BY <1>1, <3>1, <3>2
    <2> QED
        BY <2>1
<1>2. CASE JobCanceled
    BY <1>2 DEF JobCanceled, Receive
<1>3. CASE Cloud
    <2>1. UNCHANGED <<pc, events>>
        BY <1>3 DEF Cloud, CreateJob, CancelJob, Lose, LoseSession
    <2> QED
        BY <2>1
<1>4. ASSUME NEW m \in BagToSet(net), Deliver(m) PROVE pc' # "failDelay" /\ CancelWait'
    <2>1. UNCHANGED pc
        BY <1>4 DEF Deliver, Ignore, BlockArrived, NotifyArrived, JobDocumentArrived, CancelArrived
    <2>2. ASSUME pc = "cancelDelay" PROVE CancelWait'
        <3>1. ~notifyTopic /\ DocsOnTheWay = {}
            BY <2>2 DEF OneOrOther, Loading, Asking
        <3>2. Ignore(m) \/ BlockArrived(m) \/ CancelArrived(m)
            BY <1>4, <3>1 DEF Deliver, NotifyArrived, JobDocumentArrived, Unhandled, DocsOnTheWay
        <3>3. \/ QueueStep(0, {}) \/ QueueStep(0, {"ReceivedFileBlock"})
              \/ QueueStep(0, {"JobCanceled"})
            BY <3>2, OtherQueue, BlockArrivedQueue, Unqueued DEF TypeInv
        <3>4. \A i \in 1 .. Len(events) : events[i].id \in {"ReceivedFileBlock", "JobCanceled"}
            BY <2>2
        <3> QED
            BY <3>3, <3>4, QueueMap
    <2> QED
        BY <2>1, <2>2
<1>5. CASE UNCHANGED vars
    BY <1>5 DEF vars
<1> QED
    BY <1>1, <1>2, <1>3, <1>4, <1>5 DEF Next, AgentTask, HandleEvent, MQTTAgentTask

(* Unless a block is rejected, no step breaks the order of requests. *)
LEMMA NextTokenInv ==
    ASSUME TypeInv, TokenInv, [Next]_vars, ~RejectFileBlock
    PROVE  TokenInv'
<1>1. pc' # "failDelay" /\ CancelWait'
    BY NextCancelWait
<1> SUFFICES OneOrOther' /\ NotifyWaits' /\ SingleRequest'
    BY <1>1 DEF TokenInv
<1>2. CASE \/ WaitForJob \/ SubscriptionRefused \/ RequestFileBlock \/ IgnoreFileBlock
           \/ WriteFileBlock \/ CloseFile \/ CloseFileFailed \/ ActivateImage \/ Timeout
           \/ Cloud \/ UNCHANGED vars
    BY <1>2, NextQuiet
<1>3. CASE \/ DropJobDocument \/ SameJobDocument \/ JobAccepted \/ FileCreateFailed
           \/ JobDocParseFailed
    BY <1>3, AnswerTaken, NotAsking
<1>4. CASE \/ RequestJobDocument \/ NotifyCanceled \/ NoPendingJob \/ CleanUpCanceledJob
           \/ Reset \/ JobCanceled
    BY <1>4, NextRequest, NextNotifyCanceled, NextNoPendingJob, NextFresh
<1>5. CASE RequestAfterFailure
    BY <1>5 DEF RequestAfterFailure, TokenInv
<1>6. ASSUME NEW m \in BagToSet(net), Deliver(m)
      PROVE  OneOrOther' /\ NotifyWaits' /\ SingleRequest'
    BY <1>6, NextQuiet, NextNotifyArrived, NextDocumentArrived DEF Deliver
<1> QED
    BY <1>2, <1>3, <1>4, <1>5, <1>6 DEF Next, AgentTask, HandleEvent, MQTTAgentTask

(* At first, the one request is queued. *)
LEMMA InitTokenInv == Init => TokenInv
<1> SUFFICES ASSUME Init PROVE TokenInv
    OBVIOUS
<1>1. /\ pc = "loop" /\ ~notifyTopic /\ net = EmptyBag /\ globalJob = NoJob /\ fields = NoJob
      /\ events = <<Event("RequestJobDocument")>>
    BY DEF Init, DeviceInit
<1>2. DocsOnTheWay = {}
    BY <1>1, SetToBagProperties DEF DocsOnTheWay
<1>3. Len(events) = 1 /\ events[1].id = "RequestJobDocument"
    BY <1>1 DEF Event
<1>4. \A i \in 1 .. Len(events) : i = 1
    BY <1>3
<1>5. ~Loading /\ OneAsked
    BY <1>1, <1>2, <1>3, <1>4 DEF Loading, LoadEvents, OneAsked, Asks
<1> QED
    BY <1>1, <1>5 DEF TokenInv, CancelWait, OneOrOther, NotifyWaits, SingleRequest

------------------------------------------------------------------------------
(* What is downloaded is what is closed and activated *)

(* The two records of what is missing agree as long as blocks are accepted. *)
Counted == fields # NoJob /\ ~palError => remaining = NumBlocks - Cardinality(bitmap)

(* What is marked was written, or the error flag is up. *)
Marked == \A b \in bitmap : palError \/ content[b] # NoJob

(* The file is to be closed only when all is marked. *)
CloseWaits == Queued("CloseFile") => bitmap = Blocks

(* The image that is to be activated is still the verified one. *)
ActivateWaits ==
    Queued("ActivateImage") =>
        /\ bitmap = Blocks
        /\ pc # "resetting" => file = "verified" /\ \A b \in Blocks : content[b] = stream

LoadInv == Counted /\ Marked /\ CloseWaits /\ ActivateWaits

(* A step that neither closes, writes nor sets up a download. *)
Untouched ==
    /\ UNCHANGED <<stream, remaining, bitmap, file, palError, content>>
    /\ fields' \in {fields, NoJob}
    /\ Queued("CloseFile")' => Queued("CloseFile")
    /\ Queued("ActivateImage")' => Queued("ActivateImage")
    /\ pc = "resetting" => pc' = "resetting"

LEMMA UntouchedKept ==
    ASSUME LoadInv, Untouched
    PROVE  LoadInv'
<1> USE DEF LoadInv, Untouched
<1>1. Counted'
    BY DEF Counted
<1>2. Marked'
    BY DEF Marked
<1>3. CloseWaits'
    BY DEF CloseWaits
<1>4. ActivateWaits'
    BY DEF ActivateWaits
<1> QED
    BY <1>1, <1>2, <1>3, <1>4

LEMMA OthersUntouched ==
    ASSUME TypeInv,
           \/ RequestJobDocument \/ WaitForJob \/ NotifyCanceled \/ DropJobDocument
           \/ NoPendingJob \/ SameJobDocument \/ SubscriptionRefused \/ JobDocParseFailed
           \/ RequestFileBlock \/ IgnoreFileBlock \/ ActivateImage \/ JobCanceled
           \/ RequestAfterFailure \/ Timeout \/ MQTTAgentTask \/ Cloud \/ UNCHANGED vars
    PROVE  Untouched
<1> USE DEF taskVars, jobVars, loadVars, palVars, cloudVars
<1>1. ASSUME NEW n \in {0, 1}, NEW ids, QueueStep(n, ids),
             ids \cap {"CloseFile", "ActivateImage"} = {}
      PROVE  /\ Queued("CloseFile")' => Queued("CloseFile")
             /\ Queued("ActivateImage")' => Queued("ActivateImage")
    BY <1>1, OldQueued
<1>2. CASE \/ RequestJobDocument \/ WaitForJob \/ NotifyCanceled \/ DropJobDocument
           \/ NoPendingJob \/ SameJobDocument \/ SubscriptionRefused \/ JobDocParseFailed
           \/ RequestFileBlock \/ IgnoreFileBlock \/ ActivateImage
    <2>1. \/ QueueStep(0, {}) \/ QueueStep(1, {}) \/ QueueStep(1, {"WaitForJob"})
          \/ QueueStep(1, {"RequestFileBlock"})
        BY <1>2, HandlerQueue
    <2>2. /\ UNCHANGED <<stream, remaining, bitmap, file, palError, content>>
          /\ fields' \in {fields, NoJob}
        <3>1. CASE \/ RequestJobDocument \/ WaitForJob \/ NotifyCanceled \/ RequestFileBlock
                   \/ ActivateImage
            BY <3>1 DEF RequestJobDocument, WaitForJob, NotifyCanceled, RequestFileBlock,
                        ActivateImage
        <3>2. CASE \/ DropJobDocument \/ NoPendingJob \/ SameJobDocument \/ SubscriptionRefused
                   \/ JobDocParseFailed
            BY <3>2 DEF DropJobDocument, NoPendingJob, SameJobDocument, SubscriptionRefused,
                        JobDocParseFailed
        <3>3. CASE IgnoreFileBlock
            BY <3>3 DEF IgnoreFileBlock
        <3> QED
            BY <1>2, <3>1, <3>2, <3>3
    <2>3. pc = "loop"
        BY <1>2 DEF RequestJobDocument, WaitForJob, NotifyCanceled, DropJobDocument, NoPendingJob,
                    SameJobDocument, SubscriptionRefused, JobDocParseFailed, RequestFileBlock,
                    IgnoreFileBlock, ActivateImage, NewJobDocument, ReceiveDocument,
                    ReceiveFileBlock, Receive
    <2> QED
        BY <1>1, <2>1, <2>2, <2>3 DEF Untouched
<1>3. CASE JobCanceled
    <2>1. /\ UNCHANGED <<stream, remaining, bitmap, file, palError, content, fields>>
          /\ events' = <<>> /\ pc = "loop"
        BY <1>3 DEF JobCanceled, Receive
    <2>2. \A id : ~Queued(id)'
        BY <2>1 DEF Queued
    <2> QED
        BY <2>1, <2>2 DEF Untouched
<1>4. CASE RequestAfterFailure \/ Timeout \/ Cloud \/ UNCHANGED vars
    <2>1. QueueStep(0, {}) \/ QueueStep(0, {"RequestJobDocument"})
        BY <1>4, OtherQueue, Unqueued DEF vars, TypeInv
    <2>2. UNCHANGED <<stream, remaining, bitmap, file, palError, content, fields>>
        BY <1>4 DEF RequestAfterFailure, Timeout, Cloud, CreateJob, CancelJob, Lose, LoseSession,
                    vars
    <2>3. pc = "resetting" => pc' = "resetting"
        BY <1>4 DEF RequestAfterFailure, Timeout, Cloud, CreateJob, CancelJob, Lose, LoseSession,
                    vars
    <2> QED
        BY <1>1, <2>1, <2>2, <2>3 DEF Untouched
<1>5. ASSUME NEW m \in BagToSet(net), Deliver(m) PROVE Untouched
    <2>1. UNCHANGED <<stream, remaining, bitmap, file, palError, content, fields, pc>>
        BY <1>5 DEF Deliver, Ignore, BlockArrived, NotifyArrived, JobDocumentArrived, CancelArrived
    <2>2. \/ QueueStep(0, {}) \/ QueueStep(0, {"ReceivedJobDocument"})
          \/ QueueStep(0, {"JobCanceled"}) \/ QueueStep(0, {"ReceivedFileBlock"})
          \/ QueueStep(0, {"NotifyCanceled", "RequestJobDocument"})
        BY <1>5, OtherQueue, NotifiedQueue, BlockArrivedQueue, Unqueued DEF TypeInv, Deliver
    <2> QED
        BY <1>1, <2>1, <2>2 DEF Untouched
<1> QED
    BY <1>2, <1>3, <1>4, <1>5 DEF MQTTAgentTask

(* The number of blocks, and of those marked. *)
LEMMA BlocksCardinality ==
    /\ IsFiniteSet(Blocks) /\ Cardinality(Blocks) = NumBlocks
    /\ \A T \in SUBSET Blocks :
          /\ IsFiniteSet(T) /\ Cardinality(T) \in Nat
          /\ Cardinality(T) = NumBlocks => T = Blocks
<1>1. IsFiniteSet(Blocks) /\ Cardinality(Blocks) = NumBlocks
    <2>1. 0 \in Int /\ NumBlocks - 1 \in Int
        OBVIOUS
    <2>2. IsFiniteSet(0 .. NumBlocks - 1)
        BY <2>1, FS_Interval
    <2>3. Cardinality(0 .. NumBlocks - 1) = IF 0 > NumBlocks - 1 THEN 0 ELSE (NumBlocks - 1) - 0 + 1
        BY <2>1, FS_Interval
    <2> QED
        BY <2>2, <2>3
<1>2. ASSUME NEW T \in SUBSET Blocks
      PROVE  /\ IsFiniteSet(T) /\ Cardinality(T) \in Nat
             /\ Cardinality(T) = NumBlocks => T = Blocks
    <2>1. T \subseteq Blocks
        OBVIOUS
    <2>2. IsFiniteSet(T) /\ (Cardinality(Blocks) = Cardinality(T) => Blocks = T)
        BY <1>1, <2>1, FS_Subset
    <2>3. Cardinality(T) \in Nat
        BY <2>2, FS_CardinalityType
    <2> QED
        BY <1>1, <2>2, <2>3
<1> QED
    BY <1>1, <1>2

(* A block that is written counts once, and the last one closes the file. *)
LEMMA WriteLoadInv ==
    ASSUME TypeInv, LoadInv, WriteFileBlock
    PROVE  LoadInv'
<1>1. Receive("ReceivedFileBlock") /\ ~Duplicate /\ ~palError
    BY DEF WriteFileBlock, ReceiveFileBlock
<1>2. /\ bitmap' = bitmap \cup {block} /\ remaining' = remaining - 1
      /\ UNCHANGED <<stream, file, pc>>
    BY DEF WriteFileBlock
<1>3. block \in Blocks \ bitmap /\ bitmap \in SUBSET Blocks /\ bitmap' \in SUBSET Blocks
    BY <1>1, <1>2, ReceivedIsBlock DEF Duplicate, TypeInv, TypeOK
<1>4. remaining = NumBlocks - Cardinality(bitmap)
    BY DEF WriteFileBlock, LoadInv, Counted
<1>5. Cardinality(bitmap') = Cardinality(bitmap) + 1
    <2>1. IsFiniteSet(bitmap)
        BY <1>3, BlocksCardinality
    <2> QED
        BY <1>2, <1>3, <2>1, FS_AddElement
<1>6. remaining' = NumBlocks - Cardinality(bitmap')
    <2>1. Cardinality(bitmap) \in Nat /\ NumBlocks \in Nat
        BY <1>3, BlocksCardinality
    <2> QED
        BY <1>2, <1>4, <1>5, <2>1
<1>7. Counted'
    BY <1>6 DEF Counted
<1>8. Marked'
    <2> DEFINE bytes == buffers[received].msg.job
    <2>1. \/ /\ content' = [content EXCEPT ![block] =
                              IF @ \in {NoJob, bytes} THEN bytes ELSE Mixed]
             /\ UNCHANGED palError
          \/ palError'
        BY DEF WriteFileBlock
    <2>2. bytes \in Jobs /\ block \in Blocks /\ content \in [Blocks -> Jobs \cup {NoJob, Mixed}]
        BY <1>1, ReceivedIsBlock DEF TypeInv, TypeOK
    <2> HIDE DEF bytes
    <2>3. CASE content' = [content EXCEPT ![block] =
                              IF @ \in {NoJob, bytes} THEN bytes ELSE Mixed]
        <3>1. content'[block] # NoJob
            BY <2>2, <2>3 DEF Mixed
        <3>2. \A b \in bitmap : content'[b] = content[b] /\ content[b] # NoJob
            BY <1>1, <1>3, <2>2, <2>3 DEF LoadInv, Marked
        <3> QED
            BY <1>2, <3>1, <3>2 DEF Marked
    <2>4. CASE palError'
        BY <2>4 DEF Marked
    <2> QED
        BY <2>1, <2>3, <2>4
<1>9. ~Queued("CloseFile") /\ ~Queued("ActivateImage")
    BY <1>3 DEF LoadInv, CloseWaits, ActivateWaits
<1>10. CloseWaits'
    <2>1. CASE remaining' = 0
        <3>1. Cardinality(bitmap') \in Nat /\ NumBlocks \in Nat
            BY <1>3, BlocksCardinality
        <3>2. Cardinality(bitmap') = NumBlocks
            BY <1>6, <2>1, <3>1
        <3> QED
            BY <1>3, <3>2, BlocksCardinality DEF CloseWaits
    <2>2. CASE remaining' # 0
        <3>1. QueueStep(1, {"RequestFileBlock"})
            BY <2>2, WrittenQueue
        <3> QED
            BY <1>9, <3>1, OldQueued DEF CloseWaits
    <2> QED
        BY <2>1, <2>2
<1>11. ActivateWaits'
    <2>1. QueueStep(1, {"CloseFile"}) \/ QueueStep(1, {"RequestFileBlock"})
        BY WrittenQueue
    <2>2. ~Queued("ActivateImage")'
        BY <1>9, <2>1, OldQueued
    <2> QED
        BY <2>2 DEF ActivateWaits
<1> QED
    BY <1>7, <1>8, <1>10, <1>11 DEF LoadInv

(* A download begins with nothing marked and nothing queued of another one. *)
LEMMA AcceptLoadInv ==
    ASSUME TypeInv, TokenInv, LoadInv, JobAccepted \/ FileCreateFailed
    PROVE  LoadInv'
<1>1. Receive("ReceivedJobDocument") /\ bitmap' = {} /\ remaining' = NumBlocks
    BY DEF JobAccepted, FileCreateFailed, NewJobDocument, ReceiveDocument, InitMqttDownloader
<1>2. ~Loading
    BY <1>1, Answered
<1>3. ~Queued("CloseFile") /\ ~Queued("ActivateImage")
    BY <1>2 DEF Loading, LoadEvents, Queued
<1>4. QueueStep(1, {}) \/ QueueStep(1, {"RequestFileBlock"})
    BY HandlerQueue
<1>5. ~Queued("CloseFile")' /\ ~Queued("ActivateImage")'
    BY <1>3, <1>4, OldQueued
<1>6. Cardinality(bitmap') = 0
    BY <1>1, FS_EmptySet
<1>7. Counted'
    BY <1>1, <1>6 DEF Counted
<1> QED
    BY <1>1, <1>5, <1>7 DEF LoadInv, Marked, CloseWaits, ActivateWaits

(* The file that is closed is verified against the job it was downloaded for. *)
LEMMA CloseLoadInv ==
    ASSUME TypeInv, TokenInv, LoadInv, CloseFile \/ CloseFileFailed
    PROVE  LoadInv'
<1>1. /\ Receive("CloseFile")
      /\ UNCHANGED <<stream, remaining, bitmap, palError, content, fields>>
    BY DEF CloseFile, CloseFileFailed, loadVars
<1>2. bitmap = Blocks
    BY <1>1, ReceiveTells DEF LoadInv, CloseWaits, EventIds
<1>3. Counted' /\ Marked' /\ CloseWaits'
    <2>1. Counted'
        BY <1>1 DEF LoadInv, Counted
    <2>2. Marked'
        BY <1>1 DEF LoadInv, Marked
    <2> QED
        BY <1>1, <1>2, <2>1, <2>2 DEF CloseWaits
<1>4. CASE CloseFile
    <2>1. file' = "verified" /\ signature /\ \A b \in Blocks : content[b] = fields
        BY <1>4 DEF CloseFile, Verifies
    <2>2. fields = stream
        BY <2>1 DEF TypeInv, FieldsOfStream
    <2> QED
        BY <1>1, <1>2, <1>3, <2>1, <2>2 DEF LoadInv, ActivateWaits
<1>5. CASE CloseFileFailed
    <2>1. pc' = "resetting"
        BY <1>5 DEF CloseFileFailed
    <2> QED
        BY <1>1, <1>2, <1>3, <2>1 DEF LoadInv, ActivateWaits
<1> QED
    BY <1>4, <1>5

(* A download that is given up leaves nothing to close or to activate. *)
LEMMA ForgottenLoadInv ==
    ASSUME TypeInv, TokenInv, CleanUpCanceledJob \/ Reset
    PROVE  LoadInv'
<1>1. bitmap' = {} /\ (palError' \/ fields' = NoJob)
    BY DEF CleanUpCanceledJob, Reset
<1>2. ~Queued("CloseFile")' /\ ~Queued("ActivateImage")'
    <2>1. CASE CleanUpCanceledJob
        <3>1. \A i \in 1 .. Len(events) : events[i].id \in {"ReceivedFileBlock", "JobCanceled"}
            BY <2>1 DEF CleanUpCanceledJob, TokenInv, CancelWait
        <3>2. ~Queued("CloseFile") /\ ~Queued("ActivateImage")
            BY <3>1 DEF Queued
        <3>3. QueueStep(0, {"RequestJobDocument"})
            BY <2>1, OtherQueue
        <3> QED
            BY <3>2, <3>3, OldQueued
    <2>2. CASE Reset
        <3>1. Len(events') = 1 /\ events'[1].id = "RequestJobDocument"
            BY <2>2 DEF Reset, Event
        <3>2. \A i \in 1 .. Len(events') : i = 1
            BY <3>1
        <3> QED
            BY <3>1, <3>2 DEF Queued
    <2> QED
        BY <2>1, <2>2
<1> QED
    BY <1>1, <1>2 DEF LoadInv, Counted, Marked, CloseWaits, ActivateWaits

(* Unless a block is rejected, every step keeps the account of the download. *)
LEMMA NextLoadInv ==
    ASSUME TypeInv, TokenInv, LoadInv, [Next]_vars, ~RejectFileBlock
    PROVE  LoadInv'
BY OthersUntouched, UntouchedKept, WriteLoadInv, AcceptLoadInv, CloseLoadInv, ForgottenLoadInv
   DEF Next, AgentTask, HandleEvent

LEMMA InitLoadInv == Init => LoadInv
<1> SUFFICES ASSUME Init PROVE LoadInv
    OBVIOUS
<1>1. events = <<Event("RequestJobDocument")>> /\ bitmap = {} /\ fields = NoJob
    BY DEF Init, DeviceInit
<1>2. Len(events) = 1 /\ events[1].id = "RequestJobDocument"
    BY <1>1 DEF Event
<1>3. \A i \in 1 .. Len(events) : i = 1
    BY <1>2
<1> QED
    BY <1>1, <1>2, <1>3 DEF LoadInv, Counted, Marked, CloseWaits, ActivateWaits, Queued

(* The inductive invariant of the downloads in which no block is rejected. *)
DownloadInv == TypeInv /\ TokenInv /\ LoadInv

LEMMA NextDownloadInv == DownloadInv /\ [Next]_vars /\ [~RejectFileBlock]_vars => DownloadInv'
<1>1. DownloadInv /\ [Next]_vars /\ ~RejectFileBlock => DownloadInv'
    BY NextTypeInv, NextTokenInv, NextLoadInv DEF DownloadInv
<1>2. UNCHANGED vars => ~RejectFileBlock
    <2>1. RejectFileBlock => pc = "loop" /\ pc' = "failDelay"
        BY DEF RejectFileBlock, ReceiveFileBlock, Receive
    <2> QED
        BY <2>1 DEF vars, taskVars
<1> QED
    BY <1>1, <1>2

LEMMA InitDownloadInv == Init => DownloadInv
BY InitTypeInv, InitTokenInv, InitLoadInv DEF DownloadInv

(* As long as no block is rejected, the agent closes the file only when every
   block is marked, and written unless the error flag is up. *)
THEOREM ClosedWhenComplete == Spec /\ [][~RejectFileBlock]_vars => []CloseOnlyWhenComplete
<1>1. DownloadInv => CloseOnlyWhenComplete
    BY DEF DownloadInv, LoadInv, CloseWaits, Queued, Marked, CloseOnlyWhenComplete
<1> QED
    BY <1>1, InitDownloadInv, NextDownloadInv, PTL DEF Spec

(* As long as no block is rejected, what the agent activates is verified, and the
   whole image of one job. *)
THEOREM ActivatedWhenVerified == Spec /\ [][~RejectFileBlock]_vars => []ActivateOnlyVerified
<1>1. DownloadInv => ActivateOnlyVerified
    BY DEF DownloadInv, LoadInv, ActivateWaits, Queued, ActivateOnlyVerified
<1> QED
    BY <1>1, InitDownloadInv, NextDownloadInv, PTL DEF Spec

(* The file whose blocks the platform layer would accept is open, unless it has
   all of them. *)
ReadyForBlocks ==
    pc # "resetting" /\ fields # NoJob /\ ~palError =>
        file = "open" \/ (file = "verified" /\ bitmap = Blocks)

LEMMA NextReadyForBlocks ==
    ASSUME DownloadInv, ReadyForBlocks, [Next]_vars, ~RejectFileBlock, ~FileCreateFailed
    PROVE  ReadyForBlocks'
<1> USE DEF DownloadInv
<1>1. CASE \/ RequestJobDocument \/ WaitForJob \/ NotifyCanceled \/ DropJobDocument
           \/ NoPendingJob \/ SameJobDocument \/ SubscriptionRefused \/ JobDocParseFailed
           \/ RequestFileBlock \/ IgnoreFileBlock \/ ActivateImage \/ JobCanceled
           \/ RequestAfterFailure \/ Timeout \/ MQTTAgentTask \/ Cloud \/ UNCHANGED vars
    <2>1. Untouched
        BY <1>1, OthersUntouched
    <2> QED
        BY <2>1 DEF Untouched, ReadyForBlocks
<1>2. CASE WriteFileBlock
    <2>1. /\ bitmap' = bitmap \cup {block} /\ UNCHANGED <<file, fields, pc>> /\ ~palError
          /\ Receive("ReceivedFileBlock")
        BY <1>2 DEF WriteFileBlock, ReceiveFileBlock, jobVars
    <2>2. block \in Blocks
        BY <2>1, ReceivedIsBlock
    <2> QED
        BY <2>1, <2>2 DEF ReadyForBlocks
<1>3. CASE JobAccepted
    BY <1>3 DEF JobAccepted, CreateFileForRx, ReadyForBlocks
<1>4. CASE CloseFile
    <2>1. Receive("CloseFile") /\ file' = "verified" /\ UNCHANGED bitmap
        BY <1>4 DEF CloseFile, loadVars
    <2>2. bitmap = Blocks
        BY <2>1, ReceiveTells DEF LoadInv, CloseWaits, EventIds
    <2> QED
        BY <2>1, <2>2 DEF ReadyForBlocks
<1>5. CASE CloseFileFailed \/ CleanUpCanceledJob \/ Reset
    BY <1>5 DEF CloseFileFailed, CleanUpCanceledJob, Reset, ReadyForBlocks
<1> QED
    BY <1>1, <1>2, <1>3, <1>4, <1>5 DEF Next, AgentTask, HandleEvent

(* As long as no block is rejected and every file that is asked for is created, the
   agent keeps the contract of the platform layer: it writes to an open file only.
   After a failed creation, a late block of the job before can be written to none. *)
THEOREM WrittenToOpenFile ==
    Spec /\ [][~RejectFileBlock /\ ~FileCreateFailed]_vars => WritesToOpenFile
<1>1. Init => DownloadInv /\ ReadyForBlocks
    BY InitDownloadInv DEF Init, DeviceInit, ReadyForBlocks
<1>2. /\ DownloadInv /\ ReadyForBlocks /\ [Next]_vars
      /\ [~RejectFileBlock /\ ~FileCreateFailed]_vars
      => (DownloadInv /\ ReadyForBlocks)' /\ [WriteFileBlock => file = "open"]_vars
    <2>1. ASSUME DownloadInv, ReadyForBlocks, WriteFileBlock PROVE file = "open"
        <3>1. /\ Receive("ReceivedFileBlock") /\ block \notin bitmap
              /\ fields # NoJob /\ ~palError
            BY <2>1 DEF WriteFileBlock, ReceiveFileBlock, Duplicate
        <3>2. block \in Blocks /\ pc = "loop"
            BY <2>1, <3>1, ReceivedIsBlock DEF DownloadInv, Receive
        <3> QED
            BY <2>1, <3>1, <3>2 DEF ReadyForBlocks
    <2>2. ASSUME DownloadInv, ReadyForBlocks, [Next]_vars,
                 [~RejectFileBlock /\ ~FileCreateFailed]_vars
          PROVE  (DownloadInv /\ ReadyForBlocks)'
        <3>1. CASE UNCHANGED vars
            <4>1. DownloadInv'
                BY <2>2, <3>1, NextDownloadInv
            <4>2. ReadyForBlocks'
                BY <2>2, <3>1
                   DEF ReadyForBlocks, vars, taskVars, jobVars, loadVars, palVars
            <4> QED
                BY <4>1, <4>2
        <3>2. CASE ~RejectFileBlock /\ ~FileCreateFailed
            BY <2>2, <3>2, NextDownloadInv, NextReadyForBlocks
        <3> QED
            BY <2>2, <3>1, <3>2
    <2> QED
        BY <2>1, <2>2
<1> QED
    BY <1>1, <1>2, PTL DEF Spec, WritesToOpenFile
==============================================================================
