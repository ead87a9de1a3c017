------------------------------- MODULE OtaAgent -------------------------------
(***************************************************************************)
(* The OTA agent of Demos/OtaOverMqtt/OtaOverMqttDemo.c.                   *)
(*                                                                         *)
(* Two tasks of the device share its state: the MQTT agent task calls      *)
(* otaDemo_handleIncomingMQTTMessage for every message, which only copies  *)
(* the message into a buffer and queues an event;                          *)
(* the OTA agent task takes one event at a time (processOTAEvents).  A     *)
(* handler that queues an event after a wait is modelled in two steps:     *)
(* messages that arrive meanwhile are queued before it.                    *)
(*                                                                         *)
(* The platform layer is what OtaPal promises (ImageStore): a block it     *)
(* accepted is in the image or the error flag is up when the file is       *)
(* closed.  AWS IoT Jobs and the stream service are external.              *)
(***************************************************************************)
EXTENDS Integers, Sequences, Bags, FiniteSets

CONSTANTS
    NumJobs,        \* jobs the cloud may create, in this order
    NumBlocks,      \* blocks of every image
    NumBuffers,     \* MAX_NUM_OF_OTA_DATA_BUFFERS
    RequestSize,    \* NUM_OF_BLOCKS_REQUESTED
    MaxMessages,    \* MAX_MESSAGES, the length of the event queue
    HandleLimit,    \* values of the uint8_t file handle of ota_pal.c
    Failures,       \* operations that may fail
    MaxCopies,      \* bound: copies of a block on their way at a time
    MaxLost,        \* bound: messages and subscriptions the network loses
    MaxResets       \* bound: resets of the device

ASSUME SizesAssumption ==
    /\ NumJobs \in Nat \ {0} /\ NumBlocks \in Nat \ {0}
    /\ NumBuffers \in Nat \ {0} /\ RequestSize \in Nat \ {0}
    /\ MaxMessages \in Nat \ {0} /\ HandleLimit \in Nat \ {0}
    /\ MaxCopies \in Nat \ {0} /\ MaxLost \in Nat /\ MaxResets \in Nat

ASSUME FailuresAssumption ==
    Failures \subseteq {"parse", "create", "publish", "decode", "write", "close", "cancel"}

Jobs == 1 .. NumJobs
NoJob == 0
Blocks == 0 .. NumBlocks - 1
Buffers == 1 .. NumBuffers

(* The file id in every job document the cloud sends: the image is the only
   file of its stream. *)
DocumentFileId == 0

VARIABLES
    \* the OTA agent task
    pc,             \* between events, in a delay, stopped by an assert, resetting
    state,          \* otaAgentState
    last,           \* lastRecvEventId
    events,         \* the event queue
    \* the job
    jobDoc,         \* jobDocBuffer: the last document received, or zeroes
    globalJob,      \* globalJobId
    fields,         \* jobFields: the job parsed into it, or NoJob if zeroed
    signature,      \* jobFields.signature is a signature in DER form
    fileId,         \* jobFields.fileId
    eventTopic,     \* the job whose cancellation topic is in jobEventTopicBuffer
    notifyTopic,    \* notifyTopicBufferLength is not zero
    \* the download
    stream,         \* mqttFileDownloaderContext: the job whose stream it is for
    remaining,      \* numOfBlocksRemaining (-1: it wrapped)
    current,        \* currentBlockOffset
    next,           \* nextBlockOffsetToRequest
    bitmap,         \* receivedBlockBitmap, as the set of blocks marked
    buffers,        \* dataBuffers
    \* the platform layer
    handle,         \* hdl, the next file handle
    file,           \* none, open, verified
    palError,       \* xOtaFlashError
    content,        \* whose bytes each block of the buffer area holds
    \* the cloud and the network
    subs,           \* topics the broker knows of: "stream", "event", "notify"
    net,            \* messages on their way to the device
    status,         \* job executions
    lost, resets    \* counted for the bounds

taskVars == <<pc, state, last, events>>
jobVars == <<jobDoc, globalJob, fields, signature, fileId, eventTopic, notifyTopic>>
loadVars == <<stream, remaining, current, next, bitmap>>
palVars == <<handle, file, palError, content>>
cloudVars == <<subs, net, status, lost, resets>>
vars == <<taskVars, jobVars, loadVars, buffers, palVars, cloudVars>>

Event(name) == [id |-> name, buffer |-> 0]

(* OtaSendEvent_FreeRTOS does not wait: an event that finds the queue full is
   dropped, and nobody looks at the result. *)
Send(queue, event) ==
    IF Len(queue) < MaxMessages THEN Append(queue, event) ELSE queue

Doc(j) == [type |-> "doc", job |-> j, block |-> 0]
BlockMsg(j, b) == [type |-> "block", job |-> j, block |-> b]
CancelMsg(j) == [type |-> "cancel", job |-> j, block |-> 0]
NotifyMsg == [type |-> "notify", job |-> NoJob, block |-> 0]
NoMsg == [type |-> "none", job |-> NoJob, block |-> 0]

Messages ==
    {NoMsg, NotifyMsg, Doc(NoJob)} \cup {Doc(j) : j \in Jobs} \cup {CancelMsg(j) : j \in Jobs}
        \cup {BlockMsg(j, b) : j \in Jobs, b \in Blocks}

Free == [used |-> FALSE, msg |-> NoMsg]

FreeAll(bs) == [i \in Buffers |-> [bs[i] EXCEPT !.used = FALSE]]

(* content: nothing written since the area was erased, or bytes of two jobs. *)
Erased == [b \in Blocks |-> NoJob]
Mixed == -1

(* totalNumOfBlocks *)
total == IF stream = NoJob THEN 0 ELSE NumBlocks

DeviceInit ==
    /\ pc = "loop" /\ state = "Init" /\ last = "Start"
    /\ events = <<Event("RequestJobDocument")>>           \* otaDemo_start
    /\ jobDoc = NoMsg /\ globalJob = NoJob /\ fields = NoJob /\ signature = FALSE /\ fileId = 0
    /\ eventTopic = NoJob /\ notifyTopic = FALSE
    /\ stream = NoJob /\ remaining = 0 /\ current = 0 /\ next = 0 /\ bitmap = {}
    /\ buffers = [i \in Buffers |-> Free]
    /\ handle = 0 /\ file = "none" /\ palError = FALSE

Init ==
    /\ DeviceInit
    /\ content = Erased
    /\ subs = {} /\ net = EmptyBag
    /\ status = [j \in Jobs |-> "none"]
    /\ lost = 0 /\ resets = 0

------------------------------------------------------------------------------
(* The cloud (external) *)

Pending(st) == {j \in Jobs : st[j] \in {"queued", "inProgress"}}

(* A change of the list of pending jobs is published to the notify topic. *)
Notified(st) ==
    IF Pending(st) # Pending(status) /\ "notify" \in subs
    THEN SetToBag({NotifyMsg}) ELSE EmptyBag

CreateJob(j) ==
    /\ status[j] = "none" /\ (j > 1 => status[j - 1] # "none")
    /\ status' = [status EXCEPT ![j] = "queued"]
    /\ net' = net (+) Notified(status')
    /\ UNCHANGED <<taskVars, jobVars, loadVars, buffers, palVars, subs, lost, resets>>

CancelJob(j) ==
    /\ "cancel" \in Failures
    /\ status[j] = "inProgress"
    /\ status' = [status EXCEPT ![j] = "canceled"]
    /\ net' = net (+) Notified(status')
                  (+) (IF "event" \in subs /\ eventTopic = j
                       THEN SetToBag({CancelMsg(j)}) ELSE EmptyBag)
    /\ UNCHANGED <<taskVars, jobVars, loadVars, buffers, palVars, subs, lost, resets>>

(* StartNextPendingJobExecution answers with the document of the first job in
   progress, or else of the first one queued, or with no job. *)
NextJob ==
    LET first(S) == CHOOSE j \in S : \A k \in S : j <= k
        started == {j \in Jobs : status[j] = "inProgress"}
    IN  IF started # {} THEN first(started)
        ELSE IF Pending(status) # {} THEN first(Pending(status))
        ELSE NoJob

Lose(m) ==
    /\ lost < MaxLost
    /\ BagIn(m, net)
    /\ net' = net (-) SetToBag({m})
    /\ lost' = lost + 1
    /\ UNCHANGED <<taskVars, jobVars, loadVars, buffers, palVars, subs, status, resets>>

(* The session is lost, and not every topic is subscribed again. *)
LoseSession ==
    /\ lost < MaxLost
    /\ subs' \in SUBSET subs /\ subs' # subs
    /\ lost' = lost + 1
    /\ UNCHANGED <<taskVars, jobVars, loadVars, buffers, palVars, net, status, resets>>

------------------------------------------------------------------------------
(* otaDemo_handleIncomingMQTTMessage, in the MQTT agent task *)

Running == pc \notin {"halted", "resetting"} /\ state # "Stopped"

Take(m) == BagIn(m, net) /\ net' = net (-) SetToBag({m})

(* A message of a topic that the current topic buffers do not name is not handled.
   One that arrives after its topic was unsubscribed is: what matches no callback
   of the agent is handed on as well. *)
Unhandled(m) ==
    \/ m.type = "block" /\ stream # m.job
    \/ m.type = "notify" /\ ~notifyTopic
    \/ m.type = "cancel" /\ (eventTopic # m.job \/ globalJob = NoJob)

Ignore(m) ==
    /\ Take(m)
    /\ Unhandled(m) \/ ~Running
    /\ UNCHANGED <<taskVars, jobVars, loadVars, buffers, palVars, subs, status, lost, resets>>

(* Fault: the buffer is not marked as used. *)
BlockArrivedUnmarked(m) ==
    /\ Running /\ Take(m) /\ m.type = "block" /\ ~Unhandled(m)
    /\ LET free == {i \in Buffers : ~buffers[i].used}
           i == CHOOSE i \in free : \A k \in free : i <= k
       IN  IF free = {} THEN UNCHANGED <<buffers, events>>
           ELSE /\ buffers' = [buffers EXCEPT ![i].msg = m]
                /\ events' = Send(events, [id |-> "ReceivedFileBlock", buffer |-> i])
    /\ UNCHANGED <<pc, state, last, jobVars, loadVars, palVars, subs, status, lost, resets>>

(* getOtaDataEventBuffer hands out the first free buffer; without one the
   block is dropped. *)
BlockArrived(m) ==
    /\ Running /\ Take(m) /\ m.type = "block" /\ ~Unhandled(m)
    /\ LET free == {i \in Buffers : ~buffers[i].used}
           i == CHOOSE i \in free : \A k \in free : i <= k
       IN  IF free = {} THEN UNCHANGED <<buffers, events>>
           ELSE /\ buffers' = [buffers EXCEPT ![i] = [used |-> TRUE, msg |-> m]]
                /\ events' = Send(events, [id |-> "ReceivedFileBlock", buffer |-> i])
    /\ UNCHANGED <<pc, state, last, jobVars, loadVars, palVars, subs, status, lost, resets>>

NotifyArrived(m) ==
    /\ Running /\ Take(m) /\ m.type = "notify" /\ ~Unhandled(m)
    /\ events' = Send(Send(events, Event("NotifyCanceled")), Event("RequestJobDocument"))
    /\ UNCHANGED <<pc, state, last, jobVars, loadVars, buffers, palVars, subs, status,
                   lost, resets>>

(* The document is copied over the one that may still wait to be processed. *)
JobDocumentArrived(m) ==
    /\ Running /\ Take(m) /\ m.type = "doc"
    /\ jobDoc' = m
    /\ events' = Send(events, Event("ReceivedJobDocument"))
    /\ UNCHANGED <<pc, state, last, globalJob, fields, signature, fileId, eventTopic, notifyTopic,
                   loadVars, buffers, palVars, subs, status, lost, resets>>

CancelArrived(m) ==
    /\ Running /\ Take(m) /\ m.type = "cancel" /\ ~Unhandled(m)
    /\ events' = Send(events, Event("JobCanceled"))
    /\ UNCHANGED <<pc, state, last, jobVars, loadVars, buffers, palVars, subs, status,
                   lost, resets>>

Deliver(m) ==
    \/ Ignore(m) \/ BlockArrived(m) \/ NotifyArrived(m)
    \/ JobDocumentArrived(m) \/ CancelArrived(m)

MQTTAgentTask == \E m \in BagToSet(net) : Deliver(m)

------------------------------------------------------------------------------
(* processOTAEvents, in the OTA agent task *)

Receive(name) ==
    /\ pc = "loop" /\ state # "Stopped"
    /\ events # <<>> /\ Head(events).id = name
    /\ last' = name

(* requestJobDocumentHandler: the request may be lost, or not be sent. *)
RequestJobDocument ==
    /\ Receive("RequestJobDocument")
    /\ events' = Tail(events)
    /\ state' = "RequestingJob"
    /\ \/ /\ status' = IF NextJob = NoJob THEN status
                       ELSE [status EXCEPT ![NextJob] = "inProgress"]
          /\ net' = net (+) SetToBag({Doc(NextJob)})
          /\ UNCHANGED lost
       \/ /\ lost < MaxLost /\ lost' = lost + 1
          /\ UNCHANGED <<status, net>>
    /\ UNCHANGED <<pc, jobVars, loadVars, buffers, palVars, subs, resets>>

WaitForJob ==
    /\ Receive("WaitForJob")
    /\ events' = Tail(events)
    /\ state' = "WaitingForJob"
    /\ UNCHANGED <<pc, jobVars, loadVars, buffers, palVars, cloudVars>>

(* subs' is one of the two sets: done, or, as the network is down, one of those in
   undone. *)
Topics(done, undone) ==
    \/ subs' = done /\ UNCHANGED lost
    \/ lost < MaxLost /\ lost' = lost + 1 /\ subs' \in undone

(* mqttWrapper_unsubscribe of every topic in topics; a failure is only logged. *)
Unsubscribe(topics) ==
    Topics(subs \ topics, {subs \ done : done \in SUBSET topics})

(* mqttWrapper_subscribe to every topic in topics, when the broker knows of those in
   kept: without a connection it does nothing but to return false, which nobody
   looks at. *)
Subscribe(kept, topics) ==
    Topics(kept \cup topics, {kept \cup done : done \in SUBSET topics})

(* mqttWrapper_unsubscribe asserts that the topic is not empty; a failed
   assertion never returns. *)
NotifyCanceled ==
    /\ Receive("NotifyCanceled")
    /\ events' = Tail(events)
    /\ pc' = IF notifyTopic THEN "loop" ELSE "halted"
    /\ notifyTopic' = FALSE
    /\ Unsubscribe({"notify"})
    /\ UNCHANGED <<state, jobDoc, globalJob, fields, signature, fileId, eventTopic, loadVars, buffers,
                   palVars, net, status, resets>>

(* sendFailedMessage, when globalJobId is j: without a job id there is nothing
   to report. *)
SendFailedMessage(j) ==
    IF j = NoJob
    THEN UNCHANGED <<globalJob, jobDoc, status, net, lost>>
    ELSE /\ globalJob' = NoJob
         /\ jobDoc' = NoMsg
         /\ \/ /\ status' = [status EXCEPT ![j] = IF @ = "inProgress" THEN "failed" ELSE @]
               /\ net' = net (+) Notified(status')
               /\ UNCHANGED lost
            \/ /\ lost < MaxLost /\ lost' = lost + 1
               /\ UNCHANGED <<status, net>>

------------------------------------------------------------------------------
(* OtaAgentEventReceivedJobDocument: receivedJobDocumentHandler and the
   handling of its result.  Documents without updaterVersion only. *)

ReceiveDocument == Receive("ReceivedJobDocument") /\ state # "JobCanceled"

DropJobDocument ==
    /\ Receive("ReceivedJobDocument") /\ state = "JobCanceled"
    /\ events' = Tail(events)
    /\ UNCHANGED <<pc, state, jobVars, loadVars, buffers, palVars, cloudVars>>

(* No job, or a document that was cleared before it was processed. *)
NoPendingJob ==
    /\ ReceiveDocument /\ jobDoc.job = NoJob
    /\ fields' = NoJob /\ signature' = FALSE /\ fileId' = 0
    /\ Subscribe(subs, {"notify"}) /\ notifyTopic' = TRUE
    /\ events' = Send(Tail(events), Event("WaitForJob"))
    /\ UNCHANGED <<pc, state, jobDoc, globalJob, eventTopic, loadVars, buffers, palVars,
                   net, status, resets>>

(* The document of the job that is being processed is not parsed again, but
   jobFields has been cleared, and the download goes on. *)
SameJobDocument ==
    /\ ReceiveDocument /\ jobDoc.job # NoJob /\ jobDoc.job = globalJob
    /\ fields' = NoJob /\ signature' = FALSE /\ fileId' = 0
    /\ events' = Send(Tail(events), Event("RequestFileBlock"))
    /\ state' = "CreatingFile"
    /\ UNCHANGED <<pc, jobDoc, globalJob, eventTopic, notifyTopic, loadVars, buffers,
                   palVars, cloudVars>>

NewJobDocument == ReceiveDocument /\ jobDoc.job # NoJob /\ jobDoc.job # globalJob

(* initMqttDownloader, after the cancellation topic is subscribed.  The topics of
   another job do not matter any more. *)
InitMqttDownloader(j) ==
    /\ eventTopic' = j
    /\ stream' = j /\ remaining' = NumBlocks
    /\ current' = 0 /\ next' = 0 /\ bitmap' = {}
    /\ Subscribe(subs \ ((IF stream = j THEN {} ELSE {"stream"})
                          \cup (IF eventTopic = j THEN {} ELSE {"event"})),
                 {"event", "stream"})

(* otaPal_CreateFileForRx gives the file its own handle. *)
CreateFileForRx ==
    /\ fileId' = handle /\ handle' = (handle + 1) % HandleLimit
    /\ file' = "open" /\ palError' = FALSE /\ content' = Erased

JobAccepted ==
    /\ NewJobDocument
    /\ buffers' = FreeAll(buffers)
    /\ globalJob' = jobDoc.job /\ fields' = jobDoc.job /\ signature' = TRUE
    /\ InitMqttDownloader(jobDoc.job)
    /\ CreateFileForRx
    /\ events' = Send(Tail(events), Event("RequestFileBlock"))
    /\ state' = "CreatingFile"
    /\ UNCHANGED <<pc, jobDoc, notifyTopic, net, status, resets>>

(* The signature does not decode, or the file cannot be created.  Nothing is
   reported, and nothing else is requested. *)
FileCreateFailed ==
    /\ "create" \in Failures
    /\ NewJobDocument
    /\ buffers' = FreeAll(buffers)
    /\ globalJob' = jobDoc.job /\ fields' = jobDoc.job
    /\ InitMqttDownloader(jobDoc.job)
    /\ \/ /\ signature' = TRUE
          /\ fileId' = handle /\ handle' = (handle + 1) % HandleLimit
          /\ file' = "none" /\ palError' = FALSE
       \/ /\ signature' = FALSE
          /\ fileId' = DocumentFileId
          /\ UNCHANGED <<handle, file, palError>>
    /\ events' = Tail(events)
    /\ UNCHANGED <<pc, state, jobDoc, notifyTopic, content, net, status, resets>>

(* mqttWrapper_subscribe asserts that the agent, when it is connected, subscribes;
   what the handler did before does not matter any more. *)
SubscriptionRefused ==
    /\ lost < MaxLost /\ lost' = lost + 1
    /\ ReceiveDocument /\ (jobDoc.job = NoJob \/ jobDoc.job # globalJob)
    /\ pc' = "halted"
    /\ UNCHANGED <<state, events, jobVars, loadVars, buffers, palVars, subs, net, status, resets>>

(* The job is reported as failed; nothing else is requested. *)
JobDocParseFailed ==
    /\ "parse" \in Failures
    /\ NewJobDocument
    /\ buffers' = FreeAll(buffers)
    /\ fields' = NoJob /\ signature' = FALSE /\ fileId' = 0
    /\ SendFailedMessage(jobDoc.job)
    /\ events' = Tail(events)
    /\ UNCHANGED <<pc, state, eventTopic, notifyTopic, loadVars, palVars, subs, resets>>

------------------------------------------------------------------------------
(* OtaAgentEventRequestFileBlock and OtaAgentEventReceivedFileBlock *)

OnTheWay(m) == IF BagIn(m, net) THEN net[m] ELSE 0

(* Fault: the last request is not cut to the blocks that are left. *)
RequestDataBlockUncut(offset) ==
    LET asked == {BlockMsg(stream, b) : b \in Blocks \cap (offset .. offset + RequestSize - 1)}
    IN  /\ next' = IF offset >= total THEN offset ELSE offset + RequestSize
        /\ net' = net (+) SetToBag({m \in asked : OnTheWay(m) < MaxCopies})
        /\ UNCHANGED lost

(* requestDataBlock asks the stream service for blocks from the given offset
   on.  The request is not sent, is lost, or is answered, if the broker knows that
   the device waits for blocks, up to MaxCopies copies of a block on their way. *)
RequestDataBlock(offset) ==
    LET n == IF RequestSize > total - offset THEN total - offset ELSE RequestSize
        asked == IF "stream" \in subs
                 THEN {BlockMsg(stream, b) : b \in offset .. offset + n - 1} ELSE {}
    IN  \/ /\ offset >= total
           /\ next' = offset
           /\ UNCHANGED <<net, lost>>
        \/ /\ offset < total /\ lost < MaxLost
           /\ next' \in {offset + n} \cup (IF "publish" \in Failures THEN {offset} ELSE {})
           /\ lost' = lost + 1
           /\ UNCHANGED net
        \/ /\ offset < total
           /\ next' = offset + n
           /\ net' = net (+) SetToBag({m \in asked : OnTheWay(m) < MaxCopies})
           /\ UNCHANGED lost

RequestFileBlock ==
    /\ Receive("RequestFileBlock")
    /\ events' = Tail(events)
    /\ state' = "RequestingFileBlock"
    /\ RequestDataBlock(next)
    /\ UNCHANGED <<pc, jobVars, stream, remaining, current, bitmap, buffers, palVars,
                   subs, status, resets>>

(* Fault: asks again from the first block that was not requested. *)
TimeoutFromNext ==
    /\ pc = "loop" /\ state # "Stopped" /\ events = <<>>
    /\ \/ last = "RequestFileBlock"
       \/ last = "ReceivedFileBlock" /\ remaining # 0 /\ current < next
    /\ state' = "RequestingFileBlock"
    /\ RequestDataBlock(next)
    /\ UNCHANGED <<pc, last, events, jobVars, stream, remaining, current, bitmap, buffers,
                   palVars, subs, status, resets>>

(* No event for 3 s.  Waiting for a job, the agent does nothing; waiting for
   blocks, it asks again from the first block it misses. *)
Timeout ==
    /\ pc = "loop" /\ state # "Stopped" /\ events = <<>>
    /\ \/ last = "RequestFileBlock"
       \/ last = "ReceivedFileBlock" /\ remaining # 0 /\ current < next
    /\ state' = "RequestingFileBlock"
    /\ RequestDataBlock(current)
    /\ UNCHANGED <<pc, last, events, jobVars, stream, remaining, current, bitmap, buffers,
                   palVars, subs, status, resets>>

(* The buffer the received event points to, and the message now in it. *)
received == Head(events).buffer
block == buffers[received].msg.block

(* Fault: the buffer is not released. *)
ReceiveFileBlockUnfreed == Receive("ReceivedFileBlock") /\ UNCHANGED buffers

ReceiveFileBlock ==
    /\ Receive("ReceivedFileBlock")
    /\ buffers' = [buffers EXCEPT ![received].used = FALSE]

(* Fault: only the blocks before the first missing one count as received. *)
DuplicateBelow == block < current

(* Fault: a block that was received before is taken again. *)
DuplicateTaken == FALSE

(* receivedBlockBitmap says the block was received before. *)
Duplicate == block \in bitmap

(* The job was canceled, or the block was received before. *)
IgnoreFileBlock ==
    /\ ReceiveFileBlock
    /\ \/ state = "JobCanceled"
       \/ fileId = DocumentFileId /\ Duplicate
    /\ events' = Tail(events)
    /\ UNCHANGED <<pc, state, jobVars, loadVars, palVars, cloudVars>>

(* otaPal_WriteBlock accepts the block; the flash task may fail to program it,
   and raises the error flag. *)
WriteFileBlock ==
    /\ ReceiveFileBlock /\ state # "JobCanceled"
    /\ fileId = DocumentFileId /\ ~Duplicate
    /\ fields # NoJob /\ ~palError
    /\ LET bytes == buffers[received].msg.job
       IN  \/ /\ content' = [content EXCEPT ![block] =
                                IF @ \in {NoJob, bytes} THEN bytes ELSE Mixed]
              /\ UNCHANGED palError
           \/ /\ "write" \in Failures /\ palError' = TRUE
              /\ UNCHANGED content
    /\ bitmap' = bitmap \cup {block}
    /\ remaining' = remaining - 1
    /\ current' = CHOOSE n \in current .. total :
                     /\ current .. n - 1 \subseteq bitmap'
                     /\ n = total \/ n \notin bitmap'
    /\ next' = IF next < current' THEN current' ELSE next
    /\ events' = IF remaining' = 0 THEN Send(Tail(events), Event("CloseFile"))
                 ELSE IF current' = next' THEN Send(Tail(events), Event("RequestFileBlock"))
                 ELSE Tail(events)
    /\ UNCHANGED <<pc, state, jobVars, stream, handle, file, cloudVars>>

(* The block does not decode, its file id is not the one in jobFields, or
   otaPal_WriteBlock refuses it: the job is reported as failed. *)
RejectFileBlock ==
    /\ ReceiveFileBlock /\ state # "JobCanceled"
    /\ \/ /\ "decode" \in Failures \/ fileId # DocumentFileId
          /\ UNCHANGED palError
       \/ /\ fileId = DocumentFileId /\ ~Duplicate
          /\ \/ (palError \/ "write" \in Failures) /\ UNCHANGED palError
             \/ (fields = NoJob \/ "write" \in Failures) /\ palError' = TRUE
    /\ current' = 0 /\ next' = 0 /\ bitmap' = {}
    /\ SendFailedMessage(globalJob)
    /\ events' = Tail(events)
    /\ pc' = "failDelay"
    /\ UNCHANGED <<state, fields, signature, fileId, eventTopic, notifyTopic, stream, remaining,
                   handle, file, content, subs, resets>>

(* Fault: the next job is not asked for. *)
RequestAfterFailureSilent ==
    /\ pc = "failDelay"
    /\ pc' = "loop"
    /\ UNCHANGED <<state, last, events, jobVars, loadVars, buffers, palVars, cloudVars>>

(* After 5 s. *)
RequestAfterFailure ==
    /\ pc = "failDelay"
    /\ pc' = "loop"
    /\ events' = Send(events, Event("RequestJobDocument"))
    /\ UNCHANGED <<state, last, jobVars, loadVars, buffers, palVars, cloudVars>>

------------------------------------------------------------------------------
(* OtaAgentEventCloseFile and OtaAgentEventActivateImage *)

(* otaPal_CloseFile accepts the image only if no write failed and the job's
   signature is the one of what was received. *)
Verifies ==
    /\ file = "open" /\ ~palError
    /\ signature
    /\ \A b \in Blocks : content[b] = fields

(* Both topics of the job are unsubscribed first, if they can be. *)
CloseFile ==
    /\ Receive("CloseFile")
    /\ Verifies
    /\ file' = "verified"
    /\ Unsubscribe({"stream", "event"})
    /\ fileId' = 0
    /\ events' = Send(Tail(events), Event("ActivateImage"))
    /\ UNCHANGED <<pc, state, jobDoc, globalJob, fields, signature, eventTopic, notifyTopic, loadVars,
                   buffers, handle, palError, content, net, status, resets>>

(* The topics do not matter after the reset. *)
CloseFileFailed ==
    /\ Receive("CloseFile")
    /\ ~Verifies \/ "close" \in Failures
    /\ file' = "none"
    /\ subs' = subs \ {"stream", "event"}
    /\ SendFailedMessage(globalJob)
    /\ events' = Tail(events)
    /\ pc' = "resetting"
    /\ UNCHANGED <<state, fields, signature, fileId, eventTopic, notifyTopic, loadVars, buffers,
                   handle, palError, content, resets>>

(* saveInitVersion reports that the image is about to be tested, which does
   not end the job, and otaPal_ActivateNewImage swaps the banks and resets, or
   fails; either way this agent is over. *)
ActivateImage ==
    /\ Receive("ActivateImage")
    /\ events' = Tail(events)
    /\ state' = "Stopped"
    /\ UNCHANGED <<pc, jobVars, loadVars, buffers, palVars, cloudVars>>

------------------------------------------------------------------------------
(* OtaAgentEventJobCanceled *)

(* Fault: the event queue is kept. *)
JobCanceledQueueKept ==
    /\ Receive("JobCanceled")
    /\ state' = "JobCanceled"
    /\ Unsubscribe({"stream", "event"})
    /\ events' = Tail(events)
    /\ pc' = "cancelDelay"
    /\ UNCHANGED <<jobVars, loadVars, buffers, palVars, net, status, resets>>

(* The topics are unsubscribed, then the event queue is deleted and created
   again. *)
JobCanceled ==
    /\ Receive("JobCanceled")
    /\ state' = "JobCanceled"
    /\ Unsubscribe({"stream", "event"})
    /\ events' = <<>>
    /\ pc' = "cancelDelay"
    /\ UNCHANGED <<jobVars, loadVars, buffers, palVars, net, status, resets>>

(* After 5 s: the area is erased, the file aborted, the job forgotten. *)
CleanUpCanceledJob ==
    /\ pc = "cancelDelay"
    /\ pc' = "loop"
    /\ jobDoc' = NoMsg /\ globalJob' = NoJob /\ fileId' = 0
    /\ content' = IF palError THEN content ELSE Erased
    /\ palError' = TRUE /\ file' = "none"
    /\ buffers' = FreeAll(buffers)
    /\ current' = 0 /\ next' = 0 /\ bitmap' = {}
    /\ events' = Send(events, Event("RequestJobDocument"))
    /\ UNCHANGED <<state, last, fields, signature, eventTopic, notifyTopic, stream, remaining, handle,
                   cloudVars>>

------------------------------------------------------------------------------
(* The device restarts: after a failed job, or at any moment. *)
Reset ==
    /\ resets < MaxResets /\ resets' = resets + 1
    /\ state # "Stopped"
    /\ pc' = "loop" /\ state' = "Init" /\ last' = "Start"
    /\ events' = <<Event("RequestJobDocument")>>
    /\ jobDoc' = NoMsg /\ globalJob' = NoJob /\ fields' = NoJob /\ signature' = FALSE /\ fileId' = 0
    /\ eventTopic' = NoJob /\ notifyTopic' = FALSE
    /\ stream' = NoJob /\ remaining' = 0 /\ current' = 0 /\ next' = 0 /\ bitmap' = {}
    /\ buffers' = [i \in Buffers |-> Free]
    /\ handle' = 0 /\ file' = "none" /\ palError' = FALSE
    /\ subs' = {} /\ net' = EmptyBag
    /\ UNCHANGED <<content, status, lost>>

------------------------------------------------------------------------------
HandleEvent ==
    \/ RequestJobDocument \/ WaitForJob \/ NotifyCanceled
    \/ DropJobDocument \/ NoPendingJob \/ SameJobDocument
    \/ JobAccepted \/ FileCreateFailed \/ SubscriptionRefused \/ JobDocParseFailed
    \/ RequestFileBlock \/ IgnoreFileBlock \/ WriteFileBlock \/ RejectFileBlock
    \/ CloseFile \/ CloseFileFailed \/ ActivateImage \/ JobCanceled

AgentTask ==
    HandleEvent \/ RequestAfterFailure \/ CleanUpCanceledJob \/ Timeout

Cloud ==
    \/ \E j \in Jobs : CreateJob(j) \/ CancelJob(j)
    \/ \E m \in BagToSet(net) : Lose(m)
    \/ LoseSession

Next == AgentTask \/ MQTTAgentTask \/ Cloud \/ Reset

(* The agent task runs whenever it can; nothing is assumed of the cloud, and a
   message that is not lost arrives: none overtakes another for ever. *)
Fairness == WF_vars(AgentTask) /\ \A m \in Messages : WF_vars(Deliver(m))

Spec == Init /\ [][Next]_vars /\ Fairness

------------------------------------------------------------------------------
EventIds == {"RequestJobDocument", "WaitForJob", "NotifyCanceled", "ReceivedJobDocument",
             "RequestFileBlock", "ReceivedFileBlock", "CloseFile", "ActivateImage",
             "JobCanceled"}

(* Only the event of a received block points to a buffer. *)
Events == [id : {"ReceivedFileBlock"}, buffer : Buffers]
              \cup [id : EventIds \ {"ReceivedFileBlock"}, buffer : {0}]

TypeOK ==
    /\ pc \in {"loop", "failDelay", "cancelDelay", "halted", "resetting"}
    /\ state \in {"Init", "RequestingJob", "WaitingForJob", "CreatingFile",
                  "RequestingFileBlock", "JobCanceled", "Stopped"}
    /\ last \in EventIds \cup {"Start"}
    /\ events \in Seq(Events) /\ Len(events) <= MaxMessages
    /\ jobDoc \in Messages
    /\ {globalJob, fields, eventTopic, stream} \subseteq Jobs \cup {NoJob}
    /\ {fileId, handle} \subseteq 0 .. HandleLimit - 1
    /\ notifyTopic \in BOOLEAN /\ signature \in BOOLEAN /\ palError \in BOOLEAN
    /\ remaining \in Int /\ remaining <= NumBlocks
    /\ current \in 0 .. NumBlocks /\ next \in 0 .. NumBlocks
    /\ bitmap \subseteq Blocks
    /\ buffers \in [Buffers -> [used : BOOLEAN, msg : Messages]]
    /\ file \in {"none", "open", "verified"}
    /\ content \in [Blocks -> Jobs \cup {NoJob, Mixed}]
    /\ subs \subseteq {"stream", "event", "notify"}
    /\ BagToSet(net) \subseteq Messages
    /\ status \in [Jobs -> {"none", "queued", "inProgress", "failed", "canceled"}]

BlockEvents == {i \in 1 .. Len(events) : events[i].id = "ReceivedFileBlock"}

(* A buffer that a queued event points to is in use, and no other event points
   to it. *)
Owned ==
    /\ \A i \in BlockEvents : buffers[events[i].buffer].used
    /\ \A i, k \in BlockEvents : i # k => events[i].buffer # events[k].buffer

(* The block in a buffer is not overwritten before the agent decodes it, and no
   buffer is freed twice, but for one step: resetOtaBuffers frees every buffer,
   whether or not blocks are queued, after a cancellation and for a new job. *)
BufferOwnership ==
    Owned /\ [][Owned => Owned' \/ (BlockEvents # {} /\ buffers' = FreeAll(buffers))]_vars

(* A buffer in use is the one of some queued event: none is lost for good. *)
NoBufferLeak ==
    pc # "cancelDelay" /\ Running =>
        \A b \in Buffers : buffers[b].used =>
            \E i \in BlockEvents : events[i].buffer = b

(* Every block of the image is marked as received, and written unless the
   error flag is up, when the agent closes the file: the count of blocks that
   remain, which triggers the close, agrees with the bitmap. *)
CloseOnlyWhenComplete ==
    \A i \in 1 .. Len(events) : events[i].id = "CloseFile" /\ pc = "loop" =>
        /\ bitmap = Blocks
        /\ palError \/ \A b \in Blocks : content[b] # NoJob

(* An image is activated only if the platform layer verified it, and it is
   still the whole image of the job downloaded last. *)
ActivateOnlyVerified ==
    \A i \in 1 .. Len(events) : events[i].id = "ActivateImage" /\ pc = "loop" =>
        /\ file = "verified"
        /\ \A b \in Blocks : content[b] = stream

(* The agent keeps the contract OtaPal assumes of its caller: a block is
   accepted by otaPal_WriteBlock only for an open file. *)
WritesToOpenFile == [][WriteFileBlock => file = "open"]_vars

(* A job the agent has started to process does not hang it: the download goes
   on until the image is activated, or the job is given up, or a second request of a
   document was answered with no job, and the agent waits for the next one.  There
   are two exceptions: a block that is on its way twice at a time, as copies of other
   blocks may fill the buffers whenever the missing one arrives; and a stream whose
   topic is not subscribed, as the agent asks for its blocks for ever. *)
JobResolved ==
    [](\A m \in BagToSet(net) : OnTheWay(m) = 1) =>
        \A j \in Jobs : globalJob = j ~>
            \/ globalJob # j
            \/ state \in {"Stopped", "WaitingForJob"}
            \/ pc \in {"halted", "resetting"}
            \/ stream = j /\ remaining # 0 /\ "stream" \notin subs

(* A download that failed or was canceled is followed by a request for the
   next job, although the event queue may be deleted in between. *)
NextJobAsked ==
    pc \in {"failDelay", "cancelDelay"} ~>
        \/ state \in {"RequestingJob", "Stopped"}
        \/ pc \in {"halted", "resetting"}

------------------------------------------------------------------------------
(* What comments of the repository say, and the code does not do. *)

(* mqtt_wrapper.c:354 asserts of mqttWrapper_unsubscribe that topicLength > 0. *)
NotifyTopicNotEmpty == pc # "halted"
==============================================================================
