-------------------------------- MODULE OtaBoot --------------------------------
(***************************************************************************)
(* The life of an update around the bank swap: the version of the old      *)
(* image is saved in the job, the banks are toggled, the device resets,    *)
(* and the new image checks itself before it reports the job               *)
(* (Demos/OtaOverMqtt/OtaOverMqttDemo.c).  OtaAgent has the download that   *)
(* is one step here, and the delivery of messages.                         *)
(*                                                                         *)
(* What survives a reset is the two banks of code flash and what AWS IoT   *)
(* Jobs (external) remembers; everything else is RAM.                      *)
(***************************************************************************)
EXTENDS Integers

CONSTANTS
    NumJobs,        \* jobs the cloud may create, one after the other
    Versions,       \* values of appFirmwareVersion.u.unsignedVersion32
    MaxLost,        \* bound: messages lost between the device and the cloud
    MaxFaults,      \* bound: rejected blocks, failed closes, failed bank toggles
    MaxResets       \* bound: power losses

LongMax == 2147483647

(* Major versions up to 127: strtol does not return a larger number. *)
ASSUME VersionsAssumption == Versions \subseteq 0 .. LongMax /\ Versions # {}

ASSUME BoundsAssumption ==
    /\ NumJobs \in Nat
    /\ MaxLost \in Nat /\ MaxFaults \in Nat /\ MaxResets \in Nat

Jobs == 1 .. NumJobs
NoJob == 0

(* A bank holds the image of a job, the image the device was shipped with, or
   nothing that can run. *)
Factory == 0
Blank == -1
Images == {Factory} \cup Jobs

(* What the eight digits stand for. *)
Weight == <<268435456, 16777216, 1048576, 65536, 4096, 256, 16, 1>>

(* stringBuilderUInt32Hex, and strtol of its result, which saturates. *)
HexText(v) == [i \in 1 .. 8 |-> (v \div Weight[i]) % 16]

Strtol(d) ==
    LET n == 16 * (16 * (16 * (16 * (16 * (16 * (16 * d[1] + d[2]) + d[3]) + d[4]) + d[5])
                         + d[6]) + d[7]) + d[8]
    IN  IF n > LongMax THEN LongMax ELSE n

NoVersion == <<>>
Final == {"succeeded", "failed"}

VARIABLES
    release,        \* of each image its version, and whether OtaSelfTest passes
    active, buffer, \* what the bank that runs and the other one hold
    pc,             \* where the OTA agent task is
    doc,            \* the job document in jobDocBuffer
    globalJob,      \* globalJobId
    fields,         \* jobFields: the job parsed into it; cleared, fileSize is 0
    demos,          \* the event bit SELF_TEST_PASSED
    rejected,       \* a download that a block was rejected of, and goes on
    status,         \* job executions
    updater,        \* statusDetails.updaterVersion of each job
    lost, faults, resets    \* counted for the bounds

banks == <<active, buffer>>
ram == <<doc, globalJob, fields, demos>>
cloud == <<status, updater>>
bounds == <<lost, faults, resets>>
vars == <<release, banks, pc, ram, rejected, cloud, bounds>>

Document(j, v) == [job |-> j, updater |-> v]
NoDocument == Document(NoJob, NoVersion)

Init ==
    /\ release \in [Images -> [version : Versions, good : BOOLEAN]]
    /\ release[Factory].good
    /\ active = Factory /\ buffer = Blank
    /\ pc = "reset"
    /\ doc = NoDocument /\ globalJob = NoJob /\ fields = NoJob /\ demos = FALSE
    /\ rejected = "none"
    /\ status = [j \in Jobs |-> "none"]
    /\ updater = [j \in Jobs |-> NoVersion]
    /\ lost = 0 /\ faults = 0 /\ resets = 0

------------------------------------------------------------------------------
(* The cloud (external) *)

Pending == {j \in Jobs : status[j] \in {"queued", "inProgress"}}

(* A job is announced to an agent that waits for one. *)
CreateJob(j) ==
    /\ status[j] = "none" /\ (j > 1 => status[j - 1] # "none")
    /\ status' = [status EXCEPT ![j] = "queued"]
    /\ pc' = IF pc = "waiting" THEN "ask" ELSE pc
    /\ UNCHANGED <<release, rejected, banks, ram, updater, bounds>>

(* A job in progress goes before the queued ones, which keep their order. *)
Offered ==
    LET started == {j \in Pending : status[j] = "inProgress"}
    IN  IF started = {} THEN {j \in Pending : \A k \in Pending : j <= k} ELSE started

(* A status update, which may be lost; a finished job takes no other. *)
Publish(j, st, v) ==
    \/ /\ status[j] = "inProgress"
       /\ status' = [status EXCEPT ![j] = st]
       /\ updater' = [updater EXCEPT ![j] = IF v = NoVersion THEN @ ELSE v]
       /\ UNCHANGED lost
    \/ /\ status[j] # "inProgress" \/ (lost < MaxLost)
       /\ lost' = IF status[j] = "inProgress" THEN lost + 1 ELSE lost
       /\ UNCHANGED cloud

------------------------------------------------------------------------------
(* Reset and boot *)

(* The boot loader (external) starts what the active bank holds. *)
Boot ==
    /\ pc = "reset"
    /\ IF active \in Images THEN pc' = "ask" /\ rejected' = "none"
                           ELSE pc' = "dead" /\ UNCHANGED rejected
    /\ UNCHANGED <<release, banks, ram, cloud, bounds>>

ForgetRam ==
    /\ pc' = "reset"
    /\ doc' = NoDocument /\ globalJob' = NoJob /\ fields' = NoJob /\ demos' = FALSE

(* Power may be lost at any moment; a download that was under way is not
   completed later. *)
PowerLoss ==
    /\ pc \notin {"reset", "dead"} /\ resets < MaxResets
    /\ resets' = resets + 1
    /\ ForgetRam
    /\ UNCHANGED <<release, rejected, banks, cloud, lost, faults>>

(* The next event is that the image of a rejected download is activated. *)
Activating == rejected \in {"verified", "overtaken"}

RequestJobDocument ==
    /\ pc = "ask" /\ ~Activating
    /\ \/ Pending = {} /\ doc' = NoDocument /\ UNCHANGED status
       \/ \E j \in Offered : /\ status' = [status EXCEPT ![j] = "inProgress"]
                             /\ doc' = Document(j, updater[j])
    /\ pc' = "document"
    /\ UNCHANGED <<release, rejected, banks, globalJob, fields, demos, updater, bounds>>

(* The request, or its answer, is lost: the result of the publish is ignored, and
   a timeout while no document has come does nothing. *)
RequestLost ==
    /\ pc = "ask" /\ ~Activating /\ lost < MaxLost
    /\ \/ UNCHANGED status
       \/ \E j \in Offered : status' = [status EXCEPT ![j] = "inProgress"]
    /\ pc' = "unanswered" /\ lost' = lost + 1
    /\ UNCHANGED <<release, rejected, banks, ram, updater, faults, resets>>

------------------------------------------------------------------------------
(* receivedJobDocumentHandler clears jobFields before it looks at the document,
   and parses a document only when there is no version to verify. *)

ReceiveDocument == pc = "document" /\ fields' = NoJob

NoPendingJob ==
    /\ ReceiveDocument /\ doc.job = NoJob
    /\ demos' = TRUE
    /\ pc' = "waiting"
    /\ UNCHANGED <<release, rejected, banks, doc, globalJob, cloud, bounds>>

(* Fault: a file of size 0 is created. *)
FileSizeIgnored == TRUE

(* otaPal_CreateFileForRx refuses a file of size 0, and erases the buffer area
   otherwise. *)
FileSizeValid == fields # NoJob

(* A job that no image has been activated for: the buffer area is erased, whatever
   it holds, and the image is downloaded.  The demos may run meanwhile. *)
InitialImage ==
    /\ pc = "document"
    /\ doc.job # NoJob /\ doc.updater = NoVersion
    /\ demos' = TRUE
    /\ globalJob' = doc.job /\ fields' = doc.job
    /\ buffer' = Blank
    /\ rejected' = IF rejected = "verified" THEN "overtaken" ELSE rejected
    /\ pc' = "download"
    /\ UNCHANGED <<release, active, doc, cloud, bounds>>

(* Fault: an image of the same version counts as new. *)
VersionResultNotOlder(v) ==
    IF release[active].version >= v /\ release[active].good THEN "imageBooted"
    ELSE "bootFailed"

(* Fault: the self test is not asked. *)
VersionResultUntested(v) ==
    IF release[active].version > v THEN "imageBooted"
    ELSE IF release[active].version = v THEN "sameVersionOK" ELSE "bootFailed"

(* verifyVersion *)
VersionResult(v) ==
    IF release[active].version > v
    THEN IF release[active].good THEN "imageBooted" ELSE "bootFailed"
    ELSE IF release[active].version = v
    THEN IF release[active].good THEN "sameVersionOK" ELSE "sameVersionNG"
    ELSE "bootFailed"

VerifyVersion ==
    /\ ReceiveDocument /\ doc.job # NoJob /\ doc.updater # NoVersion
    /\ globalJob' = doc.job
    /\ pc' = VersionResult(Strtol(doc.updater))
    /\ demos' = (demos \/ pc' \in {"imageBooted", "sameVersionOK"})
    /\ UNCHANGED <<release, rejected, banks, doc, cloud, bounds>>

------------------------------------------------------------------------------
(* What follows from the result, in the order of the code *)

Report(st) ==
    /\ Publish(globalJob, st, NoVersion)
    /\ globalJob' = NoJob /\ doc' = NoDocument

DeleteBufferArea == buffer' = IF FileSizeValid THEN Blank ELSE buffer

(* OtaPalNewImageBooted *)
AcceptImage ==
    /\ pc = "imageBooted"
    /\ DeleteBufferArea
    /\ pc' = "success"
    /\ UNCHANGED <<release, rejected, active, ram, cloud, bounds>>

(* Fault: no other document is requested. *)
SendSuccessMessageOnce ==
    /\ pc = "success"
    /\ Report("succeeded")
    /\ pc' = "deaf"
    /\ UNCHANGED <<release, rejected, banks, fields, demos, faults, resets>>

(* The request for the next document was queued first: a job whose update was
   lost is offered, and checked, again. *)
SendSuccessMessage ==
    /\ pc = "success"
    /\ Report("succeeded")
    /\ pc' = "ask"
    /\ UNCHANGED <<release, rejected, banks, fields, demos, faults, resets>>

(* OtaPalNewImageSameVersionSelfTestOK *)
FailSameVersion ==
    /\ pc = "sameVersionOK"
    /\ Report("failed")
    /\ pc' = "delete"
    /\ UNCHANGED <<release, rejected, banks, fields, demos, faults, resets>>

DeleteAfterFailure ==
    /\ pc = "delete"
    /\ DeleteBufferArea
    /\ pc' = "ask"
    /\ UNCHANGED <<release, rejected, active, ram, cloud, bounds>>

(* OtaPalNewImageSameVersionSelfTestNG *)
ResetSameVersion ==
    /\ pc = "sameVersionNG"
    /\ ForgetRam
    /\ UNCHANGED <<release, rejected, banks, cloud, bounds>>

(* OtaPalNewImageBootFailed *)
FailBoot ==
    /\ pc = "bootFailed"
    /\ Report("failed")
    /\ pc' = "rollback"
    /\ UNCHANGED <<release, rejected, banks, fields, demos, faults, resets>>

(* rollBackOldFirmware creates a file, which erases the other bank, before it
   toggles the banks; a file that is refused ends it.  No event follows. *)
RollBackOldFirmware ==
    /\ pc = "rollback"
    /\ IF FileSizeValid
       THEN active' = Blank /\ buffer' = active /\ ForgetRam
       ELSE pc' = "deaf" /\ UNCHANGED <<banks, ram>>
    /\ UNCHANGED <<release, rejected, cloud, bounds>>

------------------------------------------------------------------------------
(* Download and activation *)

Download ==
    /\ pc = "download" /\ ~Activating
    /\ buffer' = fields
    /\ pc' = "save"
    /\ UNCHANGED <<release, rejected, active, ram, cloud, bounds>>

(* A block is rejected: the job is reported as failed and the next document is
   requested, but nothing ends the download. *)
RejectBlock ==
    /\ pc = "download" /\ ~Activating /\ faults < MaxFaults
    /\ faults' = faults + 1
    /\ Report("failed")
    /\ rejected' = "going"
    /\ pc' = "ask"
    /\ UNCHANGED <<release, banks, fields, demos, resets>>

(* Its last block arrives, and otaPal_CloseFile accepts the file, while jobFields
   are still those of its job.  The event to activate the image is queued. *)
RejectedVerified ==
    /\ rejected = "going" /\ pc \in {"ask", "document", "unanswered"} /\ fields # NoJob
    /\ buffer' = fields
    /\ rejected' = "verified"
    /\ UNCHANGED <<release, active, pc, ram, cloud, bounds>>

(* It is closed with blocks missing, or when the next document has been parsed. *)
RejectedClosed ==
    /\ rejected = "going" /\ pc \in {"document", "unanswered", "waiting", "download"}
    /\ pc' = "closeFailed"
    /\ UNCHANGED <<release, rejected, banks, ram, cloud, bounds>>

RejectedActivated ==
    /\ Activating /\ pc \in {"ask", "document", "unanswered", "waiting", "download"}
    /\ pc' = "save"
    /\ UNCHANGED <<release, rejected, banks, ram, cloud, bounds>>

(* otaPal_CloseFile does not accept what was received. *)
CloseRejected ==
    /\ pc = "download" /\ ~Activating /\ faults < MaxFaults
    /\ faults' = faults + 1
    /\ pc' = "closeFailed"
    /\ UNCHANGED <<release, rejected, banks, ram, cloud, lost, resets>>

(* No update can be sent without a job. *)
FailDownload ==
    /\ pc = "closeFailed"
    /\ IF globalJob = NoJob THEN UNCHANGED <<cloud, lost>>
       ELSE Publish(globalJob, "failed", NoVersion)
    /\ ForgetRam
    /\ UNCHANGED <<release, rejected, banks, faults, resets>>

(* The image is activated whether or not the version could be saved. *)
SaveInitVersion ==
    /\ pc = "save"
    /\ IF globalJob = NoJob THEN UNCHANGED <<doc, cloud, lost>>
       ELSE /\ Publish(globalJob, "inProgress", HexText(release[active].version))
            /\ doc' = NoDocument
    /\ pc' = "activate"
    /\ UNCHANGED <<release, rejected, banks, globalJob, fields, demos, faults, resets>>

ActivateNewImage ==
    /\ pc = "activate"
    /\ active' = buffer /\ buffer' = active
    /\ ForgetRam
    /\ UNCHANGED <<release, rejected, cloud, bounds>>

(* The bank toggle fails, and the agent stops. *)
ActivateFailed ==
    /\ pc = "activate" /\ faults < MaxFaults
    /\ faults' = faults + 1
    /\ pc' = "stopped"
    /\ UNCHANGED <<release, rejected, banks, ram, cloud, lost, resets>>

AgentTask ==
    \/ RequestJobDocument \/ NoPendingJob \/ InitialImage \/ VerifyVersion
    \/ AcceptImage \/ SendSuccessMessage \/ FailSameVersion \/ DeleteAfterFailure
    \/ ResetSameVersion \/ FailBoot \/ RollBackOldFirmware
    \/ Download \/ FailDownload \/ SaveInitVersion \/ ActivateNewImage
    \/ RejectedActivated

Faults ==
    \/ PowerLoss \/ RequestLost \/ CloseRejected \/ ActivateFailed
    \/ RejectBlock \/ RejectedVerified \/ RejectedClosed

Next == Boot \/ AgentTask \/ Faults \/ \E j \in Jobs : CreateJob(j)

(* The device runs: it boots, and the agent task goes on with its event.
   Nothing is assumed of the cloud, and no fault has to happen. *)
Spec == Init /\ [][Next]_vars /\ WF_vars(Boot) /\ WF_vars(AgentTask)

------------------------------------------------------------------------------
(* Properties *)

Steps ==
    {"reset", "dead", "ask", "document", "unanswered", "waiting", "imageBooted", "success",
     "sameVersionOK", "delete", "sameVersionNG", "bootFailed", "rollback", "deaf",
     "download", "closeFailed", "save", "activate", "stopped"}

TypeOK ==
    /\ release \in [Images -> [version : Versions, good : BOOLEAN]]
    /\ active \in Images \cup {Blank} /\ buffer \in Images \cup {Blank}
    /\ pc \in Steps
    /\ doc.job \in {NoJob} \cup Jobs
    /\ doc.updater = NoVersion \/ Strtol(doc.updater) \in Versions
    /\ globalJob \in {NoJob} \cup Jobs /\ fields \in {NoJob} \cup Jobs
    /\ demos \in BOOLEAN
    /\ rejected \in {"none", "going", "verified", "overtaken"}
    /\ status \in [Jobs -> {"none", "queued", "inProgress"} \cup Final]
    /\ \A j \in Jobs : updater[j] = NoVersion \/ Strtol(updater[j]) \in Versions
    /\ lost \in 0 .. MaxLost /\ faults \in 0 .. MaxFaults /\ resets \in 0 .. MaxResets

(* Whatever is lost, fails or is interrupted, the active bank holds an image, so
   that the device boots; but for one order of events: a download that a block
   was rejected of is completed and verified nevertheless, and the next job
   erases its image before the event that activates it. *)
AlwaysBootable == active \in Images \/ rejected = "overtaken"

(* A job succeeds only while its own image runs, has passed the self test, and
   is newer than the image that downloaded it: neither an activation that
   failed nor a reset in between can be mistaken for an update. *)
SuccessMeansInstalled ==
    [][\A j \in Jobs : status[j] # "succeeded" /\ status'[j] = "succeeded"
           => /\ active = j /\ release[j].good
              /\ updater[j] # NoVersion /\ release[j].version > Strtol(updater[j])]_vars

(* The demos of an image that still has a version to be verified do not start
   before its self test has passed. *)
SelfTestBeforeDemos ==
    [][~demos /\ demos' =>
           \A j \in Jobs : active = j /\ status[j] = "inProgress" /\ updater[j] # NoVersion
               => release[j].good]_vars

(* The image of a job that runs, passes its self test and is not older than the
   image before it ends the job, however many status updates are lost or resets
   happen in between; unless the agent stops before, after an activation that
   failed or a request that was not answered, or the device no longer boots.  An
   older image reports its failure once per boot. *)
UpdateReported ==
    \A j \in Jobs :
        (/\ active = j /\ status[j] = "inProgress"
         /\ release[j].good /\ (updater[j] = NoVersion \/ release[j].version >= Strtol(updater[j])))
            ~> (status[j] \in Final \/ pc \in {"stopped", "unanswered", "dead"})

(* "Reverts back to old firmware": an image that could not be booted does not
   stay active. *)
RevertsToOldFirmware == \A j \in Jobs : (pc = "rollback" /\ active = j) ~> active # j
================================================================================
