------------------------------- MODULE OtaPal --------------------------------
(***************************************************************************)
(* The OTA platform layer of Common/ports/ota_pal/ota_pal.c: the OTA agent *)
(* task calls it, a flash task of idle priority programs the blocks it     *)
(* queues.  A call blocks only while it waits for the flash queue to drain *)
(* or for room in it, so those are the places where the two interleave;    *)
(* an erase or a write of the sequencer is one step (FlashAccess shows     *)
(* that they exclude each other and end before the caller goes on).        *)
(***************************************************************************)
EXTENDS Naturals, Sequences

CONSTANTS
    NumBlocks,      \* blocks of the image
    QueueLength,    \* OTA_FLASH_QUEUE_LENGTH
    NoBlock         \* the flash task holds no block

ASSUME NumBlocksAssumption == NumBlocks \in Nat \ {0}
ASSUME QueueLengthAssumption == QueueLength \in Nat \ {0}

Blocks == 0 .. NumBlocks - 1

(* The buffer area: an image header (OTA_PAYLOAD_BASE_OFFSET bytes), which
   CloseFile writes, then the blocks. *)
Header == NumBlocks

Area == Blocks \cup {Header}

(* What a block carries: the bytes of the signed image, or other bytes. *)
Data == {"image", "other"}

(* An OtaFlashBlock_t: which block, and its bytes. *)
FlashBlock == [block : Blocks, data : Data]

ASSUME NoBlockAssumption == NoBlock \notin FlashBlock

(* The signature in the job document: the one of the image, or anything else,
   which may not even decode. *)
Signatures == {"genuine", "wrong"}

ImageStates == {"Unknown", "Testing", "Accepted", "Rejected", "Aborted"}

VARIABLES
    pc,         \* where the agent task is in a PAL call
    op,         \* whether that call is otaPal_CreateFileForRx or another
    queue,      \* xOtaFlashQueue
    inHand,     \* the block the flash task is programming
    pending,    \* ulOtaFlashPendingBlocks
    error,      \* xOtaFlashError
    received,   \* ulOtaPayloadBytesReceived, in blocks
    image,      \* OtaImageState
    flash,      \* the OTA buffer area: the header and each block
    \* what the caller knows:
    file,       \* no file, an open file, or one CloseFile accepted
    sig,        \* the signature of the job it downloads
    accepted,   \* blocks for which WriteBlock returned their size
    unseen      \* history: blocks lost by a failure only the interrupt saw

agentVars == <<pc, op>>
queueVars == <<queue, inHand, pending>>
callerVars == <<file, sig, accepted, unseen>>
vars == <<agentVars, queueVars, error, received, image, flash, callerVars>>

Init ==
    /\ pc = "idle" /\ op = "other"
    /\ queue = <<>> /\ inHand = NoBlock /\ pending = 0
    /\ error = FALSE
    /\ received = 0
    /\ image = "Unknown"
    /\ flash = [b \in Area |-> "erased"]
    /\ file = "none" /\ sig = "wrong" /\ accepted = {} /\ unseen = {}

Call(place) ==
    /\ pc = "idle"
    /\ pc' = place
    /\ op' = IF place = "createWait" THEN "create" ELSE "other"

Return == pc' = "idle" /\ op' = "other"

(* Fault: the block the flash task holds is forgotten. *)
QueueEmpty == queue = <<>>

(* prvWaitForFlashQueueDrained: the agent polls until the counter is zero. *)
Drained == pending = 0

Whole == \A b \in Blocks : flash[b] = "image"

------------------------------------------------------------------------------
(* otaPal_CreateFileForRx *)

(* An invalid size, or a failure to create the queue or the task, returns
   before anything of the platform layer changes; the caller's job has. *)
CreateRefused(s) ==
    /\ pc = "idle"
    /\ sig' = s
    /\ UNCHANGED <<agentVars, queueVars, error, received, image, flash, file, accepted, unseen>>

CreateFileForRx(s) ==
    /\ Call("createWait")
    /\ file' = "none" /\ sig' = s
    /\ UNCHANGED <<queueVars, error, received, image, flash, accepted, unseen>>

ResetDownloadState ==
    /\ pc = "createWait"
    /\ Drained                       \* whether or not a write failed
    /\ pending' = 0 /\ error' = FALSE /\ received' = 0
    /\ image' = "Unknown"
    /\ accepted' = {} /\ unseen' = {}
    /\ pc' = "persist"
    /\ UNCHANGED <<op, queue, inHand, flash, file, sig>>

(* What an erase that fails in the background, or is cut off, leaves. *)
PartlyErased == {f \in [Area -> {"erased", "image", "other"}] :
                    \A b \in Area : f[b] \in {"erased", "other", flash[b]}}

(* prvEraseBufferArea, called by CreateFileForRx and by EraseArea: once
   R_FLASH_Erase accepts, it waits for the completion interrupt and returns
   pdTRUE, whether or not the interrupt reported a failure. *)
EraseBufferArea ==
    /\ pc = "erase"
    /\ Drained
    /\ \/ /\ ~error
          /\ flash' \in PartlyErased
          /\ accepted' = {} /\ unseen' = {}
          /\ file' = IF op = "create" THEN "open" ELSE file
          /\ Return
       \/ /\ Return                \* the error flag or R_FLASH_Erase
          /\ UNCHANGED <<flash, accepted, unseen, file>>
    /\ UNCHANGED <<queueVars, error, received, image, sig>>

EraseArea ==
    /\ Call("erase")
    /\ file' = IF file = "verified" THEN "none" ELSE file
    /\ UNCHANGED <<queueVars, error, received, image, flash, sig, accepted, unseen>>

------------------------------------------------------------------------------
(* otaPal_WriteBlock *)

(* 0 is returned: the block exceeds the file or the buffer area, which raises
   the error flag, or the flag is up or pvPortMalloc fails, which changes
   nothing. *)
WriteBlockOutOfRange ==
    /\ pc = "idle" /\ file = "open" /\ ~error
    /\ error' = TRUE
    /\ UNCHANGED <<agentVars, queueVars, received, image, flash, callerVars>>

(* Fault: the block is not counted. *)
WriteBlockUncounted ==
    /\ Call("send")
    /\ file = "open" /\ ~error
    /\ UNCHANGED <<queueVars, error, received, image, flash, callerVars>>

(* The counter goes up before the block is sent to the queue.  That a file is
   open is the caller's contract (OtaAgent, WritesToOpenFile). *)
WriteBlock ==
    /\ Call("send")
    /\ file = "open" /\ ~error
    /\ pending' = pending + 1
    /\ UNCHANGED <<queue, inHand, error, received, image, flash, callerVars>>

(* Fault: a queue without a limit. *)
SendBlockUnbounded(b, d) ==
    /\ pc = "send"
    /\ queue' = Append(queue, [block |-> b, data |-> d])
    /\ received' = IF b + 1 > received THEN b + 1 ELSE received
    /\ accepted' = accepted \cup {b}
    /\ Return
    /\ UNCHANGED <<inHand, pending, error, image, flash, file, sig, unseen>>

SendBlock(b, d) ==
    /\ pc = "send"
    /\ Len(queue) < QueueLength      \* xQueueSend waits for ever
    /\ queue' = Append(queue, [block |-> b, data |-> d])
    /\ received' = IF b + 1 > received THEN b + 1 ELSE received
    /\ accepted' = accepted \cup {b}
    /\ Return
    /\ UNCHANGED <<inHand, pending, error, image, flash, file, sig, unseen>>

------------------------------------------------------------------------------
(* prvOtaFlashTask *)

ReceiveBlock ==
    /\ inHand = NoBlock /\ queue # <<>>
    /\ inHand' = Head(queue)
    /\ queue' = Tail(queue)
    /\ UNCHANGED <<agentVars, pending, error, received, image, flash, callerVars>>

(* The block in hand is written; or programming it fails in the background,
   which the completion interrupt records but nobody reads: it stays as it was,
   erased perhaps, or its bytes become others.  Programming a block that is not
   erased always fails. *)
Programmed ==
    LET b == inHand.block
    IN  /\ \/ flash[b] = "erased" /\ flash' = [flash EXCEPT ![b] = inHand.data]
           \/ flash' \in {flash, [flash EXCEPT ![b] = "other"]}
        /\ unseen' = IF flash'[b] = "erased" THEN unseen \cup {b} ELSE unseen

(* Fault: R_FLASH_Write refuses the block and the error flag is not raised. *)
ProgramBlockSilently ==
    /\ inHand # NoBlock
    /\ Programmed \/ UNCHANGED <<flash, unseen>>
    /\ inHand' = NoBlock
    /\ pending' = IF pending > 0 THEN pending - 1 ELSE 0
    /\ UNCHANGED <<agentVars, queue, error, received, image, file, sig, accepted>>

(* Fault: a failed write is counted as pending for ever. *)
ProgramBlockUncounted ==
    /\ inHand # NoBlock
    /\ error' = TRUE
    /\ inHand' = NoBlock
    /\ UNCHANGED <<agentVars, queue, pending, received, image, flash, callerVars>>

(* R_FLASH_Write accepts the block, and prvWriteFlashBlocking reports success
   whatever comes of it, or refuses it, which raises the flag. *)
ProgramBlock ==
    /\ inHand # NoBlock
    /\ \/ Programmed /\ UNCHANGED error
       \/ error' = TRUE /\ UNCHANGED <<flash, unseen>>
    /\ inHand' = NoBlock
    /\ pending' = IF pending > 0 THEN pending - 1 ELSE 0
    /\ UNCHANGED <<agentVars, queue, received, image, file, sig, accepted>>

------------------------------------------------------------------------------
(* otaPal_CloseFile *)

CloseFile ==
    /\ Call("closeWait")
    /\ file = "open"
    /\ UNCHANGED <<queueVars, error, received, image, flash, callerVars>>

(* A failed write, no signature, an undecodable one, or a failure to write
   the image header: the image is rejected, and that state is not persisted. *)
RejectEarly ==
    /\ pc = "closeWait" /\ Drained
    /\ image' = "Rejected"
    /\ file' = "none"
    /\ Return
    /\ UNCHANGED <<queueVars, error, received, flash, sig, accepted, unseen>>

(* prvWriteImageHeader: like a block, the header may fail to be written
   without anybody noticing.  Its bytes, which nothing here reads back, are
   "other" ones. *)
WriteImageHeader == flash' \in {flash, [flash EXCEPT ![Header] = "other"]}

(* The header is written first, then prvVerifyReceivedPayload hashes the bytes
   received so far; the stored certificate may be missing.  The result is
   persisted either way. *)
VerifyPayload(certificate) ==
    /\ pc = "closeWait" /\ Drained /\ ~error
    /\ WriteImageHeader
    /\ LET ok == /\ certificate
                 /\ sig = "genuine"
                 /\ received = NumBlocks
                 /\ Whole
       IN  /\ image' = IF ok THEN "Testing" ELSE "Rejected"
           /\ file' = IF ok THEN "verified" ELSE "none"
    /\ pc' = "persist"
    /\ UNCHANGED <<op, queueVars, error, received, sig, accepted, unseen>>

CloseFileNoSignatureCheck ==
    /\ Call("closeNoSigWait")
    /\ file = "open"
    /\ UNCHANGED <<queueVars, error, received, image, flash, callerVars>>

ClosedNoSignatureCheck ==
    /\ pc = "closeNoSigWait" /\ Drained
    /\ file' = "none"
    /\ Return
    /\ UNCHANGED <<queueVars, error, received, image, flash, sig, accepted, unseen>>

------------------------------------------------------------------------------
(* otaPal_Abort *)

Abort ==
    /\ Call("abortWait")
    /\ error' = TRUE
    /\ file' = "none"
    /\ UNCHANGED <<queueVars, received, image, flash, sig, accepted, unseen>>

Aborted ==
    /\ pc = "abortWait" /\ Drained
    /\ image' = "Aborted"
    /\ pc' = "persist"
    /\ UNCHANGED <<op, queueVars, error, received, flash, callerVars>>

------------------------------------------------------------------------------
(* otaPal_SetPlatformImageState, otaPal_GetPlatformImageState *)

(* Accepting an image that is not under test returns OtaPalCommitFailed, and
   Unknown OtaPalBadImageState, but the state is set and persisted all the
   same. *)
SetPlatformImageState(s) ==
    /\ Call("persist")
    /\ image' = s
    /\ UNCHANGED <<queueVars, error, received, flash, callerVars>>

(* prvLoadPersistedImageState may find any state in the key-value store, which
   is not modelled here. *)
GetPlatformImageState ==
    /\ pc = "idle" /\ image = "Unknown"
    /\ image' \in ImageStates
    /\ UNCHANGED <<agentVars, queueVars, error, received, flash, callerVars>>

(* prvPersistImageState writes the key-value store; its result is ignored. *)
PersistImageState ==
    /\ pc = "persist"
    /\ IF op = "create" THEN pc' = "erase" /\ UNCHANGED op ELSE Return
    /\ UNCHANGED <<queueVars, error, received, image, flash, callerVars>>

------------------------------------------------------------------------------
(* otaPal_ActivateNewImage, otaPal_ResetDevice and power loss *)

(* RAM is lost. *)
Reset ==
    /\ Return
    /\ queue' = <<>> /\ inHand' = NoBlock /\ pending' = 0
    /\ error' = FALSE /\ received' = 0
    /\ image' = "Unknown"
    /\ file' = "none" /\ UNCHANGED sig
    /\ accepted' = {} /\ unseen' = {}

(* The sequencer may leave the block in hand, the header, or any block it was
   erasing, half done. *)
PowerLoss ==
    /\ Reset
    /\ \/ UNCHANGED flash
       \/ /\ inHand # NoBlock
          /\ flash' = [flash EXCEPT ![inHand.block] = "other"]
       \/ /\ pc = "closeWait" /\ Drained
          /\ WriteImageHeader
       \/ /\ pc = "erase"
          /\ flash' \in PartlyErased

(* The agent calls it after otaPal_CloseFile accepted the image. *)
ActivateNewImage ==
    /\ Call("activateWait")
    /\ file = "verified"
    /\ UNCHANGED <<queueVars, error, received, image, flash, callerVars>>

(* The bank toggle may fail; the agent then stops with the file as it is. *)
ActivateFailed ==
    /\ pc = "activateWait" /\ Drained
    /\ Return
    /\ UNCHANGED <<queueVars, error, received, image, flash, callerVars>>

(* The banks are swapped and the device resets: the buffer area is now the
   bank that held the previous firmware. *)
ActivateBank ==
    /\ pc = "activateWait" /\ Drained /\ ~error
    /\ Reset
    /\ flash' = [b \in Area |-> "other"]

------------------------------------------------------------------------------
FlashTask == ReceiveBlock \/ ProgramBlock

(* The steps of a call that is under way. *)
CallStep ==
    \/ ResetDownloadState \/ EraseBufferArea
    \/ \E b \in Blocks, d \in Data : SendBlock(b, d)
    \/ RejectEarly \/ (\E c \in BOOLEAN : VerifyPayload(c))
    \/ ClosedNoSignatureCheck \/ Aborted
    \/ PersistImageState
    \/ ActivateFailed \/ ActivateBank

AgentCall ==
    \/ \E s \in Signatures : CreateFileForRx(s) \/ CreateRefused(s)
    \/ EraseArea \/ WriteBlock \/ WriteBlockOutOfRange
    \/ CloseFile \/ CloseFileNoSignatureCheck \/ Abort
    \/ \E s \in ImageStates : SetPlatformImageState(s)
    \/ GetPlatformImageState \/ ActivateNewImage

Next == AgentCall \/ CallStep \/ FlashTask \/ PowerLoss

(* The agent blocks (vTaskDelay, a full queue) whenever it waits, which lets
   the flash task of idle priority run; a call that can go on does. *)
Fairness == WF_vars(FlashTask) /\ WF_vars(CallStep)

Spec == Init /\ [][Next]_vars /\ Fairness

------------------------------------------------------------------------------
Waiting == {"createWait", "erase", "send", "closeWait", "closeNoSigWait",
            "abortWait", "activateWait"}

TypeOK ==
    /\ pc \in Waiting \cup {"idle", "persist"}
    /\ op \in {"create", "other"}
    /\ queue \in Seq(FlashBlock) /\ Len(queue) <= QueueLength
    /\ inHand \in FlashBlock \cup {NoBlock}
    /\ pending \in Nat
    /\ error \in BOOLEAN
    /\ received \in 0 .. NumBlocks
    /\ image \in ImageStates
    /\ flash \in [Area -> {"erased", "image", "other"}]
    /\ file \in {"none", "open", "verified"}
    /\ sig \in Signatures
    /\ accepted \subseteq Blocks /\ unseen \subseteq Blocks

One(condition) == IF condition THEN 1 ELSE 0

(* ulOtaFlashPendingBlocks, which the agent polls instead of the queue, never
   counts a block too few or too many: each block from before it is queued
   until after it is programmed.  A counter that lagged would let the agent
   verify or erase flash that is still being written. *)
PendingCountsBlocks ==
    pending = Len(queue) + One(inHand # NoBlock) + One(pc = "send")

Quiet == queue = <<>> /\ inHand = NoBlock

(* A block is queued or programmed only for the file that is open, or while
   the call that ends it waits: no write of an earlier download reaches the
   area of the next one, of a rejected image, or of one that was verified. *)
WritesOnlyWhileOpen ==
    Quiet \/ file = "open" \/ pc \in {"createWait", "abortWait"}

(* What otaPal_CloseFile accepted is the signed image, and still is when
   otaPal_ActivateNewImage swaps the banks. *)
VerifiedStaysWhole == file = "verified" => Whole

(* A block for which otaPal_WriteBlock returned its size is in the buffer
   area, on its way there, or lost with the error flag up, which makes
   otaPal_CloseFile reject the image.  The one way to lose it with no flag is
   a failure that R_FLASH_Write does not return and only the completion
   interrupt sees: then the signature is what rejects the image. *)
AcceptedNotLost ==
    \A b \in accepted :
        \/ flash[b] # "erased"
        \/ \E i \in 1 .. Len(queue) : queue[i].block = b
        \/ inHand # NoBlock /\ inHand.block = b
        \/ error \/ b \in unseen

(* Every call comes back: nobody waits for ever for the flash queue to drain
   or to have room. *)
CallsReturn == pc # "idle" ~> pc = "idle"

(* The layer implements an image store, where flash is written only while no
   image is verified. *)
Store == INSTANCE ImageStore
             WITH content <- [b \in Blocks |-> flash[b]], phase <- file

ImplementsImageStore == Store!Spec

==============================================================================
