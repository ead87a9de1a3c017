---------------------------- MODULE OtaPal_proofs ----------------------------
(***************************************************************************)
(* The OTA platform layer keeps its promise for every image size and every *)
(* queue length.                                                           *)
(*                                                                         *)
(* What a verified image needs is that nothing is left to be written.  The *)
(* agent concludes that from the pending counter alone, so the counter must *)
(* account for the blocks, and each place of a call must say what may have *)
(* been left behind; IInv collects both.                                   *)
(***************************************************************************)
EXTENDS OtaPal, TLAPS

(* What is known of the file at each place of a call. *)
CallsAndFiles ==
    /\ op = "create" => pc \in {"createWait", "persist", "erase"} /\ file = "none"
    /\ pc \in {"send", "closeWait"} => file = "open"
    /\ pc \in {"erase", "abortWait"} => file # "verified"
    /\ pc = "activateWait" => file = "verified"
    /\ pc = "createWait" => op = "create"

IInv ==
    /\ TypeOK
    /\ PendingCountsBlocks
    /\ WritesOnlyWhileOpen
    /\ VerifiedStaysWhole
    /\ AcceptedNotLost
    /\ CallsAndFiles

USE NumBlocksAssumption, QueueLengthAssumption, NoBlockAssumption

(* The agent may trust the counter: when it is zero, no block is queued or
   in hand. *)
LEMMA DrainedIsQuiet ==
    ASSUME TypeOK, PendingCountsBlocks, Drained
    PROVE  Quiet /\ pc # "send"
<1>1. Len(queue) \in Nat
    BY DEF TypeOK
<1>2. 0 = Len(queue) + One(inHand # NoBlock) + One(pc = "send")
    BY DEF PendingCountsBlocks, Drained
<1>3. One(inHand # NoBlock) \in {0, 1} /\ One(pc = "send") \in {0, 1}
    BY DEF One
<1>4. Len(queue) = 0 /\ One(inHand # NoBlock) = 0 /\ One(pc = "send") = 0
    BY <1>1, <1>2, <1>3
<1>5. inHand = NoBlock /\ pc # "send"
    BY <1>4 DEF One
<1>6. queue = <<>>
    BY <1>4 DEF TypeOK
<1> QED
    BY <1>5, <1>6 DEF Quiet

(* The initial state satisfies IInv. *)
LEMMA InitIInv == Init => IInv
<1> SUFFICES ASSUME Init PROVE IInv
    OBVIOUS
<1>1. flash \in [Area -> {"erased", "image", "other"}]
    BY DEF Init
<1>2. queue \in Seq(FlashBlock) /\ Len(queue) = 0 /\ received \in 0 .. NumBlocks
    BY DEF Init
<1>3. error \in BOOLEAN
    BY DEF Init
<1>4. TypeOK
    BY <1>1, <1>2, <1>3 DEF Init, TypeOK, Waiting, ImageStates, Signatures
<1> QED
    BY <1>4 DEF Init, IInv, PendingCountsBlocks, WritesOnlyWhileOpen, Quiet,
                VerifiedStaysWhole, AcceptedNotLost, CallsAndFiles, One

USE DEF Waiting, ImageStates, Signatures

(* The header is not a block of the image. *)
LEMMA AreaParts == Blocks \subseteq Area /\ Header \in Area /\ Header \notin Blocks
BY DEF Blocks, Header, Area

(* Writing the image header changes no block, and the area stays an area. *)
LEMMA HeaderWritten ==
    ASSUME TypeOK, WriteImageHeader
    PROVE  /\ flash' \in [Area -> {"erased", "image", "other"}]
           /\ \A b \in Blocks : flash'[b] = flash[b]
BY AreaParts DEF TypeOK, WriteImageHeader

(* What becomes of the block in hand: only it may change, and when it is still
   erased, it is one the interrupt saw fail. *)
LEMMA BlockProgrammed ==
    ASSUME TypeOK, inHand # NoBlock, Programmed
    PROVE  /\ flash' \in [Area -> {"erased", "image", "other"}]
           /\ unseen' \subseteq Blocks /\ unseen \subseteq unseen'
           /\ flash'[inHand.block] = "erased" => inHand.block \in unseen'
           /\ \A b \in Blocks : b # inHand.block => flash'[b] = flash[b]
<1>1. inHand.block \in Blocks /\ inHand.data \in {"image", "other"}
    BY DEF TypeOK, FlashBlock, Data
<1>2. /\ flash \in [Area -> {"erased", "image", "other"}] /\ unseen \subseteq Blocks
      /\ inHand.block \in Area
    BY <1>1, AreaParts DEF TypeOK
<1>3. /\ flash' \in [Area -> {"erased", "image", "other"}]
      /\ \A b \in Area : b # inHand.block => flash'[b] = flash[b]
    BY <1>1, <1>2 DEF Programmed
<1>4. /\ unseen' \subseteq Blocks /\ unseen \subseteq unseen'
      /\ flash'[inHand.block] = "erased" => inHand.block \in unseen'
    BY <1>1, <1>2 DEF Programmed
<1> QED
    BY <1>3, <1>4, AreaParts

(* A block in hand half written is still a block. *)
LEMMA BlockCutOff ==
    ASSUME TypeOK, inHand # NoBlock, flash' = [flash EXCEPT ![inHand.block] = "other"]
    PROVE  flash' \in [Area -> {"erased", "image", "other"}]
BY AreaParts DEF TypeOK, FlashBlock

(* Every step preserves the type invariant. *)
LEMMA NextTypeOK == TypeOK /\ [Next]_vars => TypeOK'
<1> SUFFICES ASSUME TypeOK, [Next]_vars PROVE TypeOK'
    OBVIOUS
<1> USE DEF TypeOK, agentVars, queueVars, callerVars, Call, Return
<1>1. ASSUME NEW s \in Signatures, CreateFileForRx(s) \/ CreateRefused(s)
      PROVE  TypeOK'
    BY <1>1 DEF CreateFileForRx, CreateRefused
<1>2. CASE EraseArea
    BY <1>2 DEF EraseArea
<1>3. CASE WriteBlock
    BY <1>3 DEF WriteBlock
<1>4. CASE WriteBlockOutOfRange
    BY <1>4 DEF WriteBlockOutOfRange
<1>5. CASE CloseFile \/ CloseFileNoSignatureCheck
    BY <1>5 DEF CloseFile, CloseFileNoSignatureCheck
<1>6. CASE Abort
    BY <1>6 DEF Abort
<1>7. ASSUME NEW s \in ImageStates, SetPlatformImageState(s) PROVE TypeOK'
    BY <1>7 DEF SetPlatformImageState
<1>8. CASE GetPlatformImageState
    BY <1>8 DEF GetPlatformImageState
<1>9. CASE ActivateNewImage
    BY <1>9 DEF ActivateNewImage
<1>10. CASE ResetDownloadState
    <2>1. error' \in BOOLEAN
        BY <1>10 DEF ResetDownloadState
    <2> QED
        BY <1>10, <2>1 DEF ResetDownloadState
<1>11. CASE EraseBufferArea
    <2>1. flash' \in [Area -> {"erased", "image", "other"}]
        BY <1>11 DEF EraseBufferArea, PartlyErased
    <2> QED
        BY <1>11, <2>1 DEF EraseBufferArea
<1>12. ASSUME NEW b \in Blocks, NEW d \in Data, SendBlock(b, d) PROVE TypeOK'
    <2>1. [block |-> b, data |-> d] \in FlashBlock
        BY DEF FlashBlock
    <2>2. queue' \in Seq(FlashBlock) /\ Len(queue') <= QueueLength
        BY <1>12, <2>1 DEF SendBlock
    <2>3. received' \in 0 .. NumBlocks
        BY <1>12 DEF SendBlock, Blocks
    <2> QED
        BY <1>12, <2>2, <2>3 DEF SendBlock
<1>13. CASE RejectEarly
    BY <1>13 DEF RejectEarly
<1>14. ASSUME NEW c \in BOOLEAN, VerifyPayload(c) PROVE TypeOK'
    <2>1. flash' \in [Area -> {"erased", "image", "other"}]
        BY <1>14, HeaderWritten DEF VerifyPayload
    <2> QED
        BY <1>14, <2>1 DEF VerifyPayload
<1>15. CASE ClosedNoSignatureCheck
    BY <1>15 DEF ClosedNoSignatureCheck
<1>16. CASE Aborted
    BY <1>16 DEF Aborted
<1>17. CASE PersistImageState
    BY <1>17 DEF PersistImageState
<1>18. CASE ActivateFailed
    BY <1>18 DEF ActivateFailed
<1>19. CASE ReceiveBlock
    BY <1>19 DEF ReceiveBlock
<1>20. CASE ProgramBlock
    <2>2. flash' \in [Area -> {"erased", "image", "other"}] /\ unseen' \subseteq Blocks
        BY <1>20, BlockProgrammed DEF ProgramBlock
    <2>3. pending' \in Nat
        BY <1>20 DEF ProgramBlock
    <2>4. error' \in BOOLEAN
        BY <1>20 DEF ProgramBlock
    <2> QED
        BY <1>20, <2>2, <2>3, <2>4 DEF ProgramBlock
<1>21. CASE ActivateBank
    <2>1. error' \in BOOLEAN
        BY <1>21 DEF ActivateBank, Reset
    <2> QED
        BY <1>21, <2>1 DEF ActivateBank, Reset
<1>22. CASE PowerLoss
    <2>1. flash' \in [Area -> {"erased", "image", "other"}]
        BY <1>22, HeaderWritten, BlockCutOff DEF PowerLoss, PartlyErased
    <2>2. queue' \in Seq(FlashBlock) /\ Len(queue') <= QueueLength
        BY <1>22 DEF PowerLoss, Reset
    <2>3. error' \in BOOLEAN
        BY <1>22 DEF PowerLoss, Reset
    <2> QED
        BY <1>22, <2>1, <2>2, <2>3 DEF PowerLoss, Reset
<1>23. CASE UNCHANGED vars
    BY <1>23 DEF vars
<1>24. QED
    BY <1>1, <1>2, <1>3, <1>4, <1>5, <1>6, <1>7, <1>8, <1>9, <1>10, <1>11, <1>12,
       <1>13, <1>14, <1>15, <1>16, <1>17, <1>18, <1>19, <1>20, <1>21, <1>22, <1>23
       DEF Next, AgentCall, CallStep, FlashTask

(* Every step keeps the counter exact. *)
LEMMA NextPending ==
    ASSUME TypeOK, TypeOK', PendingCountsBlocks, [Next]_vars
    PROVE  PendingCountsBlocks'
<1>t. /\ Len(queue) \in Nat /\ pending \in Nat
      /\ One(inHand # NoBlock) \in {0, 1}
    BY DEF TypeOK, One
<1> USE DEF PendingCountsBlocks, agentVars, queueVars, callerVars, Call, Return
(* A step that leaves the blocks alone, and the place "send" too. *)
<1>1. ASSUME UNCHANGED queueVars, pc # "send", pc' # "send"
      PROVE  PendingCountsBlocks'
    BY <1>1 DEF One
<1>2. CASE AgentCall /\ ~WriteBlock
    BY <1>1, <1>2 DEF AgentCall, CreateFileForRx, CreateRefused, EraseArea,
                WriteBlockOutOfRange, CloseFile, CloseFileNoSignatureCheck, Abort,
                SetPlatformImageState, GetPlatformImageState, ActivateNewImage
<1>3. CASE WriteBlock
    BY <1>3, <1>t DEF WriteBlock, One
<1>4. ASSUME NEW b \in Blocks, NEW d \in Data, SendBlock(b, d)
      PROVE  PendingCountsBlocks'
    <2>1. [block |-> b, data |-> d] \in FlashBlock
        BY DEF FlashBlock
    <2>2. Len(queue') = Len(queue) + 1
        BY <1>4, <2>1 DEF SendBlock, TypeOK
    <2>3. One(pc = "send") = 1 /\ One(pc' = "send") = 0 /\ UNCHANGED <<inHand, pending>>
        BY <1>4 DEF SendBlock, One
    <2> QED
        BY <1>t, <2>2, <2>3
<1>5. CASE ResetDownloadState
    <2>1. UNCHANGED queueVars
        BY <1>5 DEF ResetDownloadState, Drained
    <2> QED
        BY <1>1, <1>5, <2>1 DEF ResetDownloadState
<1>6. CASE \/ EraseBufferArea \/ RejectEarly \/ ClosedNoSignatureCheck
           \/ Aborted \/ PersistImageState \/ ActivateFailed
           \/ \E c \in BOOLEAN : VerifyPayload(c)
    BY <1>1, <1>6 DEF EraseBufferArea, RejectEarly, ClosedNoSignatureCheck, Aborted,
                PersistImageState, ActivateFailed, VerifyPayload
<1>7. CASE ReceiveBlock
    <2>1. Head(queue) \in FlashBlock /\ Len(Tail(queue)) = Len(queue) - 1
        BY <1>7 DEF ReceiveBlock, TypeOK
    <2>2. One(inHand # NoBlock) = 0 /\ One(inHand' # NoBlock) = 1
        BY <1>7, <2>1 DEF ReceiveBlock, One
    <2> QED
        BY <1>7, <1>t, <2>1, <2>2 DEF ReceiveBlock
<1>8. CASE ProgramBlock
    <2>1. One(inHand # NoBlock) = 1 /\ One(inHand' # NoBlock) = 0
        BY <1>8 DEF ProgramBlock, One
    <2>2. One(pc = "send") \in {0, 1}
        BY DEF One
    <2>3. pending' = pending - 1 /\ UNCHANGED <<pc, queue>>
        BY <1>8, <1>t, <2>1, <2>2 DEF ProgramBlock
    <2> QED
        BY <1>t, <2>1, <2>2, <2>3
<1>9. CASE ActivateBank \/ PowerLoss
    <2>1. pending' = 0 /\ queue' = <<>> /\ inHand' = NoBlock /\ pc' = "idle"
        BY <1>9 DEF ActivateBank, PowerLoss, Reset
    <2>2. One(inHand' # NoBlock) = 0 /\ One(pc' = "send") = 0
        BY <2>1 DEF One
    <2> QED
        BY <2>1, <2>2
<1>10. CASE UNCHANGED vars
    <2>1. UNCHANGED <<queue, inHand, pending, pc>>
        BY <1>10 DEF vars
    <2> QED
        BY <2>1 DEF One
<1>11. QED
    BY <1>2, <1>3, <1>4, <1>5, <1>6, <1>7, <1>8, <1>9, <1>10
       DEF Next, AgentCall, CallStep, FlashTask

(* Every step preserves what is known of calls and files. *)
LEMMA NextCallsAndFiles ==
    ASSUME IInv, [Next]_vars
    PROVE  CallsAndFiles'
<1> USE DEF IInv, TypeOK, CallsAndFiles, agentVars, queueVars, callerVars, Call, Return
<1>1. CASE AgentCall
    BY <1>1 DEF AgentCall, CreateFileForRx, CreateRefused, EraseArea, WriteBlock,
                WriteBlockOutOfRange, CloseFile, CloseFileNoSignatureCheck, Abort,
                SetPlatformImageState, GetPlatformImageState, ActivateNewImage
<1>2. CASE ResetDownloadState \/ EraseBufferArea
    BY <1>2 DEF ResetDownloadState, EraseBufferArea
<1>3. ASSUME NEW b \in Blocks, NEW d \in Data, SendBlock(b, d) PROVE CallsAndFiles'
    BY <1>3 DEF SendBlock
<1>4. CASE RejectEarly \/ \E c \in BOOLEAN : VerifyPayload(c)
    BY <1>4 DEF RejectEarly, VerifyPayload
<1>5. CASE ClosedNoSignatureCheck \/ Aborted \/ PersistImageState \/ ActivateFailed
    BY <1>5 DEF ClosedNoSignatureCheck, Aborted, PersistImageState, ActivateFailed
<1>6. CASE FlashTask
    BY <1>6 DEF FlashTask, ReceiveBlock, ProgramBlock
<1>7. CASE ActivateBank \/ PowerLoss
    BY <1>7 DEF ActivateBank, PowerLoss, Reset
<1>8. CASE UNCHANGED vars
    BY <1>8 DEF vars
<1>9. QED
    BY <1>1, <1>2, <1>3, <1>4, <1>5, <1>6, <1>7, <1>8 DEF Next, CallStep

(* After every step, a block is under way only where the invariant allows. *)
LEMMA NextWrites ==
    ASSUME IInv, [Next]_vars
    PROVE  WritesOnlyWhileOpen'
<1>q. Drained => Quiet
    BY DrainedIsQuiet DEF IInv
<1> USE DEF IInv, TypeOK, WritesOnlyWhileOpen, CallsAndFiles, Quiet,
        agentVars, queueVars, callerVars, Call, Return
<1>1. CASE AgentCall
    BY <1>1 DEF AgentCall, CreateFileForRx, CreateRefused, EraseArea, WriteBlock,
                WriteBlockOutOfRange, CloseFile, CloseFileNoSignatureCheck, Abort,
                SetPlatformImageState, GetPlatformImageState, ActivateNewImage
<1>2. CASE ResetDownloadState \/ EraseBufferArea
    BY <1>2, <1>q DEF ResetDownloadState, EraseBufferArea
<1>3. ASSUME NEW b \in Blocks, NEW d \in Data, SendBlock(b, d)
      PROVE  WritesOnlyWhileOpen'
    BY <1>3 DEF SendBlock
<1>4. CASE RejectEarly \/ \E c \in BOOLEAN : VerifyPayload(c)
    BY <1>4, <1>q DEF RejectEarly, VerifyPayload
<1>5. CASE ClosedNoSignatureCheck \/ Aborted \/ PersistImageState \/ ActivateFailed
    BY <1>5, <1>q DEF ClosedNoSignatureCheck, Aborted, PersistImageState, ActivateFailed
<1>6. CASE FlashTask
    BY <1>6 DEF FlashTask, ReceiveBlock, ProgramBlock
<1>7. CASE ActivateBank \/ PowerLoss
    BY <1>7 DEF ActivateBank, PowerLoss, Reset
<1>8. CASE UNCHANGED vars
    BY <1>8 DEF vars
<1>9. QED
    BY <1>1, <1>2, <1>3, <1>4, <1>5, <1>6, <1>7, <1>8 DEF Next, CallStep

(* While a file is verified its blocks do not change, and a file becomes
   verified only when they are all there. *)
LEMMA NextWhole ==
    ASSUME IInv, [Next]_vars
    PROVE  VerifiedStaysWhole'
<1> USE DEF IInv, TypeOK, VerifiedStaysWhole, WritesOnlyWhileOpen, CallsAndFiles,
        Quiet, Whole, agentVars, queueVars, callerVars, Call, Return
<1>1. CASE AgentCall
    BY <1>1 DEF AgentCall, CreateFileForRx, CreateRefused, EraseArea, WriteBlock,
                WriteBlockOutOfRange, CloseFile, CloseFileNoSignatureCheck, Abort,
                SetPlatformImageState, GetPlatformImageState, ActivateNewImage
<1>2. CASE ResetDownloadState \/ EraseBufferArea
    BY <1>2 DEF ResetDownloadState, EraseBufferArea
<1>3. ASSUME NEW b \in Blocks, NEW d \in Data, SendBlock(b, d)
      PROVE  VerifiedStaysWhole'
    BY <1>3 DEF SendBlock
<1>4. CASE RejectEarly \/ \E c \in BOOLEAN : VerifyPayload(c)
    BY <1>4, HeaderWritten DEF RejectEarly, VerifyPayload
<1>5. CASE ClosedNoSignatureCheck \/ Aborted \/ PersistImageState \/ ActivateFailed
    BY <1>5 DEF ClosedNoSignatureCheck, Aborted, PersistImageState, ActivateFailed
<1>6. CASE FlashTask
    <2>1. file' # "verified"
        BY <1>6 DEF FlashTask, ReceiveBlock, ProgramBlock
    <2> QED
        BY <2>1
<1>7. CASE ActivateBank \/ PowerLoss
    BY <1>7 DEF ActivateBank, PowerLoss, Reset
<1>8. CASE UNCHANGED vars
    BY <1>8 DEF vars
<1>9. QED
    BY <1>1, <1>2, <1>3, <1>4, <1>5, <1>6, <1>7, <1>8 DEF Next, CallStep

(* A step that leaves the blocks, the queue, the flash and the flag alone, or
   only raises the flag, or forgets the accepted blocks, keeps the promise;
   the header may change. *)
LEMMA AcceptedKept ==
    ASSUME AcceptedNotLost,
           \/ accepted' = {}
           \/ /\ UNCHANGED <<accepted, queue, inHand>>
              /\ \A b \in accepted : flash'[b] = flash[b]
              /\ UNCHANGED error \/ error' = TRUE
              /\ UNCHANGED unseen
    PROVE  AcceptedNotLost'
<1>1. CASE accepted' = {}
    BY <1>1 DEF AcceptedNotLost
<1>2. CASE /\ UNCHANGED <<accepted, queue, inHand, error, unseen>>
           /\ \A b \in accepted : flash'[b] = flash[b]
    BY <1>2 DEF AcceptedNotLost
<1>3. CASE error' = TRUE
    BY <1>3 DEF AcceptedNotLost
<1> QED
    BY <1>1, <1>2, <1>3

(* Every step keeps the promise of otaPal_WriteBlock: a block whose size it
   returned is in the queue, in hand or in the flash, or the flag is up. *)
LEMMA NextAccepted ==
    ASSUME TypeOK, TypeOK', AcceptedNotLost, [Next]_vars
    PROVE  AcceptedNotLost'
<1> USE DEF agentVars, queueVars, callerVars
<1>1. CASE AgentCall
    BY <1>1, AcceptedKept
    DEF AgentCall, CreateFileForRx, CreateRefused, EraseArea, WriteBlock,
        WriteBlockOutOfRange, CloseFile, CloseFileNoSignatureCheck, Abort,
        SetPlatformImageState, GetPlatformImageState, ActivateNewImage
<1>2. CASE \/ ResetDownloadState \/ EraseBufferArea \/ RejectEarly
           \/ ClosedNoSignatureCheck \/ Aborted \/ PersistImageState
           \/ ActivateFailed \/ ActivateBank \/ PowerLoss
    BY <1>2, AcceptedKept
    DEF ResetDownloadState, EraseBufferArea, RejectEarly,
        ClosedNoSignatureCheck, Aborted, PersistImageState, ActivateFailed,
        ActivateBank, PowerLoss, Reset
<1>7. ASSUME NEW c \in BOOLEAN, VerifyPayload(c) PROVE AcceptedNotLost'
    <2>1. \A b \in accepted : flash'[b] = flash[b]
        BY <1>7, HeaderWritten DEF VerifyPayload, TypeOK
    <2> QED
        BY <1>7, <2>1, AcceptedKept DEF VerifyPayload
(* The block that is sent is at the end of the queue, the others where they
   were. *)
<1>3. ASSUME NEW b \in Blocks, NEW d \in Data, SendBlock(b, d)
      PROVE  AcceptedNotLost'
    <2>1. [block |-> b, data |-> d] \in FlashBlock /\ queue \in Seq(FlashBlock)
        BY DEF FlashBlock, TypeOK
    <2>2. Len(queue) \in Nat
        BY <2>1
    <2>3. /\ Len(queue') = Len(queue) + 1
          /\ queue'[Len(queue) + 1] = [block |-> b, data |-> d]
          /\ \A i \in 1 .. Len(queue) : queue'[i] = queue[i]
        BY <1>3, <2>1 DEF SendBlock
    <2>4. SUFFICES ASSUME NEW a \in accepted', ~error
                   PROVE  \/ flash[a] # "erased" \/ a \in unseen
                          \/ \E i \in 1 .. Len(queue') : queue'[i].block = a
                          \/ inHand # NoBlock /\ inHand.block = a
        BY <1>3 DEF SendBlock, AcceptedNotLost
    <2>5. CASE a = b
        <3>1. Len(queue) + 1 \in 1 .. Len(queue')
            BY <2>2, <2>3
        <3>2. queue'[Len(queue) + 1].block = a
            BY <2>3, <2>5
        <3> QED
            BY <3>1, <3>2
    <2>6. CASE a \in accepted
        <3>1. CASE \E i \in 1 .. Len(queue) : queue[i].block = a
            <4>1. PICK i \in 1 .. Len(queue) : queue[i].block = a
                BY <3>1
            <4>2. i \in 1 .. Len(queue') /\ queue'[i].block = a
                BY <2>2, <2>3, <4>1
            <4> QED
                BY <4>2
        <3> QED
            BY <2>4, <2>6, <3>1 DEF AcceptedNotLost
    <2> QED
        BY <1>3, <2>5, <2>6 DEF SendBlock
(* The head of the queue goes into the task's hand. *)
<1>4. CASE ReceiveBlock
    <2>1. queue \in Seq(FlashBlock) /\ queue # <<>> /\ NoBlock \notin FlashBlock
        BY <1>4 DEF ReceiveBlock, TypeOK
    <2>2. /\ Len(queue) \in Nat \ {0} /\ Len(queue') = Len(queue) - 1
          /\ \A i \in 1 .. Len(queue) - 1 : queue'[i] = queue[i + 1]
        BY <1>4, <2>1 DEF ReceiveBlock
    <2>3. inHand' = queue[1] /\ inHand' # NoBlock
        BY <1>4, <2>1 DEF ReceiveBlock
    <2>4. SUFFICES ASSUME NEW a \in accepted, ~error, flash[a] = "erased", a \notin unseen
                   PROVE  \/ \E i \in 1 .. Len(queue') : queue'[i].block = a
                          \/ inHand'.block = a
        BY <1>4, <2>3 DEF ReceiveBlock, AcceptedNotLost
    <2>5. PICK i \in 1 .. Len(queue) : queue[i].block = a
        BY <1>4, <2>4 DEF ReceiveBlock, AcceptedNotLost
    <2>6. CASE i = 1
        BY <2>3, <2>5, <2>6
    <2>7. CASE i # 1
        <3>1. i - 1 \in 1 .. Len(queue') /\ i - 1 \in 1 .. Len(queue) - 1
            BY <2>2, <2>7
        <3>2. queue'[i - 1] = queue[(i - 1) + 1] /\ (i - 1) + 1 = i
            BY <2>2, <3>1
        <3> QED
            BY <2>5, <3>1, <3>2
    <2> QED
        BY <2>6, <2>7
(* The block in hand is written, if only half, or the flag goes up. *)
<1>5. CASE ProgramBlock
    <2>1. CASE error'
        BY <2>1 DEF AcceptedNotLost
    <2>2. CASE ~error' /\ inHand # NoBlock /\ Programmed
        <3>1. accepted \subseteq Blocks
            BY DEF TypeOK
        <3>2. UNCHANGED <<accepted, queue>> /\ ~error
            BY <1>5, <2>2 DEF ProgramBlock, TypeOK
        <3> QED
            BY <2>2, <3>1, <3>2, BlockProgrammed DEF AcceptedNotLost
    <2> QED
        BY <1>5, <2>1, <2>2 DEF ProgramBlock
<1>6. CASE UNCHANGED vars
    BY <1>6, AcceptedKept DEF vars
<1> QED
    BY <1>1, <1>2, <1>3, <1>4, <1>5, <1>6, <1>7 DEF Next, CallStep, FlashTask

(* IInv holds in every reachable state. *)
LEMMA Inductive == Spec => []IInv
<1>1. IInv /\ [Next]_vars => IInv'
    BY NextTypeOK, NextPending, NextCallsAndFiles, NextWrites, NextWhole, NextAccepted DEF IInv
<1> QED
    BY <1>1, InitIInv, PTL DEF Spec

(* Every variable keeps its type; the queue never holds more than it can. *)
THEOREM TypeCorrect == Spec => []TypeOK
BY Inductive, PTL DEF IInv

(* The counter the agent polls accounts for every block that was queued and
   is not programmed yet. *)
THEOREM CounterExact == Spec => []PendingCountsBlocks
BY Inductive, PTL DEF IInv

(* No block of an ended download is written behind the agent's back. *)
THEOREM NoLateWrite == Spec => []WritesOnlyWhileOpen
BY Inductive, PTL DEF IInv

(* The image that otaPal_CloseFile accepted is whole until it is activated or
   discarded. *)
THEOREM VerifiedImageWhole == Spec => []VerifiedStaysWhole
BY Inductive, PTL DEF IInv

(* A block that otaPal_WriteBlock accepted is never lost silently, for any
   image size and queue length: it is waiting, written, or the flag is up, but
   for a failure that only the completion interrupt saw. *)
THEOREM AcceptedNeverLost == Spec => []AcceptedNotLost
BY Inductive, PTL DEF IInv

------------------------------------------------------------------------------
(* The refinement. *)

Content == [b \in Blocks |-> flash[b]]

StoreVars == <<Content, file>>

(* Each step of the platform layer is a step of the image store, or leaves it
   alone. *)
LEMMA StepRefines ==
    ASSUME IInv, TypeOK', [Next]_vars
    PROVE  [Store!Next]_StoreVars
<1>q. Drained => Quiet
    BY DrainedIsQuiet DEF IInv
<1>b. Blocks = Store!Blocks /\ Content' \in Store!Contents
    BY AreaParts DEF Blocks, Store!Blocks, Store!Contents, TypeOK, Content
<1>c. Content = [b \in Blocks |-> flash[b]]
    BY DEF Content
<1>t. file \in {"none", "open", "verified"}
    BY DEF IInv, TypeOK
<1> USE DEF StoreVars, agentVars, queueVars, callerVars, Call, Return
(* A step that only drops the file, if anything. *)
<1>1. ASSUME UNCHANGED Content, file' \in {file, "none"} PROVE [Store!Next]_StoreVars
    BY <1>1, <1>c DEF Store!Next, Store!Discard, Content
<1>0. UNCHANGED flash => UNCHANGED Content
    BY DEF Content
(* A step that changes blocks while no image is verified. *)
<1>2. ASSUME file # "verified", file' \in {file, "none"} PROVE [Store!Next]_StoreVars
    BY <1>2, <1>b, <1>c DEF Store!Next, Store!Change, Content
<1>3. CASE AgentCall
    BY <1>0, <1>1, <1>3 DEF AgentCall, CreateFileForRx, CreateRefused, EraseArea, WriteBlock,
                WriteBlockOutOfRange, CloseFile, CloseFileNoSignatureCheck, Abort,
                SetPlatformImageState, GetPlatformImageState, ActivateNewImage
<1>4. CASE EraseBufferArea
    <2>1. CASE op = "create" /\ file' = "open" /\ flash' \in PartlyErased
        <3>1. \A b \in Blocks : Content'[b] \in {"erased", "other", Content[b]}
            BY <2>1, AreaParts DEF PartlyErased, Content
        <3>2. file = "none"
            BY <2>1 DEF IInv, CallsAndFiles
        <3> QED
            BY <1>b, <1>c, <2>1, <3>1, <3>2 DEF Store!Next, Store!Open, Content
    <2>2. CASE UNCHANGED file
        BY <1>2, <1>4, <2>2 DEF EraseBufferArea, IInv, CallsAndFiles
    <2> QED
        BY <1>4, <2>1, <2>2 DEF EraseBufferArea
<1>5. ASSUME NEW c \in BOOLEAN, VerifyPayload(c) PROVE [Store!Next]_StoreVars
    <2>1. UNCHANGED Content
        BY <1>5, HeaderWritten DEF VerifyPayload, IInv, Content
    <2>2. CASE file' = "verified"
        <3>1. Whole /\ file = "open"
            BY <1>5, <2>2 DEF VerifyPayload, IInv, CallsAndFiles
        <3>2. Content = [b \in Blocks |-> "image"]
            BY <3>1 DEF Whole, Content
        <3> QED
            BY <1>b, <1>c, <2>1, <2>2, <3>1, <3>2
               DEF Store!Next, Store!Accept, Store!Filled, Content
    <2>3. CASE file' = "none"
        BY <1>1, <2>1, <2>3
    <2> QED
        BY <1>5, <2>2, <2>3 DEF VerifyPayload
<1>6. CASE \/ ResetDownloadState \/ RejectEarly \/ ClosedNoSignatureCheck
           \/ Aborted \/ PersistImageState \/ ActivateFailed
           \/ \E b \in Blocks, d \in Data : SendBlock(b, d)
    BY <1>0, <1>1, <1>6 DEF ResetDownloadState, RejectEarly, ClosedNoSignatureCheck, Aborted,
                PersistImageState, ActivateFailed, SendBlock
<1>7. CASE FlashTask
    <2>1. UNCHANGED file
        BY <1>7 DEF FlashTask, ReceiveBlock, ProgramBlock
    <2>2. file # "verified" \/ UNCHANGED flash
        BY <1>7 DEF FlashTask, ReceiveBlock, ProgramBlock, IInv, WritesOnlyWhileOpen,
                    Quiet, CallsAndFiles
    <2> QED
        BY <1>0, <1>1, <1>2, <2>1, <2>2
<1>8. CASE ActivateBank
    <2>1. file = "verified"
        BY <1>8 DEF ActivateBank, IInv, CallsAndFiles
    <2>2. Content' = [b \in Blocks |-> "other"]
        BY <1>8, AreaParts DEF ActivateBank, Content
    <2> QED
        BY <1>8, <1>b, <1>c, <2>1, <2>2
           DEF ActivateBank, Reset, Store!Next, Store!Swap, Store!Filled, Content
<1>9. CASE PowerLoss
    <2>1. file' = "none"
        BY <1>9 DEF PowerLoss, Reset
    <2>2. file # "verified" \/ UNCHANGED flash
        BY <1>9 DEF PowerLoss, IInv, WritesOnlyWhileOpen, Quiet, CallsAndFiles
    <2> QED
        BY <1>0, <1>1, <1>2, <2>1, <2>2
<1>10. CASE UNCHANGED vars
    BY <1>0, <1>1, <1>10 DEF vars
<1>11. QED
    BY <1>3, <1>4, <1>5, <1>6, <1>7, <1>8, <1>9, <1>10 DEF Next, CallStep

(* The platform layer implements the image store: for every image size and
   queue length, an image is accepted only whole, does not change afterwards,
   and only an accepted image is swapped in. *)
THEOREM Implementation == Spec => ImplementsImageStore
<1>1. Init => Store!Init
    BY DEF Init, Store!Init, Store!Filled, Blocks, Store!Blocks, Area
<1>2. IInv /\ TypeOK' /\ [Next]_vars => [Store!Next]_<<[b \in Blocks |-> flash[b]], file>>
    BY StepRefines DEF StoreVars, Content
<1>3. IInv => TypeOK
    BY DEF IInv
<1> QED
    BY <1>1, <1>2, <1>3, Inductive, PTL DEF Spec, Store!Spec, ImplementsImageStore
==============================================================================
