----------------------------- MODULE OtaBoot_proofs -----------------------------
(***************************************************************************)
(* The update around the bank swap is safe for every number of jobs, lost   *)
(* messages, faults and resets, and for all versions up to LongMax.         *)
(*                                                                         *)
(* That a job succeeds only when its own image runs rests on what the saved *)
(* version says: it is that of the image that runs, or the image of the job *)
(* runs already (SavedVersion).  For this at most one job is in progress    *)
(* (OneInProgress), the agent works on that one (JobInHand, DocumentTrue),  *)
(* and a version that is written as text is read back the same (RoundTrip). *)
(***************************************************************************)
EXTENDS OtaBoot, TLAPS

(* One digit more. *)
LEMMA Digit == \A a \in Nat : 16 * (a \div 16) + (a % 16) = a /\ a \div 16 \in Nat
BY SMT

(* Shifting by one digit after another. *)
LEMMA Shift ==
    ASSUME NEW v \in Nat
    PROVE  /\ v \div 268435456 \in Nat /\ (v \div 16777216) \div 16 = v \div 268435456
           /\ v \div 16777216 \in Nat /\ (v \div 1048576) \div 16 = v \div 16777216
           /\ v \div 1048576 \in Nat /\ (v \div 65536) \div 16 = v \div 1048576
           /\ v \div 65536 \in Nat /\ (v \div 4096) \div 16 = v \div 65536
           /\ v \div 4096 \in Nat /\ (v \div 256) \div 16 = v \div 4096
           /\ v \div 256 \in Nat /\ (v \div 16) \div 16 = v \div 256
           /\ v \div 16 \in Nat
           /\ v < 2147483648 => v \div 268435456 < 8
BY SMT

(* Each digit of the text. *)
LEMMA HexDigits == \A v : \A i \in 1 .. 8 : HexText(v)[i] = (v \div Weight[i]) % 16
BY Zenon DEF HexText

(* The largest long int of the device. *)
LEMMA LongMaxFacts == LongMax \in Nat /\ LongMax < 2147483648
BY SMT DEF LongMax

(* A text of a version is not saturated. *)
LEMMA StrtolOfDigits ==
    ASSUME NEW v \in Nat, v <= LongMax, NEW d,
           d[1] = v \div 268435456,
           16 * (v \div 268435456) + d[2] = v \div 16777216,
           16 * (v \div 16777216) + d[3] = v \div 1048576,
           16 * (v \div 1048576) + d[4] = v \div 65536,
           16 * (v \div 65536) + d[5] = v \div 4096,
           16 * (v \div 4096) + d[6] = v \div 256,
           16 * (v \div 256) + d[7] = v \div 16,
           16 * (v \div 16) + d[8] = v
    PROVE  Strtol(d) = v
BY LongMaxFacts, SMT DEF Strtol

(* A version survives its way through the job document. *)
LEMMA RoundTrip == \A v \in 0 .. LongMax : Strtol(HexText(v)) = v
<1> SUFFICES ASSUME NEW v \in 0 .. LongMax PROVE Strtol(HexText(v)) = v
    OBVIOUS
<1>0. v \in Nat /\ v < 2147483648 /\ v <= LongMax
    BY LongMaxFacts, SMT
<1> DEFINE d == HexText(v)
<1>1. /\ d[1] = (v \div 268435456) % 16 /\ d[2] = (v \div 16777216) % 16
      /\ d[3] = (v \div 1048576) % 16 /\ d[4] = (v \div 65536) % 16
      /\ d[5] = (v \div 4096) % 16 /\ d[6] = (v \div 256) % 16
      /\ d[7] = (v \div 16) % 16 /\ d[8] = v % 16
    <2>1. \A i \in 1 .. 8 : d[i] = (v \div Weight[i]) % 16
        BY HexDigits, SMT
    <2>2. /\ Weight[1] = 268435456 /\ Weight[2] = 16777216 /\ Weight[3] = 1048576
          /\ Weight[4] = 65536 /\ Weight[5] = 4096 /\ Weight[6] = 256
          /\ Weight[7] = 16 /\ Weight[8] = 1
        BY SMT DEF Weight
    <2>3. v \div 1 = v
        BY SMT
    <2> QED BY <2>1, <2>2, <2>3, SMT
<1> HIDE DEF d
<1>2. d[1] = v \div 268435456
    <2>1. \A a \in Nat : a < 8 => a % 16 = a
        BY SMT
    <2> QED BY <1>0, <1>1, <2>1, Shift, SMT
<1>3. 16 * (v \div 268435456) + d[2] = v \div 16777216
    BY <1>0, <1>1, Shift, Digit, SMT
<1>4. 16 * (v \div 16777216) + d[3] = v \div 1048576
    BY <1>0, <1>1, Shift, Digit, SMT
<1>5. 16 * (v \div 1048576) + d[4] = v \div 65536
    BY <1>0, <1>1, Shift, Digit, SMT
<1>6. 16 * (v \div 65536) + d[5] = v \div 4096
    BY <1>0, <1>1, Shift, Digit, SMT
<1>7. 16 * (v \div 4096) + d[6] = v \div 256
    BY <1>0, <1>1, Shift, Digit, SMT
<1>8. 16 * (v \div 256) + d[7] = v \div 16
    BY <1>0, <1>1, Shift, Digit, SMT
<1>9. 16 * (v \div 16) + d[8] = v
    BY <1>0, <1>1, Shift, Digit, SMT
<1>10. Strtol(d) = v
    BY <1>2, <1>3, <1>4, <1>5, <1>6, <1>7, <1>8, <1>9, <1>0, StrtolOfDigits, SMT
<1> QED
    BY <1>10 DEF d

Texts == {HexText(v) : v \in Versions}

(* TypeOK with the texts themselves, and the image that runs. *)
Typed ==
    /\ release \in [Images -> [version : Versions, good : BOOLEAN]]
    /\ active \in Images \cup {Blank} /\ buffer \in Images \cup {Blank}
    /\ pc \in Steps
    /\ pc \notin {"reset", "dead"} => active \in Images
    /\ doc \in [job : {NoJob} \cup Jobs, updater : {NoVersion} \cup Texts]
    /\ globalJob \in {NoJob} \cup Jobs /\ fields \in {NoJob} \cup Jobs
    /\ demos \in BOOLEAN
    /\ rejected \in {"none", "going", "verified", "overtaken"}
    /\ status \in [Jobs -> {"none", "queued", "inProgress"} \cup Final]
    /\ updater \in [Jobs -> {NoVersion} \cup Texts]
    /\ lost \in 0 .. MaxLost /\ faults \in 0 .. MaxFaults /\ resets \in 0 .. MaxResets

OneInProgress ==
    \A j, k \in Jobs : status[j] = "inProgress" /\ status[k] = "inProgress" => j = k

(* Only a job that was started has a version saved in it. *)
SavedOnceStarted ==
    \A j \in Jobs : status[j] \in {"none", "queued"} => updater[j] = NoVersion

DocumentTrue ==
    pc = "document" =>
        IF doc.job = NoJob THEN \A j \in Jobs : status[j] # "inProgress"
        ELSE status[doc.job] = "inProgress" /\ doc.updater = updater[doc.job]

JobInHand ==
    /\ pc \in {"imageBooted", "success", "sameVersionOK", "bootFailed", "download"} =>
           globalJob \in Jobs /\ status[globalJob] = "inProgress"
    /\ pc = "download" => fields = globalJob /\ updater[globalJob] = NoVersion
    /\ pc \in {"closeFailed", "save", "activate"} =>
           globalJob = NoJob \/ status[globalJob] = "inProgress"
    /\ pc \in {"save", "activate"} /\ ~Activating =>
           globalJob \in Jobs /\ buffer = globalJob
    /\ pc \in {"imageBooted", "success", "sameVersionOK", "delete", "sameVersionNG",
               "bootFailed", "rollback"} => fields = NoJob

NothingSaved == \A j \in Jobs : status[j] = "inProgress" => updater[j] = NoVersion

(* What a rejected download can still do.  Its image is in the buffer area until
   the next job erases it, and no version is saved before it is activated. *)
RejectedGoesOn ==
    /\ rejected # "none" =>
           pc \in {"ask", "document", "unanswered", "waiting", "download", "closeFailed",
                   "save", "activate", "stopped", "reset", "dead"}
    /\ rejected # "none" /\ pc \in {"ask", "document", "unanswered", "waiting"} =>
           globalJob = NoJob
    /\ rejected = "verified" =>
           /\ pc \notin {"download", "closeFailed", "dead"}
           /\ pc # "reset" => buffer \in Images
           /\ pc \in {"save", "activate"} => globalJob = NoJob
    /\ rejected = "overtaken" =>
           /\ pc \in {"download", "save", "activate", "stopped", "reset", "dead"}
           /\ pc \in {"download", "save", "activate"} => buffer = Blank
    /\ rejected = "verified" => NothingSaved
    /\ rejected # "none" /\ pc \notin {"activate", "stopped", "reset", "dead"} => NothingSaved

Verified ==
    pc \in {"imageBooted", "success"} =>
        /\ release[active].good
        /\ updater[globalJob] # NoVersion
        /\ release[active].version > Strtol(updater[globalJob])

SavedVersion ==
    active \in Images =>
        \A j \in Jobs :
            status[j] = "inProgress" /\ updater[j] # NoVersion =>
                active = j \/ updater[j] = HexText(release[active].version)

IInv ==
    /\ Typed /\ AlwaysBootable
    /\ OneInProgress /\ SavedOnceStarted
    /\ DocumentTrue /\ JobInHand /\ RejectedGoesOn /\ Verified /\ SavedVersion

(* The versions of images are those that a job can hold. *)
LEMMA TypedTypeOK == Typed => TypeOK
<1> SUFFICES ASSUME Typed PROVE TypeOK
    OBVIOUS
<1>1. \A t \in Texts : Strtol(t) \in Versions
    BY RoundTrip, VersionsAssumption DEF Texts
<1> QED BY <1>1 DEF Typed, TypeOK

(* What a status update for a job in progress does. *)
LEMMA PublishFacts ==
    ASSUME Typed, NEW j \in Jobs, status[j] = "inProgress",
           NEW st \in Final \cup {"inProgress"}, NEW v \in {NoVersion} \cup Texts,
           Publish(j, st, v)
    PROVE  /\ status' \in [Jobs -> {"none", "queued", "inProgress"} \cup Final]
           /\ updater' \in [Jobs -> {NoVersion} \cup Texts]
           /\ lost' \in 0 .. MaxLost
           /\ \A k \in Jobs : k # j => status'[k] = status[k] /\ updater'[k] = updater[k]
           /\ status'[j] \in {"inProgress", st}
           /\ updater'[j] \in {updater[j]} \cup ({v} \ {NoVersion})
BY BoundsAssumption DEF Publish, Typed, cloud

(* The initial state satisfies IInv. *)
LEMMA InitIInv == Init => IInv
<1> SUFFICES ASSUME Init PROVE IInv
    OBVIOUS
<1>1. Typed
    <2>1. NoDocument \in [job : {NoJob} \cup Jobs, updater : {NoVersion} \cup Texts]
        BY DEF NoDocument, Document
    <2>2. 0 \in 0 .. MaxLost /\ 0 \in 0 .. MaxFaults /\ 0 \in 0 .. MaxResets
        BY BoundsAssumption
    <2>3. updater \in [Jobs -> {NoVersion} \cup Texts]
        BY DEF Init
    <2> QED BY <2>1, <2>2, <2>3 DEF Init, Typed, Steps, Images
<1>2. OneInProgress /\ SavedOnceStarted /\ DocumentTrue /\ JobInHand /\ Verified /\ SavedVersion
    BY DEF Init, OneInProgress, SavedOnceStarted, DocumentTrue, JobInHand, Verified, SavedVersion
<1>3. AlwaysBootable /\ RejectedGoesOn
    BY DEF Init, AlwaysBootable, RejectedGoesOn, Images
<1> QED BY <1>1, <1>2, <1>3 DEF IInv

(* Every step preserves IInv. *)
LEMMA NextIInv == IInv /\ [Next]_vars => IInv'
<1> SUFFICES ASSUME IInv, [Next]_vars PROVE IInv'
    OBVIOUS
<1> USE DEF IInv, banks, ram, cloud, bounds, vars
<1>d. /\ NoDocument \in [job : {NoJob} \cup Jobs, updater : {NoVersion} \cup Texts]
      /\ NoDocument.job = NoJob
      /\ Jobs \subseteq Images /\ NoJob \notin Jobs /\ Blank \notin Images
    BY DEF NoDocument, Document, Images, Jobs, NoJob, Blank, Factory
<1>v. active \in Images => HexText(release[active].version) \in Texts
    BY DEF Typed, Texts
<1>1. CASE Boot
    <2>1. Typed' /\ AlwaysBootable'
        BY <1>1, <1>d DEF Boot, Typed, AlwaysBootable, JobInHand, RejectedGoesOn, Activating, Steps
    <2>2. OneInProgress' /\ SavedOnceStarted' /\ DocumentTrue' /\ JobInHand'
        BY <1>1, <1>d DEF Boot, Typed, OneInProgress, SavedOnceStarted, DocumentTrue, JobInHand, RejectedGoesOn, NothingSaved, Activating
    <2>3. RejectedGoesOn'
        BY <1>1, <1>d DEF Boot, Typed, AlwaysBootable, RejectedGoesOn, NothingSaved, Activating
    <2>4. Verified' /\ SavedVersion'
        BY <1>1, <1>d DEF Boot, Typed, OneInProgress, DocumentTrue, JobInHand, RejectedGoesOn, NothingSaved, Activating, Verified, SavedVersion
    <2> QED BY <2>1, <2>2, <2>3, <2>4
<1>2. CASE PowerLoss
    <2>0. resets' \in 0 .. MaxResets
        BY <1>2, BoundsAssumption DEF PowerLoss, Typed
    <2>1. Typed' /\ AlwaysBootable'
        BY <1>2, <1>d, <2>0 DEF PowerLoss, ForgetRam, Typed, AlwaysBootable, Steps
    <2>2. OneInProgress' /\ SavedOnceStarted' /\ DocumentTrue' /\ JobInHand'
        BY <1>2, <1>d DEF PowerLoss, ForgetRam, Typed, OneInProgress, SavedOnceStarted, DocumentTrue, JobInHand, RejectedGoesOn, NothingSaved, Activating
    <2>3. RejectedGoesOn'
        BY <1>2, <1>d DEF PowerLoss, ForgetRam, Typed, OneInProgress, DocumentTrue, JobInHand, RejectedGoesOn, NothingSaved, Activating
    <2>4. Verified' /\ SavedVersion'
        BY <1>2, <1>d DEF PowerLoss, ForgetRam, Typed, OneInProgress, DocumentTrue, JobInHand, RejectedGoesOn, NothingSaved, Activating, Verified, SavedVersion
    <2> QED BY <2>1, <2>2, <2>3, <2>4
<1>3. CASE RequestJobDocument \/ RequestLost
    <2>0. /\ pc = "ask" /\ ~Activating /\ pc' \in {"document", "unanswered"}
          /\ UNCHANGED <<release, active, buffer, rejected, globalJob, fields, demos, updater,
                         faults, resets>>
          /\ lost' \in 0 .. MaxLost
          /\ pc' = "unanswered" => doc' = doc
        BY <1>3, BoundsAssumption DEF RequestJobDocument, RequestLost, Typed
    <2>1. CASE /\ UNCHANGED status
               /\ pc' = "document" => Pending = {} /\ doc' = NoDocument
        <3>1. Pending = {} => \A j \in Jobs : status[j] # "inProgress"
            BY DEF Pending
        <3>2. doc' \in [job : {NoJob} \cup Jobs, updater : {NoVersion} \cup Texts]
            BY <2>0, <2>1, <1>d DEF Typed
        <3>3. Typed' /\ AlwaysBootable'
            BY <2>0, <2>1, <3>2 DEF Typed, AlwaysBootable, Steps
        <3>4. OneInProgress' /\ SavedOnceStarted' /\ DocumentTrue' /\ JobInHand' /\ Verified'
            BY <2>0, <2>1, <3>1, <1>d DEF OneInProgress, SavedOnceStarted, DocumentTrue, JobInHand, Verified
        <3>5. RejectedGoesOn' /\ SavedVersion'
            BY <2>0, <2>1 DEF RejectedGoesOn, NothingSaved, SavedVersion
        <3> QED BY <3>3, <3>4, <3>5
    <2>2. ASSUME NEW j \in Offered, status' = [status EXCEPT ![j] = "inProgress"],
                 pc' = "document" => doc' = Document(j, updater[j])
          PROVE  IInv'
        <3>1. j \in Jobs /\ \A k \in Jobs : status[k] = "inProgress" => status[j] = "inProgress"
            BY DEF Offered, Pending
        <3>2. /\ doc' \in [job : {NoJob} \cup Jobs, updater : {NoVersion} \cup Texts]
              /\ pc' = "document" => doc'.job = j /\ doc'.updater = updater[j]
            BY <2>0, <2>2, <3>1 DEF Document, Typed
        <3>3. status[j] # "inProgress" => updater[j] = NoVersion
            BY DEF Offered, Pending, SavedOnceStarted
        <3>4. Typed' /\ AlwaysBootable'
            BY <2>0, <2>2, <3>1, <3>2 DEF Typed, AlwaysBootable, Steps
        <3>5. /\ \A k \in Jobs : status'[k] = "inProgress" => k = j
              /\ \A k \in Jobs \ {j} : status'[k] = status[k]
              /\ status'[j] = "inProgress"
            BY <2>2, <3>1 DEF Typed, OneInProgress
        <3>6. OneInProgress' /\ SavedOnceStarted'
            BY <2>0, <3>5 DEF OneInProgress, SavedOnceStarted
        <3>7. DocumentTrue' /\ JobInHand' /\ Verified'
            BY <2>0, <3>1, <3>2, <3>5, <1>d DEF DocumentTrue, JobInHand, Verified
        <3>8. SavedVersion' /\ RejectedGoesOn'
            BY <2>0, <3>3, <3>5 DEF SavedVersion, RejectedGoesOn, NothingSaved
        <3> QED BY <3>4, <3>6, <3>7, <3>8
    <2> QED BY <1>3, <2>1, <2>2 DEF RequestJobDocument, RequestLost
<1>4. CASE NoPendingJob
    <2>1. Typed' /\ AlwaysBootable'
        BY <1>4, <1>d DEF NoPendingJob, ReceiveDocument, Typed, AlwaysBootable, JobInHand, RejectedGoesOn, Activating, Steps
    <2>2. OneInProgress' /\ SavedOnceStarted' /\ DocumentTrue' /\ JobInHand'
        BY <1>4, <1>d DEF NoPendingJob, ReceiveDocument, Typed, OneInProgress, SavedOnceStarted, DocumentTrue, JobInHand, RejectedGoesOn, NothingSaved, Activating
    <2>3. RejectedGoesOn'
        BY <1>4, <1>d DEF NoPendingJob, ReceiveDocument, Typed, OneInProgress, DocumentTrue, JobInHand, RejectedGoesOn, NothingSaved, Activating
    <2>4. Verified' /\ SavedVersion'
        BY <1>4, <1>d DEF NoPendingJob, ReceiveDocument, Typed, OneInProgress, DocumentTrue, JobInHand, RejectedGoesOn, NothingSaved, Activating, Verified, SavedVersion
    <2> QED BY <2>1, <2>2, <2>3, <2>4
<1>5. CASE InitialImage
    <2>1. Typed' /\ AlwaysBootable'
        BY <1>5, <1>d DEF InitialImage, Typed, AlwaysBootable, JobInHand, RejectedGoesOn, Activating, Steps
    <2>2. OneInProgress' /\ SavedOnceStarted' /\ DocumentTrue' /\ JobInHand'
        BY <1>5, <1>d DEF InitialImage, Typed, OneInProgress, SavedOnceStarted, DocumentTrue, JobInHand, RejectedGoesOn, NothingSaved, Activating
    <2>3. RejectedGoesOn'
        BY <1>5, <1>d DEF InitialImage, Typed, OneInProgress, DocumentTrue, JobInHand, RejectedGoesOn, NothingSaved, Activating
    <2>4. Verified' /\ SavedVersion'
        BY <1>5, <1>d DEF InitialImage, Typed, OneInProgress, DocumentTrue, JobInHand, RejectedGoesOn, NothingSaved, Activating, Verified, SavedVersion
    <2> QED BY <2>1, <2>2, <2>3, <2>4
<1>6. CASE VerifyVersion
    <2>1. Typed' /\ AlwaysBootable'
        BY <1>6, <1>d DEF VerifyVersion, ReceiveDocument, VersionResult, Typed, AlwaysBootable, JobInHand, RejectedGoesOn, Activating, Steps
    <2>2. OneInProgress' /\ SavedOnceStarted' /\ DocumentTrue' /\ JobInHand'
        BY <1>6, <1>d DEF VerifyVersion, ReceiveDocument, VersionResult, Typed, OneInProgress, SavedOnceStarted, DocumentTrue, JobInHand, RejectedGoesOn, NothingSaved, Activating
    <2>3. RejectedGoesOn'
        BY <1>6, <1>d DEF VerifyVersion, ReceiveDocument, VersionResult, Typed, OneInProgress, DocumentTrue, JobInHand, RejectedGoesOn, NothingSaved, Activating
    <2>4. Verified' /\ SavedVersion'
        BY <1>6, <1>d DEF VerifyVersion, ReceiveDocument, VersionResult, Typed, OneInProgress, DocumentTrue, JobInHand, RejectedGoesOn, NothingSaved, Activating, Verified, SavedVersion
    <2> QED BY <2>1, <2>2, <2>3, <2>4
<1>7. CASE AcceptImage
    <2>1. Typed' /\ AlwaysBootable'
        BY <1>7, <1>d DEF AcceptImage, DeleteBufferArea, FileSizeValid, Typed, AlwaysBootable, JobInHand, RejectedGoesOn, Activating, Steps
    <2>2. OneInProgress' /\ SavedOnceStarted' /\ DocumentTrue' /\ JobInHand'
        BY <1>7, <1>d DEF AcceptImage, DeleteBufferArea, FileSizeValid, Typed, OneInProgress, SavedOnceStarted, DocumentTrue, JobInHand, RejectedGoesOn, NothingSaved, Activating
    <2>3. RejectedGoesOn'
        BY <1>7, <1>d DEF AcceptImage, DeleteBufferArea, FileSizeValid, Typed, OneInProgress, DocumentTrue, JobInHand, RejectedGoesOn, NothingSaved, Activating
    <2>4. Verified' /\ SavedVersion'
        BY <1>7, <1>d DEF AcceptImage, DeleteBufferArea, FileSizeValid, Typed, OneInProgress, DocumentTrue, JobInHand, RejectedGoesOn, NothingSaved, Activating, Verified, SavedVersion
    <2> QED BY <2>1, <2>2, <2>3, <2>4
<1>8. CASE SendSuccessMessage
    <2>0. /\ globalJob \in Jobs /\ status[globalJob] = "inProgress"
          /\ active \in Images
          /\ Publish(globalJob, "succeeded", NoVersion)
        BY <1>8 DEF SendSuccessMessage, Report, JobInHand, Typed
    <2> DEFINE v == NoVersion
    <2>1. /\ status' \in [Jobs -> {"none", "queued", "inProgress"} \cup Final]
          /\ updater' \in [Jobs -> {NoVersion} \cup Texts]
          /\ lost' \in 0 .. MaxLost
          /\ \A k \in Jobs : k # globalJob => status'[k] = status[k] /\ updater'[k] = updater[k]
          /\ status'[globalJob] \in {"inProgress", "succeeded"}
          /\ updater'[globalJob] \in {updater[globalJob]} \cup ({v} \ {NoVersion})
        <3>1. "succeeded" \in Final \cup {"inProgress"} /\ v \in {NoVersion} \cup Texts
            BY <1>v, <2>0 DEF Final
        <3> QED BY <2>0, <3>1, PublishFacts
    <2> HIDE DEF v
    <2>2. Typed' /\ AlwaysBootable'
        BY <1>8, <1>d, <2>0, <2>1 DEF SendSuccessMessage, Report, Typed, AlwaysBootable, Activating, Steps
    <2>3. OneInProgress' /\ SavedOnceStarted' /\ DocumentTrue' /\ JobInHand'
        BY <1>8, <1>d, <2>0, <2>1 DEF SendSuccessMessage, Report, Typed, OneInProgress, SavedOnceStarted, DocumentTrue, JobInHand, Activating
    <2>4. RejectedGoesOn'
        BY <1>8, <1>d, <2>0, <2>1 DEF SendSuccessMessage, Report, Typed, OneInProgress, JobInHand, RejectedGoesOn, NothingSaved, Activating, v
    <2>5. release' = release /\ active' = active /\ pc' \notin {"imageBooted", "success"}
        BY <1>8 DEF SendSuccessMessage, Report
    <2>6. Verified' /\ SavedVersion'
        BY <2>0, <2>1, <2>5 DEF Verified, SavedVersion, v
    <2> QED BY <2>2, <2>3, <2>4, <2>6
<1>9. CASE FailSameVersion
    <2>0. /\ globalJob \in Jobs /\ status[globalJob] = "inProgress"
          /\ active \in Images
          /\ Publish(globalJob, "failed", NoVersion)
        BY <1>9 DEF FailSameVersion, Report, JobInHand, Typed
    <2> DEFINE v == NoVersion
    <2>1. /\ status' \in [Jobs -> {"none", "queued", "inProgress"} \cup Final]
          /\ updater' \in [Jobs -> {NoVersion} \cup Texts]
          /\ lost' \in 0 .. MaxLost
          /\ \A k \in Jobs : k # globalJob => status'[k] = status[k] /\ updater'[k] = updater[k]
          /\ status'[globalJob] \in {"inProgress", "failed"}
          /\ updater'[globalJob] \in {updater[globalJob]} \cup ({v} \ {NoVersion})
        <3>1. "failed" \in Final \cup {"inProgress"} /\ v \in {NoVersion} \cup Texts
            BY <1>v, <2>0 DEF Final
        <3> QED BY <2>0, <3>1, PublishFacts
    <2> HIDE DEF v
    <2>2. Typed' /\ AlwaysBootable'
        BY <1>9, <1>d, <2>0, <2>1 DEF FailSameVersion, Report, Typed, AlwaysBootable, Activating, Steps
    <2>3. OneInProgress' /\ SavedOnceStarted' /\ DocumentTrue' /\ JobInHand'
        BY <1>9, <1>d, <2>0, <2>1 DEF FailSameVersion, Report, Typed, OneInProgress, SavedOnceStarted, DocumentTrue, JobInHand, Activating
    <2>4. RejectedGoesOn'
        BY <1>9, <1>d, <2>0, <2>1 DEF FailSameVersion, Report, Typed, OneInProgress, JobInHand, RejectedGoesOn, NothingSaved, Activating, v
    <2>5. release' = release /\ active' = active /\ pc' \notin {"imageBooted", "success"}
        BY <1>9 DEF FailSameVersion, Report
    <2>6. Verified' /\ SavedVersion'
        BY <2>0, <2>1, <2>5 DEF Verified, SavedVersion, v
    <2> QED BY <2>2, <2>3, <2>4, <2>6
<1>10. CASE DeleteAfterFailure
    <2>1. Typed' /\ AlwaysBootable'
        BY <1>10, <1>d DEF DeleteAfterFailure, DeleteBufferArea, FileSizeValid, Typed, AlwaysBootable, JobInHand, RejectedGoesOn, Activating, Steps
    <2>2. OneInProgress' /\ SavedOnceStarted' /\ DocumentTrue' /\ JobInHand'
        BY <1>10, <1>d DEF DeleteAfterFailure, DeleteBufferArea, FileSizeValid, Typed, OneInProgress, SavedOnceStarted, DocumentTrue, JobInHand, RejectedGoesOn, NothingSaved, Activating
    <2>3. RejectedGoesOn'
        BY <1>10, <1>d DEF DeleteAfterFailure, DeleteBufferArea, FileSizeValid, Typed, OneInProgress, DocumentTrue, JobInHand, RejectedGoesOn, NothingSaved, Activating
    <2>4. Verified' /\ SavedVersion'
        BY <1>10, <1>d DEF DeleteAfterFailure, DeleteBufferArea, FileSizeValid, Typed, OneInProgress, DocumentTrue, JobInHand, RejectedGoesOn, NothingSaved, Activating, Verified, SavedVersion
    <2> QED BY <2>1, <2>2, <2>3, <2>4
<1>11. CASE ResetSameVersion
    <2>1. Typed' /\ AlwaysBootable'
        BY <1>11, <1>d DEF ResetSameVersion, ForgetRam, Typed, AlwaysBootable, JobInHand, RejectedGoesOn, Activating, Steps
    <2>2. OneInProgress' /\ SavedOnceStarted' /\ DocumentTrue' /\ JobInHand'
        BY <1>11, <1>d DEF ResetSameVersion, ForgetRam, Typed, OneInProgress, SavedOnceStarted, DocumentTrue, JobInHand, RejectedGoesOn, NothingSaved, Activating
    <2>3. RejectedGoesOn'
        BY <1>11, <1>d DEF ResetSameVersion, ForgetRam, Typed, OneInProgress, DocumentTrue, JobInHand, RejectedGoesOn, NothingSaved, Activating
    <2>4. Verified' /\ SavedVersion'
        BY <1>11, <1>d DEF ResetSameVersion, ForgetRam, Typed, OneInProgress, DocumentTrue, JobInHand, RejectedGoesOn, NothingSaved, Activating, Verified, SavedVersion
    <2> QED BY <2>1, <2>2, <2>3, <2>4
<1>12. CASE FailBoot
    <2>0. /\ globalJob \in Jobs /\ status[globalJob] = "inProgress"
          /\ active \in Images
          /\ Publish(globalJob, "failed", NoVersion)
        BY <1>12 DEF FailBoot, Report, JobInHand, Typed
    <2> DEFINE v == NoVersion
    <2>1. /\ status' \in [Jobs -> {"none", "queued", "inProgress"} \cup Final]
          /\ updater' \in [Jobs -> {NoVersion} \cup Texts]
          /\ lost' \in 0 .. MaxLost
          /\ \A k \in Jobs : k # globalJob => status'[k] = status[k] /\ updater'[k] = updater[k]
          /\ status'[globalJob] \in {"inProgress", "failed"}
          /\ updater'[globalJob] \in {updater[globalJob]} \cup ({v} \ {NoVersion})
        <3>1. "failed" \in Final \cup {"inProgress"} /\ v \in {NoVersion} \cup Texts
            BY <1>v, <2>0 DEF Final
        <3> QED BY <2>0, <3>1, PublishFacts
    <2> HIDE DEF v
    <2>2. Typed' /\ AlwaysBootable'
        BY <1>12, <1>d, <2>0, <2>1 DEF FailBoot, Report, Typed, AlwaysBootable, Activating, Steps
    <2>3. OneInProgress' /\ SavedOnceStarted' /\ DocumentTrue' /\ JobInHand'
        BY <1>12, <1>d, <2>0, <2>1 DEF FailBoot, Report, Typed, OneInProgress, SavedOnceStarted, DocumentTrue, JobInHand, Activating
    <2>4. RejectedGoesOn'
        BY <1>12, <1>d, <2>0, <2>1 DEF FailBoot, Report, Typed, OneInProgress, JobInHand, RejectedGoesOn, NothingSaved, Activating, v
    <2>5. release' = release /\ active' = active /\ pc' \notin {"imageBooted", "success"}
        BY <1>12 DEF FailBoot, Report
    <2>6. Verified' /\ SavedVersion'
        BY <2>0, <2>1, <2>5 DEF Verified, SavedVersion, v
    <2> QED BY <2>2, <2>3, <2>4, <2>6
<1>13. CASE RollBackOldFirmware
    <2>1. Typed' /\ AlwaysBootable'
        BY <1>13, <1>d DEF RollBackOldFirmware, FileSizeValid, Typed, AlwaysBootable, JobInHand, RejectedGoesOn, Activating, Steps
    <2>2. OneInProgress' /\ SavedOnceStarted' /\ DocumentTrue' /\ JobInHand'
        BY <1>13, <1>d DEF RollBackOldFirmware, FileSizeValid, Typed, OneInProgress, SavedOnceStarted, DocumentTrue, JobInHand, RejectedGoesOn, NothingSaved, Activating
    <2>3. RejectedGoesOn'
        BY <1>13, <1>d DEF RollBackOldFirmware, FileSizeValid, Typed, OneInProgress, DocumentTrue, JobInHand, RejectedGoesOn, NothingSaved, Activating
    <2>4. Verified' /\ SavedVersion'
        BY <1>13, <1>d DEF RollBackOldFirmware, FileSizeValid, Typed, OneInProgress, DocumentTrue, JobInHand, RejectedGoesOn, NothingSaved, Activating, Verified, SavedVersion
    <2> QED BY <2>1, <2>2, <2>3, <2>4
<1>14. CASE Download
    <2>1. Typed' /\ AlwaysBootable'
        BY <1>14, <1>d DEF Download, Typed, AlwaysBootable, JobInHand, RejectedGoesOn, Activating, Steps
    <2>2. OneInProgress' /\ SavedOnceStarted' /\ DocumentTrue' /\ JobInHand'
        BY <1>14, <1>d DEF Download, Typed, OneInProgress, SavedOnceStarted, DocumentTrue, JobInHand, RejectedGoesOn, NothingSaved, Activating
    <2>3. RejectedGoesOn'
        BY <1>14, <1>d DEF Download, Typed, OneInProgress, DocumentTrue, JobInHand, RejectedGoesOn, NothingSaved, Activating
    <2>4. Verified' /\ SavedVersion'
        BY <1>14, <1>d DEF Download, Typed, OneInProgress, DocumentTrue, JobInHand, RejectedGoesOn, NothingSaved, Activating, Verified, SavedVersion
    <2> QED BY <2>1, <2>2, <2>3, <2>4
<1>15. CASE RejectBlock
    <2>0. /\ globalJob \in Jobs /\ status[globalJob] = "inProgress"
          /\ active \in Images
          /\ Publish(globalJob, "failed", NoVersion)
        BY <1>15 DEF RejectBlock, Report, JobInHand, Typed
    <2> DEFINE v == NoVersion
    <2>1. /\ status' \in [Jobs -> {"none", "queued", "inProgress"} \cup Final]
          /\ updater' \in [Jobs -> {NoVersion} \cup Texts]
          /\ lost' \in 0 .. MaxLost
          /\ \A k \in Jobs : k # globalJob => status'[k] = status[k] /\ updater'[k] = updater[k]
          /\ status'[globalJob] \in {"inProgress", "failed"}
          /\ updater'[globalJob] \in {updater[globalJob]} \cup ({v} \ {NoVersion})
        <3>1. "failed" \in Final \cup {"inProgress"} /\ v \in {NoVersion} \cup Texts
            BY <1>v, <2>0 DEF Final
        <3> QED BY <2>0, <3>1, PublishFacts
    <2> HIDE DEF v
    <2>2. Typed' /\ AlwaysBootable'
        BY <1>15, <1>d, <2>0, <2>1, BoundsAssumption DEF RejectBlock, Report, Typed, AlwaysBootable, Activating, Steps
    <2>3. OneInProgress' /\ SavedOnceStarted' /\ DocumentTrue' /\ JobInHand'
        BY <1>15, <1>d, <2>0, <2>1 DEF RejectBlock, Report, Typed, OneInProgress, SavedOnceStarted, DocumentTrue, JobInHand, Activating
    <2>4. RejectedGoesOn'
        BY <1>15, <1>d, <2>0, <2>1 DEF RejectBlock, Report, Typed, OneInProgress, JobInHand, RejectedGoesOn, NothingSaved, Activating, v
    <2>5. release' = release /\ active' = active /\ pc' \notin {"imageBooted", "success"}
        BY <1>15 DEF RejectBlock, Report
    <2>6. Verified' /\ SavedVersion'
        BY <2>0, <2>1, <2>5 DEF Verified, SavedVersion, v
    <2> QED BY <2>2, <2>3, <2>4, <2>6
<1>16. CASE RejectedVerified
    <2>1. Typed' /\ AlwaysBootable'
        BY <1>16, <1>d DEF RejectedVerified, Typed, AlwaysBootable, JobInHand, RejectedGoesOn, Activating, Steps
    <2>2. OneInProgress' /\ SavedOnceStarted' /\ DocumentTrue' /\ JobInHand'
        BY <1>16, <1>d DEF RejectedVerified, Typed, OneInProgress, SavedOnceStarted, DocumentTrue, JobInHand, RejectedGoesOn, NothingSaved, Activating
    <2>3. RejectedGoesOn'
        BY <1>16, <1>d DEF RejectedVerified, Typed, OneInProgress, DocumentTrue, JobInHand, RejectedGoesOn, NothingSaved, Activating
    <2>4. Verified' /\ SavedVersion'
        BY <1>16, <1>d DEF RejectedVerified, Typed, OneInProgress, DocumentTrue, JobInHand, RejectedGoesOn, NothingSaved, Activating, Verified, SavedVersion
    <2> QED BY <2>1, <2>2, <2>3, <2>4
<1>17. CASE RejectedClosed
    <2>1. Typed' /\ AlwaysBootable'
        BY <1>17, <1>d DEF RejectedClosed, Typed, AlwaysBootable, JobInHand, RejectedGoesOn, Activating, Steps
    <2>2. OneInProgress' /\ SavedOnceStarted' /\ DocumentTrue' /\ JobInHand'
        BY <1>17, <1>d DEF RejectedClosed, Typed, OneInProgress, SavedOnceStarted, DocumentTrue, JobInHand, RejectedGoesOn, NothingSaved, Activating
    <2>3. RejectedGoesOn'
        BY <1>17, <1>d DEF RejectedClosed, Typed, OneInProgress, DocumentTrue, JobInHand, RejectedGoesOn, NothingSaved, Activating
    <2>4. Verified' /\ SavedVersion'
        BY <1>17, <1>d DEF RejectedClosed, Typed, OneInProgress, DocumentTrue, JobInHand, RejectedGoesOn, NothingSaved, Activating, Verified, SavedVersion
    <2> QED BY <2>1, <2>2, <2>3, <2>4
<1>18. CASE RejectedActivated
    <2>1. Typed' /\ AlwaysBootable'
        BY <1>18, <1>d DEF RejectedActivated, Typed, AlwaysBootable, JobInHand, RejectedGoesOn, Activating, Steps
    <2>2. OneInProgress' /\ SavedOnceStarted' /\ DocumentTrue' /\ JobInHand'
        BY <1>18, <1>d DEF RejectedActivated, Typed, OneInProgress, SavedOnceStarted, DocumentTrue, JobInHand, RejectedGoesOn, NothingSaved, Activating
    <2>3. RejectedGoesOn'
        BY <1>18, <1>d DEF RejectedActivated, Typed, OneInProgress, DocumentTrue, JobInHand, RejectedGoesOn, NothingSaved, Activating
    <2>4. Verified' /\ SavedVersion'
        BY <1>18, <1>d DEF RejectedActivated, Typed, OneInProgress, DocumentTrue, JobInHand, RejectedGoesOn, NothingSaved, Activating, Verified, SavedVersion
    <2> QED BY <2>1, <2>2, <2>3, <2>4
<1>19. CASE CloseRejected
    <2>1. Typed' /\ AlwaysBootable'
        BY <1>19, <1>d, BoundsAssumption DEF CloseRejected, Typed, AlwaysBootable, JobInHand, RejectedGoesOn, Activating, Steps
    <2>2. OneInProgress' /\ SavedOnceStarted' /\ DocumentTrue' /\ JobInHand'
        BY <1>19, <1>d DEF CloseRejected, Typed, OneInProgress, SavedOnceStarted, DocumentTrue, JobInHand, RejectedGoesOn, NothingSaved, Activating
    <2>3. RejectedGoesOn'
        BY <1>19, <1>d DEF CloseRejected, Typed, OneInProgress, DocumentTrue, JobInHand, RejectedGoesOn, NothingSaved, Activating
    <2>4. Verified' /\ SavedVersion'
        BY <1>19, <1>d DEF CloseRejected, Typed, OneInProgress, DocumentTrue, JobInHand, RejectedGoesOn, NothingSaved, Activating, Verified, SavedVersion
    <2> QED BY <2>1, <2>2, <2>3, <2>4
<1>20. CASE FailDownload /\ globalJob # NoJob
    <2>0. /\ globalJob \in Jobs /\ status[globalJob] = "inProgress"
          /\ active \in Images
          /\ Publish(globalJob, "failed", NoVersion)
        BY <1>20 DEF FailDownload, ForgetRam, JobInHand, Typed
    <2> DEFINE v == NoVersion
    <2>1. /\ status' \in [Jobs -> {"none", "queued", "inProgress"} \cup Final]
          /\ updater' \in [Jobs -> {NoVersion} \cup Texts]
          /\ lost' \in 0 .. MaxLost
          /\ \A k \in Jobs : k # globalJob => status'[k] = status[k] /\ updater'[k] = updater[k]
          /\ status'[globalJob] \in {"inProgress", "failed"}
          /\ updater'[globalJob] \in {updater[globalJob]} \cup ({v} \ {NoVersion})
        <3>1. "failed" \in Final \cup {"inProgress"} /\ v \in {NoVersion} \cup Texts
            BY <1>v, <2>0 DEF Final
        <3> QED BY <2>0, <3>1, PublishFacts
    <2> HIDE DEF v
    <2>2. Typed' /\ AlwaysBootable'
        BY <1>20, <1>d, <2>0, <2>1 DEF FailDownload, ForgetRam, Typed, AlwaysBootable, Activating, Steps
    <2>3. OneInProgress' /\ SavedOnceStarted' /\ DocumentTrue' /\ JobInHand'
        BY <1>20, <1>d, <2>0, <2>1 DEF FailDownload, ForgetRam, Typed, OneInProgress, SavedOnceStarted, DocumentTrue, JobInHand, Activating
    <2>4. RejectedGoesOn'
        BY <1>20, <1>d, <2>0, <2>1 DEF FailDownload, ForgetRam, Typed, OneInProgress, JobInHand, RejectedGoesOn, NothingSaved, Activating, v
    <2>5. release' = release /\ active' = active /\ pc' \notin {"imageBooted", "success"}
        BY <1>20 DEF FailDownload, ForgetRam
    <2>6. Verified' /\ SavedVersion'
        BY <2>0, <2>1, <2>5 DEF Verified, SavedVersion, v
    <2> QED BY <2>2, <2>3, <2>4, <2>6
<1>21. CASE FailDownload /\ globalJob = NoJob
    <2>0. UNCHANGED <<release, active, buffer, rejected, status, updater, lost>>
        BY <1>21 DEF FailDownload, ForgetRam
    <2>1. Typed' /\ AlwaysBootable'
        BY <1>21, <1>d, <2>0 DEF FailDownload, ForgetRam, Typed, AlwaysBootable, Activating, Steps
    <2>2. OneInProgress' /\ SavedOnceStarted' /\ DocumentTrue' /\ JobInHand'
        BY <1>21, <1>d, <2>0 DEF FailDownload, ForgetRam, OneInProgress, SavedOnceStarted, DocumentTrue, JobInHand, Activating
    <2>3. RejectedGoesOn'
        BY <1>21, <1>d, <2>0 DEF FailDownload, ForgetRam, RejectedGoesOn, JobInHand, NothingSaved, Activating
    <2>4. Verified' /\ SavedVersion'
        BY <1>21, <2>0 DEF FailDownload, ForgetRam, Verified, SavedVersion
    <2> QED BY <2>1, <2>2, <2>3, <2>4
<1>22. CASE SaveInitVersion /\ globalJob # NoJob
    <2>0. /\ globalJob \in Jobs /\ status[globalJob] = "inProgress"
          /\ active \in Images
          /\ Publish(globalJob, "inProgress", HexText(release[active].version))
        BY <1>22 DEF SaveInitVersion, JobInHand, Typed
    <2> DEFINE v == HexText(release[active].version)
    <2>1. /\ status' \in [Jobs -> {"none", "queued", "inProgress"} \cup Final]
          /\ updater' \in [Jobs -> {NoVersion} \cup Texts]
          /\ lost' \in 0 .. MaxLost
          /\ \A k \in Jobs : k # globalJob => status'[k] = status[k] /\ updater'[k] = updater[k]
          /\ status'[globalJob] \in {"inProgress", "inProgress"}
          /\ updater'[globalJob] \in {updater[globalJob]} \cup ({v} \ {NoVersion})
        <3>1. "inProgress" \in Final \cup {"inProgress"} /\ v \in {NoVersion} \cup Texts
            BY <1>v, <2>0 DEF Final
        <3> QED BY <2>0, <3>1, PublishFacts
    <2> HIDE DEF v
    <2>2. Typed' /\ AlwaysBootable'
        BY <1>22, <1>d, <2>0, <2>1 DEF SaveInitVersion, Typed, AlwaysBootable, Activating, Steps
    <2>3. OneInProgress' /\ SavedOnceStarted' /\ DocumentTrue' /\ JobInHand'
        BY <1>22, <1>d, <2>0, <2>1 DEF SaveInitVersion, Typed, OneInProgress, SavedOnceStarted, DocumentTrue, JobInHand, Activating
    <2>4. RejectedGoesOn'
        BY <1>22, <1>d, <2>0, <2>1 DEF SaveInitVersion, Typed, OneInProgress, JobInHand, RejectedGoesOn, NothingSaved, Activating, v
    <2>5. release' = release /\ active' = active /\ pc' \notin {"imageBooted", "success"}
        BY <1>22 DEF SaveInitVersion
    <2>6. Verified' /\ SavedVersion'
        BY <2>0, <2>1, <2>5 DEF Verified, SavedVersion, v
    <2> QED BY <2>2, <2>3, <2>4, <2>6
<1>23. CASE SaveInitVersion /\ globalJob = NoJob
    <2>0. UNCHANGED <<release, active, buffer, fields, rejected, status, updater, lost>>
        BY <1>23 DEF SaveInitVersion
    <2>1. Typed' /\ AlwaysBootable'
        BY <1>23, <1>d, <2>0 DEF SaveInitVersion, Typed, AlwaysBootable, Activating, Steps
    <2>2. OneInProgress' /\ SavedOnceStarted' /\ DocumentTrue' /\ JobInHand'
        BY <1>23, <1>d, <2>0 DEF SaveInitVersion, OneInProgress, SavedOnceStarted, DocumentTrue, JobInHand, Activating
    <2>3. RejectedGoesOn'
        BY <1>23, <1>d, <2>0 DEF SaveInitVersion, RejectedGoesOn, JobInHand, NothingSaved, Activating
    <2>4. Verified' /\ SavedVersion'
        BY <1>23, <2>0 DEF SaveInitVersion, Verified, SavedVersion
    <2> QED BY <2>1, <2>2, <2>3, <2>4
<1>24. CASE ActivateNewImage
    <2>1. Typed' /\ AlwaysBootable'
        BY <1>24, <1>d DEF ActivateNewImage, ForgetRam, Typed, AlwaysBootable, JobInHand, RejectedGoesOn, Activating, Steps
    <2>2. OneInProgress' /\ SavedOnceStarted' /\ DocumentTrue' /\ JobInHand'
        BY <1>24, <1>d DEF ActivateNewImage, ForgetRam, Typed, OneInProgress, SavedOnceStarted, DocumentTrue, JobInHand, RejectedGoesOn, NothingSaved, Activating
    <2>3. RejectedGoesOn'
        BY <1>24, <1>d DEF ActivateNewImage, ForgetRam, Typed, OneInProgress, DocumentTrue, JobInHand, RejectedGoesOn, NothingSaved, Activating
    <2>4. Verified' /\ SavedVersion'
        BY <1>24, <1>d DEF ActivateNewImage, ForgetRam, Typed, OneInProgress, DocumentTrue, JobInHand, RejectedGoesOn, NothingSaved, Activating, Verified, SavedVersion
    <2> QED BY <2>1, <2>2, <2>3, <2>4
<1>25. CASE ActivateFailed
    <2>1. Typed' /\ AlwaysBootable'
        BY <1>25, <1>d, BoundsAssumption DEF ActivateFailed, Typed, AlwaysBootable, JobInHand, RejectedGoesOn, Activating, Steps
    <2>2. OneInProgress' /\ SavedOnceStarted' /\ DocumentTrue' /\ JobInHand'
        BY <1>25, <1>d DEF ActivateFailed, Typed, OneInProgress, SavedOnceStarted, DocumentTrue, JobInHand, RejectedGoesOn, NothingSaved, Activating
    <2>3. RejectedGoesOn'
        BY <1>25, <1>d DEF ActivateFailed, Typed, OneInProgress, DocumentTrue, JobInHand, RejectedGoesOn, NothingSaved, Activating
    <2>4. Verified' /\ SavedVersion'
        BY <1>25, <1>d DEF ActivateFailed, Typed, OneInProgress, DocumentTrue, JobInHand, RejectedGoesOn, NothingSaved, Activating, Verified, SavedVersion
    <2> QED BY <2>1, <2>2, <2>3, <2>4
<1>26. ASSUME NEW j \in Jobs, CreateJob(j) PROVE IInv'
    <2>1. Typed' /\ AlwaysBootable'
        BY <1>26 DEF CreateJob, Typed, AlwaysBootable, Steps
    <2>2. /\ status[j] = "none" /\ status'[j] = "queued"
          /\ \A i \in Jobs : i # j => status'[i] = status[i]
          /\ UNCHANGED <<release, banks, ram, rejected, updater>>
          /\ pc' = pc \/ (pc = "waiting" /\ pc' = "ask")
        <3>1. /\ status' = [status EXCEPT ![j] = "queued"]
              /\ UNCHANGED <<release, banks, ram, rejected, updater>>
            BY <1>26 DEF CreateJob
        <3>2. status[j] = "none"
            BY <1>26 DEF CreateJob
        <3>3. pc' = IF pc = "waiting" THEN "ask" ELSE pc
            BY <1>26 DEF CreateJob
        <3>4. pc' = pc \/ (pc = "waiting" /\ pc' = "ask")
            BY <3>3
        <3>5. status'[j] = "queued" /\ \A i \in Jobs : i # j => status'[i] = status[i]
            BY <3>1 DEF Typed
        <3> QED BY <3>1, <3>2, <3>4, <3>5
    <2>3. OneInProgress' /\ SavedOnceStarted' /\ Verified' /\ SavedVersion'
        BY <2>2 DEF OneInProgress, SavedOnceStarted, Verified, SavedVersion
    <2>4. DocumentTrue' /\ JobInHand'
        BY <1>d, <2>2 DEF DocumentTrue, JobInHand, Typed, Activating
    <2>5. RejectedGoesOn'
        BY <2>2 DEF RejectedGoesOn, NothingSaved
    <2> QED BY <2>1, <2>3, <2>4, <2>5
<1>27. CASE UNCHANGED vars
    BY <1>27 DEF Typed, AlwaysBootable, OneInProgress, SavedOnceStarted, DocumentTrue, JobInHand, RejectedGoesOn, NothingSaved, Activating, Verified, SavedVersion
<1> QED
    BY <1>1, <1>2, <1>3, <1>4, <1>5, <1>6, <1>7, <1>8, <1>9, <1>10, <1>11, <1>12, <1>13, <1>14, <1>15, <1>16, <1>17, <1>18, <1>19, <1>20, <1>21, <1>22, <1>23, <1>24, <1>25, <1>26, <1>27
       DEF Next, AgentTask, Faults

(* A job turns to succeeded only when the image that runs is its own. *)
LEMMA SuccessStep ==
    ASSUME IInv, [Next]_vars, NEW j \in Jobs, status[j] # "succeeded", status'[j] = "succeeded"
    PROVE  /\ active = j /\ release[j].good
           /\ updater[j] # NoVersion /\ release[j].version > Strtol(updater[j])
<1> USE DEF IInv
<1>1. SendSuccessMessage
    <2>1. ASSUME NEW g \in Jobs, status[g] = "inProgress",
                 NEW st \in {"failed", "inProgress"}, NEW v, Publish(g, st, v)
          PROVE  FALSE
        BY <2>1 DEF Publish, Typed, cloud
    <2>2. ~FailSameVersion /\ ~FailBoot /\ ~RejectBlock
        BY <2>1 DEF FailSameVersion, FailBoot, RejectBlock, Report, JobInHand
    <2>3. ~FailDownload /\ ~SaveInitVersion
        BY <2>1 DEF FailDownload, SaveInitVersion, JobInHand, Typed, cloud
    <2>4. ~RequestJobDocument /\ ~RequestLost
        BY DEF RequestJobDocument, RequestLost, Typed
    <2>5. ~\E i \in Jobs : CreateJob(i)
        BY DEF CreateJob, Typed
    <2>6. ~UNCHANGED vars /\ ~Boot /\ ~PowerLoss
        BY DEF vars, cloud, Boot, PowerLoss
    <2>7. ~NoPendingJob /\ ~InitialImage /\ ~VerifyVersion /\ ~AcceptImage
        BY DEF cloud, NoPendingJob, InitialImage, VerifyVersion, AcceptImage
    <2>8. ~DeleteAfterFailure /\ ~ResetSameVersion /\ ~RollBackOldFirmware
        BY DEF cloud, DeleteAfterFailure, ResetSameVersion, RollBackOldFirmware
    <2>9. ~Download /\ ~CloseRejected /\ ~ActivateNewImage /\ ~ActivateFailed
        BY DEF cloud, Download, CloseRejected, ActivateNewImage, ActivateFailed
    <2>10. ~RejectedVerified /\ ~RejectedClosed /\ ~RejectedActivated
        BY DEF cloud, RejectedVerified, RejectedClosed, RejectedActivated
    <2> QED BY <2>2, <2>3, <2>4, <2>5, <2>6, <2>7, <2>8, <2>9, <2>10 DEF Next, AgentTask, Faults
<1>2. j = globalJob /\ status[j] = "inProgress"
    <2>1. pc = "success" /\ globalJob \in Jobs /\ status[globalJob] = "inProgress"
        BY <1>1 DEF SendSuccessMessage, JobInHand
    <2>2. Publish(globalJob, "succeeded", NoVersion)
        BY <1>1 DEF SendSuccessMessage, Report
    <2> QED BY <2>1, <2>2 DEF Publish, Typed, cloud
<1>3. /\ active \in Images /\ release[active].good /\ updater[j] # NoVersion
      /\ release[active].version > Strtol(updater[j])
    BY <1>1, <1>2 DEF SendSuccessMessage, Typed, Verified
<1>4. updater[j] # HexText(release[active].version)
    <2>1. release[active].version \in 0 .. LongMax
        BY <1>3, VersionsAssumption DEF Typed
    <2>2. Strtol(HexText(release[active].version)) = release[active].version
        BY <2>1, RoundTrip
    <2>3. release[active].version \in Int
        BY <2>1, LongMaxFacts, SMT
    <2> QED BY <1>3, <2>2, <2>3
<1>5. active = j
    BY <1>2, <1>3, <1>4 DEF SavedVersion
<1> QED BY <1>3, <1>5

(* The bit that starts the demos is set by an image that has nothing to prove, or
   has passed its self test. *)
LEMMA DemosStep ==
    ASSUME IInv, [Next]_vars, ~demos, demos', NEW j \in Jobs,
           active = j, status[j] = "inProgress", updater[j] # NoVersion
    PROVE  release[j].good
<1> USE DEF IInv
<1>1. NoPendingJob \/ InitialImage \/ VerifyVersion
    <2>1. ~UNCHANGED vars /\ ~Boot /\ ~PowerLoss /\ ~RequestJobDocument
        BY DEF vars, ram, Boot, PowerLoss, ForgetRam, RequestJobDocument
    <2>2. ~AcceptImage /\ ~SendSuccessMessage /\ ~FailSameVersion /\ ~DeleteAfterFailure
        BY DEF ram, AcceptImage, SendSuccessMessage, FailSameVersion, DeleteAfterFailure
    <2>3. ~ResetSameVersion /\ ~FailBoot /\ ~RollBackOldFirmware
        BY DEF ram, ResetSameVersion, FailBoot, RollBackOldFirmware, ForgetRam
    <2>4. ~Download /\ ~CloseRejected /\ ~FailDownload /\ ~SaveInitVersion
        BY DEF ram, Download, CloseRejected, FailDownload, SaveInitVersion, ForgetRam
    <2>5. ~ActivateNewImage /\ ~ActivateFailed /\ ~\E i \in Jobs : CreateJob(i)
        BY DEF ram, ActivateNewImage, ActivateFailed, ForgetRam, CreateJob
    <2>6. ~RequestLost /\ ~RejectBlock
        BY DEF ram, RequestLost, RejectBlock
    <2>7. ~RejectedVerified /\ ~RejectedClosed /\ ~RejectedActivated
        BY DEF ram, RejectedVerified, RejectedClosed, RejectedActivated
    <2> QED BY <2>1, <2>2, <2>3, <2>4, <2>5, <2>6, <2>7 DEF Next, AgentTask, Faults
<1>2. ~NoPendingJob
    BY DEF NoPendingJob, ReceiveDocument, DocumentTrue
<1>3. ~InitialImage
    BY DEF InitialImage, DocumentTrue, OneInProgress, Typed
<1>4. CASE VerifyVersion
    BY <1>4 DEF VerifyVersion, VersionResult, Typed
<1> QED BY <1>1, <1>2, <1>3, <1>4

(* The invariant of the specification. *)
THEOREM Invariance == Spec => []IInv
BY InitIInv, NextIInv, PTL DEF Spec

(* Every variable keeps its type: no version is changed on its way through the
   job document. *)
THEOREM TypeCorrect == Spec => []TypeOK
BY Invariance, TypedTypeOK, PTL DEF IInv

(* The active bank always holds an image: of all orders of downloads, rejected blocks,
   failed toggles, self tests and resets, only the one that erases the image of a
   rejected download before it is activated leaves the device without one to boot
   (OtaOverMqttDemo.c:1475). *)
THEOREM Bootable == Spec => []AlwaysBootable
<1>1. IInv => AlwaysBootable
    BY DEF IInv
<1> QED BY Invariance, <1>1, PTL

(* A job succeeds only while its own image runs, has passed its self test, and is
   newer than the one that downloaded it. *)
THEOREM SuccessIsInstalled == Spec => SuccessMeansInstalled
<1>1. IInv /\ [Next]_vars =>
        [\A j \in Jobs : status[j] # "succeeded" /\ status'[j] = "succeeded"
           => /\ active = j /\ release[j].good
              /\ updater[j] # NoVersion /\ release[j].version > Strtol(updater[j])]_vars
    BY SuccessStep
<1> QED BY <1>1, Invariance, PTL DEF Spec, SuccessMeansInstalled

(* The demos of an image whose version is still to be verified start only after
   its self test has passed. *)
THEOREM DemosAfterSelfTest == Spec => SelfTestBeforeDemos
<1>1. IInv /\ [Next]_vars =>
        [~demos /\ demos' =>
           \A j \in Jobs : active = j /\ status[j] = "inProgress" /\ updater[j] # NoVersion
               => release[j].good]_vars
    BY DemosStep
<1> QED BY <1>1, Invariance, PTL DEF Spec, SelfTestBeforeDemos
================================================================================
