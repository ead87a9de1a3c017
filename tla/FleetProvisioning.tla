--------------------------- MODULE FleetProvisioning ---------------------------
(***************************************************************************)
(* Fleet provisioning by claim (Demos/Fleet_Provisioning_With_CSR_Demo):    *)
(* the device makes a key, has AWS IoT (external) sign a certificate for it *)
(* over a connection with the claim credentials, registers itself as a      *)
(* thing, and tries the new credentials.  Credentials that are already      *)
(* there are used instead; those that do not connect are destroyed.         *)
(*                                                                         *)
(* The key, the certificate and the name of the thing are files of the data *)
(* flash, and a reset comes between any two steps.  A file exists, empty,   *)
(* from its opening until it is closed.  An answer that misses its time may *)
(* reach a later connection.                                                *)
(***************************************************************************)
EXTENDS Integers, FiniteSets

CONSTANTS
    MaxRuns,        \* fpdemoMAX_DEMO_LOOP_COUNT
    MaxFaults,      \* bound: calls that fail and messages that are lost
    MaxResets,      \* bound: resets and power losses
    MaxLates        \* bound: answers that arrive late

ASSUME RunsAssumption == MaxRuns \in Nat \ {0}

ASSUME BoundsAssumption == MaxFaults \in Nat /\ MaxResets \in Nat /\ MaxLates \in Nat

(* What an object's file holds; a key and its certificate are numbered. *)
Absent == 0
Empty == -1

NoAnswer == [api |-> "none", key |-> Absent]
Answer(api, k) == [api |-> api, key |-> k]

VARIABLES
    pc,             \* where prvFpDemo_start is
    run,            \* ulDemoRunCount
    key, cert,      \* the device's private key and certificate
    named, saved,   \* the thing's name: in the cache, in its file
    made,           \* key pairs generated so far; the CSR is of the last one
    received,       \* pcCertificate and pcOwnershipToken
    response,       \* pucResponseBuffer
    stray,          \* an answer on its way that missed its time
    active,         \* certificates that RegisterThing has activated
    result,         \* of the last call of prvFpDemo_start
    faults, resets, lates   \* counted for the bounds

objects == <<key, cert>>
thing == <<named, saved>>
cloud == <<stray, active>>
bounds == <<faults, resets, lates>>
vars == <<pc, run, objects, thing, made, received, response, cloud, result, bounds>>

(* A new device, or one that has been provisioned before. *)
Init ==
    /\ \E provisioned \in BOOLEAN :
           /\ key = IF provisioned THEN 1 ELSE Absent
           /\ cert = key /\ active = {key} \ {Absent}
           /\ named = provisioned /\ saved = provisioned
    /\ pc = "open" /\ run = 0
    /\ made = 1 /\ received = Absent
    /\ response = NoAnswer /\ stray = NoAnswer
    /\ result = "none"
    /\ faults = 0 /\ resets = 0 /\ lates = 0

------------------------------------------------------------------------------
(* Steps of the task *)

Go(from, to) == pc = from /\ pc' = to

Fault == faults < MaxFaults /\ faults' = faults + 1

Present(object) == object \notin {Absent, Empty}

(* Fault: it is enough that one of the three is there. *)
AnythingStored == Present(key) \/ Present(cert) \/ named

AllStored == Present(key) /\ Present(cert) /\ named

(* xGetCertificateAndKeyState looks for the key first. *)
UseStored ==
    /\ AllStored
    /\ Go("open", "connectDevice")
    /\ UNCHANGED <<run, objects, thing, made, received, response, cloud, result, bounds>>

Provision ==
    /\ ~AllStored
    /\ Go("open", "destroyKey")
    /\ UNCHANGED <<run, objects, thing, made, received, response, cloud, result, bounds>>

(* No session, or an object that cannot be read: an empty one as a rule is not. *)
OpenFailed ==
    /\ Go("open", "close")
    /\ Fault \/ (Empty \in {key, cert} /\ UNCHANGED faults)
    /\ UNCHANGED <<run, objects, thing, made, received, response, cloud, result, resets, lates>>

(* Fault: the certificate is left where it is. *)
DestroyKeyOnly(keyStep, certStep, next) ==
    /\ \/ Go(keyStep, certStep) /\ key' = Absent
       \/ Go(certStep, next) /\ UNCHANGED key
    /\ UNCHANGED <<run, cert, thing, made, received, response, cloud, result, bounds>>

(* prvDestroyProvidedObjects; an empty object may not be found. *)
Destroyed(object) == object' = Absent \/ (object = Empty /\ UNCHANGED object)

(* xDestroyCertificateAndKey *)
DestroyCertificateAndKey(keyStep, certStep, next) ==
    /\ \/ Go(keyStep, certStep) /\ Destroyed(key) /\ UNCHANGED cert
       \/ Go(certStep, next) /\ Destroyed(cert) /\ UNCHANGED key
    /\ UNCHANGED <<run, thing, made, received, response, cloud, result, bounds>>

DestroyFailed ==
    /\ pc \in {"destroyKey", "destroyCert", "forgetKey", "forgetCert"}
    /\ pc' = "close"
    /\ Fault
    /\ UNCHANGED <<run, objects, thing, made, received, response, cloud, result, resets, lates>>

Destroy == DestroyCertificateAndKey("destroyKey", "destroyCert", "generate")

Forget == DestroyCertificateAndKey("forgetKey", "forgetCert", "close")

(* Fault: what has been received stays in the buffer. *)
KeepResponse == UNCHANGED response

(* Before each of the two requests, and when the run has failed before them. *)
ClearResponse == response' = NoAnswer

(* xGenerateKeyAndCsr: the key pair is made in RAM and its file opened. *)
GenerateKey ==
    /\ Go("generate", "saveKey")
    /\ made' = made + 1 /\ key' = Empty
    /\ UNCHANGED <<run, cert, thing, received, response, cloud, result, bounds>>

GenerateFailed ==
    /\ Go("generate", "close")
    /\ ClearResponse
    /\ Fault
    /\ UNCHANGED <<run, objects, thing, made, received, cloud, result, resets, lates>>

SaveKey ==
    /\ Go("saveKey", "connectClaim")
    /\ key' = made
    /\ UNCHANGED <<run, cert, thing, made, received, response, cloud, result, bounds>>

(* A write that fails ends the run; a close that fails is not noticed. *)
SaveKeyFailed ==
    /\ \/ Go("saveKey", "close") /\ ClearResponse
       \/ Go("saveKey", "connectClaim") /\ UNCHANGED response
    /\ Fault
    /\ UNCHANGED <<run, objects, thing, made, received, cloud, result, resets, lates>>

(* xEstablishMqttSession with the claim credentials, when it returns (FairSpec). *)
ConnectClaim ==
    /\ Go("connectClaim", "subscribe")
    /\ ClearResponse
    /\ UNCHANGED <<run, objects, thing, made, received, cloud, result, bounds>>

(* The retries with backoff are used up. *)
ConnectClaimFailed ==
    /\ Go("connectClaim", "close")
    /\ ClearResponse
    /\ Fault
    /\ UNCHANGED <<run, objects, thing, made, received, cloud, result, resets, lates>>

Subscribe ==
    /\ Go("subscribe", "requestCertificate")
    /\ UNCHANGED <<run, objects, thing, made, received, response, cloud, result, bounds>>

(* No SUBACK in time, or one that refuses. *)
SubscribeFailed ==
    /\ Go("subscribe", "close")
    /\ Fault
    /\ UNCHANGED <<run, objects, thing, made, received, response, cloud, result, resets, lates>>

(* prvProvisioningPublishCallback, while xPublishToTopic runs the process loop.
   Acknowledgements and rejections leave the buffer as it is. *)
Answered(api, k) == response' = Answer(api, k) /\ UNCHANGED <<stray, faults, lates>>

(* The request or its answer is lost, or it is rejected. *)
Unanswered == Fault /\ UNCHANGED <<response, stray, lates>>

AnswerDelayed(api, k) == Fault /\ stray' = Answer(api, k) /\ UNCHANGED <<response, lates>>

(* Of two answers to topics of the same name the last one counts. *)
StrayAnswer(api) ==
    /\ stray.api = api /\ lates < MaxLates
    /\ response' = stray /\ stray' = NoAnswer
    /\ lates' = lates + 1
    /\ faults' \in {f \in {faults, faults + 1} : f <= MaxFaults}

(* CreateCertificateFromCsr *)
RequestCertificate ==
    /\ Go("requestCertificate", "parseCertificate")
    /\ \/ Answered("csr", made)
       \/ Unanswered
       \/ AnswerDelayed("csr", made)
       \/ StrayAnswer("csr")
    /\ UNCHANGED <<run, objects, thing, made, received, active, result, resets>>

(* xParseCsrResponse, which refuses an empty buffer, and xLoadCertificate, which
   destroys the old object as best it can and opens its file again. *)
LoadCertificate ==
    /\ response # NoAnswer
    /\ Go("parseCertificate", "saveCertificate")
    /\ received' = IF response.api = "csr" THEN response.key ELSE received
    /\ cert' = Empty
    /\ UNCHANGED <<run, key, thing, made, response, cloud, result, bounds>>

LoadFailed ==
    /\ Go("parseCertificate", "close")
    /\ \/ response = NoAnswer /\ UNCHANGED faults
       \/ Fault
    /\ ClearResponse
    /\ UNCHANGED <<run, objects, thing, made, received, cloud, result, resets, lates>>

(* The certificate is not compared with the key. *)
SaveCertificate ==
    /\ Go("saveCertificate", "unsubscribe")
    /\ cert' = received
    /\ UNCHANGED <<run, key, thing, made, received, response, cloud, result, bounds>>

SaveCertificateFailed ==
    /\ \/ Go("saveCertificate", "close") /\ ClearResponse
       \/ Go("saveCertificate", "unsubscribe") /\ UNCHANGED response
    /\ Fault
    /\ UNCHANGED <<run, objects, thing, made, received, cloud, result, resets, lates>>

Unsubscribe ==
    /\ Go("unsubscribe", "register")
    /\ ClearResponse
    /\ UNCHANGED <<run, objects, thing, made, received, cloud, result, bounds>>

UnsubscribeFailed ==
    /\ Go("unsubscribe", "close")
    /\ ClearResponse
    /\ Fault
    /\ UNCHANGED <<run, objects, thing, made, received, cloud, result, resets, lates>>

(* RegisterThing, which activates the certificate of the token. *)
RegisterThing ==
    /\ Go("register", "parseThing")
    /\ \/ Answered("register", received) /\ active' = active \cup {received}
       \/ Unanswered /\ active' \in {active, active \cup {received}}
       \/ AnswerDelayed("register", received) /\ active' = active \cup {received}
       \/ /\ StrayAnswer("register")
          /\ active' = active \cup {received} \/ (faults' > faults /\ UNCHANGED active)
    /\ UNCHANGED <<run, objects, thing, made, received, result, resets>>

(* xParseRegisterThingResponse is content with any map; the name is written to
   the cache, and the old file is removed. *)
NameThing ==
    /\ response # NoAnswer
    /\ Go("parseThing", "saveThing")
    /\ named' = TRUE /\ saved' = FALSE
    /\ UNCHANGED <<run, objects, made, received, response, cloud, result, bounds>>

ThingUnnamed ==
    /\ response = NoAnswer
    /\ Go("parseThing", "close")
    /\ UNCHANGED <<run, objects, thing, made, received, response, cloud, result, bounds>>

SaveThing ==
    /\ Go("saveThing", "connectDevice")
    /\ saved' = TRUE
    /\ UNCHANGED <<run, objects, named, made, received, response, cloud, result, bounds>>

(* The name is not missed until the next reset. *)
SaveThingFailed ==
    /\ Go("saveThing", "connectDevice")
    /\ Fault
    /\ UNCHANGED <<run, objects, thing, made, received, response, cloud, result, resets, lates>>

Accepted == key = cert /\ key \in active

ConnectDevice ==
    /\ Accepted
    /\ pc = "connectDevice" /\ pc' = "done"
    /\ run' = run + 1 /\ result' = "success"
    /\ UNCHANGED <<objects, thing, made, received, response, cloud, bounds>>

(* "Force re-provisioning on next iteration" *)
ConnectDeviceFailed ==
    /\ Go("connectDevice", "forgetKey")
    /\ Fault \/ (~Accepted /\ UNCHANGED faults)
    /\ UNCHANGED <<run, objects, thing, made, received, response, cloud, result, resets, lates>>

(* Fault: a run without a key to begin with is not counted. *)
RetryUncounted ==
    /\ pc = "close"
    /\ run' = IF key = Empty THEN run ELSE run + 1
    /\ IF run' < MaxRuns THEN pc' = "open" /\ UNCHANGED result
                         ELSE pc' = "done" /\ result' = "failure"
    /\ UNCHANGED <<objects, thing, made, received, response, cloud, bounds>>

Retry ==
    /\ pc = "close"
    /\ run' = run + 1
    /\ IF run' < MaxRuns THEN pc' = "open" /\ UNCHANGED result
                         ELSE pc' = "done" /\ result' = "failure"
    /\ UNCHANGED <<objects, thing, made, received, response, cloud, bounds>>

FpDemo ==
    \/ UseStored \/ Provision \/ OpenFailed
    \/ Destroy \/ Forget \/ DestroyFailed
    \/ GenerateKey \/ GenerateFailed \/ SaveKey \/ SaveKeyFailed
    \/ ConnectClaim \/ ConnectClaimFailed \/ Subscribe \/ SubscribeFailed
    \/ RequestCertificate \/ LoadCertificate \/ LoadFailed
    \/ SaveCertificate \/ SaveCertificateFailed \/ Unsubscribe \/ UnsubscribeFailed
    \/ RegisterThing \/ NameThing \/ ThingUnnamed \/ SaveThing \/ SaveThingFailed
    \/ ConnectDevice \/ ConnectDeviceFailed \/ Retry

(* The cache is filled from the files. *)
Reset ==
    /\ resets < MaxResets
    /\ resets' = resets + 1
    /\ pc' = "open" /\ run' = 0 /\ result' = "none"
    /\ named' = saved
    /\ received' = Absent /\ response' = NoAnswer
    /\ UNCHANGED <<objects, saved, made, cloud, faults, lates>>

Next == FpDemo \/ Reset

Spec == Init /\ [][Next]_vars

(* Where the task is in a TLS handshake, which is repeated for as long as it
   wants to read or write: with a silent peer the call may never return. *)
Handshaking == pc \in {"connectClaim", "connectDevice"}

(* Every other call returns in bounded time, by a timeout at the latest. *)
FairSpec == Spec /\ WF_vars(~Handshaking /\ FpDemo)

------------------------------------------------------------------------------
(* Properties *)

Objects == {Absent, Empty} \cup 1 .. made

Answers == {NoAnswer} \cup [api : {"csr", "register"}, key : 1 .. made]

Steps ==
    {"open", "destroyKey", "destroyCert", "generate", "saveKey", "connectClaim",
     "subscribe", "requestCertificate", "parseCertificate", "saveCertificate", "unsubscribe",
     "register", "parseThing", "saveThing", "connectDevice", "forgetKey",
     "forgetCert", "close", "done"}

TypeOK ==
    /\ pc \in Steps /\ run \in 0 .. MaxRuns
    /\ made \in Nat \ {0} /\ key \in Objects /\ cert \in Objects
    /\ named \in BOOLEAN /\ saved \in BOOLEAN
    /\ received \in Objects \ {Empty}
    /\ response \in Answers /\ stray \in Answers
    /\ active \subseteq 1 .. made
    /\ result \in {"none", "success", "failure"}
    /\ faults \in 0 .. MaxFaults /\ resets \in 0 .. MaxResets /\ lates \in 0 .. MaxLates

(* A certificate is never stored beside the key of another: neither a failure nor
   a reset leaves the old certificate with a new key, to be found and used after
   it.  An answer that arrives late is the exception, for nothing compares the
   certificate in it with the key. *)
CertificateOfKey ==
    lates = 0 /\ Present(key) /\ Present(cert) => cert = key

(* The thing gets its name only once its certificate is registered: no other
   answer that is left in the buffer is taken for that of RegisterThing. *)
NamedOnceRegistered ==
    lates = 0 /\ pc = "saveThing" => received \in active

(* One failure, lost message or reset is made good by the retries; the device
   gives up after two at the least, unless an object was left empty. *)
FailureExplained ==
    result = "failure" => faults + resets >= 2 \/ Empty \in {key, cert}

(* prvFpDemo_start returns, and so sets the state for which the MQTT agent task
   waits, whatever fails; only a handshake with a silent peer keeps both tasks
   waiting for ever. *)
AgentReleased == <>[]Handshaking \/ []<>(pc = "done")
================================================================================
