------------------------ MODULE FleetProvisioning_proofs ------------------------
(***************************************************************************)
(* The credentials that fleet provisioning stores are safe for every number *)
(* of runs, failures, resets and late answers.                             *)
(*                                                                         *)
(* The two safety properties are not inductive: IInv adds which objects are *)
(* gone between their destruction and their making (Replaced), that the     *)
(* buffer is empty when a request is sent (BufferClear), and whose answer   *)
(* it holds afterwards (AnswerOfRequest).                                  *)
(*                                                                         *)
(* That a single mishap does not make the device give up needs another     *)
(* invariant, Explained, and the three runs that the code allows.          *)
(***************************************************************************)
EXTENDS FleetProvisioning, TLAPS

(* The key goes before its certificate, and a new certificate comes after its
   key. *)
Replaced ==
    /\ pc \in {"destroyCert", "forgetCert", "generate"} => ~Present(key)
    /\ pc \in {"generate", "saveKey", "connectClaim", "subscribe", "requestCertificate",
               "parseCertificate", "saveCertificate"} => ~Present(cert)
    /\ pc \in {"saveKey", "connectClaim", "subscribe", "requestCertificate",
               "parseCertificate", "saveCertificate"} => key \in {Empty, made}

(* A run is under way only while one is left. *)
RunsLeft == pc # "done" => run < MaxRuns

BufferClear ==
    pc \in {"subscribe", "requestCertificate", "register"} => response = NoAnswer

(* What xParseCsrResponse and xParseRegisterThingResponse are given. *)
AnswerOfRequest ==
    /\ pc = "parseCertificate" /\ response # NoAnswer =>
           response.api = "csr" /\ (lates = 0 => response.key = made)
    /\ pc \in {"saveCertificate", "unsubscribe", "register", "parseThing", "saveThing"} =>
           received \in 1 .. made
    /\ pc = "saveCertificate" /\ lates = 0 => received = made
    /\ pc = "parseThing" /\ response # NoAnswer /\ lates = 0 => received \in active

IInv ==
    /\ TypeOK
    /\ CertificateOfKey /\ NamedOnceRegistered
    /\ Replaced /\ RunsLeft /\ BufferClear /\ AnswerOfRequest

(* The initial state satisfies IInv. *)
LEMMA InitIInv == Init => IInv
BY RunsAssumption, BoundsAssumption
   DEF Init, IInv, TypeOK, CertificateOfKey, NamedOnceRegistered, Replaced, RunsLeft, BufferClear,
       AnswerOfRequest, Objects, Answers, Steps, Present, NoAnswer, Answer, Absent, Empty

(* While no key pair is made, numbers of keys and answers mean the same. *)
LEMMA SameKeys == made' = made => Objects' = Objects /\ Answers' = Answers
BY DEF Objects, Answers

(* The answers that a request may have. *)
LEMMA AnswerIsAnswer ==
    ASSUME NEW api \in {"csr", "register"}, NEW k \in 1 .. made
    PROVE  Answer(api, k) \in Answers /\ NoAnswer \in Answers
BY DEF Answer, Answers

(* Every step preserves the type invariant. *)
LEMMA NextTypeOK == TypeOK /\ RunsLeft /\ AnswerOfRequest /\ [Next]_vars => TypeOK'
<1> SUFFICES ASSUME TypeOK, RunsLeft, AnswerOfRequest, [Next]_vars PROVE TypeOK'
    OBVIOUS
<1> USE RunsAssumption, BoundsAssumption
    DEF TypeOK, Go, Fault, objects, thing, cloud, bounds
<1>0. Absent \in Objects /\ Empty \in Objects /\ Absent # Empty /\ NoAnswer \in Answers
    BY DEF Objects, Answers, Absent, Empty
<1>s. made' = made => Objects' = Objects /\ Answers' = Answers
    BY SameKeys
<1>m. made \in Objects \/ made = 0
    BY DEF Objects
<1>1. CASE UseStored
    BY <1>1, <1>0, <1>s DEF UseStored, Steps
<1>2. CASE Provision
    BY <1>2, <1>0, <1>s DEF Provision, Steps
<1>3. CASE OpenFailed
    BY <1>3, <1>0, <1>s DEF OpenFailed, Steps
<1>4. CASE Destroy
    BY <1>4, <1>0, <1>s DEF Destroy, DestroyCertificateAndKey, Destroyed, Steps
<1>5. CASE Forget
    BY <1>5, <1>0, <1>s DEF Forget, DestroyCertificateAndKey, Destroyed, Steps
<1>6. CASE DestroyFailed
    BY <1>6, <1>0, <1>s DEF DestroyFailed, Steps
<1>7. CASE GenerateKey
    <2>1. made' = made + 1 /\ made' \in Nat
        BY <1>7 DEF GenerateKey
    <2>2. Objects \subseteq Objects' /\ Answers \subseteq Answers' /\ 1 .. made \subseteq 1 .. made'
        BY <2>1 DEF Objects, Answers
    <2> QED BY <1>7, <1>0, <2>1, <2>2 DEF GenerateKey, Steps
<1>8. CASE GenerateFailed
    BY <1>8, <1>0, <1>s DEF GenerateFailed, ClearResponse, Steps
<1>9. CASE SaveKey
    BY <1>9, <1>0, <1>s DEF SaveKey, Objects, Steps
<1>10. CASE SaveKeyFailed
    BY <1>10, <1>0, <1>s DEF SaveKeyFailed, ClearResponse, Steps
<1>11. CASE ConnectClaim
    BY <1>11, <1>0, <1>s DEF ConnectClaim, ClearResponse, Steps
<1>12. CASE ConnectClaimFailed
    BY <1>12, <1>0, <1>s DEF ConnectClaimFailed, ClearResponse, Steps
<1>13. CASE Subscribe
    BY <1>13, <1>0, <1>s DEF Subscribe, Steps
<1>14. CASE SubscribeFailed
    BY <1>14, <1>0, <1>s DEF SubscribeFailed, Steps
<1>15. CASE RequestCertificate
    <2>1. made \in 1 .. made /\ received \in 1 .. made \cup {Absent} /\ (pc = "register" => received \in 1 .. made)
        BY <1>15 DEF RequestCertificate, AnswerOfRequest, Objects
    <2>2. Answer("csr", made) \in Answers
        BY <1>15, <2>1, AnswerIsAnswer DEF RequestCertificate
    <2> QED BY <1>15, <1>0, <1>s, <2>1, <2>2
            DEF RequestCertificate, Answered, Unanswered, AnswerDelayed, StrayAnswer, Steps
<1>16. CASE LoadCertificate
    <2>1. response.api = "csr" /\ response.key \in 1 .. made
        BY <1>16 DEF LoadCertificate, AnswerOfRequest, Answers, NoAnswer
    <2> QED BY <1>16, <1>0, <1>s, <2>1 DEF LoadCertificate, Objects, Empty, Steps
<1>17. CASE LoadFailed
    BY <1>17, <1>0, <1>s DEF LoadFailed, ClearResponse, Steps
<1>18. CASE SaveCertificate
    BY <1>18, <1>0, <1>s DEF SaveCertificate, AnswerOfRequest, Objects, Steps
<1>19. CASE SaveCertificateFailed
    BY <1>19, <1>0, <1>s DEF SaveCertificateFailed, ClearResponse, Steps
<1>20. CASE Unsubscribe
    BY <1>20, <1>0, <1>s DEF Unsubscribe, ClearResponse, Steps
<1>21. CASE UnsubscribeFailed
    BY <1>21, <1>0, <1>s DEF UnsubscribeFailed, ClearResponse, Steps
<1>22. CASE RegisterThing
    <2>1. made \in 1 .. made /\ received \in 1 .. made \cup {Absent} /\ (pc = "register" => received \in 1 .. made)
        BY <1>22 DEF RegisterThing, AnswerOfRequest, Objects
    <2>2. Answer("register", received) \in Answers
        BY <1>22, <2>1, AnswerIsAnswer DEF RegisterThing
    <2>3. active' \subseteq 1 .. made'
        BY <1>22, <2>1 DEF RegisterThing
    <2>4. response' \in Answers' /\ stray' \in Answers'
        BY <1>22, <1>0, <1>s, <2>2
           DEF RegisterThing, Answered, Unanswered, AnswerDelayed, StrayAnswer
    <2> QED BY <1>22, <1>0, <1>s, <2>3, <2>4
            DEF RegisterThing, Answered, Unanswered, AnswerDelayed, StrayAnswer, Steps
<1>23. CASE NameThing
    BY <1>23, <1>0, <1>s DEF NameThing, Steps
<1>24. CASE ThingUnnamed
    BY <1>24, <1>0, <1>s DEF ThingUnnamed, Steps
<1>25. CASE SaveThing
    BY <1>25, <1>0, <1>s DEF SaveThing, Steps
<1>26. CASE SaveThingFailed
    BY <1>26, <1>0, <1>s DEF SaveThingFailed, Steps
<1>27. CASE ConnectDevice
    BY <1>27, <1>0, <1>s DEF ConnectDevice, RunsLeft, Steps
<1>28. CASE ConnectDeviceFailed
    BY <1>28, <1>0, <1>s DEF ConnectDeviceFailed, Steps
<1>29. CASE Retry
    BY <1>29, <1>0, <1>s DEF Retry, RunsLeft, Steps
<1>30. CASE Reset
    BY <1>30, <1>0, <1>s DEF Reset, Steps
<1>31. CASE UNCHANGED vars
    BY <1>31, <1>s DEF vars
<1> QED
    BY <1>1, <1>2, <1>3, <1>4, <1>5, <1>6, <1>7, <1>8, <1>9, <1>10, <1>11, <1>12, <1>13, <1>14, <1>15, <1>16, <1>17, <1>18, <1>19, <1>20, <1>21, <1>22, <1>23, <1>24, <1>25, <1>26, <1>27, <1>28, <1>29, <1>30, <1>31
       DEF Next, FpDemo

(* Every step preserves the rest of IInv. *)
LEMMA NextIInv == IInv /\ [Next]_vars => IInv'
<1> SUFFICES ASSUME IInv, [Next]_vars PROVE IInv'
    OBVIOUS
<1>t. TypeOK'
    BY NextTypeOK DEF IInv
<1>n. Present(Absent) = FALSE /\ Present(Empty) = FALSE /\ NoAnswer.api = "none"
    BY DEF Present, NoAnswer
<1> DEFINE Rest == /\ CertificateOfKey /\ NamedOnceRegistered
                   /\ Replaced /\ RunsLeft /\ BufferClear /\ AnswerOfRequest
<1> SUFFICES Rest'
    BY <1>t DEF IInv
<1> USE RunsAssumption, BoundsAssumption
    DEF IInv, TypeOK, CertificateOfKey, NamedOnceRegistered, Replaced, RunsLeft, BufferClear,
        AnswerOfRequest, Go, Fault, objects, thing, cloud, bounds
<1>1. CASE UseStored
    BY <1>1, <1>n DEF UseStored, Objects, Present, Absent, Empty
<1>2. CASE Provision
    BY <1>2, <1>n DEF Provision, Objects, Present, Absent, Empty
<1>3. CASE OpenFailed
    BY <1>3, <1>n DEF OpenFailed, Objects, Present, Absent, Empty
<1>4. CASE Destroy
    BY <1>4, <1>n DEF Destroy, DestroyCertificateAndKey, Destroyed, Objects, Present, Absent, Empty
<1>5. CASE Forget
    BY <1>5, <1>n DEF Forget, DestroyCertificateAndKey, Destroyed, Objects, Present, Absent, Empty
<1>6. CASE DestroyFailed
    BY <1>6, <1>n DEF DestroyFailed, Objects, Present, Absent, Empty
<1>7. CASE GenerateKey
    BY <1>7, <1>n DEF GenerateKey, Objects, Present, Absent, Empty
<1>8. CASE GenerateFailed
    BY <1>8, <1>n DEF GenerateFailed, ClearResponse, Objects, Present, Absent, Empty
<1>9. CASE SaveKey
    BY <1>9, <1>n DEF SaveKey, Objects, Present, Absent, Empty
<1>10. CASE SaveKeyFailed
    BY <1>10, <1>n DEF SaveKeyFailed, ClearResponse, Objects, Present, Absent, Empty
<1>11. CASE ConnectClaim
    BY <1>11, <1>n DEF ConnectClaim, ClearResponse, Objects, Present, Absent, Empty
<1>12. CASE ConnectClaimFailed
    BY <1>12, <1>n DEF ConnectClaimFailed, ClearResponse, Objects, Present, Absent, Empty
<1>13. CASE Subscribe
    BY <1>13, <1>n DEF Subscribe, Objects, Present, Absent, Empty
<1>14. CASE SubscribeFailed
    BY <1>14, <1>n DEF SubscribeFailed, Objects, Present, Absent, Empty
<1>15. CASE RequestCertificate
    BY <1>15, <1>n DEF RequestCertificate, Answered, Unanswered, AnswerDelayed, StrayAnswer, Answer, Answers, NoAnswer, Objects, Present, Absent, Empty
<1>16. CASE LoadCertificate
    BY <1>16, <1>n DEF LoadCertificate, Answers, NoAnswer, Objects, Present, Absent, Empty
<1>17. CASE LoadFailed
    BY <1>17, <1>n DEF LoadFailed, ClearResponse, Objects, Present, Absent, Empty
<1>18. CASE SaveCertificate
    BY <1>18, <1>n DEF SaveCertificate, AnswerOfRequest, Objects, Present, Absent, Empty
<1>19. CASE SaveCertificateFailed
    BY <1>19, <1>n DEF SaveCertificateFailed, ClearResponse, Objects, Present, Absent, Empty
<1>20. CASE Unsubscribe
    BY <1>20, <1>n DEF Unsubscribe, ClearResponse, Objects, Present, Absent, Empty
<1>21. CASE UnsubscribeFailed
    BY <1>21, <1>n DEF UnsubscribeFailed, ClearResponse, Objects, Present, Absent, Empty
<1>22. CASE RegisterThing
    BY <1>22, <1>n DEF RegisterThing, Answered, Unanswered, AnswerDelayed, StrayAnswer, Answer, NoAnswer, Objects, Present, Absent, Empty
<1>23. CASE NameThing
    BY <1>23, <1>n DEF NameThing, Objects, Present, Absent, Empty
<1>24. CASE ThingUnnamed
    BY <1>24, <1>n DEF ThingUnnamed, Objects, Present, Absent, Empty
<1>25. CASE SaveThing
    BY <1>25, <1>n DEF SaveThing, Objects, Present, Absent, Empty
<1>26. CASE SaveThingFailed
    BY <1>26, <1>n DEF SaveThingFailed, Objects, Present, Absent, Empty
<1>27. CASE ConnectDevice
    BY <1>27, <1>n DEF ConnectDevice, RunsLeft, Objects, Present, Absent, Empty
<1>28. CASE ConnectDeviceFailed
    BY <1>28, <1>n DEF ConnectDeviceFailed, Objects, Present, Absent, Empty
<1>29. CASE Retry
    BY <1>29, <1>n DEF Retry, RunsLeft, Objects, Present, Absent, Empty
<1>30. CASE Reset
    BY <1>30, <1>n DEF Reset, Objects, Present, Absent, Empty
<1>31. CASE UNCHANGED vars
    BY <1>31 DEF vars
<1> QED
    BY <1>1, <1>2, <1>3, <1>4, <1>5, <1>6, <1>7, <1>8, <1>9, <1>10, <1>11, <1>12, <1>13, <1>14, <1>15, <1>16, <1>17, <1>18, <1>19, <1>20, <1>21, <1>22, <1>23, <1>24, <1>25, <1>26, <1>27, <1>28, <1>29, <1>30, <1>31
       DEF Next, FpDemo

(* The invariant of the specification. *)
THEOREM Invariance == Spec => []IInv
BY InitIInv, NextIInv, PTL DEF Spec

(* Every variable keeps its type, and no more runs are made than allowed. *)
THEOREM TypeCorrect == Spec => []TypeOK
BY Invariance, PTL DEF IInv

(* A certificate is never stored beside the key of another, at whatever step a
   run fails or a reset comes, unless an answer arrives late. *)
THEOREM CertificateMatches == Spec => []CertificateOfKey
BY Invariance, PTL DEF IInv

(* The thing gets its name only once RegisterThing has activated its
   certificate, unless an answer arrives late. *)
THEOREM NamedAfterRegistration == Spec => []NamedOnceRegistered
BY Invariance, PTL DEF IInv

------------------------------------------------------------------------------
(* Why the device gives up.  Until the second mishap, each state is one of    *)
(* four: nothing has gone wrong yet; nothing can go wrong any more; an object *)
(* is empty; or there is a run in hand, in which an answer to the run before  *)
(* may still turn up.  The argument needs three runs: one that fails, one     *)
(* that is given the certificate of its predecessor, and one that succeeds.   *)

Mishaps == faults + resets

NoneEmpty == Empty \notin {key, cert}

BeforeRequest ==
    {"destroyKey", "destroyCert", "generate", "saveKey", "connectClaim", "subscribe",
     "requestCertificate"}

(* The key of this run has been saved. *)
KeySaved ==
    pc \in {"connectClaim", "subscribe", "requestCertificate", "parseCertificate",
            "saveCertificate"} => key = made

(* Without another mishap, this run ends with a connection. *)
OnCourse ==
    /\ pc \notin {"forgetKey", "forgetCert", "close"} /\ result # "failure"
    /\ pc = "open" => NoneEmpty /\ (AllStored => Accepted)
    /\ pc \in {"open"} \cup BeforeRequest => stray.api # "csr"
    /\ KeySaved
    /\ pc = "parseCertificate" => response # NoAnswer /\ response.key = made
    /\ pc = "saveCertificate" => received = made
    /\ pc \in {"unsubscribe", "register"} => key = received /\ cert = received
    /\ pc = "parseThing" => response # NoAnswer
    /\ pc \in {"parseThing", "saveThing", "connectDevice"} => Accepted

(* Nothing has gone wrong: it is the first run, the name comes last, and a file
   is empty only while it is being written. *)
Flawless ==
    /\ OnCourse
    /\ stray = NoAnswer /\ (pc # "done" => run = 0)
    /\ named => Accepted
    /\ saved \/ pc = "saveThing" => named
    /\ pc \in BeforeRequest \cup {"parseCertificate", "saveCertificate", "unsubscribe",
                                  "register", "parseThing"} => ~named
    /\ key = Empty => pc = "saveKey"
    /\ cert = Empty => pc = "saveCertificate"

(* An object was left empty, and its run ends or has not started; the next run
   that goes on makes all anew. *)
Spoiled ==
    /\ ~NoneEmpty
    /\ stray = NoAnswer
    /\ pc \notin {"destroyKey", "destroyCert", "generate", "saveKey"}
    /\ pc \notin {"open", "close", "done"} => run = 0
    /\ pc \in {"connectClaim", "subscribe", "requestCertificate", "parseCertificate",
               "saveCertificate"} => key = Empty

(* The first run has failed, or the second one is under way and may be given the
   certificate of the first. *)
SecondChance ==
    /\ run <= 1 /\ pc # "done"
    /\ pc \in {"open", "close", "forgetKey", "forgetCert", "unsubscribe", "register",
               "parseThing", "saveThing", "connectDevice"} => NoneEmpty
    /\ pc \in {"open", "close"} => (AllStored => Accepted)
    /\ stray.api = "csr" => run = 0 \/ pc \in {"open"} \cup BeforeRequest
    /\ KeySaved
    /\ pc = "parseCertificate" /\ response = NoAnswer => run = 0 /\ cert # Empty
    /\ pc = "parseThing" /\ response = NoAnswer => run = 0 /\ ~named

Explained ==
    /\ pc # "done" => result = "none"
    /\ Mishaps = 0 => Flawless
    /\ Mishaps = 1 => OnCourse \/ Spoiled \/ SecondChance

(* The initial state is flawless. *)
LEMMA InitExplained == Init => Explained
BY DEF Init, Explained, Mishaps, Flawless, OnCourse, KeySaved, NoneEmpty, BeforeRequest,
       AllStored, Accepted, Present, NoAnswer, Answer, Absent, Empty

(* Every step, while there are three runs, leaves the failures explained. *)
LEMMA NextExplained ==
    ASSUME MaxRuns >= 3, IInv, IInv', Explained, [Next]_vars
    PROVE  Explained'
(* The types as the steps below need them. *)
<1>f. /\ faults \in Nat /\ resets \in Nat /\ faults' \in Nat /\ resets' \in Nat
      /\ run \in Nat /\ MaxRuns \in Nat
    BY RunsAssumption, BoundsAssumption DEF IInv, TypeOK
<1>t. /\ active \subseteq 1 .. made /\ made \in Nat \ {0}
      /\ Absent = 0 /\ Empty = -1 /\ NoAnswer.api = "none"
    BY DEF IInv, TypeOK, Absent, Empty, NoAnswer
<1>k. /\ key \in {Absent, Empty} \cup 1 .. made /\ cert \in {Absent, Empty} \cup 1 .. made
      /\ named \in BOOLEAN /\ saved \in BOOLEAN
    BY DEF IInv, TypeOK, Objects
<1>p. /\ Present(key) = (key # 0 /\ key # -1) /\ Present(cert) = (cert # 0 /\ cert # -1)
      /\ Present(key') = (key' # 0 /\ key' # -1) /\ Present(cert') = (cert' # 0 /\ cert' # -1)
    BY <1>t DEF Present
<1>r. Replaced /\ BufferClear /\ AnswerOfRequest
    BY DEF IInv
<1> USE <1>f, <1>t, <1>k, <1>p, <1>r
    DEF Explained, Mishaps, Flawless, OnCourse, Spoiled, SecondChance, KeySaved, NoneEmpty,
        BeforeRequest, AllStored, Accepted, Replaced, BufferClear, AnswerOfRequest,
        Go, Fault, objects, thing, cloud, bounds
<1>1. CASE UseStored
    BY <1>1 DEF UseStored
<1>2. CASE Provision
    <2>1. UNCHANGED <<run, key, cert, named, saved, made, received, stray, active, result,
                      faults, resets>> /\ pc = "open" /\ pc' = "destroyKey"
        BY <1>2 DEF Provision
    <2>2. CASE Mishaps = 0
        BY <1>2, <2>1, <2>2 DEF Provision
    <2>3. CASE Mishaps = 1
        BY <2>1, <2>3
    <2> QED
        BY <2>1, <2>2, <2>3
<1>3. CASE OpenFailed
    <2>1. UNCHANGED <<run, key, cert, named, saved, made, received, stray, active, result,
                      resets>> /\ pc = "open" /\ pc' = "close"
        BY <1>3 DEF OpenFailed
    <2>2. CASE faults' = faults + 1
        BY <2>1, <2>2
    <2>3. CASE Empty \in {key, cert} /\ faults' = faults
        BY <2>1, <2>3
    <2> QED
        BY <1>3, <2>2, <2>3 DEF OpenFailed
<1>4. CASE Destroy
    BY <1>4 DEF Destroy, DestroyCertificateAndKey, Destroyed
<1>5. CASE Forget
    BY <1>5 DEF Forget, DestroyCertificateAndKey, Destroyed
<1>6. CASE DestroyFailed
    BY <1>6 DEF DestroyFailed
<1>7. CASE GenerateKey
    BY <1>7 DEF GenerateKey
<1>8. CASE GenerateFailed
    BY <1>8 DEF GenerateFailed, ClearResponse
<1>9. CASE SaveKey
    BY <1>9 DEF SaveKey
<1>10. CASE SaveKeyFailed
    BY <1>10 DEF SaveKeyFailed, ClearResponse
<1>11. CASE ConnectClaim
    BY <1>11 DEF ConnectClaim, ClearResponse
<1>12. CASE ConnectClaimFailed
    BY <1>12 DEF ConnectClaimFailed, ClearResponse
<1>13. CASE Subscribe
    BY <1>13 DEF Subscribe
<1>14. CASE SubscribeFailed
    BY <1>14 DEF SubscribeFailed
<1>15. CASE RequestCertificate
    <2>1. UNCHANGED <<run, key, cert, named, saved, made, received, active, result,
                      resets>> /\ pc = "requestCertificate" /\ pc' = "parseCertificate"
        BY <1>15 DEF RequestCertificate
    <2>2. CASE Answered("csr", made)
        BY <2>1, <2>2 DEF Answered, Answer
    <2>3. CASE Unanswered
        BY <2>1, <2>3 DEF Unanswered
    <2>4. CASE AnswerDelayed("csr", made)
        BY <2>1, <2>4 DEF AnswerDelayed
    <2>5. CASE StrayAnswer("csr")
        <3>1. response' = stray /\ stray.api = "csr" /\ stray' = NoAnswer
            BY <2>5 DEF StrayAnswer
        <3>2. faults' = faults \/ faults' = faults + 1
            BY <2>5 DEF StrayAnswer
        <3>3. CASE faults' = faults
            BY <2>1, <3>1, <3>3
        <3>4. CASE faults' = faults + 1
            BY <2>1, <3>1, <3>4
        <3> QED
            BY <3>2, <3>3, <3>4
    <2> QED
        BY <1>15, <2>2, <2>3, <2>4, <2>5 DEF RequestCertificate
<1>16. CASE LoadCertificate
    BY <1>16 DEF LoadCertificate
<1>17. CASE LoadFailed
    <2>1. UNCHANGED <<run, key, cert, named, saved, made, received, stray, active, result,
                      resets>> /\ pc = "parseCertificate" /\ pc' = "close"
        BY <1>17 DEF LoadFailed
    <2>2. CASE faults' = faults + 1
        BY <2>1, <2>2
    <2>3. CASE response = NoAnswer /\ faults' = faults
        BY <2>1, <2>3
    <2> QED
        BY <1>17, <2>2, <2>3 DEF LoadFailed
<1>18. CASE SaveCertificate
    BY <1>18 DEF SaveCertificate
<1>19. CASE SaveCertificateFailed
    BY <1>19 DEF SaveCertificateFailed, ClearResponse
<1>20. CASE Unsubscribe
    BY <1>20 DEF Unsubscribe, ClearResponse
<1>21. CASE UnsubscribeFailed
    BY <1>21 DEF UnsubscribeFailed, ClearResponse
<1>22. CASE RegisterThing
    <2>1. UNCHANGED <<run, key, cert, named, saved, made, received, result,
                      resets>> /\ pc = "register" /\ pc' = "parseThing"
        BY <1>22 DEF RegisterThing
    <2>2. CASE Answered("register", received) /\ active' = active \cup {received}
        BY <2>1, <2>2 DEF Answered, Answer
    <2>3. CASE Unanswered /\ active' \in {active, active \cup {received}}
        BY <2>1, <2>3 DEF Unanswered
    <2>4. CASE AnswerDelayed("register", received) /\ active' = active \cup {received}
        BY <2>1, <2>4 DEF AnswerDelayed, Answer
    <2>5. CASE /\ StrayAnswer("register")
               /\ active' = active \cup {received} \/ (faults' > faults /\ UNCHANGED active)
        <3>1. response' = stray /\ stray.api = "register" /\ stray' = NoAnswer
            BY <2>5 DEF StrayAnswer
        <3>2. \/ faults' = faults /\ active' = active \cup {received}
              \/ faults' = faults + 1
            BY <2>5 DEF StrayAnswer
        <3>3. CASE faults' = faults /\ active' = active \cup {received}
            BY <2>1, <3>1, <3>3
        <3>4. CASE faults' = faults + 1
            BY <2>1, <3>1, <3>4
        <3> QED
            BY <3>2, <3>3, <3>4
    <2> QED
        BY <1>22, <2>2, <2>3, <2>4, <2>5 DEF RegisterThing
<1>23. CASE NameThing
    BY <1>23 DEF NameThing
<1>24. CASE ThingUnnamed
    BY <1>24 DEF ThingUnnamed
<1>25. CASE SaveThing
    BY <1>25 DEF SaveThing
<1>26. CASE SaveThingFailed
    BY <1>26 DEF SaveThingFailed
<1>27. CASE ConnectDevice
    BY <1>27 DEF ConnectDevice
<1>28. CASE ConnectDeviceFailed
    <2>1. UNCHANGED <<run, key, cert, named, saved, made, received, stray, active, result,
                      resets>> /\ pc = "connectDevice" /\ pc' = "forgetKey"
        BY <1>28 DEF ConnectDeviceFailed
    <2>2. CASE faults' = faults + 1
        BY <2>1, <2>2
    <2>3. CASE ~Accepted /\ faults' = faults
        BY <2>1, <2>3
    <2> QED
        BY <1>28, <2>2, <2>3 DEF ConnectDeviceFailed
<1>29. CASE Retry
    BY <1>29 DEF Retry
<1>30. CASE Reset
    BY <1>30 DEF Reset
<1>31. CASE UNCHANGED vars
    BY <1>31 DEF vars
<1> QED
    BY <1>1, <1>2, <1>3, <1>4, <1>5, <1>6, <1>7, <1>8, <1>9, <1>10, <1>11, <1>12, <1>13, <1>14, <1>15, <1>16, <1>17, <1>18, <1>19, <1>20, <1>21, <1>22, <1>23, <1>24, <1>25, <1>26, <1>27, <1>28, <1>29, <1>30, <1>31
       DEF Next, FpDemo

(* Who gives up has met two mishaps at least, or an object was left empty: it
   follows from where the states of Explained may be. *)
LEMMA ExplainedSuffices == TypeOK /\ Explained => FailureExplained
<1> SUFFICES ASSUME TypeOK, Explained, result = "failure", NoneEmpty
             PROVE  faults + resets >= 2
    BY DEF FailureExplained, NoneEmpty
<1>1. faults \in Nat /\ resets \in Nat
    BY BoundsAssumption DEF TypeOK
<1>2. Mishaps # 0
    BY DEF Explained, Flawless, OnCourse
<1>3. Mishaps # 1
    BY DEF Explained, OnCourse, Spoiled, SecondChance
<1> QED
    BY <1>1, <1>2, <1>3 DEF Mishaps

(* A single failure, lost message or reset never makes the device give up,
   unless it leaves an object empty: with three runs, the number that the code
   allows, or more. *)
THEOREM GivingUpIsExplained ==
    ASSUME MaxRuns >= 3
    PROVE  Spec => []FailureExplained
<1>1. Explained /\ IInv /\ IInv' /\ [Next]_vars => Explained'
    BY NextExplained
<1>2. IInv /\ Explained => FailureExplained
    BY ExplainedSuffices DEF IInv
<1> QED
    BY <1>1, <1>2, InitExplained, Invariance, PTL DEF Spec
================================================================================
