---------------------------- MODULE MultiTls_proofs ----------------------------
(***************************************************************************)
(* Proofs about TlsTransport and MultiTls, for any number of connections of *)
(* the agent and every length of the overlap.  What is proved of the        *)
(* transport comes first; the demo drives it only by its own steps, so that *)
(* this holds of the demo too; then the evidence the demo prints is proved  *)
(* right.                                                                   *)
(***************************************************************************)
EXTENDS MultiTls, TLAPS

------------------------------------------------------------------------------
(* The transport: for any number of connections, the handshake mutex makes the *)
(* scratch state of the process private to the connection that shakes hands.   *)

(* Who is inside the setup holds the handshake mutex, who uses the hardware holds
   mutexUseTsip, and nobody else does. *)
Held ==
    \A c \in Conns : /\ at[c] \in InSetup <=> handshake = c
                     /\ at[c] \in {"crypto", "record"} <=> tsip = c

(* The hardware is used only with a key of its own. *)
KeyOfPlace ==
    \A c \in Conns : /\ at[c] \in {"verify", "crypto", "send", "record"} => key[c] = "tsip"
                     /\ at[c] = "random" => key[c] = "software"

(* The endpoint flag is changed only while a random number is drawn, and what the
   drawing connection saved is what it found. *)
FlagRestored ==
    /\ (\A c \in Conns : at[c] # "random") => endpoint = "client"
    /\ \A c \in Conns : at[c] = "random" => saved[c] = "client"

(* The verified root key belongs to the connection in the handshake, or to none. *)
RootOfHandshake ==
    \A c \in Conns : at[c] \in {"handshake", "crypto", "random"} =>
        /\ key[c] \in {"tsip", "software"}
        /\ key[c] = "tsip" => rootKey \in {c, NoConn}
        /\ key[c] = "software" => rootKey = NoConn

TlsInv == TlsTypeOK /\ Held /\ KeyOfPlace /\ FlagRestored /\ RootOfHandshake

LEMMA TlsInitInv == TlsInit => TlsInv
BY NoConnAssumption
   DEF TlsInit, TlsInv, TlsTypeOK, Held, KeyOfPlace, FlagRestored, RootOfHandshake,
       Places, Keys, Endpoints, InSetup

(* The step of every action of the transport keeps the invariant. *)
LEMMA TlsStepInv ==
    ASSUME TlsInv, NEW c \in Conns,
           \/ TlsStep(c) \/ TcpConnect(c) \/ SendRecord(c) \/ Disconnect(c)
    PROVE  TlsInv'
<1> USE NoConnAssumption DEF TlsInv, TlsTypeOK, Held, KeyOfPlace, FlagRestored,
        RootOfHandshake, Places, Keys, Endpoints, InSetup, Move
<1>1. CASE TcpConnect(c) BY <1>1 DEF TcpConnect
<1>2. CASE LockHandshake(c) BY <1>2 DEF LockHandshake
<1>3. CASE UseTsipKey(c) BY <1>3 DEF UseTsipKey
<1>4. CASE UseSoftwareKey(c) BY <1>4 DEF UseSoftwareKey
<1>5. CASE VerifyRootCa(c) BY <1>5 DEF VerifyRootCa
<1>6. CASE HandshakeCrypto(c) BY <1>6 DEF HandshakeCrypto
<1>7. CASE CryptoDone(c) BY <1>7 DEF CryptoDone
<1>8. CASE RandomBegin(c) BY <1>8 DEF RandomBegin
<1>9. CASE RandomEnd(c) BY <1>9 DEF RandomEnd
<1>10. CASE HandshakeDone(c) BY <1>10 DEF HandshakeDone
<1>11. CASE ConnectFails(c) BY <1>11 DEF ConnectFails
<1>12. CASE SendRecord(c) BY <1>12 DEF SendRecord
<1>13. CASE TakeTsip(c) BY <1>13 DEF TakeTsip
<1>14. CASE RecordDone(c) BY <1>14 DEF RecordDone
<1>15. CASE Disconnect(c) BY <1>15 DEF Disconnect
<1> QED BY <1>1, <1>2, <1>3, <1>4, <1>5, <1>6, <1>7, <1>8, <1>9, <1>10, <1>11, <1>12,
           <1>13, <1>14, <1>15 DEF TlsStep

(* The inductive invariant holds of every behaviour of the transport. *)
THEOREM TlsInvariance == TlsSpec => []TlsInv
<1>1. TlsInit => TlsInv BY TlsInitInv
<1>2. TlsInv /\ [TlsNext]_tlsVars => TlsInv'
  <2> SUFFICES ASSUME TlsInv, [TlsNext]_tlsVars PROVE TlsInv' OBVIOUS
  <2>1. CASE TlsNext BY <2>1, TlsStepInv DEF TlsNext
  <2>2. CASE UNCHANGED tlsVars
    BY <2>2 DEF tlsVars, TlsInv, TlsTypeOK, Held, KeyOfPlace, FlagRestored,
                RootOfHandshake
  <2> QED BY <2>1, <2>2
<1> QED BY <1>1, <1>2, PTL DEF TlsSpec

(* What the invariant says of a state: the scratch state is the owner's, and one
   task at most is in a procedure of the hardware. *)
LEMMA TlsInvMeans == TlsInv => TlsTypeOK /\ ScratchIsOwners /\ OneTsipUser
<1> SUFFICES ASSUME TlsInv PROVE TlsTypeOK /\ ScratchIsOwners /\ OneTsipUser OBVIOUS
<1>1. TlsTypeOK BY DEF TlsInv
<1>2. ScratchIsOwners
  <2> SUFFICES ASSUME NEW c \in Conns
               PROVE  /\ at[c] \in {"handshake", "crypto"} /\ key[c] = "tsip" =>
                             rootKey \in {c, NoConn} /\ endpoint = "client"
                      /\ at[c] \in {"handshake", "random"} /\ key[c] = "software" =>
                             rootKey = NoConn
    BY DEF ScratchIsOwners
  <2>1. at[c] \in {"handshake", "crypto"} => \A d \in Conns : at[d] # "random"
    BY NoConnAssumption DEF TlsInv, Held, InSetup
  <2> QED BY <2>1 DEF TlsInv, FlagRestored, RootOfHandshake
<1>3. OneTsipUser BY DEF TlsInv, Held, OneTsipUser
<1> QED BY <1>1, <1>2, <1>3

(* While a connection shakes hands, the root key the hardware verified is its own
   or none, and the endpoint flag is not another connection's. *)
THEOREM ScratchIsPrivate == TlsSpec => []ScratchIsOwners
BY TlsInvariance, TlsInvMeans, PTL

(* No two tasks are inside a procedure of the TSIP at the same time. *)
THEOREM TsipIsExclusive == TlsSpec => []OneTsipUser
BY TlsInvariance, TlsInvMeans, PTL

------------------------------------------------------------------------------
(* The demo *)

(* The places in which session 2 was reported up and not yet down, and those in
   which its task owns an established connection. *)
ReportedPlaces == {"publish", "received", "decide", "down"}
OwningPlaces == ReportedPlaces \cup {"report", "close"}

SecondaryConsistent ==
    /\ up[Secondary] <=> task2 \in ReportedPlaces
    /\ task2 \in OwningPlaces => Established(Secondary)

(* The forced reconnect is requested once, before it is observed. *)
ReconnectConsistent ==
    /\ requested \/ observed => forced
    /\ ~(requested /\ observed)
    /\ complete => observed

(* What the heartbeat task believes of session 1 and of the agent's generation. *)
BeatConsistent ==
    /\ wasUp <=> up[Primary]
    /\ Connected => gen >= 1
    /\ IF beat = "start" THEN ~subscribed /\ ~wasUp ELSE gen >= 1
    /\ inFlight => gen >= 1
    /\ seen <= gen /\ ownGen <= gen
    /\ wasUp => ownGen >= 1
    /\ beat = "reconnected" => gen >= 2
    /\ beat = "lost" => ~Connected \/ gen >= 2
    /\ beat \in {"reconnected", "report"} => seen >= 1
    /\ beat = "subscribe" /\ ~wasUp => seen >= 1
    /\ beat \in {"publish", "reconnected", "lost"} => wasUp
    /\ beat = "report" => ~wasUp
    /\ beat = "poll" /\ subscribed => wasUp

Announced ==
    /\ bothUp <=> \A c \in Conns : up[c]
    /\ gen <= 1 /\ Connected /\ inFlight => up[Primary]

Inv ==
    /\ TypeOK /\ TlsInv
    /\ SecondaryConsistent /\ ReconnectConsistent /\ BeatConsistent /\ Announced

------------------------------------------------------------------------------
(* The demo and the transport *)

(* A step of the demo is a step of the transport, or leaves it alone. *)
LEMMA StepIsTlsStep == [Next]_vars => [TlsNext]_tlsVars
<1> SUFFICES ASSUME [Next]_vars PROVE [TlsNext]_tlsVars OBVIOUS
<1> USE SessionsAssumption DEF TlsNext
<1>1. CASE Transport BY <1>1 DEF Transport
<1>2. CASE Agent
    BY <1>2 DEF Agent, AgentConnect, AgentConnected, AgentLost, AgentDisconnect,
        AgentRecord, PrimaryHeard, PrimaryMaybeComplete
<1>3. CASE HeartbeatTask
    BY <1>3 DEF HeartbeatTask, PrimaryStart, PrimaryPoll, PrimaryReportDown,
        PrimarySubscribe, PrimaryReportUp, PrimaryPublish
<1>4. CASE SecondaryTask
    BY <1>4 DEF SecondaryTask, SecondaryStart, SecondaryConnect, SecondaryConnected,
        SecondaryReportUp, SecondaryHeard, SecondaryMaybeComplete, Published,
        PublishFails, Decide, ForceReconnect,
        SecondaryReportDown, SecondaryDisconnect, SecondaryRecord
<1>5. CASE Tick BY <1>5 DEF Tick
<1>6. CASE UNCHANGED vars BY <1>6 DEF vars
<1> QED BY <1>1, <1>2, <1>3, <1>4, <1>5, <1>6 DEF Next

(* The demo implements the transport: every theorem about the transport is one
   about the demo. *)
THEOREM DemoUsesTransport == Spec => TlsSpec
<1>1. Init => TlsInit BY DEF Init
<1> QED BY <1>1, StepIsTlsStep, PTL DEF Spec, TlsSpec

(* While a session of the demo shakes hands, the scratch state of the process is
   its own. *)
THEOREM ScratchOfSessions == Spec => []ScratchIsOwners
BY DemoUsesTransport, ScratchIsPrivate, PTL

------------------------------------------------------------------------------
(* The evidence *)

LEMMA InitInv == Init => Inv
<1> SUFFICES ASSUME Init PROVE Inv OBVIOUS
<1> USE SessionsAssumption, OverlapAssumption DEF Init
<1>1. TlsInv BY TlsInitInv
<1>2. TypeOK
  <2>1. 0 \in 0..MaxGenerations /\ 0 \in 0..MinOverlap OBVIOUS
  <2>2. up \in [Conns -> BOOLEAN] OBVIOUS
  <2> QED BY <1>1, <2>1, <2>2 DEF TypeOK, TlsInv, AgentPlaces, BeatPlaces, Task2Places
<1>3. SecondaryConsistent BY DEF SecondaryConsistent, ReportedPlaces, OwningPlaces
<1>4. ReconnectConsistent BY DEF ReconnectConsistent
<1>5. BeatConsistent BY DEF BeatConsistent, Connected
<1>6. Announced BY DEF Announced, Connected
<1> QED BY <1>1, <1>2, <1>3, <1>4, <1>5, <1>6 DEF Inv

(* What the demo keeps besides the transport's own invariant. *)
DemoInv == SecondaryConsistent /\ ReconnectConsistent /\ BeatConsistent /\ Announced

LEMMA TransportKeeps ==
    ASSUME Inv, TlsInv', Transport
    PROVE  TypeOK' /\ DemoInv'
<1> PICK c \in Conns : TlsStep(c) /\ UNCHANGED demoVars BY DEF Transport
<1>1. Established(Secondary) => Established(Secondary)'
    BY SessionsAssumption
       DEF Inv, TlsInv, TlsTypeOK, Established, TlsStep, LockHandshake, UseTsipKey,
           UseSoftwareKey, VerifyRootCa, HandshakeCrypto, CryptoDone, RandomBegin,
           RandomEnd, HandshakeDone, ConnectFails, TakeTsip, RecordDone, Move
<1> QED BY <1>1
       DEF Inv, TlsInv, TypeOK, DemoInv, demoVars, agentVars, beatVars, countVars, taskVars,
           evidenceVars, SecondaryConsistent, ReconnectConsistent, BeatConsistent,
           Announced, Connected

LEMMA AgentKeeps ==
    ASSUME Inv, TlsInv', Agent
    PROVE  TypeOK' /\ DemoInv'
<1> USE SessionsAssumption, OverlapAssumption
    DEF Inv, TlsInv, TypeOK, DemoInv, demoVars, agentVars, beatVars, countVars, taskVars, evidenceVars,
        reconnectVars, SecondaryConsistent, ReconnectConsistent, BeatConsistent, Announced,
        Connected, AgentPlaces, tlsVars, Established, TlsTypeOK
<1>1. CASE AgentConnect BY <1>1 DEF AgentConnect, TcpConnect, Move
<1>2. CASE AgentConnected BY <1>2 DEF AgentConnected
<1>3. CASE AgentLost BY <1>3 DEF AgentLost
<1>4. CASE AgentDisconnect BY <1>4 DEF AgentDisconnect, Disconnect, Move
<1>5. CASE AgentRecord BY <1>5 DEF AgentRecord, SendRecord, Move
<1>6. CASE PrimaryHeard BY <1>6, ZenonT(60) DEF PrimaryHeard, Heard
<1>7. CASE PrimaryMaybeComplete BY <1>7 DEF PrimaryMaybeComplete, MaybeComplete
<1> QED BY <1>1, <1>2, <1>3, <1>4, <1>5, <1>6, <1>7 DEF Agent

LEMMA HeartbeatTaskKeeps ==
    ASSUME Inv, TlsInv', HeartbeatTask
    PROVE  TypeOK' /\ DemoInv'
<1> USE SessionsAssumption, OverlapAssumption
    DEF Inv, TlsInv, TypeOK, DemoInv, agentVars, beatVars, countVars, taskVars, evidenceVars,
        SecondaryConsistent, ReconnectConsistent, BeatConsistent, Announced,
        Connected, BeatPlaces, tlsVars, Established, TlsTypeOK
<1>1. CASE PrimaryStart BY <1>1 DEF PrimaryStart
<1>. gen \in Nat /\ seen \in Nat /\ ownGen \in Nat OBVIOUS
<1>2. CASE PrimaryPoll
  <2> USE <1>2 DEF PrimaryPoll
  <2>1. TypeOK' OBVIOUS
  <2>2. SecondaryConsistent' OBVIOUS
  <2>3. ReconnectConsistent' OBVIOUS
  <2>4. BeatConsistent'
    <3>1. CASE Connected /\ wasUp /\ ownGen # gen
      <4>1. gen >= 2 BY <3>1
      <4>2. beat' = "reconnected" /\ seen' = gen BY <3>1
      <4> QED BY <3>1, <4>1, <4>2
    <3>2. CASE Connected /\ ~(wasUp /\ ownGen # gen)
      <4>1. /\ beat' = (IF subscribed THEN "publish" ELSE "subscribe")
            /\ seen' = (IF wasUp /\ ownGen = gen THEN seen ELSE gen)
        BY <3>2
      <4> QED BY <3>2, <4>1
    <3>3. CASE ~Connected BY <3>3
    <3> QED BY <3>1, <3>2, <3>3
  <2>5. Announced' OBVIOUS
  <2> QED BY <2>1, <2>2, <2>3, <2>4, <2>5
<1>3. CASE PrimaryReportDown
  <2> USE <1>3 DEF PrimaryReportDown, ReportDown
  <2>1. TypeOK' OBVIOUS
  <2>2. SecondaryConsistent' OBVIOUS
  <2>3. ReconnectConsistent' OBVIOUS
  <2>4. BeatConsistent' OBVIOUS
  <2>5. Announced' OBVIOUS
  <2> QED BY <2>1, <2>2, <2>3, <2>4, <2>5
<1>4. CASE PrimarySubscribe
  <2> USE <1>4 DEF PrimarySubscribe
  <2>1. TypeOK' OBVIOUS
  <2>2. SecondaryConsistent' OBVIOUS
  <2>3. ReconnectConsistent' OBVIOUS
  <2>4. BeatConsistent' OBVIOUS
  <2>5. Announced' OBVIOUS
  <2> QED BY <2>1, <2>2, <2>3, <2>4, <2>5
<1>5. CASE PrimaryReportUp
  <2> USE <1>5 DEF PrimaryReportUp, ReportUp
  <2>1. TypeOK' OBVIOUS
  <2>2. SecondaryConsistent' OBVIOUS
  <2>3. ReconnectConsistent' OBVIOUS
  <2>4. BeatConsistent' OBVIOUS
  <2>5. Announced' OBVIOUS
  <2> QED BY <2>1, <2>2, <2>3, <2>4, <2>5
<1>6. CASE PrimaryPublish
  <2> USE <1>6 DEF PrimaryPublish
  <2>1. TypeOK' OBVIOUS
  <2>2. SecondaryConsistent' OBVIOUS
  <2>3. ReconnectConsistent' OBVIOUS
  <2>4. BeatConsistent' OBVIOUS
  <2>5. Announced' OBVIOUS
  <2> QED BY <2>1, <2>2, <2>3, <2>4, <2>5
<1> QED BY <1>1, <1>2, <1>3, <1>4, <1>5, <1>6 DEF HeartbeatTask

LEMMA SecondaryTaskKeeps ==
    ASSUME Inv, TlsInv', SecondaryTask
    PROVE  TypeOK' /\ DemoInv'
<1> USE SessionsAssumption, OverlapAssumption
    DEF Inv, TlsInv, TypeOK, DemoInv, demoVars, agentVars, beatVars, countVars, taskVars, evidenceVars,
        SecondaryConsistent, ReconnectConsistent, BeatConsistent, Announced, Connected,
        Task2Places, ReportedPlaces, OwningPlaces, tlsVars, Established, TlsTypeOK, Task2
<1>1. CASE SecondaryStart BY <1>1 DEF SecondaryStart
<1>2. CASE SecondaryConnect BY <1>2 DEF SecondaryConnect, TcpConnect, Move
<1>3. CASE SecondaryConnected BY <1>3 DEF SecondaryConnected
<1>4. CASE SecondaryReportUp
  <2> USE <1>4 DEF SecondaryReportUp, ReportUp
  <2>1. TypeOK'
    <3>1. age' \in 0..MinOverlap OBVIOUS
    <3>2. up' \in [Conns -> BOOLEAN] OBVIOUS
    <3>3. requested' \in BOOLEAN /\ observed' \in BOOLEAN /\ bothUp' \in BOOLEAN OBVIOUS
    <3> QED BY <3>1, <3>2, <3>3
  <2>2. SecondaryConsistent' OBVIOUS
  <2>3. ReconnectConsistent' OBVIOUS
  <2>4. BeatConsistent' OBVIOUS
  <2>5. Announced' OBVIOUS
  <2> QED BY <2>1, <2>2, <2>3, <2>4, <2>5
<1>5. CASE SecondaryHeard BY <1>5 DEF SecondaryHeard, Heard
<1>6. CASE SecondaryMaybeComplete BY <1>6 DEF SecondaryMaybeComplete, MaybeComplete
<1>7. CASE Published BY <1>7 DEF Published, MaybeComplete
<1>8. CASE PublishFails \/ Decide
  <2> USE <1>8 DEF PublishFails, Decide, ForceReconnect
  <2>1. TypeOK'
    <3>1. task2' \in Task2Places OBVIOUS
    <3>2. forced' \in BOOLEAN /\ requested' \in BOOLEAN /\ beaten' \in BOOLEAN OBVIOUS
    <3>3. UNCHANGED <<tlsVars, agentVars, beatVars, inFlight, up, bothUp, observed, heard1,
                      heard2, age, complete>>
        OBVIOUS
    <3> QED BY <3>1, <3>2, <3>3
  <2>2. SecondaryConsistent' OBVIOUS
  <2>3. ReconnectConsistent' OBVIOUS
  <2>4. BeatConsistent' OBVIOUS
  <2>5. Announced' OBVIOUS
  <2> QED BY <2>1, <2>2, <2>3, <2>4, <2>5
<1>9. CASE SecondaryReportDown
  <2> USE <1>9 DEF SecondaryReportDown, ReportDown
  <2>1. TypeOK'
    <3>1. age' \in 0..MinOverlap OBVIOUS
    <3>2. up' \in [Conns -> BOOLEAN] OBVIOUS
    <3> QED BY <3>1, <3>2
  <2>2. SecondaryConsistent' OBVIOUS
  <2>3. ReconnectConsistent' OBVIOUS
  <2>4. BeatConsistent' OBVIOUS
  <2>5. Announced' OBVIOUS
  <2> QED BY <2>1, <2>2, <2>3, <2>4, <2>5
<1>10. CASE SecondaryDisconnect BY <1>10 DEF SecondaryDisconnect, Disconnect, Move
<1>11. CASE SecondaryRecord BY <1>11 DEF SecondaryRecord, SendRecord, Move
<1> QED BY <1>1, <1>2, <1>3, <1>4, <1>5, <1>6, <1>7, <1>8, <1>9, <1>10, <1>11
       DEF SecondaryTask

LEMMA TickKeeps ==
    ASSUME Inv, TlsInv', Tick
    PROVE  TypeOK' /\ DemoInv'
BY SessionsAssumption, OverlapAssumption
   DEF Inv, TlsInv, TypeOK, DemoInv, agentVars, beatVars, countVars, taskVars, reconnectVars, Tick,
       SecondaryConsistent, ReconnectConsistent, BeatConsistent, Announced, Connected,
       tlsVars, Established, TlsTypeOK

(* The inductive invariant holds of every behaviour of the demo. *)
THEOREM Invariance == Spec => []Inv
<1>1. Init => Inv BY InitInv
<1>2. Inv /\ [Next]_vars => Inv'
  <2> SUFFICES ASSUME Inv, [Next]_vars PROVE Inv' OBVIOUS
  <2>1. TlsInv'
    <3>1. CASE TlsNext BY <3>1, TlsStepInv DEF TlsNext, Inv
    <3>2. CASE UNCHANGED tlsVars
      BY <3>2 DEF Inv, tlsVars, TlsInv, TlsTypeOK, Held, KeyOfPlace, FlagRestored,
                  RootOfHandshake
    <3> QED BY <3>1, <3>2, StepIsTlsStep
  <2>2. CASE Next
    BY <2>1, <2>2, TransportKeeps, AgentKeeps, HeartbeatTaskKeeps, SecondaryTaskKeeps,
       TickKeeps DEF Next, Inv, DemoInv
  <2>3. CASE UNCHANGED vars
    BY <2>1, <2>3
       DEF Inv, TlsInv, vars, demoVars, agentVars, beatVars, countVars, taskVars, evidenceVars,
           TypeOK, SecondaryConsistent, ReconnectConsistent, BeatConsistent, Announced,
           Connected, tlsVars, Established
  <2> QED BY <2>2, <2>3
<1> QED BY <1>1, <1>2, PTL DEF Spec

(* The model never leaves its types. *)
THEOREM TypeCorrect == Spec => []TypeOK
<1>1. Inv => TypeOK BY DEF Inv
<1> QED BY <1>1, Invariance, PTL

(* Every overlap is announced, and no heartbeat of the agent's first connection is
   printed for a session that is not up. *)
THEOREM EvidenceIsWellFormed == Spec => []EvidenceWellFormed
<1>1. Inv => EvidenceWellFormed BY DEF Inv, Announced, EvidenceWellFormed
<1> QED BY <1>1, Invariance, PTL

(* Session 2 is reported up only while its TLS connection is established. *)
THEOREM ReportsAreTrue == Spec => []ReportedIsEstablished
<1>1. Inv => ReportedIsEstablished
    BY DEF Inv, SecondaryConsistent, ReportedIsEstablished, OwningPlaces
<1> QED BY <1>1, Invariance, PTL

(* TEST_COMPLETE is printed only after the forced reconnect, or a connection that
   the network lost when it was due. *)
THEOREM CompletionIsEarned == Spec => []CompleteMeansForced
<1>1. Inv => CompleteMeansForced BY DEF Inv, ReconnectConsistent, CompleteMeansForced
<1> QED BY <1>1, Invariance, PTL
==============================================================================
