----------------------------- MODULE TlsTransport -----------------------------
(***************************************************************************)
(* The TLS transport of the boards with a TSIP security module             *)
(* (Middleware/network_transport/using_mbedtls_pkcs11_with_tsip), used by  *)
(* several connections at once.                                            *)
(*                                                                         *)
(* Two recursive mutexes order the connections: mutexTsipTlsHandshake is   *)
(* held from the setup of a connection to the end of its handshake, and    *)
(* mutexUseTsip around every use of the hardware, in a handshake and in    *)
(* the record traffic of an established connection.  Under the first the   *)
(* connections share scratch state of the process: the root key the        *)
(* hardware verified and the endpoint flag that selects hardware or        *)
(* software random numbers.                                                *)
(*                                                                         *)
(* Each connection is driven by one task.  A TCP connection that fails, and *)
(* a handshake that waits for the peer, change nothing here.  The Mbed TLS *)
(* tree with TSIP is external: a handshake uses the hardware any number of *)
(* times.                                                                  *)
(***************************************************************************)

CONSTANTS
    Conns,      \* connections, each with a network context of its own
    NoConn      \* no connection

ASSUME NoConnAssumption == NoConn \notin Conns

VARIABLES
    at,         \* where each connection is
    key,        \* the private key of each connection
    handshake,  \* holder of mutexTsipTlsHandshake
    tsip,       \* holder of mutexUseTsip
    rootKey,    \* the connection whose root key tsip_rootca_rsa_pubkey holds
                \* (NoConn: tsip_rootca_rsa_pubkey_scnt is 0)
    endpoint,   \* g_tsip_endpointflg
    saved       \* ucSavedTsipEndpoint of each connection

tlsVars == <<at, key, handshake, tsip, rootKey, endpoint, saved>>

Keys == {"none", "tsip", "software"}

Endpoints == {"client", "server"}

(* "connected" waits for the handshake mutex, "send" for the hardware. *)
Places == {"closed", "connected", "setup", "verify", "handshake", "crypto",
           "random", "up", "send", "record"}

(* Inside TLS setup, between taking and releasing the handshake mutex. *)
InSetup == {"setup", "verify", "handshake", "crypto", "random"}

(* The TLS context is established. *)
Established(c) == at[c] \in {"up", "send", "record"}

TlsInit ==
    /\ at = [c \in Conns |-> "closed"]
    /\ key = [c \in Conns |-> "none"]
    /\ handshake = NoConn
    /\ tsip = NoConn
    /\ rootKey = NoConn
    /\ endpoint = "client"
    /\ saved = [c \in Conns |-> "client"]

Move(c, place) == at' = [at EXCEPT ![c] = place]

(* The hardware is free, or the connection does not use it. *)
HardwareFree(c) == key[c] = "tsip" => tsip = NoConn

------------------------------------------------------------------------------
(* TLS_FreeRTOS_Connect *)

TcpConnect(c) ==
    /\ at[c] = "closed"
    /\ Move(c, "connected")
    /\ UNCHANGED <<key, handshake, tsip, rootKey, endpoint, saved>>

(* Fault: the setup runs outside the handshake mutex. *)
LockHandshakeNever(c) ==
    /\ at[c] = "connected"
    /\ Move(c, "setup")
    /\ UNCHANGED <<key, handshake, tsip, rootKey, endpoint, saved>>

LockHandshake(c) ==
    /\ at[c] = "connected"
    /\ handshake = NoConn
    /\ handshake' = c
    /\ Move(c, "setup")
    /\ UNCHANGED <<key, tsip, rootKey, endpoint, saved>>

(* tlsSetup: the device key of the TSIP, and the root CA to verify with it. *)
UseTsipKey(c) ==
    /\ at[c] = "setup"
    /\ key' = [key EXCEPT ![c] = "tsip"]
    /\ rootKey' = NoConn
    /\ Move(c, "verify")
    /\ UNCHANGED <<handshake, tsip, endpoint, saved>>

(* No TSIP key for this connection: a PKCS #11 key, and software TLS. *)
UseSoftwareKey(c) ==
    /\ at[c] = "setup"
    /\ key' = [key EXCEPT ![c] = "software"]
    /\ rootKey' = NoConn
    /\ Move(c, "handshake")
    /\ UNCHANGED <<handshake, tsip, endpoint, saved>>

(* A root CA the hardware does not verify is only warned about:
   TSIP_RUNTIME_ROOT_CA_VERIFY_REQUIRED is 0. *)
VerifyRootCa(c) ==
    /\ at[c] = "verify"
    /\ tsip = NoConn
    /\ rootKey' \in {c, NoConn}
    /\ Move(c, "handshake")
    /\ UNCHANGED <<key, handshake, tsip, endpoint, saved>>

(* mbedtls_ssl_handshake uses the hardware under mutexUseTsip. *)
HandshakeCrypto(c) ==
    /\ at[c] = "handshake"
    /\ key[c] = "tsip"
    /\ tsip = NoConn
    /\ tsip' = c
    /\ Move(c, "crypto")
    /\ UNCHANGED <<key, handshake, rootKey, endpoint, saved>>

CryptoDone(c) ==
    /\ at[c] = "crypto"
    /\ tsip' = NoConn
    /\ Move(c, "handshake")
    /\ UNCHANGED <<key, handshake, rootKey, endpoint, saved>>

(* generateRandomBytes of a software connection. *)
RandomBegin(c) ==
    /\ at[c] = "handshake"
    /\ key[c] = "software"
    /\ saved' = [saved EXCEPT ![c] = endpoint]
    /\ endpoint' = "server"
    /\ Move(c, "random")
    /\ UNCHANGED <<key, handshake, tsip, rootKey>>

RandomEnd(c) ==
    /\ at[c] = "random"
    /\ endpoint' = saved[c]
    /\ Move(c, "handshake")
    /\ UNCHANGED <<key, handshake, tsip, rootKey, saved>>

HandshakeDone(c) ==
    /\ at[c] = "handshake"
    /\ handshake' = NoConn
    /\ Move(c, "up")
    /\ UNCHANGED <<key, tsip, rootKey, endpoint, saved>>

(* Credentials that do not load, or a handshake that fails: the contexts are
   freed, the mutex released and the socket disconnected. *)
ConnectFails(c) ==
    /\ at[c] \in {"setup", "verify", "handshake"}
    /\ handshake' = NoConn
    /\ key' = [key EXCEPT ![c] = "none"]
    /\ Move(c, "closed")
    /\ UNCHANGED <<tsip, rootKey, endpoint, saved>>

------------------------------------------------------------------------------
(* TLS_FreeRTOS_send, TLS_FreeRTOS_recv, TLS_FreeRTOS_Disconnect *)

(* A record is encrypted or decrypted by the hardware. *)
SendRecord(c) ==
    /\ at[c] = "up"
    /\ key[c] = "tsip"
    /\ Move(c, "send")
    /\ UNCHANGED <<key, handshake, tsip, rootKey, endpoint, saved>>

(* Fault: record traffic waits for the handshake mutex, too. *)
TakeTsipInOrder(c) ==
    /\ at[c] = "send"
    /\ handshake = NoConn /\ tsip = NoConn
    /\ tsip' = c
    /\ Move(c, "record")
    /\ UNCHANGED <<key, handshake, rootKey, endpoint, saved>>

TakeTsip(c) ==
    /\ at[c] = "send"
    /\ tsip = NoConn
    /\ tsip' = c
    /\ Move(c, "record")
    /\ UNCHANGED <<key, handshake, rootKey, endpoint, saved>>

RecordDone(c) ==
    /\ at[c] = "record"
    /\ tsip' = NoConn
    /\ Move(c, "up")
    /\ UNCHANGED <<key, handshake, rootKey, endpoint, saved>>

(* The close-notify is a record, too. *)
Disconnect(c) ==
    /\ at[c] = "up"
    /\ HardwareFree(c)
    /\ key' = [key EXCEPT ![c] = "none"]
    /\ Move(c, "closed")
    /\ UNCHANGED <<handshake, tsip, rootKey, endpoint, saved>>

------------------------------------------------------------------------------
(* Steps of a task inside the transport; its callers take the others. *)
TlsStep(c) ==
    \/ LockHandshake(c) \/ UseTsipKey(c) \/ UseSoftwareKey(c) \/ VerifyRootCa(c)
    \/ HandshakeCrypto(c) \/ CryptoDone(c) \/ RandomBegin(c) \/ RandomEnd(c)
    \/ HandshakeDone(c) \/ ConnectFails(c) \/ TakeTsip(c) \/ RecordDone(c)

TlsNext ==
    \E c \in Conns : TlsStep(c) \/ TcpConnect(c) \/ SendRecord(c) \/ Disconnect(c)

TlsSpec == TlsInit /\ [][TlsNext]_tlsVars

(* The hardware completes what it started, and a task that waits for a mutex
   which is released again and again gets it.  The peer of a handshake owes
   nothing. *)
TlsFairness ==
    \A c \in Conns : /\ WF_tlsVars(CryptoDone(c)) /\ WF_tlsVars(RecordDone(c))
                     /\ SF_tlsVars(TakeTsip(c))

------------------------------------------------------------------------------
(* Properties *)

TlsTypeOK ==
    /\ at \in [Conns -> Places]
    /\ key \in [Conns -> Keys]
    /\ handshake \in Conns \cup {NoConn}
    /\ tsip \in Conns \cup {NoConn}
    /\ rootKey \in Conns \cup {NoConn}
    /\ endpoint \in Endpoints
    /\ saved \in [Conns -> Endpoints]

(* While a connection shakes hands, the scratch state of the process is its own:
   with a TSIP key the root key is the one it verified or none and the endpoint
   flag selects the hardware, with a software key there is no root key at all. *)
ScratchIsOwners ==
    \A c \in Conns :
        /\ at[c] \in {"handshake", "crypto"} /\ key[c] = "tsip" =>
               rootKey \in {c, NoConn} /\ endpoint = "client"
        /\ at[c] \in {"handshake", "random"} /\ key[c] = "software" => rootKey = NoConn

(* At most one task is inside a procedure of the TSIP. *)
OneTsipUser ==
    \A c, d \in Conns :
        at[c] \in {"crypto", "record"} /\ at[d] \in {"crypto", "record"} => c = d

(* An established connection that sends or receives a record gets it done even
   while the handshake of another connection never ends. *)
TrafficContinues(c) == at[c] = "send" ~> at[c] = "up"
==============================================================================
