# Verification of iot-reference-rx

TLA+ models of the Renesas RX reference integration of FreeRTOS and AWS IoT
(over-the-air update from download to self test, MQTT agent, flash access, key
value store, fleet provisioning, TLS over a shared security module), the TLC
runs that check them on small instances, and theorems about them that TLAPS
proves for every value of the constants.  Paths are relative to the root of
the repository; `FP`, `DEMO`, `TLS`, `MT` below stand for
`FleetProvisioningDemoExample.c`, `OtaOverMqttDemo.c`,
`transport_mbedtls_pkcs11_with_tsip.c` and `multi_tls_demo.c`.

## 1. Inventory

The firmware is a FreeRTOS application.  Its own logic is in `src/Demos` and
`src/Common`; `src/Middleware` and `src/Projects` are third-party code, ports,
generated configuration and start-up code.

| Component | State it keeps | Operations | Interacts with |
|---|---|---|---|
| Flash sequencer access (`Common/common_api/r_common_api_flash.c`, its users in `ota_pal.c`) | one binary semaphore, one status word, the sequencer | take, erase/write/blank check, completion interrupt, give | every task that writes flash; littlefs uses the driver without the semaphore |
| OTA platform layer (`Common/ports/ota_pal/ota_pal.c`) | flash queue, count of pending blocks, error flag, bytes received, image state, buffer area | create, write block, close (verify), abort, erase, activate, get/set image state; the flash task | OTA agent above, flash access below, key value store for the image state |
| OTA agent (`Demos/OtaOverMqtt`) | agent state, event queue, data buffers, job document, download offsets and bitmap | one handler per event, one per incoming message, a timeout | MQTT agent task (callbacks), platform layer (calls), AWS IoT Jobs and streams |
| Self test and version check (`OtaOverMqttDemo.c`) | what the two banks hold, the version saved in the job, the event bit that starts the demos | check the version, accept, fail, try to go back, save the version, activate, reset | AWS IoT Jobs, platform layer, boot loader, every demo that waits for the bit |
| MQTT agent task (`Demos/mqtt_agent`, `Demos/common/mqtt-agent-interface`) | agent state, subscription table, command queue and pool, connection | connect, command loop, reconnect, resubscribe, fan-out of messages | every MQTT client of the device; coreMQTT-Agent (submodule) |
| MQTT wrapper and pub/sub demo (`Demos/common/mqtt-wrapper`, `Demos/SimplePubSub`) | calls in progress | publish, subscribe, unsubscribe and wait for the answer | MQTT agent task by commands and task notifications |
| Key value store (`Demos/cli/store.c`) and its console commands | RAM cache with pending flags, one file or PKCS #11 object per key, open sessions | get, set, commit, format, reset | littlefs; PKCS #11; console; OTA platform layer; fleet provisioning |
| littlefs adapter (`Common/littlefs_common`) | one plain mutex, the file system | lock, file operations, unlock | data flash, flash access |
| Fleet provisioning (`Demos/Fleet_Provisioning_With_CSR_Demo`) | key, certificate and name of the thing, a buffer for the answers, a count of runs | look for credentials, make a key, request a certificate, register, try, forget | AWS IoT, PKCS #11, key value store, the MQTT agent task that waits for its end |
| TLS transport with TSIP (`Middleware/network_transport/using_mbedtls_pkcs11_with_tsip`, `Demos/tsip_provisioning`) | two mutexes, the verified root key, the endpoint flag, one context per connection | connect, send, receive, disconnect | every connection; the TSIP security module |
| Multi TLS demo (`Demos/multi_tls`) | what two sessions know of each other, under a mutex | heartbeat task, task of session 2, callbacks, markers | MQTT agent task, TLS transport, `tools/ci/monitor_multi_tls.py` |
| TSIP access (`Common/common_api/r_common_api_tsip.c`) | a status word: closed, running, open | open, close | TLS set-up, entropy; not modelled, see section 8 |
| Input and output of the console, TLS benchmarks, ports, boards, middleware, tests | | | not modelled, see section 8 |

What is hard here: a binary semaphore that means both "free" and "done", given
by an interrupt; a flash task of idle priority between a call that returned and
the write it promised; an event queue whose events outlive the job they were
queued for; one set of buffers shared by two tasks without a lock; blocks that
are lost, late or duplicated; an OTA job canceled, failed or restarted at any
moment; calls whose failure is logged and ignored; an image that has to judge
itself from a version that went through the cloud, over resets; commands that
refer to the stack of the task that waits for them while the connection is lost
and resumed; values that are removed before they are written again; three files
that are credentials only together; a handshake without a time limit that shares
the scratch state of the process and one piece of hardware with established
connections.  `PROJECT.json` lists the hazards by line.

### What makes each part correct

- **Flash access**: one operation at a time; a task that waited returns only
  after its own operation; the semaphore always comes back; the status word the
  interrupt compares with is that of the operation that ended.
- **Platform layer**: nothing is written into the area after the file that asked
  for it was closed; an accepted image is exactly what was signed and stays so
  until the banks are swapped; a block that could not be written is known by the
  error flag, or by the signature check, and never becomes part of an accepted
  image; every call returns.
- **OTA agent**: no data buffer is lost, and none is taken from the event that
  points to it but by the one function that frees them all; the close happens
  exactly when the image is complete; only a verified image is activated; a job
  does not hang while its topic is subscribed; after a failure the next job is
  requested.
- **Self test**: the device boots, but for one order of events (section 7); a job
  succeeds only when its own image runs, has passed its self test and is newer;
  the demos start only then; the result is reported in the end, unless a request
  for a document is lost.
- **MQTT agent and its clients**: every command is answered exactly once, while
  the task that owns its memory waits; no command structure is lost, and the
  resubscription finds one as long as the pool has one for each session lost; the
  table names no topic of a task that is gone; managed subscriptions survive a
  reconnection.
- **Key value store**: a commit writes the changes in their order and loses at
  most the one in hand; what is not marked as a change is stored.
- **Fleet provisioning**: a certificate is never stored beside the key of
  another; the thing is named only once it is registered; one failure is made
  good by the retries; the MQTT agent task is released, unless a handshake never
  ends.
- **TLS transport**: the scratch state of the process belongs to the connection
  that shakes hands; record traffic never waits for a handshake.
- **Multi TLS demo**: its markers are true of the connections and in the order
  that the monitor accepts; only a reconnect made when the forced one was due
  counts; a reconnect between two polls is noticed.

## 2. Plan

Order of the modules, most important behaviour first:

| Step | Modules | State |
|---|---|---|
| 1 | `FlashAccess`, `FlashAccess_proofs` | done |
| 2 | `ImageStore` (abstract), `OtaPal`, `OtaPal_proofs` | done |
| 3 | `OtaAgent`, `OtaAgent_proofs` | done |
| 4 | `MqttSession`, `MqttSession_proofs` | done, except what section 8 lists |
| 5 | `OtaBoot`, `OtaBoot_proofs` | done |
| 6 | `KeyValueStore`, `KeyValueStore_proofs` | done |
| 7 | `FleetProvisioning`, `FleetProvisioning_proofs` | done |
| 8 | `TlsTransport`; `MultiTls`, which composes the demo with the transport; `MultiTls_proofs` about both | done |
| 9 | `TsipProvisioning`: the wrapped keys, their files and the driver that is closed and opened again in the first TLS set-up | planned |
| 10 | the fan-out of messages to several topics per task in `MqttSession`, with a full subscription table | planned |
| 11 | in `OtaAgent_proofs`: how many events the queue holds at most, which would remove the condition of `NoBufferIsLost` | planned |

Composition: `OtaAgent` uses of `OtaPal` only what `ImageStore` promises,
`OtaPal` is shown to implement `ImageStore`, and the assumption `OtaPal` makes
of its caller (a block is written, and an image activated, only for an open
and a verified file) is checked in `OtaAgent` (`WritesToOpenFile`,
`ActivateOnlyVerified`).  Both hold while no block is rejected, and the first
while every file is created; that `otaPal_WriteBlock` may otherwise be called with
no file open is left out of `OtaPal`.  `OtaBoot` takes the whole download as few steps,
which `OtaAgent` details: the buffer bank holds the image of the job, the close
fails, or a block is rejected and the download goes on.  `OtaPal` uses of
`FlashAccess` that a write or erase that returned is over (`OwnOperationOver`).
`OtaAgent` uses of `MqttSession` that a call of the wrapper is answered
(`CallsAnswered`).  The task that makes the first connection in `MqttSession`
relies on `AgentReleased` of `FleetProvisioning`.
`MultiTls` extends `TlsTransport` and is checked and proved together with it.

The state spaces of the other modules multiply, so they are composed by the
promise of the one and the assumption of the other, and not in one run.

## 3. Modules and code

Definitions keep the names of the code where they stand for one function.
`PROJECT.json` gives the lines of every definition.  Operators introduced by
"Fault:" are wrong variants of the definition that follows them; no
specification uses them, and they are kept to show that a property notices such
a mistake.

### FlashAccess

`sem` is `xSemaphoreFlashAccess`, `status` is `update_data_flash_control_block`,
`hw` is the task whose operation the sequencer executes.  `TakeAccess`,
`Announce`, `Start` or `Refuse`, `TakeCompletion` and `GiveBack` are the steps of
`prvEraseBufferArea` and `prvWriteFlashBlocking` between which another task or
the interrupt can run.  `flashing_callback` is the interrupt.  `LittlefsStart`
and `LittlefsDone` are operations of the littlefs adapter, which takes no
semaphore but ends in the same interrupt.  **Assumption**: none of them overlaps
an operation of the OTA tasks.  The code provides it by deleting the console
before the demos start (`main.c`) and by persisting the image state only when
the flash queue is drained; that reading a file does not use the sequencer is
assumed of the adapter, whose source is not in the repository.

### OtaPal and ImageStore

`pc` is where the calling task is in an entry point, between two of which the
flash task (`ReceiveBlock`, `ProgramBlock`) may run.  `queue`, `inHand`,
`pending`, `error` and `received` are the variables of `ota_pal.c`; `flash` is the
buffer area, its blocks and the image header (`Header`), each of which is erased,
what was signed, or something else; `file`, `sig` and `accepted` are what the
caller knows.  An operation of the driver may be refused, which raises the error
flag, or be accepted and fail in the background: the completion interrupt
records that, and nobody looks.  So `EraseBufferArea` reports an area as erased
that is so only in part (`PartlyErased`), `Programmed` may leave a block as it
was, erased perhaps, which the history variable `unseen` remembers for
`AcceptedNotLost`, and `WriteImageHeader` may leave the header erased.  The
signature check is what keeps such an image from being accepted.  It is modelled
by what it does: it accepts exactly the signed image, or fails.  `PowerLoss`
leaves the block in hand, the header, or any part of an erase, half done.
`ImageStore` is the promise in two variables and five actions: a file may be opened
on an area that is not erased, but only the whole image is ever accepted.

### OtaAgent

Two tasks: `Deliver(m)` is `otaDemo_handleIncomingMQTTMessage`, run by the MQTT
agent task, and `AgentTask` is one pass of the event loop of the agent task,
with one action per event and per way through its handler.  `net` is what is
on its way to the device: messages are delivered in any order, and a block that
was requested twice may arrive twice.  `subs` is what the broker knows of: a call
of the wrapper that finds no connection changes nothing, and the agent looks at
no result, so `Subscribe` and `Unsubscribe` may leave any of their topics
undone, and `LoseSession` takes subscriptions away.  `MaxLost` counts all of
these: messages, requests, updates, calls and sessions.  A subscription that the
broker refuses stops the task, at the assertion of `mqttWrapper_subscribe`
(`SubscriptionRefused`).  What a message is compared with is the topic buffers
of the agent and not what is subscribed (`Unhandled`): the MQTT agent task hands
on whatever matches no callback, so blocks that come after the unsubscription are
taken, in the five seconds after a cancellation too.  The cloud is external:
jobs are created in their order and may be canceled while they are in
progress.  `Failures` says which operations of the device may fail.  `content` is
the buffer area as `ImageStore` has it, with the job each block came from.

### MqttSession

`agent` is where `prvMQTTAgentTask` is; `queue` and `pool` are the FreeRTOS
queue of commands and the free structures; `awaiting` are the commands the
agent sent that await an acknowledgment, in order; `table` and `resubTopics`
are `xTopicFilterSubscriptions` and the static list of `prvHandleResubscribe`.
`pc` is where each client is: tasks of the pub/sub demo live through
`vSimpleSubscribePublishTask`, callers of the wrapper call it again and again.
`ProcessCommand`, `SendFails`, `ReceiveAck` and `ResumeSession` are what the code
expects of coreMQTT-Agent, a submodule: commands are sent in order, a lost
connection ends the loop, and resuming cancels what was not acknowledged except
publishes of a session that is still there.  Between the end of the loop and
`LeaveLoop` the state the other tasks read is still "connected", so a task whose
command failed with the connection may queue the next one at once.  The broker
may refuse a subscription: a demo task tries again, a caller of the wrapper stops
at the assertion of `mqttWrapper_subscribe`, a resubscription is dropped.  When
the pool is empty, a call fails after its block time (`CallFails`,
`WrapperPublishFails`), and the agent, which does not wait, makes another
connection without having subscribed again (`ResubscribeFails`).

### OtaBoot

What survives a reset is `active` and `buffer`, the images in the two banks, and
what the cloud remembers of each job: `status`, and in `updater` the version of
the image that downloaded it.  `pc` is where the OTA agent task is, `doc`,
`globalJob` and `fields` are `jobDocBuffer`, `globalJobId` and `jobFields`, of
which a cleared one has the file size 0 (`FileSizeValid`); `demos` is the event bit
`SELF_TEST_PASSED`.  A version goes into the job as eight hexadecimal digits and
comes back through `strtol`, which saturates (`HexText`, `Strtol`).
`VerifyVersion` is `verifyVersion`; the actions after it are the branches of
`receivedJobDocumentHandler`, one per state-changing call.  `release` chooses for
each image its version and whether `OtaSelfTest` passes.  `Download` stands for all
of a download that succeeds, `CloseRejected` for one whose file is not accepted.
After `RejectBlock` the job is reported as failed and the next document is
requested, but nothing ends the download: `rejected` says whether it goes on, is
verified (`RejectedVerified`, the event that activates it is queued), or is
verified and then erased by the next job ("overtaken"); it may also end with a
close that fails (`RejectedClosed`) or be activated (`RejectedActivated`).  A
power loss may come between any two steps, status updates may be lost, and
toggling may fail.  A request for a document, or its answer, may be lost
(`RequestLost`); nobody repeats it.  **External**: the boot loader starts
what the active bank holds; the sources of the boot loaders in the repository
are stubs.

### KeyValueStore

`cache` is `gKeyValueStore.table`, `file` the file of each key: a value, empty
between opening and closing, or absent.  `Kind` says whether a key is a plain
file, a device credential, which `xPreProvisionDevice` converts after it has
destroyed the old object, or a claim credential, which is converted first.
`step` is where `KVStore_xCommitChanges` is with `KeyInHand`, the first key that
is pending; `Remove`, `Convert`, `Open`, `Write` are its steps, each with its
failure, and `Reset` comes between any two.  `Get` drops a pending change and may
leave a session open, as the code does.  `old`, `target` and `doubt` are history
for the properties.  **External**: littlefs makes a file exist when it is opened
and holds its data when it is closed.

### FleetProvisioning

`pc` is where `prvFpDemo_start` is, `run` its count of attempts.  Keys are
numbered as they are made; a certificate has the number of its key, so that
`cert = key` says they belong together.  `named` and `saved` are the name of the
thing in the cache and in its file.  `response` is `pucResponseBuffer`, into which
the callback puts whatever answer arrives; `stray` is one answer that missed its
time and may reach a later connection (the topics of the two requests are the
same for every run).  Every call may fail, `Reset` may come between any two steps,
and a handshake need not end (`Handshaking`).
`active` is what AWS IoT (external) has activated.

### TlsTransport and MultiTls

`at` is where each connection is in `TLS_FreeRTOS_Connect`, `send`, `recv` or
`Disconnect`; `handshake` and `tsip` are the holders of `mutexTsipTlsHandshake` and
`mutexUseTsip`; `rootKey` and `endpoint` are the scratch state of the process,
`saved` what a connection that draws a random number has to restore.  Which
steps of the Mbed TLS tree with TSIP take the hardware mutex is taken from
`mbedtls_threading_psa_mutex.c`; the tree itself is external.

`MultiTls` extends it.  The agent is modelled as far as the demo sees it (its
state and generation), `beat` is where `prvPrimaryHeartbeatTask` is and `task2` where
`prvSecondarySessionTask` is; the other variables have the meaning of the fields
named beside their declaration.  Each action of a task is what it does between
two points at which another one may run: a section under `xMultiTlsStateMutex`, a
call of the transport, or a poll of the agent.  Two steps join a step of the
transport with one of the demo (`AgentConnect`, `SecondaryDisconnect`, ...), so
that a step of the demo is always one of the transport or leaves it alone.  The
check for the forced reconnect is one operator, `ForceReconnect`, as it is made
after a heartbeat that was published (`Decide`) and after one that was not
(`PublishFails`).

## 4. Runs

| Run | Instance | Distinct states | Shows |
|---|---|---|---|
| `flash_access` | 3 tasks | 5 048 | mutual exclusion, own completion, own status word, the token comes back |
| `ota_pal` | 2 blocks and the header, queue of 1 | 404 732 | accounting of blocks, verified image, no silent loss, refinement of `ImageStore`, every call returns |
| `ota_agent_job` | 1 job, 3 blocks requested 2 at a time, 3 buffers, a cancellation, 2 losses, 1 reset | 223 678 | completeness, activation, writes to the open file, no job hangs |
| `ota_agent_failures` | 2 jobs, 1 block, 2 buffers, every operation may fail, 1 loss, 1 reset | 510 892 | no buffer leak, buffers are not shared, and a next request, even when a job is failed twice and offered again |
| `ota_boot` | 2 jobs, 3 versions, 2 faults, 1 loss, 1 reset | 339 915 | bootable, success means installed, self test before demos, the result is reported |
| `mqtt_session` | 1 demo task, 1 wrapper caller, 2 lost connections and sessions, 1 refused subscription, 3 command structures | 260 320 | one answer per call, pool, table, every call answered |
| `key_value_store` | a key of each kind, 2 good texts and a malformed one | 1 201 028 | order of a commit over failures and resets, marks of changes |
| `fleet_provisioning` | 3 runs, 3 failures, 2 resets, 1 late answer | 453 879 | certificate of the key, name after registration, failure explained, the agent released |
| `multi_tls` | 2 sessions, 2 generations of the agent | 989 629 | scratch state, evidence, forced reconnect, no wait for a handshake, a reconnect is noticed |
| `ota_agent_assert`, `ota_boot_rollback`, `mqtt_session_managed` | the smallest that shows it | | section 7 |

Why the bounds are enough to meet the interesting cases:

- Three flash tasks: one runs, one waits for completion, one contends for the
  token.
- Two blocks and a queue of one: the queue can be full while a block is in hand,
  and the caller waits to send the next one.
- Three blocks requested two at a time are two requests, the second of which is
  cut to the one block that is left (`NUM_OF_BLOCKS_REQUESTED` is 3 on rx72n).  As
  in the code there is a buffer for every block of a request and more.  A block
  is sent again only when no copy of it is on its way (`MaxCopies`), so one copy
  waits in a buffer, or has been written, while the next arrives.  Two losses are
  a message or request and a call that fails, in any order: for instance a stream
  that stays subscribed after a cancellation, and a lost block of the next
  download.  `MaxMessages` and `HandleLimit` are the values of the code.
- Two jobs of one block: blocks, events and a file handle of the first meet the
  second, which is the least that shows what a download leaves behind.
- `OtaBoot`: the second job is the smallest that meets what the first one left.
  Two faults are a rejected block and a close or a toggle that fails after it.
  The three versions are one, the next, and a larger one of which only a higher
  digit differs; a job may be older, equal or newer than what runs.
- Two lost connections and two lost sessions: the second hits what the first
  one left under way (a resubscription in the queue or on its way).  Three
  command structures are one for each client and one for the first lost session;
  the second session lost can find the pool empty.  `mqttexampleUNSUBSCRIBE_RETRIES`
  is the value of the code; the two publishes with one retry cover the first,
  the next, a repeated and the last one.
- Three set commands fill a commit with one change of each kind, or change what
  a failed commit left; two sessions are the one of the commit and one that a
  `conf get` left open.
- `fpdemoMAX_DEMO_LOOP_COUNT` is the value of the code; three failures and two
  resets are more than `FailureExplained` allows for.
- `MultiTls`: one tick of overlap separates "long enough" from "not yet"; the
  second generation is the reconnect of the agent.

`OtaAgent` is split into runs by what may go wrong.  When only the network and
the cloud are against it, everything holds (`ota_agent_job`); when the device
fails, too, a rejected block breaks completeness and activation, which section 7
describes, and what still holds is in `ota_agent_failures`.  `WritesToOpenFile`
is checked, as it is proved, without that failure and without a file that cannot
be created (section 6).  `BufferOwnership` has one exception, stated in it: the
step of `resetOtaBuffers` that frees every buffer, although blocks may be queued
(`DEMO:697`, `DEMO:1647`).  `JobResolved` has two: two copies of a block on their
way at a time, which this run does not have, and a stream whose topic is not
subscribed.
It is checked without the failures `parse`, `create` and `publish`, after which the
code does leave the agent idle until a notification or a reset.

Deadlock is checked in `FlashAccess`, `OtaPal`, `KeyValueStore` and `MultiTls`.
The others may stop: the OTA agent at an assertion or after the last job with
every bound used up, the agent of `OtaBoot` after a rollback that was refused, the
clients of the MQTT agent and the provisioning task when they are done.

## 5. Fairness

- `FlashAccess`: the sequencer always raises its interrupt; a task that owns the
  token is scheduled.  Nothing is assumed of who wins a contended take.
- `OtaPal`: the flash task has idle priority, but every caller that waits
  blocks, so it runs; a call that can go on does.
- `OtaAgent`: the agent task runs whenever it can, and a message that is not
  lost is delivered.  Its calls of the wrapper return, as the connection is made
  again in the end (`CallsAnswered`).  Nothing else is assumed of the cloud; the
  network loses what `MaxLost` allows.
- `OtaBoot`: the device boots and its agent task goes on.  No fault has to
  happen; a request that is lost is never answered, and the agent waits for ever
  (an exception of `UpdateReported`).
- `MqttSession`: every task runs when it can.  A connection can be made in the
  end (`RETRY_MAX_ATTEMPTS` is "for ever"; a peer that is silent in the middle of a
  handshake is excluded here), the broker acknowledges what it
  receives while the connection is up, and only a bounded number of connections
  is lost and of subscriptions refused.  A demo task waits, as the code does, without a time limit.
- `FleetProvisioning`: every call of the task returns, by a timeout at the latest,
  except the one that shakes hands (`Handshaking`): the number of attempts is
  limited, the length of one is not.  So `AgentReleased` says that the task comes
  to its end or stays in a handshake.
- `TlsTransport`: the hardware completes what it started; a task that waits for
  the hardware mutex, which is released again and again, gets it (FreeRTOS wakes
  the waiting task of the highest priority and longest wait, hence strong
  fairness).  A handshake may last for ever: nothing is assumed of the peer.
- `MultiTls`: besides this that the heartbeat task goes on.  Its calls of the
  wrapper wait with `portMAX_DELAY` (`mqtt_wrapper.c:240`), so they are fair only
  while the agent is connected, and nothing is assumed of the network;
  `ReconnectNoticed` excepts a connection that is lost again.

`KeyValueStore` states no liveness: every command ends by its own steps.

## 6. Proofs

`FlashAccess_proofs` proves every safety property of `flash_access` for every
set of tasks, assuming only that `NoTask` is not a task.  The properties are not
inductive: `IInv` adds that the sequencer works only for a task that waits for
it and only while nobody owns the token (`OperationOwned`), that a task about to
start has announced its operation (`ArmedAnnounced`), and that a littlefs
operation is alone (`LittlefsAlone`).  Two facts are proved that no run needs:
the token is away exactly while somebody owns it or an operation runs
(`TokenAccounted`), and no operation is started while another one executes
(`NeverStartedBusy`).

`OtaPal_proofs` proves, for every number of blocks and every queue length, that
the pending counter is exact, that no block is queued or written outside of an
open file, that a verified image is whole, that an accepted block is lost without
the error flag only by a failure that the interrupt alone saw (`unseen`), and
that the layer implements `ImageStore`, erase and write failures that nobody
notices included: whatever the area holds, only the whole image is accepted.  The
argument: the caller concludes from `pending = 0` that nothing is left to be
written (`DrainedIsQuiet`), which needs the counter to be exact
(`PendingCountsBlocks`) and, at each place of a call, what may have been left
behind (`CallsAndFiles`); with that each step is a step of the image store or
leaves it alone (`StepRefines`).

`OtaAgent_proofs` proves, for any number of jobs, blocks, buffers and copies and
any length of the queue:

- `TypeCorrect`, whatever fails.
- `NoBufferIsLost`: a buffer in use is the one of some queued event, as long as a
  block does not arrive while the queue is full (`RoomForBlocks`).  The condition
  is needed: the buffer has been handed out when `OtaSendEvent_FreeRTOS` drops the
  event, and nobody frees it.  TLC finds the leak with a queue shorter than that
  of the code.
- `BuffersNeverShared`, with no condition: each event of a block has a buffer of
  its own, which stays in use, except in the step of `resetOtaBuffers` that the
  property names.
- `ClosedWhenComplete` and `ActivatedWhenVerified`, as long as no block is
  rejected (`RejectFileBlock`).  TLC finds a violation of both otherwise: the
  failed download goes on, so that the next job is set up while events of the
  first one are still queued, or while its image is about to be activated
  (section 7); and the rejection clears the bitmap but not the count of blocks
  that remain.
- `WrittenToOpenFile`, if besides this every file can be created.  A late block of
  a canceled job may be in the queue when the file of the next one cannot be
  created; the fields of that job are set, no error flag is up, and if the handle,
  a byte, is back at 0, the file id is that of the document.  TLC finds it with a
  handle that counts to two; with that of the code it takes 256 files in one boot.

The invariant behind the last three has two parts.  `TokenInv` is the order of the
requests: the agent either asks for a job (a request, a document, or a
notification it waits for; `Asking`) or downloads one (an event of the download,
or the delay after a cancellation; `Loading`), never both (`OneOrOther`).  It asks
once at a time (`OneAsked`), and for nothing else while it waits for a
notification (`NotifyWaits`), so that a document never meets the rest of an
earlier download.  What is queued behind a cancellation does not count, as it is
deleted with the queue (`CancelWait`).  The assertion failure of section 7 is the
exception that it carries along (`SingleRequest`, `AboutToHalt`).  Blocks of a
given-up job may still arrive while the agent asks: the platform layer refuses
them.  `LoadInv` is the account of the download: while blocks can be accepted, the
count of those that remain is that of the bitmap (`Counted`); what is marked was
written (`Marked`); a close is queued only when all is marked (`CloseWaits`), and
an activation only of what is verified (`ActivateWaits`).  `WrittenToOpenFile` adds
that the file is open wherever a block would be accepted (`ReadyForBlocks`).

`MqttSession_proofs` proves the four invariants of `mqtt_session` for any sets of
clients, any number of lost connections, lost sessions and refused subscriptions,
and a pool of any size.  `Exchange` ties each command in the queue or awaiting its
acknowledgment to a client that waits for exactly that kind of command
(`Matches`) and counts them with the notifications.  That the commands of a client
are counted by the cardinality of a set of indices makes the lemmas about
`Append`, `Tail` and removal the larger part of the module; `Kept`, what resuming a
session keeps, is the commands in order, by a set of indices for the same
reason.  `ResubscriptionsBounded` is what makes a pool suffice: there is at most one
resubscription per session lost so far, the one about to be queued included.  How
many sessions are lost before the loop gets to its queue is not bounded by the
code, so the theorem states what a pool suffices for, and that an empty one
loses no structure and no answer.
`TopicsGone` adds to `TopicsAlive` that the topic leaves the table before its
task is told.

`OtaBoot_proofs` proves the three safety properties for any number of jobs and
any versions up to 2^31 - 1 (`VersionsAssumption`; beyond it `strtol` saturates
and the check compares with another number).  Each lemma about digits leads to
`RoundTrip`: a version comes back from the job document as it was.  `IInv` says
what the agent may conclude from a document: it is still that of the job in
progress (`DocumentTrue`), at most one job is (`OneInProgress`), the saved version is
that of the image that runs unless the job's own image already does
(`SavedVersion`), and the buffer bank holds the image of `jobFields` where it is
activated (`JobInHand`), but for the exception that `AlwaysBootable` names.
`RejectedGoesOn` says where the agent may be while a rejected download goes on,
and that no version has been saved by then for a job in progress (`NothingSaved`):
so the image of a rejected download, once activated, is not taken for the update
of a job.
Success and the start of the demos are action properties, proved from `Verified`.

`KeyValueStore_proofs` proves `PrefixCommitted` and `CleanMeansStored` for any
number of keys.  `KeyInHand` is a CHOOSE of the first pending key; `LeastNumber`
and `FirstOf` show that it exists and that every key before it is not pending.
`InCommit` is the state of the files in the middle of a commit, in terms of that
key; `CleanAlways` is `CleanMeansStored` without its condition.

`FleetProvisioning_proofs` proves `CertificateOfKey` and `NamedOnceRegistered` for
any number of runs, failures and resets, and `FailureExplained` for any number of
runs from three on, which is what `fpdemoMAX_DEMO_LOOP_COUNT` gives.  `Replaced`
is why no mixture arises: the old key goes before its certificate, and a new
certificate comes after its key.  `BufferClear` and `AnswerOfRequest` say that what a parser is given answers
the request of this run as long as nothing arrives late.  For `FailureExplained`,
`Explained` describes every state after at most one mishap: the run in hand ends
with a connection unless something else happens (`OnCourse`), an object is empty
(`Spoiled`), or the second run may still be given the certificate of the first
(`SecondChance`), which leaves the third.

`MultiTls_proofs` proves first, of the transport by itself, `ScratchIsOwners` and
that no two tasks are inside the hardware, for any set of connections, from who
holds the mutexes at each place (`Held`) and when the endpoint flag is changed
(`FlagRestored`).  Then every behaviour of the demo is one of the transport
(`DemoUsesTransport`), which carries `ScratchIsOwners` over to it; the evidence is
proved from where the two tasks are when a session is reported up
(`SecondaryConsistent`, `BeatConsistent`).  `ReconnectConsistent` ties the request
for a reconnect to what is printed after it; `CompletionIsEarned` says that
`TEST_COMPLETE` follows a reconnect that was due, and not that the demo, rather
than the network, made it.

Every type invariant and every other invariant that a passing run checks is
stated by a theorem, and so are the action properties and the refinement.  **Only
model-checked** are the liveness properties, which need fairness and ENABLED and
are out of reach of the prover: `AccessComesBack`, `CallsReturn`, `JobResolved`,
`NextJobAsked`, `CallsAnswered`, `UpdateReported`, `AgentReleased`,
`PrimaryContinues` and `ReconnectNoticed`.  Nor is anything proved about how the
counterexamples of section 7 come about.

## 7. Where code and comments disagree

Three have a run that ends in a counterexample; `PROJECT.json` quotes the text.

- `ota_agent_assert`: two job notifications in a row make the agent unsubscribe
  an empty topic, which is an assertion failure.
- `ota_boot_rollback`: the way back to the old image after a failed self test is
  refused, because the size of the file it creates has been cleared; the image
  that failed stays active.  The same refusal protects the device: with a valid
  size the call would erase the old image before the banks are toggled, and
  nothing bootable would be left (`AlwaysBootable`).
- `mqtt_session_managed`: a resubscription canceled by a second disconnection is
  never repeated, because the next reconnection finds a session.

Others are in the models, and the properties that they concern name them as
exceptions or are checked where they do not happen:

- OTA agent, jobs: a job created between the answer "none" and the subscription
  to the notify topic is not started before a reset (`DEMO:727`).  The second
  download of a boot rejects all its blocks, because the platform layer overwrites
  the file id with a handle it counts up (`ota_pal.c:167`).  A request for a
  document that is lost, or not sent (`DEMO:451`), is not repeated (`DEMO:1220`,
  `DEMO:1232`), and a file that cannot be created, or a document that does not
  parse, leaves the agent idle (`DEMO:1342`).
- OTA agent, a rejected block (`DEMO:1475`): the job is reported as failed, the
  file stays open, although `ota_pal.h:207` says it is closed at the end of
  ingestion, and the download goes on.  Its image may be verified while the next
  job erases the area, and then the erased bank is activated: the exception of
  `AlwaysBootable`, in which the device does not boot.
- OTA agent, topics: the result of a subscription is ignored (`DEMO:500`,
  `DEMO:727`), and blocks of a stream that is not subscribed are requested for
  ever.  A failed unsubscription is only logged (`DEMO:1622`), and a block that
  arrives anyway before the stream of the next job is set up is handled.  It takes
  a buffer, which `resetOtaBuffers` frees under its event (`DEMO:1647`); so does a
  new document (`DEMO:697`).  `ota_demo.h:74` describes a flag of buffers that are
  in use.
- OTA agent, requests for blocks that time out early, over and over, may fill all
  buffers with copies of blocks that are there already whenever the missing one
  arrives (`DEMO:949`, met with four blocks requested three at a time).
- Platform layer: `ota_pal.h:268` says the result of `otaPal_WriteBlock` is the
  number of bytes written; `ota_pal.c:234` returns it when the block is queued.
  A write that the driver refuses later is known by the flag that `otaPal_CloseFile`
  checks.  One that it accepts and that fails in the background is reported as
  written (`ota_pal.c:594`), and so are an erase (`ota_pal.c:570`) and the header
  (`ota_pal.c:642`): only the signature check tells, and of the header, which
  it does not cover, nothing does.  `ota_pal.h:319` describes a commit that failed;
  `ota_pal.c:391` stores and persists the state all the same.
- Self test: a job whose saved version was lost is downloaded again by the new
  image, which then fails it as the same version.  An image of the same version
  whose self test fails resets, and is offered the same job again, for ever.
  After a job that failed its self test the next answer without a job starts
  the demos (`DEMO:768`), while `simple_pub_sub_task.c:743` waits for a self test
  that passed.
- Pub/sub demo: a topic string "must persist for duration of subscription"; a
  task that gives up unsubscribing after five failures deletes itself all the
  same, with its topic in the table (the exception that `TopicsAlive` names).
- Key value store: a close that fails is not noticed and the commit says "saved"
  (the exception of empty files in `PrefixCommitted`).  `conf get` replaces a
  change that is pending (`doubt`).  A commit that fails leaves its PKCS #11
  session open (`store.c:428`), and so does a read of an object that does not
  exist.  A malformed text for a device credential destroys the old one; a
  malformed claim makes every commit end before the keys after it.
- Fleet provisioning: a connection that fails for another reason than the
  credentials destroys them all the same (`FP:1102`).  The certificate of an answer
  is not compared with the key; an empty file left by a reset makes runs fail
  until it is replaced; a name that could not be written is not noticed until
  the next reset; the state "initialized" that releases the MQTT agent is set
  after a failure, too.
- Multi TLS: `Demos/multi_tls/README.md:10` asks for an overlap of both sessions, the
  code measures the time session 2 has been up.  `TEST_COMPLETE` does not
  ask for traffic of session 1 during the outage, and as the heartbeat task
  polls every two seconds it may be printed while session 1 is down.  After the
  agent has reconnected, `HEARTBEAT_RX` of session 1 may precede its
  `SESSION_UP`, which the monitor refuses (the condition `gen <= 1` in
  `EvidenceWellFormed`); a heartbeat may go out over the new connection before the
  next poll notices it.  The check for the forced reconnect is also made after a
  failed publish (`MT:588`), so a connection that the network loses when the
  reconnect is due is labelled `ci_reconnect` and counts.
- TLS: a handshake is repeated for as long as it wants to read or write
  (`TLS:807`).  One whose peer does not answer keeps every other handshake waiting
  for ever, and the tasks that wait for its end: that of fleet provisioning and,
  through it, the MQTT agent (the exception of `AgentReleased`), and the clients of
  the agent, which wait with `portMAX_DELAY`.

## 8. Not modelled

- In `OtaAgent`: the RA0E2 path with its secondary image, and the events Suspend
  and Resume, which nothing sends.
- In `MqttSession`: the fan-out of incoming messages, a full subscription table
  (its ten entries exceed the topics of the tasks that the demos start), and a
  graceful disconnection, which nothing requests.
- In `OtaPal`: the bytes of the image header, which the boot loader reads and
  nothing in the repository reads back; `otaPal_WriteBlock` for a file that is not
  open.
- The life cycle of the shared drivers.  The flash driver is opened by littlefs
  before any task uses it and is never closed.  The TSIP driver is closed and
  opened again in the first TLS set-up (`tsip_provisioning_store.c:213`), inside
  the handshake mutex but outside the hardware mutex; a random number drawn by
  `mbedtls_hardware_poll` in that moment, on behalf of a connection with a
  software key, would find it closed.  The wrapped keys and their files
  (`tsip_provisioning_store.c`) are planned.
- The plain mutex of the littlefs adapter: each file operation takes it for
  itself, and the console, which could contend for it, is gone before the demos
  start.
- In `KeyValueStore`: heap that runs out, and texts without the marks of PEM.
- In `MultiTls`: sequence numbers of heartbeats, the length of time, a task
  that stays between sampling the tick count and taking the mutex for longer
  than a tick (the difference of ticks is unsigned and would wrap if session 2
  came up in between), and the counters printed with `TEST_COMPLETE`.
- Memory: stacks, pointers and buffers are modelled by whose they are, not by
  addresses.  A send to a queue that is being deleted (`DEMO:1634`) is undefined
  behaviour of the kernel and not modelled, nor is the static list of topics
  that a second resubscription rewrites (`mqtt_agent_task.c:730`).
- The text input and output of the console, the cryptography and the formats of
  certificates, TLS benchmarks, ports, generated configuration, start-up code,
  boot loaders (stubs in the repository) and all third-party code.  Most of the
  lines under `src` are of these kinds: drivers and their copies per board,
  generated pin and clock settings, transports for other modules, and tests.
