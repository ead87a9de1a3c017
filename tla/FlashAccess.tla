----------------------------- MODULE FlashAccess -----------------------------
(***************************************************************************)
(* How the tasks of the application share the on-chip flash sequencer.     *)
(*                                                                         *)
(* xSemaphoreFlashAccess is a BINARY semaphore used for two things at      *)
(* once: a task takes it to own the sequencer, starts a background         *)
(* operation, and takes it AGAIN to wait for the completion interrupt,     *)
(* which gives it (Common/ports/ota_pal/ota_pal.c, prvEraseBufferArea and  *)
(* prvWriteFlashBlocking; Common/common_api/r_common_api_flash.c,          *)
(* flashing_callback).  Any task may receive the token the interrupt       *)
(* gives, not only the one whose operation completed.                      *)
(*                                                                         *)
(* The littlefs adapter drives the same sequencer without the semaphore    *)
(* and polls for completion, but its operations end in the same interrupt  *)
(* (Common/littlefs_common/README.md).                                     *)
(***************************************************************************)
EXTENDS Naturals

CONSTANTS
    Tasks,      \* tasks that erase or write the OTA buffer area
    NoTask      \* no operation in progress

ASSUME NoTaskAssumption == NoTask \notin Tasks

VARIABLES
    pc,         \* where each task is in its flash access
    kind,       \* what each task asks for: an erase or a write
    sem,        \* xSemaphoreFlashAccess: 1 available, 0 taken
    status,     \* update_data_flash_control_block.status
    hw          \* the task whose operation the sequencer executes

vars == <<pc, kind, sem, status, hw>>

Kinds == {"erase", "write"}

(* What littlefs asks the sequencer for. *)
LittlefsKinds == Kinds \cup {"blankCheck"}

(* The status a task announces before it starts an operation of kind k. *)
WaitStatus(k) == IF k = "erase" THEN "ERASE_WAIT" ELSE "WRITE_WAIT"

Statuses == {"INITIALIZE", "ERASE_WAIT", "WRITE_WAIT", "FINALIZE", "ERROR"}

(* "want"/"wait" block in xSemaphoreTake; "claimed", "armed", "refused" and
   "observed" own the token; "polling" is a littlefs operation. *)
Places == {"idle", "want", "claimed", "armed", "wait", "refused", "observed",
           "polling"}

Owning == {"claimed", "armed", "refused", "observed"}

Owners == {t \in Tasks : pc[t] \in Owning}

Init ==
    /\ pc = [t \in Tasks |-> "idle"]
    /\ kind = [t \in Tasks |-> "erase"]
    /\ sem = 1                   \* given once by Flash_COM_Resource_Create
    /\ status = "INITIALIZE"
    /\ hw = NoTask

Goto(t, place) == pc' = [pc EXCEPT ![t] = place]

------------------------------------------------------------------------------
(* prvEraseBufferArea / prvWriteFlashBlocking *)

(* Fault: the task announces its operation before it owns the sequencer. *)
RequestAnnounced(t, k) ==
    /\ pc[t] = "idle"
    /\ \A u \in Tasks : pc[u] # "polling"
    /\ kind' = [kind EXCEPT ![t] = k]
    /\ status' = WaitStatus(k)
    /\ Goto(t, "want")
    /\ UNCHANGED <<sem, hw>>

(* A caller arrives.  No littlefs operation overlaps it: the console that
   commits settings is deleted before the demos start (main.c of the boards), and
   the OTA agent persists the image state while the flash queue is drained
   (ota_pal.c:164-170, 285-287).  Reading a file is assumed not to need the
   sequencer. *)
Request(t, k) ==
    /\ pc[t] = "idle"
    /\ \A u \in Tasks : pc[u] # "polling"
    /\ kind' = [kind EXCEPT ![t] = k]
    /\ Goto(t, "want")
    /\ UNCHANGED <<sem, status, hw>>

(* Fault: the first take does not block. *)
TakeAccessUnblocked(t) ==
    /\ pc[t] = "want"
    /\ sem' = 0
    /\ Goto(t, "claimed")
    /\ UNCHANGED <<kind, status, hw>>

TakeAccess(t) ==
    /\ pc[t] = "want"
    /\ sem = 1
    /\ sem' = 0
    /\ Goto(t, "claimed")
    /\ UNCHANGED <<kind, status, hw>>

Announce(t) ==
    /\ pc[t] = "claimed"
    /\ status' = WaitStatus(kind[t])
    /\ Goto(t, "armed")
    /\ UNCHANGED <<kind, sem, hw>>

(* R_FLASH_Erase / R_FLASH_Write accepts the request and works on in the
   background ... *)
Start(t) ==
    /\ pc[t] = "armed"
    /\ hw = NoTask
    /\ hw' = t
    /\ Goto(t, "wait")
    /\ UNCHANGED <<kind, sem, status>>

(* ... or returns an error: the sequencer is busy or rejects the request. *)
Refuse(t) ==
    /\ pc[t] = "armed"
    /\ Goto(t, "refused")
    /\ UNCHANGED <<kind, sem, status, hw>>

(* Fault: the second take does not block. *)
TakeCompletionUnblocked(t) ==
    /\ pc[t] = "wait"
    /\ sem' = 0
    /\ Goto(t, "observed")
    /\ UNCHANGED <<kind, status, hw>>

TakeCompletion(t) ==
    /\ pc[t] = "wait"
    /\ sem = 1
    /\ sem' = 0
    /\ Goto(t, "observed")
    /\ UNCHANGED <<kind, status, hw>>

(* Fault: a refused operation returns without giving the token back. *)
GiveBackObserved(t) ==
    /\ pc[t] \in {"refused", "observed"}
    /\ sem' = IF pc[t] = "observed" THEN 1 ELSE sem
    /\ Goto(t, "idle")
    /\ UNCHANGED <<kind, status, hw>>

(* Giving a binary semaphore that is available already changes nothing. *)
GiveBack(t) ==
    /\ pc[t] \in {"refused", "observed"}
    /\ sem' = 1
    /\ Goto(t, "idle")
    /\ UNCHANGED <<kind, status, hw>>

------------------------------------------------------------------------------
(* The littlefs adapter, called by a task that uses no other flash service *)

LittlefsStart(t, k) ==
    /\ \A u \in Tasks : pc[u] = "idle"
    /\ hw = NoTask
    /\ hw' = t
    /\ kind' = [kind EXCEPT ![t] = k]
    /\ Goto(t, "polling")
    /\ UNCHANGED <<sem, status>>

LittlefsDone(t) ==
    /\ pc[t] = "polling"
    /\ hw = NoTask
    /\ Goto(t, "idle")
    /\ UNCHANGED <<kind, sem, status, hw>>

------------------------------------------------------------------------------
(* flashing_callback, the completion interrupt *)

(* Events the sequencer can report for the operation in progress: it is
   complete, or it failed. *)
Event == {"complete", "failed"}

(* Fault: a counting semaphore. *)
CountingCallback(e) ==
    /\ hw # NoTask
    /\ status' = IF e = "failed" THEN "ERROR" ELSE "FINALIZE"
    /\ sem' = sem + 1
    /\ hw' = NoTask
    /\ UNCHANGED <<pc, kind>>

(* The status is not compared with the task whose operation it is, only with
   the kind of the operation; a blank check leaves it alone. *)
flashing_callback(e) ==
    /\ hw # NoTask
    /\ status' = IF e = "failed" THEN "ERROR"
                 ELSE IF kind[hw] = "blankCheck" THEN status
                 ELSE IF status = WaitStatus(kind[hw]) THEN "FINALIZE" ELSE "ERROR"
    /\ sem' = 1
    /\ hw' = NoTask
    /\ UNCHANGED <<pc, kind>>

------------------------------------------------------------------------------
TaskStep(t) ==
    \/ TakeAccess(t) \/ Announce(t) \/ Start(t) \/ Refuse(t)
    \/ TakeCompletion(t) \/ GiveBack(t) \/ LittlefsDone(t)

Next ==
    \/ \E t \in Tasks : TaskStep(t)
    \/ \E t \in Tasks, k \in Kinds : Request(t, k)
    \/ \E t \in Tasks, k \in LittlefsKinds : LittlefsStart(t, k)
    \/ \E e \in Event : flashing_callback(e)

(* The sequencer always raises its interrupt, and a task that owns the token
   is scheduled.  Nothing is assumed about who wins a contended take. *)
Fairness ==
    /\ \A t \in Tasks : WF_vars(Announce(t)) /\ WF_vars(Start(t) \/ Refuse(t))
                        /\ WF_vars(GiveBack(t))
    /\ WF_vars(\E e \in Event : flashing_callback(e))

Spec == Init /\ [][Next]_vars /\ Fairness

------------------------------------------------------------------------------
TypeOK ==
    /\ pc \in [Tasks -> Places]
    /\ kind \in [Tasks -> LittlefsKinds]
    /\ sem \in {0, 1}
    /\ status \in Statuses
    /\ hw \in Tasks \cup {NoTask}

(* Two tasks never own the sequencer at the same time, although the token is
   handed over by an interrupt that does not know who waits for it. *)
OneOwner == \A t, u \in Owners : t = u

(* prvEraseBufferArea and prvWriteFlashBlocking return pdTRUE only when the
   task's own operation is over: whoever's completion released the token, no
   operation is in progress once the second take succeeds. *)
OwnOperationOver == \A t \in Tasks : pc[t] = "observed" => hw # t

(* R_FLASH_Erase and R_FLASH_Write are never called while the sequencer is
   executing another task's operation. *)
NeverStartedBusy == \A t \in Tasks : pc[t] = "armed" => hw = NoTask

(* While a semaphore user's operation runs, the status word is the one its
   task announced: the interrupt never takes another task's status for it. *)
StatusIsOwners ==
    \A t \in Tasks : hw = t /\ pc[t] = "wait" => status = WaitStatus(kind[t])

(* The token is neither lost nor duplicated: it is unavailable exactly while
   a task owns the sequencer or a semaphore user's operation runs. *)
TokenAccounted ==
    sem = 0 <=> (Owners # {} \/ \E t \in Tasks : hw = t /\ pc[t] = "wait")

(* Whatever the operations' outcome, the sequencer becomes available again:
   no error path keeps the token. *)
AccessComesBack == sem = 0 ~> sem = 1
==============================================================================
