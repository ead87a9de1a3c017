-------------------------- MODULE FlashAccess_proofs --------------------------
(***************************************************************************)
(* The semaphore protocol of FlashAccess is safe for every set of tasks.   *)
(*                                                                         *)
(* The safety properties are not inductive: they do not say which tasks an *)
(* operation in progress may belong to, nor that a littlefs operation runs *)
(* alone.  IInv adds both.                                                 *)
(***************************************************************************)
EXTENDS FlashAccess, TLAPS

(* The sequencer works for a task that waits for it, and only while nobody
   owns the token. *)
OperationOwned ==
    /\ \A t \in Tasks : hw = t => pc[t] \in {"wait", "polling"}
    /\ Owners # {} => hw = NoTask

(* A task that is about to start an operation has announced it. *)
ArmedAnnounced ==
    \A t \in Tasks : pc[t] = "armed" => status = WaitStatus(kind[t])

(* A littlefs operation runs while no other task uses the flash. *)
LittlefsAlone ==
    \A t, u \in Tasks : pc[t] = "polling" /\ u # t => pc[u] = "idle"

IInv ==
    /\ TypeOK
    /\ OneOwner
    /\ TokenAccounted
    /\ StatusIsOwners
    /\ OperationOwned
    /\ ArmedAnnounced
    /\ LittlefsAlone

(* IInv implies each safety property the runs check. *)
LEMMA IInvImplies == IInv => OwnOperationOver /\ NeverStartedBusy
BY DEF IInv, OperationOwned, OwnOperationOver, NeverStartedBusy, Owners,
       Owning, TypeOK

(* The initial state satisfies IInv. *)
LEMMA InitIInv == Init => IInv
BY NoTaskAssumption
   DEF Init, IInv, TypeOK, OneOwner, TokenAccounted, StatusIsOwners,
       OperationOwned, ArmedAnnounced, LittlefsAlone, Owners, Owning,
       Places, Kinds, LittlefsKinds, Statuses

(* Every step preserves the type invariant. *)
LEMMA NextTypeOK == TypeOK /\ [Next]_vars => TypeOK'
<1> SUFFICES ASSUME TypeOK, [Next]_vars PROVE TypeOK'
    OBVIOUS
<1> USE DEF TypeOK, Places, Kinds, LittlefsKinds, Statuses
<1>1. ASSUME NEW t \in Tasks, TaskStep(t) PROVE TypeOK'
    BY <1>1 DEF TaskStep, TakeAccess, Announce, Start, Refuse,
                TakeCompletion, GiveBack, LittlefsDone, Goto, WaitStatus
<1>2. ASSUME NEW t \in Tasks, NEW k \in LittlefsKinds, LittlefsStart(t, k) PROVE TypeOK'
    BY <1>2 DEF LittlefsStart, Goto
<1>3. ASSUME NEW t \in Tasks, NEW k \in Kinds, Request(t, k) PROVE TypeOK'
    BY <1>3 DEF Request, Goto
<1>4. ASSUME NEW e \in Event, flashing_callback(e) PROVE TypeOK'
    BY <1>4 DEF flashing_callback
<1>5. CASE UNCHANGED vars
    BY <1>5 DEF vars
<1>6. QED
    BY <1>1, <1>2, <1>3, <1>4, <1>5 DEF Next

(* Every step preserves the inductive invariant. *)
LEMMA NextIInv == IInv /\ [Next]_vars => IInv'
<1> SUFFICES ASSUME IInv, [Next]_vars PROVE IInv'
    OBVIOUS
<1>t. TypeOK /\ TypeOK'
    BY NextTypeOK DEF IInv
<1> USE NoTaskAssumption, <1>t
<1> USE DEF OneOwner, TokenAccounted, StatusIsOwners, OperationOwned,
        ArmedAnnounced, LittlefsAlone, Owners, Owning
<1>1. ASSUME NEW t \in Tasks, TakeAccess(t) PROVE IInv'
    BY <1>1 DEF IInv, TakeAccess, Goto, TypeOK
<1>2. ASSUME NEW t \in Tasks, Announce(t) PROVE IInv'
    BY <1>2 DEF IInv, Announce, Goto, TypeOK
<1>3. ASSUME NEW t \in Tasks, Start(t) PROVE IInv'
    BY <1>3 DEF IInv, Start, Goto, TypeOK
<1>4. ASSUME NEW t \in Tasks, Refuse(t) PROVE IInv'
    BY <1>4 DEF IInv, Refuse, Goto, TypeOK
<1>5. ASSUME NEW t \in Tasks, TakeCompletion(t) PROVE IInv'
    BY <1>5 DEF IInv, TakeCompletion, Goto, TypeOK
<1>6. ASSUME NEW t \in Tasks, GiveBack(t) PROVE IInv'
    BY <1>6 DEF IInv, GiveBack, Goto, TypeOK
<1>7. ASSUME NEW t \in Tasks, LittlefsDone(t) PROVE IInv'
    BY <1>7 DEF IInv, LittlefsDone, Goto, TypeOK
<1>8. ASSUME NEW t \in Tasks, NEW k \in LittlefsKinds, LittlefsStart(t, k) PROVE IInv'
    BY <1>8 DEF IInv, LittlefsStart, Goto, TypeOK
<1>9. ASSUME NEW t \in Tasks, NEW k \in Kinds, Request(t, k) PROVE IInv'
    BY <1>9 DEF IInv, Request, Goto, TypeOK
<1>10. ASSUME NEW e \in Event, flashing_callback(e) PROVE IInv'
    BY <1>10 DEF IInv, flashing_callback, TypeOK
<1>11. CASE UNCHANGED vars
    BY <1>11 DEF IInv, vars
<1>12. QED
    BY <1>1, <1>2, <1>3, <1>4, <1>5, <1>6, <1>7, <1>8, <1>9, <1>10, <1>11
       DEF Next, TaskStep

(* IInv holds in every reachable state. *)
LEMMA Inductive == Spec => []IInv
BY InitIInv, NextIInv, PTL DEF Spec

(* Every variable keeps its type, the token and the sequencer among them. *)
THEOREM TypeCorrect == Spec => []TypeOK
BY Inductive, PTL DEF IInv

(* Two tasks never own the flash sequencer at the same time, whatever the
   number of tasks and the order of takes, interrupts and refusals. *)
THEOREM MutualExclusion == Spec => []OneOwner
BY Inductive, PTL DEF IInv

(* prvEraseBufferArea and prvWriteFlashBlocking return pdTRUE only after the
   task's own operation ended, although another task's completion may have
   released the token they received. *)
THEOREM ReturnsAfterOwnOperation == Spec => []OwnOperationOver
BY Inductive, IInvImplies, PTL

(* No operation is requested while another one is in progress, so
   R_FLASH_Erase and R_FLASH_Write never find the sequencer busy. *)
THEOREM NoBusyStart == Spec => []NeverStartedBusy
BY Inductive, IInvImplies, PTL

(* The binary semaphore's single token is never lost or duplicated. *)
THEOREM TokenConservation == Spec => []TokenAccounted
BY Inductive, PTL DEF IInv

(* The completion interrupt always finds the status its operation's task
   announced. *)
THEOREM StatusMatches == Spec => []StatusIsOwners
BY Inductive, PTL DEF IInv
==============================================================================
