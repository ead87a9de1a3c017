----------------------------- MODULE KeyValueStore -----------------------------
(***************************************************************************)
(* The key value store (Demos/cli/store.c) under the console's conf, format *)
(* and reset commands: a cache of the values in RAM, of which each entry    *)
(* may have a change pending, and one littlefs file per value.  Credentials *)
(* are PKCS #11 objects, which the PAL keeps in files of the same file      *)
(* system (Common/ports/rm_aws_pkcs11_pal_littlefs).                        *)
(*                                                                         *)
(* A file is removed before it is created and written again, so a fault or  *)
(* a reset in between costs its value.  littlefs (external) makes a file    *)
(* exist when it is opened and holds the data when it is closed.  Heap that *)
(* runs out, texts without the marks of PEM, and the keys of the TSIP,      *)
(* which are neither read nor written, are left out.                        *)
(***************************************************************************)
EXTENDS Integers, FiniteSets

CONSTANTS
    NumKeys,        \* entries of the store, in the order of KVStoreKey_t
    Kind,           \* of each key "file", "device" or "claim"
    Values,         \* texts that the user may set
    Malformed,      \* those that no certificate or key can be made of
    MaxSessions,    \* pkcs11configMAX_SESSIONS
    MaxSets,        \* bound: conf set commands
    MaxFaults,      \* bound: file operations that fail
    MaxResets       \* bound: resets and power losses

Keys == 1 .. NumKeys

ASSUME KeysAssumption ==
    /\ NumKeys \in Nat \ {0}
    /\ Kind \in [Keys -> {"file", "device", "claim"}]

ASSUME BoundsAssumption ==
    MaxSessions \in Nat /\ MaxSets \in Nat /\ MaxFaults \in Nat /\ MaxResets \in Nat

(* What a file holds besides a value, and what is read of an object: DER. *)
Absent == "absent"
Empty == "empty"
Binary == "binary"

ASSUME ValuesAssumption ==
    /\ Malformed \subseteq Values
    /\ {Absent, Empty, Binary} \cap Values = {}

VARIABLES
    cache,          \* gKeyValueStore.table
    file,           \* the file of each key
    step,           \* of KVStore_xCommitChanges
    sessions,       \* open PKCS #11 sessions
    usable,         \* xP11Session of the commit is an open session
    reply,          \* what KVStore_xCommitChanges returned last
    old, target,    \* history: the files before the last commit, and what it asked for
    doubt,          \* history: keys whose change a get or a fault has dropped
    sets, faults, resets    \* counted for the bounds

history == <<old, target, doubt>>
bounds == <<sets, faults, resets>>
vars == <<cache, file, step, sessions, usable, reply, history, bounds>>

Entry(type, value, pending) == [type |-> type, value |-> value, pending |-> pending]
NoEntry == Entry("none", Absent, FALSE)

AllAbsent == [k \in Keys |-> Absent]

Pending == {k \in Keys : cache[k].pending}

(* The commit goes through the keys in their order. *)
KeyInHand == CHOOSE k \in Pending : \A j \in Pending : k <= j

(* vprvCacheInit: objects are not read. *)
CacheInit(files) ==
    [k \in Keys |-> IF Kind[k] = "file" /\ files[k] \in Values
                    THEN Entry("string", files[k], FALSE) ELSE NoEntry]

Init ==
    /\ file = AllAbsent /\ cache = CacheInit(file)
    /\ step = "idle" /\ sessions = 0 /\ usable = FALSE /\ reply = "none"
    /\ old = file /\ target = file /\ doubt = {}
    /\ sets = 0 /\ faults = 0 /\ resets = 0

------------------------------------------------------------------------------
(* The console's commands *)

(* xprvWriteCacheEntry: a value that differs is a change to commit. *)
Changed(k, v) == cache[k].type = "none" \/ cache[k].value # v

Set(k, v) ==
    /\ step = "idle" /\ sets < MaxSets
    /\ sets' = sets + 1
    /\ cache' = [cache EXCEPT ![k] =
                     IF Changed(k, v) \/ @.pending THEN Entry("string", v, TRUE) ELSE @]
    /\ UNCHANGED <<file, step, sessions, usable, reply, history, faults, resets>>

(* xprvGetCacheEntry reads what is stored into the cache, and forgets a pending
   change.  The session it opens for an object is not closed again when there is
   no such object. *)
Get(k) ==
    /\ step = "idle"
    /\ cache' = [cache EXCEPT ![k] =
                     Entry("string",
                           IF file[k] \notin Values THEN @.value
                           ELSE IF Kind[k] = "file" THEN file[k] ELSE Binary,
                           FALSE)]
    /\ sessions' = IF Kind[k] # "file" /\ file[k] \notin Values /\ sessions < MaxSessions
                   THEN sessions + 1 ELSE sessions
    /\ doubt' = IF cache[k].pending THEN doubt \cup {k} ELSE doubt
    /\ UNCHANGED <<file, step, usable, reply, old, target, bounds>>

Formatted ==
    /\ file' = AllAbsent
    /\ old' = AllAbsent /\ target' = AllAbsent

Format ==
    /\ step = "idle"
    /\ Formatted
    /\ cache' = [k \in Keys |-> NoEntry]
    /\ doubt' = {}
    /\ UNCHANGED <<step, sessions, usable, reply, bounds>>

(* The cache is kept, whatever is left of the files. *)
FormatFailed ==
    /\ step = "idle" /\ faults < MaxFaults
    /\ faults' = faults + 1
    /\ Formatted \/ UNCHANGED <<file, old, target>>
    /\ doubt' = Keys
    /\ UNCHANGED <<cache, step, sessions, usable, reply, sets, resets>>

(* prvReset, and a loss of power at any moment; the cache is then read again. *)
Reset ==
    /\ resets < MaxResets
    /\ resets' = resets + 1
    /\ cache' = CacheInit(file)
    /\ step' = "idle" /\ sessions' = 0 /\ usable' = FALSE /\ reply' = "none"
    /\ doubt' = {}
    /\ UNCHANGED <<file, old, target, sets, faults>>

------------------------------------------------------------------------------
(* KVStore_xCommitChanges *)

CloseSession == sessions' = IF usable THEN sessions - 1 ELSE sessions

(* When no session can be opened the handle is not initialized: it may still be
   that of a session that was left open before. *)
OpenSession ==
    IF sessions < MaxSessions
    THEN usable' = TRUE /\ sessions' = sessions + 1
    ELSE /\ usable' \in (IF sessions = 0 THEN {FALSE} ELSE BOOLEAN)
         /\ UNCHANGED sessions

CommitChanges ==
    /\ step = "idle" /\ Pending # {}
    /\ OpenSession
    /\ step' = "start"
    /\ old' = file
    /\ target' = [k \in Keys |-> IF k \in Pending THEN cache[k].value ELSE file[k]]
    /\ reply' = "none"
    /\ UNCHANGED <<cache, file, doubt, bounds>>

(* The session is opened and closed again; without a handle of its own the call
   may close one that was left open. *)
CommitNothing ==
    /\ step = "idle" /\ Pending = {}
    /\ \/ UNCHANGED sessions
       \/ sessions = MaxSessions /\ sessions > 0 /\ sessions' = sessions - 1
    /\ reply' = "notSaved"
    /\ UNCHANGED <<cache, file, step, usable, history, bounds>>

(* Fault: the changes are given up. *)
FailAndForget ==
    /\ reply' = "notSaved" /\ step' = "idle" /\ usable' = FALSE
    /\ cache' = [k \in Keys |-> [cache[k] EXCEPT !.pending = FALSE]]
    /\ UNCHANGED <<sessions, history, sets, resets>>

(* The function returns at once: the change in hand and those after it stay
   pending, and the session stays open. *)
Fail ==
    /\ reply' = "notSaved" /\ step' = "idle" /\ usable' = FALSE
    /\ UNCHANGED <<cache, sessions, history, sets, resets>>

FileOperationFails == faults < MaxFaults /\ faults' = faults + 1

(* A claim credential is refused before anything is removed, one of the device
   only for want of a session of its own. *)
Refused ==
    \/ Kind[KeyInHand] = "claim" /\ (~usable \/ cache[KeyInHand].value \in Malformed)
    \/ Kind[KeyInHand] = "device" /\ sessions = MaxSessions

Refuse ==
    /\ step = "start" /\ Refused
    /\ Fail
    /\ UNCHANGED <<file, faults>>

(* Fault: all the old files are removed before the first is written. *)
RemoveAll ==
    /\ step = "start" /\ ~Refused
    /\ file' = [k \in Keys |-> IF k \in Pending THEN Absent ELSE file[k]]
    /\ step' = IF Kind[KeyInHand] = "device" THEN "convert" ELSE "open"
    /\ UNCHANGED <<cache, sessions, usable, reply, history, bounds>>

Remove ==
    /\ step = "start" /\ ~Refused
    /\ file' = [file EXCEPT ![KeyInHand] = Absent]
    /\ step' = IF Kind[KeyInHand] = "device" THEN "convert" ELSE "open"
    /\ UNCHANGED <<cache, sessions, usable, reply, history, bounds>>

RemoveFailed ==
    /\ step = "start" /\ ~Refused
    /\ FileOperationFails
    /\ Fail
    /\ UNCHANGED file

(* xPreProvisionDevice has destroyed the old object when it finds that there is
   nothing to make of the new text. *)
Convert ==
    /\ step = "convert"
    /\ IF cache[KeyInHand].value \in Malformed
       THEN Fail
       ELSE step' = "open" /\ UNCHANGED <<cache, sessions, usable, reply, history, sets, resets>>
    /\ UNCHANGED <<file, faults>>

Open ==
    /\ step = "open"
    /\ file' = [file EXCEPT ![KeyInHand] = Empty]
    /\ step' = "write"
    /\ UNCHANGED <<cache, sessions, usable, reply, history, bounds>>

OpenFailed ==
    /\ step = "open"
    /\ FileOperationFails
    /\ Fail
    /\ UNCHANGED file

(* The next change, or the end of the commit. *)
Committed ==
    /\ cache' = [cache EXCEPT ![KeyInHand].pending = FALSE]
    /\ IF Pending = {KeyInHand}
       THEN CloseSession /\ step' = "idle" /\ usable' = FALSE /\ reply' = "saved"
       ELSE step' = "start" /\ UNCHANGED <<sessions, usable, reply>>

Write ==
    /\ step = "write"
    /\ file' = [file EXCEPT ![KeyInHand] = cache[KeyInHand].value]
    /\ doubt' = doubt \ {KeyInHand}
    /\ Committed
    /\ UNCHANGED <<old, target, bounds>>

WriteFailed ==
    /\ step = "write"
    /\ FileOperationFails
    /\ Fail
    /\ UNCHANGED file

(* The result of LfsCommon_FileClose is not looked at. *)
CloseFailed ==
    /\ step = "write"
    /\ FileOperationFails
    /\ doubt' = doubt \cup {KeyInHand}
    /\ Committed
    /\ UNCHANGED <<file, old, target, sets, resets>>

Commit ==
    \/ CommitChanges \/ CommitNothing \/ Refuse
    \/ Remove \/ RemoveFailed \/ Convert \/ Open \/ OpenFailed
    \/ Write \/ WriteFailed \/ CloseFailed

Next ==
    \/ \E k \in Keys : Get(k) \/ \E v \in Values : Set(k, v)
    \/ Format \/ FormatFailed \/ Reset \/ Commit

Spec == Init /\ [][Next]_vars

------------------------------------------------------------------------------
(* Properties *)

Files == [Keys -> Values \cup {Absent, Empty}]

Entries ==
    [type : {"none", "string"}, value : Values \cup {Absent, Binary}, pending : BOOLEAN]

CacheOK ==
    /\ cache \in [Keys -> Entries]
    /\ \A k \in Keys : cache[k].pending => cache[k].value \in Values

TypeOK ==
    /\ CacheOK
    /\ file \in Files /\ old \in Files /\ target \in Files
    /\ step \in {"idle", "start", "convert", "open", "write"}
    /\ step # "idle" => Pending # {}
    /\ sessions \in 0 .. MaxSessions /\ usable \in BOOLEAN
    /\ reply \in {"none", "saved", "notSaved"}
    /\ doubt \subseteq Keys
    /\ sets \in 0 .. MaxSets /\ faults \in 0 .. MaxFaults /\ resets \in 0 .. MaxResets

(* However a commit ends, also by a reset at any of its steps, the files are
   those it asked for up to some key, and those from before after it; only the
   value of that one key may be lost.  A file that could not be closed is empty. *)
PrefixCommitted ==
    \E n \in 1 .. NumKeys + 1 :
        /\ \A k \in Keys : k < n => file[k] = target[k] \/ (file[k] = Empty /\ faults > 0)
        /\ \A k \in Keys : k > n => file[k] = old[k]
        /\ n \in Keys => file[n] \in {old[n], Absent, Empty}
        /\ reply = "saved" => n = NumKeys + 1

(* Between commands, a value in the cache that is not marked as a change is the
   stored one, so that the next commit writes all that is missing, after a commit
   that failed too.  What a get or a file that could not be closed has dropped is
   the exception. *)
CleanMeansStored ==
    step = "idle" =>
        \A k \in Keys \ doubt :
            cache[k].value \in Values /\ ~cache[k].pending => file[k] = cache[k].value
================================================================================
