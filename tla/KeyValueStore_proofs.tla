--------------------------- MODULE KeyValueStore_proofs ---------------------------
(***************************************************************************)
(* Commits of the key value store, for every number and kind of keys, every *)
(* limit of sessions, and any number of faults and resets.                  *)
(*                                                                         *)
(* PrefixCommitted looks at the files when a commit has ended or was cut    *)
(* short; InCommit says how they stand at each of its steps.                *)
(***************************************************************************)
EXTENDS KeyValueStore, TLAPS, WellFoundedInduction

(* The session of a commit is one of those that are open. *)
SessionOpen == usable => sessions > 0 /\ step # "idle"

(* The keys before the one in hand are written, those after it are not touched,
   and what is pending is what the commit asks for. *)
InCommit ==
    step # "idle" =>
        /\ reply # "saved"
        /\ \A k \in Pending : target[k] = cache[k].value
        /\ \A k \in Keys \ Pending : k > KeyInHand => target[k] = old[k]
        /\ \A k \in Keys : k < KeyInHand =>
               file[k] = target[k] \/ (file[k] = Empty /\ faults > 0)
        /\ \A k \in Keys : k > KeyInHand => file[k] = old[k]
        /\ file[KeyInHand] \in {old[KeyInHand], Absent, Empty}
        /\ step = "write" => file[KeyInHand] = Empty

(* CleanMeansStored, at each step of a commit too. *)
CleanAlways ==
    \A k \in Keys \ doubt :
        cache[k].value \in Values /\ ~cache[k].pending => file[k] = cache[k].value

IInv == TypeOK /\ SessionOpen /\ InCommit /\ CleanAlways /\ PrefixCommitted

Less == {ss \in Nat \X Nat : ss[1] < ss[2]}

(* A set of natural numbers has a least one. *)
LEMMA LeastNumber ==
    ASSUME NEW S, S \subseteq Nat, S # {}
    PROVE  \E j \in S : \A k \in S : j <= k
<1>1. IsWellFoundedOn(Less, Nat)
    BY NatLessThanWellFounded, Zenon DEF OpToRel, Less
<1>2. PICK j \in S : \A k \in S : <<k, j>> \notin Less
    BY <1>1, WFMin
<1>3. \A a, b \in Nat : a < b => <<a, b>> \in Less
    BY DEF Less
<1>4. ASSUME NEW k \in S PROVE j <= k
    <2>1. j \in Nat /\ k \in Nat
        OBVIOUS
    <2>2. ~(k < j)
        BY <1>2, <1>3, <2>1
    <2> QED BY <2>1, <2>2
<1> QED BY <1>4

(* The key in hand is the first one pending. *)
LEMMA FirstOf ==
    ASSUME NEW S, S \subseteq Keys, S # {}, NEW h, h = CHOOSE k \in S : \A j \in S : k <= j
    PROVE  h \in S /\ \A j \in S : h <= j
<1>1. S \subseteq Nat
    BY KeysAssumption DEF Keys
<1>2. \E k \in S : \A j \in S : k <= j
    BY <1>1, LeastNumber
<1> QED BY <1>2

(* The initial state satisfies IInv. *)
LEMMA InitIInv == Init => IInv
<1> SUFFICES ASSUME Init PROVE IInv
    OBVIOUS
<1>1. \A k \in Keys : cache[k] = NoEntry
    BY ValuesAssumption DEF Init, CacheInit, AllAbsent
<1>2. TypeOK
    <2>1. cache \in [Keys -> Entries]
        <3>1. NoEntry \in Entries
            BY DEF NoEntry, Entry, Entries
        <3>2. cache = [k \in Keys |-> cache[k]]
            BY DEF Init, CacheInit
        <3> QED BY <1>1, <3>1, <3>2
    <2>2. file \in Files /\ old \in Files /\ target \in Files
        BY DEF Init, Files, AllAbsent
    <2>3. \A k \in Keys : ~cache[k].pending
        BY <1>1 DEF NoEntry, Entry
    <2>4. 0 \in 0 .. MaxSessions /\ 0 \in 0 .. MaxSets /\ 0 \in 0 .. MaxFaults /\ 0 \in 0 .. MaxResets
        BY BoundsAssumption
    <2>5. CacheOK
        BY <2>1, <2>3 DEF CacheOK
    <2>6. /\ step = "idle" /\ sessions = 0 /\ usable = FALSE /\ reply = "none" /\ doubt = {}
          /\ sets = 0 /\ faults = 0 /\ resets = 0
        BY DEF Init
    <2> QED BY <2>2, <2>4, <2>5, <2>6, Zenon DEF TypeOK
<1>3. SessionOpen /\ InCommit
    BY DEF Init, SessionOpen, InCommit
<1>4. CleanAlways
    BY <1>1, ValuesAssumption DEF CleanAlways, NoEntry, Entry
<1>5. PrefixCommitted
    <2>1. NumKeys + 1 \in 1 .. NumKeys + 1
        BY KeysAssumption
    <2>2. \A k \in Keys : file[k] = target[k] /\ ~(k > NumKeys + 1)
        BY KeysAssumption DEF Init, Keys
    <2>3. NumKeys + 1 \notin Keys
        BY KeysAssumption DEF Keys
    <2>4. reply # "saved"
        BY DEF Init
    <2> QED BY <2>1, <2>2, <2>3, <2>4 DEF PrefixCommitted
<1> QED BY <1>2, <1>3, <1>4, <1>5 DEF IInv

(* A change that is pending is one of the values. *)
LEMMA NextCache == IInv /\ [Next]_vars => CacheOK'
<1> SUFFICES ASSUME IInv, [Next]_vars PROVE CacheOK'
    OBVIOUS
<1> USE DEF IInv, CacheOK, bounds
<1>a. CacheOK
    BY DEF TypeOK
<1>h. Pending # {} => KeyInHand \in Keys
    BY FirstOf DEF KeyInHand, Pending
<1>n. step # "idle" => Pending # {}
    BY DEF TypeOK
<1>e. /\ NoEntry \in Entries /\ ~NoEntry.pending
      /\ \A v \in Values \cup {Absent, Binary}, p \in BOOLEAN :
             Entry("string", v, p) \in Entries /\ Entry("string", v, p).value = v
             /\ Entry("string", v, p).pending = p
    BY DEF NoEntry, Entry, Entries
<1>1. CASE CommitChanges
    BY <1>1, <1>a DEF CommitChanges, OpenSession
<1>2. CASE CommitNothing
    BY <1>2, <1>a DEF CommitNothing
<1>3. CASE Refuse
    BY <1>3, <1>a DEF Refuse, Fail
<1>4. CASE Remove
    BY <1>4, <1>a DEF Remove
<1>5. CASE RemoveFailed
    BY <1>5, <1>a DEF RemoveFailed, Fail, FileOperationFails
<1>6. CASE Convert
    BY <1>6, <1>a DEF Convert, Fail
<1>7. CASE Open
    BY <1>7, <1>a DEF Open
<1>8. CASE OpenFailed
    BY <1>8, <1>a DEF OpenFailed, Fail, FileOperationFails
<1>9. CASE Write
    BY <1>9, <1>a, <1>h, <1>n DEF Write, Committed, CloseSession, Entries
<1>10. CASE WriteFailed
    BY <1>10, <1>a DEF WriteFailed, Fail, FileOperationFails
<1>11. CASE CloseFailed
    BY <1>11, <1>a, <1>h, <1>n DEF CloseFailed, Committed, CloseSession, FileOperationFails, Entries
<1>12. CASE Format
    BY <1>12, <1>e DEF Format, Formatted
<1>13. CASE FormatFailed
    BY <1>13, <1>a DEF FormatFailed, Formatted
<1>14. CASE Reset
    <2>1. \A k \in Keys : cache'[k] = NoEntry \/ \E v \in Values : cache'[k] = Entry("string", v, FALSE)
        BY <1>14 DEF Reset, CacheInit
    <2>2. cache' = [k \in Keys |-> cache'[k]]
        BY <1>14 DEF Reset, CacheInit
    <2>3. \A k \in Keys : cache'[k] \in Entries /\ ~cache'[k].pending
        BY <1>e, <2>1
    <2> QED BY <2>2, <2>3
<1>15. ASSUME NEW k \in Keys, Get(k) PROVE CacheOK'
    <2>1. \E v \in Values \cup {Absent, Binary} : cache' = [cache EXCEPT ![k] = Entry("string", v, FALSE)]
        <3>1. cache[k].value \in Values \cup {Absent, Binary}
            BY <1>a DEF Entries
        <3> QED BY <1>15, <3>1 DEF Get
    <2> QED BY <1>a, <1>e, <2>1
<1>16. ASSUME NEW k \in Keys, NEW v \in Values, Set(k, v) PROVE CacheOK'
    <2>1. cache' = [cache EXCEPT ![k] = Entry("string", v, TRUE)] \/ cache' = cache
        BY <1>16, <1>a DEF Set
    <2>2. Entry("string", v, TRUE) \in Entries /\ Entry("string", v, TRUE).value = v
        BY <1>e
    <2> QED BY <1>a, <2>1, <2>2
<1>17. CASE UNCHANGED vars
    BY <1>17, <1>a DEF vars, CacheOK
<1> QED
    BY <1>1, <1>2, <1>3, <1>4, <1>5, <1>6, <1>7, <1>8, <1>9, <1>10, <1>11, <1>12, <1>13, <1>14, <1>15, <1>16, <1>17
       DEF Next, Commit

(* The files hold values, and no more sessions are open than allowed. *)
LEMMA NextType == IInv /\ [Next]_vars => TypeOK' /\ SessionOpen'
<1> SUFFICES ASSUME IInv, [Next]_vars PROVE TypeOK' /\ SessionOpen'
    OBVIOUS
<1> USE BoundsAssumption DEF IInv, SessionOpen, history, bounds
<1>t. /\ file \in Files /\ old \in Files /\ target \in Files
      /\ step \in {"idle", "start", "convert", "open", "write"}
      /\ step # "idle" => Pending # {}
      /\ sessions \in 0 .. MaxSessions /\ usable \in BOOLEAN
      /\ reply \in {"none", "saved", "notSaved"} /\ doubt \subseteq Keys
      /\ sets \in 0 .. MaxSets /\ faults \in 0 .. MaxFaults /\ resets \in 0 .. MaxResets
    BY DEF TypeOK
<1>a. CacheOK /\ CacheOK'
    BY NextCache DEF TypeOK
<1>h. Pending # {} => KeyInHand \in Pending
    BY FirstOf DEF KeyInHand, Pending
<1>k. Pending \subseteq Keys
    BY DEF Pending
<1>v. \A k \in Pending : cache[k].value \in Values
    BY <1>a DEF CacheOK, Pending
<1>b. (UNCHANGED cache) => Pending' = Pending
    BY DEF Pending
<1>f. AllAbsent \in Files /\ \A g \in Files, k \in Keys, c \in Values \cup {Absent, Empty} :
          [g EXCEPT ![k] = c] \in Files
    BY DEF AllAbsent, Files
<1>1. CASE CommitChanges
    <2>1. target' \in Files
        BY <1>1, <1>t, <1>v DEF CommitChanges, Files
    <2>2. sessions' \in 0 .. MaxSessions /\ usable' \in BOOLEAN /\ (usable' => sessions' > 0)
        <3>1. CASE sessions < MaxSessions
            BY <1>1, <1>t, <3>1 DEF CommitChanges, OpenSession
        <3>2. CASE ~(sessions < MaxSessions) /\ sessions = 0
            BY <1>1, <1>t, <3>2 DEF CommitChanges, OpenSession
        <3>3. CASE ~(sessions < MaxSessions) /\ sessions # 0
            BY <1>1, <1>t, <3>3 DEF CommitChanges, OpenSession
        <3> QED BY <3>1, <3>2, <3>3
    <2>3. step' = "start" /\ Pending' # {} /\ old' = file /\ reply' = "none"
          /\ UNCHANGED <<file, doubt, sets, faults, resets>>
        BY <1>1, <1>b DEF CommitChanges
    <2> QED BY <1>t, <1>a, <2>1, <2>2, <2>3 DEF TypeOK
<1>2. CASE CommitNothing
    <2>1. sessions' \in 0 .. MaxSessions /\ (usable' => sessions' > 0 /\ step' # "idle")
        BY <1>2, <1>t DEF CommitNothing
    <2>2. file' \in Files /\ old' \in Files /\ target' \in Files
        BY <1>2, <1>t, <1>f, <1>h, <1>k DEF CommitNothing
    <2>3. step' # "idle" => Pending' # {}
        BY <1>2, <1>t, <1>b DEF CommitNothing
    <2>4. usable' \in BOOLEAN /\ reply' \in {"none", "saved", "notSaved"} /\ doubt' \subseteq Keys
          /\ step' \in {"idle", "start", "convert", "open", "write"}
        BY <1>2, <1>t, <1>h, <1>k DEF CommitNothing
    <2>5. sets' \in 0 .. MaxSets /\ faults' \in 0 .. MaxFaults /\ resets' \in 0 .. MaxResets
        BY <1>2, <1>t DEF CommitNothing
    <2> QED BY <1>a, <2>1, <2>2, <2>3, <2>4, <2>5 DEF TypeOK
<1>3. CASE Refuse
    <2>1. sessions' \in 0 .. MaxSessions /\ (usable' => sessions' > 0 /\ step' # "idle")
        BY <1>3, <1>t DEF Refuse, Fail
    <2>2. file' \in Files /\ old' \in Files /\ target' \in Files
        BY <1>3, <1>t, <1>f, <1>h, <1>k DEF Refuse, Fail
    <2>3. step' # "idle" => Pending' # {}
        BY <1>3, <1>t, <1>b DEF Refuse, Fail
    <2>4. usable' \in BOOLEAN /\ reply' \in {"none", "saved", "notSaved"} /\ doubt' \subseteq Keys
          /\ step' \in {"idle", "start", "convert", "open", "write"}
        BY <1>3, <1>t, <1>h, <1>k DEF Refuse, Fail
    <2>5. sets' \in 0 .. MaxSets /\ faults' \in 0 .. MaxFaults /\ resets' \in 0 .. MaxResets
        BY <1>3, <1>t DEF Refuse, Fail
    <2> QED BY <1>a, <2>1, <2>2, <2>3, <2>4, <2>5 DEF TypeOK
<1>4. CASE Remove
    <2>1. sessions' \in 0 .. MaxSessions /\ (usable' => sessions' > 0 /\ step' # "idle")
        BY <1>4, <1>t DEF Remove
    <2>2. file' \in Files /\ old' \in Files /\ target' \in Files
        BY <1>4, <1>t, <1>f, <1>h, <1>k DEF Remove
    <2>3. step' # "idle" => Pending' # {}
        BY <1>4, <1>t, <1>b DEF Remove
    <2>4. usable' \in BOOLEAN /\ reply' \in {"none", "saved", "notSaved"} /\ doubt' \subseteq Keys
          /\ step' \in {"idle", "start", "convert", "open", "write"}
        BY <1>4, <1>t, <1>h, <1>k DEF Remove
    <2>5. sets' \in 0 .. MaxSets /\ faults' \in 0 .. MaxFaults /\ resets' \in 0 .. MaxResets
        BY <1>4, <1>t DEF Remove
    <2> QED BY <1>a, <2>1, <2>2, <2>3, <2>4, <2>5 DEF TypeOK
<1>5. CASE RemoveFailed
    <2>1. sessions' \in 0 .. MaxSessions /\ (usable' => sessions' > 0 /\ step' # "idle")
        BY <1>5, <1>t DEF RemoveFailed, Fail, FileOperationFails
    <2>2. file' \in Files /\ old' \in Files /\ target' \in Files
        BY <1>5, <1>t, <1>f, <1>h, <1>k DEF RemoveFailed, Fail, FileOperationFails
    <2>3. step' # "idle" => Pending' # {}
        BY <1>5, <1>t, <1>b DEF RemoveFailed, Fail, FileOperationFails
    <2>4. usable' \in BOOLEAN /\ reply' \in {"none", "saved", "notSaved"} /\ doubt' \subseteq Keys
          /\ step' \in {"idle", "start", "convert", "open", "write"}
        BY <1>5, <1>t, <1>h, <1>k DEF RemoveFailed, Fail, FileOperationFails
    <2>5. sets' \in 0 .. MaxSets /\ faults' \in 0 .. MaxFaults /\ resets' \in 0 .. MaxResets
        BY <1>5, <1>t DEF RemoveFailed, Fail, FileOperationFails
    <2> QED BY <1>a, <2>1, <2>2, <2>3, <2>4, <2>5 DEF TypeOK
<1>6. CASE Convert
    <2>1. sessions' \in 0 .. MaxSessions /\ (usable' => sessions' > 0 /\ step' # "idle")
        BY <1>6, <1>t DEF Convert, Fail
    <2>2. file' \in Files /\ old' \in Files /\ target' \in Files
        BY <1>6, <1>t, <1>f, <1>h, <1>k DEF Convert, Fail
    <2>3. step' # "idle" => Pending' # {}
        BY <1>6, <1>t, <1>b DEF Convert, Fail
    <2>4. usable' \in BOOLEAN /\ reply' \in {"none", "saved", "notSaved"} /\ doubt' \subseteq Keys
          /\ step' \in {"idle", "start", "convert", "open", "write"}
        BY <1>6, <1>t, <1>h, <1>k DEF Convert, Fail
    <2>5. sets' \in 0 .. MaxSets /\ faults' \in 0 .. MaxFaults /\ resets' \in 0 .. MaxResets
        BY <1>6, <1>t DEF Convert, Fail
    <2> QED BY <1>a, <2>1, <2>2, <2>3, <2>4, <2>5 DEF TypeOK
<1>7. CASE Open
    <2>1. sessions' \in 0 .. MaxSessions /\ (usable' => sessions' > 0 /\ step' # "idle")
        BY <1>7, <1>t DEF Open
    <2>2. file' \in Files /\ old' \in Files /\ target' \in Files
        BY <1>7, <1>t, <1>f, <1>h, <1>k DEF Open
    <2>3. step' # "idle" => Pending' # {}
        BY <1>7, <1>t, <1>b DEF Open
    <2>4. usable' \in BOOLEAN /\ reply' \in {"none", "saved", "notSaved"} /\ doubt' \subseteq Keys
          /\ step' \in {"idle", "start", "convert", "open", "write"}
        BY <1>7, <1>t, <1>h, <1>k DEF Open
    <2>5. sets' \in 0 .. MaxSets /\ faults' \in 0 .. MaxFaults /\ resets' \in 0 .. MaxResets
        BY <1>7, <1>t DEF Open
    <2> QED BY <1>a, <2>1, <2>2, <2>3, <2>4, <2>5 DEF TypeOK
<1>8. CASE OpenFailed
    <2>1. sessions' \in 0 .. MaxSessions /\ (usable' => sessions' > 0 /\ step' # "idle")
        BY <1>8, <1>t DEF OpenFailed, Fail, FileOperationFails
    <2>2. file' \in Files /\ old' \in Files /\ target' \in Files
        BY <1>8, <1>t, <1>f, <1>h, <1>k DEF OpenFailed, Fail, FileOperationFails
    <2>3. step' # "idle" => Pending' # {}
        BY <1>8, <1>t, <1>b DEF OpenFailed, Fail, FileOperationFails
    <2>4. usable' \in BOOLEAN /\ reply' \in {"none", "saved", "notSaved"} /\ doubt' \subseteq Keys
          /\ step' \in {"idle", "start", "convert", "open", "write"}
        BY <1>8, <1>t, <1>h, <1>k DEF OpenFailed, Fail, FileOperationFails
    <2>5. sets' \in 0 .. MaxSets /\ faults' \in 0 .. MaxFaults /\ resets' \in 0 .. MaxResets
        BY <1>8, <1>t DEF OpenFailed, Fail, FileOperationFails
    <2> QED BY <1>a, <2>1, <2>2, <2>3, <2>4, <2>5 DEF TypeOK
<1>9. CASE Write
    <2>1. sessions' \in 0 .. MaxSessions /\ (usable' => sessions' > 0 /\ step' # "idle")
        BY <1>9, <1>t DEF Write, Committed, CloseSession
    <2>2. file' \in Files /\ old' \in Files /\ target' \in Files
        BY <1>9, <1>t, <1>f, <1>h, <1>k, <1>v DEF Write, Committed, CloseSession
    <2>3. step' # "idle" => Pending' # {}
        <3>1. ASSUME step' # "idle" PROVE \E k \in Pending : k # KeyInHand
            BY <1>9, <1>t, <1>h, <3>1 DEF Write, Committed, CloseSession
        <3>2. ASSUME NEW k \in Pending, k # KeyInHand PROVE k \in Pending'
            BY <1>9, <1>a, <1>k, <3>2 DEF Write, Committed, CloseSession, Pending, CacheOK, Entries
        <3> QED BY <3>1, <3>2
    <2>4. usable' \in BOOLEAN /\ reply' \in {"none", "saved", "notSaved"} /\ doubt' \subseteq Keys
          /\ step' \in {"idle", "start", "convert", "open", "write"}
        BY <1>9, <1>t, <1>h, <1>k DEF Write, Committed, CloseSession
    <2>5. sets' \in 0 .. MaxSets /\ faults' \in 0 .. MaxFaults /\ resets' \in 0 .. MaxResets
        BY <1>9, <1>t DEF Write, Committed, CloseSession
    <2> QED BY <1>a, <2>1, <2>2, <2>3, <2>4, <2>5 DEF TypeOK
<1>10. CASE WriteFailed
    <2>1. sessions' \in 0 .. MaxSessions /\ (usable' => sessions' > 0 /\ step' # "idle")
        BY <1>10, <1>t DEF WriteFailed, Fail, FileOperationFails
    <2>2. file' \in Files /\ old' \in Files /\ target' \in Files
        BY <1>10, <1>t, <1>f, <1>h, <1>k DEF WriteFailed, Fail, FileOperationFails
    <2>3. step' # "idle" => Pending' # {}
        BY <1>10, <1>t, <1>b DEF WriteFailed, Fail, FileOperationFails
    <2>4. usable' \in BOOLEAN /\ reply' \in {"none", "saved", "notSaved"} /\ doubt' \subseteq Keys
          /\ step' \in {"idle", "start", "convert", "open", "write"}
        BY <1>10, <1>t, <1>h, <1>k DEF WriteFailed, Fail, FileOperationFails
    <2>5. sets' \in 0 .. MaxSets /\ faults' \in 0 .. MaxFaults /\ resets' \in 0 .. MaxResets
        BY <1>10, <1>t DEF WriteFailed, Fail, FileOperationFails
    <2> QED BY <1>a, <2>1, <2>2, <2>3, <2>4, <2>5 DEF TypeOK
<1>11. CASE CloseFailed
    <2>1. sessions' \in 0 .. MaxSessions /\ (usable' => sessions' > 0 /\ step' # "idle")
        BY <1>11, <1>t DEF CloseFailed, Committed, CloseSession, FileOperationFails
    <2>2. file' \in Files /\ old' \in Files /\ target' \in Files
        BY <1>11, <1>t, <1>f, <1>h, <1>k, <1>v DEF CloseFailed, Committed, CloseSession, FileOperationFails
    <2>3. step' # "idle" => Pending' # {}
        <3>1. ASSUME step' # "idle" PROVE \E k \in Pending : k # KeyInHand
            BY <1>11, <1>t, <1>h, <3>1 DEF CloseFailed, Committed, CloseSession, FileOperationFails
        <3>2. ASSUME NEW k \in Pending, k # KeyInHand PROVE k \in Pending'
            BY <1>11, <1>a, <1>k, <3>2 DEF CloseFailed, Committed, CloseSession, FileOperationFails, Pending, CacheOK, Entries
        <3> QED BY <3>1, <3>2
    <2>4. usable' \in BOOLEAN /\ reply' \in {"none", "saved", "notSaved"} /\ doubt' \subseteq Keys
          /\ step' \in {"idle", "start", "convert", "open", "write"}
        BY <1>11, <1>t, <1>h, <1>k DEF CloseFailed, Committed, CloseSession, FileOperationFails
    <2>5. sets' \in 0 .. MaxSets /\ faults' \in 0 .. MaxFaults /\ resets' \in 0 .. MaxResets
        BY <1>11, <1>t DEF CloseFailed, Committed, CloseSession, FileOperationFails
    <2> QED BY <1>a, <2>1, <2>2, <2>3, <2>4, <2>5 DEF TypeOK
<1>12. CASE Format
    <2>1. sessions' \in 0 .. MaxSessions /\ (usable' => sessions' > 0 /\ step' # "idle")
        BY <1>12, <1>t DEF Format, Formatted
    <2>2. file' \in Files /\ old' \in Files /\ target' \in Files
        BY <1>12, <1>t, <1>f, <1>h, <1>k DEF Format, Formatted
    <2>3. step' # "idle" => Pending' # {}
        BY <1>12, <1>t, <1>b DEF Format, Formatted
    <2>4. usable' \in BOOLEAN /\ reply' \in {"none", "saved", "notSaved"} /\ doubt' \subseteq Keys
          /\ step' \in {"idle", "start", "convert", "open", "write"}
        BY <1>12, <1>t, <1>h, <1>k DEF Format, Formatted
    <2>5. sets' \in 0 .. MaxSets /\ faults' \in 0 .. MaxFaults /\ resets' \in 0 .. MaxResets
        BY <1>12, <1>t DEF Format, Formatted
    <2> QED BY <1>a, <2>1, <2>2, <2>3, <2>4, <2>5 DEF TypeOK
<1>13. CASE FormatFailed
    <2>1. sessions' \in 0 .. MaxSessions /\ (usable' => sessions' > 0 /\ step' # "idle")
        BY <1>13, <1>t DEF FormatFailed, Formatted
    <2>2. file' \in Files /\ old' \in Files /\ target' \in Files
        BY <1>13, <1>t, <1>f, <1>h, <1>k DEF FormatFailed, Formatted
    <2>3. step' # "idle" => Pending' # {}
        BY <1>13, <1>t, <1>b DEF FormatFailed, Formatted
    <2>4. usable' \in BOOLEAN /\ reply' \in {"none", "saved", "notSaved"} /\ doubt' \subseteq Keys
          /\ step' \in {"idle", "start", "convert", "open", "write"}
        BY <1>13, <1>t, <1>h, <1>k DEF FormatFailed, Formatted
    <2>5. sets' \in 0 .. MaxSets /\ faults' \in 0 .. MaxFaults /\ resets' \in 0 .. MaxResets
        BY <1>13, <1>t DEF FormatFailed, Formatted
    <2> QED BY <1>a, <2>1, <2>2, <2>3, <2>4, <2>5 DEF TypeOK
<1>14. CASE Reset
    <2>1. resets' \in 0 .. MaxResets
        BY <1>14, <1>t DEF Reset
    <2>2. step' = "idle" /\ sessions' = 0 /\ usable' = FALSE /\ reply' = "none" /\ doubt' = {}
          /\ 0 \in 0 .. MaxSessions /\ UNCHANGED <<file, old, target, sets, faults>>
        BY <1>14 DEF Reset
    <2> QED BY <1>t, <1>a, <2>1, <2>2 DEF TypeOK
<1>15. ASSUME NEW k \in Keys, Get(k) PROVE TypeOK' /\ SessionOpen'
    BY <1>15, <1>t, <1>a DEF Get, TypeOK
<1>16. ASSUME NEW k \in Keys, NEW v \in Values, Set(k, v) PROVE TypeOK' /\ SessionOpen'
    BY <1>16, <1>t, <1>a DEF Set, TypeOK
<1>17. CASE UNCHANGED vars
    BY <1>17, <1>t, <1>b, <1>a DEF vars, TypeOK
<1> QED
    BY <1>1, <1>2, <1>3, <1>4, <1>5, <1>6, <1>7, <1>8, <1>9, <1>10, <1>11, <1>12, <1>13, <1>14, <1>15, <1>16, <1>17
       DEF Next, Commit

(* A value that is not marked as a change is the stored one. *)
LEMMA NextClean == IInv /\ [Next]_vars => CleanAlways'
<1> SUFFICES ASSUME IInv, [Next]_vars PROVE CleanAlways'
    OBVIOUS
<1> USE DEF IInv, CleanAlways
<1>a. CacheOK /\ doubt \subseteq Keys
    BY DEF TypeOK
<1>h. step # "idle" => KeyInHand \in Pending
    BY FirstOf DEF KeyInHand, Pending, TypeOK
<1>v. Absent \notin Values /\ Empty \notin Values /\ Binary \notin Values
    BY ValuesAssumption
<1>1. CASE CommitChanges
    BY <1>1 DEF CommitChanges, OpenSession, history
<1>2. CASE CommitNothing
    BY <1>2 DEF CommitNothing, history
<1>3. CASE Refuse
    BY <1>3 DEF Refuse, Fail, history
<1>4. CASE Remove
    BY <1>4, <1>a, <1>h DEF Remove, Pending, history, TypeOK, Files
<1>5. CASE RemoveFailed
    BY <1>5 DEF RemoveFailed, Fail, FileOperationFails, history
<1>6. CASE Convert
    BY <1>6 DEF Convert, Fail, history
<1>7. CASE Open
    BY <1>7, <1>a, <1>h DEF Open, Pending, history, TypeOK, Files
<1>8. CASE OpenFailed
    BY <1>8 DEF OpenFailed, Fail, FileOperationFails, history
<1>9. CASE Write
    BY <1>9, <1>a, <1>h DEF Write, Committed, CloseSession, Pending, CacheOK, Entries, TypeOK, Files
<1>10. CASE WriteFailed
    BY <1>10 DEF WriteFailed, Fail, FileOperationFails, history
<1>11. CASE CloseFailed
    BY <1>11, <1>a, <1>h DEF CloseFailed, Committed, CloseSession, FileOperationFails, Pending, CacheOK, Entries
<1>12. CASE Format
    BY <1>12, <1>v DEF Format, Formatted, NoEntry, Entry
<1>13. CASE FormatFailed
    BY <1>13 DEF FormatFailed, Formatted
<1>14. CASE Reset
    <2> SUFFICES ASSUME NEW k \in Keys, cache'[k].value \in Values PROVE file'[k] = cache'[k].value
        OBVIOUS
    <2>1. cache'[k] = IF Kind[k] = "file" /\ file[k] \in Values
                      THEN Entry("string", file[k], FALSE) ELSE NoEntry
        BY <1>14 DEF Reset, CacheInit
    <2> QED BY <1>14, <1>v, <2>1 DEF Reset, NoEntry, Entry
<1>15. ASSUME NEW k \in Keys, Get(k) PROVE CleanAlways'
    <2> SUFFICES ASSUME NEW j \in Keys, j \notin doubt', cache'[j].value \in Values, ~cache'[j].pending
                 PROVE  file'[j] = cache'[j].value
        OBVIOUS
    <2>1. CASE j # k
        BY <1>15, <1>a, <2>1 DEF Get, CacheOK
    <2>2. CASE j = k
        <3>1. cache'[k] = Entry("string", IF file[k] \notin Values THEN cache[k].value
                                        ELSE IF Kind[k] = "file" THEN file[k] ELSE Binary, FALSE)
            BY <1>15, <1>a DEF Get, CacheOK
        <3>2. ~cache[k].pending /\ k \notin doubt
            BY <1>15, <2>2 DEF Get
        <3> QED BY <1>15, <1>v, <2>2, <3>1, <3>2 DEF Get, Entry
    <2> QED BY <2>1, <2>2
<1>16. ASSUME NEW k \in Keys, NEW v \in Values, Set(k, v) PROVE CleanAlways'
    BY <1>16, <1>a DEF Set, Entry, CacheOK, Entries, history
<1>17. CASE UNCHANGED vars
    BY <1>17, <1>a DEF vars, history
<1> QED
    BY <1>1, <1>2, <1>3, <1>4, <1>5, <1>6, <1>7, <1>8, <1>9, <1>10, <1>11, <1>12, <1>13, <1>14, <1>15, <1>16, <1>17
       DEF Next, Commit

(* The files are those of a commit that was done up to some key. *)
LEMMA NextCommit == IInv /\ [Next]_vars => InCommit' /\ PrefixCommitted'
<1> SUFFICES ASSUME IInv, [Next]_vars PROVE InCommit' /\ PrefixCommitted'
    OBVIOUS
<1> USE DEF IInv
<1>t. /\ CacheOK /\ CacheOK' /\ faults \in Nat /\ faults' \in Nat /\ file \in Files
      /\ Keys \subseteq Nat /\ Pending \subseteq Keys /\ Pending' \subseteq Keys
      /\ (step # "idle" => Pending # {}) /\ (step' # "idle" => Pending' # {})
    BY NextCache, NextType, KeysAssumption, BoundsAssumption DEF TypeOK, Keys, Pending
<1>o. \A a, b \in Keys : (a < b \/ a = b \/ a > b) /\ ~(a < a) /\ ~(a > a) /\ (a < b <=> b > a)
          /\ (a <= b <=> ~(b < a)) /\ \A c \in Keys : a > b /\ b > c => a > c
    BY KeysAssumption DEF Keys
<1>h. Pending # {} => KeyInHand \in Pending /\ KeyInHand \in Keys /\ \A j \in Pending : KeyInHand <= j
    BY FirstOf DEF KeyInHand, Pending
<1>p. Pending' # {} => KeyInHand' \in Pending' /\ KeyInHand' \in Keys /\ \A j \in Pending' : KeyInHand' <= j
    BY FirstOf DEF KeyInHand, Pending
<1>b. (UNCHANGED cache) => Pending' = Pending /\ KeyInHand' = KeyInHand
    BY DEF Pending, KeyInHand
<1>k. Keys \subseteq 1 .. NumKeys + 1 /\ NumKeys + 1 \in 1 .. NumKeys + 1 /\ NumKeys + 1 \notin Keys
      /\ \A k \in Keys : ~(k > NumKeys + 1)
    BY KeysAssumption DEF Keys
<1>x. step' # "idle" /\ InCommit' => PrefixCommitted'
    <2> SUFFICES ASSUME step' # "idle", InCommit' PROVE PrefixCommitted'
        OBVIOUS
    <2>1. KeyInHand' \in 1 .. NumKeys + 1
        BY <1>t, <1>p, <1>k
    <2>2. /\ reply' # "saved"
          /\ \A k \in Keys : k < KeyInHand' => file'[k] = target'[k] \/ (file'[k] = Empty /\ faults' > 0)
          /\ \A k \in Keys : k > KeyInHand' => file'[k] = old'[k]
          /\ file'[KeyInHand'] \in {old'[KeyInHand'], Absent, Empty}
        BY DEF InCommit
    <2> QED BY <2>1, <2>2 DEF PrefixCommitted
<1>l. (\A k \in Keys : file'[k] = target'[k] \/ (file'[k] = Empty /\ faults' > 0)) => PrefixCommitted'
    BY <1>k DEF PrefixCommitted
<1>c. (UNCHANGED <<file, old, target>>) /\ faults' >= faults /\ reply' \in {reply, "none", "notSaved"}
          => PrefixCommitted'
    <2> SUFFICES ASSUME UNCHANGED <<file, old, target>>, faults' >= faults,
                        reply' \in {reply, "none", "notSaved"}
                 PROVE  PrefixCommitted'
        OBVIOUS
    <2>1. PICK n \in 1 .. NumKeys + 1 :
              /\ \A k \in Keys : k < n => file[k] = target[k] \/ (file[k] = Empty /\ faults > 0)
              /\ \A k \in Keys : k > n => file[k] = old[k]
              /\ n \in Keys => file[n] \in {old[n], Absent, Empty}
              /\ reply = "saved" => n = NumKeys + 1
        BY DEF PrefixCommitted
    <2>2. faults > 0 => faults' > 0
        BY <1>t
    <2> QED BY <2>1, <2>2 DEF PrefixCommitted
<1>1. CASE CommitChanges
    <2>1. step' = "start" /\ Pending # {} /\ Pending' = Pending /\ KeyInHand' = KeyInHand
          /\ reply' = "none" /\ old' = file /\ UNCHANGED <<cache, file>>
        BY <1>1, <1>b DEF CommitChanges
    <2>2. \A k \in Keys : target'[k] = IF k \in Pending THEN cache[k].value ELSE file[k]
        BY <1>1 DEF CommitChanges
    <2>3. \A k \in Keys : k < KeyInHand => k \notin Pending
        BY <1>o, <1>h, <1>t, <2>1
    <2>4. InCommit'
        BY <1>h, <1>t, <2>1, <2>2, <2>3 DEF InCommit
    <2> QED BY <1>x, <2>1, <2>4
<1>2. CASE CommitNothing
    <2>1. step' = "idle" /\ reply' \in {reply, "none", "notSaved"} /\ faults' >= faults
          /\ UNCHANGED <<file, old, target>>
        BY <1>2, <1>t DEF CommitNothing, history, bounds
    <2> QED BY <1>c, <2>1 DEF InCommit
<1>3. CASE Refuse
    <2>1. step' = "idle" /\ reply' \in {reply, "none", "notSaved"} /\ faults' >= faults
          /\ UNCHANGED <<file, old, target>>
        BY <1>3, <1>t DEF Refuse, Fail, history, bounds
    <2> QED BY <1>c, <2>1 DEF InCommit
<1>4. CASE Remove
    <2>1. step' # "idle" /\ Pending' = Pending /\ KeyInHand' = KeyInHand
        BY <1>4, <1>b DEF Remove
    <2>2. step # "idle" /\ UNCHANGED <<cache, old, target, reply, faults>>
        BY <1>4 DEF Remove, history, bounds
    <2>3. /\ file'[KeyInHand] \in {Absent, Empty} /\ (step' = "write" => file'[KeyInHand] = Empty)
          /\ \A k \in Keys : k # KeyInHand => file'[k] = file[k]
        BY <1>4, <1>h, <1>t DEF Remove, Files
    <2>4. InCommit'
        BY <1>h, <1>t, <2>1, <2>2, <2>3 DEF InCommit
    <2> QED BY <1>x, <2>1, <2>4
<1>5. CASE RemoveFailed
    <2>1. step' = "idle" /\ reply' \in {reply, "none", "notSaved"} /\ faults' >= faults
          /\ UNCHANGED <<file, old, target>>
        BY <1>5, <1>t DEF RemoveFailed, Fail, FileOperationFails, history, bounds
    <2> QED BY <1>c, <2>1 DEF InCommit
<1>6. CASE Convert
    <2>1. CASE step' = "idle"
        <3>1. reply' = "notSaved" /\ faults' = faults /\ UNCHANGED <<file, old, target>>
            BY <1>6, <2>1 DEF Convert, Fail, history
        <3> QED BY <1>c, <1>t, <2>1, <3>1 DEF InCommit
    <2>2. CASE step' # "idle"
        <3>1. step' = "open" /\ step = "convert" /\ UNCHANGED <<cache, file, old, target, reply, faults>>
            BY <1>6, <2>2 DEF Convert, Fail, history
        <3>2. Pending' = Pending /\ KeyInHand' = KeyInHand
            BY <1>b, <3>1
        <3>3. InCommit'
            BY <3>1, <3>2 DEF InCommit
        <3> QED BY <1>x, <2>2, <3>3
    <2> QED BY <2>1, <2>2
<1>7. CASE Open
    <2>1. step' # "idle" /\ Pending' = Pending /\ KeyInHand' = KeyInHand
        BY <1>7, <1>b DEF Open
    <2>2. step # "idle" /\ UNCHANGED <<cache, old, target, reply, faults>>
        BY <1>7 DEF Open, history, bounds
    <2>3. /\ file'[KeyInHand] \in {Absent, Empty} /\ (step' = "write" => file'[KeyInHand] = Empty)
          /\ \A k \in Keys : k # KeyInHand => file'[k] = file[k]
        BY <1>7, <1>h, <1>t DEF Open, Files
    <2>4. InCommit'
        BY <1>h, <1>t, <2>1, <2>2, <2>3 DEF InCommit
    <2> QED BY <1>x, <2>1, <2>4
<1>8. CASE OpenFailed
    <2>1. step' = "idle" /\ reply' \in {reply, "none", "notSaved"} /\ faults' >= faults
          /\ UNCHANGED <<file, old, target>>
        BY <1>8, <1>t DEF OpenFailed, Fail, FileOperationFails, history, bounds
    <2> QED BY <1>c, <2>1 DEF InCommit
<1>9. CASE Write
    <2> DEFINE h == KeyInHand
    <2>1. /\ step = "write" /\ h \in Keys /\ h \in Pending /\ \A j \in Pending : h <= j
          /\ InCommit
        BY <1>9, <1>h, <1>t DEF Write
    <2>2. target[h] = cache[h].value /\ file[h] = Empty
        BY <2>1 DEF InCommit
    <2>3. /\ file'[h] = target[h] \/ (file'[h] = Empty /\ faults' > 0)
          /\ \A k \in Keys : k # h => file'[k] = file[k]
          /\ (faults > 0 => faults' > 0) /\ UNCHANGED <<old, target>>
        BY <1>9, <1>t, <2>1, <2>2 DEF Write, FileOperationFails, Files, bounds
    <2>4. /\ Pending' = Pending \ {h}
          /\ \A k \in Pending' : cache'[k].value = cache[k].value
        BY <1>9, <1>t, <2>1 DEF Write, Committed, Pending, CacheOK, Entries
    <2>5. /\ \A k \in Keys : k < h => file'[k] = target[k] \/ (file'[k] = Empty /\ faults' > 0)
          /\ \A k \in Keys : k > h => file'[k] = old[k]
          /\ \A k \in Pending : target[k] = cache[k].value
          /\ \A k \in Keys \ Pending : k > h => target[k] = old[k]
        BY <1>o, <1>t, <2>1, <2>3 DEF InCommit
    <2>6. CASE Pending = {h}
        <3>1. step' = "idle"
            BY <1>9, <2>6 DEF Write, Committed
        <3>2. \A k \in Keys : k # h => target[k] = old[k] \/ k < h
            BY <1>o, <2>1, <2>5, <2>6
        <3>3. \A k \in Keys : file'[k] = target'[k] \/ (file'[k] = Empty /\ faults' > 0)
            BY <1>o, <2>1, <2>3, <2>5, <3>2
        <3> QED BY <1>l, <3>1, <3>3 DEF InCommit
    <2>7. CASE Pending # {h}
        <3>1. step' = "start" /\ reply' = reply
            BY <1>9, <2>7 DEF Write, Committed
        <3>2. Pending' # {}
            BY <2>1, <2>4, <2>7
        <3>3. /\ KeyInHand' \in Pending' /\ KeyInHand' \in Keys /\ KeyInHand' > h
              /\ \A j \in Pending' : KeyInHand' <= j
            BY <1>o, <1>t, <1>p, <2>1, <2>4, <3>2
        <3>4. \A k \in Keys : k > h /\ k < KeyInHand' => k \notin Pending
            BY <1>o, <2>1, <2>4, <3>3
        <3>5. \A k \in Keys : k < KeyInHand' =>
                  file'[k] = target'[k] \/ (file'[k] = Empty /\ faults' > 0)
            <4> SUFFICES ASSUME NEW k \in Keys, k < KeyInHand'
                         PROVE  file'[k] = target[k] \/ (file'[k] = Empty /\ faults' > 0)
                BY <2>3
            <4>1. CASE k < h
                BY <2>5, <4>1
            <4>2. CASE k = h
                BY <2>3, <4>2
            <4>3. CASE k > h
                BY <2>5, <3>4, <4>3
            <4> QED BY <1>o, <2>1, <4>1, <4>2, <4>3
        <3>6. \A k \in Keys : k > KeyInHand' => k > h
            BY <1>o, <2>1, <3>3
        <3>7. /\ \A k \in Keys : k > KeyInHand' => file'[k] = old'[k]
              /\ file'[KeyInHand'] = old'[KeyInHand']
            BY <2>3, <2>5, <3>3, <3>6
        <3>8. /\ \A k \in Pending' : target'[k] = cache'[k].value
              /\ \A k \in Keys \ Pending' : k > KeyInHand' => target'[k] = old'[k]
            <4>1. \A k \in Keys : k > KeyInHand' => k # h
                BY <1>o, <2>1, <3>3, <3>6
            <4> QED BY <1>t, <2>1, <2>3, <2>4, <2>5, <3>6, <4>1
        <3>9. reply' # "saved"
            BY <2>1, <3>1 DEF InCommit
        <3>10. InCommit'
            BY <3>1, <3>5, <3>7, <3>8, <3>9 DEF InCommit
        <3> QED BY <1>x, <3>1, <3>10
    <2> QED BY <2>6, <2>7
<1>10. CASE WriteFailed
    <2>1. step' = "idle" /\ reply' \in {reply, "none", "notSaved"} /\ faults' >= faults
          /\ UNCHANGED <<file, old, target>>
        BY <1>10, <1>t DEF WriteFailed, Fail, FileOperationFails, history, bounds
    <2> QED BY <1>c, <2>1 DEF InCommit
<1>11. CASE CloseFailed
    <2> DEFINE h == KeyInHand
    <2>1. /\ step = "write" /\ h \in Keys /\ h \in Pending /\ \A j \in Pending : h <= j
          /\ InCommit
        BY <1>11, <1>h, <1>t DEF CloseFailed
    <2>2. target[h] = cache[h].value /\ file[h] = Empty
        BY <2>1 DEF InCommit
    <2>3. /\ file'[h] = target[h] \/ (file'[h] = Empty /\ faults' > 0)
          /\ \A k \in Keys : k # h => file'[k] = file[k]
          /\ (faults > 0 => faults' > 0) /\ UNCHANGED <<old, target>>
        BY <1>11, <1>t, <2>1, <2>2 DEF CloseFailed, FileOperationFails, Files, bounds
    <2>4. /\ Pending' = Pending \ {h}
          /\ \A k \in Pending' : cache'[k].value = cache[k].value
        BY <1>11, <1>t, <2>1 DEF CloseFailed, Committed, Pending, CacheOK, Entries
    <2>5. /\ \A k \in Keys : k < h => file'[k] = target[k] \/ (file'[k] = Empty /\ faults' > 0)
          /\ \A k \in Keys : k > h => file'[k] = old[k]
          /\ \A k \in Pending : target[k] = cache[k].value
          /\ \A k \in Keys \ Pending : k > h => target[k] = old[k]
        BY <1>o, <1>t, <2>1, <2>3 DEF InCommit
    <2>6. CASE Pending = {h}
        <3>1. step' = "idle"
            BY <1>11, <2>6 DEF CloseFailed, Committed
        <3>2. \A k \in Keys : k # h => target[k] = old[k] \/ k < h
            BY <1>o, <2>1, <2>5, <2>6
        <3>3. \A k \in Keys : file'[k] = target'[k] \/ (file'[k] = Empty /\ faults' > 0)
            BY <1>o, <2>1, <2>3, <2>5, <3>2
        <3> QED BY <1>l, <3>1, <3>3 DEF InCommit
    <2>7. CASE Pending # {h}
        <3>1. step' = "start" /\ reply' = reply
            BY <1>11, <2>7 DEF CloseFailed, Committed
        <3>2. Pending' # {}
            BY <2>1, <2>4, <2>7
        <3>3. /\ KeyInHand' \in Pending' /\ KeyInHand' \in Keys /\ KeyInHand' > h
              /\ \A j \in Pending' : KeyInHand' <= j
            BY <1>o, <1>t, <1>p, <2>1, <2>4, <3>2
        <3>4. \A k \in Keys : k > h /\ k < KeyInHand' => k \notin Pending
            BY <1>o, <2>1, <2>4, <3>3
        <3>5. \A k \in Keys : k < KeyInHand' =>
                  file'[k] = target'[k] \/ (file'[k] = Empty /\ faults' > 0)
            <4> SUFFICES ASSUME NEW k \in Keys, k < KeyInHand'
                         PROVE  file'[k] = target[k] \/ (file'[k] = Empty /\ faults' > 0)
                BY <2>3
            <4>1. CASE k < h
                BY <2>5, <4>1
            <4>2. CASE k = h
                BY <2>3, <4>2
            <4>3. CASE k > h
                BY <2>5, <3>4, <4>3
            <4> QED BY <1>o, <2>1, <4>1, <4>2, <4>3
        <3>6. \A k \in Keys : k > KeyInHand' => k > h
            BY <1>o, <2>1, <3>3
        <3>7. /\ \A k \in Keys : k > KeyInHand' => file'[k] = old'[k]
              /\ file'[KeyInHand'] = old'[KeyInHand']
            BY <2>3, <2>5, <3>3, <3>6
        <3>8. /\ \A k \in Pending' : target'[k] = cache'[k].value
              /\ \A k \in Keys \ Pending' : k > KeyInHand' => target'[k] = old'[k]
            <4>1. \A k \in Keys : k > KeyInHand' => k # h
                BY <1>o, <2>1, <3>3, <3>6
            <4> QED BY <1>t, <2>1, <2>3, <2>4, <2>5, <3>6, <4>1
        <3>9. reply' # "saved"
            BY <2>1, <3>1 DEF InCommit
        <3>10. InCommit'
            BY <3>1, <3>5, <3>7, <3>8, <3>9 DEF InCommit
        <3> QED BY <1>x, <3>1, <3>10
    <2> QED BY <2>6, <2>7
<1>12. CASE Format
    <2>1. step' = "idle" /\ \A k \in Keys : file'[k] = target'[k]
        BY <1>12 DEF Format, Formatted, AllAbsent
    <2> QED BY <1>l, <2>1 DEF InCommit
<1>13. CASE FormatFailed
    <2>1. step' = "idle" /\ reply' = reply /\ faults' >= faults
        BY <1>13, <1>t DEF FormatFailed
    <2>2. CASE Formatted
        <3>1. \A k \in Keys : file'[k] = target'[k]
            BY <2>2 DEF Formatted, AllAbsent
        <3> QED BY <1>l, <2>1, <3>1 DEF InCommit
    <2>3. CASE UNCHANGED <<file, old, target>>
        BY <1>c, <2>1, <2>3 DEF InCommit
    <2> QED BY <1>13, <2>2, <2>3 DEF FormatFailed
<1>14. CASE Reset
    <2>1. step' = "idle" /\ reply' \in {reply, "none", "notSaved"} /\ faults' >= faults
          /\ UNCHANGED <<file, old, target>>
        BY <1>14, <1>t DEF Reset, history, bounds
    <2> QED BY <1>c, <2>1 DEF InCommit
<1>15. ASSUME NEW k \in Keys, Get(k) PROVE InCommit' /\ PrefixCommitted'
    <2>1. step' = "idle" /\ reply' \in {reply, "none", "notSaved"} /\ faults' >= faults
          /\ UNCHANGED <<file, old, target>>
        BY <1>15, <1>t DEF Get, history, bounds
    <2> QED BY <1>c, <2>1 DEF InCommit
<1>16. ASSUME NEW k \in Keys, NEW v \in Values, Set(k, v) PROVE InCommit' /\ PrefixCommitted'
    <2>1. step' = "idle" /\ reply' \in {reply, "none", "notSaved"} /\ faults' >= faults
          /\ UNCHANGED <<file, old, target>>
        BY <1>16, <1>t DEF Set, history, bounds
    <2> QED BY <1>c, <2>1 DEF InCommit
<1>17. CASE UNCHANGED vars
    BY <1>17, <1>b DEF vars, InCommit, PrefixCommitted, history, bounds
<1> QED
    BY <1>1, <1>2, <1>3, <1>4, <1>5, <1>6, <1>7, <1>8, <1>9, <1>10, <1>11, <1>12, <1>13, <1>14, <1>15, <1>16, <1>17
       DEF Next, Commit

(* Every step preserves IInv. *)
LEMMA NextIInv == IInv /\ [Next]_vars => IInv'
BY NextType, NextClean, NextCommit DEF IInv

(* The invariant of the specification. *)
THEOREM Invariance == Spec => []IInv
BY InitIInv, NextIInv, PTL DEF Spec

(* Every variable keeps its type: the limit of open sessions is kept, whatever
   fails and however often objects that do not exist are read. *)
THEOREM TypeCorrect == Spec => []TypeOK
BY Invariance, PTL DEF IInv

(* A commit that ends anyhow, or is cut short by a reset, has written the files up
   to some key, none after it, and lost at most the value of that one. *)
THEOREM CommitsAreOrdered == Spec => []PrefixCommitted
BY Invariance, PTL DEF IInv

(* Between commands, a value that is not marked as a change is the stored one. *)
THEOREM CleanIsStored == Spec => []CleanMeansStored
<1>1. IInv => CleanMeansStored
    BY DEF IInv, CleanAlways, CleanMeansStored
<1> QED BY Invariance, <1>1, PTL
================================================================================
