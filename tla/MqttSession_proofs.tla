-------------------------- MODULE MqttSession_proofs --------------------------
(***************************************************************************)
(* Proofs about MqttSession.                                               *)
(*                                                                         *)
(* The invariant ties each client to its command: where the client waits,  *)
(* which kind of command it waits for, and whether the command, or the     *)
(* answer, exists.  The commands of a client are counted in the queue and  *)
(* among those that await an acknowledgment, so the lemmas of the first part *)
(* say how the count changes when a command is appended, taken, kept or    *)
(* canceled; those of the second part, what an exchange looks like after a *)
(* call, an answer or a resumed session.  Then one lemma for each group of *)
(* actions, and the theorems.                                              *)
(***************************************************************************)
EXTENDS MqttSession, TLAPS, FiniteSetTheorems, FunctionTheorems, NaturalsInduction,
        SequenceTheorems

(* A client goes through the states of its own kind of task; the counts of a demo
   task fit where it is. *)
ClientsOK ==
    /\ \A w \in Wrappers : pc[w] \in {"idle", "subSend", "pubSend", "halted"} \cup Waiting
    /\ \A d \in Demos :
          /\ pc[d] \in {"subscribe", "subSend", "publish", "pubSend", "unsubSend", "done"}
                          \cup Waiting
          /\ pc[d] \in {"subscribe", "subSend", "subWait", "pubSend", "pubWait"} => left[d] > 0
          /\ pc[d] = "publish" /\ left[d] = 0 => tries[d] > 0
          /\ pc[d] = "unsubSend" => tries[d] > 0

(* Where a client waits for a command of each kind. *)
WaitOf(kind) ==
    CASE kind = "sub" -> "subWait" [] kind = "unsub" -> "unsubWait" [] OTHER -> "pubWait"

(* A command of a client is the one it waits for; the other ones are
   resubscriptions. *)
Matches(commands) ==
    \A i \in 1 .. Len(commands) :
        /\ commands[i].client \in Clients =>
              /\ commands[i].kind # "resub"
              /\ pc[commands[i].client] = WaitOf(commands[i].kind)
        /\ commands[i].client \notin Clients => commands[i].kind = "resub"

(* Commands, notifications and free structures belong together. *)
Exchange ==
    /\ Matches(queue) /\ Matches(awaiting)
    /\ pool + Len(queue) + Len(awaiting) = PoolSize
    /\ OneAnswer

(* One resubscription for each lost session, the one that is about to be queued
   and the one the next connection will queue included. *)
ResubscriptionsBounded ==
    /\ losses \in 0 .. MaxSessionLosses
    /\ agent \in {"loop", "lost", "resubscribe"} => session
    /\ Outstanding(AgentTask) + One(agent = "resubscribe")
           + One(agent = "connecting" /\ ~session) <= losses

(* The topic of a demo task leaves the table before the task is told. *)
TopicsGone ==
    \A e \in table :
        /\ e.topic \in Demos => ~(pc[e.topic] = "unsubWait" /\ notified[e.topic] = "success")
        /\ pc[e.topic] = "done" => tries[e.topic] = 0

IInv ==
    /\ TypeOK
    /\ ClientsOK
    /\ Exchange
    /\ ResubscriptionsBounded
    /\ TopicsGone

------------------------------------------------------------------------------
(* Counting the commands of a client *)

(* There are n numbers from 1 to n. *)
LEMMA IndicesCounted ==
    ASSUME NEW n \in Nat
    PROVE  IsFiniteSet(1 .. n) /\ Cardinality(1 .. n) = n
BY FS_Interval

(* A set of indices of a sequence is finite. *)
LEMMA CommandsFinite ==
    ASSUME NEW commands \in Seq(Commands), NEW c
    PROVE  /\ IsFiniteSet(CommandsOf(c, commands))
           /\ Cardinality(CommandsOf(c, commands)) \in Nat
<1>1. IsFiniteSet(1 .. Len(commands))
  BY FS_Interval
<1>2. CommandsOf(c, commands) \in SUBSET (1 .. Len(commands))
  BY DEF CommandsOf
<1>. QED  BY <1>1, <1>2, FS_Subset, FS_CardinalityType

(* A client has a command in a sequence, or its count there is zero. *)
LEMMA CommandsNone ==
    ASSUME NEW commands \in Seq(Commands), NEW c
    PROVE  Cardinality(CommandsOf(c, commands)) = 0
              <=> \A i \in 1 .. Len(commands) : commands[i].client # c
<1>1. Cardinality(CommandsOf(c, commands)) = 0 <=> CommandsOf(c, commands) = {}
  BY CommandsFinite, FS_EmptySet
<1>. QED  BY <1>1 DEF CommandsOf

(* A command that is appended adds one to the commands of its client. *)
LEMMA CommandsAppend ==
    ASSUME NEW commands \in Seq(Commands), NEW command \in Commands, NEW c
    PROVE  Cardinality(CommandsOf(c, Append(commands, command)))
              = Cardinality(CommandsOf(c, commands)) + One(command.client = c)
<1>. DEFINE longer == Append(commands, command)  n == Len(commands) + 1
<1>1. /\ Len(longer) = n /\ n \in Nat \ {0}
      /\ \A i \in 1 .. Len(commands) : longer[i] = commands[i]
      /\ longer[n] = command
  BY AppendProperties, LenProperties
<1>2. CASE command.client = c
  <2>1. CommandsOf(c, longer) = CommandsOf(c, commands) \cup {n}
    BY <1>1, <1>2 DEF CommandsOf
  <2>2. n \notin CommandsOf(c, commands)
    BY <1>1, LenProperties DEF CommandsOf
  <2>. HIDE DEF n, longer
  <2>. QED  BY <1>2, <2>1, <2>2, CommandsFinite, FS_AddElement DEF longer, One
<1>3. CASE command.client # c
  <2>1. CommandsOf(c, longer) = CommandsOf(c, commands)
    BY <1>1, <1>3 DEF CommandsOf
  <2>. QED  BY <1>3, <2>1, CommandsFinite DEF One
<1>. QED  BY <1>2, <1>3

(* The first command takes one from the commands of its client when it leaves. *)
LEMMA CommandsTail ==
    ASSUME NEW commands \in Seq(Commands), commands # <<>>, NEW c
    PROVE  Cardinality(CommandsOf(c, commands))
              = Cardinality(CommandsOf(c, Tail(commands))) + One(Head(commands).client = c)
<1>. DEFINE rest == CommandsOf(c, Tail(commands))
            later == {i \in CommandsOf(c, commands) : i # 1}
            shift == [i \in rest |-> i + 1]
<1>1. /\ Tail(commands) \in Seq(Commands)
      /\ Len(commands) \in Nat \ {0} /\ Len(Tail(commands)) = Len(commands) - 1
      /\ \A i \in 1 .. Len(Tail(commands)) : Tail(commands)[i] = commands[i + 1]
      /\ Head(commands) = commands[1]
  BY HeadTailProperties, EmptySeq, LenProperties
<1>2. shift \in Bijection(rest, later)
  <2>1. \A i \in rest : i + 1 \in later
    BY <1>1 DEF CommandsOf
  <2>2. \A k \in later : k - 1 \in rest /\ (k - 1) + 1 = k
    BY <1>1 DEF CommandsOf
  <2>3. rest \subseteq Int
    BY DEF CommandsOf
  <2>4. shift \in [rest -> later]
    BY <2>1
  <2>5. \A a, b \in rest : shift[a] = shift[b] => a = b
    BY <2>3
  <2>6. \A k \in later : \E i \in rest : shift[i] = k
    BY <2>2
  <2>. HIDE DEF rest, later, shift
  <2>. QED  BY <2>4, <2>5, <2>6, Fun_IsBij
<1>3. IsFiniteSet(rest) /\ Cardinality(later) = Cardinality(rest) /\ IsFiniteSet(later)
  <2>1. IsFiniteSet(rest)
    BY <1>1, CommandsFinite
  <2>2. ExistsBijection(rest, later)
    BY <1>2 DEF ExistsBijection
  <2>. HIDE DEF rest, later
  <2>. QED  BY <2>1, <2>2, FS_Bijection
<1>4. CASE Head(commands).client = c
  <2>1. CommandsOf(c, commands) = later \cup {1}
    BY <1>1, <1>4 DEF CommandsOf
  <2>2. 1 \notin later
    OBVIOUS
  <2>3. Cardinality(rest) \in Nat
    BY <1>1, CommandsFinite
  <2>. HIDE DEF rest, later
  <2>. QED  BY <1>3, <1>4, <2>1, <2>2, <2>3, FS_AddElement DEF One, rest
<1>5. CASE Head(commands).client # c
  <2>1. CommandsOf(c, commands) = later
    BY <1>1, <1>5 DEF CommandsOf
  <2>2. Cardinality(rest) \in Nat
    BY <1>1, CommandsFinite
  <2>. HIDE DEF rest, later
  <2>. QED  BY <1>3, <1>5, <2>1, <2>2 DEF One, rest
<1>. QED  BY <1>4, <1>5

(* A set of natural numbers that is not empty has a least element. *)
LEMMA LeastElement ==
    ASSUME NEW T \in SUBSET Nat, T # {}
    PROVE  \E least \in T : \A k \in T : least <= k
<1>1. IsWellFoundedOn({ss \in Nat \X Nat : ss[1] < ss[2]}, Nat)
  BY NatLessThanWellFounded DEF OpToRel
<1>2. PICK least \in T : \A k \in T : <<k, least>> \notin {ss \in Nat \X Nat : ss[1] < ss[2]}
  BY <1>1, WFMin
<1>3. \A k \in T : ~(k < least)
  <2>. TAKE k \in T
  <2>1. <<k, least>> \in Nat \X Nat
    OBVIOUS
  <2>. QED  BY <1>2, <2>1
<1>. QED  BY <1>3

(* A set of numbers is listed in its order. *)
LEMMA InOrder ==
    ASSUME NEW K \in SUBSET Nat, IsFiniteSet(K)
    PROVE  \E f \in [1 .. Cardinality(K) -> K] :
              /\ \A m, n \in 1 .. Cardinality(K) : m < n => f[m] < f[n]
<1>. DEFINE Listed(S) == \E f \in [1 .. Cardinality(S) -> S] :
                            \A m, n \in 1 .. Cardinality(S) : m < n => f[m] < f[n]
            Bad == {n \in Nat : \E S \in SUBSET Nat :
                                   IsFiniteSet(S) /\ Cardinality(S) = n /\ ~Listed(S)}
<1>1. SUFFICES ASSUME ~Listed(K) PROVE FALSE
  OBVIOUS
<1>2. Bad \subseteq Nat /\ Bad # {}
  BY <1>1, FS_CardinalityType
<1>3. PICK n \in Bad : \A m \in Bad : n <= m
  <2>. HIDE DEF Bad
  <2>. QED  BY <1>2, LeastElement
<1>4. PICK S \in SUBSET Nat : IsFiniteSet(S) /\ Cardinality(S) = n /\ ~Listed(S)
  OBVIOUS
<1>5. S # {}
  <2>1. [i \in 1 .. 0 |-> 0] \in [1 .. 0 -> {}]
    OBVIOUS
  <2>2. S = {} => Cardinality(S) = 0
    BY FS_EmptySet
  <2>. QED  BY <1>4, <2>1, <2>2
<1>6. PICK least \in S : \A k \in S : least <= k
  BY <1>5, LeastElement
<1>7. \A k \in S : k # least => least < k
  BY <1>6
<1>. DEFINE rest == S \ {least}
<1>8. /\ IsFiniteSet(rest) /\ Cardinality(rest) = n - 1 /\ rest \in SUBSET Nat
      /\ n \in Nat /\ n - 1 \in Nat
  <2>1. IsFiniteSet(rest) /\ Cardinality(rest) = Cardinality(S) - 1
    BY <1>4, FS_RemoveElement
  <2>2. Cardinality(rest) \in Nat
    BY <2>1, FS_CardinalityType
  <2>. HIDE DEF Listed
  <2>. QED  BY <1>4, <2>1, <2>2
<1>9. Listed(rest)
  <2>2. n - 1 \notin Bad
    <3>. HIDE DEF Bad
    <3>. QED  BY <1>3, <1>8
  <2>. HIDE DEF Listed, rest
  <2>. QED  BY <1>8, <2>2
<1>10. PICK g \in [1 .. n - 1 -> rest] :
          \A i, k \in 1 .. n - 1 : i < k => g[i] < g[k]
  BY <1>8, <1>9
<1>. DEFINE f == [i \in 1 .. n |-> IF i = 1 THEN least ELSE g[i - 1]]
<1>11. f \in [1 .. n -> S]
  BY <1>8, <1>10
<1>12. \A i, k \in 1 .. n : i < k => f[i] < f[k]
  <2>1. \A i \in 1 .. n : i # 1 => i - 1 \in 1 .. n - 1 /\ g[i - 1] \in rest
    BY <1>8, <1>10
  <2>. SUFFICES ASSUME NEW i \in 1 .. n, NEW k \in 1 .. n, i < k
                PROVE  f[i] < f[k]
    OBVIOUS
  <2>2. k # 1 /\ f[k] = g[k - 1]
    BY <1>8
  <2>3. CASE i = 1
    BY <1>7, <2>1, <2>2, <2>3
  <2>4. CASE i # 1
    BY <1>8, <1>10, <2>1, <2>2, <2>4
  <2>. QED  BY <2>3, <2>4
<1>. QED  BY <1>4, <1>11, <1>12

(* The indices of the commands that are not canceled. *)
KeptIndices == {i \in 1 .. Len(awaiting) : ~Canceled(awaiting[i])}

(* Resuming the session keeps the commands that are not canceled, once each. *)
LEMMA KeptIsSelection ==
    ASSUME awaiting \in Seq(Commands)
    PROVE  /\ Kept \in Seq(Commands)
           /\ Len(Kept) = Cardinality(KeptIndices)
           /\ \E f \in Bijection(1 .. Len(Kept), KeptIndices) :
                 \A n \in 1 .. Len(Kept) : Kept[n] = awaiting[f[n]]
<1>. DEFINE size == Cardinality(KeptIndices)
            Ascending(f) == \A m, n \in DOMAIN f : m < n => f[m] < f[n]
            inOrder == CHOOSE f \in [1 .. size -> KeptIndices] : Ascending(f)
<1>1. IsFiniteSet(KeptIndices) /\ KeptIndices \subseteq Nat /\ size \in Nat
  <2>1. Len(awaiting) \in Nat /\ IsFiniteSet(1 .. Len(awaiting))
    BY LenProperties, FS_Interval
  <2>2. KeptIndices \in SUBSET (1 .. Len(awaiting))
    BY DEF KeptIndices
  <2>3. IsFiniteSet(KeptIndices)
    BY <2>1, <2>2, FS_Subset
  <2>4. KeptIndices \subseteq Nat
    BY <2>1, <2>2
  <2>. QED  BY <2>3, <2>4, FS_CardinalityType
<1>2. inOrder \in [1 .. size -> KeptIndices] /\ Ascending(inOrder)
  <2>1. \E f \in [1 .. size -> KeptIndices] : Ascending(f)
    BY <1>1, InOrder
  <2>. QED  BY <2>1
<1>3. Kept = [n \in 1 .. size |-> awaiting[inOrder[n]]]
  BY DEF Kept, KeptIndices
<1>. HIDE DEF inOrder, size
<1>4. \A n \in 1 .. size : awaiting[inOrder[n]] \in Commands
  BY <1>2, ElementOfSeq DEF KeptIndices
<1>5. Kept \in Seq(Commands) /\ Len(Kept) = size
  BY <1>1, <1>3, <1>4
<1>6. inOrder \in Bijection(1 .. size, KeptIndices)
  <2>1. \A m, n \in 1 .. size : inOrder[m] = inOrder[n] => m = n
    <3>. SUFFICES ASSUME NEW m \in 1 .. size, NEW n \in 1 .. size, m < n \/ n < m
                  PROVE  inOrder[m] # inOrder[n]
      BY <1>1
    <3>1. inOrder[m] \in Nat /\ inOrder[n] \in Nat
      BY <1>1, <1>2
    <3>2. inOrder[m] < inOrder[n] \/ inOrder[n] < inOrder[m]
      BY <1>2
    <3>. QED  BY <3>1, <3>2
  <2>2. inOrder \in Injection(1 .. size, KeptIndices)
    BY <1>2, <2>1, Fun_IsInj
  <2>3. Cardinality(1 .. size) = Cardinality(KeptIndices)
    BY <1>1, FS_Interval DEF size
  <2>4. inOrder \in Surjection(1 .. size, KeptIndices)
    BY <1>1, <2>2, <2>3, FS_Injection
  <2>. QED  BY <2>2, <2>4, Fun_IsBij
<1>. QED  BY <1>3, <1>5, <1>6 DEF size

(* For every client, what is kept and what is canceled is what was awaiting. *)
LEMMA KeptOrCanceled ==
    ASSUME awaiting \in Seq(Commands), NEW c
    PROVE  LET canceled == {i \in CommandsOf(c, awaiting) : Canceled(awaiting[i])}
           IN  /\ KeptAgain \in Seq(Commands)
               /\ Len(KeptAgain) \in 0 .. Len(awaiting)
               /\ IsFiniteSet(canceled)
               /\ Cardinality(CommandsOf(c, awaiting))
                     = Cardinality(CommandsOf(c, KeptAgain)) + Cardinality(canceled)
<1>. DEFINE mine == CommandsOf(c, awaiting)
            canceled == {i \in mine : Canceled(awaiting[i])}
            kept == mine \ canceled
<1>1. PICK f \in Bijection(1 .. Len(Kept), KeptIndices) :
         \A n \in 1 .. Len(Kept) : Kept[n] = awaiting[f[n]]
  BY KeptIsSelection
<1>2. Kept \in Seq(Commands) /\ Len(Kept) \in Nat
  BY KeptIsSelection, LenProperties
<1>3. /\ KeptAgain \in Seq(Commands) /\ Len(KeptAgain) = Len(Kept)
      /\ CommandsOf(c, KeptAgain) = CommandsOf(c, Kept)
  <2>. DEFINE again(i) == [Kept[i] EXCEPT !.ack = "none"]
  <2>1. \A i \in 1 .. Len(Kept) : again(i) \in Commands /\ again(i).client = Kept[i].client
    <3>. TAKE i \in 1 .. Len(Kept)
    <3>1. Kept[i] \in Commands
      BY <1>2, ElementOfSeq
    <3>. QED  BY <3>1 DEF Commands
  <2>. QED  BY <1>2, <2>1 DEF KeptAgain, CommandsOf
<1>4. Len(Kept) <= Len(awaiting)
  <2>1. KeptIndices \in SUBSET (1 .. Len(awaiting))
    BY DEF KeptIndices
  <2>2. Len(awaiting) \in Nat
    BY LenProperties
  <2>3. IsFiniteSet(1 .. Len(awaiting)) /\ Cardinality(1 .. Len(awaiting)) = Len(awaiting)
    BY <2>2, IndicesCounted
  <2>4. Cardinality(KeptIndices) <= Cardinality(1 .. Len(awaiting))
    BY <2>1, <2>3, FS_Subset
  <2>. QED  BY <2>3, <2>4, KeptIsSelection
<1>5. IsFiniteSet(mine) /\ Cardinality(mine) \in Nat
  BY CommandsFinite
<1>6. /\ IsFiniteSet(canceled) /\ Cardinality(canceled) \in Nat
      /\ IsFiniteSet(kept) /\ Cardinality(kept) = Cardinality(mine) - Cardinality(canceled)
  <2>1. canceled \in SUBSET mine
    OBVIOUS
  <2>2. mine \cap canceled = canceled
    OBVIOUS
  <2>. HIDE DEF mine, canceled
  <2>3. IsFiniteSet(canceled) /\ Cardinality(canceled) \in Nat
    BY <1>5, <2>1, FS_Subset, FS_CardinalityType
  <2>4. IsFiniteSet(kept) /\ Cardinality(kept) = Cardinality(mine) - Cardinality(canceled)
    BY <1>5, <2>2, <2>3, FS_Difference
  <2>. QED  BY <2>3, <2>4
<1>7. Cardinality(CommandsOf(c, Kept)) = Cardinality(kept)
  <2>. DEFINE g == [n \in CommandsOf(c, Kept) |-> f[n]]
  <2>1. /\ f \in [1 .. Len(Kept) -> KeptIndices]
        /\ \A m, n \in 1 .. Len(Kept) : f[m] = f[n] => m = n
        /\ \A i \in KeptIndices : \E n \in 1 .. Len(Kept) : f[n] = i
    BY DEF Bijection, Injection, Surjection, IsInjective
  <2>2. \A n \in CommandsOf(c, Kept) : n \in 1 .. Len(Kept) /\ f[n] \in kept
    BY <1>1, <2>1 DEF CommandsOf, KeptIndices
  <2>3. g \in [CommandsOf(c, Kept) -> kept]
    BY <2>2
  <2>4. \A m, n \in CommandsOf(c, Kept) : g[m] = g[n] => m = n
    BY <2>1, <2>2
  <2>5. \A i \in kept : \E n \in CommandsOf(c, Kept) : g[n] = i
    BY <1>1, <2>1 DEF CommandsOf, KeptIndices
  <2>. HIDE DEF g, kept
  <2>6. ExistsBijection(CommandsOf(c, Kept), kept)
    BY <2>3, <2>4, <2>5, Fun_IsBij DEF ExistsBijection
  <2>7. IsFiniteSet(CommandsOf(c, Kept))
    BY <1>2, CommandsFinite
  <2>. QED  BY <2>6, <2>7, FS_Bijection
<1>. QED  BY <1>2, <1>3, <1>4, <1>5, <1>6, <1>7

(* The commands that clients wait for. *)
OfClients(commands) == {i \in 1 .. Len(commands) : commands[i].client \in Clients}

(* A set of at most one element has no two. *)
LEMMA AtMostOne ==
    ASSUME NEW S, IsFiniteSet(S), Cardinality(S) <= 1, NEW x \in S, NEW y \in S
    PROVE  x = y
<1>. SUFFICES ASSUME x # y PROVE FALSE
  OBVIOUS
<1>1. IsFiniteSet(S \ {x}) /\ Cardinality(S \ {x}) = Cardinality(S) - 1
  BY FS_RemoveElement
<1>2. Cardinality(S \ {x}) \in Nat /\ Cardinality(S) \in Nat
  BY <1>1, FS_CardinalityType
<1>3. Cardinality(S \ {x}) = 0
  BY <1>1, <1>2
<1>. QED  BY <1>1, <1>3, FS_EmptySet

(* A command is one of a client or one of the agent task itself. *)
LEMMA CommandsSplit ==
    ASSUME NEW commands \in Seq(Commands)
    PROVE  /\ IsFiniteSet(OfClients(commands)) /\ Cardinality(OfClients(commands)) \in Nat
           /\ Len(commands) = Cardinality(OfClients(commands))
                                 + Cardinality(CommandsOf(AgentTask, commands))
<1>. DEFINE all == 1 .. Len(commands)
            agents == CommandsOf(AgentTask, commands)
<1>1. Len(commands) \in Nat /\ IsFiniteSet(all) /\ Cardinality(all) = Len(commands)
  BY LenProperties, IndicesCounted
<1>2. OfClients(commands) = all \ agents /\ all \cap agents = agents
  <2>1. \A i \in all : commands[i].client \in Clients \cup {AgentTask}
    <3>. TAKE i \in all
    <3>1. commands[i] \in Commands
      BY ElementOfSeq
    <3>. QED  BY <3>1 DEF Commands
  <2>2. AgentTask \notin Clients
    BY ClientsAssumption
  <2>. QED  BY <2>1, <2>2 DEF OfClients, CommandsOf
<1>3. Cardinality(agents) \in Nat
  BY CommandsFinite
<1>4. IsFiniteSet(all \ agents) /\ Cardinality(all \ agents) = Cardinality(all) - Cardinality(agents)
  <2>. HIDE DEF all, agents
  <2>. QED  BY <1>1, <1>2, FS_Difference, ZenonT(60)
<1>5. Cardinality(OfClients(commands)) \in Nat
  BY <1>2, <1>4, FS_CardinalityType
<1>. QED  BY <1>1, <1>2, <1>3, <1>4, <1>5

(* While no client waits for two commands, there are no more of them than clients. *)
LEMMA OneCommandEach ==
    ASSUME queue \in Seq(Commands), awaiting \in Seq(Commands),
           \A c \in Clients : Outstanding(c) <= 1
    PROVE  Cardinality(OfClients(queue)) + Cardinality(OfClients(awaiting))
              <= Cardinality(Clients)
<1>. DEFINE Waits(commands) == {c \in Clients : CommandsOf(c, commands) # {}}
<1>1. ASSUME NEW commands \in Seq(Commands),
             \A c \in Clients : Cardinality(CommandsOf(c, commands)) <= 1
      PROVE  /\ IsFiniteSet(Waits(commands))
             /\ Cardinality(Waits(commands)) = Cardinality(OfClients(commands))
  <2>. DEFINE owner == [i \in OfClients(commands) |-> commands[i].client]
  <2>1. owner \in [OfClients(commands) -> Waits(commands)]
    BY DEF OfClients, CommandsOf
  <2>2. \A i, k \in OfClients(commands) : owner[i] = owner[k] => i = k
    <3>. SUFFICES ASSUME NEW i \in OfClients(commands), NEW k \in OfClients(commands),
                         owner[i] = owner[k]
                  PROVE  i = k
      OBVIOUS
    <3>. DEFINE c == commands[i].client
    <3>1. i \in CommandsOf(c, commands) /\ k \in CommandsOf(c, commands) /\ c \in Clients
      BY DEF OfClients, CommandsOf
    <3>2. IsFiniteSet(CommandsOf(c, commands)) /\ Cardinality(CommandsOf(c, commands)) <= 1
      BY <1>1, <3>1, CommandsFinite
    <3>. QED  BY <3>1, <3>2, AtMostOne
  <2>3. \A c \in Waits(commands) : \E i \in OfClients(commands) : owner[i] = c
    BY DEF OfClients, CommandsOf
  <2>4. IsFiniteSet(OfClients(commands))
    BY <1>1, CommandsSplit
  <2>. HIDE DEF owner, Waits
  <2>5. ExistsBijection(OfClients(commands), Waits(commands))
    BY <2>1, <2>2, <2>3, Fun_IsBij DEF ExistsBijection
  <2>. QED  BY <2>4, <2>5, FS_Bijection
<1>2. \A c \in Clients : /\ Cardinality(CommandsOf(c, queue)) \in Nat
                         /\ Cardinality(CommandsOf(c, awaiting)) \in Nat
                         /\ Cardinality(CommandsOf(c, queue))
                               + Cardinality(CommandsOf(c, awaiting)) <= 1
  BY CommandsFinite DEF Outstanding
<1>3. /\ \A c \in Clients : Cardinality(CommandsOf(c, queue)) <= 1
      /\ \A c \in Clients : Cardinality(CommandsOf(c, awaiting)) <= 1
  BY <1>2
<1>4. Waits(queue) \cap Waits(awaiting) = {}
  <2>1. ASSUME NEW c \in Clients, CommandsOf(c, queue) # {}, CommandsOf(c, awaiting) # {}
        PROVE  FALSE
    <3>1. Cardinality(CommandsOf(c, queue)) # 0 /\ Cardinality(CommandsOf(c, awaiting)) # 0
      BY <2>1, CommandsFinite, FS_EmptySet
    <3>. QED  BY <1>2, <3>1
  <2>. QED  BY <2>1
<1>5. /\ IsFiniteSet(Waits(queue)) /\ Cardinality(Waits(queue)) = Cardinality(OfClients(queue))
      /\ IsFiniteSet(Waits(awaiting))
      /\ Cardinality(Waits(awaiting)) = Cardinality(OfClients(awaiting))
  BY <1>1, <1>3
<1>6. Waits(queue) \cup Waits(awaiting) \in SUBSET Clients
  OBVIOUS
<1>. HIDE DEF Waits
<1>7. Cardinality(Waits(queue) \cup Waits(awaiting)) = Cardinality(Waits(queue))
                                                        + Cardinality(Waits(awaiting)) - 0
  BY <1>4, <1>5, FS_Union, FS_EmptySet
<1>8. Cardinality(Waits(queue) \cup Waits(awaiting)) <= Cardinality(Clients)
  BY <1>6, ClientsAssumption, FS_Subset
<1>9. Cardinality(OfClients(queue)) \in Nat /\ Cardinality(OfClients(awaiting)) \in Nat
  BY CommandsSplit
<1>. QED  BY <1>5, <1>7, <1>8, <1>9

------------------------------------------------------------------------------
(* What the steps do to the commands and the notifications *)

(* What a client has outstanding is counted. *)
LEMMA OutstandingNat ==
    ASSUME TypeOK, NEW c
    PROVE  Outstanding(c) \in Nat
BY CommandsFinite DEF TypeOK, Outstanding

(* The resubscription finds a free structure, when there is one for each client
   and each lost session. *)
LEMMA PoolForResubscription ==
    ASSUME IInv, agent = "resubscribe", Cardinality(Clients) + losses <= PoolSize
    PROVE  pool > 0
<1>1. queue \in Seq(Commands) /\ awaiting \in Seq(Commands) /\ pool \in Nat
  BY DEF IInv, TypeOK
<1>2. \A c \in Clients : Outstanding(c) <= 1
  BY OutstandingNat DEF IInv, Exchange, OneAnswer, One
<1>3. Cardinality(OfClients(queue)) + Cardinality(OfClients(awaiting)) <= Cardinality(Clients)
  BY <1>1, <1>2, OneCommandEach
<1>4. /\ Cardinality(OfClients(queue)) \in Nat /\ Cardinality(OfClients(awaiting)) \in Nat
      /\ Len(queue) = Cardinality(OfClients(queue)) + Cardinality(CommandsOf(AgentTask, queue))
      /\ Len(awaiting) = Cardinality(OfClients(awaiting))
                            + Cardinality(CommandsOf(AgentTask, awaiting))
      /\ Cardinality(CommandsOf(AgentTask, queue)) \in Nat
      /\ Cardinality(CommandsOf(AgentTask, awaiting)) \in Nat
  BY <1>1, CommandsSplit, CommandsFinite
<1>5. losses \in 0 .. MaxSessionLosses /\ Outstanding(AgentTask) + 1 <= losses
  BY OutstandingNat DEF IInv, ResubscriptionsBounded, One
<1>6. Cardinality(Clients) \in Nat /\ PoolSize \in Nat /\ losses \in Nat
  BY <1>5, ClientsAssumption, CountsAssumption, FS_CardinalityType
<1>9. Len(queue) \in Nat /\ Len(awaiting) \in Nat
  BY <1>1, LenProperties
<1>7. pool + Len(queue) + Len(awaiting) = PoolSize
  BY DEF IInv, Exchange
<1>10. Outstanding(AgentTask) = Cardinality(CommandsOf(AgentTask, queue))
                                   + Cardinality(CommandsOf(AgentTask, awaiting))
  BY DEF Outstanding
<1>11. Cardinality(CommandsOf(AgentTask, queue))
          + Cardinality(CommandsOf(AgentTask, awaiting)) + 1 <= losses
  BY <1>4, <1>5, <1>6, <1>10
<1>12. Len(queue) + Len(awaiting) + 1 <= PoolSize
  <2>. DEFINE q == Cardinality(OfClients(queue))  a == Cardinality(OfClients(awaiting))
              x == Cardinality(CommandsOf(AgentTask, queue))
              y == Cardinality(CommandsOf(AgentTask, awaiting))
  <2>1. q \in Nat /\ a \in Nat /\ x \in Nat /\ y \in Nat
    BY <1>4
  <2>2. Len(queue) = q + x /\ Len(awaiting) = a + y
    BY <1>4
  <2>3. q + a <= Cardinality(Clients) /\ x + y + 1 <= losses
    BY <1>3, <1>11
  <2>. HIDE DEF q, a, x, y
  <2>. QED  BY <1>6, <2>1, <2>2, <2>3
<1>. QED  BY <1>1, <1>6, <1>7, <1>9, <1>12

(* A client that does not wait sends a command, and then waits for its answer. *)
LEMMA CallSent ==
    ASSUME IInv, NEW c \in Clients, pc[c] \notin Waiting,
           NEW kind \in Kinds \ {"resub"},
           Enqueue(Command(kind, c)),
           notified' = [notified EXCEPT ![c] = "none"],
           pc' = [pc EXCEPT ![c] = WaitOf(kind)],
           UNCHANGED awaiting
    PROVE  /\ queue' \in Seq(Commands) /\ pool' \in 0 .. PoolSize
           /\ notified' \in [Clients -> {"none", "success", "failed"}]
           /\ Exchange'
           /\ Outstanding(AgentTask)' = Outstanding(AgentTask)
<1>. DEFINE command == Command(kind, c)
<1>1. /\ queue \in Seq(Commands) /\ awaiting \in Seq(Commands) /\ pool \in 0 .. PoolSize
      /\ pc = [client \in Clients |-> pc[client]]
      /\ notified \in [Clients -> {"none", "success", "failed"}]
      /\ PoolSize \in Nat
  BY CountsAssumption DEF IInv, TypeOK, Waiting
<1>2. command \in Commands /\ command.client = c /\ command.kind = kind
  BY DEF Command, Commands, Kinds
<1>3. queue' = Append(queue, command) /\ pool' = pool - 1 /\ pool > 0 /\ awaiting' = awaiting
  BY DEF Enqueue
<1>4. /\ queue' \in Seq(Commands) /\ Len(queue') = Len(queue) + 1
      /\ \A i \in 1 .. Len(queue) : queue'[i] = queue[i]
      /\ queue'[Len(queue) + 1] = command
      /\ Len(queue) \in Nat /\ Len(awaiting) \in Nat
  BY <1>1, <1>2, <1>3, AppendProperties, LenProperties
<1>5. ASSUME NEW client
      PROVE  Outstanding(client)' = Outstanding(client) + One(c = client)
  <2>1. Cardinality(CommandsOf(client, queue'))
           = Cardinality(CommandsOf(client, queue)) + One(c = client)
    BY <1>1, <1>2, <1>3, CommandsAppend
  <2>2. /\ Cardinality(CommandsOf(client, queue)) \in Nat
        /\ Cardinality(CommandsOf(client, awaiting)) \in Nat
    BY <1>1, CommandsFinite
  <2>. QED  BY <1>3, <2>1, <2>2 DEF Outstanding, One
<1>6. /\ \A client \in Clients : Outstanding(client) \in Nat
      /\ Outstanding(AgentTask) \in Nat
  BY OutstandingNat DEF IInv
<1>7. WaitOf(kind) \in Waiting
  BY DEF WaitOf, Waiting
<1>8. Outstanding(c) = 0 /\ notified[c] = "none"
  BY <1>6 DEF IInv, Exchange, OneAnswer, One
<1>9. OneAnswer'
  <2>. SUFFICES ASSUME NEW client \in Clients
                PROVE  Outstanding(client)' + One(notified'[client] # "none")
                          = One(pc'[client] \in Waiting)
    BY DEF OneAnswer
  <2>1. CASE client = c
    BY <1>1, <1>5, <1>6, <1>7, <1>8, <2>1 DEF One
  <2>2. CASE client # c
    <3>1. Outstanding(client)' = Outstanding(client)
      BY <1>5, <1>6, <2>2 DEF One
    <3>2. Outstanding(client) + One(notified[client] # "none") = One(pc[client] \in Waiting)
      BY DEF IInv, Exchange, OneAnswer
    <3>. QED  BY <1>1, <2>2, <3>1, <3>2
  <2>. QED  BY <2>1, <2>2
<1>10. /\ \A i \in 1 .. Len(queue) : queue[i].client # c
       /\ \A i \in 1 .. Len(awaiting) : awaiting[i].client # c
  <2>1. /\ Cardinality(CommandsOf(c, queue)) \in Nat
        /\ Cardinality(CommandsOf(c, awaiting)) \in Nat
    BY <1>1, CommandsFinite
  <2>2. /\ Cardinality(CommandsOf(c, queue)) = 0 /\ Cardinality(CommandsOf(c, awaiting)) = 0
    BY <1>8, <2>1 DEF Outstanding
  <2>. QED  BY <1>1, <2>2, CommandsNone
<1>11. Matches(queue)'
  <2>. SUFFICES ASSUME NEW i \in 1 .. Len(queue')
                PROVE  /\ queue'[i].client \in Clients =>
                             /\ queue'[i].kind # "resub"
                             /\ pc'[queue'[i].client] = WaitOf(queue'[i].kind)
                       /\ queue'[i].client \notin Clients => queue'[i].kind = "resub"
    BY DEF Matches
  <2>1. CASE i = Len(queue) + 1
    BY <1>1, <1>2, <1>4, <2>1
  <2>2. CASE i \in 1 .. Len(queue)
    BY <1>1, <1>4, <1>10, <2>2 DEF IInv, Exchange, Matches
  <2>. QED  BY <1>4, <2>1, <2>2
<1>12. Matches(awaiting)'
  BY <1>1, <1>3, <1>10 DEF IInv, Exchange, Matches
<1>13. Outstanding(AgentTask)' = Outstanding(AgentTask)
  BY <1>5, <1>6, ClientsAssumption DEF One
<1>14. pool' + Len(queue') + Len(awaiting') = PoolSize
  <2>1. pool \in Int /\ PoolSize \in Int /\ pool + Len(queue) + Len(awaiting) = PoolSize
    BY <1>1 DEF IInv, Exchange
  <2>. QED  BY <1>3, <1>4, <2>1
<1>. QED  BY <1>1, <1>3, <1>4, <1>9, <1>11, <1>12, <1>13, <1>14 DEF Exchange

(* A client that was notified goes on, somewhere it does not wait. *)
LEMMA AnswerTaken ==
    ASSUME IInv, NEW c \in Clients, NEW wait \in Waiting, NEW result \in {"success", "failed"},
           Answered(c, wait, result),
           NEW place, pc' = [pc EXCEPT ![c] = place], place \notin Waiting,
           UNCHANGED <<queue, awaiting, pool>>
    PROVE  /\ notified' \in [Clients -> {"none", "success", "failed"}]
           /\ Exchange'
           /\ Outstanding(AgentTask)' = Outstanding(AgentTask)
<1>1. /\ queue \in Seq(Commands) /\ awaiting \in Seq(Commands)
      /\ pc = [client \in Clients |-> pc[client]]
      /\ notified \in [Clients -> {"none", "success", "failed"}]
      /\ queue' = queue /\ awaiting' = awaiting /\ pool' = pool
  BY DEF IInv, TypeOK, Waiting
<1>2. \A client : Outstanding(client)' = Outstanding(client)
  BY <1>1 DEF Outstanding
<1>3. /\ pc[c] = wait /\ notified[c] = result
      /\ notified' = [notified EXCEPT ![c] = "none"]
  BY DEF Answered
<1>4. \A client \in Clients : Outstanding(client) \in Nat
  BY OutstandingNat DEF IInv
<1>5. Outstanding(c) = 0
  BY <1>3, <1>4 DEF IInv, Exchange, OneAnswer, One
<1>6. OneAnswer'
  <2>. SUFFICES ASSUME NEW client \in Clients
                PROVE  Outstanding(client)' + One(notified'[client] # "none")
                          = One(pc'[client] \in Waiting)
    BY DEF OneAnswer
  <2>1. CASE client = c
    BY <1>1, <1>2, <1>3, <1>5, <2>1 DEF One
  <2>2. CASE client # c
    <3>1. Outstanding(client) + One(notified[client] # "none") = One(pc[client] \in Waiting)
      BY DEF IInv, Exchange, OneAnswer
    <3>. QED  BY <1>1, <1>2, <1>3, <2>2, <3>1
  <2>. QED  BY <2>1, <2>2
<1>7. /\ \A i \in 1 .. Len(queue) : queue[i].client # c
      /\ \A i \in 1 .. Len(awaiting) : awaiting[i].client # c
  <2>1. /\ Cardinality(CommandsOf(c, queue)) \in Nat
        /\ Cardinality(CommandsOf(c, awaiting)) \in Nat
    BY <1>1, CommandsFinite
  <2>2. /\ Cardinality(CommandsOf(c, queue)) = 0 /\ Cardinality(CommandsOf(c, awaiting)) = 0
    BY <1>5, <2>1 DEF Outstanding
  <2>. QED  BY <1>1, <2>2, CommandsNone
<1>8. Matches(queue)' /\ Matches(awaiting)'
  BY <1>1, <1>7 DEF IInv, Exchange, Matches
<1>9. pool' + Len(queue') + Len(awaiting') = PoolSize
  BY <1>1 DEF IInv, Exchange
<1>. QED  BY <1>1, <1>2, <1>3, <1>6, <1>8, <1>9 DEF Exchange

(* The first command of the queue, or the first that awaits an acknowledgment,
   leaves it. *)
LEMMA CommandLeaves ==
    ASSUME IInv, NEW command,
           \/ /\ queue # <<>> /\ command = Head(queue)
              /\ queue' = Tail(queue) /\ awaiting' = awaiting
           \/ /\ awaiting # <<>> /\ command = Head(awaiting)
              /\ awaiting' = Tail(awaiting) /\ queue' = queue,
           UNCHANGED pc
    PROVE  /\ command \in Commands
           /\ command.client \in Clients =>
                 command.kind # "resub" /\ pc[command.client] = WaitOf(command.kind)
           /\ queue' \in Seq(Commands) /\ awaiting' \in Seq(Commands)
           /\ Len(queue') + Len(awaiting') = Len(queue) + Len(awaiting) - 1
           /\ Matches(queue)' /\ Matches(awaiting)'
           /\ \A c : /\ Outstanding(c)' \in Nat
                     /\ Outstanding(c) = Outstanding(c)' + One(command.client = c)
<1>. DEFINE Leaves(commands) ==
              /\ Tail(commands) \in Seq(Commands) /\ Head(commands) \in Commands
              /\ Len(Tail(commands)) = Len(commands) - 1
              /\ Matches(Tail(commands))
              /\ Head(commands).client \in Clients =>
                    /\ Head(commands).kind # "resub"
                    /\ pc[Head(commands).client] = WaitOf(Head(commands).kind)
              /\ \A c : Cardinality(CommandsOf(c, commands))
                           = Cardinality(CommandsOf(c, Tail(commands)))
                                + One(Head(commands).client = c)
<1>1. /\ queue \in Seq(Commands) /\ awaiting \in Seq(Commands)
      /\ Matches(queue) /\ Matches(awaiting)
  BY DEF IInv, TypeOK, Exchange
<1>2. ASSUME NEW commands \in Seq(Commands), commands # <<>>, Matches(commands)
      PROVE  Leaves(commands)
  <2>1. /\ Tail(commands) \in Seq(Commands) /\ Head(commands) \in Commands
        /\ Len(commands) \in Nat \ {0} /\ Len(Tail(commands)) = Len(commands) - 1
        /\ \A i \in 1 .. Len(Tail(commands)) : Tail(commands)[i] = commands[i + 1]
        /\ Head(commands) = commands[1]
    BY <1>2, HeadTailProperties, EmptySeq, LenProperties
  <2>2. \A i \in 1 .. Len(Tail(commands)) : i + 1 \in 1 .. Len(commands)
    BY <2>1
  <2>3. Matches(Tail(commands))
    BY <1>2, <2>1, <2>2 DEF Matches
  <2>4. 1 \in 1 .. Len(commands)
    BY <2>1
  <2>5. \A c : Cardinality(CommandsOf(c, commands))
                  = Cardinality(CommandsOf(c, Tail(commands))) + One(Head(commands).client = c)
    BY <1>2, CommandsTail
  <2>. QED  BY <1>2, <2>1, <2>3, <2>4, <2>5 DEF Matches
<1>3. ASSUME NEW commands \in Seq(Commands), NEW c
      PROVE  Cardinality(CommandsOf(c, commands)) \in Nat
  BY <1>3, CommandsFinite
<1>4. Len(queue) \in Nat /\ Len(awaiting) \in Nat
  BY <1>1, LenProperties
<1>5. pc' = pc
  OBVIOUS
<1>6. CASE /\ queue # <<>> /\ command = Head(queue)
           /\ queue' = Tail(queue) /\ awaiting' = awaiting
  <2>1. Leaves(queue)
    BY <1>1, <1>2, <1>6
  <2>2. Matches(queue)' /\ Matches(awaiting)'
    BY <1>1, <1>5, <1>6, <2>1 DEF Matches
  <2>3. \A c : /\ Cardinality(CommandsOf(c, queue')) \in Nat
               /\ Cardinality(CommandsOf(c, awaiting')) \in Nat
    BY <1>1, <1>3, <1>6, <2>1
  <2>4. \A c : /\ Outstanding(c)' \in Nat
               /\ Outstanding(c) = Outstanding(c)' + One(command.client = c)
    <3>. TAKE c
    <3>1. /\ Outstanding(c) = Cardinality(CommandsOf(c, queue))
                                 + Cardinality(CommandsOf(c, awaiting))
          /\ Outstanding(c)' = Cardinality(CommandsOf(c, queue'))
                                  + Cardinality(CommandsOf(c, awaiting'))
      BY DEF Outstanding
    <3>2. Cardinality(CommandsOf(c, queue))
             = Cardinality(CommandsOf(c, queue')) + One(command.client = c)
      BY <1>6, <2>1
    <3>. QED  BY <1>6, <2>3, <3>1, <3>2 DEF One
  <2>5. Len(queue') = Len(queue) - 1 /\ Len(awaiting') = Len(awaiting)
    BY <1>6, <2>1
  <2>6. Len(queue') + Len(awaiting') = Len(queue) + Len(awaiting) - 1
    BY <1>4, <2>5
  <2>. QED  BY <1>1, <1>6, <2>1, <2>2, <2>4, <2>6
<1>7. CASE /\ awaiting # <<>> /\ command = Head(awaiting)
           /\ awaiting' = Tail(awaiting) /\ queue' = queue
  <2>1. Leaves(awaiting)
    BY <1>1, <1>2, <1>7
  <2>2. Matches(queue)' /\ Matches(awaiting)'
    BY <1>1, <1>5, <1>7, <2>1 DEF Matches
  <2>3. \A c : /\ Cardinality(CommandsOf(c, queue')) \in Nat
               /\ Cardinality(CommandsOf(c, awaiting')) \in Nat
    BY <1>1, <1>3, <1>7, <2>1
  <2>4. \A c : /\ Outstanding(c)' \in Nat
               /\ Outstanding(c) = Outstanding(c)' + One(command.client = c)
    <3>. TAKE c
    <3>1. /\ Outstanding(c) = Cardinality(CommandsOf(c, queue))
                                 + Cardinality(CommandsOf(c, awaiting))
          /\ Outstanding(c)' = Cardinality(CommandsOf(c, queue'))
                                  + Cardinality(CommandsOf(c, awaiting'))
      BY DEF Outstanding
    <3>2. Cardinality(CommandsOf(c, awaiting))
             = Cardinality(CommandsOf(c, awaiting')) + One(command.client = c)
      BY <1>7, <2>1
    <3>. QED  BY <1>7, <2>3, <3>1, <3>2 DEF One
  <2>5. Len(awaiting') = Len(awaiting) - 1 /\ Len(queue') = Len(queue)
    BY <1>7, <2>1
  <2>6. Len(queue') + Len(awaiting') = Len(queue) + Len(awaiting) - 1
    BY <1>4, <2>5
  <2>. QED  BY <1>1, <1>7, <2>1, <2>2, <2>4, <2>6
<1>. QED  BY <1>6, <1>7

(* A command that is answered leaves its structure to the pool and one
   notification to its client, and its topic is in the table or not as the
   client will find it. *)
LEMMA Concluded ==
    ASSUME IInv, NEW command, NEW result \in {"success", "failed"},
           \/ /\ queue # <<>> /\ command = Head(queue)
              /\ queue' = Tail(queue) /\ awaiting' = awaiting
           \/ /\ awaiting # <<>> /\ command = Head(awaiting)
              /\ awaiting' = Tail(awaiting) /\ queue' = queue,
           Conclude(command, result), UNCHANGED <<pc, tries>>
    PROVE  /\ queue' \in Seq(Commands) /\ awaiting' \in Seq(Commands)
           /\ pool' \in 0 .. PoolSize
           /\ table' \subseteq [topic : Clients, managed : BOOLEAN]
           /\ notified' \in [Clients -> {"none", "success", "failed"}]
           /\ Exchange' /\ TopicsGone'
           /\ Outstanding(AgentTask)' \in Nat
           /\ Outstanding(AgentTask)' <= Outstanding(AgentTask)
<1>. DEFINE c == command.client
<1>1. /\ command \in Commands /\ c \in Clients \cup {AgentTask}
      /\ c \in Clients => command.kind # "resub" /\ pc[c] = WaitOf(command.kind)
      /\ queue' \in Seq(Commands) /\ awaiting' \in Seq(Commands)
      /\ Len(queue') + Len(awaiting') = Len(queue) + Len(awaiting) - 1
      /\ Matches(queue)' /\ Matches(awaiting)'
      /\ \A client : /\ Outstanding(client)' \in Nat
                     /\ Outstanding(client) = Outstanding(client)' + One(c = client)
  <2>1. command \in Commands
    BY CommandLeaves
  <2>2. c \in Clients \cup {AgentTask}
    BY <2>1 DEF Commands
  <2>. QED  BY <2>1, <2>2, CommandLeaves
<1>2. /\ Len(queue) \in Nat /\ Len(awaiting) \in Nat
      /\ Len(queue') \in Nat /\ Len(awaiting') \in Nat
  BY <1>1, LenProperties DEF IInv, TypeOK
<1>3. /\ pool \in 0 .. PoolSize /\ PoolSize \in Nat
      /\ table \subseteq [topic : Clients, managed : BOOLEAN]
      /\ notified \in [Clients -> {"none", "success", "failed"}]
      /\ pool + Len(queue) + Len(awaiting) = PoolSize
  BY CountsAssumption DEF IInv, TypeOK, Exchange
<1>4. pool' \in 0 .. PoolSize /\ pool' + Len(queue') + Len(awaiting') = PoolSize
  <2>1. pool' = pool + 1
    BY DEF Conclude
  <2>2. Len(queue') + Len(awaiting') = Len(queue) + Len(awaiting) - 1
    BY <1>1
  <2>3. pool' + Len(queue') + Len(awaiting') = PoolSize
    BY <1>2, <1>3, <2>1, <2>2
  <2>. QED  BY <1>2, <1>3, <2>1, <2>3
<1>5. AgentTask \notin Clients /\ Demos \subseteq Clients
  BY ClientsAssumption DEF Clients
<1>6. /\ notified' \in [Clients -> {"none", "success", "failed"}]
      /\ \A client \in Clients : notified'[client] = IF client = c THEN result
                                                     ELSE notified[client]
  BY <1>1, <1>3, <1>5 DEF Conclude
<1>7. table' \subseteq [topic : Clients, managed : BOOLEAN]
  <2>1. table' = TableAfter(command, result)
    BY DEF Conclude
  <2>2. \/ table' \subseteq table
        \/ c \in Demos /\ table' = table \cup {[topic |-> c, managed |-> TRUE]}
    BY <2>1 DEF TableAfter
  <2>3. c \in Demos => [topic |-> c, managed |-> TRUE] \in [topic : Clients, managed : BOOLEAN]
    BY <1>5
  <2>. HIDE DEF c
  <2>. QED  BY <1>3, <2>2, <2>3
<1>8. OneAnswer'
  <2>. SUFFICES ASSUME NEW client \in Clients
                PROVE  Outstanding(client)' + One(notified'[client] # "none")
                          = One(pc'[client] \in Waiting)
    BY DEF OneAnswer
  <2>1. Outstanding(client) + One(notified[client] # "none") = One(pc[client] \in Waiting)
    BY DEF IInv, Exchange, OneAnswer
  <2>2. /\ Outstanding(client)' \in Nat
        /\ Outstanding(client) = Outstanding(client)' + One(c = client)
    BY <1>1
  <2>3. pc' = pc
    OBVIOUS
  <2>. HIDE DEF c
  <2>4. CASE client = c
    BY <1>6, <2>1, <2>2, <2>3, <2>4 DEF One
  <2>5. CASE client # c
    BY <1>6, <2>1, <2>2, <2>3, <2>5 DEF One
  <2>. QED  BY <2>4, <2>5
<1>9. TopicsGone'
  <2>. SUFFICES ASSUME NEW e \in table'
                PROVE  /\ e.topic \in Demos => ~(pc[e.topic] = "unsubWait"
                                                   /\ notified'[e.topic] = "success")
                       /\ pc[e.topic] = "done" => tries[e.topic] = 0
    BY DEF TopicsGone
  <2>1. e.topic \in Clients
    BY <1>7
  <2>2. CASE e \in table
    <3>1. /\ e.topic \in Demos => ~(pc[e.topic] = "unsubWait" /\ notified[e.topic] = "success")
          /\ pc[e.topic] = "done" => tries[e.topic] = 0
      BY <2>2 DEF IInv, TopicsGone
    <3>2. CASE e.topic # c
      BY <1>6, <2>1, <3>1, <3>2
    <3>3. CASE e.topic = c
      <4>1. result = "success" => command.kind # "unsub"
        BY <3>3 DEF Conclude, TableAfter
      <4>2. pc[c] = WaitOf(command.kind)
        BY <1>1, <2>1, <3>3
      <4>. QED  BY <1>6, <2>1, <3>1, <3>3, <4>1, <4>2 DEF WaitOf
    <3>. QED  BY <3>2, <3>3
  <2>3. CASE e \notin table
    <3>1. e.topic = c /\ command.kind = "sub"
      BY <2>3 DEF Conclude, TableAfter
    <3>. QED  BY <1>1, <2>1, <3>1 DEF WaitOf
  <2>. QED  BY <2>2, <2>3
<1>10. /\ Outstanding(AgentTask)' \in Nat
       /\ Outstanding(AgentTask)' <= Outstanding(AgentTask)
  <2>. HIDE DEF c
  <2>1. /\ Outstanding(AgentTask)' \in Nat
        /\ Outstanding(AgentTask) = Outstanding(AgentTask)' + One(c = AgentTask)
    BY <1>1
  <2>. QED  BY <2>1 DEF One
<1>. QED  BY <1>1, <1>4, <1>6, <1>7, <1>8, <1>9, <1>10 DEF Exchange

(* What is kept was awaiting, for the same client. *)
LEMMA KeptWasAwaiting ==
    ASSUME awaiting \in Seq(Commands)
    PROVE  /\ Len(KeptAgain) = Len(Kept)
           /\ \A i \in 1 .. Len(KeptAgain) : \E k \in 1 .. Len(awaiting) :
                 /\ KeptAgain[i].client = awaiting[k].client
                 /\ KeptAgain[i].kind = awaiting[k].kind
<1>1. PICK f \in Bijection(1 .. Len(Kept), KeptIndices) :
         \A n \in 1 .. Len(Kept) : Kept[n] = awaiting[f[n]]
  BY KeptIsSelection
<1>2. f \in [1 .. Len(Kept) -> KeptIndices]
  BY DEF Bijection, Injection
<1>3. Kept \in Seq(Commands) /\ Len(Kept) \in Nat
  BY KeptIsSelection, LenProperties
<1>4. \A i \in 1 .. Len(Kept) :
         LET again == [Kept[i] EXCEPT !.ack = "none"]
         IN  again.client = Kept[i].client /\ again.kind = Kept[i].kind
  <2>. TAKE i \in 1 .. Len(Kept)
  <2>1. Kept[i] \in Commands
    BY <1>3, ElementOfSeq
  <2>. QED  BY <2>1 DEF Commands
<1>5. \A i \in 1 .. Len(Kept) : f[i] \in 1 .. Len(awaiting)
  BY <1>2 DEF KeptIndices
<1>. HIDE DEF Kept
<1>6. /\ Len(KeptAgain) = Len(Kept)
      /\ \A i \in 1 .. Len(Kept) : KeptAgain[i] = [Kept[i] EXCEPT !.ack = "none"]
  BY <1>3 DEF KeptAgain
<1>7. ASSUME NEW i \in 1 .. Len(Kept)
      PROVE  /\ KeptAgain[i].client = awaiting[f[i]].client
             /\ KeptAgain[i].kind = awaiting[f[i]].kind
  BY <1>1, <1>4, <1>6
<1>. QED  BY <1>5, <1>6, <1>7

(* Resuming the session cancels commands: their clients are notified, and their
   structures return to the pool. *)
LEMMA Resumed ==
    ASSUME IInv, ResumeSession, UNCHANGED <<queue, table, pc, tries>>
    PROVE  /\ awaiting' \in Seq(Commands) /\ pool' \in 0 .. PoolSize
           /\ notified' \in [Clients -> {"none", "success", "failed"}]
           /\ Exchange' /\ TopicsGone'
           /\ Outstanding(AgentTask)' \in Nat
           /\ Outstanding(AgentTask)' <= Outstanding(AgentTask)
<1>1. /\ queue \in Seq(Commands) /\ awaiting \in Seq(Commands)
      /\ pool \in 0 .. PoolSize /\ PoolSize \in Nat
      /\ notified \in [Clients -> {"none", "success", "failed"}]
      /\ pool + Len(queue) + Len(awaiting) = PoolSize
      /\ queue' = queue /\ pc' = pc /\ table' = table /\ tries' = tries
  BY CountsAssumption DEF IInv, TypeOK, Exchange
<1>2. /\ awaiting' = KeptAgain
      /\ notified' = [c \in Clients |-> IF c \in CanceledClients THEN "failed"
                                        ELSE notified[c]]
      /\ pool' = pool + Len(awaiting) - Len(Kept)
  BY DEF ResumeSession
<1>3. /\ awaiting' \in Seq(Commands)
      /\ Len(awaiting') \in 0 .. Len(awaiting) /\ Len(awaiting') = Len(Kept)
      /\ Len(queue) \in Nat /\ Len(awaiting) \in Nat
  BY <1>1, <1>2, KeptOrCanceled, KeptWasAwaiting, LenProperties
<1>4. pool' \in 0 .. PoolSize /\ pool' + Len(queue') + Len(awaiting') = PoolSize
  BY <1>1, <1>2, <1>3
<1>5. notified' \in [Clients -> {"none", "success", "failed"}]
  BY <1>1, <1>2
<1>. DEFINE canceled(c) == {i \in CommandsOf(c, awaiting) : Canceled(awaiting[i])}
<1>6. ASSUME NEW c
      PROVE  /\ Cardinality(CommandsOf(c, queue)) \in Nat
             /\ Cardinality(CommandsOf(c, awaiting')) \in Nat
             /\ Cardinality(canceled(c)) \in Nat
             /\ Outstanding(c) = Cardinality(CommandsOf(c, queue))
                   + Cardinality(CommandsOf(c, awaiting')) + Cardinality(canceled(c))
             /\ Outstanding(c)' = Cardinality(CommandsOf(c, queue))
                   + Cardinality(CommandsOf(c, awaiting'))
  <2>1. /\ Cardinality(CommandsOf(c, queue)) \in Nat
        /\ Cardinality(CommandsOf(c, awaiting')) \in Nat
    BY <1>1, <1>3, CommandsFinite
  <2>2. /\ IsFiniteSet(canceled(c))
        /\ Cardinality(CommandsOf(c, awaiting))
              = Cardinality(CommandsOf(c, awaiting')) + Cardinality(canceled(c))
    BY <1>1, <1>2, KeptOrCanceled
  <2>3. Cardinality(canceled(c)) \in Nat
    BY <2>2, FS_CardinalityType
  <2>4. /\ Outstanding(c) = Cardinality(CommandsOf(c, queue))
                               + Cardinality(CommandsOf(c, awaiting))
        /\ Outstanding(c)' = Cardinality(CommandsOf(c, queue))
                                + Cardinality(CommandsOf(c, awaiting'))
    BY <1>1 DEF Outstanding
  <2>. HIDE DEF canceled
  <2>. QED  BY <2>1, <2>2, <2>3, <2>4
<1>7. \A c : Cardinality(canceled(c)) = 0 <=> c \notin CanceledClients
  <2>. TAKE c
  <2>1. IsFiniteSet(canceled(c))
    BY <1>1, KeptOrCanceled
  <2>2. Cardinality(canceled(c)) = 0 <=> canceled(c) = {}
    BY <2>1, FS_EmptySet
  <2>. QED  BY <2>2 DEF CanceledClients, CommandsOf
<1>. HIDE DEF canceled
<1>8. OneAnswer'
  <2>. SUFFICES ASSUME NEW c \in Clients
                PROVE  Outstanding(c)' + One(notified'[c] # "none") = One(pc'[c] \in Waiting)
    BY DEF OneAnswer
  <2>1. Outstanding(c) + One(notified[c] # "none") = One(pc[c] \in Waiting)
    BY DEF IInv, Exchange, OneAnswer
  <2>2. CASE c \in CanceledClients
    <3>1. Outstanding(c) = 1 /\ pc[c] \in Waiting /\ Outstanding(c)' = 0
      BY <1>6, <1>7, <2>1, <2>2 DEF One
    <3>. QED  BY <1>1, <1>2, <2>2, <3>1 DEF One
  <2>3. CASE c \notin CanceledClients
    <3>1. Outstanding(c)' = Outstanding(c)
      BY <1>6, <1>7, <2>3
    <3>. QED  BY <1>1, <1>2, <2>1, <2>3, <3>1
  <2>. QED  BY <2>2, <2>3
<1>9. Matches(queue)' /\ Matches(awaiting)'
  <2>1. Matches(queue) /\ Matches(awaiting)
    BY DEF IInv, Exchange
  <2>2. \A i \in 1 .. Len(awaiting') : \E k \in 1 .. Len(awaiting) :
           /\ awaiting'[i].client = awaiting[k].client
           /\ awaiting'[i].kind = awaiting[k].kind
    BY <1>1, <1>2, KeptWasAwaiting
  <2>3. Matches(queue)'
    BY <1>1, <2>1 DEF Matches
  <2>4. Matches(awaiting)'
    BY <1>1, <2>1, <2>2, SMTT(30) DEF Matches
  <2>. QED  BY <2>3, <2>4
<1>10. TopicsGone'
  <2>1. Demos \subseteq Clients
    BY DEF Clients
  <2>. QED  BY <1>1, <1>2, <2>1 DEF IInv, TopicsGone
<1>11. /\ Outstanding(AgentTask)' \in Nat
       /\ Outstanding(AgentTask)' <= Outstanding(AgentTask)
  BY <1>6
<1>. QED  BY <1>3, <1>4, <1>5, <1>8, <1>9, <1>10, <1>11 DEF Exchange

(* A client goes from one place where it does not wait to another. *)
LEMMA ClientMoves ==
    ASSUME IInv, NEW c \in Clients, pc[c] \notin Waiting,
           NEW place, place \notin Waiting, pc' = [pc EXCEPT ![c] = place],
           UNCHANGED <<queue, awaiting, pool, notified>>
    PROVE  Exchange' /\ Outstanding(AgentTask)' = Outstanding(AgentTask)
<1>1. /\ pc = [client \in Clients |-> pc[client]]
      /\ queue' = queue /\ awaiting' = awaiting /\ pool' = pool /\ notified' = notified
  BY DEF IInv, TypeOK
<1>2. \A client : Outstanding(client)' = Outstanding(client)
  BY <1>1 DEF Outstanding
<1>3. \A kind : WaitOf(kind) \in Waiting
  BY DEF WaitOf, Waiting
<1>4. Matches(queue)' /\ Matches(awaiting)'
  BY <1>1, <1>3 DEF IInv, Exchange, Matches
<1>5. \A client \in Clients : (pc'[client] \in Waiting) = (pc[client] \in Waiting)
  BY <1>1
<1>6. OneAnswer'
  BY <1>1, <1>2, <1>5 DEF IInv, Exchange, OneAnswer, One
<1>. QED  BY <1>1, <1>2, <1>4, <1>6 DEF IInv, Exchange

(* The bound on the resubscriptions outlives a step that queues none. *)
LEMMA NoResubscription ==
    ASSUME IInv, UNCHANGED <<agent, session, losses>>,
           Outstanding(AgentTask)' \in Nat,
           Outstanding(AgentTask)' <= Outstanding(AgentTask)
    PROVE  ResubscriptionsBounded'
<1>1. Outstanding(AgentTask) \in Nat
  BY OutstandingNat DEF IInv
<1>. QED  BY <1>1 DEF IInv, ResubscriptionsBounded, One

------------------------------------------------------------------------------
(* The steps of the clients *)

(* Where a pub/sub task goes, and what it still has to do there. *)
LEMMA DemoMoves ==
    ASSUME IInv, NEW d \in Demos, DemoStep(d)
    PROVE  /\ ClientsOK'
           /\ pc' \in [Clients -> Waiting \cup {"subscribe", "subSend", "publish", "pubSend",
                                                "unsubSend", "done", "idle", "halted"}]
           /\ left' \in [Demos -> 0 .. Publishes] /\ tries' \in [Demos -> Nat]
           /\ \A c \in Clients : c # d => pc'[c] = pc[c]
           /\ \A c \in Demos : c # d => tries'[c] = tries[c]
<1>1. /\ pc \in [Clients -> Waiting \cup {"subscribe", "subSend", "publish", "pubSend",
                                          "unsubSend", "done", "idle", "halted"}]
      /\ left \in [Demos -> 0 .. Publishes] /\ tries \in [Demos -> Nat]
      /\ d \in Clients /\ d \notin Wrappers
      /\ Demos \subseteq Clients /\ Wrappers \subseteq Clients
      /\ \A w \in Wrappers : w \notin Demos
  BY ClientsAssumption DEF IInv, TypeOK, Clients
<1>2. /\ PublishRetries \in Nat /\ UnsubscribeRetries \in Nat \ {0} /\ Publishes \in Nat \ {0}
  BY CountsAssumption
<1>3. ClientsOK
  BY DEF IInv
<1>. DEFINE Goes(place) ==
              /\ pc' = [pc EXCEPT ![d] = place]
              /\ place \in {"subscribe", "subSend", "publish", "pubSend", "unsubSend", "done"}
                              \cup Waiting
              /\ left' \in [Demos -> 0 .. Publishes] /\ tries' \in [Demos -> Nat]
              /\ \A c \in Demos : c # d => left'[c] = left[c] /\ tries'[c] = tries[c]
              /\ place \in {"subscribe", "subSend", "subWait", "pubSend", "pubWait"}
                    => left'[d] > 0
              /\ place = "publish" /\ left'[d] = 0 => tries'[d] > 0
              /\ place = "unsubSend" => tries'[d] > 0
<1>4. SUFFICES \E place : Goes(place)
  <2>. SUFFICES ASSUME NEW place, Goes(place)
                PROVE  /\ ClientsOK'
                       /\ pc' \in [Clients -> Waiting \cup {"subscribe", "subSend", "publish",
                                      "pubSend", "unsubSend", "done", "idle", "halted"}]
                       /\ left' \in [Demos -> 0 .. Publishes] /\ tries' \in [Demos -> Nat]
                       /\ \A c \in Clients : c # d => pc'[c] = pc[c]
                       /\ \A c \in Demos : c # d => tries'[c] = tries[c]
    OBVIOUS
  <2>1. pc'[d] = place /\ \A c \in Clients : c # d => pc'[c] = pc[c]
    BY <1>1
  <2>2. pc' \in [Clients -> Waiting \cup {"subscribe", "subSend", "publish", "pubSend",
                                          "unsubSend", "done", "idle", "halted"}]
    BY <1>1
  <2>3. \A w \in Wrappers : pc'[w] \in {"idle", "subSend", "pubSend", "halted"} \cup Waiting
    BY <1>1, <1>3, <2>1 DEF ClientsOK
  <2>4. ASSUME NEW c \in Demos
        PROVE  /\ pc'[c] \in {"subscribe", "subSend", "publish", "pubSend", "unsubSend", "done"}
                                \cup Waiting
               /\ pc'[c] \in {"subscribe", "subSend", "subWait", "pubSend", "pubWait"}
                     => left'[c] > 0
               /\ pc'[c] = "publish" /\ left'[c] = 0 => tries'[c] > 0
               /\ pc'[c] = "unsubSend" => tries'[c] > 0
    <3>1. CASE c = d
      BY <2>1, <3>1
    <3>2. CASE c # d
      BY <1>1, <1>3, <2>1, <3>2 DEF ClientsOK
    <3>. QED  BY <3>1, <3>2
  <2>. QED  BY <2>1, <2>2, <2>3, <2>4 DEF ClientsOK
<1>5. /\ pc[d] \in {"subscribe", "subSend", "subWait", "pubSend", "pubWait"} => left[d] > 0
      /\ pc[d] = "publish" /\ left[d] = 0 => tries[d] > 0
      /\ pc[d] = "unsubSend" => tries[d] > 0
      /\ left[d] \in 0 .. Publishes /\ tries[d] \in Nat
  BY <1>1, <1>3 DEF ClientsOK
<1>6. CASE SeesConnected(d)
  <2>1. CASE pc[d] = "subscribe"
    <3>. Goes("subSend")
      BY <1>1, <1>5, <1>6, <2>1 DEF SeesConnected
    <3>. QED  OBVIOUS
  <2>2. CASE pc[d] = "publish" /\ left[d] > 0
    <3>. Goes("pubSend")
      BY <1>1, <1>5, <1>6, <2>2 DEF SeesConnected
    <3>. QED  OBVIOUS
  <2>3. CASE pc[d] = "publish" /\ left[d] = 0
    <3>. Goes("unsubSend")
      BY <1>1, <1>5, <1>6, <2>3 DEF SeesConnected
    <3>. QED  OBVIOUS
  <2>4. pc[d] \in {"subscribe", "publish"}
    BY <1>6 DEF SeesConnected
  <2>. HIDE DEF Goes
  <2>. QED  BY <1>5, <2>1, <2>2, <2>3, <2>4
<1>7. CASE SubscribeToTopic(d)
  <2>. Goes("subWait")
    BY <1>1, <1>5, <1>7 DEF SubscribeToTopic, Call, Waiting
  <2>. QED  OBVIOUS
<1>8. CASE Subscribed(d)
  <2>1. CASE /\ Answered(d, "subWait", "success") /\ pc' = [pc EXCEPT ![d] = "pubSend"]
             /\ tries' = [tries EXCEPT ![d] = PublishRetries]
    <3>. Goes("pubSend")
      BY <1>1, <1>2, <1>5, <1>8, <2>1 DEF Subscribed, Answered
    <3>. QED  OBVIOUS
  <2>2. CASE /\ Answered(d, "subWait", "failed") /\ pc' = [pc EXCEPT ![d] = "subscribe"]
             /\ UNCHANGED tries
    <3>. Goes("subscribe")
      BY <1>1, <1>5, <1>8, <2>2 DEF Subscribed, Answered
    <3>. QED  OBVIOUS
  <2>. QED  BY <1>8, <2>1, <2>2 DEF Subscribed
<1>9. CASE PublishToTopic(d)
  <2>. Goes("pubWait")
    BY <1>1, <1>5, <1>9 DEF PublishToTopic, Call, Waiting
  <2>. QED  OBVIOUS
<1>10. CASE Published(d)
  <2>1. PICK result \in {"success", "failed"} :
           /\ pc[d] = "pubWait" /\ pc' = [pc EXCEPT ![d] = "publish"]
           /\ IF result = "failed" /\ tries[d] > 0
              THEN tries' = [tries EXCEPT ![d] = @ - 1] /\ left' = left
              ELSE /\ left' = [left EXCEPT ![d] = @ - 1]
                   /\ tries' = [tries EXCEPT ![d] = IF left[d] > 1 THEN PublishRetries
                                                    ELSE UnsubscribeRetries]
    BY <1>10 DEF Published, PublishEnds, Answered
  <2>2. CASE result = "failed" /\ tries[d] > 0
    <3>. Goes("publish")
      BY <1>1, <1>5, <2>1, <2>2
    <3>. QED  OBVIOUS
  <2>3. CASE ~(result = "failed" /\ tries[d] > 0)
    <3>1. left'[d] = left[d] - 1 /\ left[d] - 1 \in 0 .. Publishes
      BY <1>1, <1>2, <1>5, <2>1, <2>3
    <3>2. tries'[d] \in Nat /\ (left'[d] = 0 => tries'[d] > 0)
      BY <1>1, <1>2, <1>5, <2>1, <2>3, <3>1
    <3>. Goes("publish")
      BY <1>1, <1>2, <2>1, <2>3, <3>1, <3>2
    <3>. QED  OBVIOUS
  <2>. QED  BY <2>2, <2>3
<1>11. CASE UnsubscribeToTopic(d)
  <2>1. tries[d] - 1 \in Nat
    BY <1>5, <1>11 DEF UnsubscribeToTopic
  <2>. Goes("unsubWait")
    BY <1>1, <1>11, <2>1 DEF UnsubscribeToTopic, Call, Waiting
  <2>. QED  OBVIOUS
<1>12. CASE Unsubscribed(d)
  <2>1. PICK result \in {"success", "failed"} :
           /\ pc' = [pc EXCEPT ![d] = IF result = "failed" /\ tries[d] > 0
                                      THEN "unsubSend" ELSE "done"]
           /\ left' = left /\ tries' = tries
    BY <1>12 DEF Unsubscribed
  <2>2. CASE result = "failed" /\ tries[d] > 0
    <3>. Goes("unsubSend")
      BY <1>1, <2>1, <2>2
    <3>. QED  OBVIOUS
  <2>3. CASE ~(result = "failed" /\ tries[d] > 0)
    <3>. Goes("done")
      BY <1>1, <2>1, <2>3
    <3>. QED  OBVIOUS
  <2>. QED  BY <2>2, <2>3
<1>13. CASE CallFails(d)
  <2>1. CASE pc[d] = "subSend" /\ pc' = [pc EXCEPT ![d] = "subscribe"]
             /\ UNCHANGED <<left, tries>>
    <3>. Goes("subscribe")
      BY <1>1, <1>5, <2>1
    <3>. QED  OBVIOUS
  <2>2. CASE pc[d] = "pubSend" /\ PublishEnds(d, "failed") /\ tries[d] > 0
    <3>. Goes("publish")
      BY <1>1, <1>5, <2>2 DEF PublishEnds
    <3>. QED  OBVIOUS
  <2>3. CASE pc[d] = "pubSend" /\ PublishEnds(d, "failed") /\ ~(tries[d] > 0)
    <3>1. left'[d] = left[d] - 1 /\ left[d] - 1 \in 0 .. Publishes
      BY <1>1, <1>2, <1>5, <2>3 DEF PublishEnds
    <3>2. tries'[d] \in Nat /\ (left'[d] = 0 => tries'[d] > 0)
      BY <1>1, <1>2, <1>5, <2>3, <3>1 DEF PublishEnds
    <3>. Goes("publish")
      BY <1>1, <1>2, <2>3, <3>1, <3>2 DEF PublishEnds
    <3>. QED  OBVIOUS
  <2>4. CASE /\ pc[d] = "unsubSend" /\ left' = left
             /\ pc' = [pc EXCEPT ![d] = IF tries[d] > 1 THEN "unsubSend" ELSE "done"]
             /\ tries' = [tries EXCEPT ![d] = @ - 1]
    <3>1. tries[d] - 1 \in Nat
      BY <1>5, <2>4
    <3>2. CASE tries[d] > 1
      <4>. Goes("unsubSend")
        BY <1>1, <1>5, <2>4, <3>1, <3>2
      <4>. QED  OBVIOUS
    <3>3. CASE ~(tries[d] > 1)
      <4>. Goes("done")
        BY <1>1, <2>4, <3>1, <3>3
      <4>. QED  OBVIOUS
    <3>. QED  BY <3>2, <3>3
  <2>. HIDE DEF Goes
  <2>. QED  BY <1>13, <2>1, <2>2, <2>3, <2>4 DEF CallFails
<1>. QED  BY <1>6, <1>7, <1>8, <1>9, <1>10, <1>11, <1>12, <1>13 DEF DemoStep

(* The table stays right while a demo task takes a step. *)
LEMMA DemoTopics ==
    ASSUME IInv, NEW d \in Demos, DemoStep(d)
    PROVE  table' = table /\ TopicsGone'
<1>1. table' = table /\ table \subseteq [topic : Clients, managed : BOOLEAN]
  <2>1. table \subseteq [topic : Clients, managed : BOOLEAN]
    BY DEF IInv, TypeOK
  <2>. QED  BY <2>1 DEF DemoStep, SeesConnected, SubscribeToTopic, Subscribed, PublishToTopic,
                        CallFails, Published, UnsubscribeToTopic, Unsubscribed, Call, agentVars
<1>. SUFFICES ASSUME NEW e \in table
              PROVE  /\ e.topic \in Demos => ~(pc'[e.topic] = "unsubWait"
                                                 /\ notified'[e.topic] = "success")
                     /\ pc'[e.topic] = "done" => tries'[e.topic] = 0
  BY <1>1 DEF TopicsGone
<1>2. /\ e.topic \in Demos => ~(pc[e.topic] = "unsubWait" /\ notified[e.topic] = "success")
      /\ pc[e.topic] = "done" => tries[e.topic] = 0
      /\ e.topic \in Clients
  BY <1>1 DEF IInv, TopicsGone
<1>3. /\ pc = [c \in Clients |-> pc[c]] /\ notified = [c \in Clients |-> notified[c]]
      /\ tries \in [Demos -> Nat]
      /\ d \in Clients
  BY DEF IInv, TypeOK, Clients
<1>4. /\ \A c \in Clients : c # d => pc'[c] = pc[c]
      /\ \A c \in Demos : c # d => tries'[c] = tries[c]
  BY DemoMoves
<1>5. \A c \in Clients : c # d => notified'[c] = notified[c]
  BY <1>3 DEF DemoStep, SeesConnected, SubscribeToTopic, Subscribed, PublishToTopic,
              CallFails, Published, UnsubscribeToTopic, Unsubscribed, Call, Answered
<1>6. CASE e.topic # d
  <2>1. pc'[e.topic] = "done" => e.topic \in Demos
    <3>1. e.topic \in Wrappers => pc[e.topic] \in {"idle", "subSend", "pubSend", "halted"}
                                                     \cup Waiting
      BY DEF IInv, ClientsOK
    <3>. QED  BY <1>2, <1>4, <1>6, <3>1 DEF Clients, Waiting
  <2>. QED  BY <1>2, <1>4, <1>5, <1>6, <2>1
<1>7. CASE e.topic = d
  <2>1. CASE SeesConnected(d)
    BY <1>3, <1>7, <2>1 DEF SeesConnected
  <2>2. CASE SubscribeToTopic(d)
    BY <1>3, <1>7, <2>2 DEF SubscribeToTopic, Call
  <2>3. CASE Subscribed(d)
    BY <1>3, <1>7, <2>3 DEF Subscribed
  <2>4. CASE PublishToTopic(d)
    BY <1>3, <1>7, <2>4 DEF PublishToTopic, Call
  <2>5. CASE Published(d)
    BY <1>3, <1>7, <2>5 DEF Published, PublishEnds
  <2>6. CASE UnsubscribeToTopic(d)
    BY <1>3, <1>7, <2>6 DEF UnsubscribeToTopic, Call
  <2>7. CASE Unsubscribed(d)
    <3>1. PICK result \in {"success", "failed"} :
             /\ pc[d] = "unsubWait" /\ notified[d] = result
             /\ pc' = [pc EXCEPT ![d] = IF result = "failed" /\ tries[d] > 0
                                        THEN "unsubSend" ELSE "done"]
             /\ tries' = tries
      BY <2>7 DEF Unsubscribed, Answered
    <3>2. result = "failed"
      BY <1>2, <1>7, <3>1
    <3>3. tries[d] \in Nat
      BY <1>3
    <3>. QED  BY <1>3, <1>7, <3>1, <3>2, <3>3
  <2>8. CASE CallFails(d)
    <3>1. CASE pc[d] = "unsubSend"
      <4>1. /\ pc' = [pc EXCEPT ![d] = IF tries[d] > 1 THEN "unsubSend" ELSE "done"]
            /\ tries' = [tries EXCEPT ![d] = @ - 1]
        BY <2>8, <3>1 DEF CallFails
      <4>2. tries[d] \in Nat /\ tries[d] > 0
        BY <1>3, <3>1 DEF IInv, ClientsOK
      <4>. QED  BY <1>3, <1>7, <4>1, <4>2
    <3>2. CASE pc[d] # "unsubSend"
      BY <1>3, <1>7, <2>8, <3>2 DEF CallFails, PublishEnds
    <3>. QED  BY <3>1, <3>2
  <2>. QED  BY <2>1, <2>2, <2>3, <2>4, <2>5, <2>6, <2>7, <2>8 DEF DemoStep
<1>. QED  BY <1>6, <1>7

(* What a step of a client leaves of commands and notifications. *)
ExchangeKept ==
    /\ queue' \in Seq(Commands) /\ awaiting' \in Seq(Commands)
    /\ pool' \in 0 .. PoolSize
    /\ notified' \in [Clients -> {"none", "success", "failed"}]
    /\ Exchange'
    /\ Outstanding(AgentTask)' = Outstanding(AgentTask)

(* A step of a pub/sub task keeps the invariant. *)
LEMMA DemoStepKeeps ==
    ASSUME IInv, NEW d \in Demos, DemoStep(d)
    PROVE  IInv'
<1>1. d \in Clients
  BY DEF Clients
<1>2. ExchangeKept
  <2>1. /\ queue \in Seq(Commands) /\ pool \in 0 .. PoolSize /\ awaiting \in Seq(Commands)
        /\ notified \in [Clients -> {"none", "success", "failed"}]
    BY DEF IInv, TypeOK
  <2>2. ASSUME NEW kind \in Kinds \ {"resub"}, NEW wait, wait = WaitOf(kind),
               pc[d] \notin Waiting, Call(d, kind, wait)
        PROVE  ExchangeKept
    <3>1. /\ Enqueue(Command(kind, d)) /\ notified' = [notified EXCEPT ![d] = "none"]
          /\ pc' = [pc EXCEPT ![d] = WaitOf(kind)] /\ UNCHANGED awaiting
      BY <2>2 DEF Call
    <3>. QED  BY <1>1, <2>1, <2>2, <3>1, CallSent DEF ExchangeKept
  <2>3. ASSUME NEW wait \in Waiting, NEW result \in {"success", "failed"},
               Answered(d, wait, result), NEW place, place \notin Waiting,
               pc' = [pc EXCEPT ![d] = place], UNCHANGED agentVars
        PROVE  ExchangeKept
    <3>1. UNCHANGED <<queue, awaiting, pool>>
      BY <2>3 DEF agentVars
    <3>. QED  BY <1>1, <2>1, <2>3, <3>1, AnswerTaken DEF ExchangeKept
  <2>4. CASE SeesConnected(d)
    <3>1. PICK place \in {"subSend", "pubSend", "unsubSend"} :
             pc' = [pc EXCEPT ![d] = place]
      BY <2>4 DEF SeesConnected
    <3>2. /\ pc[d] \notin Waiting /\ UNCHANGED <<queue, awaiting, pool, notified>>
      BY <2>4 DEF SeesConnected, agentVars, Waiting
    <3>3. place \notin Waiting
      BY DEF Waiting
    <3>. QED  BY <1>1, <2>1, <3>1, <3>2, <3>3, ClientMoves DEF ExchangeKept
  <2>5. CASE SubscribeToTopic(d)
    <3>1. "sub" \in Kinds \ {"resub"} /\ "subWait" = WaitOf("sub") /\ pc[d] \notin Waiting
      BY <2>5 DEF Kinds, WaitOf, SubscribeToTopic, Waiting
    <3>. QED  BY <2>2, <2>5, <3>1 DEF SubscribeToTopic
  <2>6. CASE Subscribed(d)
    BY <2>3, <2>6 DEF Subscribed, Waiting
  <2>7. CASE PublishToTopic(d)
    <3>1. PICK kind \in {"publishQoS0", "publishQoS1"} : Call(d, kind, "pubWait")
      BY <2>7 DEF PublishToTopic
    <3>2. kind \in Kinds \ {"resub"} /\ "pubWait" = WaitOf(kind) /\ pc[d] \notin Waiting
      BY <2>7 DEF Kinds, WaitOf, PublishToTopic, Waiting
    <3>. QED  BY <2>2, <3>1, <3>2
  <2>8. CASE Published(d)
    BY <2>3, <2>8 DEF Published, PublishEnds, Waiting
  <2>9. CASE UnsubscribeToTopic(d)
    <3>1. "unsub" \in Kinds \ {"resub"} /\ "unsubWait" = WaitOf("unsub") /\ pc[d] \notin Waiting
      BY <2>9 DEF Kinds, WaitOf, UnsubscribeToTopic, Waiting
    <3>. QED  BY <2>2, <2>9, <3>1 DEF UnsubscribeToTopic
  <2>10. CASE Unsubscribed(d)
    <3>1. PICK result \in {"success", "failed"}, place \in {"unsubSend", "done"} :
             /\ Answered(d, "unsubWait", result) /\ UNCHANGED agentVars
             /\ pc' = [pc EXCEPT ![d] = place]
      BY <2>10 DEF Unsubscribed
    <3>2. "unsubWait" \in Waiting /\ place \notin Waiting
      BY DEF Waiting
    <3>. QED  BY <2>3, <3>1, <3>2
  <2>11. CASE CallFails(d)
    <3>1. PICK place \in {"subscribe", "publish", "unsubSend", "done"} :
             pc' = [pc EXCEPT ![d] = place]
      BY <2>11 DEF CallFails, PublishEnds
    <3>2. /\ pc[d] \notin Waiting /\ UNCHANGED <<queue, awaiting, pool, notified>>
      BY <2>11 DEF CallFails, agentVars, Waiting
    <3>3. place \notin Waiting
      BY DEF Waiting
    <3>. QED  BY <1>1, <2>1, <3>1, <3>2, <3>3, ClientMoves DEF ExchangeKept
  <2>. QED  BY <2>4, <2>5, <2>6, <2>7, <2>8, <2>9, <2>10, <2>11 DEF DemoStep
<1>3. UNCHANGED <<agent, table, resubTopics, session, brokerSubs, losses>>
  BY DEF DemoStep, SeesConnected, SubscribeToTopic, Subscribed, PublishToTopic, Published,
         CallFails, UnsubscribeToTopic, Unsubscribed, Call, agentVars, brokerVars, bounds
<1>4. Outstanding(AgentTask) \in Nat
  BY OutstandingNat DEF IInv
<1>5. ResubscriptionsBounded'
  BY <1>2, <1>3, <1>4, NoResubscription DEF ExchangeKept
<1>6. TypeOK'
  BY <1>2, <1>3, DemoMoves DEF IInv, TypeOK, ExchangeKept
<1>. QED  BY <1>2, <1>5, <1>6, DemoMoves, DemoTopics DEF IInv, ExchangeKept

(* A step of a task that uses the MQTT wrapper keeps the invariant. *)
LEMMA WrapperStepKeeps ==
    ASSUME IInv, NEW w \in Wrappers,
           WrapperStep(w) \/ WrapperCall(w) \/ WrapperUnsubscribe(w)
    PROVE  IInv'
<1>1. /\ w \in Clients /\ w \notin Demos /\ Demos \subseteq Clients /\ Wrappers \subseteq Clients
      /\ pc \in [Clients -> Waiting \cup {"subscribe", "subSend", "publish", "pubSend",
                                          "unsubSend", "done", "idle", "halted"}]
      /\ notified \in [Clients -> {"none", "success", "failed"}]
      /\ queue \in Seq(Commands) /\ awaiting \in Seq(Commands) /\ pool \in 0 .. PoolSize
      /\ table \subseteq [topic : Clients, managed : BOOLEAN]
  BY ClientsAssumption DEF Clients, IInv, TypeOK
<1>2. UNCHANGED <<agent, resubTopics, left, tries, session, brokerSubs, losses>>
  BY DEF WrapperStep, WrapperSubscribe, WrapperPublish, WrapperPublishFails, WrapperReturn,
         WrapperCall, WrapperUnsubscribe, Call, agentVars, brokerVars, bounds
<1>3. PICK place \in {"idle", "subSend", "pubSend", "halted"} \cup Waiting :
         pc' = [pc EXCEPT ![w] = place]
  <2>1. CASE WrapperCall(w)
    BY <2>1 DEF WrapperCall
  <2>2. CASE WrapperUnsubscribe(w)
    BY <2>2 DEF WrapperUnsubscribe, Call, Waiting
  <2>3. CASE WrapperSubscribe(w)
    BY <2>3 DEF WrapperSubscribe, Waiting
  <2>4. CASE WrapperPublish(w)
    BY <2>4 DEF WrapperPublish, Call, Waiting
  <2>5. CASE WrapperReturn(w)
    BY <2>5 DEF WrapperReturn
  <2>6. CASE WrapperPublishFails(w)
    BY <2>6 DEF WrapperPublishFails
  <2>. QED  BY <2>1, <2>2, <2>3, <2>4, <2>5, <2>6 DEF WrapperStep
<1>4. /\ pc'[w] = place /\ \A c \in Clients : c # w => pc'[c] = pc[c]
      /\ pc' \in [Clients -> Waiting \cup {"subscribe", "subSend", "publish", "pubSend",
                                           "unsubSend", "done", "idle", "halted"}]
  BY <1>1, <1>3
<1>5. ClientsOK'
  BY <1>1, <1>2, <1>4 DEF IInv, ClientsOK
<1>6. table' = table \/ table' = table \cup {[topic |-> w, managed |-> FALSE]}
  BY DEF WrapperStep, WrapperSubscribe, WrapperPublish, WrapperPublishFails, WrapperReturn,
         WrapperCall, WrapperUnsubscribe, Call, agentVars
<1>7. table' \subseteq [topic : Clients, managed : BOOLEAN]
  <2>1. [topic |-> w, managed |-> FALSE] \in [topic : Clients, managed : BOOLEAN]
    BY <1>1
  <2>. QED  BY <1>1, <1>6, <2>1
<1>8. \A c \in Clients : c # w => notified'[c] = notified[c]
  BY <1>1 DEF WrapperStep, WrapperSubscribe, WrapperPublish, WrapperPublishFails,
              WrapperReturn, WrapperCall, WrapperUnsubscribe, Call, Answered
<1>9. TopicsGone'
  <2>. SUFFICES ASSUME NEW e \in table'
                PROVE  /\ e.topic \in Demos => ~(pc'[e.topic] = "unsubWait"
                                                   /\ notified'[e.topic] = "success")
                       /\ pc'[e.topic] = "done" => tries'[e.topic] = 0
    BY DEF TopicsGone
  <2>1. e.topic \in Clients /\ (e \in table \/ e.topic = w)
    BY <1>6, <1>7
  <2>2. CASE e.topic = w
    BY <1>1, <1>4, <2>2 DEF Waiting
  <2>3. CASE e.topic # w
    BY <1>2, <1>4, <1>8, <2>1, <2>3 DEF IInv, TopicsGone
  <2>. QED  BY <2>2, <2>3
<1>10. ExchangeKept
  <2>1. ASSUME NEW kind \in {"sub", "publishQoS0", "unsub"}, pc[w] \notin Waiting,
               Enqueue(Command(kind, w)), notified' = [notified EXCEPT ![w] = "none"],
               pc' = [pc EXCEPT ![w] = WaitOf(kind)], UNCHANGED awaiting
        PROVE  ExchangeKept
    <3>1. kind \in Kinds \ {"resub"}
      BY DEF Kinds
    <3>. QED  BY <1>1, <2>1, <3>1, CallSent DEF ExchangeKept
  <2>2. CASE WrapperCall(w)
    <3>1. PICK send \in {"subSend", "pubSend"} : pc' = [pc EXCEPT ![w] = send]
      BY <2>2 DEF WrapperCall
    <3>2. /\ pc[w] \notin Waiting /\ send \notin Waiting
          /\ UNCHANGED <<queue, awaiting, pool, notified>>
      BY <2>2 DEF WrapperCall, agentVars, Waiting
    <3>. QED  BY <1>1, <3>1, <3>2, ClientMoves DEF ExchangeKept
  <2>3. CASE WrapperUnsubscribe(w)
    BY <2>1, <2>3 DEF WrapperUnsubscribe, Call, WaitOf, Waiting
  <2>4. CASE WrapperSubscribe(w)
    BY <2>1, <2>4 DEF WrapperSubscribe, WaitOf, Waiting
  <2>5. CASE WrapperPublish(w)
    BY <2>1, <2>5 DEF WrapperPublish, Call, WaitOf, Waiting
  <2>6. CASE WrapperReturn(w)
    <3>1. PICK wait \in Waiting, result \in {"success", "failed"}, after \in {"halted", "idle"} :
             /\ Answered(w, wait, result) /\ UNCHANGED agentVars
             /\ pc' = [pc EXCEPT ![w] = after]
      BY <2>6 DEF WrapperReturn
    <3>2. after \notin Waiting /\ UNCHANGED <<queue, awaiting, pool>>
      BY <3>1 DEF Waiting, agentVars
    <3>. QED  BY <1>1, <3>1, <3>2, AnswerTaken DEF ExchangeKept
  <2>7. CASE WrapperPublishFails(w)
    <3>1. /\ pc[w] \notin Waiting /\ "idle" \notin Waiting
          /\ pc' = [pc EXCEPT ![w] = "idle"]
          /\ UNCHANGED <<queue, awaiting, pool, notified>>
      BY <2>7 DEF WrapperPublishFails, agentVars, Waiting
    <3>. QED  BY <1>1, <3>1, ClientMoves DEF ExchangeKept
  <2>. QED  BY <2>2, <2>3, <2>4, <2>5, <2>6, <2>7 DEF WrapperStep
<1>11. Outstanding(AgentTask) \in Nat
  BY OutstandingNat DEF IInv
<1>12. ResubscriptionsBounded'
  BY <1>2, <1>10, <1>11, NoResubscription DEF ExchangeKept
<1>13. TypeOK'
  BY <1>2, <1>4, <1>7, <1>10 DEF IInv, TypeOK, ExchangeKept
<1>. QED  BY <1>5, <1>9, <1>10, <1>12, <1>13 DEF IInv, ExchangeKept

------------------------------------------------------------------------------
(* The steps of the agent task and of the broker *)

(* Everything the invariant says of clients holds on where they do not move. *)
LEMMA ClientsStay ==
    ASSUME IInv, UNCHANGED <<pc, left, tries>>
    PROVE  ClientsOK'
BY DEF IInv, ClientsOK

(* The agent answers a command and the loop goes on or ends. *)
LEMMA AnswerKeeps ==
    ASSUME IInv, ProcessCommand \/ SendFails \/ ReceiveAck
    PROVE  IInv'
<1>1. /\ UNCHANGED <<resubTopics, pc, left, tries, session, brokerSubs, losses>>
      /\ agent = "loop" /\ agent' \in {"loop", "lost"}
      /\ queue \in Seq(Commands) /\ awaiting \in Seq(Commands) /\ pool \in 0 .. PoolSize
      /\ table \subseteq [topic : Clients, managed : BOOLEAN]
      /\ notified \in [Clients -> {"none", "success", "failed"}]
  BY DEF ProcessCommand, SendFails, ReceiveAck, InLoop, brokerVars, bounds, IInv, TypeOK
<1>2. /\ queue' \in Seq(Commands) /\ awaiting' \in Seq(Commands) /\ pool' \in 0 .. PoolSize
      /\ table' \subseteq [topic : Clients, managed : BOOLEAN]
      /\ notified' \in [Clients -> {"none", "success", "failed"}]
      /\ Exchange' /\ TopicsGone'
      /\ Outstanding(AgentTask)' \in Nat
      /\ Outstanding(AgentTask)' <= Outstanding(AgentTask)
  <2>1. CASE SendFails
    <3>1. /\ queue # <<>> /\ queue' = Tail(queue) /\ awaiting' = awaiting
          /\ Conclude(Head(queue), "failed")
      BY <2>1 DEF SendFails
    <3>. QED  BY <1>1, <3>1, Concluded
  <2>2. CASE ReceiveAck
    <3>1. /\ awaiting # <<>> /\ awaiting' = Tail(awaiting) /\ queue' = queue
          /\ Conclude(Head(awaiting), Head(awaiting).ack) /\ Head(awaiting).ack # "none"
      BY <2>2 DEF ReceiveAck
    <3>2. Head(awaiting) \in Commands
      BY <1>1, <3>1, HeadTailProperties
    <3>3. Head(awaiting).ack \in {"success", "failed"}
      BY <3>1, <3>2 DEF Commands
    <3>. QED  BY <1>1, <3>1, <3>3, Concluded
  <2>3. CASE ProcessCommand /\ Head(queue).kind = "publishQoS0"
    <3>1. /\ queue # <<>> /\ queue' = Tail(queue) /\ awaiting' = awaiting
          /\ Conclude(Head(queue), "success")
      BY <2>3 DEF ProcessCommand
    <3>. QED  BY <1>1, <3>1, Concluded
  <2>4. CASE ProcessCommand /\ Head(queue).kind # "publishQoS0"
    <3>. DEFINE command == Head(queue)
    <3>1. /\ queue # <<>> /\ queue' = Tail(queue) /\ awaiting' = Append(awaiting, command)
          /\ UNCHANGED <<table, notified, pool>>
      BY <2>4 DEF ProcessCommand
    <3>2. /\ Tail(queue) \in Seq(Commands) /\ command \in Commands
          /\ Len(queue) \in Nat \ {0} /\ Len(Tail(queue)) = Len(queue) - 1
          /\ \A i \in 1 .. Len(Tail(queue)) : Tail(queue)[i] = queue[i + 1]
          /\ command = queue[1]
      BY <1>1, <3>1, HeadTailProperties, EmptySeq, LenProperties
    <3>3. /\ awaiting' \in Seq(Commands) /\ Len(awaiting') = Len(awaiting) + 1
          /\ \A i \in 1 .. Len(awaiting) : awaiting'[i] = awaiting[i]
          /\ awaiting'[Len(awaiting) + 1] = command
          /\ Len(awaiting) \in Nat
      BY <1>1, <3>1, <3>2, AppendProperties, LenProperties
    <3>4. \A c : Outstanding(c)' = Outstanding(c)
      <4>. TAKE c
      <4>1. /\ Cardinality(CommandsOf(c, queue)) = Cardinality(CommandsOf(c, Tail(queue)))
                                                      + One(command.client = c)
            /\ Cardinality(CommandsOf(c, Append(awaiting, command)))
                  = Cardinality(CommandsOf(c, awaiting)) + One(command.client = c)
        BY <1>1, <3>1, <3>2, CommandsTail, CommandsAppend
      <4>2. /\ Cardinality(CommandsOf(c, Tail(queue))) \in Nat
            /\ Cardinality(CommandsOf(c, awaiting)) \in Nat
        BY <1>1, <3>2, CommandsFinite
      <4>3. /\ Outstanding(c) = Cardinality(CommandsOf(c, queue))
                                   + Cardinality(CommandsOf(c, awaiting))
            /\ Outstanding(c)' = Cardinality(CommandsOf(c, Tail(queue)))
                                    + Cardinality(CommandsOf(c, Append(awaiting, command)))
        BY <3>1 DEF Outstanding
      <4>. HIDE DEF command
      <4>. QED  BY <4>1, <4>2, <4>3 DEF One
    <3>5. Matches(queue) /\ Matches(awaiting) /\ pc' = pc
      BY <1>1 DEF IInv, Exchange
    <3>6. \A i \in 1 .. Len(Tail(queue)) : i + 1 \in 1 .. Len(queue)
      BY <3>2
    <3>7. Matches(queue)'
      BY <3>1, <3>2, <3>5, <3>6 DEF Matches
    <3>8. 1 \in 1 .. Len(queue)
      BY <3>2
    <3>9. Matches(awaiting)'
      BY <3>2, <3>3, <3>5, <3>8 DEF Matches
    <3>10. OneAnswer'
      BY <1>1, <3>1, <3>4 DEF IInv, Exchange, OneAnswer
    <3>11. pool' + Len(queue') + Len(awaiting') = PoolSize
      <4>1. pool \in Int /\ pool' = pool /\ pool + Len(queue) + Len(awaiting) = PoolSize
        BY <1>1, <3>1 DEF IInv, Exchange
      <4>2. Len(queue') = Len(queue) - 1
        BY <3>1, <3>2
      <4>. QED  BY <3>2, <3>3, <4>1, <4>2
    <3>12. TopicsGone'
      BY <1>1, <3>1 DEF IInv, TopicsGone
    <3>13. Outstanding(AgentTask) \in Nat
      BY OutstandingNat DEF IInv
    <3>. QED  BY <1>1, <3>1, <3>2, <3>3, <3>4, <3>7, <3>9, <3>10, <3>11, <3>12, <3>13
              DEF Exchange
  <2>. QED  BY <2>1, <2>2, <2>3, <2>4
<1>3. ResubscriptionsBounded'
  <2>1. Outstanding(AgentTask) \in Nat
    BY OutstandingNat DEF IInv
  <2>. QED  BY <1>1, <1>2, <2>1 DEF IInv, ResubscriptionsBounded, One
<1>4. TypeOK'
  BY <1>1, <1>2 DEF IInv, TypeOK
<1>. QED  BY <1>1, <1>2, <1>3, <1>4, ClientsStay DEF IInv

(* Nothing of the exchange changes while commands and notifications do not. *)
LEMMA ExchangeStays ==
    ASSUME IInv, UNCHANGED <<pool, queue, awaiting, pc, notified>>
    PROVE  /\ Exchange'
           /\ Outstanding(AgentTask)' = Outstanding(AgentTask)
           /\ Outstanding(AgentTask) \in Nat
<1>1. \A c : Outstanding(c)' = Outstanding(c)
  BY DEF Outstanding
<1>. QED  BY <1>1, OutstandingNat DEF IInv, Exchange, OneAnswer, Matches

(* The connection comes and goes, and the broker may forget the session. *)
LEMMA ConnectionKeeps ==
    ASSUME IInv, ConnectionLost \/ LeaveLoop \/ FirstConnect \/ LoseSession
                    \/ ResubscribeFails
    PROVE  IInv'
<1>1. /\ UNCHANGED <<pool, queue, awaiting, table, pc, notified, left, tries>>
      /\ resubTopics' \in {resubTopics, Managed}
  BY DEF ResubscribeFails, ConnectionLost, LeaveLoop, FirstConnect, LoseSession, agentVars, clientVars
<1>2. /\ Exchange'
      /\ Outstanding(AgentTask)' = Outstanding(AgentTask)
      /\ Outstanding(AgentTask) \in Nat
  BY <1>1, ExchangeStays
<1>3. TopicsGone'
  BY <1>1 DEF IInv, TopicsGone
<1>4. TypeOK' /\ ResubscriptionsBounded'
  <2>0. resubTopics' \subseteq Clients
    BY <1>1 DEF IInv, TypeOK, Managed
  <2>1. /\ TypeOK
        /\ losses \in 0 .. MaxSessionLosses /\ MaxSessionLosses \in Nat
        /\ agent \in {"loop", "lost", "resubscribe"} => session
        /\ Outstanding(AgentTask) + One(agent = "resubscribe")
               + One(agent = "connecting" /\ ~session) <= losses
    BY CountsAssumption DEF IInv, ResubscriptionsBounded
  <2>2. CASE ConnectionLost
    <3>1. agent = "loop" /\ agent' = "lost" /\ UNCHANGED <<session, brokerSubs, losses>>
      BY <2>2 DEF ConnectionLost, InLoop, brokerVars
    <3>. QED  BY <1>1, <1>2, <2>0, <2>1, <3>1 DEF TypeOK, ResubscriptionsBounded, One
  <2>3. CASE LeaveLoop
    <3>1. agent = "lost" /\ agent' = "connecting" /\ UNCHANGED <<session, brokerSubs, losses>>
      BY <2>3 DEF LeaveLoop, brokerVars, bounds
    <3>. QED  BY <1>1, <1>2, <2>0, <2>1, <3>1 DEF TypeOK, ResubscriptionsBounded, One
  <2>4. CASE FirstConnect
    <3>1. /\ agent = "start" /\ agent' = "loop" /\ session' = TRUE
          /\ UNCHANGED <<brokerSubs, losses>>
      BY <2>4 DEF FirstConnect, bounds
    <3>. QED  BY <1>1, <1>2, <2>0, <2>1, <3>1 DEF TypeOK, ResubscriptionsBounded, One
  <2>5. CASE LoseSession
    <3>1. /\ agent = "connecting" /\ session /\ losses < MaxSessionLosses
          /\ session' = FALSE /\ brokerSubs' = {} /\ losses' = losses + 1
          /\ agent' = agent
      BY <2>5 DEF LoseSession, agentVars
    <3>2. losses' \in 0 .. MaxSessionLosses
      BY <2>1, <3>1
    <3>3. Outstanding(AgentTask) <= losses
      BY <1>2, <2>1, <3>1 DEF One
    <3>4. ResubscriptionsBounded'
      BY <1>2, <2>1, <3>1, <3>2, <3>3 DEF ResubscriptionsBounded, One
    <3>. QED  BY <1>1, <2>0, <2>1, <3>1, <3>4 DEF TypeOK
  <2>6. CASE ResubscribeFails
    <3>1. agent = "resubscribe" /\ agent' = "connecting" /\ UNCHANGED <<session, brokerSubs, losses>>
      BY <2>6 DEF ResubscribeFails, brokerVars, bounds
    <3>. QED  BY <1>1, <1>2, <2>0, <2>1, <3>1 DEF TypeOK, ResubscriptionsBounded, One
  <2>. QED  BY <2>2, <2>3, <2>4, <2>5, <2>6
<1>. QED  BY <1>1, <1>2, <1>3, <1>4, ClientsStay DEF IInv

(* The session is resumed. *)
LEMMA ReconnectKeeps ==
    ASSUME IInv, Reconnect
    PROVE  IInv'
<1>1. /\ agent = "connecting" /\ agent' = IF session THEN "loop" ELSE "resubscribe"
      /\ session' = TRUE /\ ResumeSession
      /\ UNCHANGED <<queue, table, resubTopics, pc, left, tries, brokerSubs, losses>>
  BY DEF Reconnect, bounds
<1>2. /\ awaiting' \in Seq(Commands) /\ pool' \in 0 .. PoolSize
      /\ notified' \in [Clients -> {"none", "success", "failed"}]
      /\ Exchange' /\ TopicsGone'
      /\ Outstanding(AgentTask)' \in Nat
      /\ Outstanding(AgentTask)' <= Outstanding(AgentTask)
  BY <1>1, Resumed
<1>3. ResubscriptionsBounded'
  <2>1. Outstanding(AgentTask) \in Nat
    BY OutstandingNat DEF IInv
  <2>2. /\ losses \in 0 .. MaxSessionLosses /\ losses' = losses
        /\ Outstanding(AgentTask) + One(~session) <= losses
    BY <1>1, <2>1 DEF IInv, ResubscriptionsBounded, One
  <2>. QED  BY <1>1, <1>2, <2>1, <2>2 DEF ResubscriptionsBounded, One
<1>4. TypeOK'
  BY <1>1, <1>2 DEF IInv, TypeOK
<1>. QED  BY <1>1, <1>2, <1>3, <1>4, ClientsStay DEF IInv

(* The agent queues at most one resubscription for the session that was lost. *)
LEMMA ResubscribeKeeps ==
    ASSUME IInv, HandleResubscribe
    PROVE  IInv'
<1>1. /\ agent = "resubscribe" /\ agent' = "loop"
      /\ UNCHANGED <<awaiting, table, pc, notified, left, tries, session, brokerSubs, losses>>
  BY DEF HandleResubscribe, clientVars, brokerVars, bounds
<1>2. /\ queue \in Seq(Commands) /\ awaiting \in Seq(Commands)
      /\ pool \in 0 .. PoolSize /\ PoolSize \in Nat
      /\ table \subseteq [topic : Clients, managed : BOOLEAN]
      /\ losses \in 0 .. MaxSessionLosses /\ session
      /\ Outstanding(AgentTask) + 1 <= losses
      /\ Outstanding(AgentTask) \in Nat
  BY <1>1, CountsAssumption, OutstandingNat DEF IInv, TypeOK, ResubscriptionsBounded, One
<1>3. TopicsGone'
  BY <1>1 DEF IInv, TopicsGone
<1>4. CASE UNCHANGED <<pool, queue, resubTopics>>
  <2>1. Exchange' /\ Outstanding(AgentTask)' = Outstanding(AgentTask)
    BY <1>1, <1>4, ExchangeStays
  <2>2. ResubscriptionsBounded'
    BY <1>1, <1>2, <2>1 DEF ResubscriptionsBounded, One
  <2>3. TypeOK'
    BY <1>1, <1>4 DEF IInv, TypeOK
  <2>. QED  BY <1>1, <1>3, <2>1, <2>2, <2>3, ClientsStay DEF IInv
<1>5. CASE /\ Enqueue(Command("resub", AgentTask))
           /\ resubTopics' = Managed
  <2>. DEFINE command == Command("resub", AgentTask)
  <2>1. /\ queue' = Append(queue, command) /\ pool' = pool - 1 /\ pool > 0
        /\ command \in Commands /\ command.client = AgentTask /\ command.kind = "resub"
    BY <1>5 DEF Enqueue, Command, Commands, Kinds
  <2>2. /\ queue' \in Seq(Commands) /\ Len(queue') = Len(queue) + 1
        /\ \A i \in 1 .. Len(queue) : queue'[i] = queue[i]
        /\ queue'[Len(queue) + 1] = command
        /\ Len(queue) \in Nat /\ Len(awaiting) \in Nat
    BY <1>2, <2>1, AppendProperties, LenProperties
  <2>. HIDE DEF command
  <2>3. \A c : Outstanding(c)' = Outstanding(c) + One(AgentTask = c)
    <3>. TAKE c
    <3>1. Cardinality(CommandsOf(c, queue'))
             = Cardinality(CommandsOf(c, queue)) + One(AgentTask = c)
      BY <1>2, <2>1, CommandsAppend
    <3>2. /\ Cardinality(CommandsOf(c, queue)) \in Nat
          /\ Cardinality(CommandsOf(c, awaiting)) \in Nat
      BY <1>2, CommandsFinite
    <3>3. /\ Outstanding(c) = Cardinality(CommandsOf(c, queue))
                                 + Cardinality(CommandsOf(c, awaiting))
          /\ Outstanding(c)' = Cardinality(CommandsOf(c, queue'))
                                  + Cardinality(CommandsOf(c, awaiting))
      BY <1>1 DEF Outstanding
    <3>. QED  BY <3>1, <3>2, <3>3 DEF One
  <2>4. \A c \in Clients : Outstanding(c)' = Outstanding(c)
    <3>. TAKE c \in Clients
    <3>1. AgentTask # c /\ Outstanding(c) \in Nat
      BY ClientsAssumption, OutstandingNat DEF IInv
    <3>. QED  BY <2>3, <3>1 DEF One
  <2>5. Outstanding(AgentTask)' = Outstanding(AgentTask) + 1
    BY <2>3 DEF One
  <2>6. Matches(queue)' /\ Matches(awaiting)'
    <3>1. Matches(queue) /\ Matches(awaiting) /\ pc' = pc /\ awaiting' = awaiting
      BY <1>1 DEF IInv, Exchange
    <3>2. Matches(awaiting)'
      BY <3>1 DEF Matches
    <3>3. \A i \in 1 .. Len(queue') : i \in 1 .. Len(queue) \/ i = Len(queue) + 1
      BY <2>2
    <3>4. AgentTask \notin Clients
      BY ClientsAssumption
    <3>5. Matches(queue)'
      BY <2>1, <2>2, <3>1, <3>3, <3>4 DEF Matches
    <3>. QED  BY <3>2, <3>5
  <2>7. OneAnswer'
    BY <1>1, <2>4 DEF IInv, Exchange, OneAnswer
  <2>8. pool' \in 0 .. PoolSize /\ pool' + Len(queue') + Len(awaiting') = PoolSize
    <3>1. pool + Len(queue) + Len(awaiting) = PoolSize /\ awaiting' = awaiting
      BY <1>1 DEF IInv, Exchange
    <3>2. pool' \in 0 .. PoolSize
      BY <1>2, <2>1
    <3>3. pool \in Int
      BY <1>2
    <3>4. pool' + Len(queue') + Len(awaiting') = PoolSize
      BY <2>1, <2>2, <3>1, <3>3
    <3>. QED  BY <3>2, <3>4
  <2>9. ResubscriptionsBounded'
    BY <1>1, <1>2, <2>5 DEF ResubscriptionsBounded, One
  <2>10. resubTopics' \subseteq Clients
    BY <1>2, <1>5 DEF Managed
  <2>11. TypeOK'
    BY <1>1, <2>2, <2>8, <2>10 DEF IInv, TypeOK
  <2>. QED  BY <1>1, <1>3, <2>6, <2>7, <2>8, <2>9, <2>11, ClientsStay DEF IInv, Exchange
<1>. QED  BY <1>4, <1>5 DEF HandleResubscribe

(* An acknowledgment that sets out changes neither the client nor the kind of the
   command. *)
LEMMA AcknowledgeKeeps ==
    ASSUME IInv, BrokerReceives \/ BrokerRefuses
    PROVE  IInv'
<1>1. PICK i \in 1 .. Len(awaiting), answer \in {"success", "failed"} : Acknowledge(i, answer)
  BY DEF BrokerReceives, BrokerRefuses
<1>2. /\ awaiting' = [awaiting EXCEPT ![i].ack = answer]
      /\ UNCHANGED <<agent, pool, queue, table, resubTopics, pc, notified, left, tries,
                     session, losses>>
  BY <1>1 DEF Acknowledge, clientVars
<1>3. awaiting \in Seq(Commands) /\ Len(awaiting) \in Nat /\ awaiting[i] \in Commands
  <2>1. awaiting \in Seq(Commands)
    BY DEF IInv, TypeOK
  <2>. QED  BY <2>1, LenProperties, ElementOfSeq
<1>4. /\ awaiting' = [awaiting EXCEPT ![i] = [awaiting[i] EXCEPT !.ack = answer]]
      /\ [awaiting[i] EXCEPT !.ack = answer] \in Commands
      /\ [awaiting[i] EXCEPT !.ack = answer].client = awaiting[i].client
      /\ [awaiting[i] EXCEPT !.ack = answer].kind = awaiting[i].kind
  BY <1>2, <1>3 DEF Commands
<1>5. awaiting' \in Seq(Commands) /\ Len(awaiting') = Len(awaiting)
  BY <1>3, <1>4, ExceptSeq
<1>6. \A k \in 1 .. Len(awaiting) : /\ awaiting'[k].client = awaiting[k].client
                                    /\ awaiting'[k].kind = awaiting[k].kind
  <2>. TAKE k \in 1 .. Len(awaiting)
  <2>1. awaiting'[k] = IF k = i THEN [awaiting[i] EXCEPT !.ack = answer] ELSE awaiting[k]
    BY <1>3, <1>4, ExceptSeq
  <2>. QED  BY <1>4, <2>1
<1>7. \A c : CommandsOf(c, awaiting') = CommandsOf(c, awaiting)
  BY <1>5, <1>6 DEF CommandsOf
<1>8. \A c : Outstanding(c)' = Outstanding(c)
  BY <1>2, <1>7 DEF Outstanding
<1>9. Matches(queue)' /\ Matches(awaiting)'
  BY <1>2, <1>5, <1>6 DEF IInv, Exchange, Matches
<1>10. OneAnswer' /\ pool' + Len(queue') + Len(awaiting') = PoolSize
  BY <1>2, <1>5, <1>8 DEF IInv, Exchange, OneAnswer
<1>11. Outstanding(AgentTask) \in Nat
  BY OutstandingNat DEF IInv
<1>12. ResubscriptionsBounded'
  BY <1>2, <1>8, <1>11, NoResubscription
<1>13. TopicsGone'
  BY <1>2 DEF IInv, TopicsGone
<1>14. brokerSubs' \subseteq Clients
  <2>1. brokerSubs \subseteq Clients /\ resubTopics \subseteq Clients
    BY DEF IInv, TypeOK
  <2>2. CASE BrokerRefuses
    BY <2>1, <2>2 DEF BrokerRefuses
  <2>3. CASE BrokerReceives
    <3>1. PICK k \in 1 .. Len(awaiting) :
             brokerSubs' = CASE awaiting[k].kind = "sub" -> brokerSubs \cup {awaiting[k].client}
                             [] awaiting[k].kind = "unsub" -> brokerSubs \ {awaiting[k].client}
                             [] awaiting[k].kind = "resub" -> brokerSubs \cup resubTopics
                             [] OTHER -> brokerSubs
      BY <2>3 DEF BrokerReceives
    <3>2. awaiting[k].client \in Clients \/ awaiting[k].client = AgentTask
      <4>1. awaiting[k] \in Commands
        BY <1>3, ElementOfSeq
      <4>. QED  BY <4>1 DEF Commands
    <3>3. awaiting[k].client \notin Clients => awaiting[k].kind = "resub"
      BY DEF IInv, Exchange, Matches
    <3>. QED  BY <2>1, <3>1, <3>2, <3>3
  <2>. QED  BY <2>2, <2>3
<1>15. TypeOK'
  BY <1>2, <1>5, <1>14 DEF IInv, TypeOK
<1>. QED  BY <1>2, <1>9, <1>10, <1>12, <1>13, <1>15, ClientsStay DEF IInv, Exchange

------------------------------------------------------------------------------
(* The invariant, and what follows from it *)

(* The device starts with no command under way. *)
LEMMA InitInv == Init => IInv
<1>. SUFFICES ASSUME Init PROVE IInv
  OBVIOUS
<1>1. /\ PoolSize \in Nat /\ Publishes \in Nat \ {0} /\ MaxSessionLosses \in Nat
      /\ \A d \in Demos : d \notin Wrappers
  BY CountsAssumption, ClientsAssumption
<1>2. <<>> \in Seq(Commands) /\ Len(<<>>) = 0
  BY EmptySeq
<1>3. TypeOK
  BY <1>1, <1>2 DEF Init, TypeOK
<1>4. ClientsOK
  BY <1>1 DEF Init, ClientsOK, Clients
<1>5. ASSUME NEW c
      PROVE  Outstanding(c) = 0
  <2>1. CommandsOf(c, <<>>) = {}
    BY <1>2 DEF CommandsOf
  <2>2. Cardinality({}) = 0
    BY FS_EmptySet
  <2>3. CommandsOf(c, queue) = {} /\ CommandsOf(c, awaiting) = {}
    BY <2>1 DEF Init
  <2>. QED  BY <2>2, <2>3 DEF Outstanding
<1>6. OneAnswer
  BY <1>5 DEF Init, OneAnswer, One, Waiting
<1>7. Exchange
  BY <1>1, <1>2, <1>6 DEF Init, Exchange, Matches
<1>8. ResubscriptionsBounded /\ TopicsGone
  BY <1>1, <1>5 DEF Init, ResubscriptionsBounded, TopicsGone, One
<1>. QED  BY <1>3, <1>4, <1>7, <1>8 DEF IInv

(* A step that changes nothing. *)
LEMMA StutterKeeps ==
    ASSUME IInv, UNCHANGED vars
    PROVE  IInv'
<1>1. UNCHANGED <<agent, pool, queue, awaiting, table, resubTopics, pc, notified, left, tries,
                  session, brokerSubs, losses>>
  BY DEF vars, agentVars, clientVars, brokerVars, bounds
<1>2. Exchange' /\ Outstanding(AgentTask)' = Outstanding(AgentTask)
      /\ Outstanding(AgentTask) \in Nat
  BY <1>1, ExchangeStays
<1>3. ResubscriptionsBounded'
  BY <1>1, <1>2, NoResubscription
<1>. QED  BY <1>1, <1>2, <1>3, ClientsStay DEF IInv, TypeOK, TopicsGone

(* Commands, notifications, the pool and the table belong together in every state,
   whatever is canceled, sent again, refused or acknowledged late. *)
THEOREM SessionInvariant == Spec => []IInv
<1>1. IInv /\ [Next]_vars => IInv'
  <2>. SUFFICES ASSUME IInv, [Next]_vars PROVE IInv'
    OBVIOUS
  <2>1. CASE AgentStep
    BY <2>1, AnswerKeeps, ConnectionKeeps, ReconnectKeeps, ResubscribeKeeps DEF AgentStep
  <2>2. CASE SendFails
    BY <2>2, AnswerKeeps
  <2>3. CASE ConnectionLost \/ LoseSession
    BY <2>3, ConnectionKeeps
  <2>4. CASE BrokerReceives \/ BrokerRefuses
    BY <2>4, AcknowledgeKeeps
  <2>5. CASE \E d \in Demos : DemoStep(d)
    BY <2>5, DemoStepKeeps
  <2>6. CASE \E w \in Wrappers : WrapperStep(w) \/ WrapperCall(w) \/ WrapperUnsubscribe(w)
    BY <2>6, WrapperStepKeeps
  <2>7. CASE UNCHANGED vars
    BY <2>7, StutterKeeps
  <2>. QED  BY <2>1, <2>2, <2>3, <2>4, <2>5, <2>6, <2>7 DEF Next
<1>. QED  BY <1>1, InitInv, PTL DEF Spec

(* Every variable of the agent task, of its clients and of the broker keeps its type. *)
THEOREM TypeCorrect == Spec => []TypeOK
<1>1. IInv => TypeOK
  BY DEF IInv
<1>. QED  BY <1>1, SessionInvariant, PTL

(* A client that waits has either one command under way or one answer, and a client
   that does not wait has neither (simple_pub_sub_task.c:511, mqtt_wrapper.c:240). *)
THEOREM AlwaysOneAnswer == Spec => []OneAnswer
<1>1. IInv => OneAnswer
  BY DEF IInv, Exchange
<1>. QED  BY <1>1, SessionInvariant, PTL

(* No command structure is lost, and whatever number of sessions the broker forgets,
   a pool with one structure for each client and one for each session lost so far has
   one for the resubscription, which does not wait for it (mqtt_agent_task.c,
   prvHandleResubscribe); an empty pool makes calls fail, not the count wrong. *)
THEOREM PoolAlwaysSuffices == Spec => []PoolSuffices
<1>1. IInv => PoolSuffices
  <2>. SUFFICES ASSUME IInv PROVE PoolSuffices
    OBVIOUS
  <2>1. pool + Len(queue) + Len(awaiting) = PoolSize
    BY DEF IInv, Exchange
  <2>2. Outstanding(AgentTask) <= losses
    <3>1. Outstanding(AgentTask) \in Nat /\ losses \in Nat
      BY CountsAssumption, OutstandingNat DEF IInv, ResubscriptionsBounded
    <3>. QED  BY <3>1 DEF IInv, ResubscriptionsBounded, One
  <2>. QED  BY <2>1, <2>2, PoolForResubscription DEF PoolSuffices
<1>. QED  BY <1>1, SessionInvariant, PTL

(* The topic filter of a task that has deleted itself is not in the table, unless the
   task gave up unsubscribing (simple_pub_sub_task.c). *)
THEOREM TopicsAlwaysAlive == Spec => []TopicsAlive
<1>1. IInv => TopicsAlive
  BY DEF IInv, TopicsGone, TopicsAlive
<1>. QED  BY <1>1, SessionInvariant, PTL
==============================================================================
