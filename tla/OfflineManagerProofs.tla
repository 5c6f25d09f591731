------------------------ MODULE OfflineManagerProofs ------------------------
(***************************************************************************)
(* Theorems about OfflineManager, for any number of threads, operations and *)
(* crashes, and with repeated initialize, load_state and save_state.        *)
(***************************************************************************)
EXTENDS OfflineManager, SubsequencesProofs

---------------------------------------------------------------------------
(* Lists of operations. *)

\* No two operations of q have the same id.
DistinctIds(q) == \A i, j \in 1..Len(q) : q[i].id = q[j].id => i = j

LEMMA PendingMember ==
  ASSUME NEW q, NEW x
  PROVE  x \in PendingIn(q) <=> \E i \in 1..Len(q) : ~q[i].completed /\ x = q[i].id
BY DEF PendingIn

\* What erasing operations leaves.
LEMMA EraseProperties ==
  ASSUME NEW q \in Seq(Operations), NEW P \in SUBSET (1..Len(q))
  PROVE  LET r == Subsequence(q, P)
         IN  /\ r \in Seq(Operations)
             /\ IdsOf(r) = {q[i].id : i \in P}
             /\ PendingIn(r) = {q[i].id : i \in {j \in P : ~q[j].completed}}
             /\ DistinctIds(q) => DistinctIds(r)
<1> DEFINE r == Subsequence(q, P)
<1>1. /\ r \in Seq(Operations)
      /\ \A k \in 1..Len(r) : \E i \in P : Rank(P, i) = k /\ r[k] = q[i]
      /\ \A i \in P : Rank(P, i) \in 1..Len(r) /\ r[Rank(P, i)] = q[i]
  BY SubsequenceProperties
<1> HIDE DEF r
<1>2. IdsOf(r) = {q[i].id : i \in P}
  <2>1. \A x \in IdsOf(r) : x \in {q[i].id : i \in P}
    BY <1>1 DEF IdsOf
  <2>2. \A i \in P : q[i].id \in IdsOf(r)
    BY <1>1 DEF IdsOf
  <2> QED BY <2>1, <2>2
<1>3. PendingIn(r) = {q[i].id : i \in {j \in P : ~q[j].completed}}
  <2>1. \A x \in PendingIn(r) : x \in {q[i].id : i \in {j \in P : ~q[j].completed}}
    BY <1>1, PendingMember
  <2>2. \A i \in P : ~q[i].completed => q[i].id \in PendingIn(r)
    BY <1>1, PendingMember
  <2> QED BY <2>1, <2>2
<1>4. ASSUME DistinctIds(q) PROVE DistinctIds(r)
  <2> SUFFICES ASSUME NEW k \in 1..Len(r), NEW m \in 1..Len(r), r[k].id = r[m].id
               PROVE  k = m
    BY DEF DistinctIds
  <2>1. PICK i \in P : Rank(P, i) = k /\ r[k] = q[i]
    BY <1>1
  <2>2. PICK j \in P : Rank(P, j) = m /\ r[m] = q[j]
    BY <1>1
  <2>3. i = j
    BY <1>4, <2>1, <2>2 DEF DistinctIds
  <2> QED BY <2>1, <2>2, <2>3
<1> QED BY <1>1, <1>2, <1>3, <1>4 DEF r

\* Erasing an id leaves the others.
LEMMA WithoutId ==
  ASSUME NEW q \in Seq(Operations), NEW id
  PROVE  IdsOf(Subsequence(q, {i \in 1..Len(q) : q[i].id # id})) = IdsOf(q) \ {id}
<1> DEFINE P == {i \in 1..Len(q) : q[i].id # id}
<1>1. IdsOf(Subsequence(q, P)) = {q[i].id : i \in P}
  <2>1. P \in SUBSET (1..Len(q))
    OBVIOUS
  <2> HIDE DEF P
  <2> QED BY <2>1, EraseProperties
<1>2. {q[i].id : i \in P} = IdsOf(q) \ {id}
  BY DEF IdsOf
<1> QED BY <1>1, <1>2

\* What queueing an operation adds.
LEMMA QueueProperties ==
  ASSUME NEW q \in Seq(Operations), NEW id \in Ids
  PROVE  LET r == Append(q, [id |-> id, completed |-> FALSE])
         IN  /\ r \in Seq(Operations)
             /\ IdsOf(r) = IdsOf(q) \cup {id}
             /\ PendingIn(r) = PendingIn(q) \cup {id}
             /\ DistinctIds(q) /\ id \notin IdsOf(q) => DistinctIds(r)
<1> DEFINE op == [id |-> id, completed |-> FALSE]
           r == Append(q, op)
           n == Len(q)
<1>1. n \in Nat /\ op \in Operations /\ op.id = id /\ ~op.completed
  BY LenProperties DEF Operations
<1>2. /\ r \in Seq(Operations)
      /\ Len(r) = n + 1
      /\ \A i \in 1..n : r[i] = q[i]
      /\ r[n + 1] = op
  <2> HIDE DEF op
  <2> QED BY <1>1, AppendProperties
<1> HIDE DEF r, op
<1>3. /\ \A i \in 1..(n + 1) : i \in 1..n \/ i = n + 1
      /\ \A i \in 1..n : i \in 1..(n + 1)
      /\ n + 1 \in 1..(n + 1)
  BY <1>1
<1>4. IdsOf(r) = IdsOf(q) \cup {id}
  <2>1. \A i \in 1..n : r[i].id = q[i].id
    BY <1>2
  <2>2. r[n + 1].id = id
    BY <1>1, <1>2
  <2>3. IdsOf(r) = {r[i].id : i \in 1..(n + 1)}
    BY <1>2 DEF IdsOf
  <2> HIDE DEF n
  <2> QED BY <1>3, <2>1, <2>2, <2>3 DEF IdsOf, n
<1>5. PendingIn(r) = PendingIn(q) \cup {id}
  <2>1. \A i \in 1..n : r[i].id = q[i].id /\ r[i].completed = q[i].completed
    BY <1>2
  <2>2. r[n + 1].id = id /\ ~r[n + 1].completed
    BY <1>1, <1>2
  <2>3. \A x \in PendingIn(r) : x \in PendingIn(q) \cup {id}
    BY <1>2, <1>3, <2>1, <2>2, PendingMember
  <2>4. id \in PendingIn(r)
    BY <1>2, <1>3, <2>2, PendingMember
  <2>5. \A x \in PendingIn(q) : x \in PendingIn(r)
    BY <1>2, <1>3, <2>1, PendingMember
  <2> QED BY <2>3, <2>4, <2>5
<1>6. ASSUME DistinctIds(q), id \notin IdsOf(q) PROVE DistinctIds(r)
  <2>1. \A i \in 1..n : r[i].id = q[i].id /\ r[i].id # id
    BY <1>2, <1>6 DEF IdsOf
  <2>2. r[n + 1].id = id
    BY <1>1, <1>2
  <2> QED BY <1>2, <1>3, <1>6, <2>1, <2>2 DEF DistinctIds
<1> QED BY <1>2, <1>4, <1>5, <1>6 DEF r, op

\* What completing the operation at position i changes.
LEMMA CompleteProperties ==
  ASSUME NEW q \in Seq(Operations), NEW i \in 1..Len(q)
  PROVE  LET r == [q EXCEPT ![i].completed = TRUE]
         IN  /\ r \in Seq(Operations)
             /\ IdsOf(r) = IdsOf(q)
             /\ PendingIn(r) \subseteq PendingIn(q)
             /\ DistinctIds(q) => DistinctIds(r) /\ q[i].id \notin PendingIn(r)
<1> DEFINE r == [q EXCEPT ![i].completed = TRUE]
           n == Len(q)
<1>1. n \in Nat /\ DOMAIN q = 1..n /\ \A j \in 1..n : q[j] \in Operations
  BY LenProperties, ElementOfSeq
<1>2. DOMAIN r = 1..n /\ \A j \in 1..n : r[j] = IF j = i THEN [q[i] EXCEPT !.completed = TRUE]
                                                ELSE q[j]
  BY <1>1
<1>3. \A j \in 1..n : r[j] \in Operations /\ r[j].id = q[j].id
                      /\ r[j].completed = (j = i \/ q[j].completed)
  BY <1>1, <1>2 DEF Operations
<1>4. r \in Seq(Operations) /\ Len(r) = n
  <2>1. r = [j \in 1..n |-> r[j]]
    BY <1>2
  <2> HIDE DEF r
  <2> QED BY <1>1, <1>2, <1>3, <2>1, IsASeq, LenProperties
<1> HIDE DEF r
<1>5. IdsOf(r) = IdsOf(q)
  BY <1>3, <1>4 DEF IdsOf
<1>6. PendingIn(r) \subseteq PendingIn(q)
  BY <1>3, <1>4 DEF PendingIn
<1>7. DistinctIds(q) => DistinctIds(r)
  BY <1>3, <1>4 DEF DistinctIds
<1>8. DistinctIds(q) => q[i].id \notin PendingIn(r)
  BY <1>3, <1>4 DEF DistinctIds, PendingIn
<1> QED BY <1>4, <1>5, <1>6, <1>7, <1>8 DEF r

\* The ids of a list are those of its pending and of its completed operations.
LEMMA IdsSplit ==
  ASSUME NEW q \in Seq(Operations)
  PROVE  /\ IdsOf(q) \subseteq Ids
         /\ IdsOf(q) = PendingIn(q) \cup CompletedIn(q)
<1>1. \A i \in 1..Len(q) : q[i] \in Operations
  BY ElementOfSeq
<1>2. \A i \in 1..Len(q) : q[i].id \in Ids
  BY <1>1 DEF Operations
<1> QED BY <1>2 DEF IdsOf, PendingIn, CompletedIn

\* The empty list.
LEMMA NoOperations ==
  /\ <<>> \in Seq(Operations)
  /\ IdsOf(<<>>) = {} /\ PendingIn(<<>>) = {} /\ DistinctIds(<<>>)
<1>1. <<>> \in Seq(Operations) /\ 1..Len(<<>>) = {}
  BY EmptySeq
<1> QED BY <1>1 DEF IdsOf, PendingIn, DistinctIds

---------------------------------------------------------------------------
(* Type correctness and the mutex. *)

\* The history of the ids rests on the ids of the calls under way.
Names == {"none", "queue", "mark", "remove", "clear", "save_state", "exit", "process"}
Calls == [name : Names, ids : SUBSET Ids]
TypeInv == TypeOK /\ call \in [Threads -> Calls]

LEMMA NoCallType == NoCall \in Calls
BY DEF NoCall, Calls, Names

LEMMA NoThread == None \notin Threads
BY OfflineAssumption

\* Loading leaves a list of operations.
LEMMA LoadType ==
  ASSUME TypeInv, Load
  PROVE  ops' \in Seq(Operations)
BY DEF TypeInv, TypeOK, Load

\* The start of a save, with the list already changed.
LEMMA BeginSaveType ==
  ASSUME TypeInv, NEW t \in Threads, mutex = None,
         NEW name \in Names, NEW ids \in SUBSET Ids, BeginSave(t, name, ids),
         ops' \in Seq(Operations), tried' \subseteq Ids, acked' \subseteq Ids
  PROVE  TypeInv'
<1> USE DEF TypeInv, TypeOK
<1>1. \A u \in Threads : pc[u] = "idle"
  BY NoThread
<1>2. mutex' = t /\ pc' = [pc EXCEPT ![t] = "open"]
      /\ call' = [call EXCEPT ![t] = [name |-> name, ids |-> ids]]
      /\ UNCHANGED <<up, initialized, offline_mode, file, crashes, finished, removed>>
  BY DEF BeginSave
<1>3. pc' \in [Threads -> {"idle", "open", "write", "self_wait"}]
      /\ \A u \in Threads : pc'[u] # "idle" <=> mutex' = u
  BY <1>1, <1>2
<1>4. call' \in [Threads -> Calls]
  BY <1>2 DEF Calls
<1> QED BY <1>2, <1>3, <1>4

\* The death of the process.
LEMMA DownType ==
  ASSUME TypeInv, Down
  PROVE  /\ up' \in BOOLEAN /\ initialized' \in BOOLEAN /\ offline_mode' \in BOOLEAN
         /\ ops' \in Seq(Operations)
         /\ mutex' \in Threads \cup {None}
         /\ pc' \in [Threads -> {"idle", "open", "write", "self_wait"}]
         /\ \A u \in Threads : pc'[u] # "idle" <=> mutex' = u
         /\ call' \in [Threads -> Calls]
BY NoCallType, NoThread, NoOperations DEF Down

\* The end of a save.
LEMMA ReturnType ==
  ASSUME TypeInv, NEW t \in Threads, pc[t] # "idle", NEW result, Return(t, result),
         file' \in {Absent, Torn} \/ file' \in Seq(Operations)
  PROVE  TypeInv'
<1> USE DEF TypeInv, TypeOK
<1>1. \A names : Told(t, result, names) \subseteq Ids
  BY DEF Told, Calls
<1>2. acked' \subseteq Ids /\ finished' \subseteq Ids /\ removed' \subseteq Ids
      /\ crashes' = crashes /\ tried' = tried
  BY <1>1 DEF Return
<1>3. CASE call[t].name = "exit"
  BY <1>2, <1>3, DownType DEF Return
<1>4. CASE call[t].name # "exit"
  <2>1. /\ mutex' = None
        /\ pc' = [pc EXCEPT ![t] = "idle"]
        /\ call' = [call EXCEPT ![t] = NoCall]
        /\ UNCHANGED memory
    BY <1>4 DEF Return
  <2>2. NoCall \in Calls
    BY NoCallType
  <2>3. \A u \in Threads : u # t => pc[u] = "idle"
    OBVIOUS
  <2>4. pc' \in [Threads -> {"idle", "open", "write", "self_wait"}]
        /\ \A u \in Threads : pc'[u] # "idle" <=> mutex' = u
    BY <2>1, <2>3, NoThread
  <2> QED BY <1>2, <2>1, <2>2, <2>4 DEF memory
<1> QED BY <1>3, <1>4

LEMMA TypeStep == TypeInv /\ [Next]_vars => TypeInv'
<1> SUFFICES ASSUME TypeInv, [Next]_vars PROVE TypeInv'
  OBVIOUS
<1> USE DEF TypeInv, TypeOK
<1>1. ASSUME NEW t \in Threads, Initialize(t) \/ LoadState(t)
      PROVE  TypeInv'
  <2>1. ops' \in Seq(Operations)
    BY <1>1, LoadType DEF Initialize, LoadState
  <2>2. initialized' \in BOOLEAN
    BY <1>1 DEF Initialize, LoadState
  <2> QED BY <1>1, <2>1, <2>2 DEF Initialize, LoadState, control, history
<1>2. ASSUME NEW t \in Threads, NEW b \in BOOLEAN, SetOfflineMode(t, b)
      PROVE  TypeInv'
  BY <1>2 DEF SetOfflineMode, control, history
<1>3. ASSUME NEW t \in Threads, NEW id \in Ids, QueueOperation(t, id)
      PROVE  TypeInv'
  <2>1. ops' \in Seq(Operations)
    BY <1>3, QueueProperties DEF QueueOperation
  <2>2. mutex = None /\ BeginSave(t, "queue", {id}) /\ {id} \in SUBSET Ids
        /\ tried' \subseteq Ids /\ acked' \subseteq Ids
    BY <1>3 DEF QueueOperation, Enter
  <2> QED BY <2>1, <2>2, BeginSaveType DEF Names
<1>4. ASSUME NEW t \in Threads, NEW id \in Ids, MarkOperationCompleted(t, id)
      PROVE  TypeInv'
  <2>1. ops' \in Seq(Operations)
    BY <1>4, CompleteProperties DEF MarkOperationCompleted
  <2>2. mutex = None /\ BeginSave(t, "mark", {id}) /\ {id} \in SUBSET Ids
        /\ tried' \subseteq Ids /\ acked' \subseteq Ids
    BY <1>4 DEF MarkOperationCompleted, Enter
  <2> QED BY <2>1, <2>2, BeginSaveType DEF Names
<1>5. ASSUME NEW t \in Threads, NEW id \in Ids, RemoveOperation(t, id)
      PROVE  TypeInv'
  <2>1. ops' \in Seq(Operations)
    BY <1>5, EraseProperties DEF RemoveOperation
  <2>2. mutex = None /\ BeginSave(t, "remove", {id}) /\ {id} \in SUBSET Ids
        /\ tried' \subseteq Ids /\ acked' \subseteq Ids
    BY <1>5 DEF RemoveOperation, Enter
  <2> QED BY <2>1, <2>2, BeginSaveType DEF Names
<1>6. ASSUME NEW t \in Threads, ClearCompletedOperations(t)
      PROVE  TypeInv'
  <2>1. ops' \in Seq(Operations)
    BY <1>6, EraseProperties DEF ClearCompletedOperations
  <2>2. CompletedIn(ops) \ PendingIn(ops) \in SUBSET Ids
    BY IdsSplit
  <2>3. mutex = None /\ BeginSave(t, "clear", CompletedIn(ops) \ PendingIn(ops))
        /\ tried' \subseteq Ids /\ acked' \subseteq Ids
    BY <1>6 DEF ClearCompletedOperations, Enter
  <2> QED BY <2>1, <2>2, <2>3, BeginSaveType DEF Names
<1>7. ASSUME NEW t \in Threads, ProcessPendingOperations(t)
      PROVE  TypeInv'
  <2>1. /\ mutex = None /\ mutex' = t
        /\ pc' = [pc EXCEPT ![t] = "self_wait"]
        /\ call' = [call EXCEPT ![t] = [name |-> "process", ids |-> {}]]
        /\ UNCHANGED <<memory, file, crashes, history>>
    BY <1>7 DEF ProcessPendingOperations, Enter
  <2>2. \A u \in Threads : pc[u] = "idle"
    BY <2>1, NoThread
  <2>3. pc' \in [Threads -> {"idle", "open", "write", "self_wait"}]
        /\ \A u \in Threads : pc'[u] # "idle" <=> mutex' = u
    BY <2>1, <2>2
  <2>4. call' \in [Threads -> Calls]
    BY <2>1 DEF Calls, Names
  <2> QED BY <2>1, <2>3, <2>4 DEF memory, history
<1>8. ASSUME NEW t \in Threads, SaveState(t) \/ Exit(t)
      PROVE  TypeInv'
  <2>1. mutex = None /\ ops' = ops /\ tried' = tried /\ acked' = acked
        /\ (BeginSave(t, "save_state", {}) \/ BeginSave(t, "exit", {}))
    BY <1>8 DEF SaveState, Exit, Enter
  <2> QED BY <2>1, BeginSaveType DEF Names
<1>9. ASSUME NEW t \in Threads, OpenFile(t)
      PROVE  TypeInv'
  <2>1. CASE /\ file' = Torn
             /\ pc' = [pc EXCEPT ![t] = "write"]
             /\ UNCHANGED <<memory, mutex, call, crashes, history>>
    <3>1. pc' \in [Threads -> {"idle", "open", "write", "self_wait"}]
          /\ \A u \in Threads : pc'[u] # "idle" <=> mutex' = u
      BY <1>9, <2>1 DEF OpenFile
    <3> QED BY <2>1, <3>1 DEF memory, history
  <2>2. CASE Return(t, FALSE) /\ file' = file
    BY <1>9, <2>2, ReturnType DEF OpenFile
  <2> QED BY <1>9, <2>1, <2>2 DEF OpenFile
<1>10. ASSUME NEW t \in Threads, WriteFile(t)
       PROVE  TypeInv'
  <2>1. file' \in {Absent, Torn} \/ file' \in Seq(Operations)
    BY <1>10 DEF WriteFile
  <2>2. pc[t] = "write" /\ (Return(t, TRUE) \/ Return(t, FALSE))
    BY <1>10 DEF WriteFile
  <2> QED BY <2>1, <2>2, ReturnType
<1>11. CASE Crash
  <2>1. crashes' \in 0..MaxCrashes
    BY <1>11, OfflineAssumption DEF Crash
  <2> QED BY <1>11, <2>1, DownType DEF Crash, history
<1>12. CASE Restart
  BY <1>12 DEF Restart, control, history
<1>13. CASE UNCHANGED vars
  BY <1>13 DEF vars, memory, control, history
<1>14. \A t \in Threads : QueueCard(t) => \E id \in Ids : QueueOperation(t, id)
  BY DEF QueueCard, GenerateUniqueId, Again
<1> QED BY <1>1, <1>2, <1>3, <1>4, <1>5, <1>6, <1>7, <1>8, <1>9, <1>10, <1>11, <1>12,
           <1>13, <1>14 DEF Next, Call

LEMMA TypeInvariant == Spec => []TypeInv
<1>1. Init => TypeInv
  <2> SUFFICES ASSUME Init PROVE TypeInv
    OBVIOUS
  <2>1. call \in [Threads -> Calls]
    BY NoCallType DEF Init
  <2>2. crashes \in 0..MaxCrashes
    BY OfflineAssumption DEF Init
  <2>3. ops \in Seq(Operations)
    BY NoOperations DEF Init
  <2>4. \A t \in Threads : pc[t] # "idle" <=> mutex = t
    BY NoThread DEF Init
  <2> QED BY <2>1, <2>2, <2>3, <2>4 DEF Init, TypeInv, TypeOK
<1> QED BY <1>1, TypeStep, PTL DEF Spec

\* Type correctness of every reachable state; and the thread inside a call that
\* saves is the owner of _manager_mutex, so that two saves never overlap.
THEOREM TypeCorrect == Spec => []TypeOK
<1>1. TypeInv => TypeOK
  BY DEF TypeInv
<1> QED BY <1>1, TypeInvariant, PTL

\* While nobody owns _manager_mutex no call is under way.
LEMMA Unlocked ==
  ASSUME TypeInv, mutex = None
  PROVE  \A t \in Threads : pc[t] = "idle"
BY NoThread DEF TypeInv, TypeOK

---------------------------------------------------------------------------
(* Durability.  The file lags behind memory during a save, and memory lags   *)
(* behind the file before initialize; an operation that was acknowledged is  *)
(* in whichever of the two the next manager will start from.                *)

\* The file is torn only during a save; between saves it holds what was
\* acknowledged.
FileInv ==
    /\ file = Torn => \E t \in Threads : pc[t] = "write"
    /\ file = Absent => acked = {}
    /\ file \in Seq(Operations) => acked \subseteq IdsOf(file)

\* Memory that will be saved, or has been loaded, holds what was acknowledged;
\* and what is about to be acknowledged.
MemoryInv ==
    /\ initialized \/ ops # <<>> \/ mutex # None => acked \subseteq IdsOf(ops)
    /\ \A t \in Threads :
          pc[t] # "idle" /\ call[t].name = "queue" => call[t].ids \subseteq IdsOf(ops)

DurableInv == FileInv /\ MemoryInv

\* What a list holds shows that it is not empty.
LEMMA SomeOperation ==
  ASSUME NEW id, id \in IdsOf(ops) \/ id \in CompletedIn(ops)
  PROVE  ops # <<>>
<1>1. ops = <<>> => 1..Len(ops) = {}
  BY EmptySeq
<1> QED BY <1>1 DEF IdsOf, CompletedIn

\* A call that changes the list and goes on to save it.
LEMMA BeginSaveDurable ==
  ASSUME TypeInv, DurableInv, NEW t \in Threads, mutex = None,
         NEW name, NEW ids, BeginSave(t, name, ids),
         acked' \subseteq acked, acked' \subseteq IdsOf(ops'),
         name = "queue" => ids \subseteq IdsOf(ops')
  PROVE  DurableInv'
<1>1. \A u \in Threads : pc[u] = "idle"
  BY Unlocked
<1>2. /\ file' = file
      /\ pc' = [pc EXCEPT ![t] = "open"]
      /\ call' = [call EXCEPT ![t] = [name |-> name, ids |-> ids]]
  BY DEF BeginSave
<1>3. FileInv'
  BY <1>1, <1>2 DEF DurableInv, FileInv
<1>4. \A u \in Threads : pc'[u] # "idle" => u = t
  BY <1>1, <1>2 DEF TypeInv, TypeOK
<1>5. call'[t] = [name |-> name, ids |-> ids]
  BY <1>2 DEF TypeInv
<1>6. MemoryInv'
  BY <1>4, <1>5 DEF MemoryInv
<1> QED BY <1>3, <1>6 DEF DurableInv

\* A load while no call is under way, from a file that can be read.
LEMMA LoadDurable ==
  ASSUME TypeInv, DurableInv, mutex = None, "unreadable" \notin Env, Load
  PROVE  acked \subseteq IdsOf(ops') \/ (ops' = ops /\ acked = {})
<1>1. file # Torn
  BY Unlocked DEF DurableInv, FileInv
<1> QED BY <1>1 DEF Load, DurableInv, FileInv, TypeInv, TypeOK

\* The end of a save, successful or not: what stays in memory is what is kept
\* for a call that goes on.
LEMMA ReturnDurable ==
  ASSUME TypeInv, NEW t \in Threads, pc[t] # "idle", NEW result, Return(t, result),
         initialized \/ ops # <<>> => acked' \subseteq IdsOf(ops)
  PROVE  MemoryInv'
<1>1. CASE call[t].name = "exit"
  BY <1>1 DEF Return, Down, MemoryInv
<1>2. CASE call[t].name # "exit"
  <2>1. /\ mutex' = None /\ pc' = [pc EXCEPT ![t] = "idle"]
        /\ initialized' = initialized /\ ops' = ops
    BY <1>2 DEF Return, memory
  <2>2. \A u \in Threads : pc'[u] = "idle"
    BY <2>1, NoThread DEF TypeInv, TypeOK
  <2> QED BY <2>1, <2>2 DEF MemoryInv
<1> QED BY <1>1, <1>2

\* The environment in which a save that returns TRUE has saved: strings are
\* valid UTF-8, writes succeed, the file can be read, the process does not die
\* between truncation and write, and nobody saves before initialize.
Benign ==
    /\ BadIds = {}
    /\ Env \cap {"disk_full", "unreadable", "crash_in_save", "early_save"} = {}

LEMMA DurableStep ==
  ASSUME Benign
  PROVE  TypeInv /\ DurableInv /\ [Next]_vars => DurableInv'
<1> SUFFICES ASSUME TypeInv, DurableInv, [Next]_vars PROVE DurableInv'
  OBVIOUS
<1>0. ops \in Seq(Operations) /\ file \in {Absent, Torn} \cup Seq(Operations)
      /\ Absent \notin Seq(Operations) /\ Torn \notin Seq(Operations) /\ Absent # Torn
  BY OfflineAssumption DEF TypeInv, TypeOK
<1>1. ASSUME NEW t \in Threads, Initialize(t) \/ LoadState(t)
      PROVE  DurableInv'
  <2>1. /\ mutex = None /\ Load
        /\ mutex' = mutex /\ pc' = pc /\ call' = call /\ file' = file /\ acked' = acked
    BY <1>1 DEF Initialize, LoadState, Enter, control, history
  <2>2. acked \subseteq IdsOf(ops') \/ (ops' = ops /\ acked = {})
    BY <2>1, LoadDurable DEF Benign
  <2>3. \A u \in Threads : pc[u] = "idle"
    BY <2>1, Unlocked
  <2> QED BY <2>1, <2>2, <2>3 DEF DurableInv, FileInv, MemoryInv
<1>2. ASSUME NEW t \in Threads, NEW b \in BOOLEAN, SetOfflineMode(t, b)
      PROVE  DurableInv'
  BY <1>2 DEF SetOfflineMode, control, history, DurableInv, FileInv, MemoryInv
<1>3. ASSUME NEW t \in Threads, NEW id \in Ids, QueueOperation(t, id)
      PROVE  DurableInv'
  <2>1. IdsOf(ops') = IdsOf(ops) \cup {id}
    BY <1>0, <1>3, QueueProperties DEF QueueOperation
  <2>2. mutex = None /\ initialized /\ BeginSave(t, "queue", {id}) /\ acked' = acked
    BY <1>3 DEF QueueOperation, Enter
  <2>3. acked \subseteq IdsOf(ops)
    BY <2>2 DEF DurableInv, MemoryInv
  <2> QED BY <2>1, <2>2, <2>3, BeginSaveDurable
<1>4. ASSUME NEW t \in Threads, NEW id \in Ids, MarkOperationCompleted(t, id)
      PROVE  DurableInv'
  <2>1. PICK i \in 1..Len(ops) : ops[i].id = id /\ ops' = [ops EXCEPT ![i].completed = TRUE]
    BY <1>4 DEF MarkOperationCompleted
  <2>2. IdsOf(ops') = IdsOf(ops) /\ id \in IdsOf(ops)
    BY <1>0, <2>1, CompleteProperties DEF IdsOf
  <2>3. mutex = None /\ BeginSave(t, "mark", {id}) /\ acked' = acked
    BY <1>4 DEF MarkOperationCompleted, Enter
  <2>4. acked \subseteq IdsOf(ops)
    BY <2>2, SomeOperation DEF DurableInv, MemoryInv
  <2> QED BY <2>2, <2>3, <2>4, BeginSaveDurable
<1>5. ASSUME NEW t \in Threads, NEW id \in Ids, RemoveOperation(t, id)
      PROVE  DurableInv'
  <2>1. /\ mutex = None /\ id \in IdsOf(ops)
        /\ ops' = Subsequence(ops, {i \in 1..Len(ops) : ops[i].id # id})
        /\ acked' = acked \ {id} /\ BeginSave(t, "remove", {id})
    BY <1>5 DEF RemoveOperation, Enter
  <2>2. IdsOf(ops') = IdsOf(ops) \ {id}
    BY <1>0, <2>1, WithoutId
  <2>3. acked \subseteq IdsOf(ops)
    BY <2>1, SomeOperation DEF DurableInv, MemoryInv
  <2> QED BY <2>1, <2>2, <2>3, BeginSaveDurable
<1>6. ASSUME NEW t \in Threads, ClearCompletedOperations(t)
      PROVE  DurableInv'
  <2> DEFINE gone == CompletedIn(ops) \ PendingIn(ops)
  <2>1. /\ mutex = None /\ CompletedIn(ops) # {}
        /\ ops' = Subsequence(ops, {i \in 1..Len(ops) : ~ops[i].completed})
        /\ acked' = acked \ gone /\ BeginSave(t, "clear", gone)
    BY <1>6 DEF ClearCompletedOperations, Enter
  <2>2. IdsOf(ops') = PendingIn(ops)
    BY <1>0, <2>1, EraseProperties DEF PendingIn
  <2>3. acked \subseteq IdsOf(ops)
    BY <2>1, SomeOperation DEF DurableInv, MemoryInv
  <2>4. acked' \subseteq IdsOf(ops')
    BY <1>0, <2>1, <2>2, <2>3, IdsSplit
  <2> QED BY <2>1, <2>4, BeginSaveDurable
<1>7. ASSUME NEW t \in Threads, ProcessPendingOperations(t)
      PROVE  DurableInv'
  <2>1. /\ mutex = None /\ initialized
        /\ pc' = [pc EXCEPT ![t] = "self_wait"]
        /\ call' = [call EXCEPT ![t] = [name |-> "process", ids |-> {}]]
        /\ UNCHANGED <<memory, file, crashes, history>>
    BY <1>7 DEF ProcessPendingOperations, Enter
  <2>2. \A u \in Threads : pc[u] = "idle"
    BY <2>1, Unlocked
  <2>3. \A u \in Threads : pc'[u] # "idle" => u = t
    BY <2>1, <2>2 DEF TypeInv, TypeOK
  <2>4. call'[t].name = "process"
    BY <2>1 DEF TypeInv
  <2>5. FileInv' /\ acked \subseteq IdsOf(ops)
    BY <2>1, <2>2 DEF memory, history, DurableInv, FileInv, MemoryInv
  <2> QED BY <2>1, <2>3, <2>4, <2>5 DEF memory, history, DurableInv, MemoryInv
<1>8. ASSUME NEW t \in Threads, SaveState(t) \/ Exit(t)
      PROVE  DurableInv'
  <2>1. /\ mutex = None /\ initialized /\ ops' = ops /\ acked' = acked
        /\ (BeginSave(t, "save_state", {}) \/ BeginSave(t, "exit", {}))
    BY <1>8 DEF SaveState, Exit, Enter, Benign
  <2>2. acked \subseteq IdsOf(ops)
    BY <2>1 DEF DurableInv, MemoryInv
  <2> QED BY <2>1, <2>2, BeginSaveDurable
<1>9. ASSUME NEW t \in Threads, OpenFile(t)
      PROVE  DurableInv'
  <2>0. pc[t] = "open" /\ mutex = t /\ mutex # None
    BY <1>9, NoThread DEF OpenFile, TypeInv, TypeOK
  <2>1. CASE /\ file' = Torn
             /\ pc' = [pc EXCEPT ![t] = "write"]
             /\ UNCHANGED <<memory, mutex, call, crashes, history>>
    <3>1. FileInv'
      BY <1>0, <2>1 DEF FileInv, TypeInv, TypeOK
    <3>2. \A u \in Threads : pc'[u] # "idle" => pc[u] # "idle"
      BY <2>0, <2>1 DEF TypeInv, TypeOK
    <3> QED BY <2>1, <3>1, <3>2 DEF memory, history, DurableInv, MemoryInv
  <2>2. CASE Return(t, FALSE) /\ file' = file
    <3>1. acked' = acked
      BY <2>2 DEF Return, Told
    <3>2. acked \subseteq IdsOf(ops)
      BY <2>0 DEF DurableInv, MemoryInv
    <3>3. file # Torn
      BY <2>0 DEF DurableInv, FileInv, TypeInv, TypeOK
    <3> QED BY <2>0, <2>2, <3>1, <3>2, <3>3, ReturnDurable DEF DurableInv, FileInv
  <2> QED BY <1>9, <2>1, <2>2 DEF OpenFile
<1>10. ASSUME NEW t \in Threads, WriteFile(t)
       PROVE  DurableInv'
  <2>1. pc[t] = "write" /\ mutex = t /\ mutex # None /\ file' = ops /\ Return(t, TRUE)
    BY <1>10, NoThread DEF WriteFile, TypeInv, TypeOK, Benign
  <2>2. acked' \subseteq IdsOf(ops)
    <3>1. acked \subseteq IdsOf(ops)
      BY <2>1 DEF DurableInv, MemoryInv
    <3>2. acked' = acked \cup Told(t, TRUE, {"queue"})
      BY <2>1 DEF Return
    <3>3. Told(t, TRUE, {"queue"}) \subseteq IdsOf(ops)
      BY <2>1 DEF Told, DurableInv, MemoryInv
    <3> QED BY <3>1, <3>2, <3>3
  <2>3. FileInv'
    BY <1>0, <2>1, <2>2 DEF FileInv
  <2> QED BY <2>1, <2>2, <2>3, ReturnDurable DEF DurableInv
<1>11. CASE Crash
  <2>1. /\ \A u \in Threads : pc[u] # "write"
        /\ Down /\ file' = file /\ acked' = acked
    BY <1>11 DEF Crash, Benign, history
  <2> QED BY <2>1 DEF Down, DurableInv, FileInv, MemoryInv
<1>12. CASE Restart
  BY <1>12 DEF Restart, control, history, DurableInv, FileInv, MemoryInv
<1>13. CASE UNCHANGED vars
  BY <1>13 DEF vars, memory, control, history, DurableInv, FileInv, MemoryInv
<1>14. \A t \in Threads : QueueCard(t) => \E id \in Ids : QueueOperation(t, id)
  BY DEF QueueCard, GenerateUniqueId, Again
<1> QED BY <1>1, <1>2, <1>3, <1>4, <1>5, <1>6, <1>7, <1>8, <1>9, <1>10, <1>11, <1>12,
           <1>13, <1>14 DEF Next, Call

\* An operation whose queueing was acknowledged is in the queue of every
\* initialized manager, across any number of crashes and restarts, with files
\* that cannot be opened and clients that queue the same operation again, as
\* long as a save that returns TRUE has saved.  Each exclusion is needed:
\* without any one of them TLC finds a behaviour that loses an operation
\* (Offline_torn_save is the one for a crash inside a save).
THEOREM AcknowledgedIsKept ==
  ASSUME Benign
  PROVE  Spec => []Durable
<1>1. Init => DurableInv
  BY OfflineAssumption, NoThread DEF Init, DurableInv, FileInv, MemoryInv
<1>2. DurableInv => Durable
  BY DEF DurableInv, MemoryInv, Durable
<1> QED BY <1>1, <1>2, TypeInvariant, DurableStep, PTL DEF Spec

---------------------------------------------------------------------------
(* What is settled stays settled, whatever the environment does: a file that *)
(* still parses was written after every acknowledgement so far.             *)

\* A list that contradicts no acknowledgement.  Ids are distinct because
\* mark_operation_completed completes one operation only.
Settled(q) ==
    /\ DistinctIds(q)
    /\ IdsOf(q) \subseteq tried
    /\ finished \cap PendingIn(q) = {}
    /\ removed \cap IdsOf(q) = {}

\* What a call under way will acknowledge is already so in memory.
PromiseInv ==
    \A t \in Threads : pc[t] # "idle" =>
        /\ call[t].ids \subseteq tried
        /\ call[t].name = "mark" => call[t].ids \cap PendingIn(ops) = {}
        /\ call[t].name \in {"remove", "clear"} => call[t].ids \cap IdsOf(ops) = {}

SettledInv ==
    /\ finished \subseteq tried /\ removed \subseteq tried
    /\ Settled(ops)
    /\ file \in Seq(Operations) => Settled(file)
    /\ \A t \in Threads : pc[t] = "write" => file = Torn
    /\ PromiseInv

\* A call that changes the list and goes on to save it.
LEMMA BeginSaveSettled ==
  ASSUME TypeInv, SettledInv, NEW t \in Threads, mutex = None,
         NEW name, NEW ids, BeginSave(t, name, ids),
         tried \subseteq tried', Settled(ops)', ids \subseteq tried',
         name = "mark" => ids \cap PendingIn(ops') = {},
         name \in {"remove", "clear"} => ids \cap IdsOf(ops') = {}
  PROVE  SettledInv'
<1>1. \A u \in Threads : pc[u] = "idle"
  BY Unlocked
<1>2. /\ file' = file /\ finished' = finished /\ removed' = removed
      /\ pc' = [pc EXCEPT ![t] = "open"]
      /\ call' = [call EXCEPT ![t] = [name |-> name, ids |-> ids]]
  BY DEF BeginSave
<1>3. \A u \in Threads : pc'[u] # "write" /\ (pc'[u] # "idle" => u = t)
  BY <1>1, <1>2 DEF TypeInv, TypeOK
<1>4. call'[t] = [name |-> name, ids |-> ids]
  BY <1>2 DEF TypeInv
<1>5. PromiseInv'
  BY <1>3, <1>4 DEF PromiseInv
<1>6. file' \in Seq(Operations) => Settled(file)'
  BY <1>2 DEF SettledInv, Settled
<1> QED BY <1>2, <1>3, <1>5, <1>6 DEF SettledInv

\* The empty list contradicts nothing.
LEMMA NothingSettled == ASSUME ops' = <<>> PROVE Settled(ops)'
BY NoOperations DEF Settled

\* The end of a save that wrote the list, left the file torn, or failed before
\* it changed anything.
LEMMA ReturnSettled ==
  ASSUME TypeInv, SettledInv, NEW t \in Threads, pc[t] # "idle",
         NEW result \in BOOLEAN, Return(t, result),
         file' = ops \/ file' = Torn \/ (result = FALSE /\ file' = file)
  PROVE  SettledInv'
<1>1. /\ tried' = tried
      /\ finished' = finished \cup Told(t, result, {"mark"})
      /\ removed' = removed \cup Told(t, result, {"remove", "clear"})
  BY DEF Return
<1>2. /\ Told(t, result, {"mark"}) \subseteq tried
      /\ Told(t, result, {"mark"}) \cap PendingIn(ops) = {}
      /\ Told(t, result, {"remove", "clear"}) \subseteq tried
      /\ Told(t, result, {"remove", "clear"}) \cap IdsOf(ops) = {}
      /\ result = FALSE => /\ Told(t, result, {"mark"}) = {}
                           /\ Told(t, result, {"remove", "clear"}) = {}
  BY DEF Told, SettledInv, PromiseInv
<1>3. finished' \subseteq tried' /\ removed' \subseteq tried'
  BY <1>1, <1>2 DEF SettledInv
<1>4. ops' = ops => Settled(ops)'
  BY <1>1, <1>2 DEF SettledInv, Settled
<1>5. file' = ops => Settled(file)'
  BY <1>1, <1>2 DEF SettledInv, Settled
<1>6. result = FALSE /\ file' = file /\ file \in Seq(Operations) => Settled(file)'
  BY <1>1, <1>2 DEF SettledInv, Settled
<1>7. file' \in Seq(Operations) => Settled(file)'
  BY <1>5, <1>6, OfflineAssumption
<1>8. \A u \in Threads : pc'[u] = "idle"
  <2>1. CASE call[t].name = "exit"
    BY <2>1 DEF Return, Down
  <2>2. CASE call[t].name # "exit"
    BY <2>2, NoThread DEF Return, TypeInv, TypeOK
  <2> QED BY <2>1, <2>2
<1>9. Settled(ops)'
  <2>1. ops' = ops \/ ops' = <<>>
    BY DEF Return, Down, memory
  <2> QED BY <1>4, <2>1, NothingSettled
<1> QED BY <1>3, <1>7, <1>8, <1>9 DEF SettledInv, PromiseInv

LEMMA SettledStep ==
  ASSUME "retry" \notin Env
  PROVE  TypeInv /\ SettledInv /\ [Next]_vars => SettledInv'
<1> SUFFICES ASSUME TypeInv, SettledInv, [Next]_vars PROVE SettledInv'
  OBVIOUS
<1>0. ops \in Seq(Operations) /\ file \in {Absent, Torn} \cup Seq(Operations)
      /\ Absent \notin Seq(Operations) /\ Torn \notin Seq(Operations) /\ Absent # Torn
  BY OfflineAssumption DEF TypeInv, TypeOK
<1>a. /\ Settled(ops) /\ finished \subseteq tried /\ removed \subseteq tried
      /\ IdsOf(ops) = PendingIn(ops) \cup CompletedIn(ops)
  BY <1>0, IdsSplit DEF SettledInv
<1>1. ASSUME NEW t \in Threads, Initialize(t) \/ LoadState(t)
      PROVE  SettledInv'
  <2>1. /\ mutex = None /\ Load
        /\ pc' = pc /\ call' = call /\ file' = file
        /\ tried' = tried /\ finished' = finished /\ removed' = removed
    BY <1>1 DEF Initialize, LoadState, Enter, control, history
  <2>2. ops' = ops \/ (ops' = file /\ file \in Seq(Operations))
    BY <1>0, <2>1 DEF Load
  <2>3. Settled(ops)' /\ (file' \in Seq(Operations) => Settled(file)')
    BY <2>1, <2>2 DEF SettledInv, Settled
  <2>4. \A u \in Threads : pc'[u] = "idle"
    BY <2>1, Unlocked
  <2> QED BY <2>1, <2>3, <2>4 DEF SettledInv, PromiseInv
<1>2. ASSUME NEW t \in Threads, NEW b \in BOOLEAN, SetOfflineMode(t, b)
      PROVE  SettledInv'
  BY <1>2 DEF SetOfflineMode, control, history, SettledInv, Settled, PromiseInv
<1>3. ASSUME NEW t \in Threads, NEW id \in Ids \ tried, QueueOperation(t, id)
      PROVE  SettledInv'
  <2>1. /\ mutex = None /\ BeginSave(t, "queue", {id}) /\ tried' = tried \cup {id}
        /\ finished' = finished /\ removed' = removed
        /\ ops' = Append(ops, [id |-> id, completed |-> FALSE])
    BY <1>3 DEF QueueOperation, Enter, BeginSave
  <2>2. Settled(ops)'
    <3>1. id \notin IdsOf(ops) /\ id \notin finished /\ id \notin removed
      BY <1>3, <1>a DEF Settled
    <3>2. /\ IdsOf(ops') = IdsOf(ops) \cup {id}
          /\ PendingIn(ops') = PendingIn(ops) \cup {id}
          /\ DistinctIds(ops) /\ id \notin IdsOf(ops) => DistinctIds(ops')
      BY <1>0, <2>1, QueueProperties
    <3> QED BY <1>a, <2>1, <3>1, <3>2 DEF Settled
  <2> QED BY <2>1, <2>2, BeginSaveSettled
<1>4. ASSUME NEW t \in Threads, NEW id \in Ids, MarkOperationCompleted(t, id)
      PROVE  SettledInv'
  <2>1. PICK i \in 1..Len(ops) : ops[i].id = id /\ ops' = [ops EXCEPT ![i].completed = TRUE]
    BY <1>4 DEF MarkOperationCompleted
  <2>2. /\ mutex = None /\ BeginSave(t, "mark", {id}) /\ tried' = tried
        /\ finished' = finished /\ removed' = removed
    BY <1>4 DEF MarkOperationCompleted, Enter, BeginSave
  <2>3. /\ IdsOf(ops') = IdsOf(ops) /\ PendingIn(ops') \subseteq PendingIn(ops)
        /\ DistinctIds(ops) => DistinctIds(ops') /\ ops[i].id \notin PendingIn(ops')
    BY <1>0, <2>1, CompleteProperties
  <2>4. Settled(ops)' /\ id \notin PendingIn(ops')
    BY <1>a, <2>1, <2>2, <2>3 DEF Settled
  <2>5. id \in tried
    BY <1>a, <2>1 DEF Settled, IdsOf
  <2> QED BY <2>2, <2>4, <2>5, BeginSaveSettled
<1>5. ASSUME NEW t \in Threads, NEW id \in Ids, RemoveOperation(t, id)
      PROVE  SettledInv'
  <2> DEFINE P == {i \in 1..Len(ops) : ops[i].id # id}
  <2>1. /\ mutex = None /\ BeginSave(t, "remove", {id}) /\ tried' = tried
        /\ finished' = finished /\ removed' = removed
        /\ id \in IdsOf(ops) /\ ops' = Subsequence(ops, P)
    BY <1>5 DEF RemoveOperation, Enter, BeginSave
  <2>2. IdsOf(ops') = IdsOf(ops) \ {id}
    BY <1>0, <2>1, WithoutId
  <2>3. /\ PendingIn(ops') = {ops[i].id : i \in {j \in P : ~ops[j].completed}}
        /\ DistinctIds(ops) => DistinctIds(ops')
    <3>1. P \in SUBSET (1..Len(ops))
      OBVIOUS
    <3> HIDE DEF P
    <3> QED BY <1>0, <2>1, <3>1, EraseProperties
  <2>4. PendingIn(ops') \subseteq PendingIn(ops)
    BY <2>3 DEF PendingIn
  <2> HIDE DEF P
  <2>5. Settled(ops)' /\ id \in tried
    BY <1>a, <2>1, <2>2, <2>3, <2>4 DEF Settled
  <2> QED BY <2>1, <2>2, <2>5, BeginSaveSettled
<1>6. ASSUME NEW t \in Threads, ClearCompletedOperations(t)
      PROVE  SettledInv'
  <2> DEFINE gone == CompletedIn(ops) \ PendingIn(ops)
             P == {i \in 1..Len(ops) : ~ops[i].completed}
  <2>1. /\ mutex = None /\ BeginSave(t, "clear", gone) /\ tried' = tried
        /\ finished' = finished /\ removed' = removed
        /\ ops' = Subsequence(ops, P)
    BY <1>6 DEF ClearCompletedOperations, Enter, BeginSave
  <2>2. /\ IdsOf(ops') = {ops[i].id : i \in P}
        /\ PendingIn(ops') = {ops[i].id : i \in {j \in P : ~ops[j].completed}}
        /\ DistinctIds(ops) => DistinctIds(ops')
    <3>1. P \in SUBSET (1..Len(ops))
      OBVIOUS
    <3> HIDE DEF P
    <3> QED BY <1>0, <2>1, <3>1, EraseProperties
  <2>3. IdsOf(ops') = PendingIn(ops) /\ PendingIn(ops') = PendingIn(ops)
    BY <2>2 DEF PendingIn
  <2>4. Settled(ops)'
    BY <1>a, <2>1, <2>2, <2>3 DEF Settled
  <2>5. gone \subseteq tried /\ gone \cap IdsOf(ops') = {}
    BY <1>a, <2>3 DEF Settled
  <2> HIDE DEF gone, P
  <2> QED BY <2>1, <2>4, <2>5, BeginSaveSettled
<1>7. ASSUME NEW t \in Threads, ProcessPendingOperations(t)
      PROVE  SettledInv'
  <2>1. /\ mutex = None
        /\ pc' = [pc EXCEPT ![t] = "self_wait"]
        /\ call' = [call EXCEPT ![t] = [name |-> "process", ids |-> {}]]
        /\ UNCHANGED <<memory, file, crashes, history>>
    BY <1>7 DEF ProcessPendingOperations, Enter
  <2>2. \A u \in Threads : pc[u] = "idle"
    BY <2>1, Unlocked
  <2>3. \A u \in Threads : pc'[u] # "write" /\ (pc'[u] # "idle" => u = t)
    BY <2>1, <2>2 DEF TypeInv, TypeOK
  <2>4. call'[t] = [name |-> "process", ids |-> {}]
    BY <2>1 DEF TypeInv
  <2>5. PromiseInv'
    BY <2>3, <2>4 DEF PromiseInv
  <2> QED BY <2>1, <2>3, <2>5 DEF memory, history, SettledInv, Settled
<1>8. ASSUME NEW t \in Threads, SaveState(t) \/ Exit(t)
      PROVE  SettledInv'
  <2>1. /\ mutex = None /\ ops' = ops /\ tried' = tried
        /\ finished' = finished /\ removed' = removed
        /\ (BeginSave(t, "save_state", {}) \/ BeginSave(t, "exit", {}))
    BY <1>8 DEF SaveState, Exit, Enter, BeginSave
  <2>2. Settled(ops)'
    BY <1>a, <2>1 DEF Settled
  <2> QED BY <2>1, <2>2, BeginSaveSettled
<1>9. ASSUME NEW t \in Threads, OpenFile(t)
      PROVE  SettledInv'
  <2>1. CASE /\ file' = Torn
             /\ pc' = [pc EXCEPT ![t] = "write"]
             /\ UNCHANGED <<memory, mutex, call, crashes, history>>
    <3>1. \A u \in Threads : pc'[u] # "idle" => pc[u] # "idle"
      BY <1>9, <2>1 DEF OpenFile, TypeInv, TypeOK
    <3>2. PromiseInv'
      BY <2>1, <3>1 DEF memory, history, SettledInv, PromiseInv
    <3> QED BY <1>0, <2>1, <3>2 DEF memory, history, SettledInv, Settled
  <2>2. CASE Return(t, FALSE) /\ file' = file
    BY <1>9, <2>2, ReturnSettled DEF OpenFile
  <2> QED BY <1>9, <2>1, <2>2 DEF OpenFile
<1>10. ASSUME NEW t \in Threads, WriteFile(t)
       PROVE  SettledInv'
  <2>1. pc[t] = "write" /\ file = Torn
    BY <1>10 DEF WriteFile, SettledInv
  <2>2. /\ Return(t, TRUE) \/ Return(t, FALSE)
        /\ file' = ops \/ file' = file
    BY <1>10 DEF WriteFile
  <2> QED BY <2>1, <2>2, ReturnSettled
<1>11. CASE Crash
  <2>1. Down /\ file' = file /\ UNCHANGED history
    BY <1>11 DEF Crash
  <2>2. Settled(ops)'
    BY <2>1, NothingSettled DEF Down
  <2>3. \A u \in Threads : pc'[u] = "idle"
    BY <2>1 DEF Down
  <2> QED BY <2>1, <2>2, <2>3 DEF history, SettledInv, Settled, PromiseInv
<1>12. CASE Restart
  BY <1>12 DEF Restart, control, history, SettledInv, Settled, PromiseInv
<1>13. CASE UNCHANGED vars
  BY <1>13 DEF vars, memory, control, history, SettledInv, Settled, PromiseInv
<1>14. \A t \in Threads : QueueCard(t) => \E id \in Ids \ tried : QueueOperation(t, id)
  BY DEF QueueCard, GenerateUniqueId, Again
<1> QED BY <1>1, <1>2, <1>3, <1>4, <1>5, <1>6, <1>7, <1>8, <1>9, <1>10, <1>11, <1>12,
           <1>13, <1>14 DEF Next, Call

\* What was acknowledged as completed is never pending again and what was
\* acknowledged as removed never comes back, for clients that queue every
\* operation under a new id: across any number of crashes, also inside a save,
\* with full disks, unreadable files, invalid strings and early saves.
THEOREM SettledStaysSettled ==
  ASSUME "retry" \notin Env
  PROVE  Spec => []NoResurrection
<1>1. Init => SettledInv
  BY NoOperations, OfflineAssumption DEF Init, SettledInv, Settled, PromiseInv
<1>2. SettledInv => NoResurrection
  BY DEF SettledInv, Settled, NoResurrection
<1> QED BY <1>1, <1>2, TypeInvariant, SettledStep, PTL DEF Spec
=============================================================================
