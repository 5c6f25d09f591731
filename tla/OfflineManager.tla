--------------------------- MODULE OfflineManager ---------------------------
(***************************************************************************)
(* Offline_manager: a queue of operations kept in memory and rewritten to   *)
(* operations.json after every change, under _manager_mutex.  A save first  *)
(* truncates the file and then writes it; the process may die anywhere.     *)
(*                                                                         *)
(* An operation is its id and its completed flag.  Calls that change       *)
(* nothing (not found, not initialized) are not actions.                    *)
(***************************************************************************)
EXTENDS Integers, Sequences, FiniteSets, Subsequences

CONSTANTS
    Threads,     \* the threads that call the manager
    Ids,         \* operation ids
    BadIds,      \* ids of operations whose strings are not valid UTF-8
    MaxCrashes,  \* bound: crashes of the process
    Env,         \* which optional behaviours of clients and environment occur
    Absent,      \* operations.json does not exist
    Torn,        \* operations.json is empty or incomplete: it does not parse
    None         \* no thread

Operations == [id : Ids, completed : BOOLEAN]

ASSUME OfflineAssumption ==
    /\ BadIds \subseteq Ids
    /\ MaxCrashes \in Nat
    /\ Env \subseteq {"open_fail", "disk_full", "unreadable", "crash_in_save",
                      "retry", "process", "early_save"}
    /\ None \notin Threads
    /\ Absent # Torn
    /\ Absent \notin Seq(Operations) /\ Torn \notin Seq(Operations)

VARIABLES
    up,            \* the process runs
    initialized,   \* _initialized
    offline_mode,  \* _offline_mode
    ops,           \* _operations
    file,          \* operations.json: Absent, Torn or the operations in it
    mutex,         \* owner of _manager_mutex
    pc,            \* what each thread is doing
    call,          \* the call in progress of each thread
    crashes,       \* crashes so far
    tried,         \* history: ids handed to queue_operation
    acked,         \* history: ids whose queue_operation returned true and that
                   \* nobody has removed since
    finished,      \* history: ids whose mark_operation_completed returned true
    removed        \* history: ids whose removal was acknowledged

memory == <<up, initialized, offline_mode, ops>>
control == <<mutex, pc, call>>
history == <<tried, acked, finished, removed>>
vars == <<memory, file, control, crashes, history>>

IdsOf(q) == {q[i].id : i \in 1..Len(q)}
CompletedIn(q) == {q[i].id : i \in {j \in 1..Len(q) : q[j].completed}}
PendingIn(q) == {q[i].id : i \in {j \in 1..Len(q) : ~q[j].completed}}

NoCall == [name |-> "none", ids |-> {}]

Init ==
    /\ up = TRUE
    /\ initialized = FALSE
    /\ offline_mode = FALSE
    /\ ops = <<>>
    /\ file = Absent
    /\ mutex = None
    /\ pc = [t \in Threads |-> "idle"]
    /\ call = [t \in Threads |-> NoCall]
    /\ crashes = 0
    /\ tried = {}
    /\ acked = {}
    /\ finished = {}
    /\ removed = {}

\* A thread starts a call and gets the mutex.
Enter(t) ==
    /\ up
    /\ pc[t] = "idle"
    /\ mutex = None

\* Mutant: the save runs after the mutex is released.
BeginSaveUnlocked(t, name, ids) ==
    /\ mutex' = None
    /\ pc' = [pc EXCEPT ![t] = "open"]
    /\ call' = [call EXCEPT ![t] = [name |-> name, ids |-> ids]]
    /\ UNCHANGED <<up, initialized, offline_mode, file, crashes, finished, removed>>

\* The call goes on with save_operations, under the mutex.
BeginSave(t, name, ids) ==
    /\ mutex' = t
    /\ pc' = [pc EXCEPT ![t] = "open"]
    /\ call' = [call EXCEPT ![t] = [name |-> name, ids |-> ids]]
    /\ UNCHANGED <<up, initialized, offline_mode, file, crashes, finished, removed>>

\* What load_operations leaves in _operations.  A file that cannot be opened
\* counts as absent, and one that does not parse changes nothing.
Load ==
    \/ ops' = IF file \in {Absent, Torn} THEN ops ELSE file
    \/ "unreadable" \in Env /\ ops' = ops

\* initialize: the result of load_operations is not looked at.
Initialize(t) ==
    /\ Enter(t)
    /\ Load
    /\ initialized' = TRUE
    /\ UNCHANGED <<up, offline_mode, file, control, crashes, history>>

SetOfflineMode(t, b) ==
    /\ Enter(t)
    /\ offline_mode' = b
    /\ UNCHANGED <<up, initialized, ops, file, control, crashes, history>>

QueueOperation(t, id) ==
    /\ Enter(t)
    /\ initialized
    /\ ops' = Append(ops, [id |-> id, completed |-> FALSE])
    /\ tried' = tried \cup {id}
    /\ BeginSave(t, "queue", {id})
    /\ UNCHANGED acked

\* generate_unique_id: an id that has not been used.
GenerateUniqueId == Ids \ tried

\* What a client that does not give up may queue again.
Again ==
    IF "retry" \in Env THEN Ids \ (acked \cup removed \cup CompletedIn(ops)) ELSE {}

\* queue_card_creation, _update, _deletion and _retrieval, which differ in what
\* the operation says.
QueueCard(t) == \E id \in GenerateUniqueId \cup Again : QueueOperation(t, id)

\* The first pending operation with that id.
MarkOperationCompleted(t, id) ==
    /\ Enter(t)
    /\ \E i \in 1..Len(ops) :
        /\ ops[i].id = id /\ ~ops[i].completed
        /\ \A j \in 1..(i - 1) : ops[j].id = id => ops[j].completed
        /\ ops' = [ops EXCEPT ![i].completed = TRUE]
    /\ BeginSave(t, "mark", {id})
    /\ UNCHANGED <<tried, acked>>

RemoveOperation(t, id) ==
    /\ Enter(t)
    /\ id \in IdsOf(ops)
    /\ ops' = Subsequence(ops, {i \in 1..Len(ops) : ops[i].id # id})
    /\ acked' = acked \ {id}
    /\ BeginSave(t, "remove", {id})
    /\ UNCHANGED tried

ClearCompletedOperations(t) ==
    /\ Enter(t)
    /\ CompletedIn(ops) # {}
    /\ ops' = Subsequence(ops, {i \in 1..Len(ops) : ~ops[i].completed})
    /\ acked' = acked \ (CompletedIn(ops) \ PendingIn(ops))
    /\ BeginSave(t, "clear", CompletedIn(ops) \ PendingIn(ops))
    /\ UNCHANGED tried

\* process_pending_operations locks _manager_mutex and then calls
\* get_pending_operations, which locks the same non-recursive mutex: the
\* thread waits for itself, and nothing after that call is ever reached.
ProcessPendingOperations(t) ==
    /\ "process" \in Env
    /\ Enter(t)
    /\ initialized /\ ~offline_mode
    /\ mutex' = t
    /\ pc' = [pc EXCEPT ![t] = "self_wait"]
    /\ call' = [call EXCEPT ![t] = [name |-> "process", ids |-> {}]]
    /\ UNCHANGED <<memory, file, crashes, history>>

\* save_state and load_state take no mutex.  Called while another call runs
\* they race with it; here they are called alone.
Alone == \A t \in Threads : pc[t] = "idle"

SaveState(t) ==
    /\ Enter(t) /\ Alone
    /\ initialized \/ "early_save" \in Env
    /\ ops' = ops
    /\ BeginSave(t, "save_state", {})
    /\ UNCHANGED <<tried, acked>>

LoadState(t) ==
    /\ Enter(t) /\ Alone
    /\ Load
    /\ UNCHANGED <<up, initialized, offline_mode, file, control, crashes, history>>

\* The destructor of an initialized manager saves; the process then ends.
Exit(t) ==
    /\ Enter(t) /\ Alone
    /\ initialized
    /\ ops' = ops
    /\ BeginSave(t, "exit", {})
    /\ UNCHANGED <<tried, acked>>

\* The process and what it had in memory are gone.
Down ==
    /\ up' = FALSE
    /\ initialized' = FALSE
    /\ offline_mode' = FALSE
    /\ ops' = <<>>
    /\ mutex' = None
    /\ pc' = [u \in Threads |-> "idle"]
    /\ call' = [u \in Threads |-> NoCall]

\* Mutant: the result of save_operations is not passed on.
ToldAnyway(t, result, names) == IF call[t].name \in names THEN call[t].ids ELSE {}

\* The ids a call with one of these names acknowledges when it returns result.
Told(t, result, names) == IF result /\ call[t].name \in names THEN call[t].ids ELSE {}

\* save_operations returned; the mutex is released and the caller gets the
\* result.
Return(t, result) ==
    /\ acked' = acked \cup Told(t, result, {"queue"})
    /\ finished' = finished \cup Told(t, result, {"mark"})
    /\ removed' = removed \cup Told(t, result, {"remove", "clear"})
    /\ IF call[t].name = "exit"
       THEN Down
       ELSE /\ mutex' = None
            /\ pc' = [pc EXCEPT ![t] = "idle"]
            /\ call' = [call EXCEPT ![t] = NoCall]
            /\ UNCHANGED memory
    /\ UNCHANGED <<crashes, tried>>

\* std::ofstream truncates the file, or cannot open it and leaves it alone.
OpenFile(t) ==
    /\ pc[t] = "open"
    /\ \/ /\ file' = Torn
          /\ pc' = [pc EXCEPT ![t] = "write"]
          /\ UNCHANGED <<memory, mutex, call, crashes, history>>
       \/ /\ "open_fail" \in Env
          /\ Return(t, FALSE)
          /\ UNCHANGED file

\* file << j.dump(2): dump throws on invalid UTF-8, after the truncation; a
\* write error is not looked at.
WriteFile(t) ==
    /\ pc[t] = "write"
    /\ \/ /\ IdsOf(ops) \cap BadIds = {}
          /\ file' = ops
          /\ Return(t, TRUE)
       \/ /\ IdsOf(ops) \cap BadIds # {}
          /\ Return(t, FALSE)
          /\ UNCHANGED file
       \/ /\ "disk_full" \in Env
          /\ IdsOf(ops) \cap BadIds = {}
          /\ Return(t, TRUE)
          /\ UNCHANGED file

\* The process is killed, by default not between truncation and write.
Crash ==
    /\ up
    /\ crashes < MaxCrashes
    /\ "crash_in_save" \in Env \/ \A t \in Threads : pc[t] # "write"
    /\ Down
    /\ crashes' = crashes + 1
    /\ UNCHANGED <<file, history>>

Restart ==
    /\ ~up
    /\ up' = TRUE
    /\ UNCHANGED <<initialized, offline_mode, ops, file, control, crashes, history>>

Call(t) ==
    \/ Initialize(t)
    \/ \E b \in BOOLEAN : SetOfflineMode(t, b)
    \/ QueueCard(t)
    \/ \E id \in Ids : MarkOperationCompleted(t, id) \/ RemoveOperation(t, id)
    \/ ClearCompletedOperations(t)
    \/ ProcessPendingOperations(t)
    \/ SaveState(t) \/ LoadState(t) \/ Exit(t)

Next ==
    \/ \E t \in Threads : Call(t) \/ OpenFile(t) \/ WriteFile(t)
    \/ Crash
    \/ Restart

Spec == Init /\ [][Next]_vars

\* A call that has started runs on.
FairSpec ==
    Spec /\ \A t \in Threads : WF_vars(OpenFile(t) \/ WriteFile(t))

---------------------------------------------------------------------------
(* Properties. *)

\* The types; and the thread inside a call that saves is the owner of
\* _manager_mutex.
TypeOK ==
    /\ up \in BOOLEAN /\ initialized \in BOOLEAN /\ offline_mode \in BOOLEAN
    /\ ops \in Seq(Operations)
    /\ file \in {Absent, Torn} \/ file \in Seq(Operations)
    /\ mutex \in Threads \cup {None}
    /\ pc \in [Threads -> {"idle", "open", "write", "self_wait"}]
    /\ \A t \in Threads : pc[t] # "idle" <=> mutex = t
    /\ crashes \in 0..MaxCrashes
    /\ tried \subseteq Ids /\ acked \subseteq Ids
    /\ finished \subseteq Ids /\ removed \subseteq Ids

\* An operation whose queueing was acknowledged is in the queue of every
\* manager that has been initialized, across crashes and restarts.
Durable == initialized => acked \subseteq IdsOf(ops)

\* What was acknowledged as completed is never pending again, and what was
\* acknowledged as removed never comes back, across crashes and restarts.
NoResurrection ==
    initialized => /\ finished \cap PendingIn(ops) = {}
                   /\ removed \cap IdsOf(ops) = {}

\* A call that has started returns, or the process dies.
CallsReturn == \A t \in Threads : pc[t] # "idle" ~> pc[t] = "idle"
=============================================================================
