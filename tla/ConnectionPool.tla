--------------------------- MODULE ConnectionPool ---------------------------
(***************************************************************************)
(* Connection_pool and Pooled_connection: a bounded pool of TLS streams    *)
(* guarded by _pool_mutex, with the condition variable _pool_cv on which   *)
(* get_connection waits when the pool is full.                             *)
(*                                                                         *)
(* A critical section that does not block is one action.  The two places   *)
(* where get_connection does block are visible: the wait on _pool_cv, which *)
(* releases the mutex, and resolve/connect/handshake, which keeps it.      *)
(***************************************************************************)
EXTENDS Integers, Sequences, FiniteSets, Functions, Subsequences

CONSTANTS
    Threads,         \* the threads that call get_connection
    Conns,           \* identities of TLS streams; one that nobody refers to is recycled
    Hosts,           \* the host/port pairs callers ask for
    HostOf,          \* the host/port pair a stream is connected to
    MaxConnections,  \* _max_connections
    MaxCalls,        \* bound: calls of get_connection per thread
    Env,             \* which optional behaviours of clients and environment occur
    None             \* no thread, no stream, no host

ConnectionPoolAssumption ==
    /\ MaxConnections \in Nat \ {0}
    /\ MaxCalls \in Nat
    /\ HostOf \in [Conns -> Hosts]
    /\ None \notin Threads \cup Conns \cup Hosts
    /\ Env \subseteq {"expire", "connect_fail", "spurious",
                      "explicit_return", "invalidate", "close"}
    /\ IsFiniteSet(Conns)

ASSUME PoolAssumption == ConnectionPoolAssumption

VARIABLES
    all,     \* streams with an entry in _all_connections
    idle,    \* _idle_connections
    in_use,  \* entries whose in_use flag is set
    stale,   \* entries with now - last_used >= _connection_timeout
    lock,    \* owner of _pool_mutex while it is held across a blocking call
    pc,      \* where each thread is in get_connection, or with its handle
    want,    \* the host/port argument of the current call
    held,    \* the stream of the thread's Pooled_connection
    valid,   \* threads whose Pooled_connection has _valid = true
    calls    \* number of calls of get_connection made

vars == <<all, idle, in_use, stale, lock, pc, want, held, valid, calls>>


---------------------------------------------------------------------------
(* Queue and clean-up helpers. *)

\* The positions of q that hold no element of dead.
LivePositions(q, dead) == {i \in 1..Len(q) : q[i] \notin dead}

\* q without the elements of dead, in order.
Live(q, dead) == Subsequence(q, LivePositions(q, dead))

\* Mutants: the queue is not cleaned; _all_connections keeps what the queue loses.
CleanNothing == idle
CleanAllButIdle == {c \in all : c \in stale => c \in in_use \cup Range(idle)}

\* cleanup_expired_connections: expired entries leave the idle queue and
\* _all_connections; so do expired entries that are neither idle nor in use.
CleanIdle == Live(idle, stale)
CleanAll == {c \in all : c \in stale => c \in in_use /\ c \notin Range(idle)}

\* Mutant: the front is taken without comparing host and port.
AnyFirst(q, h, i) == i = 1

\* find_idle_connection pops until the front matches h: i is the first match.
FirstMatch(q, h, i) ==
    /\ i \in 1..Len(q)
    /\ HostOf[q[i]] = h
    /\ \A j \in 1..(i - 1) : HostOf[q[j]] # h

NoMatch(q, h) == \A i \in 1..Len(q) : HostOf[q[i]] # h

\* A stream that exists nowhere in the process.
Fresh == Conns \ (all \cup {held[t] : t \in Threads})

---------------------------------------------------------------------------

Init ==
    /\ all = {}
    /\ idle = <<>>
    /\ in_use = {}
    /\ stale = {}
    /\ lock = None
    /\ pc = [t \in Threads |-> "out"]
    /\ want = [t \in Threads |-> None]
    /\ held = [t \in Threads |-> None]
    /\ valid = {}
    /\ calls = [t \in Threads |-> 0]

\* Mutant: the entry found stays in the idle queue.
TakeWithoutPop(t, h) ==
    \E i \in 1..Len(CleanIdle) :
        /\ FirstMatch(CleanIdle, h, i)
        /\ idle' = SubSeq(CleanIdle, i, Len(CleanIdle))
        /\ all' = CleanAll
        /\ in_use' = (in_use \cap CleanAll) \cup {CleanIdle[i]}
        /\ stale' = (stale \cap CleanAll) \ {CleanIdle[i]}
        /\ held' = [held EXCEPT ![t] = CleanIdle[i]]
        /\ valid' = valid \cup {t}
        /\ pc' = [pc EXCEPT ![t] = "holding"]
        /\ UNCHANGED lock

\* A matching idle entry was found: mark it in use, refresh last_used and hand
\* it out in a new Pooled_connection.  Entries popped before it are discarded
\* from the queue but stay in _all_connections.
Take(t, h) ==
    \E i \in 1..Len(CleanIdle) :
        /\ FirstMatch(CleanIdle, h, i)
        /\ idle' = SubSeq(CleanIdle, i + 1, Len(CleanIdle))
        /\ all' = CleanAll
        /\ in_use' = (in_use \cap CleanAll) \cup {CleanIdle[i]}
        /\ stale' = (stale \cap CleanAll) \ {CleanIdle[i]}
        /\ held' = [held EXCEPT ![t] = CleanIdle[i]]
        /\ valid' = valid \cup {t}
        /\ pc' = [pc EXCEPT ![t] = "holding"]
        /\ UNCHANGED lock

\* No idle entry matches: every entry was popped; go on at label next.
Miss(t, h, next) ==
    /\ NoMatch(CleanIdle, h)
    /\ idle' = <<>>
    /\ all' = CleanAll
    /\ in_use' = in_use \cap CleanAll
    /\ stale' = stale \cap CleanAll
    /\ pc' = [pc EXCEPT ![t] = next]
    /\ lock' = IF next = "connecting" THEN t ELSE lock
    /\ UNCHANGED <<held, valid>>

\* get_connection up to the point where it returns, waits or connects.
GetConnection(t, h) ==
    /\ pc[t] = "out"
    /\ calls[t] < MaxCalls
    /\ lock = None
    /\ calls' = [calls EXCEPT ![t] = @ + 1]
    /\ want' = [want EXCEPT ![t] = h]
    /\ \/ Take(t, h)
       \/ Cardinality(CleanAll) < MaxConnections /\ Miss(t, h, "connecting")
       \/ Cardinality(CleanAll) >= MaxConnections /\ Miss(t, h, "waiting")

\* Mutant: _pool_cv.wait without a predicate.
MayProceedAlways == TRUE

\* The predicate of _pool_cv.wait.
MayProceed == CleanIdle # <<>> \/ Cardinality(CleanAll) < MaxConnections

\* A woken thread re-evaluates the predicate.  When it holds the thread looks
\* once more for an idle entry and otherwise creates one, whatever the size.
Wake(t) ==
    /\ pc[t] = "notified"
    /\ lock = None
    /\ \/ ~MayProceed /\ Miss(t, want[t], "waiting")
       \/ MayProceed /\ Take(t, want[t])
       \/ MayProceed /\ Miss(t, want[t], "connecting")
    /\ UNCHANGED <<want, calls>>

SpuriousWakeup(t) ==
    /\ "spurious" \in Env
    /\ pc[t] = "waiting"
    /\ pc' = [pc EXCEPT ![t] = "notified"]
    /\ UNCHANGED <<all, idle, in_use, stale, lock, want, held, valid, calls>>

\* create_new_connection succeeds and the new entry is registered.
ConnectOk(t) ==
    /\ pc[t] = "connecting"
    /\ \E c \in Fresh :
        /\ HostOf[c] = want[t]
        /\ all' = all \cup {c}
        /\ in_use' = in_use \cup {c}
        /\ held' = [held EXCEPT ![t] = c]
    /\ valid' = valid \cup {t}
    /\ lock' = None
    /\ pc' = [pc EXCEPT ![t] = "holding"]
    /\ UNCHANGED <<idle, stale, want, calls>>

\* create_new_connection fails: get_connection returns { -1, nullptr }.
ConnectFail(t) ==
    /\ "connect_fail" \in Env
    /\ pc[t] = "connecting"
    /\ lock' = None
    /\ pc' = [pc EXCEPT ![t] = "out"]
    /\ UNCHANGED <<all, idle, in_use, stale, want, held, valid, calls>>

\* Mutant: the return is not announced.
NotifyNobody(p) == {p}

\* _pool_cv.notify_one: one waiter, if there is any, becomes runnable.
NotifyOne(p) ==
    LET W == {w \in Threads : p[w] = "waiting"}
    IN  IF W = {} THEN {p} ELSE {[p EXCEPT ![w] = "notified"] : w \in W}

\* return_connection for the handle of t, which then is at label next.
Return(t, next) ==
    LET c == held[t]
        p == [pc EXCEPT ![t] = next]
    IN  IF t \in valid /\ c \in all
        THEN /\ in_use' = in_use \ {c}
             /\ stale' = stale \ {c}
             /\ idle' = Append(idle, c)
             /\ pc' \in NotifyOne(p)
        ELSE /\ pc' = p
             /\ UNCHANGED <<in_use, stale, idle>>

\* An explicit call of return_connection; the handle stays valid.
ReturnConnection(t) ==
    /\ "explicit_return" \in Env
    /\ pc[t] = "holding"
    /\ lock = None
    /\ Return(t, "returned")
    /\ UNCHANGED <<all, lock, want, held, valid, calls>>

\* The handle goes out of scope: ~Pooled_connection.
DropHandle(t) ==
    /\ pc[t] \in {"holding", "returned"}
    /\ lock = None
    /\ Return(t, "out")
    /\ held' = [held EXCEPT ![t] = None]
    /\ valid' = valid \ {t}
    /\ UNCHANGED <<all, lock, want, calls>>

\* Pooled_connection::invalidate.
Invalidate(t) ==
    /\ "invalidate" \in Env
    /\ pc[t] = "holding"
    /\ valid' = valid \ {t}
    /\ UNCHANGED <<all, idle, in_use, stale, lock, pc, want, held, calls>>

\* close_all_connections empties both containers and notifies nobody.
CloseAllConnections ==
    /\ "close" \in Env
    /\ lock = None
    /\ all' = {}
    /\ idle' = <<>>
    /\ in_use' = {}
    /\ stale' = {}
    /\ UNCHANGED <<lock, pc, want, held, valid, calls>>

\* Time passes: now - last_used of entry c reaches the timeout.
Expire(c) ==
    /\ "expire" \in Env
    /\ c \in all \ stale
    /\ stale' = stale \cup {c}
    /\ UNCHANGED <<all, idle, in_use, lock, pc, want, held, valid, calls>>

\* Every thread has made its calls.
Finished ==
    /\ \A t \in Threads : pc[t] = "out" /\ calls[t] = MaxCalls
    /\ UNCHANGED vars

Step(t) ==
    \/ \E h \in Hosts : GetConnection(t, h)
    \/ Wake(t)
    \/ SpuriousWakeup(t)
    \/ ConnectOk(t)
    \/ ConnectFail(t)
    \/ ReturnConnection(t)
    \/ DropHandle(t)
    \/ Invalidate(t)

Next ==
    \/ \E t \in Threads : Step(t)
    \/ CloseAllConnections
    \/ \E c \in Conns : Expire(c)
    \/ Finished

Spec == Init /\ [][Next]_vars

\* A runnable thread gets the mutex, a connection attempt ends (the kernel's
\* timeout), and a caller's handle goes out of scope.  Nothing obliges a
\* thread to call, and nothing obliges a sleeping thread to wake by itself.
Fairness ==
    \A t \in Threads :
        /\ WF_vars(Wake(t))
        /\ WF_vars(ConnectOk(t) \/ ConnectFail(t))
        /\ WF_vars(DropHandle(t))

FairSpec == Spec /\ Fairness
---------------------------------------------------------------------------
(* Properties. *)

Labels == {"out", "waiting", "notified", "connecting", "holding", "returned"}

TypeOK ==
    /\ all \subseteq Conns
    /\ idle \in Seq(Conns)
    /\ in_use \subseteq all
    /\ stale \subseteq all
    /\ lock \in Threads \cup {None}
    /\ pc \in [Threads -> Labels]
    /\ want \in [Threads -> Hosts \cup {None}]
    /\ held \in [Threads -> Conns \cup {None}]
    /\ valid \subseteq Threads
    /\ calls \in [Threads -> 0..MaxCalls]

\* No two threads ever use the same TLS stream: get_connection hands out only
\* streams that nobody else holds.
Exclusive ==
    \A t, u \in Threads :
        t # u /\ pc[t] = "holding" /\ pc[u] = "holding" => held[t] # held[u]

\* The pool never keeps more than _max_connections entries, although a woken
\* thread creates an entry without looking at the size again.
PoolBound == Cardinality(all) <= MaxConnections

\* get_stats adds up: an entry is either used through exactly one live handle
\* or queued exactly once, so no capacity is lost to an entry nobody can reach.
Accounted ==
    /\ IsInjective(idle)
    /\ Range(idle) = all \ in_use
    /\ \A c \in in_use : \E t \in Threads : held[t] = c

\* The stream a caller gets is connected to the host it asked for, whatever
\* hosts the other callers use.
RightHost == \A t \in Threads : held[t] # None => HostOf[held[t]] = want[t]

\* An idle connection past its timeout is never handed out again.
NeverExpired ==
    [][\A t \in Threads :
          held'[t] # held[t] /\ held'[t] \in all => held'[t] \notin stale]_vars

\* No lost wake-up: while a thread sleeps on _pool_cv there are at least as
\* many woken threads as idle connections for them to take.
NoLostWakeup ==
    (\E t \in Threads : pc[t] = "waiting") =>
        Len(idle) <= Cardinality({t \in Threads : pc[t] = "notified"})

\* Every call of get_connection returns, with or without a connection.
GetReturns ==
    \A t \in Threads :
        pc[t] \in {"waiting", "notified", "connecting"} ~>
            pc[t] \in {"holding", "out"}
=============================================================================
