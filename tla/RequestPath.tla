----------------------------- MODULE RequestPath -----------------------------
(***************************************************************************)
(* A request from end to end: Http_client::get (post, patch) passes the     *)
(* rate limiter, then gets a connection from the pool, which may take any   *)
(* time, and only then is on the wire.  All threads share one limiter and   *)
(* one pool.  The process either fetches batches on several threads, or     *)
(* reads a list page by page on one; a page reader calls wait_if_needed     *)
(* once more after each page.                                              *)
(***************************************************************************)
EXTENDS HttpClient

CONSTANTS
    Limits,        \* the settings the process may run with
    Minute, Hour,  \* as in RateLimiter
    MaxSlack

VARIABLES
    \* the state of the limiter; limiter_pc is its pc
    clock, limits, enabled, minute_requests, hourly_requests, last_request,
    last_minute_reset, last_hour_reset, mutex, limiter_pc, now, until, requests,
    slack, log,
    reader,  \* the process reads a list page by page
    stage,   \* where each thread is between two requests and in one
    wire     \* history: when each request got its connection and was written

Limiter == INSTANCE RateLimiter
    WITH pc <- limiter_pc, MaxRequests <- 2 * MaxCalls

ASSUME RequestPathAssumption ==
    /\ Limits \subseteq [minute : Nat, hour : Nat, interval : Nat]
    /\ Minute \in Nat /\ Hour \in Nat /\ Minute <= Hour /\ MaxSlack \in Nat

limiterVars ==
    <<clock, limits, enabled, minute_requests, hourly_requests, last_request,
      last_minute_reset, last_hour_reset, mutex, limiter_pc, now, until, requests,
      slack, log>>
pathVars == <<allVars, limiterVars, reader, stage, wire>>

PathInit ==
    /\ HttpInit
    /\ Limiter!Init
    /\ reader \in BOOLEAN
    /\ stage = [t \in Threads |-> "idle"]
    /\ wire = <<>>

\* Nobody is between two sleeps of wait_if_needed, or about to give its connection
\* back.  Those steps take no time, and what other threads do meanwhile makes no
\* difference to them: here they come first (in RateLimiter and in HttpClient
\* anything may happen between them).
Settled ==
    \A t \in Threads :
        /\ limiter_pc[t] \in {"out", "lock"} \cup Limiter!Sleeping
        /\ pc[t] = "holding" => Exchanging(t)

\* Only one thread of a page reader makes requests.
MayRequest(t) ==
    /\ stage[t] = "idle"
    /\ calls[t] < MaxCalls
    /\ reader => \A u \in Threads \ {t} : stage[u] = "idle" /\ calls[u] = 0

\* Mutant: the request does not ask the limiter.
SkipRateLimiting(t) ==
    /\ Settled
    /\ MayRequest(t)
    /\ stage' = [stage EXCEPT ![t] = "permit"]
    /\ UNCHANGED <<allVars, limiterVars, reader, wire>>

\* The request begins with apply_rate_limiting.
ApplyRateLimiting(t) ==
    /\ Settled
    /\ MayRequest(t)
    /\ Limiter!Enter(t)
    /\ stage' = [stage EXCEPT ![t] = "permit"]
    /\ UNCHANGED <<allVars, reader, wire>>

\* A step inside wait_if_needed.
WaitIfNeeded(t) ==
    /\ limiter_pc[t] # "out"
    /\ Limiter!Step(t)
    /\ UNCHANGED <<allVars, reader, stage, wire>>

\* A request is written as soon as its thread has a connection.
Written(t) ==
    wire' = IF pc[t] # "holding" /\ pc'[t] = "holding" THEN Append(wire, clock) ELSE wire

\* wait_if_needed has returned: on to the pool.
Permitted(t) ==
    /\ Settled
    /\ stage[t] = "permit"
    /\ limiter_pc[t] = "out"
    /\ StartRequest(t)
    /\ stage' = [stage EXCEPT ![t] = "request"]
    /\ Written(t)
    /\ UNCHANGED <<limiterVars, reader>>

\* A page reader pauses after a page and stops after a failure.
AfterRequest(t) ==
    IF ~reader THEN "idle" ELSE IF result'[t] = "response" THEN "pause" ELSE "done"

\* A step of the request between get_connection and its return.
InRequest(t) ==
    /\ stage[t] = "request"
    /\ \/ /\ Settled
          /\ \/ WaitEnds(t) \/ Connected(t) \/ NotConnected(t)
             \/ ExchangeOk(t) \/ ExchangeFails(t)
       \/ EndRequest(t)
    /\ stage' = IF pc'[t] = "out" THEN [stage EXCEPT ![t] = AfterRequest(t)] ELSE stage
    /\ Written(t)
    /\ UNCHANGED <<limiterVars, reader>>

\* Mutant: a page reader goes on at once.
NoPauseAfterPage(t) ==
    /\ Settled
    /\ stage[t] = "pause"
    /\ stage' = [stage EXCEPT ![t] = "idle"]
    /\ UNCHANGED <<allVars, limiterVars, reader, wire>>

\* global_rate_limiter.wait_if_needed between two pages.
PauseAfterPage(t) ==
    /\ Settled
    /\ stage[t] = "pause"
    /\ Limiter!Enter(t)
    /\ stage' = [stage EXCEPT ![t] = "idle"]
    /\ UNCHANGED <<allVars, reader, wire>>

\* Time passes during a sleep and during a request, which may have to wait for
\* other threads, for a new connection or for its answer.
TimePasses ==
    /\ Settled
    /\ \E t \in Threads : limiter_pc[t] \in Limiter!Sleeping \/ stage[t] = "request"
    /\ Limiter!Tick
    /\ UNCHANGED <<allVars, reader, stage, wire>>

\* No thread is inside of anything; what is left of the bounds is not used.
NobodyBusy ==
    /\ \A t \in Threads : stage[t] \in {"idle", "done"} /\ limiter_pc[t] = "out"
    /\ UNCHANGED pathVars

PathNext ==
    \/ \E t \in Threads :
        \/ ApplyRateLimiting(t) \/ WaitIfNeeded(t) \/ Permitted(t)
        \/ InRequest(t)
        \/ PauseAfterPage(t)
    \/ TimePasses
    \/ NobodyBusy

PathSpec == PathInit /\ [][PathNext]_pathVars

---------------------------------------------------------------------------
(* Properties. *)

\* Requests written in the minute that starts with the i-th one.
WireWindow(i) == Cardinality({j \in i..Len(wire) : wire[j] < wire[i] + Minute})

\* How many requests the server sees in a minute: those the limiter lets
\* through in one (MinuteBurst; a third set only once the hour's limit has been
\* reached), and for each thread one that was let through before and got its
\* connection only now.
WireBurst ==
    LET times == IF Len(log) >= limits.hour THEN 3 ELSE 2
    IN  \A i \in 1..Len(wire) : WireWindow(i) <= times * limits.minute + 1 + Cardinality(Threads)

\* The server sees the pages of one reader at least an interval apart, however
\* long each took to get its connection: that is what the second call of
\* wait_if_needed achieves, since the limiter alone spaces permissions.
ReaderKeepsDistance ==
    reader => \A i \in 1..(Len(wire) - 1) : wire[i + 1] - wire[i] >= limits.interval
=============================================================================
