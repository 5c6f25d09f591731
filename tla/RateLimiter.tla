----------------------------- MODULE RateLimiter -----------------------------
(***************************************************************************)
(* Rate_limiter::wait_if_needed, the call every HTTP request makes first.   *)
(* It counts requests per fixed minute and per fixed hour, sleeps while a   *)
(* window is full or the previous request is too recent, and holds _mutex   *)
(* during every sleep.  The clock is read once, on entry, for all checks.   *)
(*                                                                         *)
(* Time is a clock of ticks; two reads of steady_clock with nothing between *)
(* them are the same tick.                                                  *)
(***************************************************************************)
EXTENDS Integers, Sequences, FiniteSets

CONSTANTS
    Threads,       \* the threads that make requests
    Limits,        \* the settings set_limits may be called with
    Minute, Hour,  \* the lengths of the two windows, in ticks
    MaxRequests,   \* bound: calls of wait_if_needed per thread
    MaxSlack,      \* bound: ticks during which nobody needs to sleep
    None           \* no thread

RateLimiterAssumption ==
    /\ Limits \subseteq [minute : Nat, hour : Nat, interval : Nat]
    /\ Minute \in Nat /\ Hour \in Nat /\ Minute <= Hour
    /\ MaxRequests \in Nat /\ MaxSlack \in Nat
    /\ None \notin Threads

ASSUME LimiterAssumption == RateLimiterAssumption

VARIABLES
    clock,              \* steady_clock
    limits,             \* _max_per_minute, _max_per_hour, _min_interval
    enabled,            \* _enabled
    minute_requests,    \* _minute_requests
    hourly_requests,    \* _hourly_requests
    last_request,       \* _last_request_time; 0 is the epoch
    last_minute_reset,  \* _last_minute_reset
    last_hour_reset,    \* _last_hour_reset
    mutex,              \* owner of _mutex
    pc,                 \* where each thread is in wait_if_needed
    now,                \* local now of the owner of the mutex
    until,              \* when the owner's sleep_for ends
    requests,           \* calls made by each thread
    slack,              \* idle ticks so far
    log                 \* history: the times of the requests let through

config == <<limits, enabled>>
counters == <<minute_requests, hourly_requests, last_minute_reset, last_hour_reset>>
grants == <<last_request, log>>
locals == <<now, until>>
vars == <<clock, config, counters, grants, mutex, pc, locals, requests, slack>>

Sleeping == {"hour_sleep", "minute_sleep", "interval_sleep"}
Inside == Sleeping \cup {"hour", "minute", "interval", "update"}

Init ==
    /\ clock = 1
    /\ limits \in Limits
    /\ enabled = TRUE
    /\ minute_requests = 0
    /\ hourly_requests = 0
    /\ last_request = 0
    /\ last_minute_reset = clock
    /\ last_hour_reset = clock
    /\ mutex = None
    /\ pc = [t \in Threads |-> "out"]
    /\ now = 0
    /\ until = 0
    /\ requests = [t \in Threads |-> 0]
    /\ slack = 0
    /\ log = <<>>

Goto(t, label) == pc' = [pc EXCEPT ![t] = label]

\* _enabled is read before the mutex is taken.
Enter(t) ==
    /\ pc[t] = "out"
    /\ requests[t] < MaxRequests
    /\ requests' = [requests EXCEPT ![t] = @ + 1]
    /\ Goto(t, IF enabled THEN "lock" ELSE "out")
    /\ UNCHANGED <<clock, config, counters, grants, mutex, locals, slack>>

Lock(t) ==
    /\ pc[t] = "lock"
    /\ mutex = None
    /\ mutex' = t
    /\ now' = clock
    /\ Goto(t, "hour")
    /\ UNCHANGED <<clock, config, counters, grants, until, requests, slack>>

\* One of the three checks: sleep for the given time, or go on at next.
SleepOrGo(t, wait, length, asleep, next) ==
    /\ until' = IF wait THEN clock + length ELSE until
    /\ Goto(t, IF wait THEN asleep ELSE next)
    /\ UNCHANGED <<clock, config, counters, grants, mutex, now, requests, slack>>

\* Mutant: the request past the limit is let through.
HourCheckLate(t) ==
    /\ pc[t] = "hour"
    /\ SleepOrGo(t, hourly_requests > limits.hour /\ now - last_hour_reset < Hour,
                 Hour - (now - last_hour_reset), "hour_sleep", "minute")

HourCheck(t) ==
    /\ pc[t] = "hour"
    /\ SleepOrGo(t, hourly_requests >= limits.hour /\ now - last_hour_reset < Hour,
                 Hour - (now - last_hour_reset), "hour_sleep", "minute")

\* Mutant: the request past the limit is let through.
MinuteCheckLate(t) ==
    /\ pc[t] = "minute"
    /\ SleepOrGo(t, minute_requests > limits.minute /\ now - last_minute_reset < Minute,
                 Minute - (now - last_minute_reset), "minute_sleep", "interval")

MinuteCheck(t) ==
    /\ pc[t] = "minute"
    /\ SleepOrGo(t, minute_requests >= limits.minute /\ now - last_minute_reset < Minute,
                 Minute - (now - last_minute_reset), "minute_sleep", "interval")

\* Mutant: the sleep lasts for the time that has passed, not for what is left.
IntervalCheckShort(t) ==
    /\ pc[t] = "interval"
    /\ SleepOrGo(t, last_request > 0 /\ now - last_request < limits.interval,
                 now - last_request, "interval_sleep", "update")

IntervalCheck(t) ==
    /\ pc[t] = "interval"
    /\ SleepOrGo(t, last_request > 0 /\ now - last_request < limits.interval,
                 limits.interval - (now - last_request), "interval_sleep", "update")

\* sleep_for returns, not before its time; reset_counters.
HourSlept(t) ==
    /\ pc[t] = "hour_sleep"
    /\ clock >= until
    /\ last_minute_reset' = clock
    /\ last_hour_reset' = clock
    /\ minute_requests' = 0
    /\ hourly_requests' = 0
    /\ Goto(t, "minute")
    /\ UNCHANGED <<clock, config, grants, mutex, locals, requests, slack>>

\* sleep_for returns; reset_minute_counter.
MinuteSlept(t) ==
    /\ pc[t] = "minute_sleep"
    /\ clock >= until
    /\ last_minute_reset' = clock
    /\ minute_requests' = 0
    /\ Goto(t, "interval")
    /\ UNCHANGED <<clock, config, hourly_requests, last_hour_reset, grants, mutex,
                   locals, requests, slack>>

IntervalSlept(t) ==
    /\ pc[t] = "interval_sleep"
    /\ clock >= until
    /\ Goto(t, "update")
    /\ UNCHANGED <<clock, config, counters, grants, mutex, locals, requests, slack>>

\* Mutant: the mutex is not released.
UpdateLocked(t) ==
    /\ pc[t] = "update"
    /\ last_request' = clock
    /\ log' = Append(log, clock)
    /\ Goto(t, "out")
    /\ UNCHANGED <<clock, config, counters, mutex, locals, requests, slack>>

\* The request goes through: count it, then start a new window if the current
\* one is over, and unlock.
Update(t) ==
    LET minuteOver == clock - last_minute_reset >= Minute
        hourOver == clock - last_hour_reset >= Hour
    IN  /\ pc[t] = "update"
        /\ last_request' = clock
        /\ log' = Append(log, clock)
        /\ minute_requests' = IF minuteOver THEN 0 ELSE minute_requests + 1
        /\ last_minute_reset' = IF minuteOver THEN clock ELSE last_minute_reset
        /\ hourly_requests' = IF hourOver THEN 0 ELSE hourly_requests + 1
        /\ last_hour_reset' = IF hourOver THEN clock ELSE last_hour_reset
        /\ mutex' = None
        /\ Goto(t, "out")
        /\ UNCHANGED <<clock, config, locals, requests, slack>>

SetEnabled(b) ==
    /\ mutex = None
    /\ enabled' = b
    /\ UNCHANGED <<clock, limits, counters, grants, mutex, pc, locals, requests, slack>>

SetLimits(l) ==
    /\ mutex = None
    /\ limits' = l
    /\ UNCHANGED <<clock, enabled, counters, grants, mutex, pc, locals, requests, slack>>

\* Time passes: while somebody has to sleep, and otherwise as far as MaxSlack.
Tick ==
    /\ clock' = clock + 1
    /\ \/ (\E t \in Threads : pc[t] \in Sleeping /\ clock < until) /\ slack' = slack
       \/ slack < MaxSlack /\ slack' = slack + 1
    /\ UNCHANGED <<config, counters, grants, mutex, pc, locals, requests>>

Finished ==
    /\ \A t \in Threads : pc[t] = "out" /\ requests[t] = MaxRequests
    /\ UNCHANGED vars

Step(t) ==
    \/ Enter(t) \/ Lock(t)
    \/ HourCheck(t) \/ HourSlept(t)
    \/ MinuteCheck(t) \/ MinuteSlept(t)
    \/ IntervalCheck(t) \/ IntervalSlept(t)
    \/ Update(t)

Next ==
    \/ \E t \in Threads : Step(t)
    \/ \E b \in BOOLEAN : SetEnabled(b)
    \/ \E l \in Limits : SetLimits(l)
    \/ Tick
    \/ Finished

Spec == Init /\ [][Next]_vars

\* Time passes, threads run, and a thread that waits for the mutex gets it
\* when it keeps being released (calls are finitely many).
Fairness ==
    /\ WF_vars(Tick)
    /\ \A t \in Threads : WF_vars(Step(t) /\ pc[t] # "out")

FairSpec == Spec /\ Fairness

---------------------------------------------------------------------------
(* Properties. *)

\* The types; and the thread inside wait_if_needed, asleep or not, is the owner
\* of _mutex.
TypeOK ==
    /\ clock \in Nat \ {0}
    /\ limits \in [minute : Nat, hour : Nat, interval : Nat]
    /\ enabled \in BOOLEAN
    /\ minute_requests \in Nat /\ hourly_requests \in Nat
    /\ last_request \in Nat /\ last_minute_reset \in Nat /\ last_hour_reset \in Nat
    /\ mutex \in Threads \cup {None}
    /\ pc \in [Threads -> {"out", "lock"} \cup Inside]
    /\ \A t \in Threads : pc[t] \in Inside <=> mutex = t
    /\ now \in Nat /\ until \in Nat
    /\ requests \in [Threads -> 0..MaxRequests]
    /\ slack \in 0..MaxSlack
    /\ log \in Seq(Nat)

\* Two requests are never let through closer together than _min_interval, on
\* whichever threads they are and although the check uses a clock read taken
\* before the sleeps.
Spacing ==
    [][log' # log /\ last_request > 0 =>
          last_request' - last_request >= limits.interval]_vars

\* Requests let through in the window of the given length that starts with
\* the i-th one.
InWindow(i, length) ==
    Cardinality({j \in 1..Len(log) : j >= i /\ log[j] < log[i] + length})

\* How far a burst can go under the most generous of the settings: the requests
\* of a minute, the uncounted one that closes it, those of the next minute until
\* the hour ends in it, which resets both counters, and those after that.
\* The documented limit itself, n requests in any minute, does not hold.
MinuteBurst ==
    \A i \in 1..Len(log) : \E l \in Limits : InWindow(i, Minute) <= 3 * l.minute + 1

\* A request that is counted is counted within the limits in force, on whichever
\* threads the others were, although the window is judged by a clock read taken
\* on entry and closed by another taken after the sleeps.
CountedWithinLimits ==
    [][/\ minute_requests' > minute_requests => minute_requests' <= limits.minute
       /\ hourly_requests' > hourly_requests => hourly_requests' <= limits.hour]_vars

\* Every call of wait_if_needed returns, although sleepers keep the mutex.
CallReturns == \A t \in Threads : pc[t] = "lock" ~> pc[t] = "out"
=============================================================================
