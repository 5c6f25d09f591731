-------------------------- MODULE RateLimiterProofs --------------------------
(* Theorems about RateLimiter, for any settings, windows and threads. *)
EXTENDS RateLimiter, SequenceTheorems, FiniteSetTheorems, TLAPS

LEMMA Constants ==
  /\ Limits \subseteq [minute : Nat, hour : Nat, interval : Nat]
  /\ Minute \in Nat /\ Hour \in Nat /\ Minute <= Hour
  /\ MaxRequests \in Nat /\ MaxSlack \in Nat
  /\ None \notin Threads
BY LimiterAssumption DEF RateLimiterAssumption

\* Types, without the history, which no action reads.
Types ==
    /\ clock \in Nat \ {0}
    /\ limits \in [minute : Nat, hour : Nat, interval : Nat]
    /\ last_request \in Nat /\ last_minute_reset \in Nat /\ last_hour_reset \in Nat
    /\ mutex \in Threads \cup {None}
    /\ pc \in [Threads -> {"out", "lock"} \cup Inside]
    /\ now \in Nat /\ until \in Int

\* The mutex is held by exactly the thread that is inside wait_if_needed.
MutexInv == \A t \in Threads : pc[t] \in Inside <=> mutex = t

\* A clock read taken earlier is in the past, so a sleep computed from it is at
\* least as long as what is left of the interval: the owner is allowed to go
\* on when its sleep ends.
IntervalInv ==
    /\ last_request <= clock
    /\ \A t \in Threads :
          /\ pc[t] \in Inside => now <= clock
          /\ pc[t] = "interval_sleep" => until - last_request >= limits.interval
          /\ pc[t] = "update" /\ last_request > 0 =>
                clock - last_request >= limits.interval

SpacingInv == Types /\ MutexInv /\ IntervalInv

LEMMA SpacingInit == Init => SpacingInv
BY Constants
   DEF Init, SpacingInv, Types, MutexInv, IntervalInv, Inside, Sleeping

LEMMA SpacingStep == SpacingInv /\ [Next]_vars => SpacingInv'
<1> SUFFICES ASSUME SpacingInv, [Next]_vars PROVE SpacingInv'
  OBVIOUS
<1> USE DEF SpacingInv, Types, MutexInv, IntervalInv, Inside, Sleeping,
            config, counters, grants, locals, Goto
<1>0. None \notin Threads
  BY Constants
<1>1. ASSUME NEW t \in Threads, Enter(t) PROVE SpacingInv'
  BY <1>1 DEF Enter
<1>2. ASSUME NEW t \in Threads, Lock(t) PROVE SpacingInv'
  BY <1>0, <1>2 DEF Lock
<1>3. ASSUME NEW t \in Threads, HourCheck(t) PROVE SpacingInv'
  BY <1>3, Constants DEF HourCheck, SleepOrGo
<1>4. ASSUME NEW t \in Threads, HourSlept(t) PROVE SpacingInv'
  BY <1>4 DEF HourSlept
<1>5. ASSUME NEW t \in Threads, MinuteCheck(t) PROVE SpacingInv'
  BY <1>5, Constants DEF MinuteCheck, SleepOrGo
<1>6. ASSUME NEW t \in Threads, MinuteSlept(t) PROVE SpacingInv'
  BY <1>6 DEF MinuteSlept
<1>7. ASSUME NEW t \in Threads, IntervalCheck(t) PROVE SpacingInv'
  BY <1>7 DEF IntervalCheck, SleepOrGo
<1>8. ASSUME NEW t \in Threads, IntervalSlept(t) PROVE SpacingInv'
  BY <1>8 DEF IntervalSlept
<1>9. ASSUME NEW t \in Threads, Update(t) PROVE SpacingInv'
  BY <1>0, <1>9 DEF Update
<1>10. ASSUME NEW b \in BOOLEAN, SetEnabled(b) PROVE SpacingInv'
  BY <1>10 DEF SetEnabled
<1>11. ASSUME NEW l \in Limits, SetLimits(l) PROVE SpacingInv'
  BY <1>0, <1>11, Constants DEF SetLimits
<1>12. CASE Tick
  BY <1>12 DEF Tick
<1>13. CASE UNCHANGED vars
  BY <1>13 DEF vars
<1> QED BY <1>1, <1>2, <1>3, <1>4, <1>5, <1>6, <1>7, <1>8, <1>9, <1>10, <1>11,
           <1>12, <1>13
       DEF Next, Step, Finished

\* Two requests are never let through closer together than the interval in
\* force, for any settings and any number of threads.
THEOREM RequestsAreSpaced == Spec => Spacing
<1>1. SpacingInv /\ [Next]_vars =>
        [log' # log /\ last_request > 0 =>
            last_request' - last_request >= limits.interval]_vars
  <2> SUFFICES ASSUME SpacingInv, [Next]_vars, log' # log, last_request > 0
               PROVE  last_request' - last_request >= limits.interval
    OBVIOUS
  <2>1. \E t \in Threads : Update(t)
    BY DEF Next, Step, Enter, Lock, HourCheck, HourSlept, MinuteCheck, MinuteSlept,
           IntervalCheck, IntervalSlept, SleepOrGo, SetEnabled, SetLimits, Tick,
           Finished, vars, grants
  <2> QED BY <2>1 DEF Update, SpacingInv, IntervalInv
<1> QED BY <1>1, SpacingInit, SpacingStep, PTL DEF Spec, Spacing

\* Past its checks, the owner of the mutex has found either room in the window
\* or the window over at the clock read it uses.
CheckedHour == {"minute", "minute_sleep", "interval", "interval_sleep", "update"}
CheckedMinute == {"interval", "interval_sleep", "update"}

RoomInv ==
    /\ minute_requests \in Nat /\ hourly_requests \in Nat
    /\ \A t \in Threads :
          /\ pc[t] \in CheckedHour =>
                hourly_requests < limits.hour \/ now - last_hour_reset >= Hour
          /\ pc[t] \in CheckedMinute =>
                minute_requests < limits.minute \/ now - last_minute_reset >= Minute

\* A limit of 0 would let one request through per window; set_limits does not
\* exclude it.
PositiveLimits == \A l \in Limits : l.minute > 0 /\ l.hour > 0

\* The settings in force are among those of the constant.
LimitsInv == limits \in Limits

LEMMA RoomInit == Init => RoomInv /\ LimitsInv
BY DEF Init, RoomInv, LimitsInv, CheckedHour, CheckedMinute

LEMMA LimitsStep == LimitsInv /\ [Next]_vars => LimitsInv'
BY DEF LimitsInv, Next, Step, Enter, Lock, HourCheck, HourSlept, MinuteCheck,
       MinuteSlept, IntervalCheck, IntervalSlept, SleepOrGo, Update, SetEnabled,
       SetLimits, Tick, Finished, vars, config

LEMMA RoomStep ==
    ASSUME PositiveLimits
    PROVE  SpacingInv /\ LimitsInv /\ RoomInv /\ [Next]_vars => RoomInv'
<1> SUFFICES ASSUME SpacingInv, LimitsInv, RoomInv, [Next]_vars PROVE RoomInv'
  OBVIOUS
<1> USE DEF SpacingInv, LimitsInv, RoomInv, PositiveLimits, Types, MutexInv,
            CheckedHour, CheckedMinute, Inside, Sleeping, config, counters,
            grants, locals, Goto
<1>0. None \notin Threads /\ Minute \in Nat /\ Hour \in Nat
  BY Constants
<1>1. ASSUME NEW t \in Threads, Enter(t) PROVE RoomInv'
  BY <1>1 DEF Enter
<1>2. ASSUME NEW t \in Threads, Lock(t) PROVE RoomInv'
  BY <1>0, <1>2 DEF Lock
<1>3. ASSUME NEW t \in Threads, HourCheck(t) PROVE RoomInv'
  BY <1>0, <1>3 DEF HourCheck, SleepOrGo
<1>4. ASSUME NEW t \in Threads, HourSlept(t) PROVE RoomInv'
  BY <1>0, <1>4 DEF HourSlept
<1>5. ASSUME NEW t \in Threads, MinuteCheck(t) PROVE RoomInv'
  BY <1>0, <1>5 DEF MinuteCheck, SleepOrGo
<1>6. ASSUME NEW t \in Threads, MinuteSlept(t) PROVE RoomInv'
  BY <1>0, <1>6 DEF MinuteSlept
<1>7. ASSUME NEW t \in Threads, IntervalCheck(t) PROVE RoomInv'
  BY <1>7 DEF IntervalCheck, SleepOrGo
<1>8. ASSUME NEW t \in Threads, IntervalSlept(t) PROVE RoomInv'
  BY <1>8 DEF IntervalSlept
<1>9. ASSUME NEW t \in Threads, Update(t) PROVE RoomInv'
  BY <1>0, <1>9 DEF Update
<1>10. ASSUME NEW b \in BOOLEAN, SetEnabled(b) PROVE RoomInv'
  BY <1>10 DEF SetEnabled
<1>11. ASSUME NEW l \in Limits, SetLimits(l) PROVE RoomInv'
  BY <1>0, <1>11 DEF SetLimits
<1>12. CASE Tick
  BY <1>12 DEF Tick
<1>13. CASE UNCHANGED vars
  BY <1>13 DEF vars
<1> QED BY <1>1, <1>2, <1>3, <1>4, <1>5, <1>6, <1>7, <1>8, <1>9, <1>10, <1>11,
           <1>12, <1>13
       DEF Next, Step, Finished

\* A request that is counted is counted within the limits in force, for any
\* positive limits, windows and number of threads.
THEOREM RequestsAreCountedWithinLimits ==
    ASSUME PositiveLimits
    PROVE  Spec => CountedWithinLimits
<1> DEFINE Inv == SpacingInv /\ LimitsInv /\ RoomInv
           Counted == /\ minute_requests' > minute_requests =>
                            minute_requests' <= limits.minute
                      /\ hourly_requests' > hourly_requests =>
                            hourly_requests' <= limits.hour
<1>1. Init => Inv
  BY SpacingInit, RoomInit
<1>2. Inv /\ [Next]_vars => Inv'
  BY SpacingStep, LimitsStep, RoomStep
<1>3. Inv /\ [Next]_vars => [Counted]_vars
  <2> SUFFICES ASSUME Inv, [Next]_vars PROVE Counted \/ UNCHANGED vars
    OBVIOUS
  <2>1. ASSUME NEW t \in Threads, Update(t) PROVE Counted
    <3>1. clock >= now /\ clock \in Nat /\ now \in Nat
      BY <2>1 DEF Update, SpacingInv, IntervalInv, Types, Inside
    <3>2. minute_requests' > minute_requests => minute_requests' <= limits.minute
      BY <2>1, <3>1, Constants
         DEF Update, SpacingInv, Types, RoomInv, CheckedMinute
    <3>3. hourly_requests' > hourly_requests => hourly_requests' <= limits.hour
      BY <2>1, <3>1, Constants
         DEF Update, SpacingInv, Types, RoomInv, CheckedHour
    <3> QED BY <3>2, <3>3
  <2>2. CASE \E t \in Threads : Update(t)
    BY <2>1, <2>2
  <2>3. CASE ~ \E t \in Threads : Update(t)
    <3>1. /\ ~(minute_requests' > minute_requests)
          /\ ~(hourly_requests' > hourly_requests)
      BY <2>3 DEF RoomInv, Next, Step, Enter, Lock, HourCheck, HourSlept, MinuteCheck,
             MinuteSlept, IntervalCheck, IntervalSlept, SleepOrGo, SetEnabled,
             SetLimits, Tick, Finished, vars, counters
    <3> QED BY <3>1
  <2> QED BY <2>2, <2>3
<1> HIDE DEF Inv, Counted
<1>4. Spec => [][Counted]_vars
  BY <1>1, <1>2, <1>3, PTL DEF Spec
<1> QED BY <1>4 DEF Counted, CountedWithinLimits

---------------------------------------------------------------------------
(* Types, and how far a burst can go. *)

TypeRest ==
    /\ enabled \in BOOLEAN
    /\ minute_requests \in Nat /\ hourly_requests \in Nat
    /\ until \in Nat
    /\ requests \in [Threads -> 0..MaxRequests]
    /\ slack \in 0..MaxSlack
    /\ log \in Seq(Nat)

LEMMA TypeRestStep == SpacingInv /\ TypeRest /\ [Next]_vars => TypeRest'
<1> SUFFICES ASSUME SpacingInv, TypeRest, [Next]_vars PROVE TypeRest'
  OBVIOUS
<1> USE DEF SpacingInv, TypeRest, Types, config, counters, grants, locals
<1>0. Minute \in Nat /\ Hour \in Nat /\ MaxRequests \in Nat /\ MaxSlack \in Nat
      /\ Limits \subseteq [minute : Nat, hour : Nat, interval : Nat]
  BY Constants
<1>1. ASSUME NEW t \in Threads, Enter(t) PROVE TypeRest'
  BY <1>0, <1>1 DEF Enter
<1>2. ASSUME NEW t \in Threads, HourCheck(t) \/ MinuteCheck(t) \/ IntervalCheck(t)
      PROVE  TypeRest'
  <2>1. until' \in Nat
    <3>1. CASE HourCheck(t)
      BY <1>0, <3>1 DEF HourCheck, SleepOrGo
    <3>2. CASE MinuteCheck(t)
      BY <1>0, <3>2 DEF MinuteCheck, SleepOrGo
    <3>3. CASE IntervalCheck(t)
      <4>1. limits.interval \in Nat
        OBVIOUS
      <4> QED BY <3>3, <4>1 DEF IntervalCheck, SleepOrGo
    <3> QED BY <1>2, <3>1, <3>2, <3>3
  <2> QED BY <1>2, <2>1 DEF HourCheck, MinuteCheck, IntervalCheck, SleepOrGo
<1>3. ASSUME NEW t \in Threads,
             Lock(t) \/ HourSlept(t) \/ MinuteSlept(t) \/ IntervalSlept(t)
      PROVE  TypeRest'
  <2>1. /\ UNCHANGED <<enabled, until, requests, slack, log>>
        /\ minute_requests' \in {0, minute_requests}
        /\ hourly_requests' \in {0, hourly_requests}
    BY <1>3 DEF Lock, HourSlept, MinuteSlept, IntervalSlept
  <2> QED BY <2>1
<1>4. ASSUME NEW t \in Threads, Update(t) PROVE TypeRest'
  <2>1. log' \in Seq(Nat)
    BY <1>4, AppendProperties DEF Update
  <2> QED BY <1>4, <2>1 DEF Update
<1>5. CASE \/ \E b \in BOOLEAN : SetEnabled(b)
           \/ \E l \in Limits : SetLimits(l)
  BY <1>5 DEF SetEnabled, SetLimits
<1>6. CASE Tick
  BY <1>0, <1>6 DEF Tick
<1>7. CASE UNCHANGED vars
  BY <1>7 DEF vars
<1> QED BY <1>1, <1>2, <1>3, <1>4, <1>5, <1>6, <1>7 DEF Next, Step, Finished

LEMMA TypeRestInit == Init => TypeRest
BY Constants, EmptySeq DEF Init, TypeRest

\* The types of the limiter; and whoever is inside wait_if_needed, asleep or not,
\* owns _mutex.
THEOREM TypeCorrect == Spec => []TypeOK
<1>1. SpacingInv /\ TypeRest => TypeOK
  BY DEF SpacingInv, Types, MutexInv, TypeRest, TypeOK
<1> QED BY <1>1, SpacingInit, SpacingStep, TypeRestInit, TypeRestStep, PTL DEF Spec

\* The requests let through before the current minute was opened, the one that
\* opened it included.
Earlier == Len(log) - minute_requests

\* The requests come in order, those of the minute at its end; and who wakes up
\* to start a new window has slept to the end of the old one.
LogInv ==
    /\ Earlier \in Nat /\ hourly_requests <= Len(log)
    /\ \A i, j \in 1..Len(log) : i <= j => log[i] <= log[j]
    /\ \A i \in 1..Len(log) : log[i] <= clock
    /\ \A i \in 1..Earlier : log[i] <= last_minute_reset
    /\ last_minute_reset <= clock /\ last_hour_reset <= clock
    /\ \A t \in Threads :
          /\ pc[t] = "minute_sleep" => until - last_minute_reset >= Minute
          /\ pc[t] = "hour_sleep" =>
                /\ until - last_hour_reset >= Hour
                /\ Len(log) >= limits.hour

\* So many have gone through that the limit of an hour may have been reached.
HourUsed(S) == \E l \in S : Len(log) >= l.hour

\* Under settings S: the current minute has what one may have; before its opening
\* there was at most another one and the request that closed that, within the
\* length of a minute, and one more when it was the hour that opened it.
OpenedByHour(S) == last_minute_reset = last_hour_reset /\ HourUsed(S)

SegmentInv(S) ==
    /\ \E l \in S : minute_requests <= l.minute
    /\ \A i \in 1..Earlier :
          log[i] + Minute > last_minute_reset =>
              \E l \in S : Earlier - i + 1 <= IF OpenedByHour(S)
                                               THEN 2 * l.minute + 1
                                               ELSE l.minute + 1

BaseInv == SpacingInv /\ TypeRest /\ LogInv

LEMMA LogInit == Init => LogInv
BY Constants DEF Init, LogInv, Earlier

\* What a request that goes through makes of the log.
LEMMA LogGrows ==
  ASSUME BaseInv, log' = Append(log, clock)
  PROVE  /\ Len(log) \in Nat /\ Len(log') = Len(log) + 1
         /\ \A i \in 1..Len(log) : log'[i] = log[i]
         /\ log'[Len(log) + 1] = clock
<1>1. log \in Seq(Nat) /\ clock \in Nat
  BY DEF BaseInv, SpacingInv, TypeRest, Types
<1> QED BY <1>1, AppendProperties, LenProperties

LEMMA LogStep == BaseInv /\ [Next]_vars => LogInv'
<1> SUFFICES ASSUME BaseInv, [Next]_vars PROVE LogInv'
  OBVIOUS
<1> USE DEF BaseInv, SpacingInv, TypeRest, Types, MutexInv, IntervalInv, LogInv, Inside,
            Sleeping, config, counters, grants, locals, Goto
<1>0. /\ None \notin Threads /\ Minute \in Nat /\ Hour \in Nat
      /\ Len(log) \in Nat /\ DOMAIN log = 1..Len(log) /\ \A i \in 1..Len(log) : log[i] \in Nat
  BY Constants, LenProperties
<1>1. ASSUME NEW t \in Threads, Enter(t) \/ Lock(t) PROVE LogInv'
  BY ZenonT(60), <1>0, <1>1 DEF Enter, Lock, Earlier
<1>2. ASSUME NEW t \in Threads, HourCheck(t) \/ MinuteCheck(t) \/ IntervalCheck(t)
      PROVE  LogInv'
  <2>1. /\ UNCHANGED <<log, minute_requests, last_minute_reset, last_hour_reset, clock,
                       mutex, limits, hourly_requests>>
        /\ now <= clock /\ mutex = t
    BY <1>2 DEF HourCheck, MinuteCheck, IntervalCheck, SleepOrGo
  <2>2. \A u \in Threads :
           /\ pc'[u] = "minute_sleep" => until' - last_minute_reset >= Minute
           /\ pc'[u] = "hour_sleep" => /\ until' - last_hour_reset >= Hour
                                       /\ Len(log) >= limits.hour
    <3>1. CASE HourCheck(t)
      <4>1. limits.hour \in Nat /\ hourly_requests \in Nat
        OBVIOUS
      <4>2. pc'[t] = "hour_sleep" => Len(log) >= limits.hour
        BY <1>0, <3>1, <4>1 DEF HourCheck, SleepOrGo
      <4>3. /\ pc'[t] # "minute_sleep"
            /\ pc'[t] = "hour_sleep" => until' - last_hour_reset >= Hour
        BY <1>0, <2>1, <3>1 DEF HourCheck, SleepOrGo
      <4>4. \A u \in Threads \ {t} : pc'[u] = pc[u] /\ pc[u] \notin Sleeping
        BY <1>0, <2>1, <3>1 DEF HourCheck, SleepOrGo
      <4> QED BY <4>2, <4>3, <4>4
    <3>2. CASE MinuteCheck(t)
      BY <1>0, <2>1, <3>2 DEF MinuteCheck, SleepOrGo
    <3>3. CASE IntervalCheck(t)
      BY <1>0, <2>1, <3>3 DEF IntervalCheck, SleepOrGo
    <3> QED BY <1>2, <3>1, <3>2, <3>3
  <2>3. Earlier' = Earlier
    BY <2>1 DEF Earlier
  <2> QED BY <1>0, <2>1, <2>2, <2>3
<1>3. ASSUME NEW t \in Threads, HourSlept(t) \/ MinuteSlept(t) PROVE LogInv'
  <2>1. /\ UNCHANGED <<log, clock, until, mutex, limits>> /\ minute_requests' = 0
        /\ hourly_requests' \in {0, hourly_requests}
        /\ last_minute_reset' = clock /\ last_hour_reset' \in {clock, last_hour_reset}
        /\ mutex = t /\ pc'[t] \notin Sleeping /\ \A u \in Threads \ {t} : pc'[u] = pc[u]
    BY <1>3 DEF HourSlept, MinuteSlept
  <2>2. Earlier' = Len(log)
    BY <1>0, <2>1 DEF Earlier
  <2>3. \A u \in Threads : pc'[u] \notin {"minute_sleep", "hour_sleep"}
    BY <1>0, <2>1
  <2>4. hourly_requests' <= Len(log') /\ Earlier' \in Nat
    BY <1>0, <2>1, <2>2
  <2>5. /\ \A i, j \in 1..Len(log') : i <= j => log'[i] <= log'[j]
        /\ \A i \in 1..Len(log') : log'[i] <= clock'
    BY <2>1
  <2>6. \A i \in 1..Earlier' : log'[i] <= last_minute_reset'
    BY <2>1, <2>2
  <2>7. last_minute_reset' <= clock' /\ last_hour_reset' <= clock'
    BY <2>1
  <2> QED BY <2>3, <2>4, <2>5, <2>6, <2>7
<1>4. ASSUME NEW t \in Threads, IntervalSlept(t) PROVE LogInv'
  BY <1>0, <1>4 DEF IntervalSlept, Earlier
<1>5. ASSUME NEW t \in Threads, Update(t) PROVE LogInv'
  <2>1. /\ log' = Append(log, clock) /\ UNCHANGED <<clock, until>>
        /\ mutex = t /\ pc'[t] \notin Sleeping /\ \A u \in Threads \ {t} : pc'[u] = pc[u]
        /\ last_hour_reset' \in {clock, last_hour_reset}
        /\ hourly_requests' \in {0, hourly_requests + 1}
        /\ \/ minute_requests' = 0 /\ last_minute_reset' = clock
           \/ minute_requests' = minute_requests + 1 /\ last_minute_reset' = last_minute_reset
    BY <1>5 DEF Update
  <2>2. /\ Len(log') = Len(log) + 1 /\ \A i \in 1..Len(log) : log'[i] = log[i]
        /\ log'[Len(log) + 1] = clock
    BY <2>1, LogGrows
  <2>3. \A i \in 1..Len(log') : log'[i] <= clock
    BY SMTT(30), <1>0, <2>2
  <2>4. ASSUME NEW i \in 1..Len(log'), NEW j \in 1..Len(log'), i <= j
        PROVE  log'[i] <= log'[j]
    <3>1. CASE j \in 1..Len(log)
      <4>1. i \in 1..Len(log) /\ log'[i] = log[i] /\ log'[j] = log[j]
        BY SMTT(30), <1>0, <2>2, <2>4, <3>1
      <4> QED BY <2>4, <3>1, <4>1
    <3>2. CASE j = Len(log) + 1
      BY <2>2, <2>3, <3>2
    <3> QED BY SMTT(30), <1>0, <2>2, <3>1, <3>2
  <2>5. Earlier' \in Nat /\ \A i \in 1..Earlier' : log'[i] <= last_minute_reset'
    <3>1. CASE minute_requests' = 0 /\ last_minute_reset' = clock
      BY <1>0, <2>2, <2>3, <3>1 DEF Earlier
    <3>2. CASE minute_requests' = minute_requests + 1 /\ last_minute_reset' = last_minute_reset
      <4>1. Earlier' = Earlier /\ Earlier <= Len(log)
        BY <1>0, <2>2, <3>2 DEF Earlier
      <4> QED BY <1>0, <2>2, <3>2, <4>1
    <3> QED BY <2>1, <3>1, <3>2
  <2>6. \A u \in Threads : pc'[u] \notin {"minute_sleep", "hour_sleep"}
    BY <1>0, <2>1
  <2>7. /\ last_minute_reset' <= clock' /\ last_hour_reset' <= clock'
        /\ hourly_requests' <= Len(log')
    BY <1>0, <2>1, <2>2
  <2> QED BY <2>1, <2>3, <2>4, <2>5, <2>6, <2>7
<1>6. CASE \/ \E b \in BOOLEAN : SetEnabled(b)
           \/ \E l \in Limits : SetLimits(l)
  <2>1. /\ \A u \in Threads : pc'[u] = pc[u] /\ pc[u] \notin Sleeping
        /\ UNCHANGED <<clock, counters, log>>
    BY <1>0, <1>6 DEF SetEnabled, SetLimits
  <2> QED BY <2>1 DEF Earlier
<1>7. CASE Tick
  BY <1>0, <1>7 DEF Tick, Earlier
<1>8. CASE UNCHANGED vars
  BY <1>8 DEF vars, Earlier
<1> QED BY <1>1, <1>2, <1>3, <1>4, <1>5, <1>6, <1>7, <1>8 DEF Next, Step, Finished

\* Who woke up, or finds the window over, is a window's length behind its opening.
\* What has been let through within a minute then belongs to the current segment.
LEMMA WindowOver ==
  ASSUME BaseInv, clock - last_minute_reset >= Minute,
         NEW i \in 1..Len(log), log[i] + Minute > clock
  PROVE  i > Earlier /\ Len(log) - i + 1 <= minute_requests
<1>1. /\ Len(log) \in Nat /\ log[i] \in Nat /\ Minute \in Nat /\ Earlier \in Nat
      /\ minute_requests \in Nat /\ last_minute_reset \in Nat /\ clock \in Nat
  BY SMTT(30), Constants, LenProperties DEF BaseInv, SpacingInv, TypeRest, Types, LogInv
<1>2. i > Earlier
  <2>1. log[i] > last_minute_reset
    BY <1>1
  <2>2. \A n \in 1..Earlier : log[n] <= last_minute_reset
    BY DEF BaseInv, LogInv
  <2> QED BY <1>1, <2>1, <2>2
<1> QED BY <1>1, <1>2 DEF Earlier

LEMMA SegmentStep ==
  ASSUME NEW S, S \subseteq Limits, PositiveLimits, limits \in S, BaseInv, RoomInv,
         SegmentInv(S), [Next]_vars
  PROVE  SegmentInv(S)'
<1>0. /\ Minute \in Nat /\ Hour \in Nat /\ Minute <= Hour /\ None \notin Threads
      /\ \A l \in S : l.minute \in Nat /\ l.minute > 0
      /\ Len(log) \in Nat /\ Earlier \in Nat /\ minute_requests \in Nat /\ clock \in Nat
      /\ last_minute_reset \in Nat /\ last_hour_reset \in Nat
      /\ last_minute_reset <= clock /\ last_hour_reset <= clock
      /\ \A i \in 1..Len(log) : log[i] \in Nat
      /\ Earlier = Len(log) - minute_requests
  BY Constants, LenProperties
     DEF BaseInv, SpacingInv, TypeRest, Types, LogInv, PositiveLimits, Earlier
<1>h. \A l \in S : l.hour \in Nat
  BY Constants
<1>1. CASE UNCHANGED <<log, minute_requests, last_minute_reset, last_hour_reset>>
  BY <1>1 DEF SegmentInv, Earlier, OpenedByHour, HourUsed
\* The minute opens and nothing is in it.
<1>2. ASSUME NEW t \in Threads, MinuteSlept(t) PROVE SegmentInv(S)'
  <2>1. /\ UNCHANGED log /\ minute_requests' = 0 /\ last_minute_reset' = clock
        /\ clock - last_minute_reset >= Minute
    BY <1>0, <1>2 DEF MinuteSlept, BaseInv, LogInv, TypeRest, grants
  <2>2. Earlier' = Len(log)
    BY <1>0, <2>1 DEF Earlier
  <2>3. ASSUME NEW i \in 1..Len(log), log[i] + Minute > clock
        PROVE  \E l \in S : Len(log) - i + 1 <= l.minute
    BY <1>0, <2>1, <2>3, WindowOver DEF SegmentInv
  <2>4. ASSUME NEW i \in 1..Earlier', log'[i] + Minute > last_minute_reset'
        PROVE  \E l \in S : Earlier' - i + 1 <= IF OpenedByHour(S)'
                                                 THEN 2 * l.minute + 1 ELSE l.minute + 1
    <3>1. PICK l \in S : Len(log) - i + 1 <= l.minute
      BY <2>1, <2>2, <2>3, <2>4
    <3> QED BY <1>0, <2>2, <3>1
  <2>5. \E l \in S : minute_requests' <= l.minute
    BY <1>0, <2>1
  <2> QED BY <2>4, <2>5 DEF SegmentInv
\* The hour ends: before it, there are the current segment and what came before.
<1>3. ASSUME NEW t \in Threads, HourSlept(t) PROVE SegmentInv(S)'
  <2>1. /\ UNCHANGED log /\ minute_requests' = 0 /\ last_minute_reset' = clock
        /\ last_hour_reset' = clock /\ clock - last_hour_reset >= Hour
        /\ Len(log) >= limits.hour
    BY <1>0, <1>3 DEF HourSlept, BaseInv, LogInv, TypeRest, grants
  <2>2. Earlier' = Len(log)
    BY <1>0, <2>1 DEF Earlier
  <2>3. ASSUME NEW i \in 1..Len(log), log[i] + Minute > clock
        PROVE  \E l \in S : Len(log) - i + 1 <= 2 * l.minute + 1
    <3>1. PICK m \in S : minute_requests <= m.minute
      BY DEF SegmentInv
    <3>2. CASE i > Earlier
      <4>1. Len(log) - i + 1 <= m.minute
        BY <1>0, <3>1, <3>2
      <4> QED BY <1>0, <4>1
    <3>3. CASE i \in 1..Earlier
      <4>1. ~OpenedByHour(S)
        <5> SUFFICES ASSUME clock - last_minute_reset >= Minute PROVE FALSE
          BY <1>0, <2>1 DEF OpenedByHour
        <5>1. i > Earlier
          BY <2>3, WindowOver
        <5> QED BY <1>0, <3>3, <5>1
      <4>2. log[i] + Minute > last_minute_reset
        BY <1>0, <2>3
      <4>3. PICK l \in S : Earlier - i + 1 <= l.minute + 1
        BY <3>3, <4>1, <4>2 DEF SegmentInv
      <4>4. Len(log) - i + 1 <= l.minute + m.minute + 1
        BY <1>0, <3>1, <4>3
      <4>5. CASE l.minute <= m.minute
        BY <1>0, <4>4, <4>5
      <4>6. CASE m.minute <= l.minute
        BY <1>0, <4>4, <4>6
      <4> QED BY <1>0, <4>5, <4>6
    <3> QED BY <1>0, <3>2, <3>3
  <2>4. ASSUME NEW i \in 1..Earlier', log'[i] + Minute > last_minute_reset'
        PROVE  \E l \in S : Earlier' - i + 1 <= IF OpenedByHour(S)'
                                                 THEN 2 * l.minute + 1 ELSE l.minute + 1
    <3>1. OpenedByHour(S)'
      BY <2>1 DEF OpenedByHour, HourUsed
    <3> QED BY <2>1, <2>2, <2>3, <2>4, <3>1
  <2>5. \E l \in S : minute_requests' <= l.minute
    BY <1>0, <2>1
  <2> QED BY <2>4, <2>5 DEF SegmentInv
<1>4. ASSUME NEW t \in Threads, Update(t) PROVE SegmentInv(S)'
  <2>1. /\ log' = Append(log, clock)
        /\ \/ /\ clock - last_minute_reset >= Minute
              /\ minute_requests' = 0 /\ last_minute_reset' = clock
           \/ /\ clock - last_minute_reset < Minute
              /\ minute_requests' = minute_requests + 1
              /\ last_minute_reset' = last_minute_reset
        /\ \/ clock - last_hour_reset >= Hour /\ last_hour_reset' = clock
           \/ last_hour_reset' = last_hour_reset
    BY <1>0, <1>4 DEF Update
  <2>2. /\ Len(log') = Len(log) + 1 /\ \A i \in 1..Len(log) : log'[i] = log[i]
        /\ log'[Len(log) + 1] = clock
    BY <2>1, LogGrows
  \* The request opens a minute and is not counted in it.
  <2>3. CASE clock - last_minute_reset >= Minute
    <3>1. minute_requests' = 0 /\ last_minute_reset' = clock
      BY <1>0, <2>1, <2>3
    <3>2. Earlier' = Len(log) + 1
      BY <1>0, <2>2, <3>1 DEF Earlier
    <3>3. ASSUME NEW i \in 1..Earlier', log'[i] + Minute > last_minute_reset'
          PROVE  \E l \in S : Earlier' - i + 1 <= IF OpenedByHour(S)'
                                                   THEN 2 * l.minute + 1 ELSE l.minute + 1
      <4>1. PICK m \in S : minute_requests <= m.minute
        BY DEF SegmentInv
      <4>2. Len(log) + 1 - i + 1 <= m.minute + 1
        <5>1. CASE i = Len(log) + 1
          BY <1>0, <5>1
        <5>2. CASE i \in 1..Len(log)
          <6>1. log[i] + Minute > clock
            BY <2>2, <3>1, <3>3, <5>2
          <6>2. Len(log) - i + 1 <= minute_requests
            BY <2>3, <5>2, <6>1, WindowOver
          <6> QED BY <1>0, <4>1, <6>2
        <5> QED BY <1>0, <3>2, <5>1, <5>2
      <4> QED BY <1>0, <3>2, <4>2
    <3>4. \E l \in S : minute_requests' <= l.minute
      BY <1>0, <3>1
    <3> QED BY <3>3, <3>4 DEF SegmentInv
  \* The request is one more in the current minute.
  <2>4. CASE clock - last_minute_reset < Minute
    <3>1. minute_requests' = minute_requests + 1 /\ last_minute_reset' = last_minute_reset
      BY <1>0, <2>1, <2>4
    <3>2. Earlier' = Earlier
      BY <1>0, <2>2, <3>1 DEF Earlier
    <3>3. minute_requests < limits.minute
      <4>1. now <= clock /\ now \in Nat
        BY <1>4 DEF Update, BaseInv, SpacingInv, Types, IntervalInv, Inside
      <4>2. minute_requests < limits.minute \/ now - last_minute_reset >= Minute
        BY <1>4 DEF Update, RoomInv, CheckedMinute
      <4> QED BY <1>0, <2>4, <4>1, <4>2
    <3>4. \E l \in S : minute_requests' <= l.minute
      BY <1>0, <3>1, <3>3
    \* The hour does not end in a minute it has opened.
    <3>5. OpenedByHour(S) => OpenedByHour(S)'
      <4>1. last_minute_reset = last_hour_reset => last_hour_reset' = last_hour_reset
        BY <1>0, <2>1, <2>4
      <4>2. HourUsed(S) => HourUsed(S)'
        BY <1>0, <1>h, <2>2 DEF HourUsed
      <4> QED BY <3>1, <4>1, <4>2 DEF OpenedByHour
    <3>6. ASSUME NEW i \in 1..Earlier', log'[i] + Minute > last_minute_reset'
          PROVE  \E l \in S : Earlier' - i + 1 <= IF OpenedByHour(S)'
                                                   THEN 2 * l.minute + 1 ELSE l.minute + 1
      <4>1. i \in 1..Earlier /\ log[i] + Minute > last_minute_reset
        BY <1>0, <2>2, <3>1, <3>2, <3>6
      <4>2. PICK l \in S : Earlier - i + 1 <= IF OpenedByHour(S)
                                               THEN 2 * l.minute + 1 ELSE l.minute + 1
        BY <4>1 DEF SegmentInv
      <4> QED BY <1>0, <3>1, <3>2, <3>5, <4>2
    <3> QED BY <3>4, <3>6 DEF SegmentInv
  <2> QED BY <1>0, <2>3, <2>4
<1> QED BY <1>1, <1>2, <1>3, <1>4
        DEF Next, Step, Enter, Lock, HourCheck, MinuteCheck, IntervalCheck, IntervalSlept,
            SleepOrGo, SetEnabled, SetLimits, Tick, Finished, vars, counters, grants

---------------------------------------------------------------------------
(* Windows. *)

\* The bound on the requests of any minute under settings S.
Times(S) == IF HourUsed(S) THEN 3 ELSE 2

WindowInv(S) ==
    \A i \in 1..Len(log) : \E l \in S : InWindow(i, Minute) <= Times(S) * l.minute + 1

\* What is let through in a minute that has not ended yet.
OpenInv(S) ==
    \A i \in 1..Len(log) :
        log[i] + Minute > clock => \E l \in S : Len(log) - i + 1 <= Times(S) * l.minute + 1

LEMMA InWindowType ==
  ASSUME log \in Seq(Nat), NEW i, NEW length
  PROVE  InWindow(i, length) \in Nat
<1>1. {j \in 1..Len(log) : j >= i /\ log[j] < log[i] + length} \subseteq 1..Len(log)
  OBVIOUS
<1>2. IsFiniteSet(1..Len(log))
  BY LenProperties, FS_Interval
<1> QED BY <1>1, <1>2, FS_Subset, FS_CardinalityType DEF InWindow

LEMMA OpenWindow ==
  ASSUME NEW S, S \subseteq Limits, BaseInv, SegmentInv(S)
  PROVE  OpenInv(S)
<1> SUFFICES ASSUME NEW i \in 1..Len(log), log[i] + Minute > clock
             PROVE  \E l \in S : Len(log) - i + 1 <= Times(S) * l.minute + 1
  BY DEF OpenInv
<1>0. /\ Minute \in Nat /\ \A l \in S : l.minute \in Nat
      /\ Len(log) \in Nat /\ Earlier \in Nat /\ minute_requests \in Nat /\ clock \in Nat
      /\ last_minute_reset \in Nat /\ last_minute_reset <= clock /\ log[i] \in Nat
      /\ Earlier = Len(log) - minute_requests
  BY SMTT(30), Constants, LenProperties
     DEF BaseInv, SpacingInv, TypeRest, Types, LogInv, Earlier
<1>1. PICK m \in S : minute_requests <= m.minute
  BY DEF SegmentInv
<1>2. CASE i > Earlier
  <2>1. Len(log) - i + 1 <= m.minute
    BY <1>0, <1>1, <1>2
  <2>2. m.minute <= Times(S) * m.minute + 1 /\ Times(S) * m.minute \in Nat
    BY <1>0 DEF Times
  <2> QED BY <1>0, <2>1, <2>2
<1>3. CASE i \in 1..Earlier
  <2>1. log[i] + Minute > last_minute_reset
    BY <1>0
  <2>2. PICK l \in S : Earlier - i + 1 <= IF OpenedByHour(S)
                                           THEN 2 * l.minute + 1 ELSE l.minute + 1
    BY <1>3, <2>1 DEF SegmentInv
  <2> DEFINE a == l.minute
             b == m.minute
             n == Len(log)
  <2>3. a \in Nat /\ b \in Nat /\ n \in Nat /\ i \in Nat
    BY <1>0
  <2>4. \/ Earlier - i + 1 <= a + 1
        \/ Times(S) = 3 /\ Earlier - i + 1 <= 2 * a + 1
    BY <2>2 DEF OpenedByHour, Times
  <2>5. n = Earlier + minute_requests /\ minute_requests <= b
    BY <1>0, <1>1
  <2>6. n - i + 1 <= Times(S) * a + 1 \/ n - i + 1 <= Times(S) * b + 1
    <3>1. Times(S) = 2 \/ Times(S) = 3
      BY DEF Times
    <3> HIDE DEF a, b, n
    <3>2. CASE Times(S) = 2
      BY <1>0, <2>3, <2>4, <2>5, <3>2
    <3>3. CASE Times(S) = 3
      BY <1>0, <2>3, <2>4, <2>5, <3>3
    <3> QED BY <3>1, <3>2, <3>3
  <2> QED BY <2>6
<1> QED BY <1>0, <1>2, <1>3

LEMMA WindowStep ==
  ASSUME NEW S, S \subseteq Limits, BaseInv, OpenInv(S)', WindowInv(S),
         limits \in S, [Next]_vars
  PROVE  WindowInv(S)'
<1>0. /\ Minute \in Nat /\ Len(log) \in Nat /\ clock \in Nat
      /\ \A i \in 1..Len(log) : log[i] \in Nat /\ log[i] <= clock
      /\ \A i, j \in 1..Len(log) : i <= j => log[i] <= log[j]
  BY Constants, LenProperties DEF BaseInv, SpacingInv, TypeRest, Types, LogInv
<1>1. CASE UNCHANGED log
  BY <1>1 DEF WindowInv, InWindow, Times, HourUsed
<1>2. CASE log' = Append(log, clock) /\ clock' = clock
  <2>1. /\ Len(log') = Len(log) + 1 /\ \A i \in 1..Len(log) : log'[i] = log[i]
        /\ log'[Len(log) + 1] = clock
    BY <1>2, LogGrows
  <2> SUFFICES ASSUME NEW i \in 1..Len(log')
               PROVE  \E l \in S : InWindow(i, Minute)' <= Times(S)' * l.minute + 1
    BY DEF WindowInv
  <2>2. InWindow(i, Minute)'
          = Cardinality({j \in 1..Len(log') : j >= i /\ log'[j] < log'[i] + Minute})
    BY DEF InWindow
  <2>3. CASE log'[i] + Minute > clock
    <3>1. \E l \in S : Len(log') - i + 1 <= Times(S)' * l.minute + 1
      BY <1>2, <2>3 DEF OpenInv
    <3>2. {j \in 1..Len(log') : j >= i /\ log'[j] < log'[i] + Minute} = i..Len(log')
      <4>1. \A j \in 1..Len(log') : log'[j] <= clock /\ log'[j] \in Nat
        BY <1>0, <2>1
      <4>2. \A j \in 1..Len(log') : log'[j] < log'[i] + Minute
        BY <1>0, <2>3, <4>1
      <4>3. Len(log') \in Nat /\ i \in Nat /\ i >= 1
        BY <1>0, <2>1
      <4> QED BY <4>2, <4>3
    <3>3. Cardinality(i..Len(log')) = Len(log') - i + 1
      BY <1>0, <2>1, FS_Interval
    <3> QED BY <2>2, <3>1, <3>2, <3>3
  <2>4. CASE ~(log'[i] + Minute > clock)
    <3>1. CASE i \in 1..Len(log)
      <4>1. {j \in 1..Len(log') : j >= i /\ log'[j] < log'[i] + Minute}
              = {j \in 1..Len(log) : j >= i /\ log[j] < log[i] + Minute}
        BY <1>0, <2>1, <2>4, <3>1
      <4>2. PICK l \in S : InWindow(i, Minute) <= Times(S) * l.minute + 1
        BY <3>1 DEF WindowInv
      <4>3. Times(S) * l.minute + 1 <= Times(S)' * l.minute + 1
        <5>1. l.minute \in Nat /\ \A m \in S : m.hour \in Nat
          BY Constants
        <5>2. HourUsed(S) => HourUsed(S)'
          BY <1>0, <2>1, <5>1 DEF HourUsed
        <5> QED BY <5>1, <5>2 DEF Times
      <4>4. InWindow(i, Minute)' = InWindow(i, Minute)
        BY <2>2, <4>1 DEF InWindow
      <4>5. InWindow(i, Minute) \in Nat
        BY InWindowType DEF BaseInv, TypeRest
      <4>6. Times(S) * l.minute \in Nat /\ Times(S)' * l.minute \in Nat
        <5>1. l.minute \in Nat
          BY Constants
        <5> QED BY <5>1 DEF Times
      <4> QED BY <4>2, <4>3, <4>4, <4>5, <4>6
    <3>2. CASE i = Len(log) + 1
      <4>1. {j \in 1..Len(log') : j >= i /\ log'[j] < log'[i] + Minute} = {}
        BY <1>0, <2>1, <2>4, <3>2
      <4>2. limits.minute \in Nat
        BY Constants
      <4>3. InWindow(i, Minute)' = 0
        BY <2>2, <4>1, FS_EmptySet
      <4>4. 0 <= Times(S)' * limits.minute + 1
        BY <4>2 DEF Times
      <4> QED BY <4>3, <4>4
    <3> QED BY <1>0, <2>1, <3>1, <3>2
  <2> QED BY <2>3, <2>4
<1> QED BY <1>1, <1>2
        DEF Next, Step, Enter, Lock, HourCheck, HourSlept, MinuteCheck, MinuteSlept,
            IntervalCheck, IntervalSlept, Update,
            SleepOrGo, SetEnabled, SetLimits, Tick, Finished, vars, counters, grants

BurstInv(S) == BaseInv /\ RoomInv /\ SegmentInv(S) /\ WindowInv(S)

\* While the settings are among S, what S allows in a minute is never exceeded.
LEMMA BurstInit ==
  ASSUME NEW S, S \subseteq Limits, Init, limits \in S
  PROVE  BurstInv(S)
<1>1. BaseInv /\ RoomInv
  BY SpacingInit, TypeRestInit, LogInit, RoomInit DEF BaseInv
<1>2. Len(log) = 0 /\ minute_requests = 0 /\ Earlier = 0
  BY DEF Init, Earlier
<1>3. limits.minute \in Nat
  BY Constants
<1> QED BY <1>1, <1>2, <1>3 DEF BurstInv, SegmentInv, WindowInv

LEMMA BurstStep ==
  ASSUME NEW S, S \subseteq Limits, PositiveLimits
  PROVE  /\ limits \in S /\ BurstInv(S) /\ [Next]_vars
               => BaseInv' /\ RoomInv' /\ SegmentInv(S)'
         /\ limits \in S /\ BurstInv(S) /\ OpenInv(S)' /\ [Next]_vars => WindowInv(S)'
<1>1. ASSUME limits \in S, BurstInv(S), [Next]_vars
      PROVE  BaseInv' /\ RoomInv' /\ SegmentInv(S)'
  <2>1. BaseInv'
    BY <1>1, SpacingStep, TypeRestStep, LogStep DEF BurstInv, BaseInv
  <2>2. RoomInv'
    BY <1>1, RoomStep DEF BurstInv, BaseInv, LimitsInv
  <2>3. SegmentInv(S)'
    BY <1>1, SegmentStep DEF BurstInv
  <2> QED BY <2>1, <2>2, <2>3
<1>2. ASSUME limits \in S, BurstInv(S), OpenInv(S)', [Next]_vars
      PROVE  WindowInv(S)'
  BY <1>2, WindowStep DEF BurstInv
<1> QED BY <1>1, <1>2

\* wait_if_needed: in no minute, wherever it begins, are more requests let through
\* than three times the limit and one, however the two counters are reset, and
\* whatever the settings, windows and number of threads.
THEOREM BurstsAreBounded ==
    ASSUME PositiveLimits
    PROVE  Spec => []MinuteBurst
<1>1. Init => BurstInv(Limits) /\ LimitsInv
  BY BurstInit, RoomInit DEF Init
<1>2. BurstInv(Limits) /\ LimitsInv /\ [Next]_vars
        => BaseInv' /\ RoomInv' /\ SegmentInv(Limits)' /\ LimitsInv'
  BY BurstStep, LimitsStep DEF LimitsInv
<1>3. BurstInv(Limits) /\ LimitsInv /\ OpenInv(Limits)' /\ [Next]_vars => WindowInv(Limits)'
  BY BurstStep DEF LimitsInv
<1>4. BaseInv /\ SegmentInv(Limits) => OpenInv(Limits)
  BY OpenWindow
<1>5. BurstInv(Limits) => MinuteBurst
  <2> SUFFICES ASSUME BurstInv(Limits), NEW i \in 1..Len(log)
               PROVE  \E l \in Limits : InWindow(i, Minute) <= 3 * l.minute + 1
    BY DEF MinuteBurst
  <2>1. PICK l \in Limits : InWindow(i, Minute) <= Times(Limits) * l.minute + 1
    BY DEF BurstInv, WindowInv
  <2>2. l.minute \in Nat /\ InWindow(i, Minute) \in Nat
    BY Constants, InWindowType DEF BurstInv, BaseInv, TypeRest
  <2>3. Times(Limits) \in {2, 3}
    BY DEF Times
  <2>4. /\ Times(Limits) * l.minute <= 3 * l.minute
        /\ Times(Limits) * l.minute \in Nat /\ 3 * l.minute \in Nat
    BY <2>2, <2>3
  <2> QED BY <2>1, <2>2, <2>3, <2>4
<1>6. BurstInv(Limits) <=> BaseInv /\ RoomInv /\ SegmentInv(Limits) /\ WindowInv(Limits)
  BY DEF BurstInv
<1> QED BY <1>1, <1>2, <1>3, <1>4, <1>5, <1>6, PTL DEF Spec
=============================================================================
