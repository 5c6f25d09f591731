-------------------------- MODULE RequestPathProofs --------------------------
(***************************************************************************)
(* Theorems about HttpClient and RequestPath, for any number of threads,    *)
(* streams and hosts, and any settings of the limiter: the client is a user *)
(* of the pool, the path is a client and a user of the limiter, so that the *)
(* theorems about the parts hold of the whole.                              *)
(***************************************************************************)
EXTENDS RequestPath, ConnectionPoolProofs

---------------------------------------------------------------------------
(* The client is a well-behaved user of the pool. *)

\* What a request does to the pool is a step of the pool in which the handle
\* is a scope guard, or no step of it.
LEMMA RequestIsScoped == [HttpNext]_allVars => [ScopedNext]_vars
<1> SUFFICES ASSUME [HttpNext]_allVars PROVE [ScopedNext]_vars
  OBVIOUS
<1>1. ASSUME NEW t \in Threads, Request(t) PROVE [ScopedNext]_vars
  BY <1>1 DEF Request, StartRequest, WaitEnds, Connected, NotConnected, ExchangeOk,
              ExchangeFails, EndRequest, ScopedNext, ScopedStep, vars
<1>2. ASSUME NEW c \in Conns, ServerCloses(c) \/ EntryExpires(c)
      PROVE  [ScopedNext]_vars
  BY <1>2 DEF ServerCloses, EntryExpires, ScopedNext, vars
<1>3. CASE AllDone
  BY <1>3 DEF AllDone, Finished
<1>4. CASE UNCHANGED allVars
  BY <1>4 DEF allVars
<1> QED BY <1>1, <1>2, <1>3, <1>4 DEF HttpNext

\* The HTTP client implements the pool's specification: whatever is proved of
\* every client of the pool holds of this one.
THEOREM ClientUsesThePool == HttpSpec => Spec
<1>1. HttpInit => Init
  BY DEF HttpInit
<1>2. [ScopedNext]_vars => [Next]_vars
  BY DEF ScopedNext, ScopedStep, Next, Step
<1> QED BY <1>1, <1>2, RequestIsScoped, PTL DEF HttpSpec, Spec

\* The pool's invariants need no assumption about the client here.
LEMMA PoolInvariant == HttpSpec => [](ExclusiveInv /\ InUseInv)
<1>1. HttpInit => ExclusiveInv /\ InUseInv
  <2>1. <<>> \in Seq(Conns) /\ Range(<<>>) = {} /\ IsInjective(<<>>)
    BY EmptySeq DEF Range, IsInjective
  <2> QED BY <2>1, PoolAssumption
          DEF HttpInit, Init, ExclusiveInv, TypeInv, TypeOK, Labels, QueueInv,
              HandleInv, InUseInv, ConnectionPoolAssumption
<1>2. [ScopedNext]_vars => [ScopedNext \/ \E t \in Threads : Invalidate(t)]_vars
  OBVIOUS
<1> QED BY <1>1, <1>2, RequestIsScoped, ExclusiveStep, InUseStep, PTL DEF HttpSpec

\* No two requests under way ever write to or read from the same stream, for
\* any number of threads: post, get and patch never call return_connection.
THEOREM RequestsShareNoStream == HttpSpec => []Exclusive
<1>1. ExclusiveInv => Exclusive
  BY DEF ExclusiveInv, HandleInv, Exclusive
<1> QED BY <1>1, PoolInvariant, PTL

---------------------------------------------------------------------------
(* Streams and answers. *)

\* The stream of a request has its entry as long as the request has the stream:
\* nobody closes the pool under it, and clean-up spares what is in use.
HeldInv == \A t \in Threads : held[t] # None => held[t] \in all

AnswerInv ==
    /\ broken \subseteq Conns /\ failed \subseteq broken
    /\ result \in [Threads -> {"none", "pending", "response", "error"}]
    /\ \A t \in Threads : pc[t] = "out" => result[t] # "pending"

\* A search hands out an entry that clean-up has kept, or none.
LEMMA SearchHeld ==
  ASSUME ExclusiveInv, HeldInv, NEW t \in Threads, NEW h,
         \/ Take(t, h)
         \/ Miss(t, h, "connecting")
         \/ Miss(t, h, "waiting")
  PROVE  HeldInv'
<1> USE DEF ExclusiveInv, TypeInv, TypeOK
<1>1. \A u \in Threads : held[u] # None => held[u] \in CleanAll
  BY CleanUpInUse DEF HeldInv, HandleInv
<1>2. CASE Take(t, h)
  <2>1. PICK c \in CleanAll : all' = CleanAll /\ held' = [held EXCEPT ![t] = c]
    <3>1. \A i \in 1..Len(CleanIdle) : CleanIdle[i] \in CleanAll
      BY CleanUp
    <3> QED BY <1>2, <3>1 DEF Take
  <2> QED BY <1>1, <2>1 DEF HeldInv
<1>3. CASE Miss(t, h, "connecting") \/ Miss(t, h, "waiting")
  BY <1>1, <1>3 DEF Miss, HeldInv
<1> QED BY <1>2, <1>3

LEMMA HeldStep == ExclusiveInv /\ HeldInv /\ [HttpNext]_allVars => HeldInv'
<1> SUFFICES ASSUME ExclusiveInv, HeldInv, [HttpNext]_allVars PROVE HeldInv'
  OBVIOUS
<1> USE DEF ExclusiveInv, TypeInv, TypeOK
<1>1. ASSUME NEW t \in Threads, StartRequest(t) PROVE HeldInv'
  BY <1>1, SearchHeld DEF StartRequest, GetConnection
<1>2. ASSUME NEW t \in Threads, WaitEnds(t) PROVE HeldInv'
  <2>1. CASE Wake(t)
    BY <2>1, SearchHeld DEF Wake
  <2>2. CASE SpuriousWakeup(t)
    BY <2>2 DEF SpuriousWakeup, HeldInv
  <2> QED BY <1>2, <2>1, <2>2 DEF WaitEnds
<1>3. ASSUME NEW t \in Threads, Connected(t) PROVE HeldInv'
  BY <1>3 DEF Connected, ConnectOk, HeldInv
<1>4. ASSUME NEW t \in Threads, NotConnected(t) PROVE HeldInv'
  BY <1>4 DEF NotConnected, ConnectFail, HeldInv
<1>5. ASSUME NEW t \in Threads, ExchangeOk(t) \/ ExchangeFails(t) PROVE HeldInv'
  BY <1>5 DEF ExchangeOk, ExchangeFails, vars, HeldInv
<1>6. ASSUME NEW t \in Threads, EndRequest(t) PROVE HeldInv'
  BY <1>6 DEF EndRequest, DropHandle, HeldInv
<1>7. ASSUME NEW c \in Conns, ServerCloses(c) \/ EntryExpires(c) PROVE HeldInv'
  BY <1>7 DEF ServerCloses, EntryExpires, Expire, vars, HeldInv
<1>8. CASE AllDone \/ UNCHANGED allVars
  BY <1>8 DEF AllDone, Finished, allVars, vars, HeldInv
<1> QED BY <1>1, <1>2, <1>3, <1>4, <1>5, <1>6, <1>7, <1>8 DEF HttpNext, Request

\* No connection leaks: the entries in use are exactly those of the requests
\* under way, however many requests fail, for any number of threads, any pool
\* size and any hosts, with expiry, failing attempts and servers that close.
THEOREM RequestsLeakNothing == HttpSpec => []NoLeak
<1>1. HttpInit => HeldInv
  BY DEF HttpInit, Init, HeldInv
<1>2. ExclusiveInv /\ InUseInv /\ HeldInv => NoLeak
  <2> SUFFICES ASSUME ExclusiveInv, InUseInv, HeldInv PROVE NoLeak
    OBVIOUS
  <2>1. \A t \in Threads : pc[t] = "holding" => held[t] \in in_use
    BY DEF ExclusiveInv, HandleInv, HeldInv
  <2> QED BY <2>1 DEF InUseInv, NoLeak
<1> QED BY <1>1, <1>2, PoolInvariant, HeldStep, PTL DEF HttpSpec

\* A search leaves the thread anywhere but outside get_connection.
LEMMA SearchStays ==
  ASSUME TypeInv, NEW t \in Threads, NEW h,
         \/ Take(t, h)
         \/ Miss(t, h, "connecting")
         \/ Miss(t, h, "waiting")
  PROVE  \A u \in Threads : pc'[u] = "out" => u # t /\ pc[u] = "out"
<1>1. PICK l \in {"holding", "connecting", "waiting"} : pc' = [pc EXCEPT ![t] = l]
  BY DEF Take, Miss
<1> QED BY <1>1 DEF TypeInv, TypeOK

LEMMA AnswerStep == ExclusiveInv /\ AnswerInv /\ [HttpNext]_allVars => AnswerInv'
<1> SUFFICES ASSUME ExclusiveInv, AnswerInv, [HttpNext]_allVars PROVE AnswerInv'
  OBVIOUS
<1> USE DEF ExclusiveInv, TypeInv, TypeOK, AnswerInv
<1>0. None \notin Conns
  BY PoolAssumption DEF ConnectionPoolAssumption
<1>1. ASSUME NEW t \in Threads, StartRequest(t) PROVE AnswerInv'
  <2>1. \A u \in Threads : pc'[u] = "out" => u # t /\ pc[u] = "out"
    BY <1>1, SearchStays DEF StartRequest, GetConnection
  <2> QED BY <1>1, <2>1 DEF StartRequest
<1>2. ASSUME NEW t \in Threads, WaitEnds(t) PROVE AnswerInv'
  <2>1. CASE Wake(t)
    <3>1. \A u \in Threads : pc'[u] = "out" => u # t /\ pc[u] = "out"
      BY <2>1, SearchStays DEF Wake
    <3> QED BY <1>2, <3>1 DEF WaitEnds, httpVars
  <2>2. CASE SpuriousWakeup(t)
    BY <1>2, <2>2 DEF WaitEnds, SpuriousWakeup, httpVars
  <2> QED BY <1>2, <2>1, <2>2 DEF WaitEnds
<1>3. ASSUME NEW t \in Threads, Connected(t) PROVE AnswerInv'
  BY <1>3 DEF Connected, ConnectOk
<1>4. ASSUME NEW t \in Threads, NotConnected(t) PROVE AnswerInv'
  BY <1>4 DEF NotConnected, ConnectFail
<1>5. ASSUME NEW t \in Threads, ExchangeOk(t) PROVE AnswerInv'
  BY <1>5 DEF ExchangeOk, vars
<1>6. ASSUME NEW t \in Threads, ExchangeFails(t) PROVE AnswerInv'
  <2>1. held[t] \in Conns
    BY <1>6 DEF ExchangeFails, Exchanging, HandleInv
  <2> QED BY <1>6, <2>1 DEF ExchangeFails, vars
<1>7. ASSUME NEW t \in Threads, EndRequest(t) PROVE AnswerInv'
  <2>1. Return(t, "out") /\ result[t] # "pending" /\ UNCHANGED httpVars
    BY <1>7 DEF EndRequest, DropHandle
  <2>2. \A u \in Threads : pc'[u] = "out" => u = t \/ pc[u] = "out"
    BY <2>1, ReturnMoves
  <2> QED BY <2>1, <2>2 DEF httpVars
<1>8. ASSUME NEW c \in Conns, ServerCloses(c) \/ EntryExpires(c) PROVE AnswerInv'
  BY <1>8 DEF ServerCloses, EntryExpires, Expire, vars, httpVars
<1>9. CASE AllDone \/ UNCHANGED allVars
  BY <1>9 DEF AllDone, Finished, allVars, vars, httpVars
<1> QED BY <1>1, <1>2, <1>3, <1>4, <1>5, <1>6, <1>7, <1>8, <1>9 DEF HttpNext, Request

\* Type correctness of the client, and no request ends without an answer.
THEOREM EveryRequestIsAnswered == HttpSpec => []HttpTypeOK
<1>1. HttpInit => AnswerInv
  BY DEF HttpInit, Init, AnswerInv
<1>2. ExclusiveInv /\ AnswerInv => HttpTypeOK
  BY DEF ExclusiveInv, TypeInv, AnswerInv, HttpTypeOK
<1> QED BY <1>1, <1>2, PoolInvariant, AnswerStep, PTL DEF HttpSpec
---------------------------------------------------------------------------
(* The path of a request: its parts. *)

\* The theorems about the limiter, for the limiter of the path.
LP == INSTANCE RateLimiterProofs
    WITH pc <- limiter_pc, MaxRequests <- 2 * MaxCalls

LEMMA LimiterConstants == LP!RateLimiterAssumption
BY PoolAssumption, RequestPathAssumption
   DEF LP!RateLimiterAssumption, ConnectionPoolAssumption

LEMMA LimiterStarts == Limiter!Init => LP!Init
BY DEF Limiter!Init, LP!Init

LEMMA LimiterSteps ==
  ASSUME NEW t \in Threads
  PROVE  /\ Limiter!Enter(t) => LP!Enter(t)
         /\ Limiter!Step(t) => LP!Step(t)
         /\ Limiter!Tick => LP!Tick
<1> USE DEF Limiter!config, LP!config, Limiter!counters, LP!counters, Limiter!grants,
            LP!grants, Limiter!locals, LP!locals, Limiter!Goto, LP!Goto,
            Limiter!SleepOrGo, LP!SleepOrGo
<1>1. Limiter!Enter(t) => LP!Enter(t)
  BY DEF Limiter!Enter, LP!Enter
<1>2. Limiter!Lock(t) => LP!Lock(t)
  BY DEF Limiter!Lock, LP!Lock
<1>3. Limiter!HourCheck(t) => LP!HourCheck(t)
  BY DEF Limiter!HourCheck, LP!HourCheck
<1>4. Limiter!HourSlept(t) => LP!HourSlept(t)
  BY DEF Limiter!HourSlept, LP!HourSlept
<1>5. Limiter!MinuteCheck(t) => LP!MinuteCheck(t)
  BY DEF Limiter!MinuteCheck, LP!MinuteCheck
<1>6. Limiter!MinuteSlept(t) => LP!MinuteSlept(t)
  BY DEF Limiter!MinuteSlept, LP!MinuteSlept
<1>7. Limiter!IntervalCheck(t) => LP!IntervalCheck(t)
  BY DEF Limiter!IntervalCheck, LP!IntervalCheck
<1>8. Limiter!IntervalSlept(t) => LP!IntervalSlept(t)
  BY DEF Limiter!IntervalSlept, LP!IntervalSlept
<1>9. Limiter!Update(t) => LP!Update(t)
  BY DEF Limiter!Update, LP!Update
<1>10. Limiter!Tick => LP!Tick
  BY DEF Limiter!Tick, LP!Tick, Limiter!Sleeping, LP!Sleeping
<1> QED BY <1>1, <1>2, <1>3, <1>4, <1>5, <1>6, <1>7, <1>8, <1>9, <1>10
        DEF Limiter!Step, LP!Step

\* A step of the path is a step of the client, or of the limiter, or of neither.
LEMMA PathIsClient == [PathNext]_pathVars => [HttpNext]_allVars
<1> SUFFICES ASSUME [PathNext]_pathVars PROVE [HttpNext]_allVars
  OBVIOUS
<1>1. ASSUME NEW t \in Threads, Permitted(t) PROVE HttpNext
  BY <1>1 DEF Permitted, HttpNext, Request
<1>2. ASSUME NEW t \in Threads, InRequest(t) PROVE HttpNext
  BY <1>2 DEF InRequest, HttpNext, Request
<1>3. CASE UNCHANGED allVars
  BY <1>3
<1> QED BY <1>1, <1>2, <1>3
        DEF PathNext, ApplyRateLimiting, WaitIfNeeded, PauseAfterPage, TimePasses,
            NobodyBusy, pathVars

LEMMA PathIsLimited ==
  [PathNext]_pathVars => [LP!Next]_(LP!vars) /\ UNCHANGED <<limits, enabled>>
<1> SUFFICES ASSUME [PathNext]_pathVars
             PROVE  [LP!Next]_(LP!vars) /\ UNCHANGED <<limits, enabled>>
  OBVIOUS
<1>1. ASSUME NEW t \in Threads, LP!Step(t) PROVE UNCHANGED <<limits, enabled>>
  BY <1>1 DEF LP!Step, LP!Enter, LP!Lock, LP!HourCheck, LP!HourSlept, LP!MinuteCheck,
              LP!MinuteSlept, LP!IntervalCheck, LP!IntervalSlept, LP!Update,
              LP!SleepOrGo, LP!config
<1>2. ASSUME NEW t \in Threads, LP!Enter(t) \/ LP!Step(t)
      PROVE  LP!Next /\ UNCHANGED <<limits, enabled>>
  BY <1>1, <1>2 DEF LP!Next, LP!Step
<1>3. CASE TimePasses
  <2>1. LP!Tick
    BY <1>3, LimiterSteps DEF TimePasses
  <2> QED BY <2>1 DEF LP!Next, LP!Tick, LP!config
<1>4. CASE UNCHANGED limiterVars
  BY <1>4 DEF limiterVars, LP!vars, LP!config, LP!counters, LP!grants, LP!locals
<1> QED BY <1>2, <1>3, <1>4, LimiterSteps
        DEF PathNext, ApplyRateLimiting, WaitIfNeeded, Permitted, InRequest,
            PauseAfterPage, NobodyBusy, pathVars

\* Http_client::get, post, patch: with the limiter in front of them, slow
\* connections and page readers included, requests use the pool as they do
\* without; what is proved of HttpClient and of ConnectionPool holds of the path.
THEOREM PathUsesTheClient == PathSpec => HttpSpec
<1>1. PathInit => HttpInit
  BY DEF PathInit
<1> QED BY <1>1, PathIsClient, PTL DEF PathSpec, HttpSpec

---------------------------------------------------------------------------
(* What the server sees. *)

PathStages == {"idle", "permit", "request", "pause", "done"}

\* A thread is in its request while get_connection runs or it has a connection;
\* and the limiter is on.
StageInv ==
    /\ enabled = TRUE /\ limits \in Limits
    /\ stage \in [Threads -> PathStages]
    /\ \A t \in Threads : stage[t] = "request" <=> pc[t] # "out"

\* The pool moves other threads at most from one wait to the other.
OthersStay(t) ==
    \A u \in Threads \ {t} :
        /\ pc'[u] = "out" <=> pc[u] = "out"
        /\ pc'[u] = "holding" <=> pc[u] = "holding"

\* A search leaves the thread with a connection or waiting for one.
LEMMA SearchMoves ==
  ASSUME TypeInv, NEW t \in Threads, NEW h,
         \/ Take(t, h)
         \/ Miss(t, h, "connecting")
         \/ Miss(t, h, "waiting")
  PROVE  /\ pc'[t] \in {"holding", "connecting", "waiting"}
         /\ OthersStay(t)
<1>1. PICK l \in {"holding", "connecting", "waiting"} : pc' = [pc EXCEPT ![t] = l]
  BY DEF Take, Miss
<1> QED BY <1>1 DEF TypeInv, TypeOK, OthersStay

LEMMA StartMoves ==
  ASSUME TypeInv, StageInv, NEW t \in Threads, Permitted(t)
  PROVE  /\ pc[t] = "out" /\ pc'[t] \in {"holding", "connecting", "waiting"}
         /\ OthersStay(t)
         /\ stage[t] = "permit" /\ limiter_pc[t] = "out"
         /\ stage' = [stage EXCEPT ![t] = "request"]
         /\ calls' = [calls EXCEPT ![t] = @ + 1]
         /\ wire' = IF pc'[t] = "holding" THEN Append(wire, clock) ELSE wire
         /\ UNCHANGED <<limiterVars, reader>>
<1>1. PICK h \in Hosts : GetConnection(t, h)
  BY DEF Permitted, StartRequest
<1>2. pc'[t] \in {"holding", "connecting", "waiting"} /\ OthersStay(t)
  BY <1>1, SearchMoves DEF GetConnection
<1> QED BY <1>1, <1>2 DEF Permitted, GetConnection, Written

\* Where a request goes from get_connection to its end.
LEMMA RequestMoves ==
  ASSUME ExclusiveInv, StageInv, NEW t \in Threads, InRequest(t)
  PROVE  /\ stage[t] = "request" /\ OthersStay(t)
         /\ UNCHANGED <<limiterVars, reader, calls>>
         /\ wire' = IF pc[t] # "holding" /\ pc'[t] = "holding"
                    THEN Append(wire, clock) ELSE wire
         /\ pc[t] = "holding" => pc'[t] \in {"holding", "out"}
         /\ \/ pc'[t] # "out" /\ stage' = stage
            \/ /\ pc'[t] = "out"
               /\ \E s \in IF reader THEN {"pause", "done"} ELSE {"idle"} :
                     stage' = [stage EXCEPT ![t] = s]
<1> USE DEF ExclusiveInv, TypeInv, TypeOK, Labels
<1>1. /\ stage[t] = "request" /\ UNCHANGED <<limiterVars, reader>>
      /\ wire' = IF pc[t] # "holding" /\ pc'[t] = "holding" THEN Append(wire, clock) ELSE wire
      /\ stage' = IF pc'[t] = "out" THEN [stage EXCEPT ![t] = AfterRequest(t)] ELSE stage
      /\ AfterRequest(t) \in IF reader THEN {"pause", "done"} ELSE {"idle"}
  BY DEF InRequest, Written, AfterRequest
<1>2. /\ OthersStay(t) /\ calls' = calls
      /\ pc[t] = "holding" => pc'[t] \in {"holding", "out"}
  <2>1. CASE WaitEnds(t)
    <3>1. CASE Wake(t)
      BY <3>1, SearchMoves DEF Wake
    <3>2. CASE SpuriousWakeup(t)
      BY <3>2 DEF SpuriousWakeup, OthersStay
    <3> QED BY <2>1, <3>1, <3>2 DEF WaitEnds
  <2>2. CASE Connected(t)
    BY <2>2 DEF Connected, ConnectOk, OthersStay
  <2>3. CASE NotConnected(t)
    BY <2>3 DEF NotConnected, ConnectFail, OthersStay
  <2>4. CASE ExchangeOk(t) \/ ExchangeFails(t)
    BY <2>4 DEF ExchangeOk, ExchangeFails, vars, OthersStay
  <2>5. CASE EndRequest(t)
    <3>1. Return(t, "out") /\ calls' = calls
      BY <2>5 DEF EndRequest, DropHandle
    <3> QED BY <3>1, ReturnMoves DEF OthersStay
  <2> QED BY <2>1, <2>2, <2>3, <2>4, <2>5 DEF InRequest
<1> QED BY <1>1, <1>2

LEMMA StageInit == PathInit => StageInv
BY DEF PathInit, HttpInit, Init, Limiter!Init, StageInv, PathStages

LEMMA StageStep == ExclusiveInv /\ StageInv /\ [PathNext]_pathVars => StageInv'
<1> SUFFICES ASSUME ExclusiveInv, StageInv, [PathNext]_pathVars PROVE StageInv'
  OBVIOUS
<1>0. enabled' = TRUE /\ limits' \in Limits
  BY PathIsLimited DEF StageInv
<1>1. ASSUME NEW t \in Threads, Permitted(t) PROVE StageInv'
  BY <1>0, <1>1, StartMoves DEF ExclusiveInv, StageInv, PathStages, OthersStay
<1>2. ASSUME NEW t \in Threads, InRequest(t) PROVE StageInv'
  <2>1. CASE stage' = stage /\ pc'[t] # "out"
    BY <1>0, <1>2, <2>1, RequestMoves DEF StageInv, OthersStay
  <2>2. CASE /\ pc'[t] = "out"
             /\ \E s \in {"pause", "done", "idle"} : stage' = [stage EXCEPT ![t] = s]
    BY <1>0, <1>2, <2>2, RequestMoves DEF StageInv, OthersStay, PathStages
  <2> QED BY <1>2, <2>1, <2>2, RequestMoves
<1>3. ASSUME NEW t \in Threads, ApplyRateLimiting(t) \/ WaitIfNeeded(t) \/ PauseAfterPage(t)
      PROVE  StageInv'
  BY <1>0, <1>3 DEF ApplyRateLimiting, MayRequest, WaitIfNeeded, PauseAfterPage, allVars, vars,
                    StageInv, PathStages
<1>4. CASE TimePasses \/ UNCHANGED pathVars
  BY <1>0, <1>4 DEF TimePasses, pathVars, allVars, vars, StageInv
<1> QED BY <1>1, <1>2, <1>3, <1>4 DEF PathNext, NobodyBusy

\* The limiter of the path under the settings the process runs with.
LimiterInv ==
    /\ LP!BaseInv /\ LP!RoomInv
    /\ \A S \in SUBSET Limits : limits \in S => LP!SegmentInv(S)

LEMMA LimiterInit ==
  ASSUME \A l \in Limits : l.minute > 0 /\ l.hour > 0
  PROVE  PathInit => LimiterInv
<1> SUFFICES ASSUME PathInit PROVE LimiterInv
  OBVIOUS
<1>1. LP!Init
  BY LimiterStarts DEF PathInit
<1>2. \A S \in SUBSET Limits : limits \in S => LP!BurstInv(S)
  BY <1>1, LimiterConstants, LP!BurstInit
<1>3. limits \in Limits
  BY <1>1 DEF LP!Init
<1> QED BY <1>2, <1>3 DEF LimiterInv, LP!BurstInv

LEMMA LimiterStep ==
  ASSUME \A l \in Limits : l.minute > 0 /\ l.hour > 0
  PROVE  LimiterInv /\ StageInv /\ [PathNext]_pathVars => LimiterInv'
<1> SUFFICES ASSUME LimiterInv, StageInv, [PathNext]_pathVars PROVE LimiterInv'
  OBVIOUS
<1>0. /\ LP!PositiveLimits /\ [LP!Next]_(LP!vars) /\ limits' = limits /\ limits \in Limits
      /\ LP!LimitsInv /\ LP!RateLimiterAssumption
  BY PathIsLimited, LimiterConstants DEF LP!PositiveLimits, StageInv, LP!LimitsInv
<1>1. LP!BaseInv'
  BY <1>0, LP!SpacingStep, LP!TypeRestStep, LP!LogStep DEF LimiterInv, LP!BaseInv
<1>2. LP!RoomInv'
  BY <1>0, LP!RoomStep DEF LimiterInv, LP!BaseInv
<1>3. ASSUME NEW S \in SUBSET Limits, limits' \in S PROVE LP!SegmentInv(S)'
  BY <1>0, <1>3, LP!SegmentStep DEF LimiterInv
<1> QED BY <1>1, <1>2, <1>3 DEF LimiterInv

\* Permitted requests that are not on the wire.
Pending ==
    {t \in Threads : \/ stage[t] = "permit" /\ limiter_pc[t] = "out"
                     \/ stage[t] = "request" /\ pc[t] # "holding"}

\* A step lets a request through, writes one that was let through before, or
\* does neither; no other thread's request becomes pending.
Grants(t) == /\ log' = Append(log, clock)
             /\ clock' = clock /\ wire' = wire
             /\ Pending' \subseteq Pending \cup {t}

Writes(t) == /\ t \in Pending /\ Pending' \subseteq Pending \ {t}
             /\ wire' = Append(wire, clock)
             /\ clock' = clock /\ log' = log

Neither == /\ Pending' \subseteq Pending /\ clock' \in {clock, clock + 1}
           /\ UNCHANGED <<log, wire>>

LEMMA PathMoves ==
  ASSUME ExclusiveInv, StageInv, LimiterInv, [PathNext]_pathVars
  PROVE  \/ Neither
         \/ \E t \in Threads : Grants(t) \/ Writes(t)
<1> USE DEF StageInv, ExclusiveInv, TypeInv, TypeOK, PathStages
<1>0. /\ limiter_pc \in [Threads -> {"out", "lock"} \cup LP!Inside]
      /\ "out" \notin LP!Inside /\ "lock" \notin LP!Inside
  BY DEF LimiterInv, LP!BaseInv, LP!SpacingInv, LP!Types, LP!Inside, LP!Sleeping
<1>1. ASSUME NEW t \in Threads, ApplyRateLimiting(t) \/ PauseAfterPage(t) PROVE Neither
  <2>1. LP!Enter(t) /\ UNCHANGED <<allVars, wire>>
    BY <1>1, LimiterSteps DEF ApplyRateLimiting, PauseAfterPage
  <2>2. /\ UNCHANGED <<clock, log, wire, pc>>
        /\ limiter_pc' = [limiter_pc EXCEPT ![t] = "lock"]
    BY <2>1 DEF LP!Enter, LP!Goto, LP!grants, allVars, vars
  <2>3. /\ stage[t] \in {"idle", "pause"}
        /\ \E s \in {"permit", "idle"} : stage' = [stage EXCEPT ![t] = s]
    BY <1>1 DEF ApplyRateLimiting, MayRequest, PauseAfterPage
  <2> QED BY <1>0, <2>2, <2>3 DEF Neither, Pending
<1>2. ASSUME NEW t \in Threads, WaitIfNeeded(t) PROVE Neither \/ Grants(t)
  <2>1. LP!Step(t) /\ limiter_pc[t] # "out" /\ UNCHANGED <<pc, stage, wire>>
    BY <1>2, LimiterSteps DEF WaitIfNeeded, allVars, vars
  <2>2. CASE LP!Update(t)
    <3>1. /\ log' = Append(log, clock) /\ clock' = clock
          /\ limiter_pc' = [limiter_pc EXCEPT ![t] = "out"]
      BY <2>2 DEF LP!Update, LP!Goto
    <3> QED BY <1>0, <2>1, <3>1 DEF Grants, Pending
  <2>3. CASE ~LP!Update(t)
    <3>1. /\ log' = log /\ clock' = clock
          /\ \E l \in {"lock"} \cup LP!Inside : limiter_pc' = [limiter_pc EXCEPT ![t] = l]
      BY <2>1, <2>3
         DEF LP!Step, LP!Enter, LP!Lock, LP!HourCheck, LP!HourSlept, LP!MinuteCheck,
             LP!MinuteSlept, LP!IntervalCheck, LP!IntervalSlept, LP!SleepOrGo, LP!Goto,
             LP!grants, LP!Inside, LP!Sleeping
    <3> QED BY <1>0, <2>1, <3>1 DEF Neither, Pending
  <2> QED BY <2>2, <2>3
<1>3. ASSUME NEW t \in Threads, Permitted(t) PROVE Neither \/ Writes(t)
  <2>1. /\ UNCHANGED <<limiter_pc, clock, log>> /\ stage[t] = "permit" /\ limiter_pc[t] = "out"
        /\ stage' = [stage EXCEPT ![t] = "request"] /\ OthersStay(t)
        /\ wire' = IF pc'[t] = "holding" THEN Append(wire, clock) ELSE wire
    BY <1>3, StartMoves DEF limiterVars
  <2> QED BY <2>1 DEF Neither, Writes, Pending, OthersStay
<1>4. ASSUME NEW t \in Threads, InRequest(t) PROVE Neither \/ Writes(t)
  <2>1. /\ UNCHANGED <<limiter_pc, clock, log>> /\ stage[t] = "request" /\ OthersStay(t)
        /\ wire' = IF pc[t] # "holding" /\ pc'[t] = "holding"
                   THEN Append(wire, clock) ELSE wire
        /\ pc[t] = "holding" => pc'[t] \in {"holding", "out"}
        /\ \/ pc'[t] # "out" /\ stage' = stage
           \/ /\ pc'[t] = "out"
              /\ \E s \in {"pause", "done", "idle"} : stage' = [stage EXCEPT ![t] = s]
    BY <1>4, RequestMoves DEF limiterVars
  <2> QED BY <2>1 DEF Neither, Writes, Pending, OthersStay
<1>5. CASE TimePasses
  <2>1. LP!Tick /\ UNCHANGED <<pc, stage, wire>>
    BY <1>5, LimiterSteps DEF TimePasses, allVars, vars
  <2> QED BY <2>1 DEF LP!Tick, LP!grants, Neither, Pending
<1>6. CASE UNCHANGED pathVars
  BY <1>6 DEF pathVars, limiterVars, allVars, vars, Neither, Pending
<1> QED BY <1>1, <1>2, <1>3, <1>4, <1>5, <1>6 DEF PathNext, NobodyBusy

\* What was written since the i-th write, and what is still to be written, was
\* permitted after that write, but for one request of each thread.
WireInv ==
    /\ wire \in Seq(Nat)
    /\ \A i \in 1..Len(wire) :
          /\ wire[i] <= clock
          /\ \E k \in 0..Len(log) :
                /\ \A g \in (k + 1)..Len(log) : log[g] >= wire[i]
                /\ Len(wire) - i + 1 + Cardinality(Pending)
                      <= Len(log) - k + Cardinality(Threads)

LEMMA WireStep ==
  ASSUME IsFiniteSet(Threads)
  PROVE  ExclusiveInv /\ StageInv /\ LimiterInv /\ WireInv /\ [PathNext]_pathVars => WireInv'
<1> SUFFICES ASSUME ExclusiveInv, StageInv, LimiterInv, WireInv, [PathNext]_pathVars
             PROVE  WireInv'
  OBVIOUS
<1> DEFINE P == Cardinality(Pending)
           Q == Cardinality(Pending')
           T == Cardinality(Threads)
           n == Len(wire)
           m == Len(log)
<1>0. /\ clock \in Nat /\ log \in Seq(Nat) /\ wire \in Seq(Nat) /\ m \in Nat /\ n \in Nat
      /\ IsFiniteSet(Pending) /\ IsFiniteSet(Pending') /\ P \in Nat /\ Q \in Nat /\ T \in Nat
  <2>1. Pending \subseteq Threads /\ Pending' \subseteq Threads
    BY DEF Pending
  <2>2. clock \in Nat /\ log \in Seq(Nat)
    BY DEF LimiterInv, LP!BaseInv, LP!SpacingInv, LP!TypeRest, LP!Types
  <2> QED BY <2>1, <2>2, FS_Subset, FS_CardinalityType, LenProperties DEF WireInv
<1>1. CASE Neither
  <2>1. Q <= P
    BY <1>0, <1>1, FS_Subset DEF Neither
  <2>2. log' = log /\ wire' = wire /\ clock' >= clock /\ clock' \in Nat
    BY <1>0, <1>1 DEF Neither
  <2> HIDE DEF P, Q, T, n, m
  <2>3. ASSUME NEW i \in 1..n
        PROVE  /\ wire[i] <= clock'
               /\ \E k \in 0..m : /\ \A g \in (k + 1)..m : log[g] >= wire[i]
                                  /\ n - i + 1 + Q <= m - k + T
    <3>1. wire[i] \in Nat /\ wire[i] <= clock
      BY <1>0, <2>3 DEF WireInv, n
    <3>2. PICK k \in 0..m : /\ \A g \in (k + 1)..m : log[g] >= wire[i]
                            /\ n - i + 1 + P <= m - k + T
      BY <2>3 DEF WireInv, n, m, P, T
    <3>3. n - i + 1 + Q <= m - k + T
      BY <1>0, <2>1, <3>2
    <3>4. wire[i] <= clock'
      BY <1>0, <2>2, <3>1
    <3> QED BY <3>2, <3>3, <3>4
  <2> QED BY <1>0, <2>2, <2>3 DEF WireInv, n, m, Q, T
<1>2. ASSUME NEW t \in Threads, Grants(t) PROVE WireInv'
  <2>1. Q <= P + 1
    <3>1. /\ IsFiniteSet(Pending \cup {t})
          /\ Cardinality(Pending \cup {t}) = IF t \in Pending THEN P ELSE P + 1
      BY <1>0, FS_AddElement
    <3>2. Q <= Cardinality(Pending \cup {t})
      BY <1>2, <3>1, FS_Subset DEF Grants
    <3> QED BY <1>0, <3>1, <3>2
  <2>2. wire' = wire /\ clock' = clock
    BY <1>2 DEF Grants
  <2>3. /\ Len(log') = m + 1 /\ \A g \in 1..m : log'[g] = log[g]
        /\ log'[m + 1] = clock
    BY <1>0, <1>2, AppendProperties DEF Grants
  <2> HIDE DEF P, Q, T, n, m
  <2>4. ASSUME NEW i \in 1..n
        PROVE  \E k \in 0..(m + 1) : /\ \A g \in (k + 1)..(m + 1) : log'[g] >= wire[i]
                                     /\ n - i + 1 + Q <= (m + 1) - k + T
    <3>1. wire[i] \in Nat /\ wire[i] <= clock
      BY <1>0, <2>4 DEF WireInv, n
    <3>2. PICK k \in 0..m : /\ \A g \in (k + 1)..m : log[g] >= wire[i]
                            /\ n - i + 1 + P <= m - k + T
      BY <2>4 DEF WireInv, n, m, P, T
    <3>3. n - i + 1 + Q <= (m + 1) - k + T
      BY <1>0, <2>1, <3>2
    <3>4. \A g \in (k + 1)..(m + 1) : log'[g] >= wire[i]
      BY <1>0, <2>3, <3>1, <3>2
    <3>5. k \in 0..(m + 1)
      BY <1>0, <3>2
    <3> QED BY <3>3, <3>4, <3>5
  <2> QED BY <1>0, <2>2, <2>3, <2>4 DEF WireInv, n, m, Q, T
<1>3. ASSUME NEW t \in Threads, Writes(t) PROVE WireInv'
  <2>1. Q <= P - 1 /\ Q <= T - 1
    <3>1. Q <= Cardinality(Pending \ {t}) /\ Cardinality(Pending \ {t}) = P - 1
      BY <1>0, <1>3, FS_RemoveElement, FS_Subset DEF Writes
    <3>2. Pending \subseteq Threads
      BY DEF Pending
    <3>3. P <= T
      BY <1>0, <3>2, FS_Subset
    <3> QED BY <1>0, <3>1, <3>3
  <2>2. log' = log /\ clock' = clock
    BY <1>3 DEF Writes
  <2>3. /\ Len(wire') = n + 1 /\ \A i \in 1..n : wire'[i] = wire[i]
        /\ wire'[n + 1] = clock /\ wire' \in Seq(Nat)
    BY <1>0, <1>3, AppendProperties DEF Writes
  <2> HIDE DEF P, Q, T, n, m
  <2>4. ASSUME NEW i \in 1..(n + 1)
        PROVE  /\ wire'[i] <= clock
               /\ \E k \in 0..m : /\ \A g \in (k + 1)..m : log[g] >= wire'[i]
                                  /\ (n + 1) - i + 1 + Q <= m - k + T
    <3>1. CASE i \in 1..n
      <4>1. PICK k \in 0..m : /\ \A g \in (k + 1)..m : log[g] >= wire[i]
                              /\ n - i + 1 + P <= m - k + T
        BY <3>1 DEF WireInv, n, m, P, T
      <4>2. (n + 1) - i + 1 + Q <= m - k + T
        BY <1>0, <2>1, <3>1, <4>1
      <4>3. wire'[i] = wire[i] /\ wire[i] <= clock
        BY <2>3, <3>1 DEF WireInv, n
      <4> QED BY <4>1, <4>2, <4>3
    <3>2. CASE i = n + 1
      <4>1. (n + 1) - i + 1 + Q <= m - m + T
        BY <1>0, <2>1, <3>2
      <4>2. m \in 0..m /\ \A g \in (m + 1)..m : log[g] >= wire'[i]
        BY <1>0
      <4>3. wire'[i] <= clock
        BY <1>0, <2>3, <3>2
      <4> QED BY <4>1, <4>2, <4>3
    <3> QED BY <1>0, <2>4, <3>1, <3>2
  <2> QED BY <1>0, <2>2, <2>3, <2>4 DEF WireInv, n, m, Q, T
<1> QED BY <1>1, <1>2, <1>3, PathMoves

\* The bound on a minute, and what is written in one that has not ended yet.
Bound ==
    (IF Len(log) >= limits.hour THEN 3 ELSE 2) * limits.minute + 1 + Cardinality(Threads)

OpenOnWire ==
    \A i \in 1..Len(wire) : wire[i] + Minute > clock => Len(wire) - i + 1 <= Bound

LEMMA OpenOnTheWire ==
  ASSUME IsFiniteSet(Threads)
  PROVE  StageInv /\ LimiterInv /\ WireInv => OpenOnWire
<1> SUFFICES ASSUME StageInv, LimiterInv, WireInv,
                    NEW i \in 1..Len(wire), wire[i] + Minute > clock
             PROVE  Len(wire) - i + 1 <= Bound
  BY DEF OpenOnWire
<1>0. /\ clock \in Nat /\ log \in Seq(Nat) /\ wire \in Seq(Nat)
      /\ Len(log) \in Nat /\ Len(wire) \in Nat /\ Minute \in Nat
      /\ wire[i] \in Nat /\ \A g \in 1..Len(log) : log[g] \in Nat
      /\ limits \in Limits /\ limits.minute \in Nat
      /\ Cardinality(Threads) \in Nat /\ Cardinality(Pending) \in Nat
  <2>1. Pending \subseteq Threads
    BY DEF Pending
  <2>2. clock \in Nat /\ log \in Seq(Nat)
    BY DEF LimiterInv, LP!BaseInv, LP!SpacingInv, LP!TypeRest, LP!Types
  <2> QED BY ZenonT(60), <2>1, <2>2, FS_Subset, FS_CardinalityType, LenProperties,
             RequestPathAssumption
          DEF WireInv, StageInv
<1>1. PICK S : S = {limits}
  OBVIOUS
<1>2. LP!OpenInv(S)
  <2>1. S \subseteq Limits /\ limits \in S
    BY <1>0, <1>1
  <2> QED BY <2>1, LP!OpenWindow, LimiterConstants DEF LimiterInv
<1>3. PICK k \in 0..Len(log) :
        /\ \A g \in (k + 1)..Len(log) : log[g] >= wire[i]
        /\ Len(wire) - i + 1 + Cardinality(Pending) <= Len(log) - k + Cardinality(Threads)
  BY DEF WireInv
<1> DEFINE times == IF Len(log) >= limits.hour THEN 3 ELSE 2
<1>4. LP!Times(S) = times
  BY <1>1 DEF LP!Times, LP!HourUsed
<1>5. times * limits.minute \in Nat
  BY SMTT(30), <1>0
<1>6. Len(log) - k <= times * limits.minute + 1
  <2>1. CASE k = Len(log)
    BY <1>0, <1>5, <2>1
  <2>2. CASE k < Len(log)
    <3>1. k + 1 \in 1..Len(log) /\ k + 1 \in (k + 1)..Len(log)
      BY <1>0, <2>2
    <3>2. log[k + 1] + Minute > clock
      <4> DEFINE g == log[k + 1]
                 w == wire[i]
      <4>1. g >= w /\ g \in Nat
        BY <1>0, <1>3, <3>1
      <4>2. w \in Nat /\ Minute \in Nat /\ clock \in Nat /\ w + Minute > clock
        BY <1>0
      <4> HIDE DEF g, w
      <4>3. g + Minute > clock
        BY <4>1, <4>2
      <4> QED BY <4>3 DEF g
    <3>3. Len(log) - (k + 1) + 1 <= LP!Times(S) * limits.minute + 1
      BY <1>1, <1>2, <3>1, <3>2 DEF LP!OpenInv
    <3> HIDE DEF times
    <3> QED BY <1>0, <1>4, <1>5, <3>3
  <2> QED BY <1>0, <2>1, <2>2
<1>7. Bound = times * limits.minute + 1 + Cardinality(Threads)
  BY DEF Bound
<1> DEFINE b == times * limits.minute
<1> HIDE DEF times, b
<1>8. /\ Len(log) - k <= b + 1 /\ Bound = b + 1 + Cardinality(Threads) /\ b \in Nat
      /\ Len(wire) - i + 1 + Cardinality(Pending) <= Len(log) - k + Cardinality(Threads)
  BY <1>3, <1>5, <1>6, <1>7 DEF b
<1>9. i \in Nat /\ k \in Nat
  BY <1>0
<1> QED BY <1>0, <1>8, <1>9

LEMMA WireWindowType ==
  ASSUME Len(wire) \in Nat, NEW i \in 1..Len(wire)
  PROVE  WireWindow(i) \in Nat
<1>1. {j \in i..Len(wire) : wire[j] < wire[i] + Minute} \subseteq i..Len(wire)
  OBVIOUS
<1>2. IsFiniteSet(i..Len(wire))
  BY FS_Interval
<1> QED BY <1>1, <1>2, FS_Subset, FS_CardinalityType DEF WireWindow

LEMMA WireBurstStep ==
  ASSUME StageInv, LimiterInv, WireInv, WireBurst, OpenOnWire', [PathNext]_pathVars,
         IsFiniteSet(Threads), ExclusiveInv
  PROVE  WireBurst'
<1>0. /\ clock \in Nat /\ wire \in Seq(Nat) /\ Len(wire) \in Nat /\ Minute \in Nat
      /\ log \in Seq(Nat) /\ Len(log) \in Nat
      /\ \A i \in 1..Len(wire) : wire[i] \in Nat /\ wire[i] <= clock
      /\ limits.minute \in Nat /\ limits.hour \in Nat /\ Cardinality(Threads) \in Nat
  <2>1. clock \in Nat /\ log \in Seq(Nat)
    BY DEF LimiterInv, LP!BaseInv, LP!SpacingInv, LP!TypeRest, LP!Types
  <2> QED BY <2>1, LenProperties, FS_CardinalityType, RequestPathAssumption
          DEF WireInv, StageInv
<1>1. WireBurst <=> \A i \in 1..Len(wire) : WireWindow(i) <= Bound
  BY DEF WireBurst, Bound
<1>2. WireBurst' <=> \A i \in 1..Len(wire') : WireWindow(i)' <= Bound'
  BY DEF WireBurst, Bound
\* The bound only grows.
<1>3. Bound \in Nat /\ Bound' \in Nat /\ Bound <= Bound'
  <2>1. limits' = limits
    BY PathIsLimited
  <2>2. Len(log) <= Len(log') /\ Len(log') \in Nat
    BY <1>0, PathMoves, AppendProperties DEF Neither, Grants, Writes
  <2> DEFINE a == limits.minute
             h == limits.hour
  <2>3. a \in Nat /\ h \in Nat
    BY <1>0
  <2>4. /\ Bound = (IF Len(log) >= h THEN 3 ELSE 2) * a + 1 + Cardinality(Threads)
        /\ Bound' = (IF Len(log') >= h THEN 3 ELSE 2) * a + 1 + Cardinality(Threads)
    BY <2>1 DEF Bound
  <2> HIDE DEF a, h
  <2>5. CASE Len(log) >= h
    <3>1. Len(log') >= h
      BY <1>0, <2>2, <2>3, <2>5
    <3> QED BY <1>0, <2>3, <2>4, <2>5, <3>1
  <2>6. CASE ~(Len(log) >= h)
    BY SMTT(30), <1>0, <2>3, <2>4, <2>6
  <2> QED BY <2>5, <2>6
<1>4. CASE wire' = wire
  <2> SUFFICES ASSUME NEW i \in 1..Len(wire) PROVE WireWindow(i)' <= Bound'
    BY <1>2, <1>4
  <2>1. WireWindow(i)' = WireWindow(i)
    BY <1>4 DEF WireWindow
  <2>2. WireWindow(i) <= Bound
    BY <1>1
  <2>3. WireWindow(i) \in Nat
    BY <1>0, WireWindowType
  <2> QED BY <1>3, <2>1, <2>2, <2>3
<1>5. ASSUME wire' = Append(wire, clock), clock' = clock PROVE WireBurst'
  <2>0. /\ Len(wire') = Len(wire) + 1 /\ \A i \in 1..Len(wire) : wire'[i] = wire[i]
        /\ wire'[Len(wire) + 1] = clock
    BY <1>0, <1>5, AppendProperties
  <2> SUFFICES ASSUME NEW i \in 1..Len(wire') PROVE WireWindow(i)' <= Bound'
    BY <1>2
  <2>1. WireWindow(i)' = Cardinality({j \in i..Len(wire') : wire'[j] < wire'[i] + Minute})
    BY DEF WireWindow
  <2>2. CASE wire'[i] + Minute > clock
    <3>1. {j \in i..Len(wire') : wire'[j] < wire'[i] + Minute} \subseteq i..Len(wire')
      OBVIOUS
    <3>2. IsFiniteSet(i..Len(wire')) /\ Cardinality(i..Len(wire')) = Len(wire') - i + 1
      BY <1>0, <2>0, FS_Interval
    <3>3. /\ WireWindow(i)' <= Cardinality(i..Len(wire'))
          /\ WireWindow(i)' \in Nat
      BY <2>1, <3>1, <3>2, FS_Subset, FS_CardinalityType
    <3>4. Len(wire') - i + 1 <= Bound'
      BY <1>5, <2>2 DEF OpenOnWire
    <3> QED BY <1>0, <1>3, <2>0, <3>2, <3>3, <3>4
  <2>3. CASE ~(wire'[i] + Minute > clock)
    <3>1. CASE i \in 1..Len(wire)
      <4>1. {j \in i..Len(wire') : wire'[j] < wire'[i] + Minute}
              = {j \in i..Len(wire) : wire[j] < wire[i] + Minute}
        <5>1. \A j \in i..Len(wire') : j \in i..Len(wire) \/ j = Len(wire) + 1
          <6> DEFINE n == Len(wire)
          <6>1. n \in Nat /\ Len(wire') = n + 1 /\ i \in Nat
            BY <1>0, <2>0, <3>1
          <6> HIDE DEF n
          <6>2. \A j \in i..(n + 1) : j \in i..n \/ j = n + 1
            BY <6>1
          <6> QED BY <6>1, <6>2 DEF n
        <5>2. wire'[i] = wire[i] /\ \A j \in i..Len(wire) : wire'[j] = wire[j]
          BY <1>0, <2>0, <3>1
        <5>3. ~(wire'[Len(wire) + 1] < wire'[i] + Minute)
          BY <1>0, <2>0, <2>3, <5>2
        <5>4. \A j \in i..Len(wire) : j \in i..Len(wire')
          BY <1>0, <2>0, <3>1
        <5> QED BY <5>1, <5>2, <5>3, <5>4
      <4>2. WireWindow(i)' = WireWindow(i) /\ WireWindow(i) <= Bound
        BY <1>1, <2>1, <3>1, <4>1 DEF WireWindow
      <4>3. WireWindow(i) \in Nat
        BY <1>0, <3>1, WireWindowType
      <4> QED BY <1>3, <4>2, <4>3
    <3>2. CASE i = Len(wire) + 1
      <4>1. {j \in i..Len(wire') : wire'[j] < wire'[i] + Minute} = {}
        BY <1>0, <2>0, <2>3, <3>2
      <4>2. WireWindow(i)' = 0
        BY <2>1, <4>1, FS_EmptySet
      <4> QED BY <1>3, <4>2
    <3> QED BY <1>0, <2>0, <3>1, <3>2
  <2> QED BY <2>2, <2>3
<1> QED BY <1>4, <1>5, PathMoves DEF Neither, Grants, Writes

\* Http_client behind the limiter: in no minute does the server see more requests
\* than the limiter lets through in one and one for each thread, however long a
\* permitted request has to wait for its connection; for positive limits and any
\* number of threads, windows, pool size and intervals.
THEOREM TheServerSeesBoundedBursts ==
    ASSUME IsFiniteSet(Threads), \A l \in Limits : l.minute > 0 /\ l.hour > 0
    PROVE  PathSpec => []WireBurst
<1> DEFINE I == StageInv /\ LimiterInv /\ WireInv
<1>1. PathInit => I /\ WireBurst
  <2> SUFFICES ASSUME PathInit PROVE I /\ WireBurst
    OBVIOUS
  <2>1. StageInv /\ LimiterInv
    BY StageInit, LimiterInit
  <2>2. wire \in Seq(Nat) /\ Len(wire) = 0
    BY EmptySeq DEF PathInit
  <2> QED BY <2>1, <2>2 DEF WireInv, WireBurst
<1>2. ExclusiveInv /\ I /\ [PathNext]_pathVars => I'
  BY StageStep, LimiterStep, WireStep
<1>3. ExclusiveInv /\ I /\ WireBurst /\ OpenOnWire' /\ [PathNext]_pathVars => WireBurst'
  BY WireBurstStep
<1>4. I => OpenOnWire
  BY OpenOnTheWire
<1> HIDE DEF I
<1> QED BY <1>1, <1>2, <1>3, <1>4, PathUsesTheClient, PoolInvariant, PTL DEF PathSpec

---------------------------------------------------------------------------
(* A page reader. *)

\* One thread makes all the requests.
OneReader ==
    /\ \A t, u \in Threads : /\ stage[t] = "permit" \/ calls[t] > 0
                             /\ stage[u] = "permit" \/ calls[u] > 0
                             => t = u
    /\ \A t \in Threads : stage[t] \in {"request", "pause", "done"} => calls[t] > 0
    /\ Len(wire) > 0 => \E t \in Threads : calls[t] > 0

LastWrite == wire[Len(wire)]

\* After a page there is a second permission, and the next request is permitted
\* an interval after that one.
Apart ==
    \A t \in Threads :
        /\ stage[t] = "idle" /\ limiter_pc[t] = "out" /\ calls[t] > 0
              => last_request >= LastWrite
        /\ stage[t] = "permit" /\ limiter_pc[t] # "out" => last_request >= LastWrite
        /\ stage[t] = "permit" /\ limiter_pc[t] = "out"
              => clock - LastWrite >= limits.interval
        /\ stage[t] = "request" /\ pc[t] # "holding"
              => clock - LastWrite >= limits.interval

ReaderInv ==
    /\ wire \in Seq(Nat \ {0}) /\ \A i \in 1..Len(wire) : wire[i] <= clock
    /\ ReaderKeepsDistance
    /\ reader => OneReader /\ (Len(wire) > 0 => Apart)

\* A request that is written while its thread has the distance.
LEMMA WriteReader ==
  ASSUME ReaderInv, LP!SpacingInv, StageInv,
         wire' = Append(wire, clock), UNCHANGED <<clock, limits, reader>>,
         reader /\ Len(wire) > 0 => clock - LastWrite >= limits.interval,
         reader => /\ OneReader'
                   /\ \A t \in Threads : /\ stage'[t] # "permit"
                                         /\ stage'[t] = "idle" => calls'[t] = 0
                                         /\ stage'[t] = "request" => pc'[t] = "holding"
  PROVE  ReaderInv'
<1>0. /\ clock \in Nat /\ clock > 0 /\ wire \in Seq(Nat \ {0}) /\ Len(wire) \in Nat
      /\ \A i \in 1..Len(wire) : wire[i] \in Nat
  BY LenProperties DEF LP!SpacingInv, LP!Types, ReaderInv
<1>1. /\ Len(wire') = Len(wire) + 1 /\ \A i \in 1..Len(wire) : wire'[i] = wire[i]
      /\ wire'[Len(wire) + 1] = clock /\ wire' \in Seq(Nat \ {0})
  BY <1>0, AppendProperties
<1>2. \A i \in 1..Len(wire') : wire'[i] <= clock'
  BY <1>0, <1>1 DEF ReaderInv
<1>3. ReaderKeepsDistance'
  <2> SUFFICES ASSUME reader, NEW i \in 1..(Len(wire') - 1)
               PROVE  wire'[i + 1] - wire'[i] >= limits.interval
    BY DEF ReaderKeepsDistance
  <2>1. CASE i \in 1..(Len(wire) - 1)
    <3>1. wire'[i + 1] = wire[i + 1] /\ wire'[i] = wire[i]
      BY <1>0, <1>1, <2>1
    <3> QED BY <2>1, <3>1 DEF ReaderInv, ReaderKeepsDistance
  <2>2. CASE i = Len(wire)
    <3>1. wire'[i + 1] = clock /\ wire'[i] = LastWrite /\ Len(wire) > 0
      BY <1>0, <1>1, <2>2 DEF LastWrite
    <3> QED BY <3>1
  <2> QED BY <1>0, <1>1, <2>1, <2>2
<1>4. reader' => OneReader' /\ Apart'
  <2> SUFFICES ASSUME reader PROVE OneReader' /\ Apart'
    OBVIOUS
  <2>1. calls' \in [Threads -> Nat] \/ \A t \in Threads : stage'[t] = "idle" => ~(calls'[t] > 0)
    OBVIOUS
  <2> QED BY <2>1 DEF Apart
<1> QED BY <1>1, <1>2, <1>3, <1>4 DEF ReaderInv

\* A step that writes nothing.
LEMMA KeepReader ==
  ASSUME ReaderInv, LP!SpacingInv, clock' \in {clock, clock + 1},
         UNCHANGED <<wire, limits, reader>>,
         reader => OneReader' /\ (Len(wire) > 0 => Apart')
  PROVE  ReaderInv'
<1>1. clock \in Nat /\ clock' >= clock /\ clock' \in Nat
  BY DEF LP!SpacingInv, LP!Types
<1>2. \A i \in 1..Len(wire) : wire[i] <= clock'
  <2> TAKE i \in 1..Len(wire)
  <2>1. wire[i] \in Nat /\ wire[i] <= clock
    BY DEF ReaderInv
  <2> QED BY <1>1, <2>1
<1> QED BY <1>2 DEF ReaderInv, ReaderKeepsDistance

LEMMA ReaderStep ==
  ASSUME ReaderInv, LP!SpacingInv, StageInv, ExclusiveInv, [PathNext]_pathVars
  PROVE  ReaderInv'
<1> USE DEF StageInv, ExclusiveInv, TypeInv, TypeOK, PathStages
<1>0. /\ limiter_pc \in [Threads -> {"out", "lock"} \cup LP!Inside]
      /\ "out" \notin LP!Inside
      /\ clock \in Nat \ {0} /\ last_request \in Nat /\ last_request <= clock
      /\ limits.interval \in Nat /\ MaxCalls \in Nat
  BY RequestPathAssumption, PoolAssumption
     DEF LP!SpacingInv, LP!Types, LP!IntervalInv, LP!Inside, LP!Sleeping,
         ConnectionPoolAssumption
<1>a. \A t \in Threads : calls[t] \in Nat
  BY <1>0
<1>w. Len(wire) > 0 => LastWrite \in Nat \ {0} /\ LastWrite <= clock
  <2> SUFFICES ASSUME Len(wire) > 0 PROVE LastWrite \in Nat \ {0} /\ LastWrite <= clock
    OBVIOUS
  <2>1. Len(wire) \in 1..Len(wire)
    BY LenProperties DEF ReaderInv
  <2> QED BY <2>1 DEF ReaderInv, LastWrite
<1>1. ASSUME NEW t \in Threads, ApplyRateLimiting(t) PROVE ReaderInv'
  <2>1. /\ LP!Enter(t) /\ UNCHANGED <<calls, pc, wire, reader, limits>>
        /\ stage' = [stage EXCEPT ![t] = "permit"] /\ MayRequest(t)
    BY <1>1, LimiterSteps, PathIsLimited DEF ApplyRateLimiting, allVars, vars
  <2>2. /\ UNCHANGED <<clock, last_request>> /\ limiter_pc[t] = "out"
        /\ limiter_pc' = [limiter_pc EXCEPT ![t] = "lock"]
    BY <2>1 DEF LP!Enter, LP!Goto, LP!grants
  <2> SUFFICES ASSUME reader PROVE OneReader' /\ (Len(wire) > 0 => Apart')
    BY <2>1, <2>2, KeepReader
  <2>3. \A u \in Threads \ {t} : stage[u] = "idle" /\ calls[u] = 0
    BY <2>1 DEF MayRequest
  <2>4. OneReader'
    BY <1>0, <1>a, <2>1, <2>3 DEF OneReader, ReaderInv, MayRequest
  <2>5. ASSUME Len(wire) > 0 PROVE Apart'
    <3>1. stage[t] = "idle" /\ calls[t] > 0
      <4>1. PICK u \in Threads : calls[u] > 0
        BY <2>5 DEF ReaderInv, OneReader
      <4>2. u = t
        BY <2>3, <4>1
      <4> QED BY <2>1, <4>1, <4>2 DEF MayRequest
    <3>2. last_request >= LastWrite
      BY <2>2, <2>5, <3>1 DEF ReaderInv, Apart
    <3>3. LastWrite' = LastWrite
      BY <2>1 DEF LastWrite
    <3> QED BY <1>0, <1>a, <2>1, <2>2, <2>3, <3>2, <3>3 DEF Apart
  <2> QED BY <2>4, <2>5
<1>2. ASSUME NEW t \in Threads, PauseAfterPage(t) PROVE ReaderInv'
  <2>1. /\ LP!Enter(t) /\ UNCHANGED <<calls, pc, wire, reader, limits>>
        /\ stage' = [stage EXCEPT ![t] = "idle"] /\ stage[t] = "pause"
    BY <1>2, LimiterSteps, PathIsLimited DEF PauseAfterPage, allVars, vars
  <2>2. /\ UNCHANGED <<clock, last_request>>
        /\ limiter_pc' = [limiter_pc EXCEPT ![t] = "lock"]
    BY <2>1 DEF LP!Enter, LP!Goto, LP!grants
  <2> SUFFICES ASSUME reader PROVE OneReader' /\ (Len(wire) > 0 => Apart')
    BY <2>1, <2>2, KeepReader
  <2>3. OneReader'
    BY <2>1 DEF OneReader, ReaderInv
  <2>4. ASSUME Len(wire) > 0 PROVE Apart'
    <3>1. LastWrite' = LastWrite /\ Apart
      BY <2>1, <2>4 DEF LastWrite, ReaderInv
    <3> QED BY <1>0, <2>1, <2>2, <3>1 DEF Apart
  <2> QED BY <2>3, <2>4
<1>3. ASSUME NEW t \in Threads, WaitIfNeeded(t) PROVE ReaderInv'
  <2>1. /\ LP!Step(t) /\ limiter_pc[t] # "out"
        /\ UNCHANGED <<calls, pc, wire, reader, limits, stage>>
    BY <1>3, LimiterSteps, PathIsLimited DEF WaitIfNeeded, allVars, vars
  <2>2. OneReader => OneReader'
    BY <2>1 DEF OneReader
  <2>3. LastWrite' = LastWrite
    BY <2>1 DEF LastWrite
  <2>4. CASE LP!Update(t)
    <3>1. /\ last_request' = clock /\ clock' = clock /\ limiter_pc[t] = "update"
          /\ limiter_pc' = [limiter_pc EXCEPT ![t] = "out"]
      BY <2>4 DEF LP!Update, LP!Goto
    <3> SUFFICES ASSUME reader, Len(wire) > 0 PROVE Apart'
      BY <2>1, <2>2, <3>1, KeepReader DEF ReaderInv
    <3>2. Apart
      BY DEF ReaderInv
    <3>3. stage[t] = "permit" => clock - LastWrite >= limits.interval
      <4>1. last_request > 0 => clock - last_request >= limits.interval
        BY <3>1 DEF LP!SpacingInv, LP!IntervalInv
      <4>2. stage[t] = "permit" => last_request >= LastWrite
        BY <2>1, <3>2 DEF Apart
      <4> QED BY <1>0, <1>w, <4>1, <4>2
    <3>4. last_request' >= LastWrite
      BY <1>0, <1>w, <3>1
    <3> QED BY <1>0, <2>1, <2>3, <3>1, <3>2, <3>3, <3>4 DEF Apart
  <2>5. CASE ~LP!Update(t)
    <3>1. /\ last_request' = last_request /\ clock' = clock
          /\ \E l \in {"lock"} \cup LP!Inside : limiter_pc' = [limiter_pc EXCEPT ![t] = l]
      BY <2>1, <2>5
         DEF LP!Step, LP!Enter, LP!Lock, LP!HourCheck, LP!HourSlept, LP!MinuteCheck,
             LP!MinuteSlept, LP!IntervalCheck, LP!IntervalSlept, LP!SleepOrGo, LP!Goto,
             LP!grants, LP!Inside, LP!Sleeping
    <3> SUFFICES ASSUME reader, Len(wire) > 0 PROVE Apart'
      BY <2>1, <2>2, <3>1, KeepReader DEF ReaderInv
    <3>2. Apart
      BY DEF ReaderInv
    <3>3. \A u \in Threads : limiter_pc'[u] = "out" <=> limiter_pc[u] = "out"
      BY <1>0, <2>1, <3>1
    <3> QED BY <2>1, <2>3, <3>1, <3>2, <3>3 DEF Apart
  <2> QED BY <2>4, <2>5
<1>4. ASSUME NEW t \in Threads, Permitted(t) PROVE ReaderInv'
  <2>1. /\ UNCHANGED <<limiter_pc, clock, last_request, limits, reader>>
        /\ stage[t] = "permit" /\ limiter_pc[t] = "out"
        /\ stage' = [stage EXCEPT ![t] = "request"] /\ OthersStay(t)
        /\ calls' = [calls EXCEPT ![t] = @ + 1]
        /\ wire' = IF pc'[t] = "holding" THEN Append(wire, clock) ELSE wire
    BY <1>4, StartMoves DEF limiterVars
  <2>2. ASSUME reader
        PROVE  \A u \in Threads \ {t} : stage[u] = "idle" /\ calls[u] = 0
    BY <1>0, <1>a, <2>1, <2>2 DEF ReaderInv, OneReader
  <2>3. calls'[t] > 0
    BY <1>0, <1>a, <2>1
  <2>4. reader => OneReader'
    BY <1>0, <2>1, <2>2, <2>3 DEF OneReader
  <2>5. reader /\ Len(wire) > 0 => clock - LastWrite >= limits.interval
    BY <2>1 DEF ReaderInv, Apart
  <2>6. CASE pc'[t] = "holding"
    BY <2>1, <2>2, <2>4, <2>5, <2>6, WriteReader
  <2>7. CASE pc'[t] # "holding"
    <3> SUFFICES ASSUME reader, Len(wire) > 0 PROVE Apart'
      BY <2>1, <2>4, <2>7, KeepReader
    <3>1. LastWrite' = LastWrite
      BY <2>1, <2>7 DEF LastWrite
    <3> QED BY <1>0, <2>1, <2>2, <2>5, <3>1 DEF Apart
  <2> QED BY <2>6, <2>7
<1>5. ASSUME NEW t \in Threads, InRequest(t) PROVE ReaderInv'
  <2>1. /\ UNCHANGED <<limiter_pc, clock, last_request, limits, reader, calls>>
        /\ stage[t] = "request" /\ OthersStay(t)
        /\ wire' = IF pc[t] # "holding" /\ pc'[t] = "holding"
                   THEN Append(wire, clock) ELSE wire
        /\ pc[t] = "holding" => pc'[t] \in {"holding", "out"}
        /\ \/ pc'[t] # "out" /\ stage' = stage
           \/ /\ pc'[t] = "out"
              /\ \E s \in IF reader THEN {"pause", "done"} ELSE {"idle"} :
                    stage' = [stage EXCEPT ![t] = s]
    BY <1>5, RequestMoves DEF limiterVars
  <2>2. ASSUME reader
        PROVE  calls[t] > 0 /\ \A u \in Threads \ {t} : stage[u] = "idle" /\ calls[u] = 0
    BY <1>0, <1>a, <2>1, <2>2 DEF ReaderInv, OneReader
  <2>3. reader => OneReader'
    <3> SUFFICES ASSUME reader PROVE OneReader'
      OBVIOUS
    <3>1. calls'[t] > 0 /\ \A u \in Threads \ {t} : calls'[u] = 0
      BY <2>1, <2>2
    <3>2. \A u \in Threads \ {t} : stage'[u] = "idle"
      BY <2>1, <2>2
    <3>3. stage'[t] # "permit"
      BY <2>1
    <3> QED BY SMTT(30), <3>1, <3>2, <3>3 DEF OneReader
  <2>4. CASE pc[t] # "holding" /\ pc'[t] = "holding"
    <3>1. reader /\ Len(wire) > 0 => clock - LastWrite >= limits.interval
      BY <2>1, <2>4 DEF ReaderInv, Apart
    <3> QED BY <2>1, <2>2, <2>3, <2>4, <3>1, WriteReader
  <2>5. CASE ~(pc[t] # "holding" /\ pc'[t] = "holding")
    <3> SUFFICES ASSUME reader, Len(wire) > 0 PROVE Apart'
      BY <2>1, <2>3, <2>5, KeepReader
    <3>1. LastWrite' = LastWrite /\ Apart
      BY <2>1, <2>5 DEF LastWrite, ReaderInv
    <3> QED BY <1>0, <2>1, <2>2, <2>5, <3>1 DEF Apart
  <2> QED BY <2>4, <2>5
<1>6. CASE TimePasses
  <2>1. LP!Tick /\ UNCHANGED <<calls, pc, stage, wire, reader, limits>>
    BY <1>6, LimiterSteps, PathIsLimited DEF TimePasses, allVars, vars
  <2>2. clock' = clock + 1 /\ UNCHANGED <<last_request, limiter_pc>>
    BY <2>1 DEF LP!Tick, LP!grants
  <2>3. OneReader => OneReader'
    BY <2>1 DEF OneReader
  <2> SUFFICES ASSUME reader, Len(wire) > 0 PROVE Apart'
    BY <2>1, <2>2, <2>3, KeepReader DEF ReaderInv
  <2>4. LastWrite' = LastWrite /\ Apart
    BY <2>1 DEF LastWrite, ReaderInv
  <2> QED BY <1>0, <1>w, <2>1, <2>2, <2>4 DEF Apart
<1>7. CASE UNCHANGED pathVars
  BY <1>7 DEF pathVars, limiterVars, allVars, vars, ReaderInv, ReaderKeepsDistance, OneReader,
              Apart, LastWrite
<1> QED BY <1>1, <1>2, <1>3, <1>4, <1>5, <1>6, <1>7 DEF PathNext, NobodyBusy

\* read_cards_pages and the other page readers: the server sees the pages of a
\* reader at least the interval apart, for any settings and however long each
\* request waits between its permission and its connection.
THEOREM PagesKeepTheirDistance == PathSpec => []ReaderKeepsDistance
<1>1. PathInit => LP!SpacingInv /\ StageInv /\ ReaderInv
  <2> SUFFICES ASSUME PathInit PROVE LP!SpacingInv /\ StageInv /\ ReaderInv
    OBVIOUS
  <2>1. LP!SpacingInv
    BY LimiterStarts, LimiterConstants, LP!SpacingInit DEF PathInit
  <2>2. /\ wire \in Seq(Nat \ {0}) /\ Len(wire) = 0 /\ calls = [t \in Threads |-> 0]
        /\ stage = [t \in Threads |-> "idle"]
    BY EmptySeq DEF PathInit, HttpInit, Init
  <2> QED BY <2>1, <2>2, StageInit DEF ReaderInv, ReaderKeepsDistance, OneReader
<1>2. LP!SpacingInv /\ [PathNext]_pathVars => LP!SpacingInv'
  BY PathIsLimited, LimiterConstants, LP!SpacingStep
<1>3. ReaderInv => ReaderKeepsDistance
  BY DEF ReaderInv
<1>4. ReaderInv /\ LP!SpacingInv /\ StageInv /\ ExclusiveInv /\ [PathNext]_pathVars => ReaderInv'
  BY ReaderStep
<1> QED BY <1>1, <1>2, <1>3, <1>4, StageStep, PathUsesTheClient, PoolInvariant, PTL DEF PathSpec
=============================================================================
