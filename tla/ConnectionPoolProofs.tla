------------------------ MODULE ConnectionPoolProofs ------------------------
(* Theorems about ConnectionPool, for any number of threads and streams. *)
EXTENDS ConnectionPool, SubsequencesProofs

---------------------------------------------------------------------------
(* The queue filter of cleanup_expired_connections. *)

\* Live keeps exactly the elements that are not dead, keeps them distinct when
\* they were, and is a sequence over the same set.
LEMMA LiveProperties ==
  ASSUME NEW S, NEW q \in Seq(S), NEW dead
  PROVE  /\ Live(q, dead) \in Seq(S)
         /\ Range(Live(q, dead)) = Range(q) \ dead
         /\ IsInjective(q) => IsInjective(Live(q, dead))
<1> DEFINE P == LivePositions(q, dead)
           L == Live(q, dead)
<1>1. P \in SUBSET (1..Len(q)) /\ DOMAIN q = 1..Len(q)
  BY LenProperties DEF LivePositions
<1>2. /\ L \in Seq(S)
      /\ \A k \in 1..Len(L) : \E i \in P : Rank(P, i) = k /\ L[k] = q[i]
      /\ \A i \in P : Rank(P, i) \in 1..Len(L) /\ L[Rank(P, i)] = q[i]
  <2> HIDE DEF P
  <2> QED BY <1>1, SubsequenceProperties DEF Live, P
<1>3. DOMAIN L = 1..Len(L)
  BY <1>2, LenProperties
<1>4. \A i \in DOMAIN q : i \in P <=> q[i] \notin dead
  BY <1>1 DEF LivePositions
<1> HIDE DEF L, P
<1>5. Range(L) = Range(q) \ dead
  BY <1>1, <1>2, <1>3, <1>4 DEF Range
<1>6. IsInjective(q) => IsInjective(L)
  <2> SUFFICES ASSUME IsInjective(q),
                      NEW k \in 1..Len(L), NEW m \in 1..Len(L), L[k] = L[m]
               PROVE  k = m
    BY <1>3 DEF IsInjective
  <2>1. PICK i \in P : Rank(P, i) = k /\ L[k] = q[i]
    BY <1>2
  <2>2. PICK j \in P : Rank(P, j) = m /\ L[m] = q[j]
    BY <1>2
  <2>3. i = j
    BY <1>1, <2>1, <2>2 DEF IsInjective
  <2> QED BY <2>1, <2>2, <2>3
<1> QED BY <1>2, <1>5, <1>6 DEF L

---------------------------------------------------------------------------
(* Type correctness. *)

\* TypeOK is not inductive by itself: find_idle_connection marks an entry it
\* took from the idle queue, which must therefore be in _all_connections.
TypeInv == TypeOK /\ Range(idle) \subseteq all

\* What cleanup_expired_connections leaves is again a queue over entries that
\* are still in _all_connections, and holds no stale entry.
LEMMA CleanUp ==
  ASSUME TypeInv
  PROVE  /\ CleanIdle \in Seq(Conns)
         /\ Len(CleanIdle) \in Nat
         /\ Range(CleanIdle) = Range(idle) \ stale
         /\ Range(CleanIdle) \subseteq CleanAll
         /\ \A i \in 1..Len(CleanIdle) :
               CleanIdle[i] \in CleanAll /\ CleanIdle[i] \in Range(CleanIdle)
         /\ CleanAll \subseteq all
         /\ IsInjective(idle) => IsInjective(CleanIdle)
<1>1. idle \in Seq(Conns) /\ Range(idle) \subseteq all
  BY DEF TypeInv, TypeOK
<1>2. /\ CleanIdle \in Seq(Conns)
      /\ Range(CleanIdle) = Range(idle) \ stale
      /\ IsInjective(idle) => IsInjective(CleanIdle)
  BY <1>1, LiveProperties DEF CleanIdle
<1>3. CleanAll \subseteq all /\ Range(CleanIdle) \subseteq CleanAll
  BY <1>1, <1>2 DEF CleanAll
<1>4. Len(CleanIdle) \in Nat /\ DOMAIN CleanIdle = 1..Len(CleanIdle)
  BY <1>2, LenProperties
<1>5. \A i \in 1..Len(CleanIdle) : CleanIdle[i] \in Range(CleanIdle)
  BY <1>4 DEF Range
<1> QED BY <1>2, <1>3, <1>4, <1>5

\* What is left of the queue after the entry at i was popped.
LEMMA PopProperties ==
  ASSUME NEW S, NEW q \in Seq(S), NEW i \in 1..Len(q)
  PROVE  LET rest == SubSeq(q, i + 1, Len(q))
         IN  /\ rest \in Seq(S)
             /\ Range(rest) \subseteq Range(q)
             /\ IsInjective(q) => IsInjective(rest) /\ q[i] \notin Range(rest)
<1> DEFINE n == Len(q)
           rest == SubSeq(q, i + 1, n)
<1>1. n \in Nat /\ DOMAIN q = 1..n /\ i \in Int /\ i >= 1 /\ i <= n
  BY LenProperties
<1>2. \A j \in (i + 1)..n : q[j] \in S
  BY <1>1, ElementOfSeq
<1>3. /\ rest \in Seq(S)
      /\ Len(rest) = n - i
      /\ \A j \in 1..(n - i) : rest[j] = q[i + j]
  <2>1. i + 1 \in Int /\ n \in Int /\ n - (i + 1) + 1 = n - i
        /\ \A j \in 1..(n - i) : (i + 1) + j - 1 = i + j
    BY <1>1
  <2>2. /\ SubSeq(q, i + 1, n) \in Seq(S)
        /\ Len(SubSeq(q, i + 1, n)) = IF i + 1 <= n THEN n - (i + 1) + 1 ELSE 0
        /\ \A j \in 1..(n - (i + 1) + 1) :
              SubSeq(q, i + 1, n)[j] = q[(i + 1) + j - 1]
    <3> HIDE DEF n
    <3> QED BY <1>2, <2>1, SubSeqProperties
  <2> HIDE DEF n
  <2> QED BY <1>1, <2>1, <2>2
<1>4. DOMAIN rest = 1..(n - i)
  <2> HIDE DEF rest, n
  <2> QED BY <1>3, LenProperties
<1>5. \A j \in 1..(n - i) : i + j \in 1..n /\ i + j # i
  BY <1>1
<1> HIDE DEF rest, n
<1>6. Range(rest) \subseteq Range(q)
  BY <1>1, <1>3, <1>4, <1>5 DEF Range
<1>7. IsInjective(q) => q[i] \notin Range(rest)
  <2>1. i \in 1..n
    BY <1>1
  <2> QED BY <1>1, <1>3, <1>4, <1>5, <2>1 DEF Range, IsInjective
<1>8. IsInjective(q) => IsInjective(rest)
  <2> SUFFICES ASSUME IsInjective(q), NEW j \in 1..(n - i), NEW k \in 1..(n - i),
                      rest[j] = rest[k]
               PROVE  j = k
    BY <1>4 DEF IsInjective
  <2>1. q[i + j] = q[i + k] /\ i + j \in 1..n /\ i + k \in 1..n
    BY <1>3, <1>5
  <2>2. i + j = i + k
    BY <1>1, <2>1 DEF IsInjective
  <2> QED BY <1>1, <2>2
<1> QED BY <1>3, <1>6, <1>7, <1>8 DEF n, rest

\* What is in the queue after a push.
LEMMA PushProperties ==
  ASSUME NEW S, NEW q \in Seq(S), NEW c \in S
  PROVE  /\ Append(q, c) \in Seq(S)
         /\ Range(Append(q, c)) = Range(q) \cup {c}
         /\ IsInjective(q) /\ c \notin Range(q) => IsInjective(Append(q, c))
<1> DEFINE r == Append(q, c)
           n == Len(q)
<1>1. n \in Nat /\ DOMAIN q = 1..n
  BY LenProperties
<1>2. /\ r \in Seq(S)
      /\ Len(r) = n + 1
      /\ \A i \in 1..n : r[i] = q[i]
      /\ r[n + 1] = c
  BY AppendProperties
<1> HIDE DEF r, n
<1>3. DOMAIN r = 1..(n + 1)
  BY <1>2, LenProperties
<1>4. \A i \in 1..(n + 1) : i \in 1..n \/ i = n + 1
  BY <1>1
<1>5. 1..n \subseteq 1..(n + 1) /\ n + 1 \in 1..(n + 1) /\ n + 1 \notin 1..n
  BY <1>1
<1>6. Range(r) = Range(q) \cup {c}
  <2>1. \A x \in Range(r) : x \in Range(q) \cup {c}
    BY <1>1, <1>2, <1>3, <1>4 DEF Range
  <2>2. \A x \in Range(q) : x \in Range(r)
    BY <1>1, <1>2, <1>3, <1>5 DEF Range
  <2>3. c \in Range(r)
    BY <1>2, <1>3, <1>5 DEF Range
  <2> QED BY <2>1, <2>2, <2>3
<1>7. ASSUME IsInjective(q), c \notin Range(q) PROVE IsInjective(r)
  <2> SUFFICES ASSUME NEW i \in 1..(n + 1), NEW j \in 1..(n + 1), r[i] = r[j]
               PROVE  i = j
    BY <1>3 DEF IsInjective
  <2>1. \A k \in 1..n : r[k] \in Range(q)
    BY <1>1, <1>2 DEF Range
  <2>2. CASE i \in 1..n /\ j \in 1..n
    BY <1>1, <1>2, <1>7, <2>2 DEF IsInjective
  <2>3. CASE i = n + 1 /\ j \in 1..n
    BY <1>2, <1>7, <2>1, <2>3
  <2>4. CASE i \in 1..n /\ j = n + 1
    BY <1>2, <1>7, <2>1, <2>4
  <2>5. CASE i = n + 1 /\ j = n + 1
    BY <2>5
  <2> QED BY <1>4, <2>2, <2>3, <2>4, <2>5
<1> QED BY <1>2, <1>6, <1>7 DEF r

\* Handing out an idle entry.
LEMMA TakeType ==
  ASSUME TypeInv, NEW t \in Threads, NEW h, Take(t, h)
  PROVE  /\ all' \subseteq Conns /\ idle' \in Seq(Conns) /\ in_use' \subseteq all'
         /\ stale' \subseteq all' /\ lock' = lock
         /\ pc' \in [Threads -> Labels] /\ held' \in [Threads -> Conns \cup {None}]
         /\ valid' \subseteq Threads /\ Range(idle') \subseteq all'
<1>1. PICK i \in 1..Len(CleanIdle) :
        /\ idle' = SubSeq(CleanIdle, i + 1, Len(CleanIdle))
        /\ all' = CleanAll
        /\ in_use' = (in_use \cap CleanAll) \cup {CleanIdle[i]}
        /\ stale' = (stale \cap CleanAll) \ {CleanIdle[i]}
        /\ held' = [held EXCEPT ![t] = CleanIdle[i]]
        /\ valid' = valid \cup {t}
        /\ pc' = [pc EXCEPT ![t] = "holding"]
        /\ lock' = lock
  BY DEF Take
<1>2. /\ CleanIdle \in Seq(Conns)
      /\ Range(CleanIdle) \subseteq CleanAll
      /\ CleanIdle[i] \in CleanAll
      /\ CleanAll \subseteq all
  BY CleanUp
<1>3. idle' \in Seq(Conns) /\ Range(idle') \subseteq Range(CleanIdle)
  BY <1>1, <1>2, PopProperties
<1> QED BY <1>1, <1>2, <1>3 DEF TypeInv, TypeOK, Labels

\* Finding no idle entry.
LEMMA MissType ==
  ASSUME TypeInv, NEW t \in Threads, NEW h,
         NEW next \in {"connecting", "waiting"}, Miss(t, h, next)
  PROVE  /\ all' \subseteq Conns /\ idle' \in Seq(Conns) /\ in_use' \subseteq all'
         /\ stale' \subseteq all' /\ lock' \in Threads \cup {None}
         /\ pc' \in [Threads -> Labels] /\ held' \in [Threads -> Conns \cup {None}]
         /\ valid' \subseteq Threads /\ Range(idle') \subseteq all'
<1>1. CleanAll \subseteq all
  BY CleanUp
<1>2. <<>> \in Seq(Conns) /\ Range(<<>>) = {}
  BY EmptySeq DEF Range
<1> QED BY <1>1, <1>2 DEF Miss, TypeInv, TypeOK, Labels

\* Returning a handle.
LEMMA ReturnType ==
  ASSUME TypeInv, NEW t \in Threads, NEW next \in {"returned", "out"}, Return(t, next)
  PROVE  /\ idle' \in Seq(Conns) /\ in_use' \subseteq all /\ stale' \subseteq all
         /\ pc' \in [Threads -> Labels] /\ Range(idle') \subseteq all
<1> DEFINE p == [pc EXCEPT ![t] = next]
<1>1. p \in [Threads -> Labels] /\ next \in Labels
  BY DEF TypeInv, TypeOK, Labels
<1>2. NotifyOne(p) \subseteq [Threads -> Labels]
  <2> HIDE DEF p
  <2> QED BY <1>1 DEF NotifyOne, Labels
<1>3. CASE t \in valid /\ held[t] \in all
  <2>1. /\ in_use' = in_use \ {held[t]}
        /\ stale' = stale \ {held[t]}
        /\ idle' = Append(idle, held[t])
        /\ pc' \in NotifyOne(p)
    BY <1>3 DEF Return
  <2>2. idle \in Seq(Conns) /\ held[t] \in Conns
    BY <1>3 DEF TypeInv, TypeOK
  <2>3. idle' \in Seq(Conns) /\ Range(idle') = Range(idle) \cup {held[t]}
    BY <2>1, <2>2, PushProperties
  <2> QED BY <1>2, <1>3, <2>1, <2>3 DEF TypeInv, TypeOK
<1>4. CASE ~(t \in valid /\ held[t] \in all)
  BY <1>1, <1>4 DEF Return, TypeInv, TypeOK
<1> QED BY <1>3, <1>4

\* Every step of the pool keeps the types, whatever clients and network do.
LEMMA TypeStep == TypeInv /\ [Next]_vars => TypeInv'
<1> SUFFICES ASSUME TypeInv, [Next]_vars PROVE TypeInv'
  OBVIOUS
<1> USE DEF TypeInv, TypeOK
<1>1. ASSUME NEW t \in Threads, NEW h \in Hosts, GetConnection(t, h)
      PROVE  TypeInv'
  <2>1. /\ calls' = [calls EXCEPT ![t] = @ + 1] /\ calls[t] < MaxCalls
        /\ want' = [want EXCEPT ![t] = h]
    BY <1>1 DEF GetConnection
  <2>2. calls' \in [Threads -> 0..MaxCalls] /\ want' \in [Threads -> Hosts \cup {None}]
    BY <2>1, PoolAssumption DEF ConnectionPoolAssumption
  <2>3. CASE Take(t, h)
    BY <2>2, <2>3, TakeType
  <2>4. CASE Miss(t, h, "connecting")
    BY <2>2, <2>4, MissType
  <2>5. CASE Miss(t, h, "waiting")
    BY <2>2, <2>5, MissType
  <2> QED BY <1>1, <2>3, <2>4, <2>5 DEF GetConnection
<1>2. ASSUME NEW t \in Threads, Wake(t)
      PROVE  TypeInv'
  <2>1. want' = want /\ calls' = calls
    BY <1>2 DEF Wake
  <2>3. CASE Take(t, want[t])
    BY <2>1, <2>3, TakeType
  <2>4. CASE Miss(t, want[t], "connecting")
    BY <2>1, <2>4, MissType
  <2>5. CASE Miss(t, want[t], "waiting")
    BY <2>1, <2>5, MissType
  <2> QED BY <1>2, <2>3, <2>4, <2>5 DEF Wake
<1>3. ASSUME NEW t \in Threads, SpuriousWakeup(t)
      PROVE  TypeInv'
  BY <1>3 DEF SpuriousWakeup, Labels
<1>4. ASSUME NEW t \in Threads, ConnectOk(t)
      PROVE  TypeInv'
  <2>1. PICK c \in Fresh : /\ all' = all \cup {c}
                           /\ in_use' = in_use \cup {c}
                           /\ held' = [held EXCEPT ![t] = c]
    BY <1>4 DEF ConnectOk
  <2>2. c \in Conns
    BY DEF Fresh
  <2> QED BY <1>4, <2>1, <2>2 DEF ConnectOk, Labels
<1>5. ASSUME NEW t \in Threads, ConnectFail(t)
      PROVE  TypeInv'
  BY <1>5 DEF ConnectFail, Labels
<1>6. ASSUME NEW t \in Threads, ReturnConnection(t)
      PROVE  TypeInv'
  <2>1. Return(t, "returned")
        /\ UNCHANGED <<all, lock, want, held, valid, calls>>
    BY <1>6 DEF ReturnConnection
  <2> QED BY <2>1, ReturnType
<1>7. ASSUME NEW t \in Threads, DropHandle(t)
      PROVE  TypeInv'
  <2>1. /\ Return(t, "out")
        /\ held' = [held EXCEPT ![t] = None]
        /\ valid' = valid \ {t}
        /\ UNCHANGED <<all, lock, want, calls>>
    BY <1>7 DEF DropHandle
  <2> QED BY <2>1, ReturnType
<1>8. ASSUME NEW t \in Threads, Invalidate(t)
      PROVE  TypeInv'
  BY <1>8 DEF Invalidate
<1>9. ASSUME CloseAllConnections
      PROVE  TypeInv'
  <2>1. <<>> \in Seq(Conns) /\ Range(<<>>) = {}
    BY EmptySeq DEF Range
  <2> QED BY <1>9, <2>1 DEF CloseAllConnections
<1>10. ASSUME NEW c \in Conns, Expire(c)
       PROVE  TypeInv'
  BY <1>10 DEF Expire
<1>11. CASE UNCHANGED vars
  BY <1>11 DEF vars
<1> QED BY <1>1, <1>2, <1>3, <1>4, <1>5, <1>6, <1>7, <1>8, <1>9, <1>10, <1>11
       DEF Next, Step, Finished

\* TypeInv holds in every reachable state.
LEMMA TypeInvariant == Spec => []TypeInv
<1>1. Init => TypeInv
  <2>1. <<>> \in Seq(Conns) /\ Range(<<>>) = {}
    BY EmptySeq DEF Range
  <2> QED BY <2>1, PoolAssumption
          DEF Init, TypeInv, TypeOK, Labels, ConnectionPoolAssumption
<1> QED BY <1>1, TypeStep, PTL DEF Spec

\* Type correctness of every reachable state of the pool.
THEOREM TypeCorrect == Spec => []TypeOK
<1>1. TypeInv => TypeOK
  BY DEF TypeInv
<1> QED BY <1>1, TypeInvariant, PTL

---------------------------------------------------------------------------
(* Mutual exclusion on streams, for clients that let the destructor return *)
(* the handle.  Exclusive says nothing of the idle queue and so is not      *)
(* inductive: a stream is safe to hand out because it is idle, an idle      *)
(* stream is in no handle because handles keep in_use set, and a popped     *)
(* stream is no longer idle because the queue has no duplicates.            *)

\* The idle queue has no duplicates and holds only entries not in use.
QueueInv == IsInjective(idle) /\ Range(idle) \cap in_use = {}

\* A handle exists exactly between get_connection and the destructor; the
\* stream in it is in no other handle, and its entry is in use.
HandleInv ==
    /\ \A t \in Threads : pc[t] # "returned"
    /\ \A t \in Threads : held[t] # None <=> pc[t] = "holding"
    /\ \A t \in Threads : held[t] \in all => held[t] \in in_use
    /\ \A t, u \in Threads : t # u /\ held[t] # None => held[t] # held[u]

ExclusiveInv == TypeInv /\ QueueInv /\ HandleInv

LEMMA TakeExclusive ==
  ASSUME ExclusiveInv, NEW t \in Threads, NEW h, pc[t] # "holding", Take(t, h)
  PROVE  QueueInv' /\ HandleInv'
<1>1. PICK i \in 1..Len(CleanIdle) :
        /\ idle' = SubSeq(CleanIdle, i + 1, Len(CleanIdle))
        /\ all' = CleanAll
        /\ in_use' = (in_use \cap CleanAll) \cup {CleanIdle[i]}
        /\ held' = [held EXCEPT ![t] = CleanIdle[i]]
        /\ pc' = [pc EXCEPT ![t] = "holding"]
  BY DEF Take
<1> DEFINE c == CleanIdle[i]
<1>2. /\ CleanIdle \in Seq(Conns)
      /\ Range(CleanIdle) \subseteq Range(idle)
      /\ c \in Range(CleanIdle) /\ c \in CleanAll
      /\ CleanAll \subseteq all
      /\ IsInjective(CleanIdle)
  BY CleanUp DEF ExclusiveInv, QueueInv
<1>3. /\ IsInjective(idle') /\ Range(idle') \subseteq Range(CleanIdle)
      /\ c \notin Range(idle')
  BY <1>1, <1>2, PopProperties
<1> HIDE DEF c
<1>4. c \notin in_use /\ c \in all /\ c \in Conns /\ c # None
  BY <1>2, PoolAssumption
     DEF ExclusiveInv, QueueInv, TypeInv, TypeOK, ConnectionPoolAssumption
<1>5. \A u \in Threads : held[u] # c
  BY <1>4 DEF ExclusiveInv, HandleInv
<1>6. QueueInv'
  BY <1>1, <1>2, <1>3 DEF c, ExclusiveInv, QueueInv
<1>7. held' = [held EXCEPT ![t] = c] /\ in_use' = (in_use \cap CleanAll) \cup {c}
  BY <1>1 DEF c
<1>8. HandleInv'
  BY <1>1, <1>2, <1>4, <1>5, <1>7 DEF ExclusiveInv, HandleInv, TypeInv, TypeOK
<1> QED BY <1>6, <1>8

LEMMA MissExclusive ==
  ASSUME ExclusiveInv, NEW t \in Threads, NEW h, pc[t] # "holding",
         NEW next \in {"connecting", "waiting"}, Miss(t, h, next)
  PROVE  QueueInv' /\ HandleInv'
<1>1. CleanAll \subseteq all
  BY CleanUp DEF ExclusiveInv
<1>2. Range(<<>>) = {} /\ IsInjective(<<>>)
  BY DEF Range, IsInjective
<1>3. QueueInv'
  BY <1>1, <1>2 DEF Miss, QueueInv
<1>4. HandleInv'
  BY <1>1 DEF Miss, ExclusiveInv, HandleInv, TypeInv, TypeOK
<1> QED BY <1>3, <1>4

\* The destructor: notify_one wakes a waiter, which holds no handle.
LEMMA DropExclusive ==
  ASSUME ExclusiveInv, NEW t \in Threads, DropHandle(t)
  PROVE  QueueInv' /\ HandleInv'
<1> USE DEF ExclusiveInv, TypeInv, TypeOK
<1> DEFINE p == [pc EXCEPT ![t] = "out"]
           c == held[t]
<1>1. /\ pc[t] = "holding"
      /\ Return(t, "out")
      /\ held' = [held EXCEPT ![t] = None]
      /\ all' = all
  BY DEF DropHandle, HandleInv
<1>2. pc' = p \/ \E w \in Threads : p[w] = "waiting" /\ pc' = [p EXCEPT ![w] = "notified"]
  <2> HIDE DEF p
  <2>1. \A x \in NotifyOne(p) :
           x = p \/ \E w \in Threads : p[w] = "waiting" /\ x = [p EXCEPT ![w] = "notified"]
    BY DEF NotifyOne
  <2>2. pc' = p \/ pc' \in NotifyOne(p)
    BY <1>1 DEF Return, p
  <2> QED BY <2>1, <2>2
<1>3. p \in [Threads -> Labels] /\ p[t] = "out"
      /\ \A u \in Threads : u # t => p[u] = pc[u]
  BY DEF Labels
<1> HIDE DEF p
<1>4. \A u \in Threads : /\ pc'[u] # "returned"
                         /\ pc'[u] = "holding" <=> u # t /\ pc[u] = "holding"
  <2>1. \A u \in Threads : /\ p[u] # "returned"
                           /\ p[u] = "holding" <=> u # t /\ pc[u] = "holding"
    BY <1>3 DEF HandleInv
  <2>2. CASE pc' = p
    BY <2>1, <2>2
  <2>3. ASSUME NEW w \in Threads, p[w] = "waiting", pc' = [p EXCEPT ![w] = "notified"]
        PROVE  \A u \in Threads : /\ pc'[u] # "returned"
                                  /\ pc'[u] = "holding" <=> p[u] = "holding"
    BY <1>3, <2>1, <2>3
  <2> QED BY <1>2, <2>1, <2>2, <2>3
<1>5. \A u \in Threads : u # t => held'[u] = held[u] /\ held[u] # c
  BY <1>1 DEF HandleInv
<1>6. held'[t] = None /\ c # None /\ None \notin Conns
  BY <1>1, PoolAssumption DEF HandleInv, ConnectionPoolAssumption
<1>7. CASE t \in valid /\ c \in all
  <2>1. /\ in_use' = in_use \ {c}
        /\ idle' = Append(idle, c)
    BY <1>1, <1>7 DEF Return
  <2>2. c \in Conns /\ c \notin Range(idle)
    BY <1>7 DEF HandleInv, QueueInv
  <2>3. IsInjective(idle') /\ Range(idle') = Range(idle) \cup {c}
    BY <2>1, <2>2, PushProperties DEF QueueInv
  <2>4. QueueInv'
    BY <2>1, <2>3 DEF QueueInv
  <2>5. \A u \in Threads : held'[u] \in all' => held'[u] \in in_use'
    BY <1>1, <1>5, <1>6, <2>1 DEF HandleInv
  <2>6. HandleInv'
    BY SMTT(30), <1>4, <1>5, <1>6, <2>5 DEF HandleInv
  <2> QED BY <2>4, <2>6
<1>8. CASE ~(t \in valid /\ c \in all)
  <2>1. in_use' = in_use /\ idle' = idle
    BY <1>1, <1>8 DEF Return
  <2>2. \A u \in Threads : held'[u] \in all' => held'[u] \in in_use'
    BY <1>1, <1>5, <1>6, <2>1 DEF HandleInv
  <2>3. HandleInv'
    BY SMTT(30), <1>4, <1>5, <1>6, <2>2 DEF HandleInv
  <2> QED BY <2>1, <2>3 DEF QueueInv
<1> QED BY <1>7, <1>8

\* What a client does that leaves the return to the destructor and never marks
\* its handle as invalid.
ScopedStep(t) ==
    \/ \E h \in Hosts : GetConnection(t, h)
    \/ Wake(t) \/ SpuriousWakeup(t)
    \/ ConnectOk(t) \/ ConnectFail(t)
    \/ DropHandle(t)

ScopedNext ==
    \/ \E t \in Threads : ScopedStep(t)
    \/ CloseAllConnections
    \/ \E c \in Conns : Expire(c)

LEMMA ExclusiveStep ==
  ExclusiveInv /\ [ScopedNext \/ \E t \in Threads : Invalidate(t)]_vars => ExclusiveInv'
<1> SUFFICES ASSUME ExclusiveInv, [ScopedNext \/ \E t \in Threads : Invalidate(t)]_vars
             PROVE  QueueInv' /\ HandleInv'
  <2>1. ScopedNext \/ (\E t \in Threads : Invalidate(t)) => Next
    BY DEF ScopedNext, ScopedStep, Next, Step
  <2> QED BY <2>1, TypeStep DEF ExclusiveInv
<1> USE DEF ExclusiveInv, TypeInv, TypeOK
<1>1. ASSUME NEW t \in Threads, NEW h \in Hosts, GetConnection(t, h)
      PROVE  QueueInv' /\ HandleInv'
  BY <1>1, TakeExclusive, MissExclusive DEF GetConnection
<1>2. ASSUME NEW t \in Threads, Wake(t)
      PROVE  QueueInv' /\ HandleInv'
  BY <1>2, TakeExclusive, MissExclusive DEF Wake
<1>3. ASSUME NEW t \in Threads, SpuriousWakeup(t)
      PROVE  QueueInv' /\ HandleInv'
  BY <1>3 DEF SpuriousWakeup, QueueInv, HandleInv
<1>4. ASSUME NEW t \in Threads, ConnectOk(t)
      PROVE  QueueInv' /\ HandleInv'
  <2>1. PICK c \in Fresh : /\ all' = all \cup {c}
                           /\ in_use' = in_use \cup {c}
                           /\ held' = [held EXCEPT ![t] = c]
    BY <1>4 DEF ConnectOk
  <2>2. c \in Conns /\ c \notin all /\ c # None /\ \A u \in Threads : held[u] # c
    BY PoolAssumption DEF Fresh, ConnectionPoolAssumption
  <2>3. idle' = idle /\ pc' = [pc EXCEPT ![t] = "holding"]
    BY <1>4 DEF ConnectOk
  <2>4. QueueInv'
    BY <2>1, <2>2, <2>3 DEF QueueInv
  <2>5. HandleInv'
    BY <2>1, <2>2, <2>3 DEF HandleInv, Labels
  <2> QED BY <2>4, <2>5
<1>5. ASSUME NEW t \in Threads, ConnectFail(t)
      PROVE  QueueInv' /\ HandleInv'
  BY <1>5 DEF ConnectFail, QueueInv, HandleInv
<1>6. ASSUME NEW t \in Threads, DropHandle(t)
      PROVE  QueueInv' /\ HandleInv'
  BY <1>6, DropExclusive
<1>7. ASSUME NEW t \in Threads, Invalidate(t)
      PROVE  QueueInv' /\ HandleInv'
  BY <1>7 DEF Invalidate, QueueInv, HandleInv
<1>8. ASSUME CloseAllConnections
      PROVE  QueueInv' /\ HandleInv'
  <2>1. Range(<<>>) = {} /\ IsInjective(<<>>)
    BY DEF Range, IsInjective
  <2> QED BY <1>8, <2>1 DEF CloseAllConnections, QueueInv, HandleInv
<1>9. ASSUME NEW c \in Conns, Expire(c)
      PROVE  QueueInv' /\ HandleInv'
  BY <1>9 DEF Expire, QueueInv, HandleInv
<1>10. CASE UNCHANGED vars
  BY <1>10 DEF vars, QueueInv, HandleInv
<1> QED BY <1>1, <1>2, <1>3, <1>4, <1>5, <1>6, <1>7, <1>8, <1>9, <1>10
       DEF ScopedNext, ScopedStep

\* The invariant holds in every reachable state.
LEMMA ExclusiveInvariant ==
  ASSUME "explicit_return" \notin Env
  PROVE  Spec => []ExclusiveInv
<1>1. Init => ExclusiveInv
  <2>1. <<>> \in Seq(Conns) /\ Range(<<>>) = {} /\ IsInjective(<<>>)
    BY EmptySeq DEF Range, IsInjective
  <2> QED BY <2>1, PoolAssumption
          DEF Init, ExclusiveInv, TypeInv, TypeOK, Labels, QueueInv, HandleInv,
              ConnectionPoolAssumption
<1>2. ExclusiveInv /\ [Next]_vars => ExclusiveInv'
  <2>1. [Next]_vars => [ScopedNext \/ \E t \in Threads : Invalidate(t)]_vars
    BY DEF Next, Step, Finished, ReturnConnection, ScopedNext, ScopedStep
  <2> QED BY <2>1, ExclusiveStep
<1> QED BY <1>1, <1>2, PTL DEF Spec

\* As long as nobody calls return_connection by hand, no two threads ever use
\* the same stream: for any number of threads, streams and hosts, any pool
\* size, with expiry, failures, spurious wake-ups, invalidation and
\* close_all_connections.
THEOREM MutualExclusion ==
  ASSUME "explicit_return" \notin Env
  PROVE  Spec => []Exclusive
<1>1. ExclusiveInv => Exclusive
  BY DEF ExclusiveInv, HandleInv, Exclusive
<1> QED BY <1>1, ExclusiveInvariant, PTL

---------------------------------------------------------------------------
(* The bound on the size of the pool, when all callers use one host.  A    *)
(* woken thread creates an entry without a new look at the size; it is safe *)
(* because with one host it only gets there when clean-up made room, and    *)
(* because the mutex is held from that moment until the entry is there.     *)

BoundInv ==
    /\ Cardinality(all) <= MaxConnections
    /\ \A t \in Threads : pc[t] = "connecting" =>
          lock = t /\ Cardinality(all) < MaxConnections
    /\ \A t \in Threads : pc[t] # "out" => want[t] \in Hosts

\* Clean-up never enlarges the pool, and with one host a search fails only on
\* an empty queue.
LEMMA OneHostSearch ==
  ASSUME TypeInv, NEW host, Hosts = {host}
  PROVE  /\ Cardinality(all) \in Nat /\ Cardinality(CleanAll) \in Nat
         /\ Cardinality(CleanAll) <= Cardinality(all)
         /\ NoMatch(CleanIdle, host) => CleanIdle = <<>>
<1>1. IsFiniteSet(all) /\ CleanAll \subseteq all
  BY CleanUp, FS_Subset, PoolAssumption DEF TypeInv, TypeOK, ConnectionPoolAssumption
<1>2. Cardinality(all) \in Nat /\ Cardinality(CleanAll) \in Nat
      /\ Cardinality(CleanAll) <= Cardinality(all)
  BY <1>1, FS_Subset, FS_CardinalityType
<1>3. ASSUME NoMatch(CleanIdle, host) PROVE CleanIdle = <<>>
  <2>1. CleanIdle \in Seq(Conns) /\ Len(CleanIdle) \in Nat
    BY CleanUp
  <2>2. \A i \in 1..Len(CleanIdle) : HostOf[CleanIdle[i]] = host
    BY <2>1, ElementOfSeq, PoolAssumption DEF ConnectionPoolAssumption
  <2>3. \A i \in 1..Len(CleanIdle) : FALSE
    BY <1>3, <2>2 DEF NoMatch
  <2>4. Len(CleanIdle) = 0
    BY <2>1, <2>3
  <2> QED BY <2>1, <2>4, EmptySeq
<1> QED BY <1>2, <1>3

\* Every search, successful or not, leaves the pool within its bound.
LEMMA SearchBound ==
  ASSUME TypeInv, BoundInv, NEW host, Hosts = {host},
         NEW t \in Threads, lock = None, want'[t] = host,
         \A u \in Threads : u # t => want'[u] = want[u],
         \/ Take(t, host)
         \/ Miss(t, host, "waiting")
         \/ Miss(t, host, "connecting") /\ Cardinality(CleanAll) < MaxConnections
  PROVE  BoundInv'
<1> USE DEF TypeInv, TypeOK
<1>1. /\ Cardinality(all) \in Nat /\ Cardinality(CleanAll) \in Nat
      /\ Cardinality(CleanAll) <= Cardinality(all)
  BY OneHostSearch
<1>2. \A u \in Threads : pc[u] # "connecting"
  BY PoolAssumption DEF BoundInv, ConnectionPoolAssumption
<1>3. all' = CleanAll /\ \A u \in Threads : u # t => pc'[u] = pc[u]
  BY DEF Take, Miss
<1>4. MaxConnections \in Nat
  BY PoolAssumption DEF ConnectionPoolAssumption
<1>5. Cardinality(all') <= MaxConnections
  BY <1>1, <1>3, <1>4 DEF BoundInv
<1>6. pc'[t] = "connecting" => lock' = t /\ Cardinality(all') < MaxConnections
  BY <1>3 DEF Take, Miss
<1> QED BY <1>2, <1>3, <1>5, <1>6 DEF BoundInv

LEMMA BoundStep ==
  ASSUME NEW host, Hosts = {host}
  PROVE  TypeInv /\ BoundInv /\ [Next]_vars => BoundInv'
<1> SUFFICES ASSUME TypeInv, BoundInv, [Next]_vars PROVE BoundInv'
  OBVIOUS
<1> USE DEF TypeInv, TypeOK
<1>0. None \notin Threads
  BY PoolAssumption DEF ConnectionPoolAssumption
<1>1. ASSUME NEW t \in Threads, GetConnection(t, host)
      PROVE  BoundInv'
  <2>1. lock = None /\ want' = [want EXCEPT ![t] = host]
    BY <1>1 DEF GetConnection
  <2>2. want'[t] = host /\ \A u \in Threads : u # t => want'[u] = want[u]
    BY <2>1
  <2> QED BY <1>1, <2>1, <2>2, SearchBound DEF GetConnection
<1>2. ASSUME NEW t \in Threads, Wake(t)
      PROVE  BoundInv'
  <2>1. lock = None /\ want' = want /\ want[t] = host
    BY <1>2 DEF Wake, BoundInv
  <2>2. MayProceed /\ NoMatch(CleanIdle, host) => Cardinality(CleanAll) < MaxConnections
    BY OneHostSearch DEF MayProceed
  <2> QED BY <1>2, <2>1, <2>2, SearchBound DEF Wake, Miss
<1>3. ASSUME NEW t \in Threads, SpuriousWakeup(t)
      PROVE  BoundInv'
  BY <1>3 DEF SpuriousWakeup, BoundInv
<1>4. ASSUME NEW t \in Threads, ConnectOk(t)
      PROVE  BoundInv'
  <2>1. PICK c \in Fresh : all' = all \cup {c}
    BY <1>4 DEF ConnectOk
  <2>2. Cardinality(all) < MaxConnections /\ lock = t /\ pc' = [pc EXCEPT ![t] = "holding"]
        /\ want' = want
    BY <1>4 DEF ConnectOk, BoundInv
  <2>3. IsFiniteSet(all) /\ Cardinality(all) \in Nat
    BY OneHostSearch, FS_Subset, PoolAssumption DEF ConnectionPoolAssumption
  <2>4. Cardinality(all') <= Cardinality(all) + 1 /\ Cardinality(all') \in Nat
    <3>1. IsFiniteSet(all') /\ Cardinality(all') =
            IF c \in all THEN Cardinality(all) ELSE Cardinality(all) + 1
      BY <2>1, <2>3, FS_AddElement
    <3> QED BY <2>3, <3>1, FS_CardinalityType
  <2>5. MaxConnections \in Nat
    BY PoolAssumption DEF ConnectionPoolAssumption
  <2>6. Cardinality(all') <= MaxConnections
    BY <2>2, <2>3, <2>4, <2>5
  <2>7. \A u \in Threads : pc'[u] # "connecting" /\ (u # t => pc'[u] = pc[u])
    BY <2>2 DEF BoundInv
  <2>8. pc[t] # "out"
    BY <1>4 DEF ConnectOk
  <2> QED BY <2>2, <2>6, <2>7, <2>8 DEF BoundInv
<1>5. ASSUME NEW t \in Threads, ConnectFail(t)
      PROVE  BoundInv'
  BY <1>5 DEF ConnectFail, BoundInv
<1>6. ASSUME NEW t \in Threads, NEW next \in {"returned", "out"}, Return(t, next),
             lock = None, pc[t] # "out", UNCHANGED <<all, lock, want>>
      PROVE  BoundInv'
  <2> DEFINE p == [pc EXCEPT ![t] = next]
  <2>1. pc' = p \/ \E w \in Threads : p[w] = "waiting" /\ pc' = [p EXCEPT ![w] = "notified"]
    <3> HIDE DEF p
    <3>1. \A x \in NotifyOne(p) :
             x = p \/ \E w \in Threads : p[w] = "waiting" /\ x = [p EXCEPT ![w] = "notified"]
      BY DEF NotifyOne
    <3>2. pc' = p \/ pc' \in NotifyOne(p)
      BY <1>6 DEF Return, p
    <3> QED BY <3>1, <3>2
  <2>2. \A u \in Threads : pc[u] # "connecting"
    BY <1>0, <1>6 DEF BoundInv
  <2>3. \A u \in Threads : /\ p[u] # "connecting"
                           /\ p[u] # "out" => want[u] \in Hosts
    BY <1>6, <2>2 DEF BoundInv
  <2>4. p \in [Threads -> Labels]
    BY DEF Labels
  <2> HIDE DEF p
  <2>5. ASSUME NEW w \in Threads, p[w] = "waiting", pc' = [p EXCEPT ![w] = "notified"]
        PROVE  \A u \in Threads : /\ pc'[u] # "connecting"
                                  /\ pc'[u] # "out" => want[u] \in Hosts
    BY <2>3, <2>4, <2>5
  <2>6. \A u \in Threads : /\ pc'[u] # "connecting"
                           /\ pc'[u] # "out" => want[u] \in Hosts
    BY <2>1, <2>3, <2>5
  <2> QED BY <1>6, <2>6 DEF BoundInv
<1>7. ASSUME NEW t \in Threads, ReturnConnection(t) \/ DropHandle(t)
      PROVE  BoundInv'
  BY <1>6, <1>7 DEF ReturnConnection, DropHandle
<1>8. ASSUME NEW t \in Threads, Invalidate(t)
      PROVE  BoundInv'
  BY <1>8 DEF Invalidate, BoundInv
<1>9. ASSUME CloseAllConnections
      PROVE  BoundInv'
  <2>1. Cardinality({}) = 0 /\ MaxConnections \in Nat
    BY FS_EmptySet, PoolAssumption DEF ConnectionPoolAssumption
  <2> QED BY <1>0, <1>9, <2>1 DEF CloseAllConnections, BoundInv
<1>10. ASSUME NEW c \in Conns, Expire(c)
       PROVE  BoundInv'
  BY <1>10 DEF Expire, BoundInv
<1>11. CASE UNCHANGED vars
  BY <1>11 DEF vars, BoundInv
<1> QED BY <1>1, <1>2, <1>3, <1>4, <1>5, <1>7, <1>8, <1>9, <1>10, <1>11
       DEF Next, Step, Finished

\* The invariant holds in every reachable state.
LEMMA OneHostInvariant ==
  ASSUME NEW host, Hosts = {host}
  PROVE  Spec => [](TypeInv /\ BoundInv)
<1>1. Init => BoundInv
  <2>1. Cardinality({}) = 0
    BY FS_EmptySet
  <2> QED BY <2>1, PoolAssumption DEF Init, BoundInv, ConnectionPoolAssumption
<1>2. TypeInv /\ BoundInv /\ [Next]_vars => BoundInv'
  BY BoundStep
<1> QED BY <1>1, <1>2, TypeInvariant, PTL DEF Spec

\* With one host, as Http_client uses it, the pool never exceeds
\* _max_connections, whatever the number of threads, expiries, failures,
\* spurious wake-ups and explicit returns.
THEOREM OneHostBound ==
  ASSUME NEW host, Hosts = {host}
  PROVE  Spec => []PoolBound
<1>1. BoundInv => PoolBound
  BY DEF BoundInv, PoolBound
<1> QED BY <1>1, OneHostInvariant, PTL

---------------------------------------------------------------------------
(* Hosts and expiry, whatever clients and environment do. *)

\* A handle exists only between get_connection and the destructor, and its
\* stream is connected to the host that was asked for.
HostInv ==
    \A t \in Threads : held[t] # None =>
        /\ pc[t] \in {"holding", "returned"}
        /\ HostOf[held[t]] = want[t]

LEMMA TakeHost ==
  ASSUME TypeInv, HostInv, NEW t \in Threads, NEW h, Take(t, h),
         want'[t] = h, \A u \in Threads : u # t => want'[u] = want[u]
  PROVE  HostInv'
<1>1. PICK i \in 1..Len(CleanIdle) :
        /\ FirstMatch(CleanIdle, h, i)
        /\ held' = [held EXCEPT ![t] = CleanIdle[i]]
        /\ pc' = [pc EXCEPT ![t] = "holding"]
  BY DEF Take
<1>2. HostOf[CleanIdle[i]] = h
  BY <1>1 DEF FirstMatch
<1> QED BY <1>1, <1>2 DEF HostInv, TypeInv, TypeOK

\* A return moves the returning thread and, at most, wakes one that waits.
LEMMA ReturnMoves ==
  ASSUME TypeInv, NEW t \in Threads, NEW next \in {"returned", "out"}, Return(t, next)
  PROVE  \A u \in Threads :
            \/ pc'[u] = IF u = t THEN next ELSE pc[u]
            \/ pc[u] = "waiting" /\ u # t /\ pc'[u] = "notified"
<1> DEFINE p == [pc EXCEPT ![t] = next]
<1>1. p \in [Threads -> Labels] /\ \A u \in Threads : p[u] = IF u = t THEN next ELSE pc[u]
  BY DEF TypeInv, TypeOK, Labels
<1> HIDE DEF p
<1>2. \A x \in NotifyOne(p) :
         x = p \/ \E w \in Threads : p[w] = "waiting" /\ x = [p EXCEPT ![w] = "notified"]
  BY DEF NotifyOne
<1>3. pc' = p \/ pc' \in NotifyOne(p)
  BY DEF Return, p
<1>4. CASE pc' = p
  BY <1>1, <1>4
<1>5. ASSUME NEW w \in Threads, p[w] = "waiting", pc' = [p EXCEPT ![w] = "notified"]
      PROVE  \A u \in Threads :
                \/ pc'[u] = IF u = t THEN next ELSE pc[u]
                \/ pc[u] = "waiting" /\ u # t /\ pc'[u] = "notified"
  <2>1. w # t /\ pc[w] = "waiting"
    BY <1>1, <1>5
  <2> QED BY <1>1, <1>5, <2>1
<1> QED BY <1>2, <1>3, <1>4, <1>5

LEMMA HostStep == TypeInv /\ HostInv /\ [Next]_vars => HostInv'
<1> SUFFICES ASSUME TypeInv, HostInv, [Next]_vars PROVE HostInv'
  OBVIOUS
<1> USE DEF TypeInv, TypeOK
<1>1. ASSUME NEW t \in Threads, NEW h \in Hosts, GetConnection(t, h)
      PROVE  HostInv'
  <2>1. pc[t] = "out" /\ want' = [want EXCEPT ![t] = h]
    BY <1>1 DEF GetConnection
  <2>2. want'[t] = h /\ \A u \in Threads : u # t => want'[u] = want[u]
    BY <2>1
  <2>3. CASE Take(t, h)
    BY <2>2, <2>3, TakeHost
  <2>4. CASE Miss(t, h, "connecting") \/ Miss(t, h, "waiting")
    BY <2>1, <2>2, <2>4 DEF Miss, HostInv
  <2> QED BY <1>1, <2>3, <2>4 DEF GetConnection
<1>2. ASSUME NEW t \in Threads, Wake(t)
      PROVE  HostInv'
  <2>1. pc[t] = "notified" /\ want' = want
    BY <1>2 DEF Wake
  <2>2. CASE Take(t, want[t])
    BY <2>1, <2>2, TakeHost
  <2>3. CASE Miss(t, want[t], "connecting") \/ Miss(t, want[t], "waiting")
    BY <2>1, <2>3 DEF Miss, HostInv
  <2> QED BY <1>2, <2>2, <2>3 DEF Wake
<1>3. ASSUME NEW t \in Threads, SpuriousWakeup(t)
      PROVE  HostInv'
  BY <1>3 DEF SpuriousWakeup, HostInv
<1>4. ASSUME NEW t \in Threads, ConnectOk(t)
      PROVE  HostInv'
  BY <1>4 DEF ConnectOk, HostInv
<1>5. ASSUME NEW t \in Threads, ConnectFail(t)
      PROVE  HostInv'
  BY <1>5 DEF ConnectFail, HostInv
<1>6. ASSUME NEW t \in Threads, ReturnConnection(t)
      PROVE  HostInv'
  <2>1. Return(t, "returned") /\ held' = held /\ want' = want /\ pc[t] = "holding"
    BY <1>6 DEF ReturnConnection
  <2> QED BY <2>1, ReturnMoves DEF HostInv
<1>7. ASSUME NEW t \in Threads, DropHandle(t)
      PROVE  HostInv'
  <2>1. Return(t, "out") /\ held' = [held EXCEPT ![t] = None] /\ want' = want
    BY <1>7 DEF DropHandle
  <2> QED BY <2>1, ReturnMoves DEF HostInv
<1>8. ASSUME NEW t \in Threads, Invalidate(t)
      PROVE  HostInv'
  BY <1>8 DEF Invalidate, HostInv
<1>9. CASE CloseAllConnections
  BY <1>9 DEF CloseAllConnections, HostInv
<1>10. ASSUME NEW c \in Conns, Expire(c)
       PROVE  HostInv'
  BY <1>10 DEF Expire, HostInv
<1>11. CASE UNCHANGED vars
  BY <1>11 DEF vars, HostInv
<1> QED BY <1>1, <1>2, <1>3, <1>4, <1>5, <1>6, <1>7, <1>8, <1>9, <1>10, <1>11
       DEF Next, Step, Finished

\* The stream a caller gets is connected to the host it asked for, whatever
\* the others ask for and whatever happens to the pool meanwhile.
THEOREM HandsOutTheRightHost == Spec => []RightHost
<1>1. Init => HostInv
  BY DEF Init, HostInv
<1>2. HostInv => RightHost
  BY DEF HostInv, RightHost
<1> QED BY <1>1, <1>2, TypeInvariant, HostStep, PTL DEF Spec

\* An entry past its timeout is never handed out: find_idle_connection only
\* sees what cleanup_expired_connections has left, and a new stream is not yet
\* an entry.
THEOREM ExpiredIsNotHandedOut == Spec => NeverExpired
<1> DEFINE Good == \A t \in Threads :
                      held'[t] # held[t] /\ held'[t] \in all => held'[t] \notin stale
<1>1. ASSUME TypeInv, [Next]_vars PROVE Good \/ UNCHANGED vars
  <2> USE DEF TypeInv, TypeOK
  <2>1. ASSUME NEW t \in Threads, NEW h, Take(t, h)
        PROVE  Good
    <3>1. PICK i \in 1..Len(CleanIdle) : held' = [held EXCEPT ![t] = CleanIdle[i]]
      BY <2>1 DEF Take
    <3>2. CleanIdle[i] \notin stale
      BY <1>1, CleanUp
    <3> QED BY <1>1, <3>1, <3>2
  <2>2. ASSUME NEW t \in Threads, ConnectOk(t)
        PROVE  Good
    BY <1>1, <2>2 DEF ConnectOk, Fresh
  <2>3. ASSUME NEW t \in Threads, DropHandle(t)
        PROVE  Good
    <3>1. held' = [held EXCEPT ![t] = None] /\ None \notin all
      BY <1>1, <2>3, PoolAssumption DEF DropHandle, ConnectionPoolAssumption
    <3> QED BY <1>1, <3>1
  <2>4. CASE held' = held
    BY <2>4
  <2> QED BY <1>1, <2>1, <2>2, <2>3, <2>4
          DEF Next, Step, Finished, GetConnection, Wake, Miss, SpuriousWakeup,
              ConnectFail, ReturnConnection, Invalidate, CloseAllConnections, Expire
<1> HIDE DEF Good
<1>2. Spec => [][Good]_vars
  BY <1>1, TypeInvariant, PTL DEF Spec
<1> QED BY <1>2 DEF Good, NeverExpired

---------------------------------------------------------------------------
(* The books of the pool, for clients that use handles as scope guards.  In *)
(* a pool without a use for it an entry would be lost in two ways: it is    *)
(* marked in_use though no handle has it, or it is free though not queued.  *)

\* Every entry in use is in a handle, which will return it.
InUseInv ==
    /\ \A t \in Threads : pc[t] = "holding" => t \in valid
    /\ \A c \in in_use : \E t \in Threads : pc[t] = "holding" /\ held[t] = c

\* Every other entry is queued.
FreeInv == all \ in_use \subseteq Range(idle)

\* Clean-up takes no entry that is in use.
LEMMA CleanUpInUse ==
  ASSUME ExclusiveInv
  PROVE  in_use \cap CleanAll = in_use
BY DEF ExclusiveInv, QueueInv, TypeInv, TypeOK, CleanAll

LEMMA InUseStep == ExclusiveInv /\ InUseInv /\ [ScopedNext]_vars => InUseInv'
<1> SUFFICES ASSUME ExclusiveInv, InUseInv, [ScopedNext]_vars PROVE InUseInv'
  OBVIOUS
<1> USE DEF ExclusiveInv, TypeInv, TypeOK
<1>0. None \notin Conns
  BY PoolAssumption DEF ConnectionPoolAssumption
<1>1. ASSUME NEW t \in Threads, NEW h, pc[t] # "holding", Take(t, h)
      PROVE  InUseInv'
  <2>1. PICK c \in Conns : /\ in_use' = (in_use \cap CleanAll) \cup {c}
                           /\ held' = [held EXCEPT ![t] = c]
    <3>1. \A i \in 1..Len(CleanIdle) : CleanIdle[i] \in Conns
      BY CleanUp
    <3> QED BY <1>1, <3>1 DEF Take
  <2>2. valid' = valid \cup {t} /\ pc' = [pc EXCEPT ![t] = "holding"]
    BY <1>1 DEF Take
  <2> QED BY <1>1, <2>1, <2>2 DEF InUseInv
<1>2. ASSUME NEW t \in Threads, NEW h, pc[t] # "holding",
             NEW next \in {"connecting", "waiting"}, Miss(t, h, next)
      PROVE  InUseInv'
  BY <1>2, CleanUpInUse DEF Miss, InUseInv
<1>3. ASSUME NEW t \in Threads, NEW h \in Hosts, GetConnection(t, h)
      PROVE  InUseInv'
  BY <1>1, <1>2, <1>3 DEF GetConnection
<1>4. ASSUME NEW t \in Threads, Wake(t)
      PROVE  InUseInv'
  BY <1>1, <1>2, <1>4 DEF Wake
<1>5. ASSUME NEW t \in Threads, SpuriousWakeup(t)
      PROVE  InUseInv'
  BY <1>5 DEF SpuriousWakeup, InUseInv
<1>6. ASSUME NEW t \in Threads, ConnectOk(t)
      PROVE  InUseInv'
  <2>1. PICK c \in Conns : /\ in_use' = in_use \cup {c}
                           /\ held' = [held EXCEPT ![t] = c]
    BY <1>6 DEF ConnectOk, Fresh
  <2>2. /\ pc[t] = "connecting" /\ pc' = [pc EXCEPT ![t] = "holding"]
        /\ valid' = valid \cup {t}
    BY <1>6 DEF ConnectOk
  <2> QED BY <2>1, <2>2 DEF InUseInv
<1>7. ASSUME NEW t \in Threads, ConnectFail(t)
      PROVE  InUseInv'
  BY <1>7 DEF ConnectFail, InUseInv
<1>8. ASSUME NEW t \in Threads, DropHandle(t)
      PROVE  InUseInv'
  <2>1. /\ pc[t] = "holding" /\ t \in valid
        /\ Return(t, "out")
        /\ held' = [held EXCEPT ![t] = None] /\ valid' = valid \ {t}
    BY <1>8 DEF DropHandle, HandleInv, InUseInv
  <2>2. \A u \in Threads : pc'[u] = "holding" <=> u # t /\ pc[u] = "holding"
    BY <2>1, ReturnMoves
  <2>3. in_use' = in_use \ {held[t]}
    BY <2>1 DEF Return
  <2> QED BY <2>1, <2>2, <2>3 DEF InUseInv
<1>9. CASE CloseAllConnections
  BY <1>9 DEF CloseAllConnections, InUseInv
<1>10. ASSUME NEW c \in Conns, Expire(c)
       PROVE  InUseInv'
  BY <1>10 DEF Expire, InUseInv
<1>11. CASE UNCHANGED vars
  BY <1>11 DEF vars, InUseInv
<1> QED BY <1>3, <1>4, <1>5, <1>6, <1>7, <1>8, <1>9, <1>10, <1>11
       DEF ScopedNext, ScopedStep

\* A pop of the first element loses no other.
LEMMA PopFirst ==
  ASSUME NEW S, NEW q \in Seq(S), Len(q) > 0
  PROVE  Range(q) \subseteq {q[1]} \cup Range(SubSeq(q, 2, Len(q)))
<1> DEFINE n == Len(q)
           rest == SubSeq(q, 2, n)
<1>1. n \in Nat /\ n > 0 /\ DOMAIN q = 1..n /\ \A j \in 1..n : q[j] \in S
  BY LenProperties, ElementOfSeq
<1>2. 2 \in Int /\ n \in Int /\ \A j \in 2..n : q[j] \in S
  BY <1>1
<1>3. /\ rest \in Seq(S)
      /\ Len(rest) = n - 1
      /\ \A j \in 1..(n - 1) : rest[j] = q[j + 1]
  <2>1. /\ rest \in Seq(S)
        /\ Len(rest) = IF 2 <= n THEN n - 2 + 1 ELSE 0
        /\ \A j \in 1..(n - 2 + 1) : rest[j] = q[2 + j - 1]
    <3> HIDE DEF n
    <3> QED BY <1>2, SubSeqProperties
  <2>2. \A j \in 1..(n - 1) : 2 + j - 1 = j + 1
    BY <1>1
  <2> HIDE DEF n, rest
  <2> QED BY <1>1, <2>1, <2>2
<1>4. DOMAIN rest = 1..(n - 1)
  BY <1>3, LenProperties
<1> HIDE DEF n, rest
<1>5. \A k \in 2..n : q[k] \in Range(rest)
  <2> TAKE k \in 2..n
  <2>1. k - 1 \in 1..(n - 1) /\ (k - 1) + 1 = k
    BY <1>1
  <2> QED BY <1>3, <1>4, <2>1 DEF Range
<1>6. \A k \in 1..n : k = 1 \/ k \in 2..n
  BY <1>1
<1> QED BY <1>1, <1>5, <1>6 DEF Range, n, rest

\* With one host a search takes the first entry or finds the queue empty, so
\* that no entry leaves the queue unused.
LEMMA FreeStep ==
  ASSUME NEW host, Hosts = {host}
  PROVE  ExclusiveInv /\ BoundInv /\ InUseInv /\ FreeInv /\ [ScopedNext]_vars => FreeInv'
<1> SUFFICES ASSUME ExclusiveInv, BoundInv, InUseInv, FreeInv, [ScopedNext]_vars
             PROVE  FreeInv'
  OBVIOUS
<1> USE DEF ExclusiveInv, TypeInv, TypeOK
<1>0. CleanAll \ in_use \subseteq Range(CleanIdle)
  BY CleanUp DEF FreeInv, CleanAll
<1>1. ASSUME NEW t \in Threads, NEW h \in Hosts, Take(t, h)
      PROVE  FreeInv'
  <2>1. PICK i \in 1..Len(CleanIdle) :
          /\ FirstMatch(CleanIdle, h, i)
          /\ idle' = SubSeq(CleanIdle, i + 1, Len(CleanIdle))
          /\ all' = CleanAll
          /\ in_use' = (in_use \cap CleanAll) \cup {CleanIdle[i]}
    BY <1>1 DEF Take
  <2>2. CleanIdle \in Seq(Conns) /\ Len(CleanIdle) \in Nat
    BY CleanUp
  <2>3. i = 1
    <3>1. HostOf[CleanIdle[1]] = h
      BY <2>1, <2>2, ElementOfSeq, PoolAssumption DEF ConnectionPoolAssumption
    <3>2. 1 \in 1..(i - 1) => FALSE
      BY <2>1, <3>1 DEF FirstMatch
    <3> QED BY <2>2, <3>2
  <2>4. Range(CleanIdle) \subseteq {CleanIdle[1]} \cup Range(idle')
    <3>1. Len(CleanIdle) > 0 /\ 1 + 1 = 2
      BY <2>2, <2>3
    <3> QED BY <2>1, <2>2, <2>3, <3>1, PopFirst
  <2> QED BY <1>0, <2>1, <2>3, <2>4 DEF FreeInv
<1>2. ASSUME NEW t \in Threads, NEW h \in Hosts,
             NEW next \in {"connecting", "waiting"}, Miss(t, h, next)
      PROVE  FreeInv'
  <2>1. CleanIdle = <<>>
    BY <1>2, OneHostSearch DEF Miss
  <2>2. /\ idle' = <<>> /\ all' = CleanAll /\ in_use' = in_use \cap CleanAll
    BY <1>2 DEF Miss
  <2> QED BY <1>0, <2>1, <2>2 DEF FreeInv
<1>3. ASSUME NEW t \in Threads, NEW h \in Hosts, GetConnection(t, h)
      PROVE  FreeInv'
  BY <1>1, <1>2, <1>3 DEF GetConnection
<1>4. ASSUME NEW t \in Threads, Wake(t)
      PROVE  FreeInv'
  BY <1>1, <1>2, <1>4 DEF Wake, BoundInv
<1>5. ASSUME NEW t \in Threads, SpuriousWakeup(t)
      PROVE  FreeInv'
  BY <1>5 DEF SpuriousWakeup, FreeInv
<1>6. ASSUME NEW t \in Threads, ConnectOk(t)
      PROVE  FreeInv'
  BY <1>6 DEF ConnectOk, FreeInv
<1>7. ASSUME NEW t \in Threads, ConnectFail(t)
      PROVE  FreeInv'
  BY <1>7 DEF ConnectFail, FreeInv
<1>8. ASSUME NEW t \in Threads, DropHandle(t)
      PROVE  FreeInv'
  <2>1. /\ pc[t] = "holding" /\ t \in valid
        /\ Return(t, "out") /\ all' = all
    BY <1>8 DEF DropHandle, HandleInv, InUseInv
  <2>2. CASE held[t] \in all
    <3>1. in_use' = in_use \ {held[t]} /\ idle' = Append(idle, held[t])
      BY <2>1, <2>2 DEF Return
    <3>2. Range(idle') = Range(idle) \cup {held[t]}
      BY <2>2, <3>1, PushProperties
    <3> QED BY <2>1, <3>1, <3>2 DEF FreeInv
  <2>3. CASE held[t] \notin all
    BY <2>1, <2>3 DEF Return, FreeInv
  <2> QED BY <2>2, <2>3
<1>9. CASE CloseAllConnections
  BY <1>9 DEF CloseAllConnections, FreeInv
<1>10. ASSUME NEW c \in Conns, Expire(c)
       PROVE  FreeInv'
  BY <1>10 DEF Expire, FreeInv
<1>11. CASE UNCHANGED vars
  BY <1>11 DEF vars, FreeInv
<1> QED BY <1>3, <1>4, <1>5, <1>6, <1>7, <1>8, <1>9, <1>10, <1>11
       DEF ScopedNext, ScopedStep

\* With one host and clients that use handles as scope guards, every entry is
\* either in exactly one handle's use or queued exactly once, for any number of
\* threads, any pool size, and with expiry, failing attempts, spurious wake-ups
\* and close_all_connections.
THEOREM NothingIsLost ==
  ASSUME NEW host, Hosts = {host},
         "explicit_return" \notin Env, "invalidate" \notin Env
  PROVE  Spec => []Accounted
<1> DEFINE Inv == ExclusiveInv /\ BoundInv /\ InUseInv /\ FreeInv
<1>1. [Next]_vars => [ScopedNext]_vars
  BY DEF Next, Step, Finished, ReturnConnection, Invalidate, ScopedNext, ScopedStep
<1>2. Init => InUseInv /\ FreeInv
  BY DEF Init, InUseInv, FreeInv
<1>3. Inv /\ [Next]_vars => InUseInv' /\ FreeInv'
  BY <1>1, InUseStep, FreeStep
<1>4. Inv => Accounted
  <2> SUFFICES ASSUME Inv PROVE Accounted
    OBVIOUS
  <2>1. IsInjective(idle) /\ Range(idle) = all \ in_use
    BY DEF ExclusiveInv, TypeInv, QueueInv, FreeInv
  <2> QED BY <2>1 DEF Accounted, InUseInv
<1>5. Spec => [](TypeInv /\ BoundInv)
  BY OneHostInvariant
<1> QED BY <1>2, <1>3, <1>4, <1>5, ExclusiveInvariant, PTL DEF Spec

---------------------------------------------------------------------------
(* Wake-ups, whatever clients and environment do: each return wakes a       *)
(* waiter, and whoever starts to wait has just emptied the queue.           *)

Notified == {t \in Threads : pc[t] = "notified"}

\* Entries leave the queue with a search, and are fewer after each.
LEMMA SearchShrinks ==
  ASSUME TypeInv, NEW t \in Threads, NEW h
  PROVE  /\ Len(idle) \in Nat
         /\ Take(t, h) => Len(idle') \in Nat /\ Len(idle') + 1 <= Len(idle)
         /\ \A next : Miss(t, h, next) => Len(idle') = 0
<1>1. idle \in Seq(Conns) /\ Len(idle) \in Nat
  BY LenProperties DEF TypeInv, TypeOK
<1>2. Len(CleanIdle) \in Nat /\ Len(CleanIdle) <= Len(idle)
  <2> DEFINE P == LivePositions(idle, stale)
  <2>1. P \in SUBSET (1..Len(idle))
    BY DEF LivePositions
  <2>2. Len(CleanIdle) = Cardinality(P)
    BY <1>1, <2>1, SubsequenceProperties DEF CleanIdle, Live
  <2>3. Cardinality(P) <= Len(idle) /\ Cardinality(P) \in Nat
    <3>1. IsFiniteSet(1..Len(idle)) /\ Cardinality(1..Len(idle)) = Len(idle)
      BY <1>1, FS_Interval
    <3> HIDE DEF P
    <3> QED BY <2>1, <3>1, FS_Subset, FS_CardinalityType
  <2> QED BY <2>2, <2>3
<1>3. ASSUME Take(t, h) PROVE Len(idle') \in Nat /\ Len(idle') + 1 <= Len(idle)
  <2>1. PICK i \in 1..Len(CleanIdle) : idle' = SubSeq(CleanIdle, i + 1, Len(CleanIdle))
    BY <1>3 DEF Take
  <2>2. CleanIdle \in Seq(Conns) /\ \A j \in (i + 1)..Len(CleanIdle) : CleanIdle[j] \in Conns
    <3>1. CleanIdle \in Seq(Conns)
      BY CleanUp
    <3> QED BY <1>2, <3>1, ElementOfSeq
  <2>3. i \in Int /\ i + 1 \in Int /\ i >= 1 /\ i <= Len(CleanIdle) /\ Len(CleanIdle) \in Int
    BY <1>2
  <2>4. Len(idle') = IF i + 1 <= Len(CleanIdle) THEN Len(CleanIdle) - (i + 1) + 1 ELSE 0
    BY <2>1, <2>2, <2>3, SubSeqProperties
  <2> QED BY <1>1, <1>2, <2>3, <2>4
<1>4. ASSUME NEW next, Miss(t, h, next) PROVE Len(idle') = 0
  BY <1>4, EmptySeq DEF Miss
<1> QED BY <1>1, <1>3, <1>4

\* A step that changes no label and no queue length.
LEMMA WakeupStutter ==
  ASSUME NoLostWakeup, idle' = idle,
         \A u \in Threads : (pc'[u] = "waiting") = (pc[u] = "waiting")
                            /\ (pc'[u] = "notified") = (pc[u] = "notified")
  PROVE  NoLostWakeup'
<1>1. {u \in Threads : pc'[u] = "notified"} = {u \in Threads : pc[u] = "notified"}
  OBVIOUS
<1> QED BY <1>1 DEF NoLostWakeup

LEMMA WakeupStep ==
  ASSUME IsFiniteSet(Threads)
  PROVE  TypeInv /\ NoLostWakeup /\ [Next]_vars => NoLostWakeup'
<1> SUFFICES ASSUME TypeInv, NoLostWakeup, [Next]_vars PROVE NoLostWakeup'
  OBVIOUS
<1> USE DEF TypeInv, TypeOK
<1>0. /\ IsFiniteSet(Notified) /\ Cardinality(Notified) \in Nat
      /\ Cardinality(Notified') \in Nat
  <2>1. Notified \in SUBSET Threads /\ Notified' \in SUBSET Threads
    BY DEF Notified
  <2> QED BY <2>1, FS_Subset, FS_CardinalityType
<1>a. Len(idle) \in Nat
  BY LenProperties
<1>b. ASSUME Len(idle') = 0 PROVE NoLostWakeup'
  BY <1>0, <1>b DEF NoLostWakeup, Notified
<1>1. ASSUME NEW t \in Threads, NEW h, pc[t] = "out", Take(t, h)
      PROVE  NoLostWakeup'
  <2>1. pc' = [pc EXCEPT ![t] = "holding"]
    BY <1>1 DEF Take
  <2>2. Notified' = Notified /\ \A u \in Threads : pc'[u] = "waiting" => pc[u] = "waiting"
    BY <1>1, <2>1 DEF Notified
  <2>3. Cardinality(Notified') = Cardinality(Notified)
    BY <2>2
  <2>4. Len(idle') \in Nat /\ Len(idle') + 1 <= Len(idle)
    BY <1>1, SearchShrinks
  <2> QED BY <1>0, <1>a, <2>2, <2>3, <2>4 DEF NoLostWakeup, Notified
<1>2. ASSUME NEW t \in Threads, NEW h, pc[t] = "notified", Take(t, h)
      PROVE  NoLostWakeup'
  <2>1. pc' = [pc EXCEPT ![t] = "holding"]
    BY <1>2 DEF Take
  <2>2. Notified' = Notified \ {t} /\ t \in Notified
        /\ \A u \in Threads : pc'[u] = "waiting" => pc[u] = "waiting"
    BY <1>2, <2>1 DEF Notified
  <2>3. Cardinality(Notified') = Cardinality(Notified) - 1
    BY <1>0, <2>2, FS_RemoveElement
  <2>4. Len(idle') \in Nat /\ Len(idle') + 1 <= Len(idle)
    BY <1>2, SearchShrinks
  <2> QED BY <1>0, <1>a, <2>2, <2>3, <2>4 DEF NoLostWakeup, Notified
<1>3. ASSUME NEW t \in Threads, NEW h \in Hosts, GetConnection(t, h)
      PROVE  NoLostWakeup'
  BY <1>b, <1>1, <1>3, SearchShrinks DEF GetConnection
<1>4. ASSUME NEW t \in Threads, Wake(t)
      PROVE  NoLostWakeup'
  BY <1>b, <1>2, <1>4, SearchShrinks DEF Wake
<1>5. ASSUME NEW t \in Threads, SpuriousWakeup(t)
      PROVE  NoLostWakeup'
  <2>1. pc[t] = "waiting" /\ pc' = [pc EXCEPT ![t] = "notified"] /\ idle' = idle
    BY <1>5 DEF SpuriousWakeup
  <2>2. Notified' = Notified \cup {t} /\ t \notin Notified
    BY <2>1 DEF Notified
  <2>3. Cardinality(Notified') = Cardinality(Notified) + 1
    BY <1>0, <2>2, FS_AddElement
  <2> QED BY <1>0, <1>a, <2>1, <2>3 DEF NoLostWakeup, Notified
<1>6. ASSUME NEW t \in Threads, ConnectOk(t) \/ ConnectFail(t)
      PROVE  NoLostWakeup'
  BY <1>6, WakeupStutter DEF ConnectOk, ConnectFail
<1>7. ASSUME NEW t \in Threads, NEW next \in {"returned", "out"}, Return(t, next),
             pc[t] \in {"holding", "returned"}
      PROVE  NoLostWakeup'
  <2> DEFINE p == [pc EXCEPT ![t] = next]
             W == {w \in Threads : p[w] = "waiting"}
  <2>1. \A u \in Threads : /\ p[u] = "waiting" <=> pc[u] = "waiting"
                           /\ p[u] = "notified" <=> pc[u] = "notified"
    BY <1>7
  <2>2. p \in [Threads -> Labels]
    BY DEF Labels
  <2> HIDE DEF p
  <2>3. CASE idle' = idle /\ pc' = p
    BY <2>1, <2>3, WakeupStutter
  <2>4. CASE W = {} /\ pc' = p
    BY <2>1, <2>4 DEF NoLostWakeup
  <2>5. ASSUME NEW w \in W, pc' = [p EXCEPT ![w] = "notified"],
               idle' = Append(idle, held[t]), held[t] \in Conns
        PROVE  NoLostWakeup'
    <3>1. Notified' = Notified \cup {w} /\ w \notin Notified
      BY <2>1, <2>2, <2>5 DEF Notified
    <3>2. Cardinality(Notified') = Cardinality(Notified) + 1
      BY <1>0, <3>1, FS_AddElement
    <3>3. Len(idle') = Len(idle) + 1
      BY <2>5, AppendProperties
    <3>4. pc[w] = "waiting"
      BY <2>1
    <3> QED BY <1>0, <1>a, <3>2, <3>3, <3>4 DEF NoLostWakeup, Notified
  <2>6. \/ idle' = idle /\ pc' = p
        \/ idle' = Append(idle, held[t]) /\ pc' \in NotifyOne(p) /\ held[t] \in Conns
    BY <1>7 DEF Return, p
  <2>7. \A x \in NotifyOne(p) : \/ W = {} /\ x = p
                                \/ \E w \in W : x = [p EXCEPT ![w] = "notified"]
    BY DEF NotifyOne
  <2> QED BY <2>3, <2>4, <2>5, <2>6, <2>7
<1>8. ASSUME NEW t \in Threads, ReturnConnection(t) \/ DropHandle(t)
      PROVE  NoLostWakeup'
  BY <1>7, <1>8 DEF ReturnConnection, DropHandle
<1>9. ASSUME NEW t \in Threads, Invalidate(t)
      PROVE  NoLostWakeup'
  BY <1>9 DEF Invalidate, NoLostWakeup
<1>10. CASE CloseAllConnections
  BY <1>b, <1>10, EmptySeq DEF CloseAllConnections
<1>11. ASSUME NEW c \in Conns, Expire(c)
       PROVE  NoLostWakeup'
  BY <1>11 DEF Expire, NoLostWakeup
<1>12. CASE UNCHANGED vars
  BY <1>12 DEF vars, NoLostWakeup
<1> QED BY <1>3, <1>4, <1>5, <1>6, <1>8, <1>9, <1>10, <1>11, <1>12
       DEF Next, Step, Finished

\* While a thread sleeps on _pool_cv there are at least as many woken threads as
\* idle connections, for any number of threads, streams and hosts and whatever
\* clients and environment do.
THEOREM WakeupsSuffice ==
  ASSUME IsFiniteSet(Threads)
  PROVE  Spec => []NoLostWakeup
<1>1. Init => NoLostWakeup
  BY DEF Init, NoLostWakeup
<1> QED BY <1>1, TypeInvariant, WakeupStep, PTL DEF Spec
=============================================================================
