-------------------------------- MODULE Cache --------------------------------
(***************************************************************************)
(* Cache<Key, Value>: a map whose entries carry the time they were stored   *)
(* at.  A cache is the record of its _enabled flag and its entries; the     *)
(* operators are its methods, each of which runs under its mutex.  Hit and  *)
(* miss counters only feed the statistics and are left out.                *)
(***************************************************************************)
EXTENDS Integers, FiniteSets, Functions

CONSTANTS
    Ttl,     \* _default_ttl; no caller passes another
    MaxSize  \* _max_size

ASSUME CacheAssumption == Ttl \in Nat /\ MaxSize \in Nat

EmptyCache(enabled) == [enabled |-> enabled, entries |-> <<>>]

\* Mutant: an entry never expires.
NeverExpired(entry, now) == FALSE

IsExpired(entry, now) == now - entry.timestamp > Ttl

CleanupExpired(entries, now) ==
    Restrict(entries, {k \in DOMAIN entries : ~IsExpired(entries[k], now)})

\* get returns a value ...
Hit(c, key, now) ==
    /\ c.enabled
    /\ key \in DOMAIN c.entries
    /\ ~IsExpired(c.entries[key], now)

\* ... and erases the entry when it has expired.
AfterGet(c, key, now) ==
    IF c.enabled /\ ~Hit(c, key, now)
    THEN [c EXCEPT !.entries = Restrict(@, DOMAIN @ \ {key})]
    ELSE c

\* A full cache loses what has expired, and nothing else.
Trim(entries, now) ==
    IF Cardinality(DOMAIN entries) > MaxSize
    THEN CleanupExpired(entries, now)
    ELSE entries

Put(c, key, value, now) ==
    LET entry == [value |-> value, timestamp |-> now]
        entries == [k \in DOMAIN c.entries \cup {key} |->
                        IF k = key THEN entry ELSE c.entries[k]]
    IN  IF c.enabled THEN [c EXCEPT !.entries = Trim(entries, now)] ELSE c
=============================================================================
