\* Three threads on a pool of two entries, one host, as Http_client uses the pool.
\* Entries expire and waits end spuriously; connections can always be made.
SPECIFICATION FairSpec
CONSTANTS
    a1 = a1
    a2 = a2
    a3 = a3
    a4 = a4
    b1 = b1
    b2 = b2
    b3 = b3
    hostA = hostA
    hostB = hostB
    None = None
    Threads = {t1, t2, t3}
    Conns = {a1, a2, a3}
    Hosts = {hostA}
    HostOf <- OneHost
    MaxConnections = 2
    MaxCalls = 2
    Env = {"expire", "spurious"}
INVARIANTS TypeOK Exclusive PoolBound Accounted NoLostWakeup
PROPERTIES GetReturns
