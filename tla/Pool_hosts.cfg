\* Beyond what Http_client does: two hosts on a pool of one entry, handles that are
\* returned explicitly or invalidated, close_all_connections, failing connection
\* attempts.  A waiter may sleep for ever here, so the system may stop.
SPECIFICATION Spec
CONSTANTS
    a1 = a1
    a2 = a2
    a3 = a3
    a4 = a4
    b1 = b1
    b2 = b2
    b3 = b3
    hostA = hostA
    hostB = hostB
    None = None
    Threads = {t1, t2}
    Conns = {a1, a2, a3, b1, b2, b3}
    Hosts = {hostA, hostB}
    HostOf <- TwoHosts
    MaxConnections = 1
    MaxCalls = 2
    Env = {"expire", "connect_fail", "explicit_return", "invalidate", "close"}
SYMMETRY TwoHostSymmetry
INVARIANTS RightHost
PROPERTIES NeverExpired
CHECK_DEADLOCK FALSE
