\* One host; a returned connection expires before the woken thread runs, whose
\* own connection attempt then fails.  The other waiter sleeps for ever.
SPECIFICATION FairSpec
CONSTANTS
    a1 = a1
    a2 = a2
    a3 = a3
    a4 = a4
    b1 = b1
    b2 = b2
    b3 = b3
    hostA = hostA
    hostB = hostB
    None = None
    Threads = {t1, t2, t3}
    Conns = {a1, a2}
    Hosts = {hostA}
    HostOf <- OneHost
    MaxConnections = 1
    MaxCalls = 1
    Env = {"expire", "connect_fail"}
PROPERTIES GetReturns
CHECK_DEADLOCK FALSE
