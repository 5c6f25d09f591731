\* Three threads, a pool of one entry: connection attempts fail, the server closes
\* connections, entries expire.  A waiter may sleep for ever after an expiry
\* (Pool_lost_wakeup.cfg), so the system may stop.
SPECIFICATION HttpFairSpec
CONSTANTS
    None = None
    server = server
    Threads = {t1, t2, t3}
    Conns = {c1, c2, c3}
    Hosts = {server}
    HostOf <- OneServer
    MaxConnections = 1
    MaxCalls = 2
    Env = {"expire", "connect_fail"}
INVARIANTS HttpTypeOK NoLeak
PROPERTIES RequestsEnd
CHECK_DEADLOCK FALSE
