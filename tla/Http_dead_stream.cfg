\* The server closes a connection once; the pool keeps handing it out.
SPECIFICATION HttpSpec
CONSTANTS
    None = None
    server = server
    Threads = {t1, t2}
    Conns = {c1, c2}
    Hosts = {server}
    HostOf <- OneServer
    MaxConnections = 1
    MaxCalls = 2
    Env = {}
PROPERTIES NoDeadStream
CHECK_DEADLOCK FALSE
