\* Two threads or a page reader, a pool of one entry; the clock advances in slow
\* requests too.
SPECIFICATION PathBounded
CONSTANTS
    None = None
    server = server
    Threads = {t1, t2}
    Conns = {c1}
    Hosts = {server}
    HostOf <- OneServer
    MaxConnections = 1
    MaxCalls = 3
    Env = {"connect_fail"}
    Limits <- PathLimits
    Minute = 2
    Hour = 50
    MaxSlack = 2
SYMMETRY AnyThread
INVARIANTS WireBurst ReaderKeepsDistance
