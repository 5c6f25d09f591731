\* Two threads, two operations, two crashes, none of them inside a save; the file
\* cannot always be opened for writing.  A thread in process_pending_operations keeps
\* the mutex for ever, so the system may stop.
SPECIFICATION Spec
CONSTANTS
    None = None
    Absent = Absent
    Torn = Torn
    Threads = {t1, t2}
    Ids = {o1, o2}
    BadIds = {}
    MaxCrashes = 2
    Env = {"open_fail", "process"}
SYMMETRY Symmetry
INVARIANTS TypeOK Durable NoResurrection
CHECK_DEADLOCK FALSE
