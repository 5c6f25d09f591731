\* process_pending_operations while online.
SPECIFICATION FairSpec
CONSTANTS
    None = None
    Absent = Absent
    Torn = Torn
    Threads = {t1, t2}
    Ids = {o1}
    BadIds = {}
    MaxCrashes = 0
    Env = {"process"}
PROPERTIES CallsReturn
CHECK_DEADLOCK FALSE
