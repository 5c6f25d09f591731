\* A crash between the truncation and the write of operations.json.
SPECIFICATION Spec
CONSTANTS
    None = None
    Absent = Absent
    Torn = Torn
    Threads = {t1}
    Ids = {o1, o2}
    BadIds = {}
    MaxCrashes = 1
    Env = {"crash_in_save"}
INVARIANTS Durable
