\* A filter that the pages after the first do not apply.
SPECIFICATION Spec
CONSTANTS
    Pending = Pending
    Lists <- Lists9
    Selections <- SomeCards
    PageSize = 2
    ApiLimit = 2
    MaxThreads = 2
    Env = {}
INVARIANTS FilterApplied
