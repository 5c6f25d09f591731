\* Two threads; the limiter is switched and reconfigured while requests are made.
SPECIFICATION FairBounded
CONSTANTS
    None = None
    Threads = {t1, t2}
    Limits <- TwoLimits
    Minute = 3
    Hour = 4
    MaxRequests = 3
    MaxSlack = 3
INVARIANTS TypeOK MinuteBurst
PROPERTIES CountedWithinLimits Spacing CallReturns
