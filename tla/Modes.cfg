\* Every mode; a backlog of up to three tasks with two faults and an edit of the
\* parent; lists of up to seven items, or six with three changes; answers with one
\* odd field.
SPECIFICATION ModesBounded
CONSTANTS
    None = None
    Unreadable = Unreadable
    Malformed = Malformed
    Missing = Missing
    Default = Default
    Me = Me
    p1 = p1
    dev = dev
    stranger = stranger
    FE = FE
    x1 = x1
    x2 = x2
    t1 = t1
    t2 = t2
    done = done
    open = open
    Junk = Junk
    NoNumber = NoNumber
    Pending = Pending
    Modes = {"backlog", "create", "cards-list", "users-list", "boards-list",
             "cards-filter", "get-card", "get-user"}
    Backlogs <- SmallBacklogs
    Users = {dev}
    Parents = {p1}
    ParentCards <- TwoParentCards
    Ttl = 1
    MaxSize = 1
    MaxFaults = 2
    MaxEdits = 1
    MaxClock = 2
    MaxItems = 7
    PageLimit = 2
    MaxRequests = 3
    MaxChanges = 3
    FilterArguments <- SomeFilters
    FilterLists <- Lists14
    CardOf <- FilterCard
    PageSize = 4
    ApiLimit = 3
    MaxThreads = 3
    FetchEnv = {"http_fail", "exception"}
    CardAnswers <- SomeCardAnswers
    UserAnswers <- SomeUserAnswers
    Garbled = Garbled
    FirstYear = 1970
    LastYear = 2100
INVARIANTS CreationTypeOK ExitZeroMeansAllCreated SummaryAddsUp OwnData
           ListingTypeOK ReadsAll MissesFew RepeatsFew
           FetchTypeOK FetchComplete FetchBoundedWaste
           SmallResultIsWhatWasTyped ExitZeroMeansNoHole
           ShownAsSent PrintedInstant
PROPERTIES FetchInOrder SettledStays ParentNotStale ModeEnds
