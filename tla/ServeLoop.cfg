\* Every way a round, a command or a request can end, on a host that changes.
CONSTANTS
    Dirs = {d1, d2}
    Stores = {main, other}
    Serve = Serve
    sameState = sameState
    otherState = otherState
    enableStatus = enableStatus
    main = main
    other = other
    Applies <- Commands
    Enablers = {enableStatus}
    StoreOf <- StateFiles
    None = None
    MaxStatusRetries = 2
    MaxHappened = 2
SPECIFICATION FairSpec
INVARIANTS
    WritesUnderItsLock
    NothingUnreadIsWrittenOver
    CopiesAreFresh
    WatcherHoldsNothing
PROPERTIES
    ApplyIsReached
    TakenIsAnswered
