SPECIFICATION PairSpec
CONSTANTS
    e1 = e1
    e2 = e2
    r = r
    Ids <- Both
    Resources <- OneResource
    Needs <- AllNeedIt
    Artifact <- Mixed
    MaxSeq = 8
    MaxCrashes = 1
INVARIANTS
    AtMostOneLocalCall
    AtMostOneOutputRead
    TerminalRowMeansStopped
    ActiveWorkHoldsLocks
PROPERTIES
    JournalProgress
    CancellationDelivered
