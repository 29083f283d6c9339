SPECIFICATION BranchSpec
CONSTANTS
    t1 = t1
    t2 = t2
    t3 = t3
    TaskSeq <- BranchSeq
    Deps <- Branch
    Basis <- FirstVerified
    Leased <- Last
    Sources = {"Registry", "Feed"}
    Answers <- AllOrNothing
INVARIANTS
    OwnershipCoversLiveAttempts
    EndedHoldsNothing
    DependenciesFirst
    
    ReleasedAfterLeaseFence
PROPERTIES
    StopBeforeRelease
    
CHECK_DEADLOCK FALSE
