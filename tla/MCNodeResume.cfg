SPECIFICATION NSpec
CONSTANTS
    e1 = e1
    e2 = e2
    r = r
    Ids <- Single
    Resources <- OneResource
    Needs <- AllNeedIt
    Artifact <- Publishing
    MaxSeq = 6
    MaxCrashes = 1
INVARIANT FailureIsConclusive
