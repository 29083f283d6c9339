SPECIFICATION MSpec
CONSTANTS
    t1 = t1
    t2 = t2
    t3 = t3
    TaskSeq <- PairSeq
    Deps <- Parallel
    Basis <- AllReported
    Leased <- Tasks
    Sources = {"Registry"}
    Answers <- YesOrNo
PROPERTIES
    CancellationSticks
CHECK_DEADLOCK FALSE
