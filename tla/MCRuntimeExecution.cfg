SPECIFICATION BranchSpec
CONSTANTS
    s1 = s1
    s2 = s2
    n1 = n1
    n2 = n2
    NoNode = NoNode
    Slots <- TwoSlots
    TaskOf <- OneTask
    Nodes <- TwoNodes
    Support <- Profiles
    Reports <- AllStops
    Early <- SecondAttempts
    MaxGen = 2
    MaxSeq = 1
    MaxTime = 2
    Timeouts <- UpToTwo
    Limits <- UpToTwo
    MaxRounds = 2
SYMMETRY SlotSymmetry
INVARIANTS
    TypeOK
    CheckpointRestorable
    NeverResentAfterRestart
    EarlierRoundsSettled
PROPERTIES
    TerminalIsFinal
    GenerationsAdvance
    AbortIsFinal
    TaskResultStable
