SPECIFICATION FairSpec
CONSTANTS
    t1 = t1
    t2 = t2
    Threads <- TwoThreads
    MaxTicket = 3
    MaxEffects = 1
    MaxGeneration = 2
INVARIANTS
    NoOvertaking
    DurableBeforeShown
    ProjectionCurrent
PROPERTIES
    PoisonedAdmitsNobody
    CommitsAccumulate
    WaiterServed
