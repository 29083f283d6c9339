SPECIFICATION Spec
CONSTANTS
    t1 = t1
    t2 = t2
    t3 = t3
    t4 = t4
    r1 = r1
    r2 = r2
    m1 = m1
    m2 = m2
    m3 = m3
    NoTask = NoTask
    Tasks = {t1, t2, t3, t4}
    Resources = {r1, r2}
    Alternatives <- Fleet
    Mission <- Pairs
    Priority <- Ranked
    Earliest <- Later
    LatestStart <- Window
    Deadline <- GangDeadline
    Duration <- Lengths
    NodesChange = TRUE
    PromptNodes = FALSE
\* A Controller that disabled its writes stops, and so do Missions that have all ended.
CHECK_DEADLOCK FALSE
INVARIANTS
    OwnershipAgrees
    CalendarRestorable
    PlannedBehindOwner
PROPERTIES
    PreemptsWhatWasReviewed
    ImplementsOwnership
