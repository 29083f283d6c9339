SPECIFICATION Spec
CONSTANTS
    t1 = t1
    t2 = t2
    t3 = t3
    t4 = t4
    r1 = r1
    r2 = r2
    m1 = m1
    m2 = m2
    m3 = m3
    NoTask = NoTask
    Tasks = {t1, t2, t3}
    Resources = {r1, r2}
    Alternatives <- TwoRobots
    Mission <- OneTaskEach
    Priority <- Equal
    Earliest <- Later
    LatestStart <- Unlimited
    Deadline <- Unlimited
    Duration <- Two
    NodesChange = TRUE
    PromptNodes = TRUE
INVARIANT SchedulingNeverHalts
