SPECIFICATION FairSpec
CONSTANTS
    t1 = t1
    t2 = t2
    t3 = t3
    t4 = t4
    r1 = r1
    r2 = r2
    m1 = m1
    m2 = m2
    m3 = m3
    NoTask = NoTask
    Tasks = {t1, t2, t3}
    Resources = {r1}
    Alternatives <- OneRobot
    Mission <- OneTaskEach
    Priority <- Equal
    Earliest <- At0
    LatestStart <- Unlimited
    Deadline <- Unlimited
    Duration <- Two
    NodesChange = FALSE
    PromptNodes = TRUE
PROPERTY TimedTaskStarts
