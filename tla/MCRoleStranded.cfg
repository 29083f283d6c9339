SPECIFICATION RSpec
CONSTANTS
    s1 = s1
    s2 = s2
    n1 = n1
    n2 = n2
    NoNode = NoNode
    Slots <- TwoSlots
    TaskOf <- TwoTasks
    Nodes <- OneNode
    Support <- AllRole
    Reports <- StopFacts
    Early = {}
    MaxGen = 3
    MaxSeq = 1
    MaxTime = 1
    Timeouts <- OneUnit
    Limits <- OneUnit
    MaxRounds = 0
INVARIANTS
    ReboundRoleDrivable
