SPECIFICATION Spec
CONSTANTS
    a = a
    b = b
    Members <- TwoMembers
    Transfers = {1}
    MaxTerm = 2
    MaxProcesses <- ProcBound
    MaxStops <- StopBound
CONSTRAINT Scope
INVARIANTS
    OneProcess
    CurrentProcessIsNewest
    StoreFollowsView
    SourceStaysSilent
