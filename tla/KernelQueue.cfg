SPECIFICATION FairSpec
CONSTANTS
    low1 = low1
    low2 = low2
    high = high
    Tasks = {low1, low2, high}
    Prio <- MCPrio
    Calls <- MCCalls
    Handler = Handler
    Item = {i1}
    uxLength = 1
    NoTask = NoTask
    Pending = Pending
    Passed = Passed
    Full = Full
    Empty = Empty
INVARIANTS NoLostWakeUp ListsAgree
PROPERTIES  CallsReturn
