SPECIFICATION FairSpec
CONSTANTS
    cli = cli
    client = client
    ota = ota
    tcpip = tcpip
    Tasks = {cli, client, ota, tcpip}
    uxBasePriority <- MCPriority
    Tcpip = tcpip
    Client = client
    NoTask = NoTask
INVARIANTS PriorityRestored WaitersRaiseHolder
PROPERTIES ClientCallbacksAtomic 
