SPECIFICATION FairSpec
CONSTANTS
    client = client
    ota = ota
    tcpip = tcpip
    Senders = {client, ota, tcpip}
    Priority <- MCPriority
    RxNum = 2
    TxNum = 2
    Pool = 2
    MboxSize = 1
    MaxRx = 3
    MaxTx = 3
CHECK_DEADLOCK FALSE
INVARIANTS PbufsConserved FramesAreFetched SentInOrder WaitsForHolder
PROPERTIES ImplementsChannel EverythingServed
