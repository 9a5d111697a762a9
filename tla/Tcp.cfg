CONSTANTS
    client = client
    server = server
    Host = {client, server}
    Connectors = {client}
    Listeners = {server}
    Payload <- AllPayloads
    ListenPort = 80
    FirstPort = 1022
    Ports = 1024
    Iss = 65533
    SeqSpace = 65536
    HeaderBytes = 1
    IpHeader = 3
    ByteValues = 5
    MinPayload = 2
    Trailer <- Checksum
    Memory <- Behind
    MaxSockets = 2
    MaxSends = 2
    Scenarios <- OneOrTwo
SPECIFICATION Spec
CHECK_DEADLOCK FALSE
INVARIANTS
    ConnectionInv
    OrderKept
    FinAfterData
PROPERTIES
    ImplementsStream
    SendReturns
    DataArrives
    BothClose
