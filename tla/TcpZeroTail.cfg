CONSTANTS
    client = client
    server = server
    Host = {client, server}
    Connectors = {client}
    Listeners = {server}
    Payload <- ZeroTail
    ListenPort = 80
    FirstPort = 1023
    Ports = 1024
    Iss = 65533
    SeqSpace = 65536
    HeaderBytes = 1
    IpHeader = 3
    ByteValues = 5
    MinPayload = 2
    Trailer <- Checksum
    Memory <- Behind
    MaxSockets = 1
    MaxSends = 2
    Scenarios <- Calm
SPECIFICATION Spec
CHECK_DEADLOCK FALSE
INVARIANTS
    DataInOrder
