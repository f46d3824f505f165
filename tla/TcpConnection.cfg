SPECIFICATION FairSpec
CONSTANTS
    Modulus = 32
    MaxInc = 2
    PeerISS <- MCPeerISS
    ISS = 31
    TCP_WND = 2
    MaxBytes = 3
    MaxLoss = 1
    MaxQueue = 3
INVARIANT AcceptedIsOpen
INVARIANT OwnBytes
INVARIANT EstablishedHasPcb
PROPERTY OrderlyClose
PROPERTY OpenCompletes
PROPERTY CloseCompletes
CHECK_DEADLOCK FALSE
