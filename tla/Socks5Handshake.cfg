SPECIFICATION FairSpec
CONSTANTS
    Addr <- TargetAddr
    Port = 443
    MaxPayload = 2
CHECK_DEADLOCK FALSE
INVARIANT RequestNamesTarget
INVARIANT RelayAligned
PROPERTY HandshakeEnds
PROPERTY GrantHonoured
