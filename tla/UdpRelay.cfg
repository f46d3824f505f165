SPECIFICATION FairSpec
CONSTANTS
    p1 = p1
    p2 = p2
    d1 = d1
    d2 = d2
    e1 = e1
    Ports = {p1, p2}
    Dests = {d1, d2}
    INADDR_NONE = d2
    Endpoints = {e1}
    Server = e1
    Lengths = {1, 2}
    MaxAsk = 2
    MaxAnswer = 2
CHECK_DEADLOCK FALSE
INVARIANT ConeNat
INVARIANT ReaderReady
INVARIANT SendBufferHeld
PROPERTY IsDatagramRelay
PROPERTY RepliesAreRead
