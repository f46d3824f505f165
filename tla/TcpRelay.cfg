SPECIFICATION FairSpec
CONSTANTS
    c1 = c1
    c2 = c2
    t1 = t1
    NoConn = NoConn
    Conns = {c1}
    Tuples = {t1}
    TupleOf <- OneTuple
    TCP_WND = 3
    TCP_SND_BUF = 5
    TCP_SND_QUEUELEN = 4
    ReadMax = 3
    LowWater = 3
    SegMax = 2
    Windows = {1, 3}
    MaxUp = 4
    MaxDown = 4
CHECK_DEADLOCK FALSE
INVARIANT TypeOK
INVARIANT WindowConserved
INVARIANT QueueWithinWindow
INVARIANT ForwardedOnce
INVARIANT SingleReader
INVARIANT ReadFitsSendBuffer
PROPERTY UpstreamIsPipe
PROPERTY UpstreamDrains
PROPERTY DownstreamIsPipe
