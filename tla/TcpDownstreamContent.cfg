SPECIFICATION Spec
CONSTANTS
    c1 = c1
    c2 = c2
    t1 = t1
    NoConn = NoConn
    Conns = {c1}
    Tuples = {t1}
    TupleOf <- OneTuple
    TCP_WND = 1
    TCP_SND_BUF = 4
    TCP_SND_QUEUELEN = 8
    ReadMax = 1
    LowWater = 1
    SegMax = 1
    Windows = {1, 4}
    MaxUp = 0
    MaxDown = 4
CHECK_DEADLOCK FALSE
INVARIANT DownstreamIntact
