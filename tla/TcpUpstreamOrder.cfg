SPECIFICATION Spec
CONSTANTS
    c1 = c1
    c2 = c2
    t1 = t1
    NoConn = NoConn
    Conns = {c1}
    Tuples = {t1}
    TupleOf <- OneTuple
    TCP_WND = 3
    TCP_SND_BUF = 2
    TCP_SND_QUEUELEN = 8
    ReadMax = 1
    LowWater = 1
    SegMax = 2
    Windows = {2}
    MaxUp = 3
    MaxDown = 0
CHECK_DEADLOCK FALSE
INVARIANT UpstreamInOrder
