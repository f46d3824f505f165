SPECIFICATION FairSpec
CONSTANTS
    c1 = c1
    c2 = c2
    t1 = t1
    NoConn = NoConn
    Conns = {c1}
    Tuples = {t1}
    TupleOf <- OneTuple
    TCP_WND = 1
    TCP_SND_BUF = 3
    TCP_SND_QUEUELEN = 8
    ReadMax = 1
    LowWater = 2
    SegMax = 1
    Windows = {3}
    MaxUp = 0
    MaxDown = 6
CHECK_DEADLOCK FALSE
PROPERTY DownstreamResumes
