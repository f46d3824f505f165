SPECIFICATION FairSpec
CONSTANTS
    Modulus = 64
    ISS = 60
    Total = 9
    TCP_WND = 6
    mss = 3
    TCP_WND_UPDATE_THRESHOLD = 4
CHECK_DEADLOCK FALSE
INVARIANT QueueSound
INVARIANT WindowHonest
PROPERTY ReceivesStream
PROPERTY EdgeNeverRetreats
PROPERTY StreamEnds
