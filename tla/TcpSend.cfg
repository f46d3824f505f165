SPECIFICATION FairSpec
CONSTANTS
    mss = 2
    TCP_SND_BUF = 5
    U16 = 16
    PeerWindow = 4
    Chunks = {1, 3}
    MaxData = 7
    MaxSaid = 1
CHECK_DEADLOCK FALSE
INVARIANT QueuesCover
INVARIANT RoomAccounted
INVARIANT WithinOffer
INVARIANT FastRetransmitRecovers
PROPERTY AllAcknowledged
