SPECIFICATION FairSpec
CONSTANT Packets <- MCPackets
CONSTANT Handles = {1, 2}
CONSTANT MaxArrivals = 2
CONSTANT MaxRestarts = 1
CONSTANT MaxInjects = 2
CHECK_DEADLOCK FALSE
INVARIANT InputIntact
INVARIANT OperationsHeld
PROPERTY PacketsRead
PROPERTY StopEndsReader
