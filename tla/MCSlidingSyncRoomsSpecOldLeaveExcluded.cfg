CONSTANTS
    w1 = w1
    w2 = w2
    r1 = r1
    NoRoom = NoRoom
    None = None
    Writers <- MCWriters
    Rooms <- MCRooms
    Shard <- MCShard
    MaxStreamId = 4

SPECIFICATION Spec

INVARIANT SpecOldLeaveExcluded
