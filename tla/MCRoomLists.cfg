CONSTANTS
    r1 = r1
    r2 = r2
    r3 = r3
    space = space
    None = None
    Rooms <- MCRooms
    RemoteRooms <- MCRemoteRooms
    DmRooms <- MCDmRooms
    RoomTypes <- MCRoomTypes
    RoomType <- MCRoomType
    Filters <- MCFilters
    LocalMemberRooms <- MCLocalMemberRooms
    MaxPos = 4
SPECIFICATION Spec
INVARIANTS
    TypeOK
    ListOrderedByVisibleRecency
    RecomputeChangesOnlyByLaterEncryption
PROPERTY
    LeftRoomStaysBehind
