\* Two concrete event types and two state keys besides the wildcard, up to
\* three lists or subscriptions of up to two pairs each, two timeline limits.
CONSTANTS
    t1 = t1  t2 = t2  k1 = k1  k2 = k2  Wildcard = Wildcard  None = None
    Types <- MCTypes
    Keys <- MCKeys
    Limits = {1, 2}
    MaxPairs = 2
    MaxLists = 3
SYMMETRY MCSymmetry
SPECIFICATION Spec
INVARIANTS TypeOK RoomConfigCoversRequested RoomConfigNormalised RoomConfigIndependentOfOrder
