\* Two concurrent requests of the same user: the first-time setup race.
CONSTANTS
    q1 = q1  q2 = q2  k1 = k1  k2 = k2  None = None
    Requests <- MCTwoSlots
    Keys <- MCKeys
    MaxRequests = 4
SPECIFICATION Spec
\* The user stops sending requests once the bound is reached.
CHECK_DEADLOCK FALSE
PROPERTY ImplementsCrossSigningKeys
