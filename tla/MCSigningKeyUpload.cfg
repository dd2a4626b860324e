\* One request at a time: the servlet's checks in every configuration.
CONSTANTS
    q1 = q1  q2 = q2  k1 = k1  k2 = k2  None = None
    Requests <- MCOneSlot
    Keys <- MCKeys
    MaxRequests = 4
SPECIFICATION Spec
\* The user stops sending requests once the bound is reached.
CHECK_DEADLOCK FALSE
INVARIANT TypeOK
PROPERTY ImplementsCrossSigningKeys
