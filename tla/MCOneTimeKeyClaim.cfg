\* Two users with two devices each, two algorithms, lists of up to two
\* entries (enough for a repeated algorithm and for two distinct ones).
CONSTANTS
    u1 = u1  u2 = u2  d1 = d1  d2 = d2  a1 = a1  a2 = a2  None = None
    Users <- MCUsers
    Devices <- MCDevices
    Algorithms <- MCAlgorithms
    MaxAlgs = 2
SPECIFICATION Spec
INVARIANTS TypeOK ClaimQueryMatchesRequest
