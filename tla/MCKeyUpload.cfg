\* Requests of one user, three device ids (the session's,
\* the dehydrated one and a third), while another session of the user
\* replaces or claims the dehydrated device.
CONSTANTS
    q1 = q1  q2 = q2  d1 = d1  d2 = d2  d3 = d3  None = None
    Requests <- MCOneSlot
    Devices <- MCDevices
    MaxRequests = 3
SPECIFICATION Spec
INVARIANT TypeOK
