\* Every request shape over three queried users, on the main process and on a
\* worker, with and without MSC3983.
CONSTANTS
    u1 = u1  u2 = u2  u3 = u3  None = None
    Users <- MCUsers
SPECIFICATION Spec
INVARIANT TypeOK
