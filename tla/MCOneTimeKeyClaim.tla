-------------------------- MODULE MCOneTimeKeyClaim --------------------------
EXTENDS OneTimeKeyClaim

CONSTANTS u1, u2, d1, d2, a1, a2

MCUsers == {u1, u2}
MCDevices == {d1, d2}
MCAlgorithms == {a1, a2}
=============================================================================
