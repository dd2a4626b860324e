------------------------- MODULE MCSigningKeyUpload -------------------------
EXTENDS SigningKeyUpload

CONSTANTS q1, q2, k1, k2

MCOneSlot == {q1}
MCTwoSlots == {q1, q2}
MCKeys == {k1, k2}
=============================================================================
