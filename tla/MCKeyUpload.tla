----------------------------- MODULE MCKeyUpload -----------------------------
EXTENDS KeyUpload

CONSTANTS q1, q2, d1, d2, d3

MCOneSlot == {q1}
MCDevices == {d1, d2, d3}
=============================================================================
