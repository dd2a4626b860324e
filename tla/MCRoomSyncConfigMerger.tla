----------------------- MODULE MCRoomSyncConfigMerger -----------------------
EXTENDS RoomSyncConfigMerger, TLC

CONSTANTS t1, t2, k1, k2

MCTypes == {t1, t2}
MCKeys == {k1, k2}

\* Concrete types and keys are handled alike; only the wildcard is special.
MCSymmetry == Permutations(MCTypes) \cup Permutations(MCKeys)
=============================================================================
