------------------------- MODULE MCSlidingSyncRooms -------------------------
(* Two writers and one room sharded to w1: w2's events (other rooms,       *)
(* receipts, ...) hold its position back or let it run ahead, so that the *)
(* token has a non-empty instance_map.  The resolver treats rooms          *)
(* independently given the token, so a second room adds no interaction.   *)
EXTENDS SlidingSyncRooms

CONSTANTS w1, w2, r1

MCWriters == {w1, w2}
MCRooms == {r1}
MCShard == r1 :> w1

=============================================================================
