----------------------------- MODULE MCRoomLists -----------------------------
(***************************************************************************)
(* Three rooms: r1 an ordinary DM room another local user stays joined   *)
(* to, r2 a space the server leaves with the user, r3 a remote invite     *)
(* with no stripped state.  Four stream positions are enough for a join,   *)
(* a leave, activity after the leave and activity after a to_token, the    *)
(* scenario of test_activity_after_xxx.  The filters are those of the      *)
(* filter tests: none, is_encrypted either way, is_invite, is_dm, and      *)
(* room_types with not_room_types.                                         *)
(***************************************************************************)
EXTENDS RoomLists

CONSTANTS r1, r2, r3, space

MCRooms == {r1, r2, r3}
MCRemoteRooms == {r3}
MCDmRooms == {r1}
MCLocalMemberRooms == {r1}
MCRoomTypes == {None, space}
MCRoomType == [r \in MCRooms |-> IF r = r2 THEN space ELSE None]

\* A Filters record with the given fields set and the others unset.
NoFilter == [is_dm |-> Unset, is_encrypted |-> Unset, is_invite |-> Unset,
             room_types |-> Unset, not_room_types |-> Unset]

MCFilters ==
    { NoFilter,
      [NoFilter EXCEPT !.is_encrypted = TRUE],
      [NoFilter EXCEPT !.is_encrypted = FALSE],
      [NoFilter EXCEPT !.is_invite = TRUE],
      [NoFilter EXCEPT !.is_dm = FALSE],
      [NoFilter EXCEPT !.room_types = {None, space}, !.not_room_types = {space}] }

=============================================================================
