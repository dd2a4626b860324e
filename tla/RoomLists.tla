------------------------------ MODULE RoomLists ------------------------------
(***************************************************************************)
(* RoomFilterEngine and RoomSorter (spec 4.4, 4.5): one sliding-sync list  *)
(* for one user.  A sync takes its to_token, then filters the rooms the    *)
(* user has a membership in at that token and sorts them by recency.       *)
(* Other users keep writing to the event stream between the two steps.     *)
(* The handler methods filter_rooms and sort_rooms are not in this         *)
(* repository; their behaviour is fixed by FilterRoomsTestCase and         *)
(* SortRoomsTestCase (tests/handlers/test_sliding_sync.py) and by          *)
(* tests/rest/client/sliding_sync/test_lists_filters.py.                   *)
(*                                                                         *)
(* The stream is a log: position i holds event log[i].  A membership event *)
(* is the user's own; "message" and "encrypt" (m.room.encryption) are sent *)
(* by others.  LEAVE, INVITE, KNOCK and BAN behave alike for sorting       *)
(* (test_activity_after_xxx is parameterised over them), so "leave" and    *)
(* "invite" stand for them.  In the rooms of LocalMemberRooms another     *)
(* local user stays joined, so the server keeps participating; in the      *)
(* others it participates only while the user is joined, and receives no   *)
(* event of the room once it has left (test_filter_encrypted_server_left_  *)
(* room: its state is the state as of departure).  A remote invite         *)
(* without stripped state is a room of RemoteRooms, where only the invite  *)
(* and its rejection are seen.                                             *)
(***************************************************************************)
EXTENDS Naturals, Sequences, SequencesExt, FiniteSets

CONSTANTS
    Rooms,          \* room ids
    RemoteRooms,    \* remote invites with no stripped state
    LocalMemberRooms, \* rooms another local user stays joined to
    DmRooms,        \* dm_room_ids from m.direct account data
    RoomType,       \* [Rooms -> RoomTypes]: room_type from the create event
    RoomTypes,      \* room types, None (an ordinary room) among them
    Filters,        \* the list filters a client may send
    MaxPos,         \* bound on the stream position
    None

ASSUME RemoteRooms \subseteq Rooms /\ DmRooms \subseteq Rooms
       /\ LocalMemberRooms \subseteq Rooms \ RemoteRooms

Memberships == {"join", "invite", "leave"}
Kinds == Memberships \cup {"message", "encrypt"}
Unset == None   \* a Filters field left at its default

\* SlidingSyncConfig.SlidingSyncList.Filters: tri-state flags and sets.
FilterRecords ==
    [is_dm: {Unset, TRUE, FALSE}, is_encrypted: {Unset, TRUE, FALSE},
     is_invite: {Unset, TRUE, FALSE},
     room_types: {Unset} \cup SUBSET RoomTypes,
     not_room_types: {Unset} \cup SUBSET RoomTypes]

VARIABLES
    log,            \* the event stream, position i is log[i]
    pc,             \* "idle" or "sync": the sync has taken its token
    toTok,          \* the sync's to_token
    filter,         \* the filters of the last list computed (None: none yet)
    result,         \* the last list computed: room ids, first is most recent
    listTok         \* the to_token that list was computed at

vars == <<log, pc, toTok, filter, result, listTok>>

\* The positions up to tok holding events of room r.
EventsOf(r, tok) == {i \in 1..tok : log[i].room = r}

\* The positions up to tok of the user's membership events in r.
MembershipEventsOf(r, tok) == {i \in EventsOf(r, tok) : log[i].kind \in Memberships}

\* get_sync_room_ids_for_user, abstracted: the rooms with a membership at tok.
SyncRoomMap(tok) == {r \in Rooms : MembershipEventsOf(r, tok) # {}}

\* The position of the user's membership event in r as of tok.
MembershipPos(r, tok) == Max(MembershipEventsOf(r, tok))

Membership(r, tok) == log[MembershipPos(r, tok)].kind

\* Mutant: recency counts every event up to the token, after a leave too.
RecencyUnfrozen(r, tok) == Max(EventsOf(r, tok))

\* Mutant: recency reads the stream as it is now, not as of the token.
RecencyNow(r, tok) ==
    IF Membership(r, tok) = "join" THEN Max(EventsOf(r, Len(log)))
    ELSE MembershipPos(r, tok)

\* sort_rooms' key: the latest event of r as of tok (whatever its type),
\* frozen at the user's membership event unless that is a join.
Recency(r, tok) ==
    IF Membership(r, tok) = "join" THEN Max(EventsOf(r, tok))
    ELSE MembershipPos(r, tok)

\* The room's encryption from its current state: unknown for a remote
\* invite, else whether an m.room.encryption event exists now.
Encryption(r) ==
    IF r \in RemoteRooms THEN None
    ELSE \E i \in 1..Len(log) : log[i].room = r /\ log[i].kind = "encrypt"

\* is_encrypted: a room whose encryption is unknown matches neither value.
MatchesEncrypted(r, want) == Encryption(r) # None /\ Encryption(r) = want

\* The create event, and so the room type, is known: not for a remote
\* invite without stripped state (test_filter_room_types_with_remote_invite_
\* room_no_stripped_state).  No test pins not_room_types for such a room;
\* it is excluded too, as spec 4.4 treats missing state for is_encrypted.
TypeKnown(r) == r \notin RemoteRooms

\* Mutant: is_invite reads the membership from current state.
MatchesInviteNow(r, f, tok) ==
    /\ f.is_dm # Unset => ((r \in DmRooms) = f.is_dm)
    /\ f.is_encrypted # Unset => MatchesEncrypted(r, f.is_encrypted)
    /\ f.is_invite # Unset => ((Membership(r, Len(log)) = "invite") = f.is_invite)
    /\ f.room_types # Unset => TypeKnown(r) /\ RoomType[r] \in f.room_types
    /\ f.not_room_types # Unset => TypeKnown(r) /\ RoomType[r] \notin f.not_room_types

\* filter_rooms: every set filter must hold; not_room_types wins.
Matches(r, f, tok) ==
    /\ f.is_dm # Unset => ((r \in DmRooms) = f.is_dm)
    /\ f.is_encrypted # Unset => MatchesEncrypted(r, f.is_encrypted)
    /\ f.is_invite # Unset => ((Membership(r, tok) = "invite") = f.is_invite)
    /\ f.room_types # Unset => TypeKnown(r) /\ RoomType[r] \in f.room_types
    /\ f.not_room_types # Unset => TypeKnown(r) /\ RoomType[r] \notin f.not_room_types

\* filter_rooms then sort_rooms, most recent first.  Recency positions of
\* different rooms are different events, so no tie is left to break.
ListFor(f, tok) ==
    SetToSortSeq({r \in SyncRoomMap(tok) : Matches(r, f, tok)},
                 LAMBDA a, b : Recency(a, tok) > Recency(b, tok))

TypeOK ==
    /\ log \in Seq([room: Rooms, kind: Kinds])
    /\ Len(log) <= MaxPos
    /\ pc \in {"idle", "sync"}
    /\ toTok \in 0..Len(log)
    /\ filter \in Filters \cup {None}
    /\ result \in Seq(Rooms)
    /\ listTok \in 0..Len(log)

Init ==
    /\ log = <<>>
    /\ pc = "idle"
    /\ toTok = 0
    /\ filter = None
    /\ result = <<>>
    /\ listTok = 0

\* The user joins, leaves or is invited to a local room.
ChangeMembership(r, m) ==
    /\ Len(log) < MaxPos
    /\ r \notin RemoteRooms
    /\ MembershipEventsOf(r, Len(log)) # {} => Membership(r, Len(log)) # m
    /\ log' = Append(log, [room |-> r, kind |-> m])
    /\ UNCHANGED <<pc, toTok, filter, result, listTok>>

\* A remote server invites the user over federation, or the user rejects
\* that invite; nothing else of the room reaches this server.
RemoteInvite(r, m) ==
    /\ Len(log) < MaxPos
    /\ r \in RemoteRooms
    /\ m \in {"invite", "leave"}
    /\ IF MembershipEventsOf(r, Len(log)) = {} THEN m = "invite"
       ELSE Membership(r, Len(log)) # m
    /\ log' = Append(log, [room |-> r, kind |-> m])
    /\ UNCHANGED <<pc, toTok, filter, result, listTok>>

\* Some local user is joined to r, so the server receives its events.
Participating(r) ==
    \/ r \in LocalMemberRooms
    \/ MembershipEventsOf(r, Len(log)) # {} /\ Membership(r, Len(log)) = "join"

\* Another user sends a message, or enables encryption (once), in a room
\* the server participates in, whether the user is in it or not.
Send(r, k) ==
    /\ Len(log) < MaxPos
    /\ r \notin RemoteRooms
    /\ Participating(r)
    /\ k = "encrypt" => ~Encryption(r)
    /\ log' = Append(log, [room |-> r, kind |-> k])
    /\ UNCHANGED <<pc, toTok, filter, result, listTok>>

\* Mutant: the token names the next position to be written, not the last.
StartSyncNext ==
    /\ pc = "idle"
    /\ pc' = "sync"
    /\ toTok' = Len(log) + 1
    /\ UNCHANGED <<log, filter, result, listTok>>

\* The sync request takes the current token as its to_token.
StartSync ==
    /\ pc = "idle"
    /\ pc' = "sync"
    /\ toTok' = Len(log)
    /\ UNCHANGED <<log, filter, result, listTok>>

\* The list is filtered and sorted at the token.
ComputeList(f) ==
    /\ pc = "sync"
    /\ result' = ListFor(f, toTok)
    /\ filter' = f
    /\ listTok' = toTok
    /\ pc' = "idle"
    /\ UNCHANGED <<log, toTok>>

Next ==
    \/ \E r \in Rooms, m \in Memberships : ChangeMembership(r, m)
    \/ \E r \in Rooms, m \in Memberships : RemoteInvite(r, m)
    \/ \E r \in Rooms, k \in {"message", "encrypt"} : Send(r, k)
    \/ StartSync
    \/ \E f \in Filters : ComputeList(f)

Spec == Init /\ [][Next]_vars

-----------------------------------------------------------------------------
\* The index of room r in list l (0 if absent).
IndexIn(l, r) == IF \E i \in 1..Len(l) : l[i] = r THEN SelectInSeq(l, LAMBDA x : x = r) ELSE 0

\* Reference recency, event by event: an event of r up to tok is visible to
\* the user when it is a membership of theirs or the latest of their
\* memberships before it is a join; recency is the latest visible one.
VisibleTo(r, i) ==
    \/ log[i].kind \in Memberships
    \/ LET before == MembershipEventsOf(r, i)
       IN  before # {} /\ log[Max(before)].kind = "join"

VisibleRecency(r, tok) == Max({i \in EventsOf(r, tok) : VisibleTo(r, i)})

(* Safety (spec 4.5, test_activity_after_xxx): the computed list is in     *)
(* strictly decreasing order of the latest event the user could see in     *)
(* each room as of the list's to_token: activity after a leave or invite,  *)
(* and activity other users wrote between the token and the sort, never    *)
(* count.                                                                  *)
ListOrderedByVisibleRecency ==
    \A i \in 1..Len(result) - 1 :
        VisibleRecency(result[i], listTok) > VisibleRecency(result[i + 1], listTok)

(* Action property (spec 4.5, "subsequent room activity the user could not *)
(* see must not affect sort order"): from one list to the next, a room     *)
(* whose non-join membership has not changed never moves ahead of a room   *)
(* it was behind, however much activity the room has had since.            *)
LeftRoomStaysBehind ==
    [][\A r, s \in Rooms :
          ( /\ filter # None
            /\ 0 < IndexIn(result, s) /\ IndexIn(result, s) < IndexIn(result, r)
            /\ IndexIn(result', r) > 0 /\ IndexIn(result', s) > 0
            /\ Membership(r, listTok) # "join"
            /\ MembershipPos(r, listTok) = MembershipPos(r, listTok') )
          => IndexIn(result', s) < IndexIn(result', r)]_vars

(* Safety (spec 4.4 against spec 5): is_encrypted reads current state, so  *)
(* a list recomputed later for the same filters and to_token may differ,   *)
(* but only by rooms encrypted after that token, and the rooms in both     *)
(* keep their order.  Every other filter and the sort key are read at the  *)
(* token, and a room the server has left keeps its state as of departure.  *)
RecomputeChangesOnlyByLaterEncryption ==
    filter # None =>
        LET again == ListFor(filter, listTok)
            both(l, m) == SelectSeq(l, LAMBDA x : x \in Range(m))
            encryptedLater(r) ==
                \E i \in listTok + 1..Len(log) : log[i] = [room |-> r, kind |-> "encrypt"]
        IN  /\ both(result, again) = both(again, result)
            /\ \A r \in (Range(result) \ Range(again)) \cup (Range(again) \ Range(result)) :
                  encryptedLater(r)

=============================================================================
