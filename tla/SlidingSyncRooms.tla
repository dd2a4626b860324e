-------------------------- MODULE SlidingSyncRooms --------------------------
(***************************************************************************)
(* RoomMembershipResolver (get_sync_room_ids_for_user) driven by one       *)
(* user's membership changes on a sharded event stream and by a client     *)
(* that syncs incrementally: each sync resolves (from, to] with from the   *)
(* "to" of the previous sync and to the current token.                     *)
(*                                                                         *)
(* The handler is not in this repository: the resolver follows spec.md    *)
(* 4.2, and where spec.md and tests/handlers/test_sliding_sync.py disagree *)
(* the tests (what the handler does) win; those definitions are mapped to  *)
(* the test that fixes them.                                               *)
(***************************************************************************)
EXTENDS EventStream

CONSTANTS
    Rooms,          \* rooms the user has memberships in
    Shard,          \* Shard[r]: the writer that persists room r's events
    NoRoom,         \* room of an event outside Rooms (another user's activity)
    None            \* absent token / membership

ASSUME Shard \in [Rooms -> Writers]

Memberships == {"join", "invite", "knock", "ban", "leave"}

\* Event bodies: a membership change of the syncing user in a room (sent by
\* the user or by someone else), or an unrelated event holding a stream id.
MemberBodies == [room : Rooms, membership : Memberships, bySelf : BOOLEAN]
OtherBody == [room |-> NoRoom, membership |-> None, bySelf |-> FALSE]

VARIABLES
    forgotten,      \* forgotten[r]: the /forget flag on the user's membership row
    fromTok,        \* the client's position: the "to" token of its last sync
    incremental,    \* the last sync had a from token
    lastRange,      \* membership events in (from, fromTok] of the last sync
    result,         \* room_id -> record returned by the last sync
    prevJoined,     \* rooms the sync before it returned as joined
    prevHidden,     \* rooms hidden by /forget from the client before the last sync
    clientView,     \* clientView[r]: the event the client last got for r (0: none)
    untracked       \* rooms hidden from the client by /forget since it last saw them

historyVars == <<incremental, lastRange, prevJoined, prevHidden,
                 clientView, untracked>>

vars == <<streamVars, forgotten, fromTok, result, historyVars>>

Records == [event : StreamIds, membership : Memberships, newly_joined : BOOLEAN]

IsResult(res) == DOMAIN res \subseteq Rooms /\ \A r \in DOMAIN res : res[r] \in Records

TypeOK ==
    /\ StreamTypeOK
    /\ \A id \in 1..lastId : ev[id].body \in MemberBodies \cup {OtherBody}
    /\ forgotten \in [Rooms -> BOOLEAN]
    /\ fromTok = None \/ IsToken(fromTok)
    /\ incremental \in BOOLEAN
    /\ lastRange \subseteq StreamIds
    /\ IsResult(result) /\ prevJoined \subseteq Rooms /\ prevHidden \subseteq Rooms
    /\ clientView \in [Rooms -> 0..MaxStreamId]
    /\ untracked \subseteq Rooms

-----------------------------------------------------------------------------
(* Membership state of the store *)

\* The user's committed membership events in room r.
MembershipEvents(r) ==
    {id \in persisted : ev[id].body.room = r /\ ev[id].body.membership # None}

Mship(id) == ev[id].body.membership

\* The membership a change replaced (the delta's prev_membership).
PrevMembership(id) ==
    LET earlier == {j \in MembershipEvents(ev[id].body.room) : j < id}
    IN  IF earlier = {} THEN None ELSE Mship(Max(earlier))

\* The current membership: the latest committed membership event.
CurrentMembership(r) ==
    IF MembershipEvents(r) = {} THEN None ELSE Mship(Max(MembershipEvents(r)))

\* Membership transitions the room member handler accepts:
\* <<current membership, new membership, sent by the user itself>>.
ValidChange ==
    {<<p, "join", TRUE>>    : p \in {None, "leave", "invite", "join"}} \cup
    {<<p, "invite", FALSE>> : p \in {None, "leave", "knock"}} \cup
    {<<p, "knock", TRUE>>   : p \in {None, "leave"}} \cup
    {<<p, "ban", FALSE>>    : p \in {None, "leave", "invite", "join", "knock"}} \cup
    {<<p, "leave", TRUE>>   : p \in {"join", "invite", "knock"}} \cup
    {<<p, "leave", FALSE>>  : p \in {"join", "invite", "knock", "ban"}}

\* Events of one room are persisted one at a time, in id order.
RoomIdle(r) == \A id \in 1..lastId : ev[id].body.room = r => id \in persisted

-----------------------------------------------------------------------------
(* The resolver *)

\* Latest membership event of room r inside token tok (0 if none).
LatestAt(r, tok) ==
    LET ids == {id \in MembershipEvents(r) : ~PersistedAfter(id, tok)}
    IN  IF ids = {} THEN 0 ELSE Max(ids)

\* Membership changes of room r in (from, to]; none without a from token.
Changes(r, from, to) ==
    IF from = None THEN {}
    ELSE {id \in MembershipEvents(r) :
            ~PersistedAfter(id, to) /\ PersistedAfter(id, from)}

\* filter_membership_for_sync: a leave sent by someone else (a kick) keeps
\* the room, even if it happened before from_token.
IsKick(id) == Mship(id) = "leave" /\ ~ev[id].body.bySelf

\* Mutant: a kick before from_token drops the room like the user's own leave.
IncludedNoKick(r, from, to) ==
    LET l == LatestAt(r, to) IN
    /\ ~forgotten[r]
    /\ l # 0
    /\ \/ Mship(l) \in {"join", "invite", "knock", "ban"}
       \/ Mship(l) = "leave" /\ Changes(r, from, to) # {}

\* Conditions 1 and 2 of get_sync_room_ids_for_user, forgotten rooms dropped.
Included(r, from, to) ==
    LET l == LatestAt(r, to) IN
    /\ ~forgotten[r]
    /\ l # 0
    /\ \/ Mship(l) \in {"join", "invite", "knock", "ban"}
       \/ IsKick(l)
       \/ Mship(l) = "leave" /\ Changes(r, from, to) # {}

\* Mutant: prev_membership taken from the last change in range.
NewlyJoinedFromLast(r, from, to) ==
    LET ch == Changes(r, from, to) IN
    /\ Mship(LatestAt(r, to)) = "join"
    /\ ch # {}
    /\ \/ PrevMembership(Max(ch)) # "join"
       \/ \E id \in ch : Mship(id) # "join"

\* newly_joined: joined at to, and not live just before the window or some
\* non-join change in it.
NewlyJoined(r, from, to) ==
    LET ch == Changes(r, from, to) IN
    /\ Mship(LatestAt(r, to)) = "join"
    /\ ch # {}
    /\ \/ PrevMembership(Min(ch)) # "join"
       \/ \E id \in ch : Mship(id) # "join"

Resolve(from, to) ==
    [r \in {x \in Rooms : Included(x, from, to)} |->
        [event |-> LatestAt(r, to),
         membership |-> Mship(LatestAt(r, to)),
         newly_joined |-> NewlyJoined(r, from, to)]]

\* Membership events a sync over (from, to] covers.
Covered(from, to) ==
    {id \in UNION {MembershipEvents(r) : r \in Rooms} :
        ~PersistedAfter(id, to) /\ (from = None \/ PersistedAfter(id, from))}

-----------------------------------------------------------------------------
(* Actions *)

Init ==
    /\ StreamInit
    /\ forgotten = [r \in Rooms |-> FALSE]
    /\ fromTok = None /\ incremental = FALSE /\ lastRange = {}
    /\ result = <<>> /\ prevJoined = {} /\ prevHidden = {}
    /\ clientView = [r \in Rooms |-> 0] /\ untracked = {}

\* A membership change of the user in room r is created and handed an id
\* on the room's writer.
ChangeMembership(r, m, self) ==
    /\ RoomIdle(r)
    /\ <<CurrentMembership(r), m, self>> \in ValidChange
    /\ Allocate(Shard[r], [room |-> r, membership |-> m, bySelf |-> self])
    /\ UNCHANGED <<persisted, forgotten, fromTok, result, historyVars>>

\* Any other event takes an id on writer w (the test's stuck get_next()).
OtherEvent(w) ==
    /\ Allocate(w, OtherBody)
    /\ UNCHANGED <<persisted, forgotten, fromTok, result, historyVars>>

\* A writer commits an in-flight event; a new membership row is not forgotten.
Persist(id) ==
    /\ Commit(id)
    /\ forgotten' = IF ev[id].body.room = NoRoom THEN forgotten
                    ELSE [forgotten EXCEPT ![ev[id].body.room] = FALSE]
    /\ UNCHANGED <<fromTok, result, historyVars>>

\* POST /rooms/{r}/forget: only allowed once the user has left or is banned.
Forget(r) ==
    /\ CurrentMembership(r) \in {"leave", "ban"}
    /\ ~forgotten[r]
    /\ forgotten' = [forgotten EXCEPT ![r] = TRUE]
    /\ UNCHANGED <<streamVars, fromTok, result, historyVars>>

\* A sliding sync request: resolve (fromTok, current token] and hand the
\* client the current token as its next position.
Sync ==
    LET to == CurrentToken
        range == Covered(fromTok, to)
        res == Resolve(fromTok, to)
    IN
    /\ result' = res
    /\ prevJoined' = {r \in DOMAIN result : result[r].membership = "join"}
    /\ prevHidden' = untracked
    /\ incremental' = (fromTok # None)
    /\ fromTok' = to
    /\ lastRange' = range
    \* the client applies the response: rooms in it are replaced, the others
    \* are kept (an initial sync starts from nothing)
    /\ clientView' = [r \in Rooms |->
                        IF r \in DOMAIN res THEN res[r].event
                        ELSE IF fromTok = None THEN 0 ELSE clientView[r]]
    /\ untracked' = (untracked \cup {r \in Rooms : forgotten[r]}) \ DOMAIN res
    /\ UNCHANGED <<streamVars, forgotten>>

Next ==
    \/ \E r \in Rooms, m \in Memberships, self \in BOOLEAN :
          ChangeMembership(r, m, self)
    \/ \E w \in Writers : OtherEvent(w)
    \/ \E id \in StreamIds : Persist(id)
    \/ \E r \in Rooms : Forget(r)
    \/ Sync

Spec == Init /\ [][Next]_vars

-----------------------------------------------------------------------------
(* Properties *)

\* The token chain partitions the event log.  Every event at or before the
\* client's token is persisted already, so no range will ever have to
\* cover it again and none is skipped when it commits late; a token that
\* moves past an id its writer has not committed yet, or a position
\* compared as one scalar, loses that change (test_sharded_event_persisters).
NothingInFlightBehindToken ==
    fromTok # None =>
        \A id \in 1..lastId : ~PersistedAfter(id, fromTok) => id \in persisted

\* Each sync's token is at or past the previous one for every writer, so
\* consecutive ranges (from, to] never overlap and no change is delivered
\* twice.  A writer's position read from its newest in-flight id instead
\* of its oldest moves back once that newest id commits.
TokensNeverMoveBack ==
    [][Sync /\ fromTok # None =>
         \A w \in Writers : GetStreamPosForInstance(fromTok, w)
                             <= GetStreamPosForInstance(fromTok', w)]_vars

\* Incremental sync converges: for every room not hidden by /forget, what
\* the client holds after applying each response is the user's latest
\* membership event inside its position; the only room it may lack is one
\* the user itself left before it first synced (get_sync_room_ids_for_user
\* conditions 1 and 2, and the latest-event pointer of spec 4.2 step 3).
ClientViewMatchesStore ==
    fromTok # None =>
      \A r \in Rooms \ untracked :
        LET l == LatestAt(r, fromTok) IN
        \/ clientView[r] = l
        \/ clientView[r] = 0 /\ l # 0 /\ Mship(l) = "leave" /\ ev[l].body.bySelf

\* newly_joined tells the client exactly when a joined room is new to it:
\* it is set iff the previous response did not show the room as joined or
\* the user left and re-joined inside the window (spec 4.2 step 4).  A room
\* /forget had hidden is exempt: a later membership row clears the flag and
\* the room comes back as it stood at the token.
NewlyJoinedIffNotLiveBefore ==
    incremental =>
      \A r \in DOMAIN result \ prevHidden :
        result[r].membership = "join" =>
          (result[r].newly_joined <=>
             \/ r \notin prevJoined
             \/ \E id \in lastRange : ev[id].body.room = r /\ Mship(id) # "join")

-----------------------------------------------------------------------------
(* What spec.md states and the handler's tests contradict *)

\* spec 4.2 step 4: with no from_token, a room whose first-ever membership
\* is the join inside the window is newly joined.
SpecNewlyJoinedWithoutFrom ==
    ~incremental =>
      \A r \in DOMAIN result :
        result[r].membership = "join"
        /\ Mship(Min(MembershipEvents(r))) = "join" => result[r].newly_joined

\* spec 4.2 condition 2: on a sync with a from_token, a room whose leave
\* lies before from_token is excluded; only leaves inside the window are
\* returned.
SpecOldLeaveExcluded ==
    incremental =>
      \A r \in DOMAIN result :
        result[r].membership = "leave" => result[r].event \in lastRange

=============================================================================
