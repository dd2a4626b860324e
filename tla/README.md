# TLA+ models of SynapseSDK_API

This directory holds TLA+ specifications of the parts of the repository that
have state, concurrency or a non-obvious algorithm. It also holds the TLC
configurations that check them. `PROJECT.json` lists:

- the components;
- the runs;
- the mutants, one per checked property;
- the map from every definition to the source lines it models;
- the findings and the hazards.

## The system

The repository has two halves.

- **Sliding sync (spec.md).** The `RoomMembershipResolver` decides which rooms
  a sliding-sync response covers for a window `(from_token, to_token]`, and
  whether each one is `newly_joined`. It reads a membership log written by
  sharded event persisters. A stream token is therefore
  `{stream, instance_map}`, and an event is inside a token by the position of
  its own writer (`persisted_after`). `RoomSyncConfigMerger`,
  `RoomFilterEngine` and `RoomSorter` post-process the result.

  The handler code is not in the repository. Its behaviour is fixed by
  `src/tests/handlers/test_sliding_sync.py` and by spec.md. Where a test
  pins a definition, the map points at the test. Otherwise the definition is
  `spec_modelled`.
- **Client REST servlets (`src/synapse/rest/client`).**
  - `keys.py` has the end-to-end keys endpoints. `SigningKeyUploadServlet`
    has three awaits between its check and its write.
  - `delayed_events.py` has the MSC4140 servlets.

  Both delegate to handlers that are not in the repository.

## Modules

| Module | Models | State | Actions |
|---|---|---|---|
| `EventStream` | `MultiWriterIdGenerator` and `RoomStreamToken` (spec 4.1, test_sharded_event_persisters) | `lastId`, `ev` (id to writer and body), `persisted` | `Allocate` (get_next), `Commit` (a writer finishes an id in any order) |
| `SlidingSyncRooms` (EXTENDS EventStream) | get_sync_room_ids_for_user driven by one client syncing repeatedly | `forgotten`, `fromTok`, last `result`, and what the client holds (`clientView`, `untracked`) | `ChangeMembership`, `OtherEvent`, `Persist`, `Forget`, `Sync` |
| `SigningKeyUpload` | `SigningKeyUploadServlet.on_POST` (keys.py 374-445), several requests of one user | `mode`, stored `masterKey`, `replaceable`, per request `pc` and the values it read | `Receive`, `CheckSetup`, `CompareKeys`, `UserInteractiveAuth`, `Upload`, `ApproveReset`, `ApprovalExpires` |
| `CrossSigningKeys` | the abstract promise of the cross-signing endpoint (comments at keys.py 385-394, 420-422) | `masterKey`, `replaceable`, `proofs` (keys an authorisation was obtained for) | `SetUp`, `Reset`, `Authorise`, `Abandon`, `Approve`, `Expire` |
| `KeyUpload` | `KeyUploadServlet.on_POST` (keys.py 110-152), with other sessions of the user | `dehydrated`, per request `pc`, `session`, `target`, `warned`, `response`, the devices `keyed` | `Receive`, `ReadDehydrated`, `Upload`, `ReplaceDehydrated` |
| `ClientServlets` | `KeyQueryServlet`, `KeyChangesServlet`, `SignaturesUploadServlet`, the delayed-events servlets and both `register_servlets` | `mainProcess`, `msc3983`, the last handler `call`, `response` | `QueryKeys`, `KeyChanges`, `SignaturesUpload`, `UpdateDelayedEvent`, `GetDelayedEvents` |
| `RoomSyncConfigMerger` | `RoomSyncConfig.from_room_config` and `combine_room_sync_config` (spec 4.3, RoomSyncConfigTestCase), merged over the lists and subscriptions covering one room | `lists` (required_state of each), `limits`, `roomConfig` | `AddList` (from_room_config, then combine into the room's config), `Respond` |
| `OneTimeKeyClaim` | the query built by `OneTimeKeyServlet` and `UnstableOneTimeKeyServlet` (keys.py 291-353) | `endpoint`, `otk` (the body), `query` | `Receive`, `ClaimStable`, `ClaimUnstable` |
| `RoomLists` | `filter_rooms` and `sort_rooms` (spec 4.4, 4.5; FilterRoomsTestCase, SortRoomsTestCase, test_lists_filters.py) for one list of one user | the event stream `log`, the sync's `pc` and `toTok`, the last list's `filter`, `result` and `listTok` | `ChangeMembership`, `RemoteInvite`, `Send` (a message or m.room.encryption), `StartSync` (take to_token), `ComputeList` (filter, then sort at the token) |

`MC*.tla` modules give the model values. In `SlidingSyncRooms`:

- A writer's position is its oldest in-flight id minus one, or `lastId` when
  it is idle.
- The current token is the minimum position plus the writers ahead of it.
- A room's events are persisted one at a time, so a new one waits for the
  room to be idle.
- `Persist` also clears the room's forgotten flag. The flag is a column of
  the membership row, so a new row is not forgotten.
- `Sync` does all of the following in one step:
  - resolves `(fromTok, current]`;
  - applies the response to the client's view: rooms in it are replaced and
    the others are kept;
  - moves the client to the new token.

In `SigningKeyUpload`, each action ends at an await of `on_POST`. The values
`check_cross_signing_setup` returned are kept per request and used after the
later awaits, as the code does. The `upload_signing_keys_for_user` of the
store:

- stores the key;
- fails with 500 when the same key is already stored, as the FIXME at
  keys.py 416-418 reports.

`SigningKeyUpload` is shown to implement `CrossSigningKeys` through
`KeyStore == INSTANCE CrossSigningKeys WITH proofs <- ...`. The refinement
mapping keeps `masterKey` and `replaceable`. It maps `proofs` to the keys of
requests that are waiting to upload and are authorised: UIA passed, or MSC3861
with the key set up and marked replaceable. An upload is then a `SetUp` or a
`Reset` of the abstract store. Starting or ending a request is an
`Authorise` or an `Abandon`. `ImplementsCrossSigningKeys` (the abstract
`Spec`) is checked as a PROPERTY.

In `KeyUpload`, a path `device_id` other than the session's makes the handler
await `get_dehydrated_device`. `ReplaceDehydrated` is another session of the
user storing or claiming a dehydrated device, at any point. `warned` is the
`set_tag("error", True)` of the different-device warning; the upload itself
is unconditional, whatever was read.

In `ClientServlets`, a JSON value is its kind (string, number, null, list of
strings, mixed list, object). A `device_keys` object maps a subset of the users
to kinds. `str(body["action"])` is modelled by what it does: a string stays a
string, and any other value becomes its Python text.

In `RoomSyncConfigMerger`, `Insert` adds one `(event_type, state_key)` pair
with the absorption rules the test table pins:

- nothing is added once the map is all-wildcard, or when the key is already
  wildcarded for every type, or the type for every key;
- `(*, *)` replaces the map;
- `(*, key)` removes `key` from the other entries and drops the ones it
  empties;
- `(type, *)` replaces the type's keys.

`from_room_config` is `Insert` over the list in order. `combine` is `Insert`
over the other config's pairs, in an order chosen nondeterministically:
Python's set iteration order is not specified. The reference definitions are
`Requested`, which says whether some list's pair asked for a concrete
`(type, key)`, and `Covers`, which says whether the map does.

## Runs

| Run | Result | What it shows |
|---|---|---|
| `sliding_sync` | pass | Over any interleaving of membership changes, late commits on a lagging writer, forgets and syncs, the following hold: no event still in flight is ever behind the client's token; tokens never move back; the client's view equals the store at its token; `newly_joined` is set exactly when the room was not shown as joined before, or the user left inside the window. Every token handed out is in the `m{min_pos}~{writer}.{pos}` form: only writers ahead of `stream` are in its `instance_map` (part of `TypeOK`). |
| `spec_newly_joined_without_from` | violation | spec 4.2 step 4 (a first-ever join with no from_token is newly joined) contradicts test_no_from_token. |
| `spec_old_leave_excluded` | violation | spec 4.2 condition 2 (on an incremental sync, old leaves are excluded) contradicts test_get_kicked_room. In TLC's trace the user is invited and kicked, syncs once, then syncs from a token after the kick, and the kicked room is still returned. |
| `signing_key_upload` | pass | With one request at a time, in every configuration, the servlet implements `CrossSigningKeys`: a master key is only replaced after UIA or the auth service's approval. `TypeOK` also says where a request can be suspended in each configuration: there is no key comparison outside MSC3967 and no UIA under MSC3861. |
| `signing_key_race_reset` | violation | Two concurrent first-time uploads. The second replaces the first's key with no UIA or approval, because `is_cross_signing_setup` was read before the first upload. The step is not one of `CrossSigningKeys`. |
| `signing_key_race_resend` | violation | Two concurrent MSC3967 requests carry the same new keys. Both find them different at `has_different_keys`, both upload, and the second is answered 500. The comment at keys.py 410-411 promises 200 for resent keys (`ResendingSameKeysNeverFails`). |
| `key_upload` | pass | Over any three requests and concurrent changes to the dehydrated device, keys are stored only for a device id, and a request with none is refused with 400. |
| `client_servlets` | pass | For every request shape, in every process configuration, the servlets register, parse and dispatch as the code does, and every answer is 200 or 400. |
| `room_sync_config_merger` | pass | Three lists of up to two pairs, merged in any order and any iteration order. The room's config covers exactly the requested pairs and has the largest timeline limit. It is in the tests' normal form: no empty entry, nothing beside `(*, *)`, a wildcard key alone, and no key under a concrete type once wildcarded for every type. It equals the result of merging the lists in every other order (commutativity and associativity, spec 8). |
| `one_time_key_claim` | pass | For every body with up to 2 users, 2 devices and lists of up to 2 algorithms, the query is exactly what the request names: one key per device (stable), and the multiplicity of each algorithm (unstable, `Counter`). |
| `room_lists` | pass | Over every stream of up to 4 joins, leaves, invites, messages and encryption events in 3 rooms, with other users writing between the token and the sort, every list is in decreasing order of the latest event the user could see at its token (`ListOrderedByVisibleRecency`). From one list to the next, a room the user left or was invited to never overtakes a room it was behind (`LeftRoomStaysBehind`). A list recomputed later for the same filters and token differs only by rooms encrypted after the token, and the rooms in both keep their order (`RecomputeChangesOnlyByLaterEncryption`). |

Each property of a passing run has a mutant in `PROJECT.json`. A mutant is
an operator defined just before the definition it replaces, for example:

- a token whose `instance_map` also lists the writers at its minimum
  (`CurrentTokenAtOrAhead`);
- a position read from the newest in-flight id (`PosNewest`);
- a token compared as one scalar (`PersistedAfterMaxPos`);
- a dropped kick rule;
- `prev_membership` taken from the last change in the range;
- MSC3967 without the setup check;
- MSC3861 asking for UIA instead of answering 501 (`CheckSetupMsc3861Uia`);
- `setdefault` replaced by an assignment;
- the `device_id is None` check dropped;
- a room's recency read from the stream as it is now, or not frozen at a
  leave (`RecencyNow`, `RecencyUnfrozen`);
- `body["action"]` read without `except KeyError`;
- the cross-signing servlets registered on workers;
- empty entries left after a `(*, key)` discard, or no discard at all;
- a skip that ignores the type's own wildcard;
- `combine` done as `dict.update`.

TLC finds the property violated under each of these mutants.

In `RoomLists`, the stream is a log of events, and a position is an index into it.
- A membership event is the user's own. `leave` and `invite` stand for every
  non-join membership, since test_activity_after_xxx treats LEAVE, INVITE,
  KNOCK and BAN alike.
- `Recency` is sort_rooms' key. It is the latest event up to the token,
  frozen at the user's membership event unless that event is a join. Every
  event type counts (test_default_bump_event_types).
- `Matches` ANDs the set filters. `is_encrypted` reads the room's current
  state. A room in `RemoteRooms` (a remote invite with no stripped state)
  matches neither `is_encrypted` value and no `room_types` list. No test
  pins `not_room_types` for such a room. The model excludes it, as spec 4.4
  does for missing encryption state.
- In a room of `LocalMemberRooms`, another local user stays joined. In any
  other room the server participates only while the user is joined
  (`Participating`). A local invite does not count
  (test_filter_encrypted_server_left_room2). Once the server has left, no
  event of the room arrives (`Send` is disabled), so its current state is
  the state as of departure.
- A sync takes its token in `StartSync` and computes the list in
  `ComputeList`. Other users' events can land in between.
- The reference `VisibleRecency` judges visibility one event at a time: an
  event counts when the user's latest membership before it is a join.

## Bounds

- **Sliding sync:** 2 writers, 1 room sharded to w1, and 4 stream ids
  (284,666 distinct states, under a minute). w2's other events hold its
  position back or let it run ahead, so tokens get a non-empty
  `instance_map`. Four ids reach:
  - join, ban, a leave by someone else, and a join behind an in-flight event
    of the other writer;
  - leave-rejoin cycles inside one window.

  The resolver treats rooms independently given the token, so a second room
  adds states and no new interaction.
- **Signing keys:** two keys and up to 4 requests. The passing run uses one
  request slot. The two race runs, `signing_key_race_reset` and
  `signing_key_race_resend`, use two. All three modes are chosen in
  `Init`.
- **Key upload:** one request slot, up to 3 requests, and 3 device ids
  (1,852 states). The 3 ids are the session's, the dehydrated one and a
  third. Other sessions are modelled by `ReplaceDehydrated`, and requests
  share nothing else but the key store, so a second slot adds nothing.
- **Client servlets:** three queried users, every parameter as absent, bad
  or valid, and every JSON kind (172 states).
- **Room sync config:** 2 event types, 2 state keys, the wildcard, limits
  {1, 2}, and up to 3 lists of up to 2 pairs. That is 575,026 states in about
  2 minutes, with symmetry over the concrete types and keys. Three lists are
  the fewest that test associativity. Two pairs per list reach every
  absorption rule within one list, and two types let a `(*, key)` discard
  empty one entry and keep another.
- **Room lists:** three rooms, 4 stream positions and 6 filters.
  - The rooms: r1, a DM that another local user stays joined to; r2, a
    space the server leaves with the user; r3, a remote invite with no
    stripped state.
  - The filters: none, `is_encrypted` either way, `is_invite`,
    `is_dm=False`, and `room_types` with `not_room_types`.

  That is 673,164 states in under 90 seconds. Four
  positions are the fewest that reach the scenario of test_activity_after_xxx:
  a join, a leave, activity after the leave, and activity after a token.
- **One-time keys:** every body over 2 users, 2 devices and 2 algorithms,
  with lists of length 0 to 2.

## Fairness

No run checks a liveness property, so no fairness is assumed. Every answer
the servlets give is a single step of the model, and the sliding-sync and
room-list properties are safety properties over every interleaving.

`CHECK_DEADLOCK FALSE` appears only in the signing-key cfgs, because the user
stops sending requests once the bound is reached. The key-upload run keeps
deadlock checking on, because `ReplaceDehydrated` can always move, and so does the room-lists run, because a sync can always start.

## What the model found

- The first-time-setup race is real: the handler holds no lock per user
  between its check and its write. The same gap lets two identical MSC3967
  uploads both pass `has_different_keys` and reach the INSERT. The FIXME at
  keys.py 416-418 records the 500 an identical upload gets at the INSERT; the
  early return it explains does not prevent it under this race.
- spec.md disagrees with the tests in two places (see `findings`).
- spec.md also disagrees with itself. Section 4.4 has `is_encrypted` read
  the current state, which test_filter_encrypted_after_we_left relies on.
  Section 5 says a list is a pure function of its inputs and safe to
  recompute for a token. A room encrypted after the token changes the list
  recomputed for that token. `RecomputeChangesOnlyByLaterEncryption` checks
  that this is the only way a recomputed list can differ.
- While building the sliding-sync model, TLC showed one more case. A room
  hidden by `/forget` comes back when a later membership row clears the flag,
  with `newly_joined` False. test_forgotten_rooms documents that the flag is
  not time-windowed, so the properties exempt rooms hidden by `/forget`.

## Not modelled yet (plan for later work)

In order of value:

1. Remote invites that carry stripped state
   (test_filter_encrypted_with_remote_invite_encrypted_room). `RoomLists`
   treats them like local rooms.
2. The composition of `SlidingSyncRooms` (which rooms are in the map) with
   `RoomLists` (how they are filtered and sorted). `RoomLists` abstracts the
   resolver to the rooms with a membership at the token. Together the two
   state spaces exceed what TLC checks in minutes.

Some parts will not be modelled:

- federation media, which is I/O and multipart encoding;
- the handlers behind the servlets (`query_devices`,
  `get_user_ids_changed`, `upload_signatures_for_device_keys`, the delayed
  events handler), which are not in the repository;
- the null `event_id` of rooms with no local members, because other users'
  memberships are abstracted away.
