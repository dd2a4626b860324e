------------------------- MODULE RoomSyncConfigMerger -------------------------
(***************************************************************************)
(* RoomSyncConfig (spec 4.3): from_room_config flattens a list's or room   *)
(* subscription's required_state pairs into a map event_type -> set of     *)
(* state keys with wildcard absorption, and combine_room_sync_config       *)
(* merges another config into this one.  For one sync request, the lists   *)
(* and subscriptions that cover a room arrive one after the other; the     *)
(* first sets the room's config and each later one is combined into it.    *)
(* Python iterates the other config's sets in no specified order, so the   *)
(* order in which its pairs are merged is chosen nondeterministically.     *)
(* The behaviour is fixed by RoomSyncConfigTestCase                        *)
(* (tests/handlers/test_sliding_sync.py); the class is not in this         *)
(* repository.  $LAZY is an ordinary state key here, as the tests say.     *)
(***************************************************************************)
EXTENDS Naturals, Sequences, SequencesExt, FiniteSets

CONSTANTS
    Types,          \* concrete event types
    Keys,           \* concrete state keys ($LAZY among them)
    Wildcard,       \* StateValues.WILDCARD, usable as a type or a key
    Limits,         \* timeline_limit values
    MaxPairs,       \* bound on the length of one required_state list
    MaxLists,       \* bound on the lists and subscriptions covering the room
    None

StateTypes == Types \cup {Wildcard}
StateKeys == Keys \cup {Wildcard}
Pair == StateTypes \X StateKeys

\* A required_state_map: no event type maps to an empty set.
IsStateMap(m) ==
    /\ DOMAIN m \subseteq StateTypes
    /\ \A x \in DOMAIN m : m[x] \subseteq StateKeys /\ m[x] # {}

EmptyMap == [x \in {} |-> {}]
AllWild == Wildcard :> {Wildcard}

\* required_state_map.get(state_type, set())
Get(m, t) == IF t \in DOMAIN m THEN m[t] ELSE {}

\* required_state_map[state_type] = keys
SetKeys(m, t, ks) == [x \in DOMAIN m \cup {t} |-> IF x = t THEN ks ELSE m[x]]

\* The (type, key) pairs a map lists.
Pairs(m) == UNION {{<<t, k>> : k \in m[t]} : t \in DOMAIN m}

\* Mutant: the skip misses a wildcard state key of the same type.
CoveredNoTypeWildcard(m, t, k) ==
    Wildcard \in Get(m, Wildcard) \/ k \in Get(m, Wildcard)

\* A pair adds nothing: the map is all-wildcard (the loop has stopped),
\* the key is already wildcarded for every type, or the type is already
\* wildcarded for every key.
Covered(m, t, k) ==
    \/ Wildcard \in Get(m, Wildcard)
    \/ k \in Get(m, Wildcard)
    \/ Wildcard \in Get(m, t)

\* Mutant: the key is removed but empty sets are left in the map.
DiscardKeyNoPop(m, k) == [x \in DOMAIN m |-> m[x] \ {k}]

\* Mutant: a (WILDCARD, key) pair leaves the other types' entries alone.
DiscardKeyNone(m, k) == m

\* A (WILDCARD, key) pair removes key from every other entry, and drops
\* the entries it leaves empty.
DiscardKey(m, k) ==
    [x \in {y \in DOMAIN m : m[y] \ {k} # {}} |-> m[x] \ {k}]

\* Adding one (event_type, state_key) pair to a map.
Insert(m, p) ==
    LET t == p[1]
        k == p[2]
    IN  IF Covered(m, t, k) THEN m
        ELSE IF t = Wildcard /\ k = Wildcard THEN AllWild
        ELSE LET m1 == IF t = Wildcard THEN DiscardKey(m, k) ELSE m
             IN  IF k = Wildcard THEN SetKeys(m1, t, {Wildcard})
                 ELSE SetKeys(m1, t, Get(m1, t) \cup {k})

\* The for loop over pairs ps, in order, adding each to m.
RECURSIVE InsertAll(_, _)
InsertAll(m, ps) == IF ps = <<>> THEN m ELSE InsertAll(Insert(m, Head(ps)), Tail(ps))

\* RoomSyncConfig.from_room_config: the pairs in list order.
FromRoomConfig(params, limit) ==
    [timeline_limit |-> limit,
     required_state_map |-> InsertAll(EmptyMap, params)]

\* Mutant: the other config's entries overwrite this one's (dict.update).
CombineIntoUpdate(a, b, order) ==
    [timeline_limit |-> IF a.timeline_limit < b.timeline_limit
                        THEN b.timeline_limit ELSE a.timeline_limit,
     required_state_map |->
        [x \in DOMAIN a.required_state_map \cup DOMAIN b.required_state_map |->
            IF x \in DOMAIN b.required_state_map THEN b.required_state_map[x]
            ELSE a.required_state_map[x]]]

\* a.combine_room_sync_config(b): the larger timeline limit, and b's
\* pairs merged into a's map in the iteration order `order`.
CombineInto(a, b, order) ==
    [timeline_limit |-> IF a.timeline_limit < b.timeline_limit
                        THEN b.timeline_limit ELSE a.timeline_limit,
     required_state_map |-> InsertAll(a.required_state_map, order)]

\* Every sequence listing the elements of S once each.
RECURSIVE Arrangements(_)
Arrangements(S) ==
    IF S = {} THEN {<<>>}
    ELSE UNION {{<<x>> \o r : r \in Arrangements(S \ {x})} : x \in S}

\* The orders in which b's pairs may be iterated.
Orders(b) == Arrangements(Pairs(b.required_state_map))

VARIABLES
    lists,          \* the required_state lists seen so far, in arrival order
    limits,         \* the timeline limits they asked for
    roomConfig      \* the room's RoomSyncConfig (None: no list yet)

vars == <<lists, limits, roomConfig>>

TypeOK ==
    /\ lists \in Seq(BoundedSeq(Pair, MaxPairs))
    /\ Len(lists) <= MaxLists
    /\ limits \subseteq Limits
    /\ roomConfig = None \/
         /\ roomConfig.timeline_limit \in Limits
         /\ IsStateMap(roomConfig.required_state_map)

Init ==
    /\ lists = <<>>
    /\ limits = {}
    /\ roomConfig = None

\* One more list or subscription covers the room: its config is built and
\* stored for the room, or combined into the stored one.
AddList(params, limit) ==
    /\ Len(lists) < MaxLists
    /\ lists' = Append(lists, params)
    /\ limits' = limits \cup {limit}
    /\ LET new == FromRoomConfig(params, limit)
       IN  roomConfig' \in IF roomConfig = None THEN {new}
                           ELSE {CombineInto(roomConfig, new, o) : o \in Orders(new)}

\* The response is built; the next sync request starts from nothing.
Respond ==
    /\ roomConfig # None
    /\ lists' = <<>>
    /\ limits' = {}
    /\ roomConfig' = None

Next ==
    \/ \E params \in BoundedSeq(Pair, MaxPairs), limit \in Limits :
          AddList(params, limit)
    \/ Respond

Spec == Init /\ [][Next]_vars

-----------------------------------------------------------------------------
\* What a pair and a map ask for, as a predicate over concrete (type, key).
PairCovers(p, t, k) == p[1] \in {t, Wildcard} /\ p[2] \in {k, Wildcard}

Covers(m, t, k) == \E x \in DOMAIN m \cap {t, Wildcard} : m[x] \cap {k, Wildcard} # {}

Requested(t, k) ==
    \E i \in 1..Len(lists) : \E j \in 1..Len(lists[i]) :
        PairCovers(lists[i][j], t, k)

(* Safety (spec 4.3): the merged config asks for a concrete (type, key)   *)
(* exactly when one of the lists or subscriptions asked for it, wildcards *)
(* included, and its timeline limit is the largest of theirs: wildcard    *)
(* absorption and combine never lose nor invent coverage.                 *)
RoomConfigCoversRequested ==
    roomConfig # None =>
        /\ \A t \in Types, k \in Keys :
              Covers(roomConfig.required_state_map, t, k) <=> Requested(t, k)
        /\ roomConfig.timeline_limit \in limits
        /\ \A l \in limits : l <= roomConfig.timeline_limit

(* Safety: the map has the normal form of the tests' expected configs:    *)
(* no empty entry, an all-wildcard map holds nothing else, a wildcard key *)
(* is alone in its set, and a key wildcarded for every type is listed     *)
(* under no concrete type.                                                *)
Normalised(m) ==
    /\ \A x \in DOMAIN m : m[x] # {}
    /\ Wildcard \in Get(m, Wildcard) => m = AllWild
    /\ \A x \in DOMAIN m : Wildcard \in m[x] => m[x] = {Wildcard}
    /\ \A x \in DOMAIN m \ {Wildcard} : m[x] \cap Get(m, Wildcard) = {}

RoomConfigNormalised ==
    roomConfig # None => Normalised(roomConfig.required_state_map)

\* m with the lists' maps ms combined into it in the order perm,
\* each combine iterating in one fixed order.
RECURSIVE MergeAll(_, _, _)
MergeAll(m, ms, perm) ==
    IF perm = <<>> THEN m
    ELSE MergeAll(FoldSet(LAMBDA p, acc : Insert(acc, p), m, Pairs(ms[Head(perm)])),
                  ms, Tail(perm))

(* Safety (spec 8; test_combine_room_sync_config merges A into B and B    *)
(* into A): the room's config does not depend on the order in which the   *)
(* lists and subscriptions are processed, nor on the order Python         *)
(* iterates each set: combine is commutative and associative.             *)
RoomConfigIndependentOfOrder ==
    roomConfig # None =>
        LET ms == [i \in 1..Len(lists) |-> InsertAll(EmptyMap, lists[i])]
        IN  \A perm \in Arrangements(1..Len(lists)) :
                roomConfig.required_state_map = MergeAll(EmptyMap, ms, perm)

=============================================================================
