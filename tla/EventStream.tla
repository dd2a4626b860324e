---------------------------- MODULE EventStream ----------------------------
(***************************************************************************)
(* The sharded event stream behind RoomStreamToken (spec.md sections 3, 5).*)
(*                                                                         *)
(* Several event-persister workers ("writers") draw stream ids from one    *)
(* shared sequence and persist them independently, so ids are committed    *)
(* out of order across writers.  A writer's position is the highest id     *)
(* below which it has nothing in flight; the current token is the minimum  *)
(* position ("stream") plus an instance_map of the writers ahead of it.    *)
(* An event written by writer w at id s is inside a token t iff            *)
(* s <= t's position for w: positions are compared per writer, never as a *)
(* single scalar.                                                          *)
(*                                                                         *)
(* The handler that owns these semantics is not in this repository; the   *)
(* definitions follow spec.md and the assertions of                        *)
(* tests/handlers/test_sliding_sync.py::test_sharded_event_persisters.     *)
(***************************************************************************)
EXTENDS Integers, FiniteSets, FiniteSetsExt, TLC

CONSTANTS
    Writers,        \* event persister instances
    MaxStreamId     \* bound on the shared stream id sequence

ASSUME Writers # {} /\ MaxStreamId \in Nat \ {0}

VARIABLES
    lastId,         \* last id handed out by the shared sequence
    ev,             \* ev[id] = [writer |-> w, body |-> b] for every id handed out
    persisted       \* ids whose event is committed to the database

streamVars == <<lastId, ev, persisted>>

StreamIds == 1..MaxStreamId

\* Ids of writer w that were handed out but are not yet committed.
InFlight(w) == {id \in 1..lastId : ev[id].writer = w /\ id \notin persisted}

\* The writer's current position: everything it wrote at or below it is
\* committed.  A writer with nothing in flight has committed every id it was
\* given, so it stands at the head of the sequence.
\* Mutant: the position read from the newest in-flight id, not the oldest.
PosNewest(w) == IF InFlight(w) = {} THEN lastId ELSE Max(InFlight(w)) - 1

Pos(w) == IF InFlight(w) = {} THEN lastId ELSE Min(InFlight(w)) - 1

\* Mutant: the instance_map also lists the writers standing at the minimum.
CurrentTokenAtOrAhead ==
    LET m == Min({Pos(w) : w \in Writers})
    IN  [stream |-> m,
         instance_map |-> [w \in {x \in Writers : Pos(x) >= m} |-> Pos(w)]]

\* The token handed out as "current": the minimum position, and the writers
\* that are strictly ahead of it.
CurrentToken ==
    LET m == Min({Pos(w) : w \in Writers})
    IN  [stream |-> m,
         instance_map |-> [w \in {x \in Writers : Pos(x) > m} |-> Pos(w)]]

\* RoomStreamToken.get_stream_pos_for_instance
GetStreamPosForInstance(tok, w) ==
    IF w \in DOMAIN tok.instance_map THEN tok.instance_map[w] ELSE tok.stream

\* RoomStreamToken.get_max_stream_pos
GetMaxStreamPos(tok) ==
    Max({tok.stream} \cup {tok.instance_map[w] : w \in DOMAIN tok.instance_map})

\* Mutant: the token compared as one scalar, its maximum position.
PersistedAfterMaxPos(id, tok) == GetMaxStreamPos(tok) < id

\* PersistedEventPosition.persisted_after: the event at id lies beyond tok.
PersistedAfter(id, tok) == GetStreamPosForInstance(tok, ev[id].writer) < id

IsToken(tok) ==
    /\ DOMAIN tok = {"stream", "instance_map"}
    /\ tok.stream \in 0..MaxStreamId
    /\ DOMAIN tok.instance_map \subseteq Writers
    /\ \A w \in DOMAIN tok.instance_map : tok.instance_map[w] \in 0..MaxStreamId
    \* the m{min_pos}~{writer}.{pos} form: stream is the minimum position and
    \* only the writers ahead of it are listed
    /\ \A w \in DOMAIN tok.instance_map : tok.instance_map[w] > tok.stream

StreamTypeOK ==
    /\ lastId \in 0..MaxStreamId
    /\ DOMAIN ev = 1..lastId
    /\ \A id \in 1..lastId : ev[id].writer \in Writers
    /\ persisted \subseteq 1..lastId

StreamInit ==
    /\ lastId = 0
    /\ ev = <<>>
    /\ persisted = {}

\* MultiWriterIdGenerator.get_next: writer w takes the next id for body b.
Allocate(w, b) ==
    /\ lastId < MaxStreamId
    /\ lastId' = lastId + 1
    /\ ev' = ev @@ (lastId + 1 :> [writer |-> w, body |-> b])

\* The writer commits one of its in-flight events (any of them: writers
\* finish their ids in any order).
Commit(id) ==
    /\ id \in (1..lastId) \ persisted
    /\ persisted' = persisted \cup {id}
    /\ UNCHANGED <<lastId, ev>>

=============================================================================
