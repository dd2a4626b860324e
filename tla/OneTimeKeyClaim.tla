--------------------------- MODULE OneTimeKeyClaim ---------------------------
(***************************************************************************)
(* POST /keys/claim (OneTimeKeyServlet) and its MSC3983 variant            *)
(* (UnstableOneTimeKeyServlet) in synapse/rest/client/keys.py: the query   *)
(* passed to claim_one_time_keys is built from the request body by a      *)
(* double loop with setdefault; the stable endpoint asks for one key per  *)
(* device, the unstable one for Counter(algorithms) keys.  Requests arrive *)
(* one after the other; each is answered with the query it produced.      *)
(***************************************************************************)
EXTENDS Naturals, Sequences, SequencesExt, BagsExt, FiniteSets

CONSTANTS
    Users, Devices, Algorithms,
    MaxAlgs,        \* bound on the length of one device's algorithm list
    None

Endpoints == {"stable", "unstable"}

\* Partial functions from S to T: JSON objects keyed by S.
PartialFns(S, T) == UNION {[D -> T] : D \in SUBSET S}

\* Request bodies' "one_time_keys" (an absent key is the empty object).
StableBodies == PartialFns(Users, PartialFns(Devices, Algorithms))
UnstableBodies == PartialFns(Users, PartialFns(Devices, BoundedSeq(Algorithms, MaxAlgs)))

Bodies(e) == IF e = "stable" THEN StableBodies ELSE UnstableBodies

VARIABLES
    endpoint,       \* which servlet the request hit
    otk,            \* body.get("one_time_keys", {})
    query           \* the query handed to claim_one_time_keys (None: not yet built)

vars == <<endpoint, otk, query>>

\* Mutant: counting that starts every new algorithm at zero.
CounterFromZero(algs) ==
    FoldLeft(LAMBDA b, a : IF a \in DOMAIN b THEN [b EXCEPT ![a] = @ + 1]
                           ELSE b @@ (a :> 0),
             EmptyBag, algs)

\* collections.Counter(algorithms): one pass over the list, counting.
Counter(algs) == FoldLeft(LAMBDA b, a : BagAdd(b, a), EmptyBag, algs)

\* What one device asks for on each endpoint: {algorithm: 1}, Counter(...).
StableCount(alg) == alg :> 1
UnstableCount(algs) == Counter(algs)

DeviceCount(e, v) == IF e = "stable" THEN StableCount(v) ELSE UnstableCount(v)

\* Mutant: query[user_id] = {device_id: ...}, dropping the other devices.
SetDefaultOverwrite(q, u, d, v) == (u :> (d :> v)) @@ q

\* query.setdefault(user_id, {})[device_id] = v
SetDefault(q, u, d, v) ==
    IF u \in DOMAIN q THEN [q EXCEPT ![u] = (d :> v) @@ @]
    ELSE (u :> (d :> v)) @@ q

\* The double loop over users and their devices (dict order is immaterial:
\* every (user, device) pair is written once).
BuildQuery(e, body) ==
    FoldSet(LAMBDA p, q : SetDefault(q, p[1], p[2], DeviceCount(e, body[p[1]][p[2]])),
            <<>>,
            UNION {{<<u, d>> : d \in DOMAIN body[u]} : u \in DOMAIN body})

TypeOK ==
    /\ endpoint \in Endpoints
    /\ otk \in Bodies(endpoint)
    /\ query = None \/
         \A u \in DOMAIN query : \A d \in DOMAIN query[u] :
           \A a \in DOMAIN query[u][d] : query[u][d][a] \in 1..MaxAlgs

Init ==
    /\ endpoint \in Endpoints
    /\ otk \in Bodies(endpoint)
    /\ query = None

\* The next request reaches one of the two servlets once the last is answered.
Receive(e, b) ==
    /\ query # None
    /\ endpoint' = e
    /\ otk' = b
    /\ query' = None

\* OneTimeKeyServlet.on_POST builds its query.
ClaimStable ==
    /\ endpoint = "stable" /\ query = None
    /\ query' = BuildQuery("stable", otk)
    /\ UNCHANGED <<endpoint, otk>>

\* UnstableOneTimeKeyServlet.on_POST builds its query.
ClaimUnstable ==
    /\ endpoint = "unstable" /\ query = None
    /\ query' = BuildQuery("unstable", otk)
    /\ UNCHANGED <<endpoint, otk>>

Next ==
    \/ \E e \in Endpoints : \E b \in Bodies(e) : Receive(e, b)
    \/ ClaimStable
    \/ ClaimUnstable

Spec == Init /\ [][Next]_vars

-----------------------------------------------------------------------------
(* The query every request asks claim_one_time_keys for, stated directly:   *)
(* each user with at least one device, each of its devices, and for each    *)
(* algorithm the number of times the request names it.                      *)
RequestedCount(e, v) ==
    IF e = "stable" THEN v :> 1 ELSE ToBag(v)

ExpectedQuery(e, body) ==
    [u \in {x \in DOMAIN body : DOMAIN body[x] # {}} |->
        [d \in DOMAIN body[u] |-> RequestedCount(e, body[u][d])]]

(* Safety: the claim asks for exactly the keys the request named: no       *)
(* (user, device) pair is lost or added by the setdefault loop, a user      *)
(* with an empty device object gets no entry, the stable endpoint claims    *)
(* one key per device and the unstable one as many as the list repeats the  *)
(* algorithm (Counter), never collapsing duplicates.                        *)
ClaimQueryMatchesRequest ==
    query # None => query = ExpectedQuery(endpoint, otk)

=============================================================================
