---------------------------- MODULE ClientServlets ----------------------------
(***************************************************************************)
(* The request validation and dispatch of the thin client servlets:       *)
(* KeyQueryServlet, KeyChangesServlet and SignaturesUploadServlet          *)
(* (synapse/rest/client/keys.py), UpdateDelayedEventServlet and           *)
(* DelayedEventsServlet (delayed_events.py), and which of them            *)
(* register_servlets installs on a process.  JSON values are abstracted to *)
(* their kind; a request either reaches its handler or is refused with 400.*)
(***************************************************************************)
EXTENDS Naturals, FiniteSets

CONSTANTS Users, None

\* JSON value kinds; an empty list is a list of strings.
JsonKinds == {"string", "number", "null", "list_of_strings", "list_mixed", "object"}

\* Partial functions: JSON objects keyed by a subset of S.
PartialFns(S, T) == UNION {[D -> T] : D \in SUBSET S}

\* body["device_keys"]: absent, a non-object value, or an object of users.
NoValues == [u \in {} |-> "null"]
DeviceKeys ==
    {[kind |-> k, values |-> NoValues] : k \in {"absent"} \cup (JsonKinds \ {"object"})}
    \cup {[kind |-> "object", values |-> f] : f \in PartialFns(Users, JsonKinds)}

Params == {"absent", "bad", "valid"}     \* a query-string parameter

VARIABLES
    mainProcess,    \* hs.config.worker.worker_app is None
    msc3983,        \* hs.config.experimental.msc3983_appservice_otk_claims
    call,           \* the last handler call: [handler, arg], or None
    response        \* status of the last request (0: none yet)

vars == <<mainProcess, msc3983, call, response>>

\* Mutant: the cross-signing servlets registered on every process.
KeysRegisteredEverywhere ==
    {"keys/upload", "keys/query", "keys/changes", "keys/claim",
     "keys/device_signing/upload", "keys/signatures/upload"}
    \cup (IF msc3983 THEN {"msc3983/keys/claim"} ELSE {})

\* keys.register_servlets
KeysRegistered ==
    {"keys/upload", "keys/query", "keys/changes", "keys/claim"}
    \cup (IF msc3983 THEN {"msc3983/keys/claim"} ELSE {})
    \cup (IF mainProcess THEN {"keys/device_signing/upload",
                               "keys/signatures/upload"} ELSE {})

\* delayed_events.register_servlets
DelayedEventsRegistered == {"delayed_events/update", "delayed_events"}

Registered == KeysRegistered \cup DelayedEventsRegistered

Handlers == {"query_devices", "get_user_ids_changed",
             "upload_signatures_for_device_keys", "update", "get_all_for_user"}

TypeOK ==
    /\ mainProcess \in BOOLEAN /\ msc3983 \in BOOLEAN
    /\ call = None \/ (call.handler \in Handlers)
    /\ response \in {0, 200, 400}

Init ==
    /\ mainProcess \in BOOLEAN /\ msc3983 \in BOOLEAN
    /\ call = None
    /\ response = 0

Refuse == response' = 400 /\ UNCHANGED <<mainProcess, msc3983, call>>

Dispatch(h, arg) ==
    /\ call' = [handler |-> h, arg |-> arg]
    /\ response' = 200
    /\ UNCHANGED <<mainProcess, msc3983>>

\* parse_integer(request, "timeout", 10 * 1000) of a well-formed parameter.
Timeout(t) == IF t = "absent" THEN 10000 ELSE "given"

\* is_list_of_strings(values)
IsListOfStrings(v) == v = "list_of_strings"

\* KeyQueryServlet.on_POST: timeout, then the body, then device_keys.
QueryKeys(timeout, isObject, dk) ==
    /\ "keys/query" \in Registered
    /\ IF timeout = "bad" \/ ~isObject \/ dk.kind # "object"
          \/ \E u \in DOMAIN dk.values : ~IsListOfStrings(dk.values[u])
       THEN Refuse
       ELSE Dispatch("query_devices", [device_keys |-> dk, timeout |-> Timeout(timeout)])

\* KeyChangesServlet.on_GET: "from" is required and parsed as a stream
\* token; "to" is read but ignored.
KeyChanges(from, to) ==
    /\ "keys/changes" \in Registered
    /\ IF from # "valid" THEN Refuse
       ELSE Dispatch("get_user_ids_changed", from)

\* SignaturesUploadServlet.on_POST
SignaturesUpload(isObject) ==
    /\ "keys/signatures/upload" \in Registered
    /\ IF ~isObject THEN Refuse
       ELSE Dispatch("upload_signatures_for_device_keys", "body")

\* str(body["action"]): a JSON string is passed as is, any other value as
\* its Python text ("None", "5", "['send']", ...).
Str(v) == IF v = "string" THEN "string" ELSE "python_text"

\* Mutant: body["action"] read without the except KeyError, so a missing
\* action escapes as an unhandled exception (500).
UpdateDelayedEventNoCatch(isObject, action) ==
    /\ "delayed_events/update" \in Registered
    /\ IF ~isObject THEN Refuse
       ELSE IF action = "absent"
            THEN response' = 500 /\ UNCHANGED <<mainProcess, msc3983, call>>
            ELSE Dispatch("update", Str(action))

\* UpdateDelayedEventServlet.on_POST: a missing "action" is a 400.
UpdateDelayedEvent(isObject, action) ==
    /\ "delayed_events/update" \in Registered
    /\ IF ~isObject \/ action = "absent" THEN Refuse
       ELSE Dispatch("update", Str(action))

\* DelayedEventsServlet.on_GET
GetDelayedEvents ==
    /\ "delayed_events" \in Registered
    /\ Dispatch("get_all_for_user", "requester")

Next ==
    \/ \E t \in Params, o \in BOOLEAN, dk \in DeviceKeys : QueryKeys(t, o, dk)
    \/ \E f, t \in Params : KeyChanges(f, t)
    \/ \E o \in BOOLEAN : SignaturesUpload(o)
    \/ \E o \in BOOLEAN, a \in {"absent"} \cup JsonKinds : UpdateDelayedEvent(o, a)
    \/ GetDelayedEvents

Spec == Init /\ [][Next]_vars

=============================================================================
