------------------------------ MODULE KeyUpload ------------------------------
(***************************************************************************)
(* KeyUploadServlet.on_POST (POST /keys/upload[/{device_id}]) in           *)
(* synapse/rest/client/keys.py: which device the keys are stored for, and  *)
(* when the "uploading keys for a different device" warning is logged.     *)
(* The user's dehydrated device is read by an await and may be replaced or *)
(* claimed by another of the user's sessions before the upload.            *)
(***************************************************************************)
EXTENDS Naturals

CONSTANTS
    Requests,       \* concurrent request slots of the user
    Devices,        \* device ids
    MaxRequests,    \* bound on requests received
    None

VARIABLES
    dehydrated,     \* the user's dehydrated device id, None if it has none
    pc,             \* pc[q]: where request q is suspended
    session,        \* requester.device_id of q (None: token without a device)
    target,         \* the device_id q resolved (path parameter or session)
    warned,         \* q logged the different-device warning
    response,       \* HTTP status of q's last answer (0: none yet)
    keyed,          \* devices the e2e keys store holds keys for
    received

vars == <<dehydrated, pc, session, target, warned, response, keyed, received>>

DeviceOrNone == Devices \cup {None}

TypeOK ==
    /\ dehydrated \in DeviceOrNone
    /\ pc \in [Requests -> {"idle", "dehydrated", "upload"}]
    /\ session \in [Requests -> DeviceOrNone]
    /\ target \in [Requests -> DeviceOrNone]
    /\ warned \in [Requests -> BOOLEAN]
    /\ response \in [Requests -> {0, 200, 400}]
    /\ keyed \subseteq Devices
    /\ received \in 0..MaxRequests

Init ==
    /\ dehydrated \in DeviceOrNone
    /\ pc = [q \in Requests |-> "idle"]
    /\ session = [q \in Requests |-> None]
    /\ target = [q \in Requests |-> None]
    /\ warned = [q \in Requests |-> FALSE]
    /\ response = [q \in Requests |-> 0]
    /\ keyed = {}
    /\ received = 0

\* Mutant: the "you must pass device_id" check dropped.
ResolveNoCheck(q, dev) ==
    /\ pc' = [pc EXCEPT ![q] = "upload"]
    /\ UNCHANGED response

\* The request carries no device id, or the one it was given resolves to.
Resolve(q, dev) ==
    IF dev = None THEN /\ response' = [response EXCEPT ![q] = 400]
                       /\ pc' = [pc EXCEPT ![q] = "idle"]
    ELSE /\ pc' = [pc EXCEPT ![q] = "upload"]
         /\ UNCHANGED response

\* get_user_by_req and the body; a path device_id that differs from the
\* session's device makes the handler await get_dehydrated_device.
Receive(q, sess, path) ==
    /\ pc[q] = "idle"
    /\ received < MaxRequests
    /\ received' = received + 1
    /\ session' = [session EXCEPT ![q] = sess]
    /\ target' = [target EXCEPT ![q] = IF path = None THEN sess ELSE path]
    /\ warned' = [warned EXCEPT ![q] = FALSE]
    /\ IF path # None /\ sess # None /\ path # sess
       THEN /\ pc' = [pc EXCEPT ![q] = "dehydrated"]
            /\ response' = [response EXCEPT ![q] = 0]
       ELSE Resolve(q, IF path = None THEN sess ELSE path)
    /\ UNCHANGED <<dehydrated, keyed>>

\* get_dehydrated_device returns: warn if the user has a dehydrated device
\* and the keys are not for it.
ReadDehydrated(q) ==
    /\ pc[q] = "dehydrated"
    /\ warned' = [warned EXCEPT ![q] = dehydrated # None /\ target[q] # dehydrated]
    /\ pc' = [pc EXCEPT ![q] = "upload"]
    /\ UNCHANGED <<dehydrated, session, target, response, keyed, received>>

\* upload_keys_for_user stores the keys for the resolved device and returns.
Upload(q) ==
    /\ pc[q] = "upload"
    /\ keyed' = keyed \cup {target[q]}
    /\ response' = [response EXCEPT ![q] = 200]
    /\ pc' = [pc EXCEPT ![q] = "idle"]
    /\ UNCHANGED <<dehydrated, session, target, warned, received>>

\* Another session of the user stores a new dehydrated device (replacing
\* the old one) or claims the current one.
ReplaceDehydrated(d) ==
    /\ dehydrated' = d
    /\ dehydrated # d
    /\ UNCHANGED <<pc, session, target, warned, response, keyed, received>>

Next ==
    \/ \E q \in Requests, s \in DeviceOrNone, p \in DeviceOrNone : Receive(q, s, p)
    \/ \E q \in Requests : ReadDehydrated(q) \/ Upload(q)
    \/ \E d \in DeviceOrNone : ReplaceDehydrated(d)

Spec == Init /\ [][Next]_vars

=============================================================================
