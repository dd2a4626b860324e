-------------------------- MODULE SigningKeyUpload --------------------------
(***************************************************************************)
(* SigningKeyUploadServlet.on_POST (POST /keys/device_signing/upload) in   *)
(* synapse/rest/client/keys.py, for one user sending several requests     *)
(* that the reactor interleaves at every await:                            *)
(*   check_cross_signing_setup -> [has_different_keys] -> [UIA] -> upload  *)
(* The three configurations of the servlet (MSC3861 delegated auth,        *)
(* MSC3967, the older always-UIA behaviour) are chosen at start-up.        *)
(* The e2e keys store is abstracted to the user's master key; per the      *)
(* FIXME at lines 416-418, uploading the key already stored fails with a   *)
(* unique-key violation (HTTP 500).                                        *)
(***************************************************************************)
EXTENDS Naturals

CONSTANTS
    Requests,       \* concurrent request slots of the user
    Keys,           \* master keys a request body can carry
    MaxRequests,    \* bound on requests received
    None

Modes == {"msc3861", "msc3967", "legacy"}

VARIABLES
    mode,           \* hs.config: msc3861.enabled / msc3967_enabled / neither
    masterKey,      \* the user's stored master key (None: cross-signing not set up)
    replaceable,    \* MSC3861: auth service marked the master key replaceable without UIA
    pc,             \* pc[q]: where request q is suspended
    body,           \* body[q]: the keys request q uploads
    isSetup,        \* is_cross_signing_setup as q read it
    updatable,      \* master_key_updatable_without_uia as q read it
    uiaPassed,      \* q completed user-interactive auth
    response,       \* response[q]: HTTP status of q's last answer (0: none yet)
    received        \* requests received so far

vars == <<mode, masterKey, replaceable, pc, body, isSetup, updatable, uiaPassed,
          response, received>>

Pcs == {"idle", "check", "compare", "uia", "upload"}

\* Where a request can be suspended under each configuration: only MSC3967
\* compares keys, and there is no UIA with MSC3861 (keys.py:388-390).
PcsOf(m) ==
    CASE m = "msc3861" -> Pcs \ {"compare", "uia"}
      [] m = "msc3967" -> Pcs
      [] m = "legacy"  -> Pcs \ {"compare"}

TypeOK ==
    /\ mode \in Modes
    /\ masterKey \in Keys \cup {None}
    /\ replaceable \in BOOLEAN
    /\ pc \in [Requests -> PcsOf(mode)]
    /\ body \in [Requests -> Keys]
    /\ isSetup \in [Requests -> BOOLEAN] /\ updatable \in [Requests -> BOOLEAN]
    /\ uiaPassed \in [Requests -> BOOLEAN]
    /\ response \in [Requests -> {0, 200, 401, 500, 501}]
    /\ received \in 0..MaxRequests

Init ==
    /\ mode \in Modes
    /\ masterKey = None
    /\ replaceable = FALSE
    /\ pc = [q \in Requests |-> "idle"]
    /\ body \in [Requests -> Keys]
    /\ isSetup = [q \in Requests |-> FALSE]
    /\ updatable = [q \in Requests |-> FALSE]
    /\ uiaPassed = [q \in Requests |-> FALSE]
    /\ response = [q \in Requests |-> 0]
    /\ received = 0

\* Answer q with status s; the slot is free for the next request.
Respond(q, s) ==
    /\ pc' = [pc EXCEPT ![q] = "idle"]
    /\ response' = [response EXCEPT ![q] = s]

\* Mutant: MSC3967 without the is_cross_signing_setup check (no UIA ever).
CompareKeysNoUIA(q) ==
    /\ pc[q] = "compare"
    /\ IF masterKey = body[q] THEN Respond(q, 200)
       ELSE pc' = [pc EXCEPT ![q] = "upload"] /\ UNCHANGED response
    /\ UNCHANGED <<mode, masterKey, replaceable, body, isSetup, updatable,
                   uiaPassed, received>>

\* get_user_by_req and parse_json_object_from_request; the handler then
\* awaits check_cross_signing_setup.
Receive(q, k) ==
    /\ pc[q] = "idle"
    /\ received < MaxRequests
    /\ received' = received + 1
    /\ pc' = [pc EXCEPT ![q] = "check"]
    /\ body' = [body EXCEPT ![q] = k]
    /\ uiaPassed' = [uiaPassed EXCEPT ![q] = FALSE]
    /\ response' = [response EXCEPT ![q] = 0]
    /\ UNCHANGED <<mode, masterKey, replaceable, isSetup, updatable>>

\* Mutant: MSC3861 asks for UIA to reset a set-up key instead of the 501.
CheckSetupMsc3861Uia(q) ==
    LET setup == masterKey # None
    IN
    /\ pc[q] = "check"
    /\ isSetup' = [isSetup EXCEPT ![q] = setup]
    /\ updatable' = [updatable EXCEPT ![q] = replaceable]
    /\ CASE mode = "msc3861" ->
              IF setup /\ ~replaceable THEN pc' = [pc EXCEPT ![q] = "uia"]
              ELSE pc' = [pc EXCEPT ![q] = "upload"]
         [] mode = "msc3967" -> pc' = [pc EXCEPT ![q] = "compare"]
         [] mode = "legacy" -> pc' = [pc EXCEPT ![q] = "uia"]
    /\ UNCHANGED <<mode, masterKey, replaceable, body, uiaPassed, received,
                   response>>

\* check_cross_signing_setup returns; branch on the configuration.
CheckSetup(q) ==
    LET setup == masterKey # None
    IN
    /\ pc[q] = "check"
    /\ isSetup' = [isSetup EXCEPT ![q] = setup]
    /\ updatable' = [updatable EXCEPT ![q] = replaceable]
    /\ CASE mode = "msc3861" ->
              IF setup /\ ~replaceable THEN Respond(q, 501)
              ELSE pc' = [pc EXCEPT ![q] = "upload"] /\ UNCHANGED response
         [] mode = "msc3967" ->
              pc' = [pc EXCEPT ![q] = "compare"] /\ UNCHANGED response
         [] mode = "legacy" ->
              pc' = [pc EXCEPT ![q] = "uia"] /\ UNCHANGED response
    /\ UNCHANGED <<mode, masterKey, replaceable, body, uiaPassed, received>>

\* MSC3967: has_different_keys returns.  Same keys: 200 at once; different
\* keys: UIA only if cross-signing was set up when q checked.
CompareKeys(q) ==
    /\ pc[q] = "compare"
    /\ IF masterKey = body[q] THEN Respond(q, 200)
       ELSE IF isSetup[q] THEN pc' = [pc EXCEPT ![q] = "uia"] /\ UNCHANGED response
       ELSE pc' = [pc EXCEPT ![q] = "upload"] /\ UNCHANGED response
    /\ UNCHANGED <<mode, masterKey, replaceable, body, isSetup, updatable,
                   uiaPassed, received>>

\* validate_user_via_ui_auth returns (ok) or raises 401 (the user has not
\* completed the flow; the client retries with a new request).  With the
\* older behaviour the prompt may be skipped after a recent login, which is
\* also a success.
UserInteractiveAuth(q, ok) ==
    /\ pc[q] = "uia"
    /\ IF ok THEN /\ pc' = [pc EXCEPT ![q] = "upload"]
                  /\ uiaPassed' = [uiaPassed EXCEPT ![q] = TRUE]
                  /\ UNCHANGED response
       ELSE /\ Respond(q, 401)
            /\ UNCHANGED uiaPassed
    /\ UNCHANGED <<mode, masterKey, replaceable, body, isSetup, updatable,
                   received>>

\* upload_signing_keys_for_user returns: the key is stored, or inserting
\* the key already stored fails.
Upload(q) ==
    /\ pc[q] = "upload"
    /\ IF masterKey = body[q]
       THEN /\ Respond(q, 500)
            /\ UNCHANGED masterKey
       ELSE /\ masterKey' = body[q]
            /\ Respond(q, 200)
    /\ UNCHANGED <<mode, replaceable, body, isSetup, updatable, uiaPassed,
                   received>>

\* MSC3861: the user approves a reset at the account management URL, and
\* the approval later times out.
ApproveReset ==
    /\ mode = "msc3861" /\ masterKey # None /\ ~replaceable
    /\ replaceable' = TRUE
    /\ UNCHANGED <<mode, masterKey, pc, body, isSetup, updatable, uiaPassed,
                   response, received>>

ApprovalExpires ==
    /\ replaceable
    /\ replaceable' = FALSE
    /\ UNCHANGED <<mode, masterKey, pc, body, isSetup, updatable, uiaPassed,
                   response, received>>

Next ==
    \/ \E q \in Requests, k \in Keys : Receive(q, k)
    \/ \E q \in Requests : CheckSetup(q) \/ CompareKeys(q) \/ Upload(q)
    \/ \E q \in Requests, ok \in BOOLEAN : UserInteractiveAuth(q, ok)
    \/ ApproveReset
    \/ ApprovalExpires

Spec == Init /\ [][Next]_vars

-----------------------------------------------------------------------------
(* The detailed handler implements the abstract key store.  A request's    *)
(* authorisation is pending from the moment it may upload having passed    *)
(* UIA, or (MSC3861) having found a set-up key marked replaceable.          *)
Authorised(q) ==
    \/ uiaPassed[q]
    \/ mode = "msc3861" /\ isSetup[q] /\ updatable[q]

KeyStore == INSTANCE CrossSigningKeys
    WITH proofs <- {body[q] : q \in {x \in Requests : pc[x] = "upload" /\ Authorised(x)}}

(* Refinement: every behaviour of the handler is one of the abstract key   *)
(* store's: the master key is set up once, and afterwards replaced only by  *)
(* a key whose uploading request was authorised (the rule of the comment   *)
(* at keys.py:420-422).  The handler decides this from is_cross_signing_    *)
(* setup read before its later awaits.                                     *)
ImplementsCrossSigningKeys == KeyStore!Spec

(* Safety: with MSC3967, sending keys that are already stored is answered *)
(* 200 (keys.py:410-411): the early return at 415-419 exists so that an   *)
(* identical upload never reaches the INSERT that fails with a 500.  Two  *)
(* requests carrying the same new keys both find them different at        *)
(* has_different_keys before either has uploaded.                          *)
ResendingSameKeysNeverFails ==
    mode = "msc3967" => \A q \in Requests : response[q] # 500

=============================================================================
