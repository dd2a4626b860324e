-------------------------- MODULE CrossSigningKeys --------------------------
(***************************************************************************)
(* What the cross-signing upload endpoint promises about a user's master  *)
(* key, one atomic step at a time: it is set up once from nothing, and     *)
(* afterwards only replaced by a key for which an authorisation (UIA, or   *)
(* the auth service's approval under MSC3861) was obtained.  Pending       *)
(* authorisations may be used or abandoned; they are never invented.      *)
(***************************************************************************)
CONSTANTS Keys, None

VARIABLES
    masterKey,      \* the stored master key, None before set-up
    replaceable,    \* the auth service allows a reset without UIA
    proofs          \* keys for which an authorised upload is pending

vars == <<masterKey, replaceable, proofs>>

Init ==
    /\ masterKey = None
    /\ replaceable = FALSE
    /\ proofs = {}

\* First-time set-up needs no authorisation.
SetUp(k) ==
    /\ masterKey = None
    /\ masterKey' = k
    /\ proofs' \subseteq proofs
    /\ UNCHANGED replaceable

\* A reset replaces the key by one an authorisation was obtained for.
Reset(k) ==
    /\ masterKey \notin {None, k}
    /\ k \in proofs
    /\ masterKey' = k
    /\ proofs' \subseteq proofs
    /\ UNCHANGED replaceable

Authorise(k) ==
    /\ proofs' = proofs \cup {k}
    /\ UNCHANGED <<masterKey, replaceable>>

Abandon ==
    /\ proofs' \subseteq proofs
    /\ UNCHANGED <<masterKey, replaceable>>

Approve ==
    /\ masterKey # None /\ ~replaceable
    /\ replaceable' = TRUE
    /\ UNCHANGED <<masterKey, proofs>>

Expire ==
    /\ replaceable
    /\ replaceable' = FALSE
    /\ UNCHANGED <<masterKey, proofs>>

Next ==
    \/ \E k \in Keys : SetUp(k) \/ Reset(k) \/ Authorise(k)
    \/ Abandon \/ Approve \/ Expire

Spec == Init /\ [][Next]_vars

=============================================================================
