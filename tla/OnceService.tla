------------------------------ MODULE OnceService ------------------------------
(***************************************************************************)
(* What an Idempotency-Key promises whoever sends it                       *)
(* (docs/offline-field.md:102-104, 192-199): of all requests that carry    *)
(* the key one is applied, once, and success is only ever told of a change *)
(* that was made.                                                          *)
(***************************************************************************)
EXTENDS Naturals

CONSTANTS Fingerprint, NoFingerprint, Request

VARIABLES
    applied,   \* [Fingerprint -> times a change was made]
    told       \* [Request -> the change it was told had succeeded, or NoFingerprint]

Init ==
    /\ applied = [p \in Fingerprint |-> 0]
    /\ told = [r \in Request |-> NoFingerprint]

Apply(p) ==
    /\ \A q \in Fingerprint : applied[q] = 0
    /\ applied' = [applied EXCEPT ![p] = 1]

Next ==
    /\ applied' = applied \/ \E p \in Fingerprint : Apply(p)
    /\ told' \in [Request -> Fingerprint \cup {NoFingerprint}]
    /\ \A r \in Request :
          told'[r] \in {told[r], NoFingerprint} \cup {p \in Fingerprint : applied'[p] > 0}

Spec == Init /\ [][Next]_<<applied, told>>
=============================================================================
