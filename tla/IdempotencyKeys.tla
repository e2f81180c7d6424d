---------------------------- MODULE IdempotencyKeys ----------------------------
(***************************************************************************)
(* One Idempotency-Key of one caller: its row, and the requests that carry *)
(* it.  Keys do not touch each other, so one stands for all.               *)
(*                                                                         *)
(* Each statement is a step: the claim's insert, the read after a conflict,*)
(* the route's own work, and the row's update after the answer, which      *)
(* nobody waits for.  Any other request may run in between.                *)
(*                                                                         *)
(* What breaks the promise is named in Faults and budgeted:                *)
(*   "lose"     the change is made, its answer never stored                *)
(*   "partial"  a route makes its change, then answers with an error       *)
(*   "expire"   a stored answer reaches its age while the key is in use    *)
(*   "slow"     a route still runs when its claim counts as stale          *)
(***************************************************************************)
EXTENDS Integers, FiniteSetsExt

CONSTANTS
    Request,      \* requests at a time; one that is over may be sent again
    Fingerprint,        \* fingerprints: method, path and body
    NoFingerprint,
    MaxClaims,    \* passes of claimIdempotencyKey's loop
    Faults,       \* what may go wrong
    MaxFaults     \* bound: how often, all together

FaultKind == {"lose", "partial", "expire", "slow"}

ASSUME BoundsAssumption ==
    /\ MaxClaims \in Nat \ {0}
    /\ Faults \subseteq FaultKind
    /\ NoFingerprint \notin Fingerprint

VARIABLES
    row,       \* idempotency_keys: state, print, age, and whose answer it holds
    request,   \* [Request -> phase, print, passes left, and the answer it was given]
    applied,   \* history: [Fingerprint -> times a route made its change]
    faults     \* history: [FaultKind -> how often it happened]

vars == <<row, request, applied, faults>>

NoRow == [state |-> "none", print |-> NoFingerprint, age |-> "fresh", answer |-> NoFingerprint]
Pending(p) == [NoRow EXCEPT !.state = "pending", !.print = p]

Running == {"run", "store", "release"}     \* claimed, and not done with the row
Over == {"idle", "ran", "refused", "replayed", "mismatch", "busy", "dead"}
In(phases) == {r \in Request : request[r].phase \in phases}

Moves(r, phase) == request' = [request EXCEPT ![r].phase = phase]
Gets(r, phase, p) == request' = [request EXCEPT ![r].phase = phase, ![r].got = p]

FaultTotal == MapThenSumSet(LAMBDA k : faults[k], FaultKind)

Fault(kind) ==
    /\ kind \in Faults
    /\ FaultTotal < MaxFaults
    /\ faults' = [faults EXCEPT ![kind] = @ + 1]

Init ==
    /\ row = NoRow
    /\ request = [r \in Request |->
                    [phase |-> "idle", print |-> NoFingerprint, left |-> 0, got |-> NoFingerprint]]
    /\ applied = [p \in Fingerprint |-> 0]
    /\ faults = [k \in FaultKind |-> 0]

-----------------------------------------------------------------------------
(* The device sends, or sends again, whatever became of the last try. *)
Send(r, p) ==
    /\ request[r].phase \in Over
    /\ request' = [request EXCEPT ![r] = [phase |-> "claim", print |-> p,
                                          left |-> MaxClaims, got |-> NoFingerprint]]
    /\ UNCHANGED <<row, applied, faults>>

(* Mutant: any pending claim is taken over. *)
ClaimableEarly == row.state \in {"none", "pending"} \/ row.age = "expired"

(* Mutant: a claim that was never answered is for ever. *)
ClaimableNeverStale == row.state = "none" \/ row.age = "expired"

(* No row, one past its day, or one left pending for ten minutes. *)
Claimable == \/ row.state = "none"
             \/ row.age = "expired"
             \/ row.state = "pending" /\ row.age = "stale"

(* INSERT ... ON CONFLICT DO UPDATE ... WHERE: one statement. *)
Claim(r) ==
    /\ request[r].phase = "claim"
    /\ IF Claimable
       THEN row' = Pending(request[r].print) /\ Moves(r, "run")
       ELSE Moves(r, "read") /\ UNCHANGED row
    /\ UNCHANGED <<applied, faults>>

(* Mutant: the fingerprint is not compared. *)
DecideByState(r) ==
    IF row.state # "done" THEN Moves(r, "busy") ELSE Gets(r, "replayed", row.answer)

decideExisting(r) ==
    IF row.print # request[r].print THEN Moves(r, "mismatch")
    ELSE IF row.state # "done" THEN Moves(r, "busy")
    ELSE Gets(r, "replayed", row.answer)

(* Mutant: one pass too many. *)
ReadOnceMore(r) ==
    /\ request[r].phase = "read"
    /\ IF row.state # "none" THEN decideExisting(r)
       ELSE request' = [request EXCEPT ![r].left = @ - 1,
                                       ![r].phase = IF request[r].left >= 0 THEN "claim" ELSE "busy"]
    /\ UNCHANGED <<row, applied, faults>>

(* Released or pruned since the insert: another pass, while there are any. *)
Read(r) ==
    /\ request[r].phase = "read"
    /\ IF row.state # "none" THEN decideExisting(r)
       ELSE request' = [request EXCEPT ![r].left = @ - 1,
                                       ![r].phase = IF request[r].left > 1 THEN "claim" ELSE "busy"]
    /\ UNCHANGED <<row, applied, faults>>

-----------------------------------------------------------------------------
(* The route, and what watchResponse() does as it answers *)

Change(r) == applied' = [applied EXCEPT ![request[r].print] = @ + 1]

Succeed(r) ==
    /\ request[r].phase = "run"
    /\ Change(r)
    /\ Gets(r, "store", request[r].print)
    /\ UNCHANGED <<row, faults>>

(* It throws, or answers other than 2xx, before it changed anything. *)
Refuse(r) ==
    /\ request[r].phase = "run"
    /\ Moves(r, "release")
    /\ UNCHANGED <<row, applied, faults>>

(* It commits, and then a later statement of it fails: checkOut() has its event to
   record, and the route the item to read back. *)
FailLate(r) ==
    /\ request[r].phase = "run"
    /\ Fault("partial")
    /\ Change(r)
    /\ Moves(r, "release")
    /\ UNCHANGED row

(* Mutant: a success too large to hold is not kept. *)
StoreNothing(r) ==
    /\ request[r].phase = "store"
    /\ Moves(r, "ran")
    /\ row' = IF row.state = "pending" THEN NoRow ELSE row
    /\ UNCHANGED <<applied, faults>>

(* storeIdempotentAnswer(): by key, whoever holds it now. *)
Store(r) ==
    /\ request[r].phase = "store"
    /\ Moves(r, "ran")
    /\ row' = IF row.state = "none" THEN row
              ELSE [row EXCEPT !.state = "done", !.answer = request[r].print]
    /\ UNCHANGED <<applied, faults>>

(* releaseIdempotencyKey(): only a pending row. *)
Release(r) ==
    /\ request[r].phase = "release"
    /\ Moves(r, "refused")
    /\ row' = IF row.state = "pending" THEN NoRow ELSE row
    /\ UNCHANGED <<applied, faults>>

-----------------------------------------------------------------------------
(* Failure and time *)

(* The process dies or a statement fails, with no change made or none to store. *)
Die(r) ==
    /\ request[r].phase \in {"claim", "read", "run", "release"}
    /\ Moves(r, "dead")
    /\ UNCHANGED <<row, applied, faults>>

(* It dies after the commit, or the update fails, which is only logged. *)
LoseAnswer(r) ==
    /\ request[r].phase = "store"
    /\ Fault("lose")
    /\ Moves(r, "dead")
    /\ UNCHANGED <<row, applied>>

(* Ten minutes: no request lives that long, unless a route is slow. *)
GoStale ==
    /\ row.state = "pending" /\ row.age = "fresh"
    /\ IF In(Running) = {} THEN UNCHANGED faults ELSE Fault("slow")
    /\ row' = [row EXCEPT !.age = "stale"]
    /\ UNCHANGED <<request, applied>>

(* A day, counted from the claim. *)
Expire ==
    /\ \/ row.state = "pending" /\ row.age = "stale" /\ UNCHANGED faults
       \/ row.state = "done" /\ row.age # "expired" /\ Fault("expire")
    /\ row' = [row EXCEPT !.age = "expired"]
    /\ UNCHANGED <<request, applied>>

(* Mutant: rows of any age are pruned. *)
PruneAll ==
    /\ row' = NoRow
    /\ UNCHANGED <<request, applied, faults>>

(* pruneExpired() *)
Prune ==
    /\ row.age = "expired"
    /\ row' = NoRow
    /\ UNCHANGED <<request, applied, faults>>

-----------------------------------------------------------------------------
Claims(r) == Claim(r) \/ Read(r)
Answers(r) == Succeed(r) \/ Refuse(r) \/ Store(r) \/ Release(r)

Next ==
    \/ \E r \in Request :
          \/ \E p \in Fingerprint : Send(r, p)
          \/ Claims(r) \/ Answers(r)
          \/ FailLate(r) \/ Die(r) \/ LoseAnswer(r)
    \/ GoStale \/ Expire \/ Prune

Spec == Init /\ [][Next]_vars

(* A request that lives goes on and a claim that is never answered grows old; a
   device with a change to send keeps sending it, and requests do not die for ever. *)
Fairness ==
    /\ <>[][~\E r \in Request : Die(r)]_vars
    /\ \A r \in Request :
          WF_vars(Claims(r)) /\ WF_vars(Answers(r)) /\ WF_vars(\E p \in Fingerprint : Send(r, p))
    /\ WF_vars(GoStale)

FairSpec == Spec /\ Fairness

-----------------------------------------------------------------------------
(* Properties *)

Total == MapThenSumSet(LAMBDA p : applied[p], Fingerprint)

TypeOK ==
    /\ row \in [state : {"none", "pending", "done"}, print : Fingerprint \cup {NoFingerprint},
                age : {"fresh", "stale", "expired"}, answer : Fingerprint \cup {NoFingerprint}]
    /\ request \in [Request -> [phase : Running \cup Over \cup {"claim", "read"},
                                print : Fingerprint \cup {NoFingerprint}, left : 0 .. MaxClaims,
                                got : Fingerprint \cup {NoFingerprint}]]
    /\ applied \in [Fingerprint -> Nat]
    /\ faults \in [FaultKind -> Nat]
    /\ \A k \in FaultKind \ Faults : faults[k] = 0

Quick == faults["slow"] = 0       \* no route outlived its claim
Flawless == \A k \in FaultKind : faults[k] = 0

(* The first request with a key runs and no other beside it (idempotency.ts:13-15,
   21), whoever claims, releases, prunes or takes over in between. *)
OneRunner == Quick => \A r, q \in In(Running) : r = q

(* A request is only ever given the answer of a request like itself: the same key on
   a different request is a 422 (idempotency.ts:20). *)
AnswerBelongs ==
    Quick => \A r \in In({"replayed"}) :
                request[r].got = request[r].print /\ applied[request[r].got] > 0

(* Every further application of a change has a fault of its own behind it. *)
AppliedBounded == Total <= 1 + FaultTotal

(* transport.ts:26-27: "the key means a change that did reach the server is never
   applied twice". *)
NeverTwice == \A p \in Fingerprint : applied[p] <= 1

Promise == INSTANCE OnceService WITH
    told <- [r \in Request |->
               IF request[r].phase \in {"store", "ran", "replayed"} THEN request[r].got ELSE NoFingerprint]

(* docs/offline-field.md:192-199: until something of Faults happens, the key keeps its
   promise. *)
KeepsPromise == Promise!Init /\ [][Flawless' => Promise!Next]_vars

(* No key stays stuck: a device that keeps sending is answered by the route or from
   what the route answered, even after its first request died with its process
   (idempotency.ts:27-29). *)
GetsThrough ==
    \A r \in Request :
        request[r].phase = "claim"
            ~> \E q \in Request : request[q].phase \in {"ran", "refused", "replayed"}

=============================================================================
