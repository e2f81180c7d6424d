---------------------------- MODULE OfficeProofs ----------------------------
(***************************************************************************)
(* Proofs about parts of MCOffice, for any number of requests,             *)
(* fingerprints, replicas, recipients and passes.                          *)
(*                                                                         *)
(* While no route outlives its claim, a claim under way in IdempotencyKeys *)
(* is its row: pending, fresh and for that very request.  Nothing can then *)
(* be claimed, so no second request runs, and what is stored is the answer *)
(* of the request the row is for.  With faults, each change beyond the     *)
(* first is paid for: what was applied, the requests that still may apply  *)
(* it and a row that is open for one more claim come to no more than the   *)
(* faults and one.                                                         *)
(*                                                                         *)
(* A pass of PortalNotifier sends from what it read before: its invariant  *)
(* relates what a pass holds to the notices' rows, whoever took, counted   *)
(* or settled them since.                                                  *)
(***************************************************************************)
EXTENDS IdempotencyKeys, PortalNotifier, FiniteSums, TLAPS

Phase == Running \cup Over \cup {"claim", "read"}
Answer == Fingerprint \cup {NoFingerprint}

FaultsOK ==
    /\ faults \in [FaultKind -> Nat]
    /\ \A k \in FaultKind \ Faults : faults[k] = 0

(* A request that was sent is of some fingerprint and has passes left to make. *)
Sent ==
    \A r \in Request :
        /\ request[r].phase # "idle" => request[r].print \in Fingerprint
        /\ request[r].phase \in {"claim", "read"} => request[r].left > 0

(* A claim under way is what the row says. *)
Claimed == \A r \in In(Running) : row = Pending(request[r].print)

(* A stored answer, and one given, is that of a change that was made. *)
Kept == row.state = "done" =>
            /\ row.print \in Fingerprint
            /\ row.answer = row.print
            /\ applied[row.print] > 0

Given == \A r \in In({"store", "ran", "replayed"}) :
            /\ request[r].got = request[r].print
            /\ applied[request[r].print] > 0

Alone == \A r, q \in In(Running) : r = q

Inv == TypeOK /\ Sent /\ Alone /\ Claimed /\ Kept /\ Given

-----------------------------------------------------------------------------
(* Helpers *)

(* A request that moves changes its phase and nothing else. *)
LEMMA MovesOnly ==
    ASSUME TypeOK, NEW r \in Request, NEW phase \in Phase, Moves(r, phase)
    PROVE  /\ request' \in [Request -> [phase : Phase, print : Answer, left : 0 .. MaxClaims, got : Answer]]
           /\ request'[r].phase = phase
           /\ request'[r].print = request[r].print
           /\ request'[r].left = request[r].left
           /\ request'[r].got = request[r].got
           /\ \A q \in Request \ {r} : request'[q] = request[q]
  BY DEF TypeOK, Moves, Phase, Answer

(* One that is given an answer changes its phase and that answer. *)
LEMMA GetsOnly ==
    ASSUME TypeOK, NEW r \in Request, NEW phase \in Phase, NEW p \in Answer, Gets(r, phase, p)
    PROVE  /\ request' \in [Request -> [phase : Phase, print : Answer, left : 0 .. MaxClaims, got : Answer]]
           /\ request'[r].phase = phase
           /\ request'[r].print = request[r].print
           /\ request'[r].left = request[r].left
           /\ request'[r].got = p
           /\ \A q \in Request \ {r} : request'[q] = request[q]
  <1>1. request \in [Request -> [phase : Phase, print : Answer, left : 0 .. MaxClaims, got : Answer]]
    BY DEF TypeOK, Phase, Answer
  <1>2. PICK n : n = [request[r] EXCEPT !.phase = phase, !.got = p]
    OBVIOUS
  <1>3. /\ n \in [phase : Phase, print : Answer, left : 0 .. MaxClaims, got : Answer]
        /\ n.phase = phase /\ n.print = request[r].print /\ n.left = request[r].left /\ n.got = p
    BY <1>1, <1>2
  <1>4. request' = [request EXCEPT ![r] = n]
    BY <1>1, <1>2 DEF Gets
  <1> QED
    BY <1>1, <1>3, <1>4

(* What is not running cannot hold the row; what runs holds it alone. *)
LEMMA RowOfRunner ==
    ASSUME Inv, NEW r \in Request, request[r].phase \in Running
    PROVE  /\ row = Pending(request[r].print)
           /\ ~Claimable
           /\ \A q \in Request \ {r} : request[q].phase \notin Running
  <1>1. r \in In(Running)
    BY DEF In
  <1>2. row = Pending(request[r].print)
    BY <1>1 DEF Inv, Claimed
  <1>3. \A q \in Request \ {r} : request[q].phase \notin Running
    BY <1>1 DEF Inv, Alone, In
  <1>4. ~Claimable
    BY <1>2 DEF Claimable, Pending, NoRow
  <1> QED
    BY <1>2, <1>3, <1>4

LEMMA FaultsBounded ==
    ASSUME TypeOK, UNCHANGED faults \/ \E kind \in Faults : Fault(kind)
    PROVE  FaultsOK'
  BY BoundsAssumption DEF TypeOK, FaultsOK, Fault

(* Only a pending or a finished row is taken, and only when it has run out. *)
LEMMA NoRunnerWhenClaimable ==
    ASSUME Inv, Claimable
    PROVE  \A q \in Request : request[q].phase \notin Running
  BY RowOfRunner

(* What a step that leaves the row alone, moves r and runs nobody preserves. *)
LEMMA StepsAside ==
    ASSUME Inv, NEW r \in Request, UNCHANGED <<row, applied>>,
           request'[r].phase \notin Running,
           \A q \in Request \ {r} : request'[q] = request[q],
           request'[r].phase \in {"ran", "replayed"} =>
               /\ request'[r].got = request'[r].print
               /\ applied[request'[r].print] > 0
    PROVE  Alone' /\ Claimed' /\ Kept' /\ Given'
  <1>1. \A q \in Request : request'[q].phase \in Running => q # r /\ request'[q] = request[q]
    OBVIOUS
  <1>2. Alone'
    BY <1>1 DEF Inv, Alone, In
  <1>3. Claimed'
    BY <1>1 DEF Inv, Claimed, In, Pending
  <1>4. Kept'
    BY DEF Inv, Kept
  <1>5. Given'
    <2> SUFFICES ASSUME NEW q \in Request, request'[q].phase \in {"store", "ran", "replayed"}
                 PROVE  request'[q].got = request'[q].print /\ applied[request'[q].print] > 0
      BY DEF Given, In
    <2>1. CASE q = r
      BY <2>1 DEF Running
    <2>2. CASE q # r
      BY <2>2 DEF Inv, Given, In
    <2> QED
      BY <2>1, <2>2
  <1> QED
    BY <1>2, <1>3, <1>4, <1>5

-----------------------------------------------------------------------------
(* Init and the steps *)

LEMMA InitInv == Init => Inv
  <1> SUFFICES ASSUME Init PROVE Inv
    OBVIOUS
  <1>1. TypeOK
    BY BoundsAssumption DEF Init, TypeOK, NoRow, Over
  <1>2. \A r \in Request : request[r].phase = "idle"
    BY DEF Init
  <1>3. Sent /\ Alone /\ Claimed /\ Given
    BY <1>2 DEF Sent, Alone, Claimed, Given, In, Running
  <1>4. Kept
    BY DEF Init, Kept, NoRow
  <1> QED
    BY <1>1, <1>3, <1>4 DEF Inv

LEMMA SendStep ==
    ASSUME Inv, NEW r \in Request, NEW p \in Fingerprint, Send(r, p)
    PROVE  Inv'
  <1>1. /\ request' \in [Request -> [phase : Phase, print : Answer, left : 0 .. MaxClaims, got : Answer]]
        /\ request'[r].phase = "claim" /\ request'[r].print = p /\ request'[r].left = MaxClaims
        /\ \A q \in Request \ {r} : request'[q] = request[q]
    BY BoundsAssumption DEF Send, Inv, TypeOK, Phase, Answer
  <1>2. UNCHANGED <<row, applied, faults>>
    BY DEF Send
  <1>3. TypeOK'
    BY <1>1, <1>2 DEF Inv, TypeOK, Phase, Answer, FaultsOK
  <1>4. Sent'
    BY <1>1, BoundsAssumption DEF Inv, Sent
  <1>5. Alone' /\ Claimed' /\ Kept' /\ Given'
    <2>1. request'[r].phase \notin Running \cup {"ran", "replayed"}
      BY <1>1 DEF Running
    <2> QED
      BY <1>1, <1>2, <2>1, StepsAside
  <1> QED
    BY <1>3, <1>4, <1>5 DEF Inv

(* Steps that move r aside, out of the way of the row. *)
LEMMA AsideStep ==
    ASSUME Inv, NEW r \in Request, NEW phase \in Over \cup {"read"}, Moves(r, phase),
           phase # "ran", phase # "replayed", request[r].phase # "idle",
           phase = "read" => request[r].phase = "claim",
           UNCHANGED <<row, applied>>, FaultsOK'
    PROVE  Inv'
  <1>0. TypeOK /\ phase \in Phase
    BY DEF Inv, Phase
  <1>1. /\ request' \in [Request -> [phase : Phase, print : Answer, left : 0 .. MaxClaims, got : Answer]]
        /\ request'[r].phase = phase
        /\ request'[r].print = request[r].print
        /\ request'[r].left = request[r].left
        /\ \A q \in Request \ {r} : request'[q] = request[q]
    BY <1>0, MovesOnly
  <1>3. TypeOK'
    BY <1>0, <1>1 DEF TypeOK, Phase, Answer, FaultsOK
  <1>4. Sent'
    <2>1. phase # "claim" /\ (phase = "read" => request[r].left > 0) /\ request[r].print \in Fingerprint
      BY DEF Inv, Sent, Over
    <2> QED
      BY <1>1, <2>1 DEF Inv, Sent
  <1>5. Alone' /\ Claimed' /\ Kept' /\ Given'
    <2>1. request'[r].phase \notin Running \cup {"ran", "replayed"}
      BY <1>1 DEF Running, Over
    <2> QED
      BY <1>1, <2>1, StepsAside
  <1> QED
    BY <1>3, <1>4, <1>5 DEF Inv

LEMMA ClaimStep ==
    ASSUME Inv, NEW r \in Request, Claim(r)
    PROVE  Inv'
  <1> USE DEF Claim
  <1>0. TypeOK /\ {"run", "read"} \subseteq Phase
    BY DEF Inv, Phase, Running
  <1>1. CASE ~Claimable
    <2>1. FaultsOK'
      BY <1>0 DEF TypeOK, FaultsOK
    <2> QED
      BY <1>1, <2>1, AsideStep
  <1>2. CASE Claimable
    <2>1. /\ request' \in [Request -> [phase : Phase, print : Answer, left : 0 .. MaxClaims, got : Answer]]
          /\ request'[r].phase = "run"
          /\ request'[r].print = request[r].print
          /\ request'[r].left = request[r].left
          /\ \A q \in Request \ {r} : request'[q] = request[q]
      BY <1>0, <1>2, MovesOnly
    <2>2. request[r].print \in Fingerprint
      BY DEF Inv, Sent
    <2>3. /\ row' = Pending(request[r].print)
          /\ row'.state = "pending"
          /\ row' \in [state : {"none", "pending", "done"}, print : Answer,
                       age : {"fresh", "stale", "expired"}, answer : Answer]
      BY <1>2, <2>2 DEF Pending, NoRow, Answer
    <2>4. TypeOK'
      BY <1>0, <2>1, <2>3 DEF TypeOK, Phase, Answer
    <2>5. Sent'
      BY <2>1, <2>2 DEF Inv, Sent
    <2>6. \A q \in Request : request'[q].phase \in Running => q = r
      BY <1>2, <2>1, NoRunnerWhenClaimable
    <2>7. Alone' /\ Claimed'
      BY <2>1, <2>3, <2>6 DEF Alone, Claimed, In, Pending, NoRow
    <2>8. Kept'
      BY <2>3 DEF Kept
    <2>9. Given'
      BY <2>1 DEF Inv, Given, In
    <2> QED
      BY <2>4, <2>5, <2>7, <2>8, <2>9 DEF Inv
  <1> QED
    BY <1>1, <1>2

LEMMA ReadStep ==
    ASSUME Inv, NEW r \in Request, Read(r)
    PROVE  Inv'
  <1> USE DEF Read
  <1>0. /\ TypeOK /\ {"replayed", "claim", "busy"} \subseteq Phase
        /\ request[r].print \in Fingerprint /\ request[r].left > 0
        /\ FaultsOK'
        /\ request[r].phase = "read" /\ UNCHANGED <<row, applied, faults>>
    BY DEF Inv, Phase, Over, Sent, TypeOK, FaultsOK
  <1>1. CASE row.state # "none" /\ Moves(r, "mismatch")
    BY <1>0, <1>1, AsideStep DEF Over
  <1>2. CASE row.state # "none" /\ Moves(r, "busy")
    BY <1>0, <1>2, AsideStep DEF Over
  <1>3. CASE row.state = "done" /\ row.print = request[r].print /\ Gets(r, "replayed", row.answer)
    <2>0. row.answer \in Answer
      BY <1>0 DEF TypeOK, Answer
    <2>1. /\ request' \in [Request -> [phase : Phase, print : Answer, left : 0 .. MaxClaims, got : Answer]]
          /\ request'[r].phase = "replayed"
          /\ request'[r].print = request[r].print
          /\ request'[r].got = row.answer
          /\ \A q \in Request \ {r} : request'[q] = request[q]
      BY <1>0, <1>3, <2>0, GetsOnly
    <2>2. row.answer = row.print /\ applied[row.print] > 0
      BY <1>3 DEF Inv, Kept
    <2>3. TypeOK'
      BY <1>0, <2>1 DEF TypeOK, Phase, Answer
    <2>4. Sent'
      BY <1>0, <2>1 DEF Inv, Sent
    <2>5. request'[r].phase \notin Running
      BY <2>1 DEF Running
    <2>6. Alone' /\ Claimed' /\ Kept' /\ Given'
      BY <1>0, <1>3, <2>1, <2>2, <2>5, StepsAside
    <2> QED
      BY <2>3, <2>4, <2>6 DEF Inv
  <1>4. CASE row.state = "none"
    <2> DEFINE phase == IF request[r].left > 1 THEN "claim" ELSE "busy"
    <2>1. request' = [request EXCEPT ![r].left = request[r].left - 1, ![r].phase = phase]
      BY <1>4
    <2>2. phase \in Phase /\ phase \in {"claim", "busy"} /\ (phase = "claim" => request[r].left > 1)
      BY <1>0
    <2>3. request[r].left - 1 \in 0 .. MaxClaims
      BY <1>0, BoundsAssumption DEF TypeOK
    <2> HIDE DEF phase
    <2>4. /\ request' \in [Request -> [phase : Phase, print : Answer, left : 0 .. MaxClaims, got : Answer]]
          /\ request'[r].phase = phase
          /\ request'[r].print = request[r].print
          /\ request'[r].left = request[r].left - 1
          /\ \A q \in Request \ {r} : request'[q] = request[q]
      BY <1>0, <2>1, <2>2, <2>3 DEF TypeOK, Phase, Answer
    <2>5. TypeOK'
      BY <1>0, <2>4 DEF TypeOK, Phase, Answer
    <2>6. Sent'
      BY <1>0, <2>2, <2>4, BoundsAssumption DEF Inv, Sent, TypeOK
    <2>7. request'[r].phase \notin Running \cup {"ran", "replayed"}
      BY <2>2, <2>4 DEF Running
    <2>8. Alone' /\ Claimed' /\ Kept' /\ Given'
      BY <1>0, <2>4, <2>7, StepsAside
    <2> QED
      BY <2>5, <2>6, <2>8 DEF Inv
  <1> QED
    BY <1>1, <1>2, <1>3, <1>4 DEF decideExisting

(* The route answers, with the change made or not: the claim is still r's. *)
LEMMA AnswerStep ==
    ASSUME Inv, NEW r \in Request, request[r].phase = "run",
           Succeed(r) \/ Refuse(r) \/ FailLate(r)
    PROVE  Inv'
  <1>0. /\ TypeOK /\ {"store", "release"} \subseteq Phase
        /\ request[r].print \in Fingerprint /\ request[r].print \in Answer
        /\ request[r].phase \in Running
        /\ row' = row /\ FaultsOK'
    <2>1. TypeOK /\ FaultsOK'
      BY FaultsBounded DEF Inv, Succeed, Refuse, FailLate, Fault
    <2> QED
      BY <2>1 DEF Inv, Phase, Running, Sent, Answer, Succeed, Refuse, FailLate
  <1>1. /\ applied' \in [Fingerprint -> Nat]
        /\ \A p \in Fingerprint : applied'[p] >= applied[p]
        /\ Succeed(r) => applied'[request[r].print] > 0
    BY <1>0 DEF TypeOK, Succeed, Refuse, FailLate, Change
  <1>2. /\ request' \in [Request -> [phase : Phase, print : Answer, left : 0 .. MaxClaims, got : Answer]]
        /\ request'[r].phase \in {"store", "release"}
        /\ request'[r].print = request[r].print
        /\ request'[r].phase = "store" => Succeed(r) /\ request'[r].got = request[r].print
        /\ \A q \in Request \ {r} : request'[q] = request[q]
    <2>1. CASE Succeed(r)
      BY <1>0, <2>1, GetsOnly DEF Succeed
    <2>2. CASE Refuse(r) \/ FailLate(r)
      <3>1. Moves(r, "release")
        BY <2>2 DEF Refuse, FailLate
      <3> QED
        BY <1>0, <3>1, MovesOnly
    <2> QED
      BY <2>1, <2>2
  <1>3. TypeOK'
    BY <1>0, <1>1, <1>2 DEF TypeOK, Phase, Answer, FaultsOK
  <1>4. Sent'
    BY <1>0, <1>2 DEF Inv, Sent
  <1>5. \A q \in Request \ {r} : request[q].phase \notin Running /\ row = Pending(request[r].print)
    BY <1>0, RowOfRunner
  <1>6. Alone'
    BY <1>2, <1>5 DEF Alone, In
  <1>7. Claimed'
    <2>1. row = Pending(request[r].print)
      BY <1>0, RowOfRunner
    <2>2. \A q \in Request : request'[q].phase \in Running => row' = Pending(request'[q].print)
      BY <1>0, <1>2, <1>5, <2>1
    <2> QED
      BY <2>2 DEF Claimed, In, Pending
  <1>8. Kept'
    BY <1>0, <1>1 DEF Inv, Kept, TypeOK
  <1>9. Given'
    <2> SUFFICES ASSUME NEW q \in Request, request'[q].phase \in {"store", "ran", "replayed"}
                 PROVE  request'[q].got = request'[q].print /\ applied'[request'[q].print] > 0
      BY DEF Given, In
    <2>1. CASE q = r
      BY <1>1, <1>2, <2>1
    <2>2. CASE q # r
      <3>1. /\ request'[q] = request[q] /\ request[q].got = request[q].print
            /\ applied[request[q].print] > 0
        BY <1>2, <2>2 DEF Inv, Given, In
      <3>2. request[q].print \in Fingerprint
        BY <1>2, <2>2 DEF Inv, Sent
      <3> QED
        BY <1>0, <1>1, <3>1, <3>2 DEF TypeOK
    <2> QED
      BY <2>1, <2>2
  <1> QED
    BY <1>3, <1>4, <1>6, <1>7, <1>8, <1>9 DEF Inv

(* The row takes the answer, or goes; r is done with it, and nobody else runs. *)
LEMMA FinishStep ==
    ASSUME Inv, NEW r \in Request, Store(r) \/ Release(r)
    PROVE  Inv'
  <1>0. /\ TypeOK /\ {"ran", "refused"} \subseteq Phase
        /\ request[r].phase \in Running
        /\ request[r].print \in Fingerprint
        /\ UNCHANGED <<applied, faults>>
    BY DEF Inv, Phase, Running, Over, Sent, Store, Release
  <1>1. /\ \A q \in Request \ {r} : request[q].phase \notin Running
        /\ row = Pending(request[r].print) /\ row.state = "pending" /\ row.print = request[r].print
    <2>1. row = Pending(request[r].print) /\ \A q \in Request \ {r} : request[q].phase \notin Running
      BY <1>0, RowOfRunner
    <2> QED
      BY <2>1 DEF Pending, NoRow
  <1>2. /\ request' \in [Request -> [phase : Phase, print : Answer, left : 0 .. MaxClaims, got : Answer]]
        /\ request'[r].phase = IF Store(r) THEN "ran" ELSE "refused"
        /\ request'[r].print = request[r].print
        /\ request'[r].got = request[r].got
        /\ \A q \in Request \ {r} : request'[q] = request[q]
    <2>1. CASE Store(r)
      BY <1>0, <2>1, MovesOnly DEF Store
    <2>2. CASE ~Store(r)
      <3>1. Release(r)
        BY <2>2
      <3> QED
        BY <1>0, <2>2, <3>1, MovesOnly DEF Release
    <2> QED
      BY <2>1, <2>2
  <1>3. /\ row' \in [state : {"none", "pending", "done"}, print : Answer,
                     age : {"fresh", "stale", "expired"}, answer : Answer]
        /\ row'.state = "done" => /\ Store(r)
                                  /\ row'.print = request[r].print
                                  /\ row'.answer = request[r].print
    <2>1. CASE Store(r)
      BY <1>0, <1>1, <2>1 DEF Store, TypeOK, Answer
    <2>2. CASE Release(r)
      BY <1>0, <1>1, <2>2 DEF Release, NoRow, Answer
    <2> QED
      BY <2>1, <2>2
  <1>4. TypeOK'
    BY <1>0, <1>2, <1>3 DEF TypeOK, Phase, Answer, FaultsOK
  <1>5. Sent'
    BY <1>0, <1>2 DEF Inv, Sent
  <1>6. \A q \in Request : request'[q].phase \notin Running
    BY <1>1, <1>2 DEF Running
  <1>7. Alone' /\ Claimed'
    BY <1>6 DEF Alone, Claimed, In
  <1>8. Store(r) => request[r].got = request[r].print /\ applied[request[r].print] > 0
    BY DEF Store, Inv, Given, In
  <1>9. Kept'
    BY <1>0, <1>3, <1>8 DEF Kept
  <1>10. Given'
    <2> SUFFICES ASSUME NEW q \in Request, request'[q].phase \in {"store", "ran", "replayed"}
                 PROVE  request'[q].got = request'[q].print /\ applied'[request'[q].print] > 0
      BY DEF Given, In
    <2>1. CASE q = r
      BY <1>0, <1>2, <1>8, <2>1
    <2>2. CASE q # r
      BY <1>0, <1>2, <2>2 DEF Inv, Given, In
    <2> QED
      BY <2>1, <2>2
  <1> QED
    BY <1>4, <1>5, <1>7, <1>9, <1>10 DEF Inv

(* Time passes: a claim under way is too young for it. *)
LEMMA TimeStep ==
    ASSUME Inv, ~Fault("slow"), GoStale \/ Expire \/ Prune
    PROVE  Inv'
  <1>0. TypeOK /\ UNCHANGED <<request, applied>> /\ FaultsOK'
    <2>1. TypeOK /\ (UNCHANGED faults \/ \E kind \in Faults : Fault(kind))
      BY DEF Inv, GoStale, Expire, Prune, Fault
    <2> QED
      BY <2>1, FaultsBounded DEF GoStale, Expire, Prune
  <1>1. \A r \in Request : request[r].phase \notin Running
    <2> SUFFICES ASSUME NEW r \in Request, request[r].phase \in Running PROVE FALSE
      OBVIOUS
    <2>1. row = Pending(request[r].print) /\ r \in In(Running)
      BY RowOfRunner DEF In
    <2>2. row.state = "pending" /\ row.age = "fresh"
      BY <2>1 DEF Pending, NoRow
    <2> QED
      BY <2>1, <2>2 DEF GoStale, Expire, Prune, Fault
  <1>2. /\ row' \in [state : {"none", "pending", "done"}, print : Answer,
                     age : {"fresh", "stale", "expired"}, answer : Answer]
        /\ row'.state = "done" => /\ row.state = "done"
                                  /\ row'.print = row.print /\ row'.answer = row.answer
    BY <1>0 DEF TypeOK, GoStale, Expire, Prune, NoRow, Answer
  <1>3. TypeOK'
    BY <1>0, <1>2 DEF TypeOK, Phase, Answer, FaultsOK
  <1>4. Sent' /\ Given'
    BY <1>0 DEF Inv, Sent, Given, In
  <1>5. Alone' /\ Claimed'
    BY <1>0, <1>1 DEF Alone, Claimed, In
  <1>6. Kept'
    BY <1>0, <1>2 DEF Inv, Kept
  <1> QED
    BY <1>3, <1>4, <1>5, <1>6 DEF Inv

(* A step that is not a slow route's preserves what holds while there is none. *)
LEMMA StepInv == Inv /\ ~Fault("slow") /\ [Next]_vars => Inv'
  <1> SUFFICES ASSUME Inv, ~Fault("slow"), [Next]_vars PROVE Inv'
    OBVIOUS
  <1>1. ASSUME NEW r \in Request, NEW p \in Fingerprint, Send(r, p) PROVE Inv'
    BY <1>1, SendStep
  <1>2. ASSUME NEW r \in Request, Claims(r) PROVE Inv'
    BY <1>2, ClaimStep, ReadStep DEF Claims
  <1>3. ASSUME NEW r \in Request, Answers(r) PROVE Inv'
    <2>1. CASE Succeed(r) \/ Refuse(r)
      BY <2>1, AnswerStep DEF Succeed, Refuse
    <2>2. CASE Store(r) \/ Release(r)
      BY <2>2, FinishStep
    <2> QED
      BY <1>3, <2>1, <2>2 DEF Answers
  <1>4. ASSUME NEW r \in Request, FailLate(r) PROVE Inv'
    BY <1>4, AnswerStep DEF FailLate
  <1>5. ASSUME NEW r \in Request, Die(r) \/ LoseAnswer(r) PROVE Inv'
    <2>1. /\ Moves(r, "dead") /\ request[r].phase # "idle"
          /\ UNCHANGED <<row, applied>> /\ FaultsOK'
      <3>1. TypeOK /\ (UNCHANGED faults \/ \E kind \in Faults : Fault(kind))
        BY <1>5 DEF Inv, Die, LoseAnswer, Fault
      <3> QED
        BY <1>5, <3>1, FaultsBounded DEF Die, LoseAnswer
    <2> QED
      BY <2>1, AsideStep DEF Over
  <1>6. CASE GoStale \/ Expire \/ Prune
    BY <1>6, TimeStep
  <1>7. CASE UNCHANGED vars
    BY <1>7 DEF vars, Inv, TypeOK, Sent, Alone, Claimed, Kept, Given, In, Pending
  <1> QED
    BY <1>1, <1>2, <1>3, <1>4, <1>5, <1>6, <1>7 DEF Next

Row == [state : {"none", "pending", "done"}, print : Answer,
        age : {"fresh", "stale", "expired"}, answer : Answer]

(* What a step that moves r, or gives it an answer, preserves of the types. *)
LEMMA MoveTypes ==
    ASSUME TypeOK, Sent, NEW r \in Request, NEW phase \in Phase \ {"claim"}, NEW p \in Answer,
           Moves(r, phase) \/ Gets(r, phase, p),
           phase = "read" => request[r].phase = "claim", request[r].phase # "idle",
           row' \in Row, applied' \in [Fingerprint -> Nat], FaultsOK'
    PROVE  TypeOK' /\ Sent'
  <1>1. /\ request' \in [Request -> [phase : Phase, print : Answer, left : 0 .. MaxClaims, got : Answer]]
        /\ request'[r].phase = phase
        /\ request'[r].print = request[r].print
        /\ request'[r].left = request[r].left
        /\ \A q \in Request \ {r} : request'[q] = request[q]
    <2>1. CASE Moves(r, phase)
      BY <2>1, MovesOnly
    <2>2. CASE Gets(r, phase, p)
      BY <2>2, GetsOnly
    <2> QED
      BY <2>1, <2>2
  <1>2. TypeOK'
    BY <1>1 DEF TypeOK, Phase, Answer, FaultsOK, Row
  <1>3. Sent'
    BY <1>1 DEF Sent
  <1> QED
    BY <1>2, <1>3

(* Whatever goes wrong, variables keep their shape and a sent request its print. *)
LEMMA StepTypes == TypeOK /\ Sent /\ [Next]_vars => TypeOK' /\ Sent'
  <1> SUFFICES ASSUME TypeOK, Sent, [Next]_vars PROVE TypeOK' /\ Sent'
    OBVIOUS
  <1>1. row \in Row /\ applied \in [Fingerprint -> Nat] /\ NoFingerprint \in Answer
    BY DEF TypeOK, Row, Answer
  <1>2. NoRow \in Row /\ \A p \in Fingerprint : Pending(p) \in Row
    BY DEF Row, NoRow, Pending, Answer
  <1>3. FaultsOK'
    <2>1. \A kind : Fault(kind) => kind \in Faults
      BY DEF Fault
    <2>2. UNCHANGED faults \/ \E kind \in Faults : Fault(kind)
      BY <2>1 DEF Next, Send, Claims, Claim, Read, Answers, Succeed, Refuse, Store, Release, FailLate,
                  Die, LoseAnswer, GoStale, Expire, Prune, vars
    <2> QED
      BY <2>2, FaultsBounded
  <1>4. \A r \in Request : request[r].phase # "idle" =>
            request[r].print \in Fingerprint /\ request[r].print \in Answer
    BY DEF Sent, Answer
  <1>5. {"run", "read", "busy", "mismatch", "replayed", "store", "release", "ran", "refused", "dead"}
            \subseteq Phase \ {"claim"}
    BY DEF Phase, Running, Over
  <1>6. ASSUME NEW r \in Request, NEW p \in Fingerprint, Send(r, p) PROVE TypeOK' /\ Sent'
    <2>1. /\ request' \in [Request -> [phase : Phase, print : Answer, left : 0 .. MaxClaims, got : Answer]]
          /\ request'[r].print = p /\ request'[r].left = MaxClaims
          /\ \A q \in Request \ {r} : request'[q] = request[q]
      BY <1>6, BoundsAssumption DEF Send, TypeOK, Phase, Answer
    <2>2. TypeOK'
      BY <1>3, <1>6, <2>1 DEF Send, TypeOK, Phase, Answer, FaultsOK
    <2>3. Sent'
      BY <2>1, BoundsAssumption DEF Sent
    <2> QED
      BY <2>2, <2>3
  <1>7. ASSUME NEW r \in Request, Claim(r) PROVE TypeOK' /\ Sent'
    BY <1>1, <1>2, <1>3, <1>4, <1>5, <1>7, MoveTypes DEF Claim
  <1>8. ASSUME NEW r \in Request, Read(r) PROVE TypeOK' /\ Sent'
    <2>1. request[r].phase = "read" /\ UNCHANGED <<row, applied, faults>>
      BY <1>8 DEF Read
    <2>2. CASE row.state # "none"
      <3>1. row.answer \in Answer
        BY <1>1 DEF Row
      <3>2. \/ Moves(r, "mismatch") \/ Moves(r, "busy") \/ Gets(r, "replayed", row.answer)
        BY <1>8, <2>2 DEF Read, decideExisting
      <3> QED
        BY <1>1, <1>3, <1>5, <2>1, <3>1, <3>2, MoveTypes
    <2>3. CASE row.state = "none"
      <3> DEFINE phase == IF request[r].left > 1 THEN "claim" ELSE "busy"
      <3>1. request' = [request EXCEPT ![r].left = request[r].left - 1, ![r].phase = phase]
        BY <1>8, <2>3 DEF Read
      <3>2. phase \in Phase /\ phase \in {"claim", "busy"} /\ (phase = "claim" => request[r].left > 1)
        BY DEF Phase, Over
      <3>3. request[r].left \in 0 .. MaxClaims /\ request[r].left > 0
        BY <2>1 DEF Sent, TypeOK
      <3>4. request[r].left - 1 \in 0 .. MaxClaims
        BY <3>3, BoundsAssumption
      <3> HIDE DEF phase
      <3>5. /\ request' \in [Request -> [phase : Phase, print : Answer, left : 0 .. MaxClaims, got : Answer]]
            /\ request'[r].phase = phase
            /\ request'[r].print = request[r].print
            /\ request'[r].left = request[r].left - 1
            /\ \A q \in Request \ {r} : request'[q] = request[q]
        <4>1. request \in [Request -> [phase : Phase, print : Answer, left : 0 .. MaxClaims, got : Answer]]
          BY DEF TypeOK, Phase, Answer
        <4>2. PICK n : n = [request[r] EXCEPT !.left = request[r].left - 1, !.phase = phase]
          OBVIOUS
        <4>3. /\ n \in [phase : Phase, print : Answer, left : 0 .. MaxClaims, got : Answer]
              /\ n.phase = phase /\ n.print = request[r].print /\ n.left = request[r].left - 1
          BY <3>2, <3>4, <4>1, <4>2
        <4>4. request' = [request EXCEPT ![r] = n]
          BY <3>1, <4>1, <4>2
        <4> QED
          BY <4>1, <4>3, <4>4
      <3>6. TypeOK'
        BY <1>3, <2>1, <3>5 DEF TypeOK, Phase, Answer, FaultsOK
      <3>7. Sent'
        BY <1>4, <2>1, <3>2, <3>3, <3>5, BoundsAssumption DEF Sent
      <3> QED
        BY <3>6, <3>7
    <2> QED
      BY <2>2, <2>3
  <1>9. ASSUME NEW r \in Request, Succeed(r) \/ Refuse(r) \/ FailLate(r) PROVE TypeOK' /\ Sent'
    <2>1. request[r].phase = "run" /\ UNCHANGED row
      BY <1>9 DEF Succeed, Refuse, FailLate
    <2>2. applied' \in [Fingerprint -> Nat]
      BY <1>1, <1>4, <1>9, <2>1 DEF Succeed, Refuse, FailLate, Change
    <2>3. Moves(r, "release") \/ Gets(r, "store", request[r].print)
      BY <1>9 DEF Succeed, Refuse, FailLate
    <2> QED
      BY <1>1, <1>3, <1>4, <1>5, <2>1, <2>2, <2>3, MoveTypes
  <1>10. ASSUME NEW r \in Request, Store(r) \/ Release(r) PROVE TypeOK' /\ Sent'
    <2>1. request[r].phase \in {"store", "release"} /\ UNCHANGED applied
      BY <1>10 DEF Store, Release
    <2>2. row' \in Row
      BY <1>1, <1>2, <1>4, <1>10, <2>1 DEF Store, Release, Row
    <2>3. Moves(r, "ran") \/ Moves(r, "refused")
      BY <1>10 DEF Store, Release
    <2> QED
      BY <1>1, <1>3, <1>5, <2>1, <2>2, <2>3, MoveTypes
  <1>11. ASSUME NEW r \in Request, Die(r) \/ LoseAnswer(r) PROVE TypeOK' /\ Sent'
    <2>1. Moves(r, "dead") /\ request[r].phase # "idle" /\ UNCHANGED <<row, applied>>
      BY <1>11 DEF Die, LoseAnswer
    <2> QED
      BY <1>1, <1>3, <1>5, <2>1, MoveTypes
  <1>12. CASE GoStale \/ Expire \/ Prune \/ UNCHANGED vars
    <2>1. row' \in Row /\ UNCHANGED <<request, applied>>
      BY <1>1, <1>2, <1>12 DEF GoStale, Expire, Prune, vars, Row
    <2> QED
      BY <1>3, <2>1 DEF TypeOK, Sent, Row, Answer, FaultsOK
  <1> QED
    BY <1>6, <1>7, <1>8, <1>9, <1>10, <1>11, <1>12 DEF Next, Claims, Answers

IInv == TypeOK /\ Sent /\ (Quick => Inv)

(* IInv is inductive: once a route was slow it has been, and until then Inv holds. *)
THEOREM Invariant == Spec => []IInv
  <1>1. Init => IInv
    BY InitInv DEF IInv, Inv
  <1>2. IInv /\ [Next]_vars => IInv'
    <2> SUFFICES ASSUME IInv, [Next]_vars PROVE IInv'
      OBVIOUS
    <2>1. TypeOK' /\ Sent'
      BY StepTypes DEF IInv
    <2>2. ASSUME Quick' PROVE Inv'
      <3>1. TypeOK /\ (UNCHANGED faults \/ \E kind \in FaultKind : Fault(kind))
        BY BoundsAssumption DEF IInv, Next, Send, Claims, Claim, Read, Answers, Succeed, Refuse, Store, Release,
               FailLate, Die, LoseAnswer, GoStale, Expire, Prune, vars, Fault, FaultKind
      <3>2. Quick /\ ~Fault("slow")
        BY <2>2, <3>1 DEF TypeOK, Quick, Fault, FaultKind
      <3> QED
        BY <3>2, StepInv DEF IInv
    <2> QED
      BY <2>1, <2>2 DEF IInv
  <1> QED
    BY <1>1, <1>2, PTL DEF Spec

-----------------------------------------------------------------------------
(* Theorems *)

(* Every variable keeps its shape, and only the kinds of fault in Faults happen. *)
THEOREM TypeCorrect == Spec => []TypeOK
  <1>1. IInv => TypeOK
    BY DEF IInv
  <1> QED
    BY <1>1, Invariant, PTL

(* Of all requests with a key one runs at a time, for any number of them and
   whatever is lost, dies, expires or fails halfway, until a route is slow. *)
THEOREM OneRunnerCorrect == Spec => []OneRunner
  <1>1. IInv => OneRunner
    BY DEF IInv, Inv, Alone, OneRunner
  <1> QED
    BY <1>1, Invariant, PTL

(* Nobody is given the answer of another request, or of a change never made, until
   a route is slow. *)
THEOREM AnswerCorrect == Spec => []AnswerBelongs
  <1>1. IInv => AnswerBelongs
    BY DEF IInv, Inv, Given, AnswerBelongs, In
  <1> QED
    BY <1>1, Invariant, PTL

-----------------------------------------------------------------------------
(* With no fault, the key does what OnceService promises. *)

Done(p) == applied[p] > 0

(* One change at most was made, once, and its claim or its answer bars the way. *)
Once ==
    /\ \A p \in Fingerprint : applied[p] <= 1
    /\ \A p, q \in Fingerprint : Done(p) /\ Done(q) => p = q
    /\ \A p \in Fingerprint : Done(p) =>
          \/ row.state = "done" /\ row.age # "expired"
          \/ In({"store"}) # {}

Told == [r \in Request |->
           IF request[r].phase \in {"store", "ran", "replayed"} THEN request[r].got ELSE NoFingerprint]

(* What bars the way is not claimable, and is not run beside. *)
LEMMA NothingDoneYet ==
    ASSUME Inv, Once, NEW r \in Request, request[r].phase = "run"
    PROVE  \A p \in Fingerprint : applied[p] = 0
  <1>1. request[r].phase \in Running
    BY DEF Running
  <1>2. row.state = "pending" /\ \A q \in Request \ {r} : request[q].phase \notin Running
    <2>1. row = Pending(request[r].print) /\ \A q \in Request \ {r} : request[q].phase \notin Running
      BY <1>1, RowOfRunner
    <2> QED
      BY <2>1 DEF Pending, NoRow
  <1>3. In({"store"}) = {}
    BY <1>2 DEF In, Running
  <1>4. \A p \in Fingerprint : ~Done(p)
    BY <1>2, <1>3 DEF Once
  <1> QED
    BY <1>4 DEF Done, Inv, TypeOK

(* Steps of one request leave the others be. *)
LEMMA OthersStay ==
    ASSUME TypeOK, NEW r \in Request,
           \/ \E p \in Fingerprint : Send(r, p)
           \/ Claims(r) \/ Answers(r) \/ FailLate(r) \/ Die(r) \/ LoseAnswer(r)
    PROVE  \A q \in Request \ {r} : request'[q] = request[q]
  BY DEF TypeOK, Send, Claims, Claim, Read, decideExisting, Answers, Succeed, Refuse, Store, Release,
         FailLate, Die, LoseAnswer, Moves, Gets

LEMMA NoFaultHere ==
    ASSUME TypeOK, Flawless'
    PROVE  ~Fault("lose") /\ ~Fault("partial") /\ ~Fault("expire") /\ ~Fault("slow")
  <1> SUFFICES ASSUME NEW kind \in FaultKind, Fault(kind) PROVE FALSE
    BY DEF FaultKind
  <1>1. faults[kind] \in Nat /\ faults'[kind] = faults[kind] + 1
    BY DEF TypeOK, Fault
  <1>2. faults'[kind] = 0
    BY DEF Flawless
  <1> QED
    BY <1>1, <1>2

(* What has not failed yet had not failed before. *)
LEMMA FlawlessBefore ==
    ASSUME TypeOK, Flawless', [Next]_vars
    PROVE  Flawless
  <1>1. faults' = faults
    BY NoFaultHere DEF Next, Send, Claims, Claim, Read, Answers, Succeed, Refuse, Store, Release,
                       FailLate, Die, LoseAnswer, GoStale, Expire, Prune, vars
  <1> QED
    BY <1>1 DEF Flawless

(* A change that was made stays barred. *)
LEMMA BarStays ==
    ASSUME Inv, Flawless', Next, applied' = applied,
           (row.state = "done" /\ row.age # "expired") \/ In({"store"}) # {}
    PROVE  (row'.state = "done" /\ row'.age # "expired") \/ In({"store"})' # {}
  <1>0. /\ TypeOK
        /\ ~Fault("lose") /\ ~Fault("partial") /\ ~Fault("expire") /\ ~Fault("slow")
    BY NoFaultHere DEF Inv
  <1>1. CASE row.state = "done" /\ row.age # "expired"
    <2>1. ~Claimable
      BY <1>1 DEF Claimable
    <2>2. \A r \in Request : request[r].phase \notin Running
      <3> SUFFICES ASSUME NEW r \in Request, request[r].phase \in Running PROVE FALSE
        OBVIOUS
      <3>1. row = Pending(request[r].print)
        BY RowOfRunner
      <3> QED
        BY <1>1, <3>1 DEF Pending, NoRow
    <2>3. row' = row
      BY <1>0, <1>1, <2>1, <2>2
         DEF Next, Send, Claims, Claim, Read, Answers, Succeed, Refuse, Store, Release, FailLate, Die,
             LoseAnswer, GoStale, Expire, Prune, Running
    <2> QED
      BY <1>1, <2>3
  <1>2. CASE In({"store"}) # {}
    <2>1. PICK r \in Request : request[r].phase = "store"
      BY <1>2 DEF In
    <2>2. row = Pending(request[r].print)
      BY <2>1, RowOfRunner DEF Running
    <2>3. row.state = "pending" /\ row.age = "fresh"
      BY <2>2 DEF Pending, NoRow
    <2>4. CASE Store(r)
      <3>1. row' = [row EXCEPT !.state = "done", !.answer = request[r].print]
        BY <2>3, <2>4 DEF Store
      <3> QED
        BY <1>0, <2>3, <3>1 DEF TypeOK
    <2>5. CASE ~Store(r)
      <3>1. request'[r] = request[r]
        <4>1. ASSUME NEW q \in Request,
                     \/ \E p \in Fingerprint : Send(q, p)
                     \/ Claims(q) \/ Answers(q) \/ FailLate(q) \/ Die(q) \/ LoseAnswer(q)
              PROVE  request'[r] = request[r]
          <5>1. q # r
            BY <1>0, <2>1, <2>5, <4>1
               DEF Send, Claims, Claim, Read, Answers, Succeed, Refuse, Release, FailLate, Die, LoseAnswer, Over
          <5> QED
            BY <1>0, <4>1, <5>1, OthersStay
        <4>2. CASE GoStale \/ Expire \/ Prune
          BY <4>2 DEF GoStale, Expire, Prune
        <4> QED
          BY <4>1, <4>2 DEF Next
      <3> QED
        BY <2>1, <3>1 DEF In
    <2> QED
      BY <2>4, <2>5
  <1> QED
    BY <1>1, <1>2

(* A change is made by the first to run, and by nobody after. *)
LEMMA OnceStep ==
    ASSUME Inv, Once, Flawless', [Next]_vars
    PROVE  /\ Once'
           /\ applied' = applied \/ \E p \in Fingerprint : Promise!Apply(p)
  <1>1. CASE applied' = applied /\ Next
    <2>1. \A p \in Fingerprint : Done(p)' <=> Done(p)
      BY <1>1 DEF Done
    <2>2. \A p \in Fingerprint : Done(p)' =>
            (row'.state = "done" /\ row'.age # "expired") \/ In({"store"})' # {}
      BY <1>1, <2>1, BarStays DEF Once
    <2> QED
      BY <1>1, <2>1, <2>2 DEF Once
  <1>2. CASE applied' # applied /\ Next
    <2>0. ~Fault("partial")
      BY NoFaultHere DEF Inv
    <2>1. PICK r \in Request : Succeed(r)
      BY <1>2, <2>0 DEF Next, Send, Claims, Claim, Read, Answers, Refuse, Store, Release, FailLate,
                        Die, LoseAnswer, GoStale, Expire, Prune
    <2>2. /\ request[r].phase = "run" /\ request[r].print \in Fingerprint
          /\ Gets(r, "store", request[r].print) /\ Change(r)
      BY <2>1 DEF Succeed, Inv, Sent
    <2>3. \A p \in Fingerprint : applied[p] = 0
      BY <2>2, NothingDoneYet
    <2>4. applied' = [applied EXCEPT ![request[r].print] = 1]
      <3>1. applied' = [applied EXCEPT ![request[r].print] = applied[request[r].print] + 1]
        BY <2>2 DEF Change
      <3>2. applied[request[r].print] + 1 = 1
        BY <2>2, <2>3
      <3> QED
        BY <3>1, <3>2
    <2>5. request'[r].phase = "store"
      <3>1. TypeOK /\ "store" \in Phase /\ request[r].print \in Answer
        BY <2>2 DEF Inv, Phase, Running, Answer
      <3> QED
        BY <2>2, <3>1, GetsOnly
    <2>6. Once'
      <3>1. In({"store"})' # {}
        BY <2>5 DEF In
      <3>2. \A p \in Fingerprint : applied'[p] = IF p = request[r].print THEN 1 ELSE 0
        BY <2>2, <2>3, <2>4 DEF Inv, TypeOK
      <3> QED
        BY <3>1, <3>2 DEF Once, Done
    <2> QED
      BY <2>2, <2>3, <2>4, <2>6 DEF Promise!Apply
  <1>3. CASE UNCHANGED vars
    <2>1. applied' = applied /\ row' = row /\ In({"store"})' = In({"store"})
      BY <1>3 DEF vars, In
    <2> QED
      BY <2>1 DEF Once, Done
  <1> QED
    BY <1>1, <1>2, <1>3

(* What a request was told is of a change that was made. *)
ToldTheDone ==
    /\ Told \in [Request -> Fingerprint \cup {NoFingerprint}]
    /\ \A r \in Request : Told[r] \in {NoFingerprint} \cup {p \in Fingerprint : applied[p] > 0}

LEMMA ToldOfTheDone == Inv => ToldTheDone
  <1> SUFFICES ASSUME Inv PROVE ToldTheDone
    OBVIOUS
  <1>1. ASSUME NEW r \in Request, request[r].phase \in {"store", "ran", "replayed"}
        PROVE  request[r].got \in {p \in Fingerprint : applied[p] > 0}
    <2>1. request[r].got = request[r].print /\ applied[request[r].print] > 0
      BY <1>1 DEF Inv, Given, In
    <2>2. request[r].print \in Fingerprint
      BY <1>1 DEF Inv, Sent
    <2> QED
      BY <2>1, <2>2
  <1> QED
    BY <1>1 DEF Told, ToldTheDone

(* Until something goes wrong the key is applied once at most, and success is only told
   of what was applied: so far IdempotencyKeys does what OnceService does. *)
THEOREM PromiseKept == Spec => KeepsPromise
  <1> DEFINE SoFar == Flawless => Once
  <1>1. Init => Promise!Init /\ SoFar
    <2> SUFFICES ASSUME Init PROVE Promise!Init /\ Once
      OBVIOUS
    <2>1. \A r \in Request : request[r].phase = "idle"
      BY DEF Init
    <2> QED
      BY <2>1 DEF Init, Promise!Init, Once, Done
  <1>2. IInv /\ Flawless => Inv
    BY DEF IInv, Quick, Flawless, FaultKind
  <1>3. ASSUME (IInv /\ Flawless => Inv)' PROVE IInv' /\ Flawless' => ToldTheDone'
    <2>1. (Inv => ToldTheDone)'
      BY ToldOfTheDone, PTL
    <2> QED
      BY <1>3, <2>1
  <1>4. IInv /\ IInv' /\ SoFar /\ [Next]_vars => SoFar' /\ (Flawless' => Promise!Next)
    <2> SUFFICES ASSUME IInv, IInv', SoFar, [Next]_vars, Flawless'
                 PROVE  Once' /\ Promise!Next
      OBVIOUS
    <2>1. Flawless /\ Inv /\ Once
      BY <1>2, FlawlessBefore DEF IInv
    <2>2. Once' /\ (applied' = applied \/ \E p \in Fingerprint : Promise!Apply(p))
      BY <2>1, OnceStep
    <2>3. ToldTheDone'
      <3>1. (IInv /\ Flawless => Inv)'
        BY <1>2, PTL
      <3> QED
        BY <1>3, <3>1
    <2> QED
      BY <2>2, <2>3 DEF Promise!Next, ToldTheDone, Told
  <1> QED
    BY <1>1, <1>4, Invariant, PTL DEF Spec, KeepsPromise

(* docs/offline-field.md:192-199: where nothing of Faults can happen, IdempotencyKeys
   implements OnceService. *)
THEOREM OnceImplemented == ASSUME Faults = {} PROVE Spec => Promise!Spec
  <1>1. TypeOK => Flawless
    BY DEF TypeOK, Flawless
  <1>2. Promise!Next => [Promise!Next]_<<applied, Told>>
    OBVIOUS
  <1>3. UNCHANGED vars => UNCHANGED <<applied, Told>>
    BY DEF vars, Told
  <1> QED
    BY <1>1, <1>2, <1>3, TypeCorrect, PromiseKept, PTL DEF KeepsPromise, Promise!Spec, Told

-----------------------------------------------------------------------------
(* What the faults pay for *)

(* Where a request still may apply its change. *)
Ahead == {"run", "release"}

(* Whether a request may claim the row with no further fault. *)
Open ==
    \/ row.state = "none"
    \/ row.age = "expired"
    \/ row.state = "pending" /\ (row.age = "stale" \/ In(Running) = {})

(* What was applied and what still may be, against the faults. *)
Spent == Total + Cardinality(In(Ahead)) + (IF Open THEN 1 ELSE 0) <= 1 + FaultTotal

(* There are finitely many requests and changes, so that they can be counted. *)
Sizes == IsFiniteSet(Request) /\ IsFiniteSet(Fingerprint)

(* There are finitely many kinds of fault. *)
LEMMA KindsFinite == IsFiniteSet(FaultKind)
  <1>1. FaultKind = (({"lose"} \cup {"partial"}) \cup {"expire"}) \cup {"slow"}
    BY DEF FaultKind
  <1>2. \A k : IsFiniteSet({k})
    BY FS_Singleton
  <1> QED
    BY <1>1, <1>2, FS_Union

(* The totals are numbers. *)
LEMMA SpentNumbers ==
    ASSUME TypeOK, Sizes
    PROVE  /\ Total \in Nat /\ FaultTotal \in Nat
           /\ \A P : IsFiniteSet(In(P)) /\ Cardinality(In(P)) \in Nat
  <1>1. Total = SumOver(applied, Fingerprint) /\ FaultTotal = SumOver(faults, FaultKind)
    BY DEF Total, FaultTotal, SumOver, MapThenSumSet, MapThenFoldSet
  <1>2. \A p \in Fingerprint : applied[p] \in Nat
    BY DEF TypeOK
  <1>3. \A k \in FaultKind : faults[k] \in Nat
    BY DEF TypeOK
  <1>4. IsFiniteSet(FaultKind)
    BY KindsFinite
  <1>5. Total \in Nat
    BY <1>1, <1>2, SumIsNat DEF Sizes
  <1>6. FaultTotal \in Nat
    BY <1>1, <1>3, <1>4, SumIsNat
  <1>7. ASSUME NEW P
        PROVE  IsFiniteSet(In(P)) /\ Cardinality(In(P)) \in Nat
    <2>1. In(P) \subseteq Request
      BY DEF In
    <2>2. IsFiniteSet(In(P))
      BY <2>1, FS_Subset DEF Sizes
    <2> QED
      BY <2>2, FS_CardinalityType
  <1> QED
    BY <1>5, <1>6, <1>7

(* A fault adds one to the faults. *)
LEMMA FaultCounts ==
    ASSUME TypeOK, NEW kind \in FaultKind, Fault(kind)
    PROVE  FaultTotal' = FaultTotal + 1
  <1>1. FaultTotal = SumOver(faults, FaultKind) /\ FaultTotal' = SumOver(faults', FaultKind)
    BY DEF FaultTotal, SumOver, MapThenSumSet, MapThenFoldSet
  <1>2. PICK j \in FaultKind : j = kind
    OBVIOUS
  <1>3. /\ \A k \in FaultKind : faults[k] \in Int
        /\ faults'[j] = faults[j] + 1
        /\ \A k \in FaultKind \ {j} : faults'[k] = faults[k]
    BY <1>2 DEF TypeOK, Fault
  <1>4. SumOver(faults', FaultKind) = SumOver(faults, FaultKind) + 1
    BY <1>3, KindsFinite, SumCounts
  <1> QED
    BY <1>1, <1>2, <1>4

(* A change adds one to what was applied. *)
LEMMA ChangeCounts ==
    ASSUME TypeOK, Sizes, NEW r \in Request, request[r].print \in Fingerprint, Change(r)
    PROVE  Total' = Total + 1
  <1>1. Total = SumOver(applied, Fingerprint) /\ Total' = SumOver(applied', Fingerprint)
    BY DEF Total, SumOver, MapThenSumSet, MapThenFoldSet
  <1>2. PICK p \in Fingerprint : p = request[r].print
    OBVIOUS
  <1>3. /\ \A k \in Fingerprint : applied[k] \in Int
        /\ applied'[p] = applied[p] + 1
        /\ \A k \in Fingerprint \ {p} : applied'[k] = applied[k]
    BY <1>2 DEF TypeOK, Change
  <1>4. SumOver(applied', Fingerprint) = SumOver(applied, Fingerprint) + 1
    BY <1>3, SumCounts DEF Sizes
  <1> QED
    BY <1>1, <1>4

(* The totals stay as what they are of does. *)
LEMMA TotalsStay ==
    ASSUME TRUE
    PROVE  /\ UNCHANGED applied => Total' = Total
           /\ UNCHANGED faults => FaultTotal' = FaultTotal
  <1>1. Total = SumOver(applied, Fingerprint) /\ Total' = SumOver(applied', Fingerprint)
    BY DEF Total, SumOver, MapThenSumSet, MapThenFoldSet
  <1>2. FaultTotal = SumOver(faults, FaultKind) /\ FaultTotal' = SumOver(faults', FaultKind)
    BY DEF FaultTotal, SumOver, MapThenSumSet, MapThenFoldSet
  <1> QED
    BY <1>1, <1>2

(* A request that takes a step is in the phase it steps to, and no other moves. *)
Steps(r, phase) ==
    /\ request'[r].phase = phase
    /\ \A q \in Request \ {r} : request'[q].phase = request[q].phase

(* A request that moves, or gets its answer, changes its phase alone. *)
LEMMA StepMoves ==
    ASSUME TypeOK, NEW r \in Request, NEW phase \in Phase, NEW p \in Answer,
           Moves(r, phase) \/ Gets(r, phase, p)
    PROVE  Steps(r, phase)
  BY MovesOnly, GetsOnly DEF Steps

(* Who is where once r has moved. *)
LEMMA InAfter ==
    ASSUME NEW r \in Request, NEW phase, Steps(r, phase), NEW P
    PROVE  /\ phase \in P => In(P)' = In(P) \cup {r}
           /\ phase \notin P => In(P)' = In(P) \ {r}
  BY DEF Steps, In

(* How many are ahead of their answer once r has moved. *)
LEMMA AheadAfter ==
    ASSUME TypeOK, Sizes, NEW r \in Request, NEW phase, Steps(r, phase)
    PROVE  Cardinality(In(Ahead))' =
              Cardinality(In(Ahead)) + (IF phase \in Ahead THEN 1 ELSE 0)
                                     - (IF request[r].phase \in Ahead THEN 1 ELSE 0)
  <1>1. IsFiniteSet(In(Ahead)) /\ Cardinality(In(Ahead)) \in Nat
    BY SpentNumbers
  <1>2. r \in In(Ahead) <=> request[r].phase \in Ahead
    BY DEF In
  <1>3. CASE phase \in Ahead
    <2>1. In(Ahead)' = In(Ahead) \cup {r}
      BY <1>3, InAfter
    <2>2. Cardinality(In(Ahead) \cup {r}) = IF r \in In(Ahead) THEN Cardinality(In(Ahead))
                                            ELSE Cardinality(In(Ahead)) + 1
      BY <1>1, FS_AddElement
    <2> QED
      BY <1>1, <1>2, <1>3, <2>1, <2>2
  <1>4. CASE phase \notin Ahead
    <2>1. In(Ahead)' = In(Ahead) \ {r}
      BY <1>4, InAfter
    <2>2. Cardinality(In(Ahead) \ {r}) = IF r \in In(Ahead) THEN Cardinality(In(Ahead)) - 1
                                         ELSE Cardinality(In(Ahead))
      BY <1>1, FS_RemoveElement
    <2> QED
      BY <1>1, <1>2, <1>4, <2>1, <2>2
  <1> QED
    BY <1>3, <1>4

(* The sum of the step: what it may cost. *)
Cost(total, fault, ahead, open) ==
    /\ Total' = Total + total
    /\ FaultTotal' = FaultTotal + fault
    /\ Cardinality(In(Ahead))' = Cardinality(In(Ahead)) + ahead
    /\ (IF Open' THEN 1 ELSE 0) <= (IF Open THEN 1 ELSE 0) + open

(* Spent holds as long as a step takes no more than it pays for. *)
LEMMA SpentStays ==
    ASSUME TypeOK, Sizes, Spent,
           NEW total \in {0, 1}, NEW fault \in {0, 1}, NEW ahead \in {-1, 0, 1}, NEW open \in {-1, 0, 1},
           Cost(total, fault, ahead, open), total + ahead + open <= fault
    PROVE  Spent'
  <1>1. Total \in Nat /\ FaultTotal \in Nat /\ Cardinality(In(Ahead)) \in Nat
    BY SpentNumbers
  <1>2. PICK t, f, a, o, u \in Int :
            /\ t = Total /\ f = FaultTotal /\ a = Cardinality(In(Ahead))
            /\ o = (IF Open THEN 1 ELSE 0) /\ u = (IF Open' THEN 1 ELSE 0)
    <2>1. (IF Open THEN 1 ELSE 0) \in Int /\ (IF Open' THEN 1 ELSE 0) \in Int
      OBVIOUS
    <2> QED
      BY <1>1, <2>1
  <1>3. t + a + o <= 1 + f
    BY <1>2 DEF Spent
  <1>4. u <= o + open
    BY <1>2 DEF Cost
  <1>5. (t + total) + (a + ahead) + u <= 1 + (f + fault)
    BY <1>3, <1>4
  <1> QED
    BY <1>2, <1>5 DEF Spent, Cost

(* The row stays, and r runs as little or as much as before. *)
LEMMA OpenAside ==
    ASSUME NEW r \in Request, NEW phase, Steps(r, phase), UNCHANGED row,
           phase \in Running <=> request[r].phase \in Running
    PROVE  Open' => Open
  <1>1. In(Running)' = In(Running)
    <2>1. r \in In(Running) <=> request[r].phase \in Running
      BY DEF In
    <2> QED
      BY <2>1, InAfter
  <1> QED
    BY <1>1 DEF Open

(* What a request does that moves it aside, with neither a change nor a fault. *)
LEMMA AsideCost ==
    ASSUME TypeOK, Sizes, Spent, NEW r \in Request, NEW phase, Steps(r, phase),
           UNCHANGED <<row, applied, faults>>,
           phase \in Ahead <=> request[r].phase \in Ahead,
           phase \in Running <=> request[r].phase \in Running
    PROVE  Spent'
  <1>1. Cardinality(In(Ahead))' = Cardinality(In(Ahead)) + 0
    BY AheadAfter, SpentNumbers
  <1>2. Open' => Open
    BY OpenAside
  <1>3. Total' = Total + 0 /\ FaultTotal' = FaultTotal + 0
    BY TotalsStay, SpentNumbers
  <1>4. Cost(0, 0, 0, 0)
    BY <1>1, <1>2, <1>3 DEF Cost
  <1> QED
    BY <1>4, SpentStays

(* At first nothing is applied and the row is open. *)
LEMMA SpentInit == Sizes /\ Init => Spent
  <1> SUFFICES ASSUME Sizes, Init PROVE Spent
    OBVIOUS
  <1>1. In(Ahead) = {}
    BY DEF Init, In, Ahead
  <1>2. Cardinality(In(Ahead)) = 0
    BY <1>1, FS_EmptySet
  <1>3. Total = SumOver(applied, Fingerprint) /\ FaultTotal = SumOver(faults, FaultKind)
    BY DEF Total, FaultTotal, SumOver, MapThenSumSet, MapThenFoldSet
  <1>4. SumOver(applied, Fingerprint) = 0
    BY SumOfZeros DEF Init, Sizes
  <1>5. SumOver(faults, FaultKind) = 0
    BY KindsFinite, SumOfZeros DEF Init
  <1> QED
    BY <1>2, <1>3, <1>4, <1>5 DEF Spent

(* The steps of a request pay for what they take. *)
LEMMA SpentRequestStep ==
    ASSUME TypeOK, Sent, Sizes, Spent, NEW r \in Request,
           \/ \E p \in Fingerprint : Send(r, p)
           \/ Claims(r) \/ Answers(r) \/ FailLate(r) \/ Die(r) \/ LoseAnswer(r)
    PROVE  Spent'
  <1>1. NoFingerprint \in Answer /\ row.answer \in Answer /\ request[r].print \in Answer
    BY DEF Answer, TypeOK
  <1>2. {"run", "read", "busy", "mismatch", "replayed", "store", "release", "ran", "refused",
         "dead", "claim"} \subseteq Phase
    BY DEF Phase, Running, Over
  <1>3. UNCHANGED applied => Total' = Total + 0
    BY TotalsStay, SpentNumbers
  <1>4. UNCHANGED faults => FaultTotal' = FaultTotal + 0
    BY TotalsStay, SpentNumbers
  <1>5. Cardinality(In(Ahead)) \in Nat
    BY SpentNumbers
  <1>6. Open' \/ ~Open'
    OBVIOUS
  <1>7. CASE \E p \in Fingerprint : Send(r, p)
    <2>1. Steps(r, "claim")
      BY <1>7 DEF Steps, Send, TypeOK
    <2>2. request[r].phase \in Over /\ UNCHANGED <<row, applied, faults>>
      BY <1>7 DEF Send
    <2> QED
      BY <2>1, <2>2, AsideCost DEF Over, Ahead, Running
  <1>8. CASE Claim(r) /\ Claimable
    <2>1. Steps(r, "run") /\ request[r].phase = "claim" /\ UNCHANGED <<applied, faults>>
      BY <1>1, <1>2, <1>8, StepMoves DEF Claim
    <2>2. row' = Pending(request[r].print)
      BY <1>8 DEF Claim
    <2>3. Open
      BY <1>8 DEF Claimable, Open
    <2>4. ~Open'
      <3>1. In(Running)' # {}
        BY <2>1, InAfter DEF Running
      <3>2. row'.state = "pending" /\ row'.age = "fresh"
        BY <2>2 DEF Pending, NoRow
      <3> QED
        BY <3>1, <3>2 DEF Open
    <2>5. Cardinality(In(Ahead))' = Cardinality(In(Ahead)) + 1
      BY <1>5, <2>1, AheadAfter DEF Ahead
    <2>6. Cost(0, 0, 1, -1)
      BY <1>3, <1>4, <2>1, <2>3, <2>4, <2>5 DEF Cost
    <2> QED
      BY <2>6, SpentStays
  <1>9. CASE (Claim(r) /\ ~Claimable) \/ Read(r)
    <2>1. /\ UNCHANGED <<row, applied, faults>>
          /\ request[r].phase \in {"claim", "read"}
      BY <1>9 DEF Claim, Read
    <2>2. \E phase \in {"read", "mismatch", "busy", "replayed", "claim"} : Steps(r, phase)
      <3>1. CASE Claim(r) /\ ~Claimable
        BY <1>1, <1>2, <3>1, StepMoves DEF Claim
      <3>2. CASE Read(r) /\ row.state # "none"
        <4>1. Moves(r, "mismatch") \/ Moves(r, "busy") \/ Gets(r, "replayed", row.answer)
          BY <3>2 DEF Read, decideExisting
        <4> QED
          BY <1>1, <1>2, <4>1, StepMoves
      <3>3. CASE Read(r) /\ row.state = "none"
        <4>1. PICK phase \in {"claim", "busy"} :
                 request' = [request EXCEPT ![r].left = request[r].left - 1, ![r].phase = phase]
          BY <3>3 DEF Read
        <4>2. Steps(r, phase)
          BY <4>1 DEF Steps, TypeOK
        <4> QED
          BY <4>2
      <3> QED
        BY <1>9, <3>1, <3>2, <3>3
    <2>3. PICK phase \in {"read", "mismatch", "busy", "replayed", "claim"} : Steps(r, phase)
      BY <2>2
    <2>4. /\ phase \in Ahead <=> request[r].phase \in Ahead
          /\ phase \in Running <=> request[r].phase \in Running
      BY <2>1 DEF Ahead, Running
    <2> QED
      BY <2>1, <2>3, <2>4, AsideCost
  <1>10. CASE Succeed(r)
    <2>1. Steps(r, "store") /\ request[r].phase = "run" /\ UNCHANGED <<row, faults>>
      BY <1>1, <1>2, <1>10, StepMoves DEF Succeed
    <2>2. Total' = Total + 1
      BY <1>10, <2>1, ChangeCounts DEF Succeed, Sent
    <2>3. Cardinality(In(Ahead))' = Cardinality(In(Ahead)) + -1
      BY <1>5, <2>1, AheadAfter DEF Ahead
    <2>4. Open' => Open
      BY <2>1, OpenAside DEF Running
    <2>5. Cost(1, 0, -1, 0)
      BY <1>4, <2>1, <2>2, <2>3, <2>4 DEF Cost
    <2> QED
      BY <2>5, SpentStays
  <1>11. CASE Refuse(r)
    <2>1. Steps(r, "release") /\ request[r].phase = "run" /\ UNCHANGED <<row, applied, faults>>
      BY <1>1, <1>2, <1>11, StepMoves DEF Refuse
    <2> QED
      BY <2>1, AsideCost DEF Ahead, Running
  <1>12. CASE FailLate(r)
    <2>1. Steps(r, "release") /\ request[r].phase = "run" /\ UNCHANGED row
      BY <1>1, <1>2, <1>12, StepMoves DEF FailLate
    <2>2. Total' = Total + 1 /\ FaultTotal' = FaultTotal + 1
      BY <1>12, <2>1, ChangeCounts, FaultCounts DEF FailLate, Sent, FaultKind
    <2>3. Cardinality(In(Ahead))' = Cardinality(In(Ahead)) + 0
      BY <1>5, <2>1, AheadAfter DEF Ahead
    <2>4. Open' => Open
      BY <2>1, OpenAside DEF Running
    <2>5. Cost(1, 1, 0, 0)
      BY <2>2, <2>3, <2>4 DEF Cost
    <2> QED
      BY <2>5, SpentStays
  <1>13. CASE Store(r)
    <2>1. Steps(r, "ran") /\ request[r].phase = "store" /\ UNCHANGED <<applied, faults>>
      BY <1>1, <1>2, <1>13, StepMoves DEF Store
    <2>2. \/ row' = row /\ row.state = "none"
          \/ row'.state = "done" /\ row'.age = row.age
      BY <1>13 DEF Store, TypeOK
    <2>3. Open' => Open
      BY <2>2 DEF Open
    <2>4. Cardinality(In(Ahead))' = Cardinality(In(Ahead)) + 0
      BY <1>5, <2>1, AheadAfter DEF Ahead
    <2>5. Cost(0, 0, 0, 0)
      BY <1>3, <1>4, <2>1, <2>3, <2>4 DEF Cost
    <2> QED
      BY <2>5, SpentStays
  <1>14. CASE Release(r) \/ (Die(r) /\ request[r].phase \in Ahead)
    <2>1. PICK phase \in {"refused", "dead"} : Steps(r, phase)
      BY <1>1, <1>2, <1>14, StepMoves DEF Release, Die
    <2>2. request[r].phase \in Ahead /\ UNCHANGED <<applied, faults>>
      BY <1>14 DEF Release, Die, Ahead
    <2>3. Cardinality(In(Ahead))' = Cardinality(In(Ahead)) + -1
      BY <1>5, <2>1, <2>2, AheadAfter DEF Ahead
    <2>4. Cost(0, 0, -1, 1)
      BY <1>3, <1>4, <2>2, <2>3 DEF Cost
    <2> QED
      BY <2>4, SpentStays
  <1>15. CASE Die(r) /\ request[r].phase \notin Ahead
    <2>1. Steps(r, "dead") /\ request[r].phase \in {"claim", "read"} /\ UNCHANGED <<row, applied, faults>>
      BY <1>1, <1>2, <1>15, StepMoves DEF Die, Ahead
    <2> QED
      BY <2>1, AsideCost DEF Ahead, Running
  <1>16. CASE LoseAnswer(r)
    <2>1. Steps(r, "dead") /\ request[r].phase = "store" /\ UNCHANGED applied
      BY <1>1, <1>2, <1>16, StepMoves DEF LoseAnswer
    <2>2. FaultTotal' = FaultTotal + 1
      BY <1>16, FaultCounts DEF LoseAnswer, FaultKind
    <2>3. Cardinality(In(Ahead))' = Cardinality(In(Ahead)) + 0
      BY <1>5, <2>1, AheadAfter DEF Ahead
    <2>4. Cost(0, 1, 0, 1)
      BY <1>3, <2>1, <2>2, <2>3 DEF Cost
    <2> QED
      BY <2>4, SpentStays
  <1> QED
    BY <1>7, <1>8, <1>9, <1>10, <1>11, <1>12, <1>13, <1>14, <1>15, <1>16 DEF Claims, Answers

(* Time opens the row as a fault, or finds it open. *)
LEMMA SpentTimeStep ==
    ASSUME TypeOK, Sizes, Spent, GoStale \/ Expire \/ Prune \/ UNCHANGED vars
    PROVE  Spent'
  <1>1. UNCHANGED <<request, applied>>
    BY DEF GoStale, Expire, Prune, vars
  <1>2. In(Ahead)' = In(Ahead) /\ In(Running)' = In(Running)
    BY <1>1 DEF In
  <1>3. Cardinality(In(Ahead))' = Cardinality(In(Ahead)) + 0
    BY <1>2, SpentNumbers
  <1>4. Total' = Total + 0
    BY <1>1, TotalsStay, SpentNumbers
  <1>5. CASE Fault("slow") \/ Fault("expire")
    <2>1. FaultTotal' = FaultTotal + 1
      BY <1>5, FaultCounts DEF FaultKind
    <2>2. Cost(0, 1, 0, 1)
      BY <1>3, <1>4, <2>1 DEF Cost
    <2> QED
      BY <2>2, SpentStays
  <1>6. CASE UNCHANGED faults /\ (Open' => Open)
    <2>1. FaultTotal' = FaultTotal + 0
      BY <1>6, TotalsStay, SpentNumbers
    <2>2. Cost(0, 0, 0, 0)
      BY <1>3, <1>4, <1>6, <2>1 DEF Cost
    <2> QED
      BY <2>2, SpentStays
  <1>7. CASE GoStale
    BY <1>5, <1>6, <1>7 DEF GoStale, Open
  <1>8. CASE Expire
    BY <1>5, <1>6, <1>8 DEF Expire, Open
  <1>9. CASE Prune
    BY <1>6, <1>9 DEF Prune, Open
  <1>10. CASE UNCHANGED vars
    BY <1>2, <1>6, <1>10 DEF vars, Open
  <1> QED
    BY <1>7, <1>8, <1>9, <1>10

(* However often it is sent, and whatever is lost, dies, grows old or runs late: what
   a change is applied more than once for has a fault of its own, for any number of
   requests and of changes. *)
THEOREM EveryExtraHasAFault ==
    ASSUME IsFiniteSet(Request), IsFiniteSet(Fingerprint)
    PROVE  Spec => []AppliedBounded
  <1>1. Sizes
    BY DEF Sizes
  <1>2. Init => Spent
    BY <1>1, SpentInit
  <1>3. IInv /\ Spent /\ [Next]_vars => Spent'
    BY <1>1, SpentRequestStep, SpentTimeStep DEF IInv, Next
  <1>4. IInv /\ Spent => AppliedBounded
    <2> SUFFICES ASSUME IInv, Spent PROVE AppliedBounded
      OBVIOUS
    <2>1. Total \in Nat /\ FaultTotal \in Nat /\ Cardinality(In(Ahead)) \in Nat
      BY <1>1, SpentNumbers DEF IInv
    <2>2. PICK a, o \in Nat : a = Cardinality(In(Ahead)) /\ o = (IF Open THEN 1 ELSE 0)
      BY <2>1
    <2>3. Total + a + o <= 1 + FaultTotal
      BY <2>2 DEF Spent
    <2> QED
      BY <2>1, <2>2, <2>3 DEF AppliedBounded
  <1> QED
    BY <1>2, <1>3, <1>4, Invariant, PTL DEF Spec

-----------------------------------------------------------------------------
(* Portal notices *)
NoticeStatus == {"absent", "pending", "sent", "skipped", "failed"}
PassAt == {"idle", "collect", "collecting", "list", "deliver", "mailing", "accepted", "refused"}
NoticeRow == [status : NoticeStatus, attempts : 0 .. MailTries, sentAt : 0 .. MaxClock]
APass == [at : PassAt, now : 0 .. MaxClock, old : Nat, round : Nat, done : Nat, upto : Nat,
          new : SUBSET (Follower \X Milestone), mail : SUBSET Follower, skip : SUBSET Follower,
          to : SUBSET Follower, held : SUBSET Milestone]

NoticesTyped ==
    /\ log \in Seq(Milestone \cup {Quiet}) /\ Len(log) <= MaxEvents
    /\ aged \in 0 .. Len(log)
    /\ clock \in 0 .. MaxClock
    /\ cursor = Unset \/ cursor \in 0 .. Len(log)
    /\ first \in 0 .. MaxEvents + 1
    /\ grant \in [Follower -> {"on", "off"}]
    /\ since \in [Follower -> 0 .. MaxEvents]
    /\ notice \in [Follower -> [Milestone -> NoticeRow]]
    /\ pass \in [Notifier -> APass]
    /\ mails \in [Follower -> [Milestone -> Nat]]
    /\ unrecorded \in [Follower -> [Milestone -> Nat]]
    /\ mailings \in [Notifier -> [Follower -> [0 .. MaxClock -> Nat]]]

Mailing(p) == p.at \in {"mailing", "accepted", "refused"}

(* A pass that mails holds notices of one person, whom it will not come to again. *)
Shaped(p) ==
    /\ Mailing(p) => p.held # {} /\ \E g \in Follower : p.to = {g} /\ g \notin p.mail
    /\ ~Mailing(p) => p.to = {} /\ p.held = {}

(* Whoever may still be tried has a try left. *)
TriesLeft ==
    \A g \in Follower : \A m \in Milestone :
        notice[g][m].status \in {"absent", "pending"} => notice[g][m].attempts < MailTries

Holds(r, g, m) == pass[r].to = {g} /\ m \in pass[r].held

Locked ==
    \A g \in Follower : \A m \in Milestone : \A r \in Notifier :
        Holds(r, g, m) => /\ notice[g][m].status = "pending"
                          /\ \A s \in Notifier : Holds(s, g, m) => s = r

Accepted(g, m) == \E r \in Notifier : Holds(r, g, m) /\ pass[r].at = "accepted"

Counted ==
    \A g \in Follower : \A m \in Milestone :
        mails[g][m] = unrecorded[g][m] +
            IF notice[g][m].status = "sent" \/ Accepted(g, m) THEN 1 ELSE 0

Due(g, i) == g \in Followers /\ i > aged /\ i > since[g] /\ log[i] # Quiet

Collected ==
    /\ \A r, s \in Notifier : pass[r].at = "collecting" /\ pass[s].at = "collecting" => r = s
    /\ \A r \in Notifier : pass[r].at \in {"collect", "collecting"} => pass[r].old <= aged
    /\ \A r \in Notifier : pass[r].at = "collecting" =>
          /\ cursor # Unset
          /\ cursor <= pass[r].done /\ pass[r].done <= pass[r].upto /\ pass[r].upto <= Len(log)
          /\ \A g \in Follower : \A i \in cursor + 1 .. pass[r].done :
                Due(g, i) => <<g, log[i]>> \in pass[r].new
    /\ cursor # Unset =>
          \A g \in Follower : \A i \in first + 1 .. cursor : Due(g, i) => notice[g][log[i]] # Absent

(* A mail that was recorded left a notice that says so; whom a pass has yet to mail got
   none from this server in the interval the pass began in. *)
Waiting(p) == p.mail \cup p.to

Throttled ==
    \A r \in Notifier : \A g \in Follower :
        /\ \A t \in 0 .. MaxClock :
             /\ mailings[r][g][t] <= 1
             /\ mailings[r][g][t] = 1 => \E m \in Milestone : notice[g][m].status = "sent" /\ notice[g][m].sentAt = t
        /\ (pass[r].at = "deliver" \/ Mailing(pass[r])) /\ g \in Waiting(pass[r]) => mailings[r][g][pass[r].now] = 0

NoticesInv ==
    NoticesTyped /\ (\A r \in Notifier : Shaped(pass[r])) /\ TriesLeft /\ Locked /\ Counted /\ Collected /\ Throttled

(* What no step undoes: a notice that was sent stays as it is, and none goes away. *)
KeepsNotices ==
    \A g \in Follower : \A m \in Milestone :
        /\ notice[g][m].status = "sent" => notice'[g][m] = notice[g][m]
        /\ notice[g][m] # Absent => notice'[g][m] # Absent

(* One pass goes on. *)
Goes(r, p) == pass' = [pass EXCEPT ![r] = p]

-----------------------------------------------------------------------------
(* What follows from how one pass goes on, whatever it does. *)

LEMMA PassGoes ==
    ASSUME NoticesInv, NEW r \in Notifier, NEW p \in APass, Shaped(p), Goes(r, p)
    PROVE  /\ pass' \in [Notifier -> APass]
           /\ pass'[r] = p
           /\ \A s \in Notifier \ {r} : pass'[s] = pass[s]
           /\ (\A s \in Notifier : Shaped(pass[s]))'
  <1>1. pass \in [Notifier -> APass]
    BY DEF NoticesInv, NoticesTyped
  <1>2. /\ pass' \in [Notifier -> APass] /\ pass'[r] = p
        /\ \A s \in Notifier \ {r} : pass'[s] = pass[s]
    BY <1>1 DEF Goes
  <1>3. \A s \in Notifier : Shaped(pass'[s])
    BY <1>2 DEF NoticesInv
  <1>4. (\A s \in Notifier : Shaped(pass[s]))' <=> \A s \in Notifier : Shaped(pass'[s])
    BY DEF Shaped, Mailing
  <1> QED
    BY <1>2, <1>3, <1>4

(* Locks: nothing new is held, and what others hold is left alone. *)
LEMMA LocksAside ==
    ASSUME NoticesInv, NEW r \in Notifier, NEW p \in APass, Shaped(p), Goes(r, p),
           p.to # {} => p.to = pass[r].to /\ p.held = pass[r].held,
           \A s \in Notifier : \A g \in Follower : \A m \in Milestone :
               Holds(s, g, m) /\ (s # r \/ p.to # {}) => notice'[g][m] = notice[g][m]
    PROVE  Locked'
  <1>1. pass'[r] = p /\ \A s \in Notifier \ {r} : pass'[s] = pass[s]
    BY PassGoes
  <1>2. ASSUME NEW s \in Notifier, NEW g \in Follower, NEW m \in Milestone, Holds(s, g, m)'
        PROVE  Holds(s, g, m) /\ (s # r \/ p.to # {})
    BY <1>1, <1>2 DEF Holds
  <1>3. SUFFICES ASSUME NEW g \in Follower, NEW m \in Milestone, NEW s \in Notifier, Holds(s, g, m)'
                 PROVE  /\ notice'[g][m].status = "pending"
                        /\ \A u \in Notifier : Holds(u, g, m)' => u = s
    BY DEF Locked
  <1>4. Holds(s, g, m) /\ notice'[g][m] = notice[g][m]
    BY <1>2, <1>3
  <1>5. notice[g][m].status = "pending" /\ \A u \in Notifier : Holds(u, g, m) => u = s
    BY <1>4 DEF NoticesInv, Locked
  <1> QED
    BY <1>2, <1>4, <1>5

(* Counts: no mail was accepted, and none recorded. *)
LEMMA CountsAside ==
    ASSUME NoticesInv, NEW r \in Notifier, NEW p \in APass, Shaped(p), Goes(r, p),
           p.at # "accepted", pass[r].at # "accepted",
           mails' = mails, unrecorded' = unrecorded,
           \A g \in Follower : \A m \in Milestone :
               notice'[g][m].status = "sent" <=> notice[g][m].status = "sent"
    PROVE  Counted'
  <1>1. pass'[r] = p /\ \A s \in Notifier \ {r} : pass'[s] = pass[s]
    BY PassGoes
  <1>2. \A s \in Notifier, g \in Follower, m \in Milestone :
           Holds(s, g, m)' /\ pass'[s].at = "accepted" <=> Holds(s, g, m) /\ pass[s].at = "accepted"
    BY <1>1 DEF Holds
  <1>3. \A g \in Follower, m \in Milestone : Accepted(g, m)' <=> Accepted(g, m)
    BY <1>2 DEF Accepted
  <1> QED
    BY <1>3 DEF NoticesInv, Counted

(* The cursor: the pass does not collect. *)
LEMMA CollectsAside ==
    ASSUME NoticesInv, NEW r \in Notifier, NEW p \in APass, Shaped(p), Goes(r, p),
           p.at \notin {"collect", "collecting"},
           log' = log, aged' = aged, grant' = grant, since' = since, cursor' = cursor, first' = first,
           KeepsNotices
    PROVE  Collected'
  <1>1. pass'[r] = p /\ \A s \in Notifier \ {r} : pass'[s] = pass[s]
    BY PassGoes
  <1>2. \A s \in Notifier : pass'[s].at \in {"collect", "collecting"} => pass'[s] = pass[s]
    BY <1>1
  <1>3. \A g, i : Due(g, i)' <=> Due(g, i)
    BY DEF Due, Followers
  <1>4. \A s \in Notifier : pass'[s].at = "collecting" =>
          /\ cursor # Unset
          /\ cursor <= pass'[s].done /\ pass'[s].done <= pass'[s].upto /\ pass'[s].upto <= Len(log)
          /\ \A g \in Follower : \A i \in cursor + 1 .. pass'[s].done :
                Due(g, i)' => <<g, log[i]>> \in pass'[s].new
    BY <1>2, <1>3 DEF NoticesInv, Collected
  <1>5. \A s, u \in Notifier : pass'[s].at = "collecting" /\ pass'[u].at = "collecting" => s = u
    BY <1>2 DEF NoticesInv, Collected
  <1>6. \A s \in Notifier : pass'[s].at \in {"collect", "collecting"} => pass'[s].old <= aged'
    BY <1>2 DEF NoticesInv, Collected
  <1>7. ASSUME cursor # Unset, NEW g \in Follower, NEW i \in first + 1 .. cursor, Due(g, i)'
        PROVE  notice'[g][log[i]] # Absent
    <2>1. notice[g][log[i]] # Absent
      BY <1>3, <1>7 DEF NoticesInv, Collected
    <2>2. first \in Nat /\ cursor \in 0 .. Len(log) /\ log \in Seq(Milestone \cup {Quiet})
      BY <1>7, NotifierAssumption DEF NoticesInv, NoticesTyped
    <2>3. log[i] \in Milestone
      BY <1>3, <1>7, <2>2 DEF Due
    <2> QED
      BY <2>1, <2>3 DEF KeepsNotices
  <1> QED
    BY <1>4, <1>5, <1>6, <1>7, Unset' = Unset DEF Collected, Unset

(* The throttle: the pass has nobody more to mail than before. *)
LEMMA ThrottlesAside ==
    ASSUME NoticesInv, NEW r \in Notifier, NEW p \in APass, Shaped(p), Goes(r, p),
           mailings' = mailings, KeepsNotices,
           p.at = "deliver" \/ Mailing(p) =>
               /\ pass[r].at = "deliver" \/ Mailing(pass[r])
               /\ p.now = pass[r].now
               /\ Waiting(p) \subseteq Waiting(pass[r])
    PROVE  Throttled'
  <1>1. pass'[r] = p /\ \A s \in Notifier \ {r} : pass'[s] = pass[s]
    BY PassGoes
  <1>2. ASSUME NEW s \in Notifier, NEW g \in Follower, NEW t \in 0 .. MaxClock
        PROVE  /\ mailings[s][g][t] <= 1
               /\ mailings[s][g][t] = 1 =>
                     \E m \in Milestone : notice'[g][m].status = "sent" /\ notice'[g][m].sentAt = t
    BY DEF NoticesInv, Throttled, KeepsNotices
  <1>3. ASSUME NEW s \in Notifier, NEW g \in Follower,
               pass'[s].at = "deliver" \/ Mailing(pass'[s]), g \in Waiting(pass'[s])
        PROVE  mailings[s][g][pass'[s].now] = 0
    <2>1. CASE s # r
      BY <1>1, <1>3, <2>1 DEF NoticesInv, Throttled
    <2>2. CASE s = r
      <3>1. /\ pass[r].at = "deliver" \/ Mailing(pass[r])
            /\ g \in Waiting(pass[r]) /\ pass'[r].now = pass[r].now
        BY <1>1, <1>3, <2>2
      <3> QED
        BY <2>2, <3>1 DEF NoticesInv, Throttled
    <2> QED
      BY <2>1, <2>2
  <1>4. \A s \in Notifier : (Mailing(pass[s]))' = Mailing(pass'[s]) /\ (Waiting(pass[s]))' = Waiting(pass'[s])
    BY DEF Mailing, Waiting
  <1> QED
    BY <1>2, <1>3, <1>4 DEF Throttled

-----------------------------------------------------------------------------
(* The passes, action by action. *)

PassStays == pass' = pass

LEMMA NoticesInit == PortalInit => NoticesInv
  <1> SUFFICES ASSUME PortalInit PROVE NoticesInv
    OBVIOUS
  <1>1. Absent \in NoticeRow /\ Idle \in APass /\ Shaped(Idle) /\ ~Mailing(Idle)
    BY NotifierAssumption DEF Absent, NoticeRow, NoticeStatus, Idle, APass, PassAt, Shaped, Mailing
  <1>2. NoticesTyped
    <2>1. log \in Seq(Milestone \cup {Quiet}) /\ Len(log) = 0
      BY DEF PortalInit
    <2> QED
      BY <1>1, <2>1, NotifierAssumption DEF PortalInit, NoticesTyped, Unset
  <1>3. \A r \in Notifier : Shaped(pass[r])
    BY <1>1 DEF PortalInit
  <1>4. TriesLeft
    BY NotifierAssumption DEF PortalInit, TriesLeft, Absent
  <1>5. Locked /\ \A g \in Follower, m \in Milestone : ~Accepted(g, m)
    BY DEF PortalInit, Locked, Holds, Accepted, Idle
  <1>6. Counted
    <2>1. \A g \in Follower, m \in Milestone :
             mails[g][m] = 0 /\ unrecorded[g][m] = 0 /\ notice[g][m].status # "sent"
      BY DEF PortalInit, Absent
    <2> QED
      BY <1>5, <2>1 DEF Counted
  <1>7. Collected
    BY DEF PortalInit, Collected, Idle
  <1>8. Throttled
    BY DEF PortalInit, Throttled, Idle, Mailing
  <1> QED
    BY <1>2, <1>3, <1>4, <1>5, <1>6, <1>7, <1>8 DEF NoticesInv

(* The log, the time and the switches. *)
LEMMA OutsideStep ==
    ASSUME NoticesInv, Publishes \/ DayPasses \/ IntervalPasses \/ \E g \in Follower : SetNotify(g)
    PROVE  NoticesInv'
  <1>0. /\ pass' = pass /\ notice' = notice /\ cursor' = cursor /\ first' = first
        /\ mails' = mails /\ unrecorded' = unrecorded /\ mailings' = mailings
    BY DEF Publishes, DayPasses, IntervalPasses, SetNotify, counted
  <1>1. NoticesTyped
    BY DEF NoticesInv
  <1>2. /\ log' \in Seq(Milestone \cup {Quiet}) /\ Len(log) <= Len(log') /\ Len(log') <= MaxEvents
        /\ \A i \in 1 .. Len(log) : log'[i] = log[i]
    <2>1. CASE Publishes
      <3>1. PICK m \in Milestone \cup {Quiet} : log' = Append(log, m)
        BY <2>1 DEF Publishes
      <3>2. log' \in Seq(Milestone \cup {Quiet})
        BY <3>1, <1>1 DEF NoticesTyped
      <3>3. Len(log') = Len(log) + 1 /\ \A i \in 1 .. Len(log) : log'[i] = log[i]
        BY <3>1, <1>1 DEF NoticesTyped
      <3>4. Len(log) < MaxEvents /\ MaxEvents \in Nat /\ Len(log) \in Nat
        BY <2>1, <1>1, NotifierAssumption DEF Publishes, NoticesTyped
      <3> QED
        BY <3>2, <3>3, <3>4
    <2>2. CASE ~Publishes
      <3>1. log' = log
        BY <2>2 DEF DayPasses, IntervalPasses, SetNotify
      <3> QED
        BY <3>1, <1>1 DEF NoticesTyped
    <2> QED
      BY <2>1, <2>2
  <1>3. aged <= aged' /\ aged' \in 0 .. Len(log')
    BY <1>1, <1>2 DEF NoticesTyped, Publishes, DayPasses, IntervalPasses, SetNotify
  <1>4. clock' \in 0 .. MaxClock
    BY <1>1, NotifierAssumption DEF NoticesTyped, Publishes, DayPasses, IntervalPasses, SetNotify
  <1>5. grant' \in [Follower -> {"on", "off"}] /\ since' \in [Follower -> 0 .. MaxEvents]
    <2>1. CASE \E g \in Follower : SetNotify(g)
      <3>1. PICK g \in Follower : SetNotify(g)
        BY <2>1
      <3>2. Len(log) \in 0 .. MaxEvents /\ 0 \in 0 .. MaxEvents
        BY <1>1, NotifierAssumption DEF NoticesTyped
      <3>3. PICK w \in {"on", "off"}, n \in 0 .. MaxEvents :
               grant' = [grant EXCEPT ![g] = w] /\ since' = [since EXCEPT ![g] = n]
        BY <3>1, <3>2 DEF SetNotify
      <3> QED
        BY <3>3, <1>1 DEF NoticesTyped
    <2>2. CASE ~\E g \in Follower : SetNotify(g)
      BY <2>2, <1>1 DEF NoticesTyped, Publishes, DayPasses, IntervalPasses
    <2> QED
      BY <2>1, <2>2
  <1>6. NoticesTyped'
    <2>1. cursor' = Unset \/ cursor' \in 0 .. Len(log')
      BY <1>0, <1>1, <1>2 DEF NoticesTyped
    <2>2. Unset' = Unset
      BY DEF Unset
    <2> QED
      BY <1>0, <1>1, <1>2, <1>3, <1>4, <1>5, <2>1, <2>2 DEF NoticesTyped
  <1>7. (\A r \in Notifier : Shaped(pass[r]))' /\ TriesLeft' /\ Locked' /\ Counted' /\ Throttled'
    <2>1. (\A r \in Notifier : Shaped(pass[r]))' /\ TriesLeft' /\ Locked'
      BY <1>0 DEF NoticesInv, Shaped, Mailing, TriesLeft, Locked, Holds
    <2>2. Counted'
      BY <1>0 DEF NoticesInv, Counted, Accepted, Holds
    <2>3. Throttled'
      BY <1>0 DEF NoticesInv, Throttled, Waiting, Mailing
    <2> QED
      BY <2>1, <2>2, <2>3
  <1>8. ASSUME NEW g \in Follower, NEW i \in 1 .. Len(log), Due(g, i)'
        PROVE  Due(g, i) /\ log'[i] = log[i]
    <2>1. log'[i] = log[i] /\ log[i] # Quiet
      BY <1>2, <1>8 DEF Due, Quiet
    <2>2. i > aged
      BY <1>1, <1>3, <1>8 DEF Due, NoticesTyped
    <2>3. grant[g] = "on" /\ i > since[g]
      <3>1. CASE grant' = grant /\ since' = since
        BY <1>8, <3>1 DEF Due, Followers
      <3>2. CASE ~(grant' = grant /\ since' = since)
        <4>1. PICK h \in Follower : SetNotify(h)
          BY <3>2 DEF Publishes, DayPasses, IntervalPasses
        <4>2. CASE h # g
          BY <1>1, <1>8, <4>1, <4>2 DEF Due, Followers, SetNotify, NoticesTyped
        <4>3. CASE h = g /\ grant[g] = "on"
          <5>1. grant'[g] = "off"
            BY <1>1, <4>1, <4>3 DEF SetNotify, NoticesTyped
          <5> QED
            BY <5>1, <1>8 DEF Due, Followers
        <4>4. CASE h = g /\ grant[g] # "on"
          <5>1. since'[g] = Len(log)
            BY <1>1, <4>1, <4>4 DEF SetNotify, NoticesTyped
          <5> QED
            BY <5>1, <1>8 DEF Due
        <4> QED
          BY <4>2, <4>3, <4>4
      <3> QED
        BY <3>1, <3>2
    <2> QED
      BY <2>1, <2>2, <2>3 DEF Due, Followers
  <1>9. Collected'
    <2>1. \A r \in Notifier : pass[r].at \in {"collect", "collecting"} => pass[r].old <= aged'
      <3> SUFFICES ASSUME NEW r \in Notifier, pass[r].at \in {"collect", "collecting"}
                   PROVE  pass[r].old <= aged'
        OBVIOUS
      <3>1. pass[r].old <= aged
        BY DEF NoticesInv, Collected
      <3>2. pass[r].old \in Nat /\ aged \in Nat /\ aged' \in Nat
        BY <1>1, <1>3 DEF NoticesTyped, APass
      <3> QED
        BY <3>1, <3>2, <1>3
    <2>2. ASSUME NEW r \in Notifier, pass[r].at = "collecting"
          PROVE  /\ cursor # Unset
                 /\ cursor <= pass[r].done /\ pass[r].done <= pass[r].upto /\ pass[r].upto <= Len(log')
                 /\ \A g \in Follower : \A i \in cursor + 1 .. pass[r].done :
                       Due(g, i)' => <<g, log'[i]>> \in pass[r].new
      <3>1. /\ cursor # Unset
            /\ cursor <= pass[r].done /\ pass[r].done <= pass[r].upto /\ pass[r].upto <= Len(log)
            /\ \A g \in Follower : \A i \in cursor + 1 .. pass[r].done :
                  Due(g, i) => <<g, log[i]>> \in pass[r].new
        BY <2>2 DEF NoticesInv, Collected
      <3>2. cursor \in Nat /\ pass[r].done \in Nat /\ pass[r].upto \in Nat /\ Len(log) \in Nat /\ Len(log') \in Nat
        BY <1>1, <1>2, <3>1 DEF NoticesTyped, APass
      <3>3. \A i \in cursor + 1 .. pass[r].done : i \in 1 .. Len(log)
        BY <3>1, <3>2
      <3> QED
        BY <3>1, <3>2, <3>3, <1>2, <1>8
    <2>3. ASSUME cursor # Unset, NEW g \in Follower, NEW i \in first + 1 .. cursor, Due(g, i)'
          PROVE  notice[g][log'[i]] # Absent
      <3>1. i \in 1 .. Len(log)
        BY <1>1, <2>3, NotifierAssumption DEF NoticesTyped
      <3> QED
        BY <3>1, <1>8, <2>3 DEF NoticesInv, Collected
    <2>4. \A r, u \in Notifier : pass[r].at = "collecting" /\ pass[u].at = "collecting" => r = u
      BY DEF NoticesInv, Collected
    <2> QED
      BY <1>0, <2>1, <2>2, <2>3, <2>4, Unset' = Unset DEF Collected, Unset, Absent
  <1> QED
    BY <1>6, <1>7, <1>9 DEF NoticesInv

(* What every collection starts from: the pass has mailed nobody, or begins. *)
LEMMA ClockedOK ==
    ASSUME NoticesInv, NEW r \in Notifier, MayCollect(r)
    PROVE  /\ Clocked(r) \in APass /\ Clocked(r).to = {} /\ Clocked(r).held = {}
           /\ Clocked(r).old <= aged
           /\ pass[r].to = {} /\ pass[r].held = {} /\ pass[r].at \notin {"accepted", "collecting"}
  <1>1. pass[r] \in APass /\ Shaped(pass[r]) /\ ~Mailing(pass[r]) /\ pass[r].at \notin {"accepted", "collecting"}
    BY DEF NoticesInv, NoticesTyped, MayCollect, Mailing
  <1>2. pass[r].to = {} /\ pass[r].held = {}
    BY <1>1 DEF Shaped
  <1>3. CASE pass[r].at = "collect"
    <2>1. Clocked(r) = pass[r] /\ pass[r].old <= aged
      BY <1>3 DEF Clocked, NoticesInv, Collected
    <2> QED
      BY <1>1, <1>2, <2>1
  <1>4. CASE pass[r].at # "collect"
    <2>1. clock \in 0 .. MaxClock /\ aged \in Nat
      BY DEF NoticesInv, NoticesTyped
    <2>2. Clocked(r) = [at |-> "idle", now |-> clock, old |-> aged, round |-> 0, done |-> 0, upto |-> 0, new |-> {},
                        mail |-> {}, skip |-> {}, to |-> {}, held |-> {}]
      BY <1>4 DEF Clocked, Idle
    <2>3. Clocked(r) \in APass /\ Clocked(r).to = {} /\ Clocked(r).held = {} /\ Clocked(r).old <= aged
      BY <2>1, <2>2 DEF APass, PassAt
    <2> QED
      BY <1>1, <1>2, <2>3
  <1> QED
    BY <1>3, <1>4

(* A step of one pass that leaves the notices and the counts as they are. *)
LEMMA QuietStep ==
    ASSUME NoticesInv, NEW r \in Notifier, NEW p \in APass, Shaped(p), Goes(r, p),
           p.to = {}, p.at # "accepted", pass[r].at # "accepted",
           notice' = notice, mails' = mails, unrecorded' = unrecorded
    PROVE  Locked' /\ Counted' /\ TriesLeft' /\ KeepsNotices
  <1>1. Locked'
    BY LocksAside
  <1>2. Counted'
    BY CountsAside
  <1>3. TriesLeft' /\ KeepsNotices
    BY DEF NoticesInv, TriesLeft, KeepsNotices
  <1> QED
    BY <1>1, <1>2, <1>3

LEMMA CollectNothingStep ==
    ASSUME NoticesInv, NEW r \in Notifier, CollectNothing(r)
    PROVE  NoticesInv'
  <1>0. NoticesTyped /\ MayCollect(r)
    BY DEF NoticesInv, CollectNothing
  <1>1. PICK p : p = [Clocked(r) EXCEPT !.at = "list", !.round = 0]
    OBVIOUS
  <1>2. /\ p \in APass /\ p.at = "list" /\ p.to = {} /\ p.held = {} /\ ~Mailing(p) /\ Shaped(p)
        /\ pass[r].at # "accepted"
    <2>1. Clocked(r) \in APass /\ Clocked(r).to = {} /\ Clocked(r).held = {}
      BY <1>0, ClockedOK
    <2>2. p \in APass /\ p.at = "list" /\ p.to = {} /\ p.held = {}
      BY <1>1, <2>1 DEF APass, PassAt
    <2> QED
      BY <1>0, <2>2, ClockedOK DEF Shaped, Mailing
  <1>3. /\ Goes(r, p) /\ notice' = notice /\ mails' = mails /\ unrecorded' = unrecorded /\ mailings' = mailings
        /\ log' = log /\ aged' = aged /\ grant' = grant /\ clock' = clock /\ since' = since
    BY <1>1 DEF CollectNothing, Goes, outside, counted
  <1>4. Locked' /\ Counted' /\ TriesLeft' /\ KeepsNotices
    BY <1>2, <1>3, QuietStep
  <1>5. Throttled'
    BY <1>2, <1>3, <1>4, ThrottlesAside
  <1>6. /\ pass' \in [Notifier -> APass] /\ (\A s \in Notifier : Shaped(pass[s]))'
        /\ pass'[r] = p /\ \A s \in Notifier \ {r} : pass'[s] = pass[s]
    BY <1>2, <1>3, PassGoes
  <1>7. /\ cursor' = Unset' \/ cursor' \in 0 .. Len(log)
        /\ first' \in 0 .. MaxEvents + 1
    BY <1>0, NotifierAssumption DEF CollectNothing, NoticesTyped, Unset
  <1>8. NoticesTyped'
    BY <1>0, <1>3, <1>6, <1>7 DEF NoticesTyped
  <1>9. Collected'
    <2>1. CASE cursor' = cursor /\ first' = first
      BY <1>2, <1>3, <1>4, <2>1, CollectsAside
    <2>2. CASE cursor = Unset /\ cursor' = Len(log) /\ first' = Len(log)
      <3>1. \A s \in Notifier : pass'[s].at # "collecting"
        BY <1>2, <1>6, <2>2 DEF NoticesInv, Collected
      <3>2. \A s \in Notifier : pass'[s].at \in {"collect", "collecting"} => pass'[s].old <= aged'
        BY <1>2, <1>3, <1>6 DEF NoticesInv, Collected
      <3>3. first' + 1 .. cursor' = {}
        BY <1>0, <2>2 DEF NoticesTyped
      <3> QED
        BY <3>1, <3>2, <3>3 DEF Collected
    <2> QED
      BY <2>1, <2>2 DEF CollectNothing
  <1> QED
    BY <1>4, <1>5, <1>6, <1>8, <1>9 DEF NoticesInv

LEMMA CollectReadStep ==
    ASSUME NoticesInv, NEW r \in Notifier, CollectRead(r)
    PROVE  NoticesInv'
  <1>0. NoticesTyped /\ MayCollect(r) /\ cursor # Unset /\ \A s \in Notifier : pass[s].at # "collecting"
    BY DEF NoticesInv, CollectRead, CursorFree
  <1>1. PICK p : p = [Clocked(r) EXCEPT !.at = "collecting", !.done = cursor, !.upto = LastRead]
    OBVIOUS
  <1>2. cursor \in Nat /\ LastRead \in Nat /\ cursor <= LastRead /\ LastRead <= Len(log)
    BY <1>0, NotifierAssumption DEF NoticesTyped, LastRead
  <1>3. /\ p \in APass /\ p.at = "collecting" /\ p.to = {} /\ p.held = {} /\ p.old <= aged
        /\ p.done = cursor /\ p.upto = LastRead /\ ~Mailing(p) /\ Shaped(p)
        /\ pass[r].at # "accepted"
    <2>1. /\ Clocked(r) \in APass /\ Clocked(r).to = {} /\ Clocked(r).held = {}
          /\ Clocked(r).old <= aged
      BY <1>0, ClockedOK
    <2>2. /\ p \in APass /\ p.at = "collecting" /\ p.to = {} /\ p.held = {} /\ p.old <= aged
          /\ p.done = cursor /\ p.upto = LastRead
      BY <1>1, <1>2, <2>1 DEF APass, PassAt
    <2> QED
      BY <1>0, <2>2, ClockedOK DEF Shaped, Mailing
  <1>4. /\ Goes(r, p) /\ notice' = notice /\ mails' = mails /\ unrecorded' = unrecorded /\ mailings' = mailings
        /\ log' = log /\ aged' = aged /\ grant' = grant /\ clock' = clock /\ since' = since
        /\ cursor' = cursor /\ first' = first
    BY <1>1 DEF CollectRead, Goes, outside, counted
  <1>5. Locked' /\ Counted' /\ TriesLeft' /\ KeepsNotices
    BY <1>3, <1>4, QuietStep
  <1>6. Throttled'
    BY <1>3, <1>4, <1>5, ThrottlesAside
  <1>7. /\ pass' \in [Notifier -> APass] /\ (\A s \in Notifier : Shaped(pass[s]))'
        /\ pass'[r] = p /\ \A s \in Notifier \ {r} : pass'[s] = pass[s]
    BY <1>3, <1>4, PassGoes
  <1>8. NoticesTyped'
    BY <1>0, <1>4, <1>7 DEF NoticesTyped, Unset
  <1>9. Collected'
    <2>1. \A s \in Notifier : pass'[s].at = "collecting" => s = r
      BY <1>0, <1>7
    <2>2. \A s \in Notifier : pass'[s].at \in {"collect", "collecting"} => pass'[s].old <= aged'
      BY <1>3, <1>4, <1>7 DEF NoticesInv, Collected
    <2>3. cursor + 1 .. p.done = {}
      BY <1>2, <1>3
    <2>4. \A g \in Follower : \A i \in first + 1 .. cursor : Due(g, i)' => notice[g][log[i]] # Absent
      BY <1>0, <1>4 DEF NoticesInv, Collected, Due, Followers
    <2> QED
      BY <1>0, <1>2, <1>3, <1>4, <1>7, <2>1, <2>2, <2>3, <2>4 DEF Collected, Unset, Absent
  <1> QED
    BY <1>5, <1>6, <1>7, <1>8, <1>9 DEF NoticesInv

LEMMA CollectEventStep ==
    ASSUME NoticesInv, NEW r \in Notifier, CollectEvent(r)
    PROVE  NoticesInv'
  <1>0. NoticesTyped /\ pass[r].at = "collecting" /\ pass[r].done < pass[r].upto
    BY DEF NoticesInv, CollectEvent
  <1> DEFINE i == pass[r].done + 1
             more == IF i > pass[r].old /\ log[i] # Quiet
                     THEN pass[r].new \cup (Followers \X {log[i]}) ELSE pass[r].new
  <1>1. PICK p : p = [pass[r] EXCEPT !.done = i, !.new = more]
    OBVIOUS
  <1>2. /\ pass[r] \in APass /\ Shaped(pass[r]) /\ ~Mailing(pass[r]) /\ pass[r].to = {} /\ pass[r].held = {}
        /\ cursor # Unset /\ cursor <= pass[r].done /\ pass[r].upto <= Len(log) /\ pass[r].old <= aged
    <2>1. pass[r] \in APass /\ Shaped(pass[r]) /\ ~Mailing(pass[r])
      BY <1>0 DEF NoticesInv, NoticesTyped, Mailing
    <2>2. pass[r].to = {} /\ pass[r].held = {}
      BY <2>1 DEF Shaped
    <2> QED
      BY <1>0, <2>1, <2>2 DEF NoticesInv, Collected
  <1>3. /\ cursor \in Nat /\ i \in 1 .. Len(log) /\ pass[r].done \in Nat /\ pass[r].upto \in Nat
        /\ pass[r].old \in Nat /\ aged \in Nat
        /\ cursor <= i /\ i <= pass[r].upto
    BY <1>0, <1>2 DEF NoticesTyped, APass
  <1>4. more \in SUBSET (Follower \X Milestone)
    <2>1. log[i] \in Milestone \cup {Quiet}
      BY <1>0, <1>3 DEF NoticesTyped
    <2>2. pass[r].new \subseteq Follower \X Milestone
      BY <1>2 DEF APass
    <2> QED
      BY <2>1, <2>2 DEF Followers
  <1> HIDE DEF more
  <1>5. /\ p \in APass /\ p.at = "collecting" /\ p.to = {} /\ p.held = {} /\ p.old = pass[r].old
        /\ p.done = i /\ p.upto = pass[r].upto /\ p.new = more
    <2>1. i \in Nat
      BY <1>3
    <2> HIDE DEF i
    <2> QED
      BY <1>0, <1>1, <1>2, <1>4, <2>1 DEF APass
  <1>6. ~Mailing(p) /\ Shaped(p)
    BY <1>5 DEF Shaped, Mailing
  <1>7. /\ Goes(r, p) /\ notice' = notice /\ mails' = mails /\ unrecorded' = unrecorded /\ mailings' = mailings
        /\ log' = log /\ aged' = aged /\ grant' = grant /\ clock' = clock /\ since' = since
        /\ cursor' = cursor /\ first' = first
    <2>1. p = [pass[r] EXCEPT !.done = i, !.new = IF i > pass[r].old /\ log[i] # Quiet
                     THEN pass[r].new \cup (Followers \X {log[i]}) ELSE pass[r].new]
      BY <1>1 DEF more
    <2> QED
      BY <2>1 DEF CollectEvent, Goes, outside, counted
  <1>8. Locked' /\ Counted' /\ TriesLeft' /\ KeepsNotices
    BY <1>0, <1>5, <1>6, <1>7, QuietStep
  <1>9. Throttled'
    BY <1>5, <1>6, <1>7, <1>8, ThrottlesAside
  <1>10. /\ pass' \in [Notifier -> APass] /\ (\A s \in Notifier : Shaped(pass[s]))'
         /\ pass'[r] = p /\ \A s \in Notifier \ {r} : pass'[s] = pass[s]
    BY <1>5, <1>6, <1>7, PassGoes
  <1>11. NoticesTyped'
    BY <1>0, <1>7, <1>10 DEF NoticesTyped, Unset
  <1>12. Collected'
    <2>1. \A s \in Notifier : pass'[s].at = "collecting" => s = r
      BY <1>0, <1>5, <1>10 DEF NoticesInv, Collected
    <2>2. \A s \in Notifier : pass'[s].at \in {"collect", "collecting"} => pass'[s].old <= aged'
      BY <1>2, <1>5, <1>7, <1>10 DEF NoticesInv, Collected
    <2>3. \A g, k : Due(g, k)' <=> Due(g, k)
      BY <1>7 DEF Due, Followers
    <2>4. ASSUME NEW g \in Follower, NEW k \in cursor + 1 .. i, Due(g, k)
          PROVE  <<g, log[k]>> \in more
      <3>1. CASE k = i
        <4>1. g \in Followers /\ i > aged /\ log[i] # Quiet
          BY <2>4, <3>1 DEF Due
        <4>2. i > pass[r].old
          BY <1>2, <1>3, <4>1
        <4>3. more = pass[r].new \cup (Followers \X {log[i]})
          BY <4>1, <4>2 DEF more
        <4> HIDE DEF i
        <4> QED
          BY <3>1, <4>1, <4>3
      <3>2. CASE k # i
        <4>1. k \in cursor + 1 .. pass[r].done
          BY <1>3, <3>2
        <4> QED
          BY <1>0, <2>4, <4>1 DEF NoticesInv, Collected, more
      <3> QED
        BY <3>1, <3>2
    <2>5. \A g \in Follower : \A k \in first + 1 .. cursor : Due(g, k) => notice[g][log[k]] # Absent
      BY <1>2 DEF NoticesInv, Collected
    <2> QED
      BY <1>2, <1>3, <1>5, <1>7, <1>10, <2>1, <2>2, <2>3, <2>4, <2>5 DEF Collected, Unset, Absent
  <1> QED
    BY <1>8, <1>9, <1>10, <1>11, <1>12 DEF NoticesInv

LEMMA CollectCommitStep ==
    ASSUME NoticesInv, NEW r \in Notifier, CollectCommit(r)
    PROVE  NoticesInv'
  <1>0. NoticesTyped /\ pass[r].at = "collecting" /\ pass[r].done = pass[r].upto
    BY DEF NoticesInv, CollectCommit
  <1> DEFINE again == pass[r].upto - cursor = BatchSize /\ pass[r].round + 1 < Rounds
             round == IF again THEN pass[r].round + 1 ELSE 0
             at == IF again THEN "collect" ELSE "list"
  <1>1. PICK p : p = [Idle EXCEPT !.now = pass[r].now, !.old = pass[r].old, !.round = round, !.at = at]
    OBVIOUS
  <1>2. /\ pass[r] \in APass /\ ~Mailing(pass[r]) /\ pass[r].to = {} /\ pass[r].held = {}
        /\ cursor # Unset /\ cursor <= pass[r].upto /\ pass[r].upto <= Len(log) /\ pass[r].old <= aged
    <2>1. pass[r] \in APass /\ Shaped(pass[r]) /\ ~Mailing(pass[r])
      BY <1>0 DEF NoticesInv, NoticesTyped, Mailing
    <2>2. pass[r].to = {} /\ pass[r].held = {}
      BY <2>1 DEF Shaped
    <2> QED
      BY <1>0, <2>1, <2>2 DEF NoticesInv, Collected
  <1>3. cursor \in Nat /\ pass[r].upto \in Nat /\ pass[r].upto \in 0 .. Len(log)
    BY <1>0, <1>2 DEF NoticesTyped, APass
  <1>4. round \in Nat /\ at \in {"collect", "list"}
    BY <1>2 DEF APass
  <1>5. /\ Goes(r, p) /\ notice' = WithNew(pass[r].new) /\ cursor' = pass[r].upto
        /\ mails' = mails /\ unrecorded' = unrecorded /\ mailings' = mailings
        /\ log' = log /\ aged' = aged /\ grant' = grant /\ clock' = clock /\ since' = since
        /\ first' = first
    <2>1. pass' = [pass EXCEPT ![r] = [Idle EXCEPT !.now = pass[r].now, !.old = pass[r].old, !.round = round, !.at = at]]
      BY DEF CollectCommit
    <2> QED
      BY <1>1, <2>1 DEF CollectCommit, Goes, outside, counted
  <1> HIDE DEF round, at
  <1>6. p \in APass /\ p.at = at /\ p.to = {} /\ p.held = {} /\ p.old = pass[r].old
    BY <1>1, <1>2, <1>4 DEF APass, PassAt, Idle
  <1>7. ~Mailing(p) /\ Shaped(p) /\ p.at \notin {"collecting", "deliver", "accepted"}
    BY <1>4, <1>6 DEF Shaped, Mailing
  <1>8. /\ pass' \in [Notifier -> APass] /\ (\A s \in Notifier : Shaped(pass[s]))'
        /\ pass'[r] = p /\ \A s \in Notifier \ {r} : pass'[s] = pass[s]
    BY <1>5, <1>6, <1>7, PassGoes
  <1>9. Fresh \in NoticeRow /\ Fresh # Absent /\ Fresh.status = "pending" /\ Fresh.attempts = 0
        /\ Absent.status = "absent"
    BY NotifierAssumption DEF Fresh, Absent, NoticeRow, NoticeStatus
  <1>10. \A g \in Follower : \A m \in Milestone :
            /\ notice'[g][m] = IF <<g, m>> \in pass[r].new /\ notice[g][m] = Absent THEN Fresh ELSE notice[g][m]
            /\ notice[g][m] \in NoticeRow
    BY <1>0, <1>5 DEF WithNew, NoticesTyped
  <1>11. notice' \in [Follower -> [Milestone -> NoticeRow]]
    BY <1>5, <1>9, <1>10 DEF WithNew
  <1>12. KeepsNotices /\ TriesLeft'
    <2>1. KeepsNotices
      BY <1>9, <1>10 DEF KeepsNotices
    <2>2. 0 < MailTries
      BY NotifierAssumption
    <2>3. \A g \in Follower : \A m \in Milestone :
             notice'[g][m] = Fresh \/ notice'[g][m] = notice[g][m]
      BY <1>10
    <2>4. TriesLeft'
      BY <1>9, <2>2, <2>3 DEF TriesLeft, NoticesInv
    <2> QED
      BY <2>1, <2>4
  <1>13. Locked'
    <2>1. \A s \in Notifier : \A g \in Follower : \A m \in Milestone :
             Holds(s, g, m) => notice'[g][m] = notice[g][m]
      BY <1>9, <1>10 DEF NoticesInv, Locked
    <2> QED
      BY <1>5, <1>6, <1>7, <2>1, LocksAside
  <1>14. Counted'
    <2>1. \A g \in Follower : \A m \in Milestone :
             notice'[g][m].status = "sent" <=> notice[g][m].status = "sent"
      BY <1>9, <1>10
    <2> QED
      BY <1>0, <1>5, <1>6, <1>7, <2>1, CountsAside
  <1>15. Throttled'
    BY <1>5, <1>6, <1>7, <1>12, ThrottlesAside
  <1>16. NoticesTyped'
    BY <1>0, <1>3, <1>5, <1>8, <1>11 DEF NoticesTyped, Unset
  <1>17. Collected'
    <2>1. \A s \in Notifier : pass'[s].at # "collecting"
      BY <1>0, <1>7, <1>8 DEF NoticesInv, Collected
    <2>2. \A s \in Notifier : pass'[s].at \in {"collect", "collecting"} => pass'[s].old <= aged'
      BY <1>2, <1>5, <1>6, <1>8 DEF NoticesInv, Collected
    <2>3. \A g, k : Due(g, k)' <=> Due(g, k)
      BY <1>5 DEF Due, Followers
    <2>4. ASSUME NEW g \in Follower, NEW k \in first + 1 .. pass[r].upto, Due(g, k)
          PROVE  notice'[g][log[k]] # Absent
      <3>1. first \in Nat /\ k \in 1 .. Len(log)
        BY <1>0, <1>3, NotifierAssumption DEF NoticesTyped
      <3>2. log[k] \in Milestone
        BY <1>0, <2>4, <3>1 DEF NoticesTyped, Due
      <3>3. CASE k <= cursor
        <4>1. notice[g][log[k]] # Absent
          BY <1>2, <1>3, <2>4, <3>1, <3>3 DEF NoticesInv, Collected
        <4> QED
          BY <1>12, <3>2, <4>1 DEF KeepsNotices
      <3>4. CASE k > cursor
        <4>1. k \in cursor + 1 .. pass[r].done
          BY <1>0, <1>3, <3>1, <3>4
        <4>2. <<g, log[k]>> \in pass[r].new
          BY <1>0, <2>4, <4>1 DEF NoticesInv, Collected
        <4> QED
          BY <1>9, <1>10, <3>2, <4>2
      <3> QED
        BY <1>3, <3>1, <3>3, <3>4
    <2> QED
      BY <1>5, <2>1, <2>2, <2>3, <2>4 DEF Collected, Absent
  <1> QED
    BY <1>8, <1>12, <1>13, <1>14, <1>15, <1>16, <1>17 DEF NoticesInv

(* A pass that has seen to everybody rests; the others go on. *)
LEMMA RestOK ==
    ASSUME NEW p \in APass
    PROVE  /\ Rest(p) \in APass /\ Rest(p).to = {} /\ Rest(p).held = {}
           /\ Rest(p).at \in {"idle", "deliver"} /\ ~Mailing(Rest(p)) /\ Shaped(Rest(p))
           /\ Rest(p).at = "deliver" => Rest(p).now = p.now /\ Rest(p).mail = p.mail
  <1>1. CASE p.mail = {} /\ p.skip = {}
    <2>1. Rest(p) = Idle
      BY <1>1 DEF Rest
    <2>2. Idle \in APass
      BY NotifierAssumption DEF Idle, APass, PassAt
    <2> QED
      BY <2>1, <2>2 DEF Idle, Mailing, Shaped
  <1>2. CASE ~(p.mail = {} /\ p.skip = {})
    <2>1. PICK q : q = [p EXCEPT !.at = "deliver", !.to = {}, !.held = {}]
      OBVIOUS
    <2>2. q \in APass /\ q.at = "deliver" /\ q.to = {} /\ q.held = {} /\ q.now = p.now /\ q.mail = p.mail
      BY <2>1 DEF APass, PassAt
    <2>3. Rest(p) = q
      BY <1>2, <2>1 DEF Rest
    <2> QED
      BY <2>2, <2>3 DEF Mailing, Shaped
  <1> QED
    BY <1>1, <1>2

LEMMA ListDueStep ==
    ASSUME NoticesInv, NEW r \in Notifier, ListDue(r)
    PROVE  NoticesInv'
  <1>0. NoticesTyped /\ pass[r].at = "list" /\ pass[r] \in APass
    BY DEF NoticesInv, ListDue, NoticesTyped
  <1> DEFINE waiting == {g \in Follower : PendingFor(g) # {}}
             active == {g \in waiting : grant[g] = "on"}
             due == {g \in active : DueToSend(g, pass[r].now)}
  <1>1. PICK q : q = [pass[r] EXCEPT !.old = 0, !.mail = due, !.skip = waiting \ active]
    OBVIOUS
  <1>2. PICK p : p = Rest(q)
    OBVIOUS
  <1>3. /\ Goes(r, p) /\ notice' = notice /\ mails' = mails /\ unrecorded' = unrecorded /\ mailings' = mailings
        /\ log' = log /\ aged' = aged /\ grant' = grant /\ clock' = clock /\ since' = since
        /\ cursor' = cursor /\ first' = first
    BY <1>1, <1>2 DEF ListDue, Goes, outside, counted
  <1>4. due \in SUBSET Follower /\ waiting \ active \in SUBSET Follower
        /\ \A g \in due : DueToSend(g, pass[r].now)
    OBVIOUS
  <1> HIDE DEF waiting, active, due
  <1>5. q \in APass /\ q.mail = due /\ q.now = pass[r].now
    BY <1>0, <1>1, <1>4 DEF APass
  <1>6. /\ p \in APass /\ p.to = {} /\ p.held = {} /\ p.at \in {"idle", "deliver"} /\ ~Mailing(p) /\ Shaped(p)
        /\ p.at = "deliver" => p.now = pass[r].now /\ p.mail = due
    BY <1>2, <1>5, RestOK
  <1>7. Locked' /\ Counted' /\ TriesLeft' /\ KeepsNotices
    BY <1>0, <1>3, <1>6, QuietStep
  <1>8. /\ pass' \in [Notifier -> APass] /\ (\A s \in Notifier : Shaped(pass[s]))'
        /\ pass'[r] = p /\ \A s \in Notifier \ {r} : pass'[s] = pass[s]
    BY <1>3, <1>6, PassGoes
  <1>9. NoticesTyped'
    BY <1>0, <1>3, <1>8 DEF NoticesTyped, Unset
  <1>10. Collected'
    BY <1>3, <1>6, <1>7, CollectsAside
  <1>11. ASSUME NEW g \in Follower, p.at = "deliver", g \in Waiting(p)
         PROVE  mailings[r][g][p.now] = 0
    <2>1. g \in due /\ p.now = pass[r].now /\ p.now \in 0 .. MaxClock
      BY <1>0, <1>6, <1>11 DEF Waiting, APass
    <2>2. mailings[r][g][p.now] \in Nat /\ mailings[r][g][p.now] <= 1
      <3>1. mailings[r] \in [Follower -> [0 .. MaxClock -> Nat]] /\ g \in Follower
        BY <1>0 DEF NoticesTyped
      <3>2. mailings[r][g][p.now] <= 1
        BY <2>1 DEF NoticesInv, Throttled
      <3>3. mailings[r][g][p.now] \in Nat
        BY <2>1, <3>1
      <3> QED
        BY <3>2, <3>3
    <2>3. ASSUME mailings[r][g][p.now] = 1 PROVE FALSE
      <3>1. PICK m \in Milestone : notice[g][m].status = "sent" /\ notice[g][m].sentAt = p.now
        BY <2>1, <2>3 DEF NoticesInv, Throttled
      <3>2. p.now \in SentTo(g)
        BY <3>1 DEF SentTo
      <3>3. p.now >= p.now + 1
        BY <1>4, <2>1, <3>2 DEF DueToSend
      <3> QED
        BY <2>1, <3>3, NotifierAssumption
    <2> QED
      BY <2>2, <2>3
  <1>12. Throttled'
    <2>1. \A s \in Notifier : \A g \in Follower :
            /\ \A t \in 0 .. MaxClock :
                 /\ mailings[s][g][t] <= 1
                 /\ mailings[s][g][t] = 1 => \E m \in Milestone : notice[g][m].status = "sent" /\ notice[g][m].sentAt = t
            /\ (pass[s].at = "deliver" \/ Mailing(pass[s])) /\ g \in Waiting(pass[s]) => mailings[s][g][pass[s].now] = 0
      BY DEF NoticesInv, Throttled
    <2>2. \A s \in Notifier : \A g \in Follower :
            (pass'[s].at = "deliver" \/ Mailing(pass'[s])) /\ g \in Waiting(pass'[s]) => mailings[s][g][pass'[s].now] = 0
      BY <1>6, <1>8, <1>11, <2>1
    <2>3. \A s \in Notifier : (Mailing(pass[s]))' = Mailing(pass'[s]) /\ (Waiting(pass[s]))' = Waiting(pass'[s])
      BY DEF Mailing, Waiting
    <2> QED
      BY <1>3, <2>1, <2>2, <2>3 DEF Throttled
  <1> QED
    BY <1>7, <1>8, <1>9, <1>10, <1>12 DEF NoticesInv

LEMMA SkipNoticesStep ==
    ASSUME NoticesInv, NEW r \in Notifier, NEW g \in Follower, SkipNotices(r, g)
    PROVE  NoticesInv'
  <1>0. NoticesTyped /\ pass[r].at = "deliver" /\ pass[r] \in APass /\ pass[r].to = {}
    <2>1. NoticesTyped /\ pass[r].at = "deliver" /\ pass[r] \in APass /\ Shaped(pass[r])
      BY DEF NoticesInv, SkipNotices, NoticesTyped
    <2> QED
      BY <2>1 DEF Shaped, Mailing
  <1>1. PICK q : q = [pass[r] EXCEPT !.skip = @ \ {g}]
    OBVIOUS
  <1>2. PICK p : p = Rest(q)
    OBVIOUS
  <1>3. /\ Goes(r, p) /\ mails' = mails /\ unrecorded' = unrecorded /\ mailings' = mailings
        /\ log' = log /\ aged' = aged /\ grant' = grant /\ clock' = clock /\ since' = since
        /\ cursor' = cursor /\ first' = first
    BY <1>1, <1>2 DEF SkipNotices, Goes, outside, counted
  <1>4. q \in APass /\ q.mail = pass[r].mail /\ q.now = pass[r].now
    BY <1>0, <1>1 DEF APass
  <1>5. /\ p \in APass /\ p.to = {} /\ p.held = {} /\ p.at \in {"idle", "deliver"} /\ ~Mailing(p) /\ Shaped(p)
        /\ p.at = "deliver" => p.now = pass[r].now /\ p.mail = pass[r].mail
    BY <1>2, <1>4, RestOK
  <1>6. notice' = [notice EXCEPT ![g] = [m \in Milestone |->
                     IF m \in PendingFor(g) THEN [notice[g][m] EXCEPT !.status = "skipped"] ELSE notice[g][m]]]
    BY DEF SkipNotices
  <1>7. /\ \A h \in Follower : \A m \in Milestone :
              \/ notice'[h][m] = notice[h][m]
              \/ /\ m \in PendingFor(h) /\ notice'[h][m] = [notice[h][m] EXCEPT !.status = "skipped"]
        /\ \A h \in Follower \ {g} : notice'[h] = notice[h]
    BY <1>0, <1>6 DEF NoticesTyped
  <1>8. \A h \in Follower : \A m \in Milestone : notice[h][m] \in NoticeRow
    BY <1>0 DEF NoticesTyped
  <1>9. \A n \in NoticeRow : [n EXCEPT !.status = "skipped"] \in NoticeRow
                              /\ [n EXCEPT !.status = "skipped"].status = "skipped"
    BY DEF NoticeRow, NoticeStatus
  <1>10. notice' \in [Follower -> [Milestone -> NoticeRow]]
    <2>1. [m \in Milestone |-> IF m \in PendingFor(g) THEN [notice[g][m] EXCEPT !.status = "skipped"]
                               ELSE notice[g][m]] \in [Milestone -> NoticeRow]
      BY <1>8, <1>9
    <2> QED
      BY <1>0, <1>6, <2>1 DEF NoticesTyped
  <1>11. \A h : \A m \in PendingFor(h) : notice[h][m].status = "pending"
    BY DEF PendingFor
  <1>12. KeepsNotices /\ TriesLeft'
    <2>1. KeepsNotices
      <3>1. \A h \in Follower : \A m \in Milestone :
               \/ notice'[h][m] = notice[h][m]
               \/ notice[h][m].status = "pending" /\ notice'[h][m].status = "skipped"
        <4> SUFFICES ASSUME NEW h \in Follower, NEW m \in Milestone, notice'[h][m] # notice[h][m]
                     PROVE  notice[h][m].status = "pending" /\ notice'[h][m].status = "skipped"
          OBVIOUS
        <4>1. m \in PendingFor(h) /\ notice'[h][m] = [notice[h][m] EXCEPT !.status = "skipped"]
          BY <1>7
        <4> QED
          BY <1>8, <1>9, <1>11, <4>1
      <3>2. Absent.status = "absent"
        BY DEF Absent
      <3> QED
        BY <3>1, <3>2 DEF KeepsNotices
    <2>2. TriesLeft'
      <3> SUFFICES ASSUME NEW h \in Follower, NEW m \in Milestone,
                          notice'[h][m].status \in {"absent", "pending"}
                   PROVE  notice'[h][m].attempts < MailTries
        BY DEF TriesLeft
      <3>1. notice'[h][m] = notice[h][m]
        BY <1>7, <1>8, <1>9
      <3> QED
        BY <3>1 DEF TriesLeft, NoticesInv
    <2> QED
      BY <2>1, <2>2
  <1>13. Locked'
    <2>1. ASSUME NEW s \in Notifier, NEW m \in Milestone, Holds(s, g, m)
          PROVE  FALSE
      <3>1. s # r
        BY <1>0, <2>1 DEF Holds
      <3>2. m \in HeldByOthers(r, g)
        BY <2>1, <3>1 DEF Holds, HeldByOthers
      <3>3. m \in PendingFor(g)
        BY <2>1 DEF NoticesInv, Locked, PendingFor
      <3> QED
        BY <3>2, <3>3 DEF SkipNotices
    <2>2. \A s \in Notifier : \A h \in Follower : \A m \in Milestone :
             Holds(s, h, m) => notice'[h][m] = notice[h][m]
      BY <1>7, <2>1
    <2> QED
      BY <1>3, <1>5, <2>2, LocksAside
  <1>14. Counted'
    <2>1. ASSUME NEW h \in Follower, NEW m \in Milestone
          PROVE  notice'[h][m].status = "sent" <=> notice[h][m].status = "sent"
      <3>1. CASE notice'[h][m] = notice[h][m]
        BY <3>1
      <3>2. CASE m \in PendingFor(h) /\ notice'[h][m] = [notice[h][m] EXCEPT !.status = "skipped"]
        <4>1. notice[h][m].status = "pending"
          BY <1>11, <3>2
        <4>2. notice'[h][m].status = "skipped"
          BY <1>8, <1>9, <3>2
        <4> QED
          BY <4>1, <4>2
      <3> QED
        BY <1>7, <3>1, <3>2
    <2> QED
      BY <1>0, <1>3, <1>5, <2>1, CountsAside
  <1>15. Throttled'
    <2>1. p.at = "deliver" \/ Mailing(p) =>
             /\ pass[r].at = "deliver" \/ Mailing(pass[r])
             /\ p.now = pass[r].now
             /\ Waiting(p) \subseteq Waiting(pass[r])
      BY <1>0, <1>5 DEF Waiting
    <2> QED
      BY <1>3, <1>5, <1>12, <2>1, ThrottlesAside
  <1>16. Collected'
    BY <1>3, <1>5, <1>12, CollectsAside
  <1>17. /\ pass' \in [Notifier -> APass] /\ (\A s \in Notifier : Shaped(pass[s]))'
    BY <1>3, <1>5, PassGoes
  <1>18. NoticesTyped'
    BY <1>0, <1>3, <1>10, <1>17 DEF NoticesTyped, Unset
  <1> QED
    BY <1>12, <1>13, <1>14, <1>15, <1>16, <1>17, <1>18 DEF NoticesInv

LEMMA TakeNoticesStep ==
    ASSUME NoticesInv, NEW r \in Notifier, NEW g \in Follower, TakeNotices(r, g)
    PROVE  NoticesInv'
  <1>0. NoticesTyped /\ pass[r].at = "deliver" /\ pass[r] \in APass /\ pass[r].to = {} /\ g \in pass[r].mail
    <2>1. NoticesTyped /\ pass[r].at = "deliver" /\ pass[r] \in APass /\ Shaped(pass[r]) /\ g \in pass[r].mail
      BY DEF NoticesInv, TakeNotices, NoticesTyped
    <2> QED
      BY <2>1 DEF Shaped, Mailing
  <1>1. PICK q : q = [pass[r] EXCEPT !.mail = @ \ {g}]
    OBVIOUS
  <1>2. PICK t : t = [pass[r] EXCEPT !.at = "mailing", !.mail = @ \ {g}, !.to = {g}, !.held = Takes(r, g)]
    OBVIOUS
  <1>3. PICK p : p = IF Takes(r, g) = {} THEN Rest(q) ELSE t
    OBVIOUS
  <1>4. /\ Goes(r, p) /\ notice' = notice /\ mails' = mails /\ unrecorded' = unrecorded /\ mailings' = mailings
        /\ log' = log /\ aged' = aged /\ grant' = grant /\ clock' = clock /\ since' = since
        /\ cursor' = cursor /\ first' = first
    BY <1>1, <1>2, <1>3 DEF TakeNotices, Goes, outside, counted
  <1>5. Takes(r, g) \in SUBSET Milestone
    BY DEF Takes, PendingFor
  <1>6. q \in APass /\ q.mail = pass[r].mail \ {g} /\ q.now = pass[r].now
    BY <1>0, <1>1 DEF APass
  <1>7. /\ t \in APass /\ t.at = "mailing" /\ t.mail = pass[r].mail \ {g} /\ t.to = {g}
        /\ t.held = Takes(r, g) /\ t.now = pass[r].now
    BY <1>0, <1>2, <1>5 DEF APass, PassAt
  <1>8. CASE Takes(r, g) = {}
    <2>1. /\ p \in APass /\ p.to = {} /\ p.held = {} /\ p.at \in {"idle", "deliver"} /\ ~Mailing(p) /\ Shaped(p)
          /\ p.at = "deliver" => p.now = pass[r].now /\ p.mail = pass[r].mail \ {g}
      BY <1>3, <1>6, <1>8, RestOK
    <2>2. Locked' /\ Counted' /\ TriesLeft' /\ KeepsNotices
      BY <1>0, <1>4, <2>1, QuietStep
    <2>3. Throttled'
      <3>1. p.at = "deliver" \/ Mailing(p) =>
               /\ pass[r].at = "deliver" \/ Mailing(pass[r])
               /\ p.now = pass[r].now
               /\ Waiting(p) \subseteq Waiting(pass[r])
        BY <1>0, <2>1 DEF Waiting
      <3> QED
        BY <1>4, <2>1, <2>2, <3>1, ThrottlesAside
    <2>4. Collected'
      BY <1>4, <2>1, <2>2, CollectsAside
    <2>5. /\ pass' \in [Notifier -> APass] /\ (\A s \in Notifier : Shaped(pass[s]))'
      BY <1>4, <2>1, PassGoes
    <2>6. NoticesTyped'
      BY <1>0, <1>4, <2>5 DEF NoticesTyped, Unset
    <2> QED
      BY <2>2, <2>3, <2>4, <2>5, <2>6 DEF NoticesInv
  <1>9. CASE Takes(r, g) # {}
    <2>1. p = t /\ Shaped(p) /\ Mailing(p)
      BY <1>3, <1>7, <1>9 DEF Shaped, Mailing
    <2>2. /\ pass' \in [Notifier -> APass] /\ (\A s \in Notifier : Shaped(pass[s]))'
          /\ pass'[r] = p /\ \A s \in Notifier \ {r} : pass'[s] = pass[s]
      BY <1>4, <1>7, <2>1, PassGoes
    <2>3. KeepsNotices /\ TriesLeft'
      BY <1>4 DEF KeepsNotices, TriesLeft, NoticesInv
    <2>4. Counted'
      BY <1>0, <1>4, <1>7, <2>1, CountsAside
    <2>5. Throttled'
      <3>1. p.now = pass[r].now /\ Waiting(p) \subseteq Waiting(pass[r])
        BY <1>0, <1>7, <2>1 DEF Waiting
      <3> QED
        BY <1>0, <1>4, <1>7, <2>1, <2>3, <3>1, ThrottlesAside
    <2>6. Collected'
      BY <1>4, <1>7, <2>1, <2>3, CollectsAside
    <2>7. Locked'
      <3>1. \A m \in Takes(r, g) : notice[g][m].status = "pending" /\ m \notin HeldByOthers(r, g)
        BY DEF Takes, PendingFor
      <3>2. \A h \in Follower, m \in Milestone : Holds(r, h, m)' => h = g /\ m \in Takes(r, g)
        BY <1>7, <2>1, <2>2 DEF Holds
      <3>3. \A s \in Notifier \ {r} : \A h \in Follower, m \in Milestone : Holds(s, h, m)' <=> Holds(s, h, m)
        BY <2>2 DEF Holds
      <3>4. \A s \in Notifier \ {r} : \A m \in Milestone : Holds(s, g, m) => m \in HeldByOthers(r, g)
        BY DEF Holds, HeldByOthers
      <3> SUFFICES ASSUME NEW h \in Follower, NEW m \in Milestone, NEW s \in Notifier, Holds(s, h, m)'
                   PROVE  /\ notice[h][m].status = "pending"
                          /\ \A u \in Notifier : Holds(u, h, m)' => u = s
        BY <1>4 DEF Locked
      <3>5. CASE s = r
        BY <3>1, <3>2, <3>3, <3>4, <3>5
      <3>6. CASE s # r
        <4>1. Holds(s, h, m)
          BY <3>3, <3>6
        <4>2. ~Holds(r, h, m)'
          BY <3>1, <3>2, <3>4, <3>6, <4>1
        <4> QED
          BY <3>3, <4>1, <4>2 DEF NoticesInv, Locked
      <3> QED
        BY <3>5, <3>6
    <2>8. NoticesTyped'
      BY <1>0, <1>4, <2>2 DEF NoticesTyped, Unset
    <2> QED
      BY <2>2, <2>3, <2>4, <2>5, <2>6, <2>7, <2>8 DEF NoticesInv
  <1> QED
    BY <1>8, <1>9

LEMMA AddOneOK ==
    ASSUME NEW f \in [Follower -> [Milestone -> Nat]], NEW g \in Follower, NEW ms
    PROVE  /\ AddOne(f, g, ms) \in [Follower -> [Milestone -> Nat]]
           /\ \A h \in Follower : \A m \in Milestone :
                 /\ h = g /\ m \in ms => AddOne(f, g, ms)[h][m] = f[h][m] + 1
                 /\ h # g \/ m \notin ms => AddOne(f, g, ms)[h][m] = f[h][m]
  BY DEF AddOne

(* The holder of a notice is the only one that may have had its mail accepted. *)
LEMMA AcceptedByHolder ==
    ASSUME NoticesInv, NEW r \in Notifier, NEW g \in Follower, NEW m \in Milestone, Holds(r, g, m)
    PROVE  /\ notice[g][m].status = "pending"
           /\ Accepted(g, m) <=> pass[r].at = "accepted"
           /\ \A s \in Notifier \ {r} : ~Holds(s, g, m)
  BY DEF NoticesInv, Locked, Accepted

LEMMA MailsStep ==
    ASSUME NoticesInv, NEW r \in Notifier, Mails(r)
    PROVE  NoticesInv'
  <1>0. NoticesTyped /\ pass[r].at = "mailing" /\ pass[r] \in APass /\ Shaped(pass[r]) /\ Mailing(pass[r])
    BY DEF NoticesInv, Mails, NoticesTyped, Mailing
  <1>1. PICK g \in Follower : pass[r].to = {g}
    BY <1>0 DEF Shaped
  <1>2. /\ notice' = notice /\ mailings' = mailings
        /\ log' = log /\ aged' = aged /\ grant' = grant /\ clock' = clock /\ since' = since
        /\ cursor' = cursor /\ first' = first
    BY DEF Mails, outside
  <1>3. PICK at \in {"accepted", "refused"} :
           /\ pass' = [pass EXCEPT ![r].at = at]
           /\ \/ at = "accepted" /\ mails' = AddOne(mails, g, pass[r].held) /\ unrecorded' = unrecorded
              \/ at = "refused" /\ mails' = mails /\ unrecorded' = unrecorded
              \/ /\ at = "refused" /\ mails' = AddOne(mails, g, pass[r].held)
                 /\ unrecorded' = AddOne(unrecorded, g, pass[r].held)
    BY <1>1 DEF Mails
  <1>4. PICK p : p = [pass[r] EXCEPT !.at = at] /\ Goes(r, p)
    BY <1>3 DEF Goes
  <1>5. /\ p \in APass /\ p.at = at /\ p.to = pass[r].to /\ p.held = pass[r].held
        /\ p.mail = pass[r].mail /\ p.now = pass[r].now
    BY <1>0, <1>4 DEF APass, PassAt
  <1>6. Mailing(p) /\ Shaped(p)
    BY <1>0, <1>5 DEF Shaped, Mailing
  <1>7. /\ pass' \in [Notifier -> APass] /\ (\A s \in Notifier : Shaped(pass[s]))'
        /\ pass'[r] = p /\ \A s \in Notifier \ {r} : pass'[s] = pass[s]
    BY <1>4, <1>5, <1>6, PassGoes
  <1>8. KeepsNotices /\ TriesLeft'
    BY <1>2 DEF KeepsNotices, TriesLeft, NoticesInv
  <1>9. Locked'
    BY <1>2, <1>4, <1>5, <1>6, LocksAside
  <1>10. Collected'
    BY <1>2, <1>4, <1>5, <1>6, <1>8, CollectsAside
  <1>11. Throttled'
    <2>1. Waiting(p) \subseteq Waiting(pass[r])
      BY <1>5 DEF Waiting
    <2> QED
      BY <1>0, <1>2, <1>4, <1>5, <1>6, <1>8, <2>1, ThrottlesAside
  <1>12. mails \in [Follower -> [Milestone -> Nat]] /\ unrecorded \in [Follower -> [Milestone -> Nat]]
    BY <1>0 DEF NoticesTyped
  <1>13. mails' \in [Follower -> [Milestone -> Nat]] /\ unrecorded' \in [Follower -> [Milestone -> Nat]]
    BY <1>3, <1>12, AddOneOK
  <1>14. NoticesTyped'
    BY <1>0, <1>2, <1>7, <1>13 DEF NoticesTyped, Unset
  <1>15. Counted'
    <2>1. \A s \in Notifier, h \in Follower, m \in Milestone : Holds(s, h, m)' <=> Holds(s, h, m)
      BY <1>5, <1>7 DEF Holds
    <2> SUFFICES ASSUME NEW h \in Follower, NEW m \in Milestone
                 PROVE  mails'[h][m] = unrecorded'[h][m] +
                            IF notice[h][m].status = "sent" \/ Accepted(h, m)' THEN 1 ELSE 0
      BY <1>2 DEF Counted
    <2>2. mails[h][m] = unrecorded[h][m] + IF notice[h][m].status = "sent" \/ Accepted(h, m) THEN 1 ELSE 0
      BY DEF NoticesInv, Counted
    <2>3. mails[h][m] \in Nat /\ unrecorded[h][m] \in Nat
      BY <1>12
    <2>4. CASE ~Holds(r, h, m)
      <3>1. Accepted(h, m)' <=> Accepted(h, m)
        BY <1>7, <2>1, <2>4 DEF Accepted
      <3>2. h # g \/ m \notin pass[r].held
        BY <1>1, <2>4 DEF Holds
      <3>3. /\ AddOne(mails, g, pass[r].held)[h][m] = mails[h][m]
            /\ AddOne(unrecorded, g, pass[r].held)[h][m] = unrecorded[h][m]
        BY <1>12, <3>2, AddOneOK
      <3>4. mails'[h][m] = mails[h][m] /\ unrecorded'[h][m] = unrecorded[h][m]
        BY <1>3, <3>3
      <3> QED
        BY <2>2, <3>1, <3>4
    <2>5. CASE Holds(r, h, m)
      <3>1. h = g /\ m \in pass[r].held
        BY <1>1, <2>5 DEF Holds
      <3>2. notice[h][m].status # "sent" /\ ~Accepted(h, m) /\ \A s \in Notifier \ {r} : ~Holds(s, h, m)
        BY <1>0, <2>5, AcceptedByHolder
      <3>3. Accepted(h, m)' <=> p.at = "accepted"
        BY <1>7, <2>1, <2>5, <3>2 DEF Accepted
      <3>4. mails[h][m] = unrecorded[h][m]
        BY <2>2, <2>3, <3>2
      <3>5. CASE p.at = "accepted"
        <4>1. mails'[h][m] = mails[h][m] + 1 /\ unrecorded'[h][m] = unrecorded[h][m]
          <5>1. mails' = AddOne(mails, g, pass[r].held) /\ unrecorded' = unrecorded
            BY <1>3, <1>5, <3>5
          <5> QED
            BY <1>12, <3>1, <5>1, AddOneOK
        <4> QED
          BY <2>3, <3>3, <3>4, <3>5, <4>1
      <3>6. CASE p.at = "refused"
        <4>1. mails'[h][m] = unrecorded'[h][m] /\ unrecorded'[h][m] \in Nat
          <5>1. \/ mails' = mails /\ unrecorded' = unrecorded
                \/ /\ mails' = AddOne(mails, g, pass[r].held)
                   /\ unrecorded' = AddOne(unrecorded, g, pass[r].held)
            BY <1>3, <1>5, <3>6
          <5>2. CASE mails' = mails /\ unrecorded' = unrecorded
            BY <2>3, <3>4, <5>2
          <5>3. CASE /\ mails' = AddOne(mails, g, pass[r].held)
                     /\ unrecorded' = AddOne(unrecorded, g, pass[r].held)
            BY <1>12, <2>3, <3>1, <3>4, <5>3, AddOneOK
          <5> QED
            BY <5>1, <5>2, <5>3
        <4> QED
          BY <3>2, <3>3, <3>6, <4>1
      <3> QED
        BY <1>5, <3>5, <3>6
    <2> QED
      BY <2>4, <2>5
  <1> QED
    BY <1>7, <1>8, <1>9, <1>10, <1>11, <1>14, <1>15 DEF NoticesInv

(* What is written of a try. *)
LEMMA TriedOK ==
    ASSUME NEW n \in NoticeRow, n.status = "pending", n.attempts < MailTries, NEW now \in 0 .. MaxClock
    PROVE  /\ Recorded(n, now) \in NoticeRow /\ Recorded(n, now).status = "sent"
           /\ Recorded(n, now).sentAt = now
           /\ NotAccepted(n) \in NoticeRow /\ NotAccepted(n).status \in {"pending", "failed"}
           /\ NotAccepted(n).status = "pending" => NotAccepted(n).attempts < MailTries
  <1>1. n.attempts \in Nat /\ n.attempts + 1 \in 0 .. MailTries /\ MailTries \in Nat
    BY NotifierAssumption DEF NoticeRow
  <1>2. Recorded(n, now) = [n EXCEPT !.status = "sent", !.attempts = n.attempts + 1, !.sentAt = now]
    BY DEF Recorded
  <1>3. Recorded(n, now) \in NoticeRow /\ Recorded(n, now).status = "sent" /\ Recorded(n, now).sentAt = now
    BY <1>1, <1>2 DEF NoticeRow, NoticeStatus
  <1>4. PICK end : end = IF n.attempts + 1 >= MailTries THEN "failed" ELSE "pending"
    OBVIOUS
  <1>5. NotAccepted(n) = [n EXCEPT !.attempts = n.attempts + 1, !.status = end]
    BY <1>4 DEF NotAccepted
  <1>6. end \in {"failed", "pending"} /\ (end = "pending" => n.attempts + 1 < MailTries)
    BY <1>1, <1>4
  <1>7. /\ NotAccepted(n) \in NoticeRow /\ NotAccepted(n).status = end
        /\ NotAccepted(n).attempts = n.attempts + 1
    BY <1>1, <1>5, <1>6 DEF NoticeRow, NoticeStatus
  <1> QED
    BY <1>3, <1>6, <1>7

LEMMA RecordsStep ==
    ASSUME NoticesInv, NEW r \in Notifier, Records(r)
    PROVE  NoticesInv'
  <1>0. /\ NoticesTyped /\ pass[r].at \in {"accepted", "refused"} /\ pass[r] \in APass
        /\ Shaped(pass[r]) /\ Mailing(pass[r])
    BY DEF NoticesInv, Records, NoticesTyped, Mailing
  <1>1. PICK g \in Follower : pass[r].to = {g} /\ g \notin pass[r].mail
    BY <1>0 DEF Shaped
  <1> DEFINE ok == pass[r].at = "accepted"
             now == pass[r].now
             New(m) == IF ok THEN Recorded(notice[g][m], now) ELSE NotAccepted(notice[g][m])
  <1>2. /\ mails' = mails /\ unrecorded' = unrecorded
        /\ log' = log /\ aged' = aged /\ grant' = grant /\ clock' = clock /\ since' = since
        /\ cursor' = cursor /\ first' = first
        /\ pass' = [pass EXCEPT ![r] = Rest(pass[r])]
    BY <1>1 DEF Records, outside
  <1>3. notice' = [notice EXCEPT ![g] = [m \in Milestone |->
                      IF m \notin pass[r].held THEN notice[g][m] ELSE New(m)]]
    BY <1>1 DEF Records
  <1>4. mailings' = IF ok THEN [mailings EXCEPT ![r][g][now] = @ + 1] ELSE mailings
    BY <1>1 DEF Records
  <1>5. PICK p : p = Rest(pass[r]) /\ Goes(r, p)
    BY <1>2 DEF Goes
  <1>6. /\ p \in APass /\ p.to = {} /\ p.held = {} /\ p.at \in {"idle", "deliver"} /\ ~Mailing(p) /\ Shaped(p)
        /\ p.at = "deliver" => p.now = now /\ p.mail = pass[r].mail
    BY <1>0, <1>5, RestOK
  <1>7. /\ pass' \in [Notifier -> APass] /\ (\A s \in Notifier : Shaped(pass[s]))'
        /\ pass'[r] = p /\ \A s \in Notifier \ {r} : pass'[s] = pass[s]
    BY <1>5, <1>6, PassGoes
  <1>8. \A h \in Follower : \A m \in Milestone : notice[h][m] \in NoticeRow
    BY <1>0 DEF NoticesTyped
  <1>9. now \in 0 .. MaxClock
    BY <1>0 DEF APass
  <1>10. ASSUME NEW m \in Milestone, m \in pass[r].held
         PROVE  /\ Holds(r, g, m) /\ notice[g][m].status = "pending"
                /\ New(m) \in NoticeRow
                /\ ok => New(m).status = "sent" /\ New(m).sentAt = now
                /\ ~ok => New(m).status \in {"pending", "failed"}
                /\ New(m).status = "pending" => New(m).attempts < MailTries
    <2>1. Holds(r, g, m)
      BY <1>1, <1>10 DEF Holds
    <2>2. notice[g][m].status = "pending"
      BY <2>1, AcceptedByHolder
    <2>3. notice[g][m] \in NoticeRow /\ notice[g][m].attempts < MailTries
      BY <1>8, <2>2 DEF NoticesInv, TriesLeft
    <2>4. CASE ok
      <3>1. New(m) = Recorded(notice[g][m], now)
        BY <2>4
      <3> QED
        BY <1>9, <2>1, <2>2, <2>3, <2>4, <3>1, TriedOK
    <2>5. CASE ~ok
      <3>1. New(m) = NotAccepted(notice[g][m])
        BY <2>5
      <3> QED
        BY <1>9, <2>1, <2>2, <2>3, <2>5, <3>1, TriedOK
    <2> HIDE DEF New
    <2> QED
      BY <2>4, <2>5
  <1> HIDE DEF New
  <1>11. pass[r].held \in SUBSET Milestone /\ pass[r].held # {}
    BY <1>0 DEF APass, Shaped
  <1>12. notice' \in [Follower -> [Milestone -> NoticeRow]]
    <2>1. [m \in Milestone |-> IF m \notin pass[r].held THEN notice[g][m] ELSE New(m)] \in [Milestone -> NoticeRow]
      BY <1>8, <1>10
    <2> QED
      BY <1>0, <1>3, <2>1 DEF NoticesTyped
  <1>13. /\ \A h \in Follower : \A m \in Milestone :
               h # g \/ m \notin pass[r].held => notice'[h][m] = notice[h][m]
         /\ \A m \in pass[r].held : notice'[g][m] = New(m)
    BY <1>0, <1>3, <1>11 DEF NoticesTyped
  <1>14. KeepsNotices /\ TriesLeft'
    <2>1. ASSUME NEW h \in Follower, NEW m \in Milestone
          PROVE  /\ notice[h][m].status = "sent" => notice'[h][m] = notice[h][m]
                 /\ notice[h][m] # Absent => notice'[h][m] # Absent
                 /\ notice'[h][m].status \in {"absent", "pending"} => notice'[h][m].attempts < MailTries
      <3>1. CASE h # g \/ m \notin pass[r].held
        BY <1>13, <3>1 DEF NoticesInv, TriesLeft
      <3>2. CASE h = g /\ m \in pass[r].held
        <4>1. notice'[h][m] = New(m) /\ Absent.status = "absent"
          BY <1>13, <3>2 DEF Absent
        <4> QED
          BY <1>10, <3>2, <4>1
      <3> QED
        BY <3>1, <3>2
    <2> QED
      BY <2>1 DEF KeepsNotices, TriesLeft
  <1>15. \A s \in Notifier \ {r} : \A h \in Follower : \A m \in Milestone :
            Holds(s, h, m) => h # g \/ m \notin pass[r].held
    BY <1>1, AcceptedByHolder DEF Holds
  <1>16. Locked'
    <2>1. \A s \in Notifier : \A h \in Follower : \A m \in Milestone :
             Holds(s, h, m) /\ (s # r \/ p.to # {}) => notice'[h][m] = notice[h][m]
      BY <1>6, <1>13, <1>15
    <2> QED
      BY <1>5, <1>6, <2>1, LocksAside
  <1>17. Collected'
    BY <1>2, <1>5, <1>6, <1>14, CollectsAside
  <1>18. Counted'
    <2> SUFFICES ASSUME NEW h \in Follower, NEW m \in Milestone
                 PROVE  mails[h][m] = unrecorded[h][m] +
                            IF notice'[h][m].status = "sent" \/ Accepted(h, m)' THEN 1 ELSE 0
      BY <1>2 DEF Counted
    <2>1. mails[h][m] = unrecorded[h][m] + IF notice[h][m].status = "sent" \/ Accepted(h, m) THEN 1 ELSE 0
      BY DEF NoticesInv, Counted
    <2>2. \A s \in Notifier \ {r} : Holds(s, h, m)' <=> Holds(s, h, m)
      BY <1>7 DEF Holds
    <2>3. ~Holds(r, h, m)'
      BY <1>6, <1>7 DEF Holds
    <2>4. CASE h # g \/ m \notin pass[r].held
      <3>1. ~Holds(r, h, m)
        BY <1>1, <2>4 DEF Holds
      <3>2. Accepted(h, m)' <=> Accepted(h, m)
        BY <1>7, <2>2, <2>3, <3>1 DEF Accepted
      <3> QED
        BY <1>13, <2>1, <2>4, <3>2
    <2>5. CASE h = g /\ m \in pass[r].held
      <3>1. Holds(r, h, m)
        BY <1>1, <2>5 DEF Holds
      <3>2. /\ notice[h][m].status # "sent" /\ (Accepted(h, m) <=> ok)
            /\ \A s \in Notifier \ {r} : ~Holds(s, h, m)
        BY <3>1, AcceptedByHolder
      <3>3. ~Accepted(h, m)'
        BY <2>2, <2>3, <3>2 DEF Accepted
      <3>4. notice'[h][m].status = "sent" <=> ok
        BY <1>10, <1>13, <2>5
      <3> QED
        BY <2>1, <3>2, <3>3, <3>4
    <2> QED
      BY <2>4, <2>5
  <1>19. g \in Waiting(pass[r]) /\ mailings[r][g][now] = 0
    <2>1. g \in Waiting(pass[r])
      BY <1>1 DEF Waiting
    <2> QED
      BY <1>0, <2>1 DEF NoticesInv, Throttled
  <1>20. mailings \in [Notifier -> [Follower -> [0 .. MaxClock -> Nat]]]
    BY <1>0 DEF NoticesTyped
  <1> HIDE DEF ok, now
  <1>21. /\ mailings' \in [Notifier -> [Follower -> [0 .. MaxClock -> Nat]]]
         /\ \A s \in Notifier : \A h \in Follower : \A t \in 0 .. MaxClock :
               mailings'[s][h][t] = IF ok /\ s = r /\ h = g /\ t = now THEN 1 ELSE mailings[s][h][t]
    <2>1. CASE ok
      <3>1. mailings' = [mailings EXCEPT ![r] = [mailings[r] EXCEPT ![g] = [mailings[r][g] EXCEPT ![now] = 1]]]
        BY <1>4, <1>19, <2>1
      <3>2. mailings[r] \in [Follower -> [0 .. MaxClock -> Nat]] /\ mailings[r][g] \in [0 .. MaxClock -> Nat]
        BY <1>20
      <3>3. PICK u : u = [mailings[r][g] EXCEPT ![now] = 1]
        OBVIOUS
      <3>4. u \in [0 .. MaxClock -> Nat] /\ \A t \in 0 .. MaxClock : u[t] = IF t = now THEN 1 ELSE mailings[r][g][t]
        BY <1>9, <3>2, <3>3
      <3>5. mailings' = [mailings EXCEPT ![r] = [mailings[r] EXCEPT ![g] = u]]
        BY <3>1, <3>3
      <3> QED
        BY <1>20, <2>1, <3>2, <3>4, <3>5
    <2>2. CASE ~ok
      BY <1>4, <1>20, <2>2
    <2> QED
      BY <2>1, <2>2
  <1>22. Throttled'
    <2>1. \A s \in Notifier : \A h \in Follower :
            /\ \A t \in 0 .. MaxClock :
                 /\ mailings[s][h][t] <= 1
                 /\ mailings[s][h][t] = 1 => \E m \in Milestone : notice[h][m].status = "sent" /\ notice[h][m].sentAt = t
            /\ (pass[s].at = "deliver" \/ Mailing(pass[s])) /\ h \in Waiting(pass[s]) => mailings[s][h][pass[s].now] = 0
      BY DEF NoticesInv, Throttled
    <2>2. \A s \in Notifier : \A h \in Follower : \A t \in 0 .. MaxClock :
             /\ mailings'[s][h][t] <= 1
             /\ mailings'[s][h][t] = 1 => \E m \in Milestone : notice'[h][m].status = "sent" /\ notice'[h][m].sentAt = t
      <3> SUFFICES ASSUME NEW s \in Notifier, NEW h \in Follower, NEW t \in 0 .. MaxClock
                   PROVE  /\ mailings'[s][h][t] <= 1
                          /\ mailings'[s][h][t] = 1 =>
                                \E m \in Milestone : notice'[h][m].status = "sent" /\ notice'[h][m].sentAt = t
        OBVIOUS
      <3>1. CASE ok /\ s = r /\ h = g /\ t = now
        <4>1. PICK m \in Milestone : m \in pass[r].held
          BY <1>11
        <4>2. notice'[h][m].status = "sent" /\ notice'[h][m].sentAt = t
          BY <1>10, <1>13, <3>1, <4>1
        <4> QED
          BY <1>21, <3>1, <4>2
      <3>2. CASE ~(ok /\ s = r /\ h = g /\ t = now)
        <4>1. mailings'[s][h][t] = mailings[s][h][t]
          BY <1>21, <3>2
        <4> QED
          BY <1>14, <2>1, <4>1 DEF KeepsNotices
      <3> QED
        BY <3>1, <3>2
    <2>3. ASSUME NEW s \in Notifier, NEW h \in Follower,
                 pass'[s].at = "deliver" \/ Mailing(pass'[s]), h \in Waiting(pass'[s])
          PROVE  mailings'[s][h][pass'[s].now] = 0
      <3>1. CASE s # r
        <4>1. pass'[s] = pass[s] /\ pass[s].now \in 0 .. MaxClock
          BY <1>0, <1>7, <3>1 DEF NoticesTyped, APass
        <4>2. mailings'[s][h][pass[s].now] = mailings[s][h][pass[s].now]
          BY <1>21, <3>1, <4>1
        <4> QED
          BY <2>1, <2>3, <4>1, <4>2
      <3>2. CASE s = r
        <4>1. pass'[s] = p /\ p.at = "deliver" /\ p.now = now /\ h \in pass[r].mail
          BY <1>6, <1>7, <2>3, <3>2 DEF Waiting
        <4>2. mailings[r][h][now] = 0
          BY <1>0, <2>1, <4>1 DEF Waiting, now
        <4>3. h # g
          BY <1>1, <4>1
        <4> QED
          BY <1>9, <1>21, <3>2, <4>1, <4>2, <4>3
      <3> QED
        BY <3>1, <3>2
    <2>4. \A s \in Notifier : (Mailing(pass[s]))' = Mailing(pass'[s]) /\ (Waiting(pass[s]))' = Waiting(pass'[s])
      BY DEF Mailing, Waiting
    <2> QED
      BY <2>2, <2>3, <2>4 DEF Throttled
  <1>23. NoticesTyped'
    BY <1>0, <1>2, <1>7, <1>12, <1>21 DEF NoticesTyped, Unset
  <1> QED
    BY <1>7, <1>14, <1>16, <1>17, <1>18, <1>22, <1>23 DEF NoticesInv

LEMMA AbortsStep ==
    ASSUME NoticesInv, NEW r \in Notifier, Aborts(r)
    PROVE  NoticesInv'
  <1>0. NoticesTyped /\ pass[r] \in APass /\ Shaped(pass[r])
    BY DEF NoticesInv, NoticesTyped
  <1>1. PICK p \in {Idle} \cup WithoutGrant(pass[r]) : Goes(r, p)
    BY DEF Aborts, Goes
  <1>2. /\ p \in APass /\ p.to = {} /\ p.held = {}
        /\ p.at \in {"idle", "deliver"} /\ ~Mailing(p) /\ Shaped(p)
        /\ p.at = "deliver" =>
             /\ pass[r].at = "deliver" \/ Mailing(pass[r])
             /\ p.now = pass[r].now
             /\ Waiting(p) \subseteq Waiting(pass[r])
    <2>1. CASE p = Idle
      BY <2>1, NotifierAssumption DEF Idle, APass, PassAt, Mailing, Shaped
    <2>2. ASSUME NEW q \in APass, p = Rest(q), q.now = pass[r].now, q.mail \subseteq pass[r].mail,
                 pass[r].at = "deliver" \/ Mailing(pass[r])
          PROVE  /\ p \in APass /\ p.to = {} /\ p.held = {}
                 /\ p.at \in {"idle", "deliver"} /\ ~Mailing(p) /\ Shaped(p)
                 /\ p.at = "deliver" =>
                      /\ pass[r].at = "deliver" \/ Mailing(pass[r])
                      /\ p.now = pass[r].now
                      /\ Waiting(p) \subseteq Waiting(pass[r])
      <3>1. PICK w : w = Rest(q)
        OBVIOUS
      <3>2. /\ w \in APass /\ w.to = {} /\ w.held = {}
            /\ w.at \in {"idle", "deliver"} /\ ~Mailing(w) /\ Shaped(w)
            /\ w.at = "deliver" => w.now = q.now /\ w.mail = q.mail
        BY <3>1, RestOK
      <3> QED
        BY <2>2, <3>1, <3>2 DEF Waiting
    <2>3. CASE p \in WithoutGrant(pass[r])
      <3>1. CASE pass[r].at = "deliver"
        <4>1. PICK g \in pass[r].mail : p = Rest([pass[r] EXCEPT !.mail = @ \ {g}])
          BY <2>3, <3>1 DEF WithoutGrant
        <4>2. PICK q : q = [pass[r] EXCEPT !.mail = @ \ {g}]
          OBVIOUS
        <4>3. q \in APass /\ q.now = pass[r].now /\ q.mail \subseteq pass[r].mail
          BY <1>0, <4>2 DEF APass
        <4> QED
          BY <2>2, <3>1, <4>1, <4>2, <4>3
      <3>2. CASE pass[r].at # "deliver"
        <4>1. p = Rest(pass[r]) /\ pass[r].to # {}
          BY <2>3, <3>2 DEF WithoutGrant
        <4>2. Mailing(pass[r])
          BY <1>0, <4>1 DEF Shaped
        <4> QED
          BY <1>0, <2>2, <4>1, <4>2
      <3> QED
        BY <3>1, <3>2
    <2> QED
      BY <2>1, <2>3
  <1>3. /\ notice' = notice /\ mails' = mails /\ mailings' = mailings
        /\ log' = log /\ aged' = aged /\ grant' = grant /\ clock' = clock /\ since' = since
        /\ cursor' = cursor /\ first' = first
        /\ pass' \in [Notifier -> APass] /\ (\A s \in Notifier : Shaped(pass[s]))'
        /\ pass'[r] = p /\ \A s \in Notifier \ {r} : pass'[s] = pass[s]
    BY <1>1, <1>2, PassGoes DEF Aborts, outside
  <1>4. KeepsNotices /\ TriesLeft'
    BY <1>3 DEF KeepsNotices, TriesLeft, NoticesInv
  <1>5. Locked'
    BY <1>1, <1>2, <1>3, LocksAside
  <1>6. Collected'
    BY <1>1, <1>2, <1>3, <1>4, CollectsAside
  <1>7. Throttled'
    BY <1>1, <1>2, <1>3, <1>4, ThrottlesAside
  <1>8. unrecorded' \in [Follower -> [Milestone -> Nat]] /\ Counted'
    <2>1. CASE pass[r].at # "accepted"
      <3>1. unrecorded' = unrecorded
        BY <2>1 DEF Aborts
      <3> QED
        BY <1>0, <1>1, <1>2, <1>3, <2>1, <3>1, CountsAside DEF NoticesTyped
    <2>2. CASE pass[r].at = "accepted"
      <3>1. Mailing(pass[r])
        BY <2>2 DEF Mailing
      <3>2. PICK g \in Follower : pass[r].to = {g}
        BY <1>0, <3>1 DEF Shaped
      <3>3. unrecorded \in [Follower -> [Milestone -> Nat]]
        BY <1>0 DEF NoticesTyped
      <3>4. unrecorded' = [h \in Follower |-> IF h \in pass[r].to
                                THEN AddOne(unrecorded, h, pass[r].held)[h] ELSE unrecorded[h]]
        BY <2>2 DEF Aborts
      <3>5. AddOne(unrecorded, g, pass[r].held) \in [Follower -> [Milestone -> Nat]]
        BY <3>3, AddOneOK
      <3>6. unrecorded' \in [Follower -> [Milestone -> Nat]]
        BY <3>2, <3>3, <3>4, <3>5
      <3>7. \A h \in Follower : \A m \in Milestone :
               /\ h = g /\ m \in pass[r].held => unrecorded'[h][m] = unrecorded[h][m] + 1
               /\ h # g \/ m \notin pass[r].held => unrecorded'[h][m] = unrecorded[h][m]
        BY <3>2, <3>3, <3>4, AddOneOK
      <3> SUFFICES ASSUME NEW h \in Follower, NEW m \in Milestone
                   PROVE  mails[h][m] = unrecorded'[h][m] +
                              IF notice[h][m].status = "sent" \/ Accepted(h, m)' THEN 1 ELSE 0
        BY <1>3, <3>6 DEF Counted
      <3>8. mails[h][m] = unrecorded[h][m] + IF notice[h][m].status = "sent" \/ Accepted(h, m) THEN 1 ELSE 0
        BY DEF NoticesInv, Counted
      <3>9. /\ \A s \in Notifier \ {r} : Holds(s, h, m)' <=> Holds(s, h, m)
            /\ ~Holds(r, h, m)'
        BY <1>2, <1>3 DEF Holds
      <3>10. CASE ~Holds(r, h, m)
        <4>1. Accepted(h, m)' <=> Accepted(h, m)
          BY <1>3, <3>9, <3>10 DEF Accepted
        <4>2. h # g \/ m \notin pass[r].held
          BY <3>2, <3>10 DEF Holds
        <4> QED
          BY <3>7, <3>8, <4>1, <4>2
      <3>11. CASE Holds(r, h, m)
        <4>1. /\ notice[h][m].status # "sent" /\ Accepted(h, m)
              /\ \A s \in Notifier \ {r} : ~Holds(s, h, m)
          BY <2>2, <3>11, AcceptedByHolder
        <4>2. ~Accepted(h, m)'
          BY <3>9, <4>1 DEF Accepted
        <4>3. h = g /\ m \in pass[r].held
          BY <3>2, <3>11 DEF Holds
        <4>4. unrecorded'[h][m] = unrecorded[h][m] + 1 /\ unrecorded'[h][m] \in Nat
          BY <3>6, <3>7, <4>3
        <4> QED
          BY <3>8, <4>1, <4>2, <4>4
      <3> QED
        BY <3>10, <3>11
    <2> QED
      BY <2>1, <2>2
  <1>9. NoticesTyped'
    BY <1>0, <1>3, <1>8 DEF NoticesTyped, Unset
  <1> QED
    BY <1>3, <1>4, <1>5, <1>6, <1>7, <1>8, <1>9 DEF NoticesInv

LEMMA NoticesStep == NoticesInv /\ [PortalNext]_pvars => NoticesInv'
  <1> SUFFICES ASSUME NoticesInv, [PortalNext]_pvars PROVE NoticesInv'
    OBVIOUS
  <1>1. CASE UNCHANGED pvars
    <2>1. NoticesTyped' /\ (\A r \in Notifier : Shaped(pass[r]))'
      BY <1>1 DEF pvars, NoticesInv, NoticesTyped, Unset, Shaped, Mailing
    <2>2. TriesLeft' /\ Locked'
      BY <1>1 DEF pvars, NoticesInv, TriesLeft, Locked, Holds
    <2>3. Counted'
      BY <1>1 DEF pvars, NoticesInv, Counted, Accepted, Holds
    <2>4. Collected'
      BY <1>1 DEF pvars, NoticesInv, Collected, Due, Followers, Unset, Absent
    <2>5. Throttled'
      BY <1>1 DEF pvars, NoticesInv, Throttled, Mailing, Waiting
    <2> QED
      BY <2>1, <2>2, <2>3, <2>4, <2>5 DEF NoticesInv
  <1>2. CASE Publishes \/ DayPasses \/ IntervalPasses \/ \E g \in Follower : SetNotify(g)
    BY <1>2, OutsideStep
  <1>3. ASSUME NEW r \in Notifier, Passes(r) PROVE NoticesInv'
    BY <1>3, CollectNothingStep, CollectReadStep, CollectEventStep, CollectCommitStep, ListDueStep,
       SkipNoticesStep, TakeNoticesStep, MailsStep, RecordsStep, AbortsStep DEF Passes
  <1> QED
    BY <1>1, <1>2, <1>3 DEF PortalNext

(* portal/notifier.ts: the locks of the cursor and of the notices, what each server holds
   and what it has yet to mail, for any number of servers, grants, milestones and events. *)
THEOREM NoticesInvariant == PortalSpec => []NoticesInv
  BY NoticesInit, NoticesStep, PTL DEF PortalSpec

(* portal/notifier.ts: a person hears of a milestone once, but for the mails whose recording
   was lost; the cursor passes nothing by that somebody followed; and no server mails a
   person twice in one interval. *)
THEOREM NoticesAreSound == PortalSpec => []NoticesSound
  <1>1. NoticesInv => PortalTypeOK
    <2> SUFFICES ASSUME NoticesInv PROVE PortalTypeOK
      OBVIOUS
    <2>1. NoticesTyped
      BY DEF NoticesInv
    <2>2. {cursor, first} \subseteq 0 .. MaxEvents + 1
      BY <2>1, NotifierAssumption DEF NoticesTyped, Unset
    <2>3. \A g \in Follower : \A m \in Milestone : notice[g][m] \in NoticeRow
      BY <2>1 DEF NoticesTyped
    <2>4. \A r \in Notifier : pass[r] \in APass
      BY <2>1 DEF NoticesTyped
    <2>5. \A r \in Notifier : /\ pass[r].at \in PassAt
                              /\ pass[r].new \subseteq Follower \X Milestone /\ pass[r].held \subseteq Milestone
      BY <2>4 DEF APass
    <2>6. \A g \in Follower : \A m \in Milestone :
             /\ notice[g][m].status \in NoticeStatus
             /\ notice[g][m].attempts \in 0 .. MailTries /\ notice[g][m].sentAt \in 0 .. MaxClock
      BY <2>3 DEF NoticeRow
    <2> QED
      BY <2>1, <2>2, <2>5, <2>6 DEF NoticesTyped, PortalTypeOK, PassAt, NoticeStatus
  <1>2. NoticesInv => MailedOnce
    <2> SUFFICES ASSUME NoticesInv, NEW g \in Follower, NEW m \in Milestone
                 PROVE  mails[g][m] - unrecorded[g][m] <= 1
      BY DEF MailedOnce
    <2>1. mails[g][m] = unrecorded[g][m] + IF notice[g][m].status = "sent" \/ Accepted(g, m) THEN 1 ELSE 0
      BY DEF NoticesInv, Counted
    <2>2. mails[g][m] \in Nat /\ unrecorded[g][m] \in Nat
      BY DEF NoticesInv, NoticesTyped
    <2> QED
      BY <2>1, <2>2
  <1>3. NoticesInv => NothingMissed
    <2> SUFFICES ASSUME NoticesInv, cursor # Unset, NEW g \in Followers, NEW i \in first + 1 .. cursor,
                        i > aged, i > since[g], log[i] # Quiet
                 PROVE  notice[g][log[i]] # Absent
      BY DEF NothingMissed
    <2>1. g \in Follower /\ Due(g, i)
      BY DEF Due, Followers
    <2> QED
      BY <2>1 DEF NoticesInv, Collected
  <1>4. NoticesInv => ThrottlePerServer
    BY DEF NoticesInv, Throttled, ThrottlePerServer
  <1> QED
    BY <1>1, <1>2, <1>3, <1>4, NoticesInvariant, PTL DEF NoticesSound

=============================================================================
