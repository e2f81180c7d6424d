-------------------------- MODULE AuditChainProofs --------------------------
(***************************************************************************)
(* Proofs about AuditChain.  Ids are drawn and the head is read under the  *)
(* lock, which is held to the commit: so what the lock's holder has read   *)
(* still is the head when its row commits.                                 *)
(***************************************************************************)
EXTENDS AuditChain, TLAPS, SequenceTheorems, FiniteSetTheorems, WellFoundedInduction

Signed(facts, prev) == facts.headHash = prev /\ BearsSignature(facts, facts.keyId)

(* No id of the log or in flight is above the sequence, and the one in flight
   is above every id of the log. *)
IdsDrawn ==
    /\ \A i \in DOMAIN log : log[i].id <= lastId
    /\ \A s \in Session : pc[s] = "commit" =>
          /\ tx[s].id <= lastId
          /\ \A i \in DOMAIN log : log[i].id < tx[s].id

(* No reader's cursor has passed an id that is still to commit. *)
CursorBehind ==
    \A p \in Poller :
        /\ cursor[p] <= lastId
        /\ \A s \in Session : pc[s] = "commit" => cursor[p] < tx[s].id

(* What a session is about to write still fits the head. *)
FitsHead(s) ==
    /\ pc[s] = "lock" => tx[s].type = Event
    /\ pc[s] = "chain" /\ tx[s].type = Checkpoint => Signed(tx[s].facts, HeadHash)
    /\ pc[s] = "commit" =>
          /\ tx[s].prev = HeadHash
          /\ tx[s].hash = ComputedHash(RowOf(tx[s]))
          /\ tx[s].at <= day
          /\ \A i \in DOMAIN log : log[i].at <= tx[s].at
          /\ tx[s].type = Checkpoint => Signed(tx[s].facts, tx[s].prev)

ChainGrows ==
    /\ ChainLinked
    /\ \A i \in DOMAIN log :
          log[i].at <= day /\ (log[i].type = Checkpoint => Signed(log[i].facts, log[i].prev))
    /\ \A s \in Session : FitsHead(s)

IInv == /\ TypeOK
        /\ OneWriterAtATime
        /\ CommitOrderIsIdOrder
        /\ IdsDrawn
        /\ PollerMissesNothing
        /\ CursorBehind
        /\ damaged = {} => ChainGrows

-----------------------------------------------------------------------------
(* The log as a sequence. *)

LEMMA SeqOfItsElements ==
    ASSUME NEW S, NEW q \in Seq(S)
    PROVE  q \in Seq(Elements(q))
<1> DEFINE T == Elements(q)
<1>1. Len(q) \in Nat /\ q \in [1 .. Len(q) -> S] /\ DOMAIN q = 1 .. Len(q)
  BY LenProperties
<1>2. q \in [1 .. Len(q) -> T]
  BY <1>1 DEF Elements
<1>3. Seq(T) = UNION {[1 .. n -> T] : n \in Nat}
  OBVIOUS
<1> QED
  BY <1>1, <1>2, <1>3

LEMMA LogIsSequence ==
    ASSUME TypeOK
    PROVE  /\ log \in Seq(Elements(log))
           /\ Len(log) \in Nat
           /\ DOMAIN log = 1 .. Len(log)
           /\ log = <<>> <=> Len(log) = 0
           /\ IsFiniteSet(DOMAIN log)
<1>1. log \in Seq(Elements(log))
  BY DEF TypeOK, LogOK
<1>2. Len(log) \in Nat /\ DOMAIN log = 1 .. Len(log)
  BY <1>1, LenProperties
<1>3. IsFiniteSet(1 .. Len(log))
  BY <1>2, FS_Interval
<1> QED
  BY <1>1, <1>2, <1>3, EmptySeq

(* In a log whose ids grow, ORDER BY id DESC LIMIT 1 is the last row. *)
LEMMA HeadIsLast ==
    ASSUME TypeOK, CommitOrderIsIdOrder, log # <<>>
    PROVE  /\ Len(log) \in DOMAIN log
           /\ Latest(DOMAIN log) = Len(log)
           /\ HeadHash = log[Len(log)].hash
           /\ HeadId = log[Len(log)].id
<1>1. Len(log) \in Nat \ {0} /\ DOMAIN log = 1 .. Len(log)
  BY LogIsSequence
<1>2. \A j \in DOMAIN log : log[j].id \in Nat
  BY DEF TypeOK, LogOK, RowOK
<1>3. \A j \in DOMAIN log : log[j].id <= log[Len(log)].id
  BY <1>1, <1>2 DEF CommitOrderIsIdOrder
<1>4. \A i \in DOMAIN log : (\A j \in DOMAIN log : log[j].id <= log[i].id) => i = Len(log)
  BY <1>1, <1>2 DEF CommitOrderIsIdOrder
<1>5. Latest(DOMAIN log) = Len(log)
  BY <1>1, <1>3, <1>4 DEF Latest
<1> QED
  BY <1>1, <1>5 DEF HeadHash, HeadId

LEMMA HeadIdIsNat ==
    ASSUME TypeOK, CommitOrderIsIdOrder
    PROVE  HeadId \in Nat
<1>1. CASE log = <<>>
  BY <1>1 DEF HeadId
<1>2. CASE log # <<>>
  BY <1>2, HeadIsLast DEF TypeOK, LogOK, RowOK
<1> QED
  BY <1>1, <1>2

(* What Append and an archive make of a sequence. *)
LEMMA AppendOne ==
    ASSUME NEW S, NEW q \in Seq(S), NEW r, NEW p, p = Append(q, r)
    PROVE  /\ p \in Seq(Elements(p))
           /\ DOMAIN p = 1 .. Len(q) + 1
           /\ \A i \in DOMAIN q : p[i] = q[i]
           /\ p[Len(q) + 1] = r
<1> DEFINE T == S \cup {r}
<1>1. q \in Seq(T) /\ r \in T /\ DOMAIN q = 1 .. Len(q) /\ Len(q) \in Nat
  BY SeqMonotonic, LenProperties
<1> HIDE DEF T
<1>2. /\ p \in Seq(T)
      /\ Len(p) = Len(q) + 1
      /\ \A i \in 1 .. Len(q) : p[i] = q[i]
      /\ p[Len(q) + 1] = r
  BY <1>1, AppendProperties
<1>3. DOMAIN p = 1 .. Len(p)
  BY <1>2, LenProperties
<1>4. p \in Seq(Elements(p))
  BY <1>2, SeqOfItsElements
<1> QED
  BY <1>1, <1>2, <1>3, <1>4

LEMMA CutBefore ==
    ASSUME NEW S, NEW q \in Seq(S), NEW k \in 1 .. Len(q), NEW p, p = SubSeq(q, k, Len(q))
    PROVE  /\ p \in Seq(Elements(p))
           /\ Len(p) = Len(q) - k + 1
           /\ DOMAIN p = 1 .. Len(q) - k + 1
           /\ \A i \in DOMAIN p : i + k - 1 \in DOMAIN q /\ p[i] = q[i + k - 1]
<1>1. DOMAIN q = 1 .. Len(q) /\ Len(q) \in Nat /\ \A i \in k .. Len(q) : q[i] \in S
  BY LenProperties, ElementOfSeq
<1>2. /\ p \in Seq(S)
      /\ Len(p) = Len(q) - k + 1
      /\ \A i \in 1 .. Len(q) - k + 1 : p[i] = q[k + i - 1]
  BY <1>1, SubSeqProperties
<1>3. DOMAIN p = 1 .. Len(p)
  BY <1>2, LenProperties
<1>4. p \in Seq(Elements(p))
  BY <1>2, SeqOfItsElements
<1> QED
  BY <1>1, <1>2, <1>3, <1>4

LogAppends(r) ==
    /\ log' \in Seq(Elements(log'))
    /\ DOMAIN log' = 1 .. Len(log) + 1
    /\ \A i \in DOMAIN log : log'[i] = log[i]
    /\ log'[Len(log) + 1] = r

LEMMA CommitAppends ==
    ASSUME TypeOK, NEW r, log' = Append(log, r)
    PROVE  LogAppends(r)
<1>1. log \in Seq(Elements(log))
  BY LogIsSequence
<1>2. log' \in Seq(Elements(log'))
  BY <1>1, AppendOne
<1>3. DOMAIN log' = 1 .. Len(log) + 1
  BY <1>1, AppendOne
<1>4. \A i \in DOMAIN log : log'[i] = log[i]
  BY <1>1, AppendOne
<1>5. log'[Len(log) + 1] = r
  BY <1>1, AppendOne
<1> QED
  BY <1>2, <1>3, <1>4, <1>5 DEF LogAppends

LogCut(k) ==
    /\ log' \in Seq(Elements(log'))
    /\ Len(log') = Len(log) - k + 1
    /\ DOMAIN log' = 1 .. Len(log) - k + 1
    /\ \A i \in DOMAIN log' : i + k - 1 \in DOMAIN log /\ log'[i] = log[i + k - 1]

LEMMA ArchiveCuts ==
    ASSUME TypeOK, NEW k \in DOMAIN log, log' = SubSeq(log, k, Len(log))
    PROVE  LogCut(k)
<1>1. log \in Seq(Elements(log)) /\ k \in 1 .. Len(log)
  BY LogIsSequence
<1>2. log' \in Seq(Elements(log'))
  BY <1>1, CutBefore
<1>3. Len(log') = Len(log) - k + 1
  BY <1>1, CutBefore
<1>4. DOMAIN log' = 1 .. Len(log) - k + 1
  BY <1>1, CutBefore
<1>5. \A i \in DOMAIN log' : i + k - 1 \in DOMAIN log /\ log'[i] = log[i + k - 1]
  BY <1>1, CutBefore
<1> QED
  BY <1>2, <1>3, <1>4, <1>5 DEF LogCut

LEMMA FunctionIsSequence ==
    ASSUME NEW n \in Nat, NEW p, p \in [1 .. n -> Elements(p)]
    PROVE  p \in Seq(Elements(p))
<1>1. Seq(Elements(p)) = UNION {[1 .. m -> Elements(p)] : m \in Nat}
  OBVIOUS
<1> QED
  BY <1>1

-----------------------------------------------------------------------------
(* Types *)

LEMMA TxsUpdated ==
    ASSUME NEW T, TxsOK(T), NEW s \in Session, NEW t, TxOK(t)
    PROVE  TxsOK([T EXCEPT ![s] = t])
BY DEF TxsOK

LEMMA WalksUpdated ==
    ASSUME NEW W, WalksOK(W), NEW v \in Verifier, NEW w, WalkOK(w)
    PROVE  WalksOK([W EXCEPT ![v] = w])
BY DEF WalksOK

LEMMA TxFactsUpdated ==
    ASSUME NEW t, TxOK(t), NEW facts
    PROVE  TxOK([t EXCEPT !.facts = facts])
BY DEF TxOK

LEMMA TxRowUpdated ==
    ASSUME NEW t, TxOK(t), NEW id \in Nat, NEW at \in Nat, NEW prev, NEW hash
    PROVE  TxOK([t EXCEPT !.id = id, !.at = at, !.prev = prev, !.hash = hash])
BY DEF TxOK

LEMMA WalkPositionUpdated ==
    ASSUME NEW w, WalkOK(w), NEW after, NEW expected
    PROVE  /\ WalkOK([w EXCEPT !.phase = "batch", !.after = after, !.expected = expected])
           /\ WalkOK([w EXCEPT !.after = after, !.expected = expected])
BY DEF WalkOK

LEMMA WalkDone ==
    ASSUME NEW w, WalkOK(w)
    PROVE  /\ WalkOK([w EXCEPT !.phase = "done"])
           /\ WalkOK([w EXCEPT !.phase = "done", !.ok = FALSE])
BY DEF WalkOK

LEMMA TypeStep ==
    ASSUME TypeOK, CommitOrderIsIdOrder, [Next]_vars
    PROVE  TypeOK'
<1>1. /\ LogOK(log) /\ TxsOK(tx) /\ WalksOK(walk)
      /\ \A s \in Session : TxOK(tx[s])
      /\ \A v \in Verifier : WalkOK(walk[v])
      /\ \A i \in DOMAIN log : RowOK(log[i]) /\ log[i].id \in Nat
      /\ lastId \in Nat /\ day \in Nat
  BY DEF TypeOK, TxsOK, WalksOK, LogOK, RowOK
<1>2. ASSUME NEW s \in Session, Publish(s)
      PROVE  TypeOK'
  <2>1. TxOK(IdleTx)
    BY DEF IdleTx, TxOK, Event, NoFacts
  <2>2. TxsOK(tx')
    BY <1>1, <1>2, <2>1, TxsUpdated DEF Publish
  <2> QED
    BY <1>2, <2>2 DEF Publish, readers, TypeOK
<1>3. ASSUME NEW s \in Session, NEW force \in BOOLEAN, StartCheckpoint(s, force)
      PROVE  TypeOK'
  <2>1. HeadId \in Nat /\ Len(log) \in Nat
    BY HeadIdIsNat, LogIsSequence
  <2>2. TxOK([IdleTx EXCEPT !.type = Checkpoint, !.force = force,
                            !.seenHead = HeadId, !.seenCount = Len(log)])
    BY <2>1 DEF IdleTx, TxOK, Event, Checkpoint, NoFacts
  <2>3. TxsOK(tx')
    BY <1>1, <1>3, <2>2, TxsUpdated DEF StartCheckpoint
  <2> QED
    BY <1>3, <2>3 DEF StartCheckpoint, readers, TypeOK
<1>4. ASSUME NEW s \in Session, TakeLock(s) \/ SkipCheckpoint(s) \/ Abort(s)
      PROVE  TypeOK'
  BY <1>4 DEF TakeLock, SkipCheckpoint, Abort, readers, TypeOK
<1>5. ASSUME NEW s \in Session, DecideCheckpoint(s)
      PROVE  TypeOK'
  <2>1. PICK facts : tx' = [tx EXCEPT ![s] = [tx[s] EXCEPT !.facts = facts]]
    BY <1>5 DEF DecideCheckpoint
  <2>2. TxOK([tx[s] EXCEPT !.facts = facts])
    BY <1>1, TxFactsUpdated
  <2>3. TxsOK(tx')
    BY <1>1, <2>1, <2>2, TxsUpdated
  <2> QED
    BY <1>5, <2>3 DEF DecideCheckpoint, readers, TypeOK
<1>6. ASSUME NEW s \in Session, Chain(s)
      PROVE  TypeOK'
  <2>1. PICK id, prev, hash :
           /\ id = lastId + 1
           /\ tx' = [tx EXCEPT ![s] = [tx[s] EXCEPT !.id = id, !.at = day,
                                                    !.prev = prev, !.hash = hash]]
    BY <1>6 DEF Chain
  <2>2. TxOK([tx[s] EXCEPT !.id = id, !.at = day, !.prev = prev, !.hash = hash])
    <3>1. TxOK(tx[s]) /\ id \in Nat /\ day \in Nat
      BY <1>1, <2>1
    <3> QED
      BY <3>1, TxRowUpdated, Zenon
  <2>3. TxsOK(tx')
    BY <1>1, <2>1, <2>2, TxsUpdated
  <2> QED
    BY <1>1, <1>6, <2>3 DEF Chain, readers, TypeOK
<1>7. ASSUME NEW s \in Session, Commit(s)
      PROVE  TypeOK'
  <2>1. RowOK(RowOf(tx[s]))
    BY <1>1 DEF TxOK, RowOf, RowOK
  <2>2. LogAppends(RowOf(tx[s]))
    BY <1>7, CommitAppends DEF Commit
  <2>3. LogOK(log')
    BY <1>1, <2>1, <2>2, LogIsSequence DEF LogOK, LogAppends
  <2> QED
    BY <1>7, <2>3 DEF Commit, readers, TypeOK
<1>8. ASSUME NEW p \in Poller, Poll(p)
      PROVE  TypeOK'
  <2>1. NextRows(cursor[p], PageLimit) \subseteq DOMAIN log
    BY DEF NextRows
  <2> QED
    BY <1>1, <1>8, <2>1 DEF Poll, TypeOK
<1>9. ASSUME NEW v \in Verifier, Verify(v)
      PROVE  TypeOK'
  <2>1. WalksOK(walk')
    <3>1. CASE VerifyCheckpoints(v)
      <4>1. PICK ok \in BOOLEAN, unknownKey \in SUBSET Nat, dirty \in BOOLEAN :
               walk' = [walk EXCEPT ![v] = [IdleWalk EXCEPT !.phase = "first", !.ok = ok,
                                                            !.unknownKey = unknownKey,
                                                            !.dirty = dirty]]
        <5>1. {log[i].id : i \in {j \in DOMAIN log : NamesOtherKey(log[j])}} \subseteq Nat
          BY <1>1
        <5>2. PICK ok, unknownKey, dirty :
                 /\ ok = (\A i \in DOMAIN log : ~BadCheckpoint(log[i]))
                 /\ unknownKey = {log[i].id : i \in {j \in DOMAIN log : NamesOtherKey(log[j])}}
                 /\ dirty = (damaged # {})
                 /\ walk' = [walk EXCEPT ![v] = [IdleWalk EXCEPT !.phase = "first", !.ok = ok,
                                                              !.unknownKey = unknownKey,
                                                              !.dirty = dirty]]
          BY <3>1 DEF VerifyCheckpoints
        <5> QED
          BY <5>1, <5>2
      <4>2. WalkOK([IdleWalk EXCEPT !.phase = "first", !.ok = ok, !.unknownKey = unknownKey,
                                    !.dirty = dirty])
        BY DEF IdleWalk, WalkOK
      <4> QED
        BY <1>1, <4>1, <4>2, WalksUpdated
    <3>2. CASE VerifyFirst(v)
      <4>1. CASE log = <<>>
        <5>1. walk' = [walk EXCEPT ![v] = [walk[v] EXCEPT !.phase = "done"]]
          BY <3>2, <4>1 DEF VerifyFirst
        <5> QED
          BY <1>1, <5>1, WalksUpdated, WalkDone
      <4>2. CASE log # <<>> /\ StartsChain(log[Earliest(DOMAIN log)])
        <5>1. PICK after, expected :
                 walk' = [walk EXCEPT ![v] = [walk[v] EXCEPT !.phase = "batch", !.after = after,
                                                            !.expected = expected]]
          BY <3>2, <4>2 DEF VerifyFirst
        <5> QED
          BY <1>1, <5>1, WalksUpdated, WalkPositionUpdated
      <4>3. CASE log # <<>> /\ ~StartsChain(log[Earliest(DOMAIN log)])
        <5>1. walk' = [walk EXCEPT ![v] = [walk[v] EXCEPT !.phase = "done", !.ok = FALSE]]
          BY <3>2, <4>3 DEF VerifyFirst
        <5> QED
          BY <1>1, <5>1, WalksUpdated, WalkDone
      <4> QED
        BY <4>1, <4>2, <4>3
    <3>3. CASE VerifyBatch(v)
      <4>1. PICK after, expected :
               \/ walk' = [walk EXCEPT ![v] = [walk[v] EXCEPT !.phase = "done", !.ok = FALSE]]
               \/ walk' = [walk EXCEPT ![v] = [walk[v] EXCEPT !.phase = "done"]]
               \/ walk' = [walk EXCEPT ![v] = [walk[v] EXCEPT !.after = after, !.expected = expected]]
        BY <3>3, Zenon DEF VerifyBatch
      <4>2. CASE walk' = [walk EXCEPT ![v] = [walk[v] EXCEPT !.phase = "done", !.ok = FALSE]]
        BY <1>1, <4>2, WalksUpdated, WalkDone
      <4>3. CASE walk' = [walk EXCEPT ![v] = [walk[v] EXCEPT !.phase = "done"]]
        BY <1>1, <4>3, WalksUpdated, WalkDone
      <4>4. CASE walk' = [walk EXCEPT ![v] = [walk[v] EXCEPT !.after = after, !.expected = expected]]
        BY <1>1, <4>4, WalksUpdated, WalkPositionUpdated
      <4> QED
        BY <4>1, <4>2, <4>3, <4>4
    <3>4. CASE VerifyAgain(v)
      <4>1. WalkOK(IdleWalk)
        BY DEF IdleWalk, WalkOK
      <4> QED
        BY <1>1, <3>4, <4>1, WalksUpdated DEF VerifyAgain
    <3> QED
      BY <1>9, <3>1, <3>2, <3>3, <3>4 DEF Verify
  <2>2. UNCHANGED <<log, lastId, holder, pc, tx, day, cursor, seen, damaged, signingKey>>
    BY <1>9 DEF Verify, VerifyCheckpoints, VerifyFirst, VerifyBatch, VerifyAgain
  <2> QED
    BY <2>1, <2>2 DEF TypeOK
<1>10. ASSUME Tick
       PROVE  TypeOK'
  BY <1>1, <1>10 DEF Tick, readers, TypeOK
<1>11. ASSUME NEW i \in DOMAIN log, Outside(i)
       PROVE  TypeOK'
  <2>1. LogOK(log')
    <3>1. CASE Archive(i)
      <4>1. LogCut(i)
        BY <3>1, ArchiveCuts DEF Archive
      <4> QED
        BY <1>1, <4>1 DEF LogOK, LogCut
    <3>2. CASE EditRow(i)
      <4>1. DOMAIN log' = DOMAIN log /\ log' \in [1 .. Len(log) -> Elements(log')]
        BY <3>2, LogIsSequence DEF EditRow, Elements
      <4>2. \A j \in DOMAIN log : RowOK(log'[j])
        BY <1>1, <3>2 DEF EditRow, RowOK
      <4> QED
        BY <4>1, <4>2, FunctionIsSequence, LogIsSequence DEF LogOK
    <3>3. CASE RemoveRow(i)
      <4>1. log' \in [1 .. Len(log) - 1 -> Elements(log')] /\ Len(log) - 1 \in Nat
        BY <3>3, LogIsSequence DEF RemoveRow, Elements
      <4>2. \A j \in DOMAIN log' : RowOK(log'[j])
        BY <1>1, <3>3, LogIsSequence DEF RemoveRow
      <4> QED
        BY <4>1, <4>2, FunctionIsSequence DEF LogOK
    <3>4. ASSUME NEW patch \in BOOLEAN, NEW key \in Key, Forge(i, patch, key)
          PROVE  LogOK(log')
      <4>1. DOMAIN log' = DOMAIN log /\ log' \in [1 .. Len(log) -> Elements(log')]
        BY <3>4, LogIsSequence DEF Forge, Elements
      <4>2. ASSUME NEW j \in DOMAIN log
            PROVE  RowOK(log'[j])
        <5>1. CASE j < i
          BY <1>1, <3>4, <5>1 DEF Forge
        <5>2. CASE ~(j < i)
          <6>1. PICK at, facts, prev, hash :
                   /\ at = IF j = i THEN log[j].at + 1 ELSE log[j].at
                   /\ log'[j] = [log[j] EXCEPT !.at = at, !.facts = facts,
                                               !.prev = prev, !.hash = hash]
            BY <3>4, <5>2 DEF Forge
          <6>2. at \in Nat
            BY <1>1, <6>1 DEF RowOK
          <6> QED
            BY <1>1, <6>1, <6>2 DEF RowOK
        <5> QED
          BY <5>1, <5>2
      <4> QED
        BY <4>1, <4>2, FunctionIsSequence, LogIsSequence DEF LogOK
    <3> QED
      BY <1>11, <3>1, <3>2, <3>3, <3>4 DEF Outside
  <2>2. WalksOK(walk')
    <3>1. DisturbWalks
      BY <1>11 DEF Outside, Archive, EditRow, RemoveRow, Forge, Damage
    <3>2. \A v \in Verifier : walk'[v] = [walk[v] EXCEPT !.disturbed = walk[v].phase # "idle"]
      BY <3>1 DEF DisturbWalks
    <3>3. ASSUME NEW v \in Verifier
          PROVE  WalkOK(walk'[v])
      <4>1. PICK w, far : w = walk[v] /\ far = (w.phase # "idle") /\ WalkOK(w)
        BY <1>1
      <4>2. PICK u : u = walk'[v] /\ u = [w EXCEPT !.disturbed = far]
        BY <3>2, <4>1
      <4>3. WalkOK(u)
        BY <4>1, <4>2 DEF WalkOK
      <4> QED
        BY <4>2, <4>3
    <3> QED
      BY <3>1, <3>3 DEF WalksOK, DisturbWalks
  <2>3. TxsOK(tx')
    <3>1. CASE Archive(i)
      <4>1. \A s \in Session : tx'[s] = [tx[s] EXCEPT !.trimmed = pc[s] # "idle"]
        BY <3>1 DEF Archive
      <4>2. ASSUME NEW s \in Session
            PROVE  TxOK(tx'[s])
        <5>1. PICK trimmed \in BOOLEAN : tx'[s] = [tx[s] EXCEPT !.trimmed = trimmed]
          BY <4>1
        <5> QED
          BY <1>1, <5>1 DEF TxOK
      <4> QED
        BY <3>1, <4>2 DEF TxsOK, Archive
    <3>2. CASE ~Archive(i)
      BY <1>1, <1>11, <3>2 DEF Outside, EditRow, RemoveRow, Forge, Damage
    <3> QED
      BY <3>1, <3>2
  <2>4. UNCHANGED <<lastId, holder, pc, day, cursor, seen, signingKey>>
    BY <1>11 DEF Outside, Archive, EditRow, RemoveRow, Forge, Damage
  <2> QED
    BY <2>1, <2>2, <2>3, <2>4 DEF TypeOK
<1>12. CASE UNCHANGED vars
  BY <1>12 DEF vars, TypeOK
<1>13. ASSUME NEW old \in Key, NEW key \in Key, ChangeKey(old, key)
       PROVE  TypeOK'
  <2>1. WalksOK(walk')
    BY <1>13 DEF ChangeKey, WalksOK, WalkOK, IdleWalk
  <2> QED
    BY <1>13, <2>1 DEF ChangeKey, TypeOK
<1> QED
  BY <1>2, <1>3, <1>4, <1>5, <1>6, <1>7, <1>8, <1>9, <1>10, <1>11, <1>12, <1>13 DEF Next, Write, Work

-----------------------------------------------------------------------------
(* The lock and the ids *)

LEMMA LockStep ==
    ASSUME TypeOK, OneWriterAtATime, [Next]_vars
    PROVE  OneWriterAtATime'
<1> USE DEF OneWriterAtATime, InsideLock
<1>1. pc \in [Session -> {"idle", "lock", "lockCheckpoint", "decide", "chain", "commit"}]
  BY DEF TypeOK
<1>2. ASSUME NEW s \in Session, Write(s)
      PROVE  OneWriterAtATime'
  <2>1. CASE Publish(s) \/ \E force \in BOOLEAN : StartCheckpoint(s, force)
    BY <1>1, <2>1 DEF Publish, StartCheckpoint
  <2>2. CASE TakeLock(s)
    BY <1>1, <2>2, SessionAssumption DEF TakeLock
  <2>3. CASE SkipCheckpoint(s) \/ Commit(s)
    BY <1>1, <2>3 DEF SkipCheckpoint, Commit
  <2>4. CASE DecideCheckpoint(s) \/ Chain(s)
    BY <1>1, <2>4 DEF DecideCheckpoint, Chain
  <2>5. CASE Abort(s)
    BY <1>1, <2>5 DEF Abort
  <2> QED
    BY <1>2, <2>1, <2>2, <2>3, <2>4, <2>5 DEF Write, Work
<1>3. CASE UNCHANGED <<pc, holder>>
  BY <1>3
<1> QED
  BY <1>2, <1>3 DEF Next, Poll, Verify, VerifyCheckpoints, VerifyFirst, VerifyBatch, VerifyAgain,
                    Tick, ChangeKey, Outside, Archive, EditRow, RemoveRow, Forge, Damage, vars

(* Whatever happens behind the application's back, the rows that stay keep
   their ids and their order. *)
LEMMA OutsideKeepsIds ==
    ASSUME TypeOK, NEW k \in DOMAIN log, Outside(k)
    PROVE  \E f \in [DOMAIN log' -> DOMAIN log] :
              /\ \A i \in DOMAIN log' : log'[i].id = log[f[i]].id
              /\ \A i, j \in DOMAIN log' : i < j => f[i] < f[j]
<1> DEFINE Embeds(f) == /\ f \in [DOMAIN log' -> DOMAIN log]
                        /\ \A i \in DOMAIN log' : log'[i].id = log[f[i]].id
                        /\ \A i, j \in DOMAIN log' : i < j => f[i] < f[j]
<1>1. /\ DOMAIN log = 1 .. Len(log) /\ Len(log) \in Nat
      /\ \A i \in DOMAIN log : RowOK(log[i])
  BY LogIsSequence DEF TypeOK, LogOK
<1>2. CASE Archive(k)
  <2>1. LogCut(k)
    BY <1>2, ArchiveCuts DEF Archive
  <2>2. Embeds([i \in DOMAIN log' |-> i + k - 1])
    BY <1>1, <2>1 DEF LogCut
  <2> QED
    BY <2>2
<1>3. CASE EditRow(k)
  <2>1. DOMAIN log' = DOMAIN log /\ \A i \in DOMAIN log : log'[i].id = log[i].id
    BY <1>1, <1>3 DEF EditRow, RowOK
  <2>2. Embeds([i \in DOMAIN log |-> i])
    BY <2>1
  <2> QED
    BY <2>2
<1>4. CASE RemoveRow(k)
  <2>1. Embeds([i \in DOMAIN log' |-> IF i < k THEN i ELSE i + 1])
    BY <1>1, <1>4 DEF RemoveRow
  <2> QED
    BY <2>1
<1>5. ASSUME NEW patch \in BOOLEAN, NEW key \in Key, Forge(k, patch, key)
      PROVE  \E f : Embeds(f)
  <2>1. DOMAIN log' = DOMAIN log
    BY <1>5 DEF Forge
  <2>2. ASSUME NEW j \in DOMAIN log
        PROVE  log'[j].id = log[j].id
    <3>1. CASE j < k
      BY <1>5, <3>1 DEF Forge
    <3>2. CASE ~(j < k)
      <4>1. PICK at, facts, prev, hash :
               log'[j] = [log[j] EXCEPT !.at = at, !.facts = facts, !.prev = prev, !.hash = hash]
        BY <1>5, <3>2 DEF Forge
      <4> QED
        BY <1>1, <4>1 DEF RowOK
    <3> QED
      BY <3>1, <3>2
  <2>3. Embeds([i \in DOMAIN log |-> i])
    BY <2>1, <2>2
  <2> QED
    BY <2>3
<1> QED
  BY <1>2, <1>3, <1>4, <1>5 DEF Outside

LEMMA OutsideKeepsTx ==
    ASSUME TypeOK, NEW k \in DOMAIN log, Outside(k)
    PROVE  /\ UNCHANGED <<lastId, holder, pc, day, cursor, seen>>
           /\ \A s \in Session : \E trimmed \in BOOLEAN : tx'[s] = [tx[s] EXCEPT !.trimmed = trimmed]
<1>1. UNCHANGED <<lastId, holder, pc, day, cursor, seen>>
  BY DEF Outside, Archive, EditRow, RemoveRow, Forge, Damage
<1>2. ASSUME NEW s \in Session
      PROVE  \E trimmed \in BOOLEAN : tx'[s] = [tx[s] EXCEPT !.trimmed = trimmed]
  <2>1. CASE Archive(k)
    BY <2>1 DEF Archive
  <2>2. CASE tx' = tx
    <3>1. TxOK(tx[s])
      BY DEF TypeOK, TxsOK
    <3>2. tx'[s] = [tx[s] EXCEPT !.trimmed = tx[s].trimmed] /\ tx[s].trimmed \in BOOLEAN
      BY <2>2, <3>1 DEF TxOK
    <3> QED
      BY <3>2
  <2> QED
    BY <2>1, <2>2 DEF Outside, EditRow, RemoveRow, Forge, Damage
<1> QED
  BY <1>1, <1>2

LEMMA IdsStep ==
    ASSUME TypeOK, OneWriterAtATime, CommitOrderIsIdOrder, IdsDrawn, [Next]_vars
    PROVE  CommitOrderIsIdOrder' /\ IdsDrawn'
<1>1. /\ pc \in [Session -> {"idle", "lock", "lockCheckpoint", "decide", "chain", "commit"}]
      /\ lastId \in Nat
      /\ \A s \in Session : TxOK(tx[s]) /\ tx[s].id \in Nat
      /\ tx = [s \in Session |-> tx[s]]
      /\ DOMAIN log = 1 .. Len(log) /\ Len(log) \in Nat
      /\ \A i \in DOMAIN log : log[i].id \in Nat
  BY LogIsSequence DEF TypeOK, TxsOK, TxOK, LogOK, RowOK
<1>2. ASSUME NEW s \in Session, Commit(s)
      PROVE  CommitOrderIsIdOrder' /\ IdsDrawn'
  <2>1. /\ DOMAIN log' = 1 .. Len(log) + 1
        /\ \A i \in DOMAIN log : log'[i] = log[i]
        /\ log'[Len(log) + 1].id = tx[s].id
    BY <1>2, CommitAppends DEF Commit, LogAppends, RowOf
  <2>2. pc[s] = "commit" /\ \A t \in Session : pc'[t] # "commit"
    BY <1>1, <1>2 DEF Commit, OneWriterAtATime, InsideLock
  <2>3. CommitOrderIsIdOrder'
    BY <1>1, <2>1, <2>2 DEF CommitOrderIsIdOrder, IdsDrawn
  <2>4. IdsDrawn'
    BY <1>1, <1>2, <2>1, <2>2 DEF IdsDrawn, Commit
  <2> QED
    BY <2>3, <2>4
<1>3. ASSUME NEW s \in Session, Chain(s)
      PROVE  CommitOrderIsIdOrder' /\ IdsDrawn'
  <2>1. \A t \in Session : pc'[t] = "commit" => t = s
    BY <1>1, <1>3 DEF Chain, OneWriterAtATime, InsideLock
  <2>2. tx'[s].id = lastId + 1
    BY <1>1, <1>3 DEF Chain, TxOK
  <2> QED
    BY <1>1, <1>3, <2>1, <2>2 DEF Chain, CommitOrderIsIdOrder, IdsDrawn
<1>4. ASSUME log' = log, lastId' = lastId,
             \A s \in Session : pc'[s] = "commit" => pc[s] = "commit" /\ tx'[s].id = tx[s].id
      PROVE  CommitOrderIsIdOrder' /\ IdsDrawn'
  BY <1>4 DEF CommitOrderIsIdOrder, IdsDrawn
<1>5. ASSUME NEW s \in Session,
             \/ Publish(s) \/ \E force \in BOOLEAN : StartCheckpoint(s, force)
             \/ TakeLock(s) \/ SkipCheckpoint(s) \/ DecideCheckpoint(s) \/ Abort(s)
      PROVE  CommitOrderIsIdOrder' /\ IdsDrawn'
  <2>1. log' = log /\ lastId' = lastId
    BY <1>5 DEF Publish, StartCheckpoint, TakeLock, SkipCheckpoint, DecideCheckpoint, Abort
  <2>2. pc'[s] # "commit"
    BY <1>1, <1>5 DEF Publish, StartCheckpoint, TakeLock, SkipCheckpoint, DecideCheckpoint, Abort
  <2>3. \A t \in Session : t # s => pc'[t] = pc[t] /\ tx'[t] = tx[t]
    BY <1>1, <1>5 DEF Publish, StartCheckpoint, TakeLock, SkipCheckpoint, DecideCheckpoint, Abort
  <2> QED
    BY <1>4, <2>1, <2>2, <2>3
<1>6. ASSUME NEW k \in DOMAIN log, Outside(k)
      PROVE  CommitOrderIsIdOrder' /\ IdsDrawn'
  <2>1. PICK f \in [DOMAIN log' -> DOMAIN log] :
           /\ \A i \in DOMAIN log' : log'[i].id = log[f[i]].id
           /\ \A i, j \in DOMAIN log' : i < j => f[i] < f[j]
    BY <1>6, OutsideKeepsIds
  <2>2. lastId' = lastId /\ pc' = pc
    BY <1>6, OutsideKeepsTx
  <2>3. ASSUME NEW s \in Session
        PROVE  tx'[s].id = tx[s].id
    <3>1. PICK trimmed \in BOOLEAN : tx'[s] = [tx[s] EXCEPT !.trimmed = trimmed]
      BY <1>6, OutsideKeepsTx
    <3> QED
      BY <1>1, <3>1 DEF TxOK
  <2> QED
    BY <2>1, <2>2, <2>3 DEF CommitOrderIsIdOrder, IdsDrawn
<1>7. CASE UNCHANGED <<log, lastId, pc, tx>>
  BY <1>4, <1>7
<1> QED
  BY <1>2, <1>3, <1>5, <1>6, <1>7
     DEF Next, Write, Work, Poll, Verify, VerifyCheckpoints, VerifyFirst, VerifyBatch, VerifyAgain,
         Tick, ChangeKey, vars

-----------------------------------------------------------------------------
(* The feed *)

(* A page has no holes: with a row it has every row between the cursor and it. *)
LEMMA PageHasNoHoles ==
    ASSUME TypeOK, NEW after \in Nat, NEW last \in NextRows(after, PageLimit),
           NEW i \in DOMAIN log, after < log[i].id, log[i].id <= log[last].id
    PROVE  i \in NextRows(after, PageLimit)
<1> DEFINE UpTo(k) == {j \in DOMAIN log : after < log[j].id /\ log[j].id <= log[k].id}
<1>1. last \in DOMAIN log /\ Cardinality(UpTo(last)) <= PageLimit
  BY DEF NextRows
<1>2. \A j \in DOMAIN log : log[j].id \in Nat
  BY DEF TypeOK, LogOK, RowOK
<1>3. UpTo(i) \subseteq UpTo(last) /\ UpTo(last) \subseteq DOMAIN log
  BY <1>1, <1>2
<1>4. IsFiniteSet(UpTo(last))
  BY <1>3, LogIsSequence, FS_Subset
<1>5. IsFiniteSet(UpTo(i)) /\ Cardinality(UpTo(i)) <= Cardinality(UpTo(last))
  BY <1>3, <1>4, FS_Subset
<1>6. Cardinality(UpTo(i)) \in Nat /\ Cardinality(UpTo(last)) \in Nat
  BY <1>4, <1>5, FS_CardinalityType
<1>7. Cardinality(UpTo(i)) <= PageLimit
  BY <1>1, <1>5, <1>6, BoundsAssumption
<1> QED
  BY <1>7 DEF NextRows

LEMMA PollerStep ==
    ASSUME TypeOK, OneWriterAtATime, IdsDrawn, PollerMissesNothing, CursorBehind, [Next]_vars
    PROVE  PollerMissesNothing' /\ CursorBehind'
<1>1. /\ pc \in [Session -> {"idle", "lock", "lockCheckpoint", "decide", "chain", "commit"}]
      /\ lastId \in Nat
      /\ cursor \in [Poller -> Nat]
      /\ seen \in [Poller -> SUBSET Nat]
      /\ \A s \in Session : TxOK(tx[s]) /\ tx[s].id \in Nat
      /\ tx = [s \in Session |-> tx[s]]
      /\ DOMAIN log = 1 .. Len(log) /\ Len(log) \in Nat
      /\ \A i \in DOMAIN log : log[i].id \in Nat
  BY LogIsSequence DEF TypeOK, TxsOK, TxOK, LogOK, RowOK
<1>2. ASSUME NEW p \in Poller, Poll(p)
      PROVE  PollerMissesNothing' /\ CursorBehind'
  <2> DEFINE page == NextRows(cursor[p], PageLimit)
  <2>1. PICK last \in page :
           /\ cursor' = [cursor EXCEPT ![p] = log[last].id]
           /\ seen' = [seen EXCEPT ![p] = @ \cup {log[i].id : i \in page}]
           /\ UNCHANGED <<log, lastId, pc, tx>>
    BY <1>2 DEF Poll
  <2>2. last \in DOMAIN log
    BY <2>1 DEF NextRows
  <2>3. ASSUME NEW i \in DOMAIN log, log[i].id <= log[last].id
        PROVE  log[i].id \in seen'[p]
    <3>1. CASE log[i].id <= cursor[p]
      BY <1>1, <2>1, <3>1 DEF PollerMissesNothing
    <3>2. CASE cursor[p] < log[i].id
      <4>1. i \in page
        BY <1>1, <2>1, <2>3, <3>2, PageHasNoHoles
      <4> QED
        BY <1>1, <2>1, <4>1
    <3> QED
      BY <1>1, <3>1, <3>2
  <2>4. PollerMissesNothing'
    BY <1>1, <2>1, <2>3 DEF PollerMissesNothing
  <2>5. CursorBehind'
    BY <1>1, <2>1, <2>2 DEF CursorBehind, IdsDrawn
  <2> QED
    BY <2>4, <2>5
<1>3. ASSUME NEW s \in Session, Commit(s)
      PROVE  PollerMissesNothing' /\ CursorBehind'
  <2>1. /\ DOMAIN log' = 1 .. Len(log) + 1
        /\ \A i \in DOMAIN log : log'[i] = log[i]
        /\ log'[Len(log) + 1].id = tx[s].id
    BY <1>3, CommitAppends DEF Commit, LogAppends, RowOf
  <2>2. pc[s] = "commit" /\ \A t \in Session : pc'[t] = "commit" => pc[t] = "commit"
    BY <1>1, <1>3 DEF Commit
  <2>3. UNCHANGED <<cursor, seen, lastId, tx>>
    BY <1>3 DEF Commit, readers
  <2>4. PollerMissesNothing'
    <3> SUFFICES ASSUME NEW p \in Poller, NEW i \in DOMAIN log', log'[i].id <= cursor[p]
                 PROVE  log'[i].id \in seen[p]
      BY <2>3 DEF PollerMissesNothing
    <3>1. CASE i \in DOMAIN log
      BY <1>1, <2>1, <3>1 DEF PollerMissesNothing
    <3>2. CASE i = Len(log) + 1
      <4>1. cursor[p] < tx[s].id
        BY <1>1, <2>2 DEF CursorBehind
      <4>2. tx[s].id \in Int /\ cursor[p] \in Int
        BY <1>1 DEF TypeOK, TxsOK, TxOK
      <4> QED
        BY <2>1, <3>2, <4>1, <4>2
    <3> QED
      BY <1>1, <2>1, <3>1, <3>2
  <2>5. CursorBehind'
    BY <2>2, <2>3 DEF CursorBehind
  <2> QED
    BY <2>4, <2>5
<1>4. ASSUME NEW s \in Session, Chain(s)
      PROVE  PollerMissesNothing' /\ CursorBehind'
  <2>1. UNCHANGED <<log, cursor, seen>> /\ lastId' = lastId + 1
    BY <1>4 DEF Chain, readers
  <2>2. tx'[s].id = lastId + 1
    BY <1>1, <1>4 DEF Chain, TxOK
  <2>3. \A t \in Session : t # s => pc'[t] = pc[t] /\ tx'[t] = tx[t]
    BY <1>1, <1>4 DEF Chain
  <2>4. PollerMissesNothing'
    BY <2>1 DEF PollerMissesNothing
  <2>5. CursorBehind'
    BY <1>1, <2>1, <2>2, <2>3 DEF CursorBehind
  <2> QED
    BY <2>4, <2>5
<1>5. ASSUME UNCHANGED <<log, lastId, cursor, seen>>,
             \A s \in Session : pc'[s] = "commit" => pc[s] = "commit" /\ tx'[s].id = tx[s].id
      PROVE  PollerMissesNothing' /\ CursorBehind'
  BY <1>5 DEF PollerMissesNothing, CursorBehind
<1>6. ASSUME NEW s \in Session,
             \/ Publish(s) \/ \E force \in BOOLEAN : StartCheckpoint(s, force)
             \/ TakeLock(s) \/ SkipCheckpoint(s) \/ DecideCheckpoint(s) \/ Abort(s)
      PROVE  PollerMissesNothing' /\ CursorBehind'
  <2>1. UNCHANGED <<log, lastId, cursor, seen>>
    BY <1>6 DEF Publish, StartCheckpoint, TakeLock, SkipCheckpoint, DecideCheckpoint, Abort, readers
  <2>2. pc'[s] # "commit"
    BY <1>1, <1>6 DEF Publish, StartCheckpoint, TakeLock, SkipCheckpoint, DecideCheckpoint, Abort
  <2>3. \A t \in Session : t # s => pc'[t] = pc[t] /\ tx'[t] = tx[t]
    BY <1>1, <1>6 DEF Publish, StartCheckpoint, TakeLock, SkipCheckpoint, DecideCheckpoint, Abort
  <2> QED
    BY <1>5, <2>1, <2>2, <2>3
<1>7. ASSUME NEW k \in DOMAIN log, Outside(k)
      PROVE  PollerMissesNothing' /\ CursorBehind'
  <2>1. PICK f \in [DOMAIN log' -> DOMAIN log] : \A i \in DOMAIN log' : log'[i].id = log[f[i]].id
    BY <1>7, OutsideKeepsIds
  <2>2. UNCHANGED <<lastId, pc, cursor, seen>>
    BY <1>7, OutsideKeepsTx
  <2>3. ASSUME NEW s \in Session
        PROVE  tx'[s].id = tx[s].id
    <3>1. PICK trimmed \in BOOLEAN : tx'[s] = [tx[s] EXCEPT !.trimmed = trimmed]
      BY <1>7, OutsideKeepsTx
    <3> QED
      BY <1>1, <3>1 DEF TxOK
  <2>4. PollerMissesNothing'
    BY <2>1, <2>2 DEF PollerMissesNothing
  <2>5. CursorBehind'
    BY <2>2, <2>3 DEF CursorBehind
  <2> QED
    BY <2>4, <2>5
<1>8. CASE UNCHANGED <<log, lastId, pc, tx, cursor, seen>>
  BY <1>5, <1>8
<1> QED
  BY <1>2, <1>3, <1>4, <1>6, <1>7, <1>8
     DEF Next, Write, Work, Verify, VerifyCheckpoints, VerifyFirst, VerifyBatch, VerifyAgain,
         Tick, ChangeKey, readers, vars

-----------------------------------------------------------------------------
(* The chain *)

(* HeadIsLast, of any sequence of rows whose ids grow. *)
LEMMA LastIsLatest ==
    ASSUME NEW q, NEW n \in Nat \ {0}, DOMAIN q = 1 .. n,
           \A i \in DOMAIN q : q[i].id \in Nat,
           \A i, j \in DOMAIN q : i < j => q[i].id < q[j].id
    PROVE  (CHOOSE i \in DOMAIN q : \A j \in DOMAIN q : q[j].id <= q[i].id) = n
<1>1. n \in DOMAIN q /\ \A j \in DOMAIN q : q[j].id <= q[n].id
  OBVIOUS
<1>2. \A i \in DOMAIN q : (\A j \in DOMAIN q : q[j].id <= q[i].id) => i = n
  OBVIOUS
<1> QED
  BY <1>1, <1>2

LEMMA FitsHeadStays ==
    ASSUME TypeOK, NEW s \in Session, FitsHead(s), UNCHANGED log, day' \in Nat, day <= day',
           pc'[s] = pc[s], tx'[s] = tx[s]
    PROVE  FitsHead(s)'
<1>1. HeadHash' = HeadHash
  BY DEF HeadHash, Latest
<1>2. day \in Nat /\ tx[s].at \in Nat
  BY DEF TypeOK, TxsOK, TxOK
<1> QED
  BY <1>1, <1>2 DEF FitsHead

LEMMA ChainStays ==
    ASSUME TypeOK, ChainGrows, UNCHANGED log, day' \in Nat, day <= day',
           \A s \in Session : FitsHead(s)'
    PROVE  ChainGrows'
<1>1. day \in Nat /\ \A i \in DOMAIN log : log[i].at \in Nat
  BY DEF TypeOK, LogOK, RowOK
<1>2. ChainLinked'
  BY DEF ChainGrows, ChainLinked
<1> QED
  BY <1>1, <1>2 DEF ChainGrows

LEMMA CommitKeepsChain ==
    ASSUME TypeOK, OneWriterAtATime, CommitOrderIsIdOrder, ChainGrows,
           NEW s \in Session, Commit(s)
    PROVE  ChainGrows'
<1> DEFINE n == Len(log)
           r == RowOf(tx[s])
<1>1. /\ pc \in [Session -> {"idle", "lock", "lockCheckpoint", "decide", "chain", "commit"}]
      /\ DOMAIN log = 1 .. n /\ n \in Nat
      /\ pc[s] = "commit" /\ UNCHANGED <<tx, day>>
  BY LogIsSequence DEF TypeOK, Commit
<1>2. /\ DOMAIN log' = 1 .. n + 1
      /\ \A i \in DOMAIN log : log'[i] = log[i]
      /\ log'[n + 1] = r
  BY CommitAppends DEF Commit, LogAppends
<1>3. /\ r.prev = HeadHash
      /\ r.hash = ComputedHash(r)
      /\ r.at <= day
      /\ \A i \in DOMAIN log : log[i].at <= r.at
      /\ r.type = Checkpoint => Signed(r.facts, r.prev)
  BY <1>1 DEF ChainGrows, FitsHead, RowOf
<1> HIDE DEF n, r
<1>4. \A i \in DOMAIN log' : log'[i].hash = ComputedHash(log'[i])
  BY <1>1, <1>2, <1>3 DEF ChainGrows, ChainLinked
<1>5. \A i \in DOMAIN log' :
         log'[i].at <= day /\ (log'[i].type = Checkpoint => Signed(log'[i].facts, log'[i].prev))
  BY <1>1, <1>2, <1>3 DEF ChainGrows
<1>6. Rightful(log'[1])
  <2>1. CASE n = 0
    <3>1. log = <<>>
      BY <2>1, LogIsSequence DEF n
    <3>2. log'[1].prev = Genesis
      BY <1>2, <1>3, <2>1, <3>1 DEF HeadHash
    <3> QED
      BY <3>2 DEF Rightful
  <2>2. CASE n # 0
    BY <1>1, <1>2, <2>2 DEF ChainGrows, ChainLinked
  <2> QED
    BY <2>1, <2>2
<1>7. ASSUME NEW i \in DOMAIN log', i # 1
      PROVE  log'[i].prev = log'[i - 1].hash /\ log'[i - 1].at <= log'[i].at
  <2>1. CASE i = n + 1
    <3>1. n # 0 /\ log # <<>>
      BY <1>1, <1>7, <2>1, LogIsSequence DEF n
    <3>2. HeadHash = log[n].hash
      BY <3>1, HeadIsLast DEF n
    <3>3. n \in DOMAIN log /\ i - 1 = n
      BY <1>1, <2>1, <3>1
    <3> QED
      BY <1>2, <1>3, <2>1, <3>2, <3>3
  <2>2. CASE i # n + 1
    <3>1. i \in DOMAIN log /\ i - 1 \in DOMAIN log
      BY <1>1, <1>2, <1>7, <2>2
    <3> QED
      BY <1>2, <1>7, <3>1 DEF ChainGrows, ChainLinked
  <2> QED
    BY <2>1, <2>2
<1>8. ChainLinked'
  BY <1>4, <1>6, <1>7 DEF ChainLinked
<1>9. ASSUME NEW t \in Session
      PROVE  FitsHead(t)'
  <2>1. pc'[t] \notin {"chain", "commit"} /\ (pc'[t] = "lock" => pc[t] = "lock")
    BY <1>1 DEF Commit, OneWriterAtATime, InsideLock
  <2> QED
    BY <1>1, <2>1 DEF ChainGrows, FitsHead
<1> QED
  BY <1>1, <1>5, <1>8, <1>9 DEF ChainGrows

LEMMA ArchiveKeepsChain ==
    ASSUME TypeOK, CommitOrderIsIdOrder, ChainGrows, NEW k \in DOMAIN log, Archive(k)
    PROVE  ChainGrows'
<1> DEFINE n == Len(log)
           m == n - k + 1
<1>1. /\ DOMAIN log = 1 .. n /\ n \in Nat /\ k \in 1 .. n /\ m \in Nat \ {0}
      /\ \A i \in DOMAIN log : log[i].id \in Nat
      /\ UNCHANGED <<pc, day>>
  BY LogIsSequence DEF TypeOK, LogOK, RowOK, Archive
<1>2. LogCut(k)
  BY ArchiveCuts DEF Archive
<1>3. /\ DOMAIN log' = 1 .. m
      /\ \A i \in DOMAIN log' : i + k - 1 \in DOMAIN log /\ log'[i] = log[i + k - 1]
  BY <1>2 DEF LogCut
<1>4. log # <<>> /\ log' # <<>>
  <2>1. 1 \in DOMAIN log'
    BY <1>1, <1>3
  <2>2. DOMAIN log # {} /\ DOMAIN log' # {}
    BY <2>1
  <2>3. log # <<>>
    BY <2>2
  <2>4. log' # <<>>
    BY <2>2
  <2> QED
    BY <2>3, <2>4
<1> HIDE DEF n
<1>5. HeadHash' = HeadHash
  <2>1. ASSUME NEW i \in DOMAIN log', NEW j \in DOMAIN log', i < j
        PROVE  log'[i].id < log'[j].id
    <3>1. i + k - 1 \in DOMAIN log /\ j + k - 1 \in DOMAIN log /\ i + k - 1 < j + k - 1
      BY <1>1, <1>3, <2>1
    <3>2. log[i + k - 1].id < log[j + k - 1].id
      BY <3>1 DEF CommitOrderIsIdOrder
    <3> QED
      BY <1>3, <3>2
  <2>2. \A i \in DOMAIN log' : log'[i].id \in Nat
    BY <1>1, <1>3
  <2>3. (CHOOSE i \in DOMAIN log' : \A j \in DOMAIN log' : log'[j].id <= log'[i].id) = m
    <3> HIDE DEF m
    <3> QED
      BY <1>1, <1>3, <2>1, <2>2, LastIsLatest
  <2>4. HeadHash' = log'[m].hash
    BY <1>4, <2>3 DEF HeadHash, Latest
  <2>5. log'[m] = log[n]
    BY <1>1, <1>3
  <2> QED
    BY <1>4, <2>4, <2>5, HeadIsLast DEF n
<1>6. \A i \in DOMAIN log' :
         /\ log'[i].hash = ComputedHash(log'[i])
         /\ log'[i].at <= day
         /\ log'[i].type = Checkpoint => Signed(log'[i].facts, log'[i].prev)
  BY <1>3 DEF ChainGrows, ChainLinked
<1>7. Rightful(log'[1])
  <2>1. log'[1] = log[k] /\ 1 \in DOMAIN log' /\ log[k].type = Checkpoint
    BY <1>1, <1>3 DEF Archive
  <2> QED
    BY <1>6, <2>1 DEF Rightful, GenuineCheckpoint, Signed
<1>8. ASSUME NEW i \in DOMAIN log', i # 1
      PROVE  log'[i].prev = log'[i - 1].hash /\ log'[i - 1].at <= log'[i].at
  <2> DEFINE j == i + k - 1
  <2>1. i - 1 \in DOMAIN log' /\ j \in DOMAIN log /\ j # 1
    BY <1>1, <1>3, <1>8
  <2>2. log'[i] = log[j] /\ log'[i - 1] = log[j - 1]
    BY <1>1, <1>3, <1>8, <2>1
  <2> QED
    BY <2>1, <2>2 DEF ChainGrows, ChainLinked
<1>9. ChainLinked'
  BY <1>6, <1>7, <1>8 DEF ChainLinked
<1>10. ASSUME NEW s \in Session
       PROVE  FitsHead(s)'
  <2>1. PICK trimmed \in BOOLEAN : tx'[s] = [tx[s] EXCEPT !.trimmed = trimmed]
    BY DEF Archive
  <2>2. /\ tx'[s].type = tx[s].type /\ tx'[s].facts = tx[s].facts
        /\ tx'[s].prev = tx[s].prev /\ tx'[s].hash = tx[s].hash
        /\ tx'[s].id = tx[s].id /\ tx'[s].at = tx[s].at
    BY <2>1 DEF TypeOK, TxsOK, TxOK
  <2>3. RowOf(tx'[s]) = RowOf(tx[s])
    BY <2>2 DEF RowOf
  <2>4. FitsHead(s) /\ pc'[s] = pc[s] /\ day' = day
    BY <1>1 DEF ChainGrows
  <2>5. pc[s] = "commit" => \A i \in DOMAIN log' : log'[i].at <= tx[s].at
    BY <1>3, <2>4 DEF FitsHead
  <2> QED
    BY <1>5, <2>2, <2>3, <2>4, <2>5 DEF FitsHead
<1> QED
  BY <1>1, <1>6, <1>9, <1>10 DEF ChainGrows

LEMMA ChainStep ==
    ASSUME TypeOK, OneWriterAtATime, CommitOrderIsIdOrder, ChainGrows, damaged = {},
           [Next]_vars, damaged' = {}
    PROVE  ChainGrows'
<1>1. /\ pc \in [Session -> {"idle", "lock", "lockCheckpoint", "decide", "chain", "commit"}]
      /\ day \in Nat
      /\ tx = [s \in Session |-> tx[s]]
      /\ \A s \in Session : FitsHead(s) /\ TxOK(tx[s])
      /\ \A i \in DOMAIN log : log[i].at \in Nat
  BY DEF TypeOK, TxsOK, LogOK, RowOK, ChainGrows
<1>2. ASSUME NEW s \in Session, UNCHANGED <<log, day>>, FitsHead(s)',
             \A t \in Session : t # s => pc'[t] = pc[t] /\ tx'[t] = tx[t]
      PROVE  ChainGrows'
  <2>1. \A t \in Session : t # s => FitsHead(t)'
    BY <1>1, <1>2, FitsHeadStays
  <2> QED
    BY <1>1, <1>2, <2>1, ChainStays
<1>3. ASSUME UNCHANGED <<log, pc, tx>>, day' \in Nat, day <= day'
      PROVE  ChainGrows'
  <2>1. \A t \in Session : FitsHead(t)'
    BY <1>1, <1>3, FitsHeadStays
  <2> QED
    BY <1>3, <2>1, ChainStays
<1>4. ASSUME NEW s \in Session, Publish(s)
      PROVE  ChainGrows'
  <2>1. pc'[s] = "lock" /\ tx'[s].type = Event
    BY <1>1, <1>4 DEF Publish, IdleTx
  <2>2. FitsHead(s)'
    BY <2>1 DEF FitsHead
  <2> QED
    BY <1>1, <1>2, <1>4, <2>2 DEF Publish
<1>5. ASSUME NEW s \in Session, NEW force \in BOOLEAN, StartCheckpoint(s, force)
      PROVE  ChainGrows'
  <2>1. pc'[s] = "lockCheckpoint"
    BY <1>1, <1>5 DEF StartCheckpoint
  <2>2. FitsHead(s)'
    BY <2>1 DEF FitsHead
  <2> QED
    BY <1>1, <1>2, <1>5, <2>2 DEF StartCheckpoint
<1>6. ASSUME NEW s \in Session, TakeLock(s)
      PROVE  ChainGrows'
  <2>1. pc'[s] = "decide" \/ (pc'[s] = "chain" /\ tx'[s].type = Event)
    BY <1>1, <1>6 DEF TakeLock, FitsHead
  <2>2. FitsHead(s)'
    BY <2>1 DEF FitsHead, Event, Checkpoint
  <2> QED
    BY <1>1, <1>2, <1>6, <2>2 DEF TakeLock
<1>7. ASSUME NEW s \in Session, SkipCheckpoint(s) \/ Abort(s)
      PROVE  ChainGrows'
  <2>1. pc'[s] = "idle"
    BY <1>1, <1>7 DEF SkipCheckpoint, Abort
  <2>2. FitsHead(s)'
    BY <2>1 DEF FitsHead
  <2> QED
    BY <1>1, <1>2, <1>7, <2>2 DEF SkipCheckpoint, Abort
<1>8. ASSUME NEW s \in Session, DecideCheckpoint(s)
      PROVE  ChainGrows'
  <2>1. PICK facts :
           /\ Signed(facts, HeadHash)
           /\ tx' = [tx EXCEPT ![s] = [tx[s] EXCEPT !.facts = facts]]
    BY <1>8 DEF DecideCheckpoint, Signed, SignedFacts, BearsSignature
  <2>2. pc'[s] = "chain" /\ tx'[s].facts = facts /\ UNCHANGED log
    BY <1>1, <1>8, <2>1 DEF DecideCheckpoint, TxOK
  <2>3. HeadHash' = HeadHash
    BY <2>2 DEF HeadHash, Latest
  <2>4. FitsHead(s)'
    BY <2>1, <2>2, <2>3 DEF FitsHead
  <2> QED
    BY <1>1, <1>2, <1>8, <2>4 DEF DecideCheckpoint
<1>9. ASSUME NEW s \in Session, Chain(s)
      PROVE  ChainGrows'
  <2>1. PICK id, hash :
           /\ hash = RowHash(HeadHash, id, day, tx[s].type, tx[s].facts)
           /\ tx' = [tx EXCEPT ![s] = [tx[s] EXCEPT !.id = id, !.at = day,
                                                    !.prev = HeadHash, !.hash = hash]]
    BY <1>9 DEF Chain
  <2>2. pc'[s] = "commit" /\ pc[s] = "chain" /\ UNCHANGED <<log, day>>
    BY <1>1, <1>9 DEF Chain
  <2>3. /\ tx'[s].id = id /\ tx'[s].at = day /\ tx'[s].prev = HeadHash /\ tx'[s].hash = hash
        /\ tx'[s].type = tx[s].type /\ tx'[s].facts = tx[s].facts
    BY <1>1, <2>1 DEF TxOK
  <2>4. HeadHash' = HeadHash
    BY <2>2 DEF HeadHash, Latest
  <2>5. hash = ComputedHash(RowOf(tx'[s]))
    BY <2>1, <2>3 DEF ComputedHash, RowOf
  <2>6. \A i \in DOMAIN log : log[i].at <= day
    BY DEF ChainGrows
  <2>7. tx[s].type = Checkpoint => Signed(tx[s].facts, HeadHash)
    BY <1>1, <2>2 DEF FitsHead
  <2>8. FitsHead(s)'
    BY <1>1, <2>2, <2>3, <2>4, <2>5, <2>6, <2>7 DEF FitsHead
  <2> QED
    BY <1>1, <1>2, <1>9, <2>2, <2>8 DEF Chain
<1>10. ASSUME Tick
       PROVE  ChainGrows'
  BY <1>1, <1>3, <1>10 DEF Tick
<1>11. ASSUME NEW k \in DOMAIN log, Outside(k)
       PROVE  ChainGrows'
  <2>1. ~Damage(k)
    BY DEF Damage
  <2>2. Archive(k)
    BY <1>11, <2>1 DEF Outside, EditRow, RemoveRow, Forge
  <2> QED
    BY <2>2, ArchiveKeepsChain
<1>12. CASE UNCHANGED <<log, pc, tx, day>>
  BY <1>1, <1>3, <1>12
<1> QED
  BY <1>4, <1>5, <1>6, <1>7, <1>8, <1>9, <1>10, <1>11, <1>12, CommitKeepsChain
     DEF Next, Write, Work, Poll, Verify, VerifyCheckpoints, VerifyFirst, VerifyBatch, VerifyAgain,
         ChangeKey, vars

-----------------------------------------------------------------------------
(* The theorems *)

LEMMA InvariantInit ==
    ASSUME Init
    PROVE  IInv
<1>1. TypeOK
  <2>1. LogOK(log)
    BY EmptySeq DEF Init, LogOK
  <2>2. TxsOK(tx)
    BY DEF Init, TxsOK, TxOK, IdleTx, Event, NoFacts
  <2>3. WalksOK(walk)
    BY DEF Init, WalksOK, WalkOK, IdleWalk
  <2> QED
    BY <2>1, <2>2, <2>3 DEF Init, TypeOK
<1>2. OneWriterAtATime /\ CommitOrderIsIdOrder
  BY DEF Init, OneWriterAtATime, InsideLock, CommitOrderIsIdOrder
<1>3. IdsDrawn /\ PollerMissesNothing
  BY DEF Init, IdsDrawn, PollerMissesNothing
<1>4. CursorBehind
  BY DEF Init, CursorBehind
<1>5. ChainGrows
  BY DEF Init, ChainGrows, ChainLinked, FitsHead
<1> QED
  BY <1>1, <1>2, <1>3, <1>4, <1>5 DEF IInv

LEMMA InvariantStep ==
    ASSUME IInv, [Next]_vars
    PROVE  IInv'
<1>1. /\ TypeOK /\ OneWriterAtATime /\ CommitOrderIsIdOrder /\ IdsDrawn
      /\ PollerMissesNothing /\ CursorBehind
      /\ damaged = {} => ChainGrows
  BY DEF IInv
<1>2. damaged' = {} => damaged = {}
  BY DEF Next, Write, Work, Publish, StartCheckpoint, TakeLock, SkipCheckpoint, DecideCheckpoint,
         Chain, Commit, Abort, Poll, Verify, VerifyCheckpoints, VerifyFirst, VerifyBatch,
         VerifyAgain, Tick, ChangeKey, Outside, Archive, EditRow, RemoveRow, Forge, Damage, readers, vars
<1>3. damaged' = {} => ChainGrows'
  BY <1>1, <1>2, ChainStep
<1>4. TypeOK' /\ OneWriterAtATime'
  BY <1>1, TypeStep, LockStep
<1>5. CommitOrderIsIdOrder' /\ IdsDrawn'
  BY <1>1, IdsStep
<1>6. PollerMissesNothing' /\ CursorBehind'
  BY <1>1, PollerStep
<1> QED
  BY <1>3, <1>4, <1>5, <1>6 DEF IInv

(* The inductive invariant holds, for any number of sessions, pollers and
   verifiers and any bounds. *)
THEOREM Invariant == Spec => []IInv
<1>1. Init => IInv
  BY InvariantInit
<1>2. IInv /\ [Next]_vars => IInv'
  BY InvariantStep
<1> QED
  BY <1>1, <1>2, PTL DEF Spec

(* Every variable keeps its shape. *)
THEOREM TypeCorrect == Spec => []TypeOK
<1>1. IInv => TypeOK
  BY DEF IInv
<1> QED
  BY <1>1, Invariant, PTL

(* The chain lock covers reading the head, drawing the id and the commit. *)
THEOREM LockCorrect == Spec => []OneWriterAtATime
<1>1. IInv => OneWriterAtATime
  BY DEF IInv
<1> QED
  BY <1>1, Invariant, PTL

(* Rows become visible in the order of their ids, aborts, archives and damage
   notwithstanding. *)
THEOREM OrderCorrect == Spec => []CommitOrderIsIdOrder
<1>1. IInv => CommitOrderIsIdOrder
  BY DEF IInv
<1> QED
  BY <1>1, Invariant, PTL

(* GET /api/events with the last id as its cursor delivers every event, whatever
   commits between two polls. *)
THEOREM FeedCorrect == Spec => []PollerMissesNothing
<1>1. IInv => PollerMissesNothing
  BY DEF IInv
<1> QED
  BY <1>1, Invariant, PTL

(* The log the application and the archiving procedure leave is one chain: no
   two rows share a predecessor and no link is missing. *)
THEOREM ChainCorrect == Spec => []OneChain
<1>1. IInv => UndamagedChain
  BY DEF IInv, ChainGrows, UndamagedChain
<1>2. IInv => OneChain
  BY <1>1 DEF IInv, OneChain
<1> QED
  BY <1>2, Invariant, PTL

-----------------------------------------------------------------------------
(* Checkpoints: what one has counted, and that it is due. *)

Upto(id) == {i \in DOMAIN log : log[i].id <= id}

(* What was counted before the lock still is what lies below the head seen then. *)
BulkCounted(s) ==
    pc[s] \in {"lockCheckpoint", "decide"} /\ ~tx[s].trimmed =>
        tx[s].seenHead <= HeadId /\ tx[s].seenCount = Cardinality(Upto(tx[s].seenHead))

(* Under the lock the signed facts are those of the log as it is. *)
FactsStand(s) ==
    pc[s] \in {"chain", "commit"} /\ tx[s].type = Checkpoint /\ ~tx[s].trimmed =>
        tx[s].facts.headId = HeadId /\ tx[s].facts.count = Len(log)

(* Every checkpoint in the log was written on an earlier day than this one will bear. *)
StillDue(s) ==
    /\ pc[s] = "chain" /\ tx[s].type = Checkpoint /\ ~tx[s].force =>
          \A i \in DOMAIN log : log[i].type = Checkpoint => log[i].at < day
    /\ pc[s] = "commit" /\ tx[s].type = Checkpoint /\ ~tx[s].force =>
          \A i \in DOMAIN log : log[i].type = Checkpoint => log[i].at < tx[s].at

CheckpointReady ==
    \A s \in Session :
        /\ BulkCounted(s) /\ FactsStand(s) /\ StillDue(s)
        /\ pc[s] = "commit" => tx[s].id > 0

LEMMA CheckpointsStart ==
    ASSUME Init
    PROVE  CheckpointReady
BY DEF Init, CheckpointReady, BulkCounted, FactsStand, StillDue

LEMMA ReadyStays ==
    ASSUME TypeOK, NEW s \in Session, UNCHANGED log, day' \in Nat, day <= day',
           pc'[s] = pc[s], tx'[s] = tx[s],
           BulkCounted(s) /\ FactsStand(s) /\ StillDue(s)
    PROVE  (BulkCounted(s) /\ FactsStand(s) /\ StillDue(s))'
<1>1. HeadId' = HeadId
  BY DEF HeadId, Latest
<1>2. \A id : Upto(id)' = Upto(id)
  BY DEF Upto
<1>3. day \in Nat /\ \A i \in DOMAIN log : log[i].at \in Nat
  BY DEF TypeOK, LogOK, RowOK
<1>4. BulkCounted(s)' /\ FactsStand(s)'
  BY <1>1, <1>2 DEF BulkCounted, FactsStand, Upto
<1>5. StillDue(s)'
  BY <1>3 DEF StillDue
<1> QED
  BY <1>4, <1>5

(* The bulk and the tail are the whole log. *)
LEMMA TailCompletes ==
    ASSUME TypeOK, NEW head \in Nat
    PROVE  Cardinality(Upto(head)) + TailCount(head) = Len(log)
<1> DEFINE Above == {i \in DOMAIN log : log[i].id > head}
<1>1. Upto(head) \cup Above = 1 .. Len(log) /\ Upto(head) \cap Above = {}
  BY LogIsSequence DEF Upto, TypeOK, LogOK, RowOK
<1>2. IsFiniteSet(Upto(head)) /\ IsFiniteSet(Above)
  BY LogIsSequence, FS_Subset DEF Upto
<1>3. Cardinality(1 .. Len(log)) = Len(log)
  BY LogIsSequence, FS_Interval
<1>4. Cardinality(Upto(head)) \in Nat /\ Cardinality(Above) \in Nat
      /\ Cardinality(Upto(head) \cap Above) = 0
  BY <1>1, <1>2, FS_CardinalityType, FS_EmptySet
<1>5. Cardinality(Upto(head) \cup Above)
      = Cardinality(Upto(head)) + Cardinality(Above) - Cardinality(Upto(head) \cap Above)
  BY <1>2, FS_Union
<1>6. TailCount(head) = Cardinality(Above)
  BY DEF TailCount
<1> HIDE DEF Above
<1>7. Cardinality(Upto(head) \cup Above) = Len(log)
  BY <1>1, <1>3
<1> QED
  BY <1>4, <1>5, <1>6, <1>7

LEMMA AllUptoHead ==
    ASSUME TypeOK, CommitOrderIsIdOrder
    PROVE  Cardinality(Upto(HeadId)) = Len(log)
<1>1. Upto(HeadId) = DOMAIN log
  <2>1. CASE log = <<>>
    BY <2>1, LogIsSequence DEF Upto
  <2>2. CASE log # <<>>
    <3>1. Len(log) \in DOMAIN log /\ HeadId = log[Len(log)].id
      BY <2>2, HeadIsLast
    <3>2. ASSUME NEW i \in DOMAIN log
          PROVE  log[i].id <= HeadId
      <4>1. log[i].id \in Nat /\ (i < Len(log) \/ i = Len(log))
        BY LogIsSequence DEF TypeOK, LogOK, RowOK
      <4>2. i < Len(log) => log[i].id < log[Len(log)].id
        BY <3>1 DEF CommitOrderIsIdOrder
      <4>3. log[Len(log)].id \in Nat
        BY <3>1 DEF TypeOK, LogOK, RowOK
      <4> QED
        BY <3>1, <4>1, <4>2, <4>3
    <3> QED
      BY <3>2 DEF Upto
  <2> QED
    BY <2>1, <2>2
<1>2. DOMAIN log = 1 .. Len(log) /\ Cardinality(1 .. Len(log)) = Len(log)
  BY LogIsSequence, FS_Interval
<1> QED
  BY <1>1, <1>2

LEMMA LargestIn ==
    ASSUME NEW n \in Nat, NEW S \in SUBSET (0 .. n), S # {}
    PROVE  \E m \in S : \A x \in S : x <= m
<1> DEFINE T == {n - x : x \in S}
           R == {ss \in Nat \X Nat : ss[1] < ss[2]}
<1>1. T \in SUBSET Nat /\ T # {}
  <2>1. \A x \in S : n - x \in Nat
    OBVIOUS
  <2>2. PICK x \in S : TRUE
    OBVIOUS
  <2> QED
    BY <2>1, <2>2
<1>2. \E t \in T : \A u \in T : ~(<<u, t>> \in R)
  <2>1. IsWellFoundedOn(R, Nat)
    BY NatLessThanWellFounded DEF OpToRel
  <2> HIDE DEF R, T
  <2> QED
    BY <1>1, <2>1, WFMin
<1>3. PICK m \in S : \A u \in T : ~(u < n - m)
  BY <1>1, <1>2
<1>4. \A x \in S : x <= m
  <2> TAKE x \in S
  <2>1. n - x \in T /\ x \in 0 .. n /\ m \in 0 .. n
    OBVIOUS
  <2>2. ~(n - x < n - m)
    BY <1>3, <2>1
  <2> HIDE DEF T
  <2> QED
    BY <2>1, <2>2
<1> QED
  BY <1>4

(* While the chain holds, later rows bear later times. *)
LEMMA TimesClimb ==
    ASSUME TypeOK, ChainLinked, NEW i \in DOMAIN log, NEW j \in DOMAIN log, i <= j
    PROVE  log[i].at <= log[j].at
<1>1. DOMAIN log = 1 .. Len(log) /\ Len(log) \in Nat /\ \A k \in DOMAIN log : log[k].at \in Nat
  BY LogIsSequence DEF TypeOK, LogOK, RowOK
<1> DEFINE T == {k \in 0 .. Len(log) : k \in DOMAIN log /\ i <= k /\ k <= j
                                     /\ ~(log[k].at <= log[j].at)}
<1>2. CASE T = {}
  BY <1>1, <1>2
<1>3. CASE T # {}
  <2>1. PICK m \in T : \A x \in T : x <= m
    <3>1. T \in SUBSET (0 .. Len(log))
      OBVIOUS
    <3> HIDE DEF T
    <3> QED
      BY <1>1, <1>3, <3>1, LargestIn
  <2>2. m \in DOMAIN log /\ m < j /\ m + 1 \in DOMAIN log /\ m + 1 # 1
    BY <1>1, <2>1
  <2>3. log[m].at <= log[m + 1].at
    BY <1>1, <2>2 DEF ChainLinked
  <2>4. m + 1 \notin T
    BY <1>1, <2>1, <2>2
  <2>5. log[m + 1].at <= log[j].at
    BY <1>1, <2>1, <2>2, <2>4
  <2> QED
    BY <1>1, <2>1, <2>2, <2>3, <2>5
<1> QED
  BY <1>2, <1>3

(* While the chain holds, no checkpoint is later than the latest. *)
LEMMA LatestCheckpointDay ==
    ASSUME TypeOK, CommitOrderIsIdOrder, ChainGrows,
           NEW i \in DOMAIN log, log[i].type = Checkpoint, day # LastCheckpointDay
    PROVE  log[i].at < day
<1> DEFINE checkpoints == {j \in DOMAIN log : log[j].type = Checkpoint}
           top == Latest(checkpoints)
<1>0. ChainLinked
  BY DEF ChainGrows
<1>1. /\ DOMAIN log = 1 .. Len(log) /\ Len(log) \in Nat /\ day \in Nat
      /\ \A j \in DOMAIN log : log[j].id \in Nat /\ log[j].at \in Nat /\ log[j].at <= day
  BY LogIsSequence DEF TypeOK, LogOK, RowOK, ChainGrows
<1>2. checkpoints \subseteq 0 .. Len(log) /\ i \in checkpoints
  BY <1>1
<1>3. IsFiniteSet(checkpoints)
  BY <1>1, <1>2, LogIsSequence, FS_Subset
<1>4. PICK m \in checkpoints : \A j \in checkpoints : j <= m
  <2> HIDE DEF checkpoints
  <2> QED
    BY <1>1, <1>2, <1>3, LargestIn
<1>5. m \in DOMAIN log /\ \A j \in checkpoints : log[j].id <= log[m].id
  BY <1>1, <1>4 DEF CommitOrderIsIdOrder
<1>6. top \in checkpoints /\ \A j \in checkpoints : log[j].id <= log[top].id
  BY <1>4, <1>5 DEF Latest
<1>7. LastCheckpointDay = log[top].at
  BY <1>2 DEF LastCheckpointDay
<1>8. i <= top
  BY <1>1, <1>2, <1>6 DEF CommitOrderIsIdOrder
<1>9. log[i].at <= log[top].at
  BY <1>1, <1>2, <1>6, <1>8, <1>0, TimesClimb
<1>10. log[top].at <= day /\ log[top].at \in Nat /\ log[i].at \in Nat
  BY <1>1, <1>6
<1> QED
  BY <1>1, <1>7, <1>9, <1>10

LEMMA CheckpointStep ==
    ASSUME IInv, damaged = {}, CheckpointReady, [Next]_vars, damaged' = {}
    PROVE  CheckpointReady'
<1>1. /\ TypeOK /\ OneWriterAtATime /\ CommitOrderIsIdOrder /\ IdsDrawn /\ ChainGrows
      /\ pc \in [Session -> {"idle", "lock", "lockCheckpoint", "decide", "chain", "commit"}]
      /\ day \in Nat /\ lastId \in Nat
      /\ tx = [s \in Session |-> tx[s]]
      /\ \A s \in Session : TxOK(tx[s])
      /\ HeadId \in Nat
  BY HeadIdIsNat DEF IInv, TypeOK, TxsOK
<1> DEFINE Ready(s) == BulkCounted(s) /\ FactsStand(s) /\ StillDue(s)
<1>2. ASSUME NEW s \in Session, UNCHANGED <<log, day>>, Ready(s)', pc'[s] = "commit" => tx'[s].id > 0,
             \A t \in Session : t # s => pc'[t] = pc[t] /\ tx'[t] = tx[t]
      PROVE  CheckpointReady'
  <2>1. ASSUME NEW t \in Session, t # s
        PROVE  Ready(t)' /\ (pc'[t] = "commit" => tx'[t].id > 0)
    <3>1. Ready(t)
      BY DEF CheckpointReady
    <3>2. pc'[t] = pc[t] /\ tx'[t] = tx[t] /\ day' \in Nat /\ day <= day'
      BY <1>1, <1>2, <2>1
    <3> QED
      BY <1>1, <1>2, <3>1, <3>2, ReadyStays DEF CheckpointReady
  <2> QED
    BY <1>2, <2>1 DEF CheckpointReady
<1>3. ASSUME UNCHANGED <<log, pc, tx>>, day' \in Nat, day <= day'
      PROVE  CheckpointReady'
  <2>1. ASSUME NEW t \in Session
        PROVE  Ready(t)' /\ (pc'[t] = "commit" => tx'[t].id > 0)
    <3>1. Ready(t)
      BY DEF CheckpointReady
    <3> QED
      BY <1>1, <1>3, <3>1, ReadyStays DEF CheckpointReady
  <2> QED
    BY <2>1 DEF CheckpointReady
<1>4. ASSUME NEW s \in Session, Publish(s)
      PROVE  CheckpointReady'
  <2>1. pc'[s] = "lock"
    BY <1>1, <1>4 DEF Publish
  <2>2. Ready(s)'
    BY <2>1 DEF BulkCounted, FactsStand, StillDue
  <2> QED
    BY <1>1, <1>2, <1>4, <2>1, <2>2 DEF Publish
<1>5. ASSUME NEW s \in Session, NEW force \in BOOLEAN, StartCheckpoint(s, force)
      PROVE  CheckpointReady'
  <2>1. /\ pc'[s] = "lockCheckpoint" /\ UNCHANGED <<log, day>>
        /\ tx'[s].seenHead = HeadId /\ tx'[s].seenCount = Len(log)
    BY <1>1, <1>5 DEF StartCheckpoint, IdleTx
  <2>2. HeadId' = HeadId /\ Upto(HeadId)' = Upto(HeadId)
    BY <2>1 DEF HeadId, Latest, Upto
  <2>3. Cardinality(Upto(HeadId)) = Len(log)
    BY <1>1, AllUptoHead
  <2>4. BulkCounted(s)'
    BY <1>1, <2>1, <2>2, <2>3 DEF BulkCounted, Upto
  <2>5. Ready(s)'
    BY <2>1, <2>4 DEF FactsStand, StillDue
  <2> QED
    BY <1>1, <1>2, <1>5, <2>1, <2>5 DEF StartCheckpoint
<1>6. ASSUME NEW s \in Session, TakeLock(s)
      PROVE  CheckpointReady'
  <2>1. UNCHANGED <<log, tx, day>> /\ pc[s] \in {"lock", "lockCheckpoint"}
        /\ pc'[s] = IF pc[s] = "lock" THEN "chain" ELSE "decide"
    BY <1>1, <1>6 DEF TakeLock
  <2>2. CASE pc[s] = "lock"
    <3>1. pc'[s] = "chain" /\ tx'[s].type = Event
      BY <1>1, <2>1, <2>2 DEF ChainGrows, FitsHead
    <3>2. Ready(s)'
      BY <3>1 DEF BulkCounted, FactsStand, StillDue, Event, Checkpoint
    <3> QED
      BY <1>1, <1>2, <1>6, <2>1, <3>1, <3>2 DEF TakeLock
  <2>3. CASE pc[s] = "lockCheckpoint"
    <3>1. pc'[s] = "decide"
      BY <2>1, <2>3
    <3>2. HeadId' = HeadId /\ \A id : Upto(id)' = Upto(id)
      BY <2>1 DEF HeadId, Latest, Upto
    <3>3. BulkCounted(s)
      BY DEF CheckpointReady
    <3>4. BulkCounted(s)'
      BY <2>1, <2>3, <3>1, <3>2, <3>3 DEF BulkCounted, Upto
    <3>5. Ready(s)'
      BY <3>1, <3>4 DEF FactsStand, StillDue
    <3> QED
      BY <1>1, <1>2, <1>6, <2>1, <3>1, <3>5 DEF TakeLock
  <2> QED
    BY <2>1, <2>2, <2>3
<1>7. ASSUME NEW s \in Session, SkipCheckpoint(s) \/ Abort(s)
      PROVE  CheckpointReady'
  <2>1. pc'[s] = "idle"
    BY <1>1, <1>7 DEF SkipCheckpoint, Abort
  <2>2. Ready(s)'
    BY <2>1 DEF BulkCounted, FactsStand, StillDue
  <2> QED
    BY <1>1, <1>2, <1>7, <2>1, <2>2 DEF SkipCheckpoint, Abort
<1>8. ASSUME NEW s \in Session, DecideCheckpoint(s)
      PROVE  CheckpointReady'
  <2> DEFINE facts == SignedFacts(HeadId, HeadHash, tx[s].seenCount + TailCount(tx[s].seenHead))
  <2>1. /\ pc[s] = "decide" /\ pc'[s] = "chain" /\ UNCHANGED <<log, day>>
        /\ tx'[s] = [tx[s] EXCEPT !.facts = facts]
        /\ tx[s].force \/ ~CheckpointNotDue
    BY <1>1, <1>8 DEF DecideCheckpoint
  <2>2. /\ tx'[s].facts = facts /\ tx'[s].type = tx[s].type /\ tx'[s].force = tx[s].force
        /\ tx'[s].trimmed = tx[s].trimmed /\ tx[s].seenHead \in Nat
    BY <1>1, <2>1 DEF TxOK
  <2>3. HeadId' = HeadId
    BY <2>1 DEF HeadId, Latest
  <2>4. ~tx[s].trimmed => tx[s].seenCount = Cardinality(Upto(tx[s].seenHead))
    BY <2>1 DEF CheckpointReady, BulkCounted
  <2>5. ~tx[s].trimmed => tx[s].seenCount + TailCount(tx[s].seenHead) = Len(log)
    BY <1>1, <2>2, <2>4, TailCompletes
  <2>6. FactsStand(s)'
    <3>1. facts.headId = HeadId /\ facts.count = tx[s].seenCount + TailCount(tx[s].seenHead)
      BY DEF SignedFacts
    <3> HIDE DEF facts
    <3> QED
      BY <2>1, <2>2, <2>3, <2>5, <3>1 DEF FactsStand
  <2>7. StillDue(s)'
    <3>1. ~tx[s].force => \A i \in DOMAIN log : log[i].type = Checkpoint => log[i].at < day
      BY <1>1, <2>1, LatestCheckpointDay DEF CheckpointNotDue
    <3> QED
      BY <2>1, <2>2, <3>1 DEF StillDue
  <2>8. Ready(s)'
    BY <2>1, <2>6, <2>7 DEF BulkCounted
  <2> QED
    BY <1>1, <1>2, <1>8, <2>1, <2>8 DEF DecideCheckpoint
<1>9. ASSUME NEW s \in Session, Chain(s)
      PROVE  CheckpointReady'
  <2>1. PICK id, prev, hash :
           /\ id = lastId + 1
           /\ tx' = [tx EXCEPT ![s] = [tx[s] EXCEPT !.id = id, !.at = day,
                                                    !.prev = prev, !.hash = hash]]
    BY <1>9 DEF Chain
  <2>2. pc'[s] = "commit" /\ pc[s] = "chain" /\ UNCHANGED <<log, day>>
    BY <1>1, <1>9 DEF Chain
  <2>3. /\ tx'[s].id = id /\ tx'[s].at = day /\ tx'[s].type = tx[s].type
        /\ tx'[s].facts = tx[s].facts /\ tx'[s].force = tx[s].force
        /\ tx'[s].trimmed = tx[s].trimmed
    BY <1>1, <2>1 DEF TxOK
  <2>4. HeadId' = HeadId
    BY <2>2 DEF HeadId, Latest
  <2>5. FactsStand(s) /\ StillDue(s)
    BY DEF CheckpointReady
  <2>6. FactsStand(s)'
    BY <2>2, <2>3, <2>4, <2>5 DEF FactsStand
  <2>7. StillDue(s)'
    BY <2>2, <2>3, <2>5 DEF StillDue
  <2>8. Ready(s)' /\ tx'[s].id > 0
    BY <1>1, <2>1, <2>2, <2>3, <2>6, <2>7 DEF BulkCounted
  <2> QED
    BY <1>1, <1>2, <1>9, <2>2, <2>8 DEF Chain
<1>10. ASSUME NEW s \in Session, Commit(s)
       PROVE  CheckpointReady'
  <2> DEFINE n == Len(log)
             r == RowOf(tx[s])
  <2>1. /\ DOMAIN log = 1 .. n /\ n \in Nat
        /\ DOMAIN log' = 1 .. n + 1
        /\ \A i \in DOMAIN log : log'[i] = log[i]
        /\ log'[n + 1] = r
        /\ log' \in Seq(Elements(log'))
    BY <1>1, <1>10, CommitAppends, LogIsSequence DEF Commit, LogAppends
  <2>2. pc[s] = "commit" /\ UNCHANGED <<tx, day>>
        /\ \A t \in Session : pc'[t] # "lockCheckpoint" => pc'[t] \in {"idle", "lock"}
    BY <1>1, <1>10 DEF Commit, OneWriterAtATime, InsideLock
  <2>3. /\ r.id = tx[s].id /\ r.id \in Nat /\ r.id > 0
        /\ \A i \in DOMAIN log : log[i].id \in Nat /\ log[i].id < r.id
    BY <1>1, <2>2 DEF RowOf, TxOK, IdsDrawn, CheckpointReady, TypeOK, LogOK, RowOK
  <2> HIDE DEF n, r
  <2>4. HeadId' = r.id
    <3>1. ASSUME NEW i \in DOMAIN log', NEW j \in DOMAIN log', i < j
          PROVE  log'[i].id < log'[j].id
      <4>1. i \in DOMAIN log /\ log'[i] = log[i] /\ i \in DOMAIN log /\ i \in Nat
        BY <2>1, <3>1
      <4>2. CASE j = n + 1
        BY <2>1, <2>3, <4>1, <4>2
      <4>3. CASE j # n + 1
        <5>1. j \in DOMAIN log
          BY <2>1, <4>3
        <5> QED
          BY <1>1, <2>1, <3>1, <4>1, <5>1 DEF CommitOrderIsIdOrder
      <4> QED
        BY <4>2, <4>3
    <3>2. \A i \in DOMAIN log' : log'[i].id \in Nat
      BY <2>1, <2>3
    <3>3. n + 1 \in Nat \ {0}
      BY <2>1
    <3>4. (CHOOSE i \in DOMAIN log' : \A j \in DOMAIN log' : log'[j].id <= log'[i].id) = n + 1
      BY <2>1, <3>1, <3>2, <3>3, LastIsLatest
    <3>5. log' # <<>>
      BY <2>1
    <3> QED
      BY <2>1, <3>4, <3>5 DEF HeadId, Latest
  <2>5. HeadId < r.id
    <3>1. CASE log = <<>>
      BY <2>3, <3>1 DEF HeadId
    <3>2. CASE log # <<>>
      BY <1>1, <2>1, <2>3, <3>2, HeadIsLast DEF n
    <3> QED
      BY <3>1, <3>2
  <2>6. ASSUME NEW t \in Session
        PROVE  Ready(t)' /\ (pc'[t] = "commit" => tx'[t].id > 0)
    <3>1. CASE pc'[t] \in {"idle", "lock"}
      BY <3>1 DEF BulkCounted, FactsStand, StillDue
    <3>2. CASE pc'[t] = "lockCheckpoint"
      <4>1. pc[t] = "lockCheckpoint" /\ tx'[t] = tx[t] /\ tx[t].seenHead \in Nat
        BY <1>1, <1>10, <2>2, <3>2 DEF Commit, TxOK
      <4>2. CASE ~tx[t].trimmed
        <5>1. /\ tx[t].seenHead <= HeadId
              /\ tx[t].seenCount = Cardinality(Upto(tx[t].seenHead))
          BY <4>1, <4>2 DEF CheckpointReady, BulkCounted
        <5>2. {i \in DOMAIN log' : log'[i].id <= tx[t].seenHead} = Upto(tx[t].seenHead)
          <6>1. ~(r.id <= tx[t].seenHead)
            BY <1>1, <2>3, <2>5, <4>1, <5>1
          <6> QED
            BY <2>1, <6>1 DEF Upto
        <5>3. tx[t].seenHead <= HeadId'
          BY <1>1, <2>3, <2>4, <2>5, <4>1, <5>1
        <5>4. BulkCounted(t)'
          BY <4>1, <5>1, <5>2, <5>3 DEF BulkCounted, Upto
        <5> QED
          BY <3>2, <5>4 DEF FactsStand, StillDue
      <4>3. CASE tx[t].trimmed
        BY <3>2, <4>1, <4>3 DEF BulkCounted, FactsStand, StillDue
      <4> QED
        BY <4>2, <4>3
    <3> QED
      BY <2>2, <3>1, <3>2
  <2> QED
    BY <2>6 DEF CheckpointReady
<1>11. ASSUME Tick
       PROVE  CheckpointReady'
  BY <1>1, <1>3, <1>11 DEF Tick
<1>12. ASSUME NEW k \in DOMAIN log, Outside(k)
       PROVE  CheckpointReady'
  <2>1. Archive(k)
    BY <1>12 DEF Outside, EditRow, RemoveRow, Forge, Damage
  <2>2. LogCut(k) /\ UNCHANGED <<pc, day>>
    BY <1>1, <2>1, ArchiveCuts DEF Archive
  <2>3. \A i \in DOMAIN log' : \E j \in DOMAIN log : log'[i] = log[j]
    BY <2>2 DEF LogCut
  <2>4. ASSUME NEW t \in Session
        PROVE  Ready(t)' /\ (pc'[t] = "commit" => tx'[t].id > 0)
    <3>1. tx'[t] = [tx[t] EXCEPT !.trimmed = (pc[t] # "idle")]
      BY <2>1 DEF Archive
    <3>2. /\ tx'[t].trimmed = (pc[t] # "idle") /\ tx'[t].id = tx[t].id /\ tx'[t].at = tx[t].at
          /\ tx'[t].type = tx[t].type /\ tx'[t].force = tx[t].force
      BY <1>1, <3>1 DEF TxOK
    <3>3. BulkCounted(t)' /\ FactsStand(t)'
      BY <2>2, <3>2 DEF BulkCounted, FactsStand
    <3>4. StillDue(t) /\ (pc[t] = "commit" => tx[t].id > 0)
      BY DEF CheckpointReady
    <3>5. StillDue(t)'
      BY <2>2, <2>3, <3>2, <3>4 DEF StillDue
    <3> QED
      BY <2>2, <3>2, <3>3, <3>4, <3>5
  <2> QED
    BY <2>4 DEF CheckpointReady
<1>13. CASE UNCHANGED <<log, pc, tx, day>>
  BY <1>1, <1>3, <1>13
<1> QED
  BY <1>4, <1>5, <1>6, <1>7, <1>8, <1>9, <1>10, <1>11, <1>12, <1>13
     DEF Next, Write, Work, Poll, Verify, VerifyCheckpoints, VerifyFirst, VerifyBatch, VerifyAgain,
         ChangeKey, vars

CheckpointInv == damaged = {} => CheckpointReady

LEMMA DamageStays == [Next]_vars /\ damaged' = {} => damaged = {}
  BY DEF Next, Write, Work, Publish, StartCheckpoint, TakeLock, SkipCheckpoint, DecideCheckpoint,
         Chain, Commit, Abort, Poll, Verify, VerifyCheckpoints, VerifyFirst, VerifyBatch,
         VerifyAgain, Tick, ChangeKey, Outside, Archive, EditRow, RemoveRow, Forge, Damage, readers, vars

(* auditLog.ts, createCheckpoint(): what a checkpoint counted before the lock and after it is
   the log up to its head, and it is due on its day, as long as nobody damages the log. *)
THEOREM CheckpointInvariant == Spec => []CheckpointInv
<1>1. Init => CheckpointInv
  BY CheckpointsStart DEF CheckpointInv
<1>2. IInv /\ CheckpointInv /\ [Next]_vars => CheckpointInv'
  BY CheckpointStep, DamageStays DEF CheckpointInv
<1> QED
  BY <1>1, <1>2, Invariant, PTL DEF Spec

(* auditLog.ts:178-180: for any number of sessions, a checkpoint names the row it follows and
   counts every row before it, as long as the log is undamaged. *)
THEOREM CheckpointsExact == Spec => [](damaged = {} => CheckpointExact)
<1>1. IInv /\ CheckpointInv /\ damaged = {} => CheckpointExact
  BY DEF IInv, ChainGrows, FitsHead, Signed, CheckpointInv, CheckpointReady, FactsStand, CheckpointExact
<1> QED
  BY <1>1, Invariant, CheckpointInvariant, PTL

(* auditLog.ts:173-174: of the scheduled checkpoints of any number of replicas one is written
   in a day, as long as the log is undamaged. *)
THEOREM OneCheckpointPerDay == Spec /\ [](damaged = {}) => OneScheduledCheckpointPerDay
<1>1. ASSUME IInv, CheckpointInv, damaged = {}, NEW s \in Session,
             pc[s] = "commit", tx[s].type = Checkpoint, ~tx[s].force,
             NEW i \in DOMAIN log, log[i].type = Checkpoint
      PROVE  log[i].at # tx[s].at
  <2>1. log[i].at < tx[s].at
    BY <1>1 DEF CheckpointInv, CheckpointReady, StillDue
  <2>2. log[i].at \in Nat /\ tx[s].at \in Nat
    BY <1>1 DEF IInv, TypeOK, LogOK, RowOK, TxsOK, TxOK
  <2> QED
    BY <2>1, <2>2
<1>2. IInv /\ CheckpointInv /\ damaged = {} =>
        [\A s \in Session :
          pc[s] = "commit" /\ log' = Append(log, RowOf(tx[s]))
          /\ tx[s].type = Checkpoint /\ ~tx[s].force
            => \A i \in DOMAIN log : log[i].type = Checkpoint => log[i].at # tx[s].at]_vars
  BY <1>1
<1> QED
  BY <1>2, Invariant, CheckpointInvariant, PTL DEF OneScheduledCheckpointPerDay

-----------------------------------------------------------------------------
(* Tampering: what the rows of a log q look like, whatever was done to those in D. *)

IsSeq(h) == h \in Seq(Elements(h))

FactsOK(f) ==
    /\ f = [headId |-> f.headId, headHash |-> f.headHash, count |-> f.count,
            keyId |-> f.keyId, signature |-> f.signature]
    /\ f.count \in Nat

(* A row's hash is longer by one than what it follows, and is that of its content unless the
   row itself was damaged. *)
RowSound(r, D) ==
    /\ IsSeq(r.prev) /\ IsSeq(r.hash)
    /\ Len(r.hash) = Len(r.prev) + 1
    /\ \A m \in DOMAIN r.prev : r.hash[m] = r.prev[m]
    /\ FactsOK(r.facts)
    /\ r.id \notin D => r.hash = ComputedHash(r)

(* Nothing hashed or signed bears a later time for a row than the row does: damage only
   moves times forward. *)
DatedIn(q, h, top) ==
    \A m \in DOMAIN h :
        /\ h[m][1] \in Nat /\ h[m][1] <= top
        /\ h[m][2] \in Nat
        /\ \A i \in DOMAIN q : h[m][1] = q[i].id => h[m][2] <= q[i].at

Lengthens(q) == \A i, j \in DOMAIN q : i < j => Len(q[i].prev) < Len(q[j].prev)

Traceable(q, D) ==
    /\ \A i \in DOMAIN q : RowSound(q[i], D)
    /\ Lengthens(q)
    /\ \A j \in DOMAIN q :
          /\ DatedIn(q, q[j].hash, q[j].id)
          /\ q[j].type = Checkpoint => DatedIn(q, q[j].facts.signature[2], q[j].id)

(* What a session is about to write, c being where it is. *)
InFlight(q, t, c, last) ==
    /\ FactsOK(t.facts)
    /\ c = "lock" => t.type = Event
    /\ c = "chain" /\ t.type = Checkpoint => DatedIn(q, t.facts.signature[2], last)
    /\ c = "commit" =>
          /\ IsSeq(t.prev) /\ t.hash = ComputedHash(RowOf(t))
          /\ DatedIn(q, t.prev, t.id - 1)
          /\ t.type = Checkpoint => DatedIn(q, t.facts.signature[2], t.id - 1)
          /\ \A i \in DOMAIN q : Len(q[i].prev) < Len(t.prev)

(* A checkpoint that is not as the application wrote it. *)
Untrue(r) == r.type = Checkpoint /\ ~GenuineCheckpoint(r)

(* A break that the walk over the rows meets, and any that verification meets. *)
Break(q, i) ==
    \/ ComputedHash(q[i]) # q[i].hash
    \/ IF i = 1 THEN ~Rightful(q[1]) ELSE q[i].prev # q[i - 1].hash

Broken(q) == \E i \in DOMAIN q : Untrue(q[i]) \/ Break(q, i)

(* Where a walk is: before the first row, or after some row. *)
AtRow(q, after, expected) ==
    \/ q # <<>> /\ after = q[1].id - 1 /\ expected = q[1].prev
    \/ \E i \in DOMAIN q : after = q[i].id /\ expected = q[i].hash

BreakAhead(q, after) ==
    \E i \in DOMAIN q : /\ after < q[i].id /\ Break(q, i)
                        /\ i = 1 => ComputedHash(q[1]) # q[1].hash

(* The first row is an anchor that another key than k signed, and the checkpoints of these
   ids were signed by another key. *)
AnchorOfOther(q, k) == q # <<>> /\ q[1].prev # Genesis /\ q[1].facts.keyId # k

OfOtherKeys(q, k, ids) ==
    \A id \in ids : \E i \in DOMAIN q :
        q[i].id = id /\ q[i].type = Checkpoint /\ q[i].facts.keyId # k

NamesUntrue(q, ids) == \E i \in DOMAIN q : q[i].id \in ids /\ ~GenuineCheckpoint(q[i])

(* What the walk w has said so far of the log q is right while servers sign with k, and
   what it has missed lies ahead, unless it is named. *)
WalkTrue(q, k, D, w) ==
    ~w.disturbed /\ w.phase # "idle" =>
        /\ w.phase = "batch" => AtRow(q, w.after, w.expected)
        /\ D = {} /\ ~w.ok => w.phase = "done" /\ AnchorOfOther(q, k)
        /\ OfOtherKeys(q, k, w.unknownKey)
        /\ w.dirty => D # {}
        /\ w.dirty /\ w.ok /\ ~NamesUntrue(q, w.unknownKey) =>
              /\ w.phase # "done"
              /\ w.phase = "first" => \E i \in DOMAIN q : Break(q, i)
              /\ w.phase = "batch" => BreakAhead(q, w.after)

TamperInv ==
    /\ Traceable(log, damaged)
    /\ \A s \in Session : InFlight(log, tx[s], pc[s], lastId)
    /\ damaged # {} => Broken(log)
    /\ \A v \in Verifier : WalkTrue(log, signingKey, damaged, walk[v])

-----------------------------------------------------------------------------
(* Sequences and counting up *)

(* A hash is a sequence: what its domain is. *)
LEMMA SeqShape ==
    ASSUME NEW h, IsSeq(h)
    PROVE  Len(h) \in Nat /\ DOMAIN h = 1 .. Len(h)
BY LenProperties DEF IsSeq

(* One more element at the end, and the rest as it was. *)
LEMMA AppendSeq ==
    ASSUME NEW h, IsSeq(h), NEW e, NEW g, g = Append(h, e)
    PROVE  /\ IsSeq(g) /\ Len(g) = Len(h) + 1 /\ DOMAIN g = 1 .. Len(h) + 1
           /\ \A m \in DOMAIN h : g[m] = h[m]
           /\ g[Len(h) + 1] = e
<1>1. h \in Seq(Elements(h)) /\ Len(h) \in Nat /\ DOMAIN h = 1 .. Len(h)
  BY SeqShape DEF IsSeq
<1>2. /\ g \in Seq(Elements(g)) /\ DOMAIN g = 1 .. Len(h) + 1
      /\ \A m \in DOMAIN h : g[m] = h[m]
      /\ g[Len(h) + 1] = e
  <2>1. g \in Seq(Elements(g))
    BY <1>1, AppendOne
  <2>2. DOMAIN g = 1 .. Len(h) + 1
    BY <1>1, AppendOne
  <2>3. \A m \in DOMAIN h : g[m] = h[m]
    BY <1>1, AppendOne
  <2>4. g[Len(h) + 1] = e
    BY <1>1, AppendOne
  <2> QED
    BY <2>1, <2>2, <2>3, <2>4
<1>3. Len(g) \in Nat /\ DOMAIN g = 1 .. Len(g)
  BY <1>2, LenProperties
<1>4. Len(g) = Len(h) + 1
  BY <1>1, <1>2, <1>3
<1> QED
  BY <1>2, <1>4 DEF IsSeq

Continues(g, h, e) ==
    /\ IsSeq(g) /\ Len(g) = Len(h) + 1 /\ DOMAIN g = 1 .. Len(h) + 1
    /\ \A m \in DOMAIN h : g[m] = h[m]
    /\ g[Len(h) + 1] = e
    /\ DOMAIN h = 1 .. Len(h) /\ Len(h) \in Nat

(* The same, said of one operator, so that it can be cited as a whole. *)
LEMMA AppendContinues ==
    ASSUME NEW h, IsSeq(h), NEW e
    PROVE  Continues(Append(h, e), h, e)
<1> DEFINE g == Append(h, e)
<1>1. g = Append(h, e)
  OBVIOUS
<1> HIDE DEF g
<1>2. /\ IsSeq(g) /\ Len(g) = Len(h) + 1 /\ DOMAIN g = 1 .. Len(h) + 1
      /\ g[Len(h) + 1] = e
  BY <1>1, AppendSeq
<1>3. \A m \in DOMAIN h : g[m] = h[m]
  BY <1>1, AppendSeq
<1>4. Continues(g, h, e)
  BY <1>2, <1>3, SeqShape DEF Continues
<1> QED
  BY <1>1, <1>4, Zenon

(* RowHash(): the hash of a row is what the row follows and one element more. *)
LEMMA HashShape ==
    ASSUME NEW r, IsSeq(r.prev), NEW e, r.hash = Append(r.prev, e)
    PROVE  /\ IsSeq(r.hash) /\ Len(r.hash) = Len(r.prev) + 1 /\ DOMAIN r.hash = 1 .. Len(r.prev) + 1
           /\ \A m \in DOMAIN r.prev : r.hash[m] = r.prev[m]
           /\ r.hash[Len(r.prev) + 1] = e
           /\ DOMAIN r.prev = 1 .. Len(r.prev) /\ Len(r.prev) \in Nat
<1>1. Continues(r.hash, r.prev, e)
  BY AppendContinues, Zenon
<1> QED
  BY <1>1 DEF Continues

(* What holds of a, and of j + 1 if of j, holds up to b. *)
LEMMA Climb ==
    ASSUME NEW a \in Nat, NEW b \in Nat, NEW S, a \in S,
           \A j \in a .. b : j \in S /\ j < b => j + 1 \in S
    PROVE  \A j \in a .. b : j \in S
<1> DEFINE T == {b - j : j \in {k \in a .. b : k \notin S}}
           U == {k \in 0 .. b : k \in a .. b /\ k \notin S}
<1>1. CASE U = {}
  BY <1>1
<1>2. CASE U # {}
  <2> DEFINE V == {b - k : k \in U}
  <2>1. V \in SUBSET (0 .. b) /\ V # {}
    <3>1. \A k \in U : b - k \in 0 .. b
      OBVIOUS
    <3>2. PICK k \in U : TRUE
      BY <1>2
    <3> QED
      BY <3>1, <3>2
  <2>2. PICK m \in V : \A x \in V : x <= m
    <3> HIDE DEF V, U
    <3> QED
      BY <2>1, LargestIn
  <2>3. PICK k \in U : m = b - k
    BY <2>2
  <2>4. k \in a .. b /\ k \notin S /\ k # a
    BY <2>3
  <2>5. k - 1 \in a .. b /\ k - 1 < b /\ k - 1 \in 0 .. b
    BY <2>4
  <2>6. k - 1 \in S
    <3>1. SUFFICES ASSUME k - 1 \notin S PROVE FALSE
      OBVIOUS
    <3>2. k - 1 \in U
      BY <2>5, <3>1
    <3>3. b - (k - 1) \in V
      BY <3>2
    <3>4. b - (k - 1) <= b - k
      BY <2>2, <2>3, <3>3
    <3> QED
      BY <2>4, <3>4
  <2>7. (k - 1) + 1 \in S
    BY <2>5, <2>6
  <2> QED
    BY <2>4, <2>7
<1> QED
  BY <1>1, <1>2

(* A log is a sequence of rows whose ids and times are numbers. *)
LEMMA RowShape ==
    ASSUME NEW q, LogOK(q)
    PROVE  /\ Len(q) \in Nat /\ DOMAIN q = 1 .. Len(q)
           /\ q = <<>> <=> Len(q) = 0
           /\ \A i \in DOMAIN q : RowOK(q[i]) /\ q[i].id \in Nat /\ q[i].at \in Nat
<1>1. q \in Seq(Elements(q)) /\ \A i \in DOMAIN q : RowOK(q[i])
  BY DEF LogOK
<1>2. Len(q) \in Nat /\ DOMAIN q = 1 .. Len(q)
  BY <1>1, LenProperties
<1>3. q = <<>> <=> Len(q) = 0
  BY <1>1, EmptySeq
<1> QED
  BY <1>1, <1>2, <1>3 DEF RowOK

-----------------------------------------------------------------------------
(* What damage and commits make of a log *)

(* What was dated in q is dated in p if every row of p is one of q, of the same time or a
   later. *)
LEMMA DatedStays ==
    ASSUME NEW q, NEW p, NEW h, NEW top, DatedIn(q, h, top),
           \A i \in DOMAIN q : q[i].at \in Nat,
           \A i \in DOMAIN p : p[i].at \in Nat,
           \A i \in DOMAIN p : \E k \in DOMAIN q : p[i].id = q[k].id /\ q[k].at <= p[i].at
    PROVE  DatedIn(p, h, top)
<1> SUFFICES ASSUME NEW m \in DOMAIN h, NEW i \in DOMAIN p, h[m][1] = p[i].id
             PROVE  h[m][2] <= p[i].at
  BY DEF DatedIn
<1>1. PICK k \in DOMAIN q : p[i].id = q[k].id /\ q[k].at <= p[i].at
  OBVIOUS
<1>2. h[m][2] \in Nat /\ h[m][2] <= q[k].at
  BY <1>1 DEF DatedIn
<1>3. q[k].at \in Nat /\ p[i].at \in Nat
  OBVIOUS
<1> QED
  BY <1>1, <1>2, <1>3

(* ... and below any higher id. *)
LEMMA DatedHigher ==
    ASSUME NEW q, NEW h, NEW low \in Int, NEW top \in Int, DatedIn(q, h, low), low <= top
    PROVE  DatedIn(q, h, top)
BY DEF DatedIn

(* More damage asks less of a row. *)
LEMMA SoundInMore ==
    ASSUME NEW r, NEW D, NEW E, D \subseteq E, RowSound(r, D)
    PROVE  RowSound(r, E)
BY DEF RowSound

(* A break lies in a row and the one before it. *)
LEMMA BreakStays ==
    ASSUME NEW q, NEW p, NEW i \in DOMAIN q, Break(q, i), p[i] = q[i],
           i # 1 => p[i - 1] = q[i - 1]
    PROVE  Break(p, i)
BY DEF Break

Grown(q, p, r) ==
    /\ DOMAIN q = 1 .. Len(q) /\ Len(q) \in Nat
    /\ DOMAIN p = 1 .. Len(q) + 1
    /\ \A i \in DOMAIN q : p[i] = q[i]
    /\ p[Len(q) + 1] = r

(* Appending a row mends nothing. *)
LEMMA GrownBreaks ==
    ASSUME NEW q, NEW p, NEW r, Grown(q, p, r)
    PROVE  /\ \A i \in DOMAIN q : Break(q, i) => Break(p, i)
           /\ Broken(q) => Broken(p)
<1>1. ASSUME NEW i \in DOMAIN q, Break(q, i)
      PROVE  Break(p, i)
  <2>1. p[i] = q[i] /\ (i # 1 => i - 1 \in DOMAIN q)
    BY DEF Grown
  <2>2. i # 1 => p[i - 1] = q[i - 1]
    BY <2>1 DEF Grown
  <2> QED
    BY <1>1, <2>1, <2>2, BreakStays
<1>2. \A i \in DOMAIN q : i \in DOMAIN p /\ p[i] = q[i]
  BY DEF Grown
<1> QED
  BY <1>1, <1>2 DEF Broken

(* Appending a row that follows the head, dated and longer, keeps the log traceable. *)
LEMMA GrownIsTraceable ==
    ASSUME NEW q, NEW p, NEW r, Grown(q, p, r), LogOK(q), RowOK(r), NEW D, Traceable(q, D),
           \A i \in DOMAIN q : q[i].id < r.id,
           IsSeq(r.prev), r.hash = ComputedHash(r), FactsOK(r.facts),
           DatedIn(q, r.prev, r.id - 1),
           r.type = Checkpoint => DatedIn(q, r.facts.signature[2], r.id - 1),
           \A i \in DOMAIN q : Len(q[i].prev) < Len(r.prev)
    PROVE  Traceable(p, D)
<1> DEFINE n == Len(q)
<1>1. /\ DOMAIN q = 1 .. n /\ n \in Nat /\ DOMAIN p = 1 .. n + 1
      /\ \A i \in DOMAIN q : p[i] = q[i]
      /\ p[n + 1] = r
      /\ r.id \in Nat /\ r.at \in Nat
      /\ \A i \in DOMAIN q : q[i].id \in Nat /\ q[i].at \in Nat
  BY RowShape DEF Grown, RowOK
<1> HIDE DEF n
<1>2. \A i \in DOMAIN p : i \in DOMAIN q \/ i = n + 1
  BY <1>1
<1>3. r.hash = Append(r.prev, <<r.id, r.at, r.type, r.facts>>)
  BY DEF ComputedHash, RowHash
<1>4. /\ IsSeq(r.hash) /\ Len(r.hash) = Len(r.prev) + 1 /\ DOMAIN r.hash = 1 .. Len(r.prev) + 1
      /\ \A m \in DOMAIN r.prev : r.hash[m] = r.prev[m]
      /\ r.hash[Len(r.prev) + 1] = <<r.id, r.at, r.type, r.facts>>
      /\ DOMAIN r.prev = 1 .. Len(r.prev) /\ Len(r.prev) \in Nat
  BY <1>3, HashShape
<1>5. RowSound(r, D)
  BY <1>4 DEF RowSound
<1>6. \A i \in DOMAIN p : RowSound(p[i], D)
  BY <1>1, <1>2, <1>5 DEF Traceable
<1>7. Lengthens(p)
  <2> SUFFICES ASSUME NEW i \in DOMAIN p, NEW j \in DOMAIN p, i < j
               PROVE  Len(p[i].prev) < Len(p[j].prev)
    BY DEF Lengthens
  <2>1. i \in DOMAIN q
    BY <1>1
  <2>2. CASE j \in DOMAIN q
    BY <1>1, <2>1, <2>2 DEF Traceable, Lengthens
  <2>3. CASE j = n + 1
    BY <1>1, <2>1, <2>3
  <2> QED
    BY <1>2, <2>2, <2>3
<1>8. ASSUME NEW h, NEW top \in Nat, top <= r.id, DatedIn(q, h, top),
             top < r.id \/ \A m \in DOMAIN h : h[m][1] # r.id
      PROVE  DatedIn(p, h, top)
  <2> SUFFICES ASSUME NEW m \in DOMAIN h, NEW i \in DOMAIN p, h[m][1] = p[i].id
               PROVE  h[m][2] <= p[i].at
    BY <1>8 DEF DatedIn
  <2>1. h[m][1] # r.id
    BY <1>1, <1>8 DEF DatedIn
  <2>2. i \in DOMAIN q /\ p[i] = q[i]
    BY <1>1, <1>2, <2>1
  <2> QED
    BY <1>8, <2>2 DEF DatedIn
<1>9. ASSUME NEW j \in DOMAIN q
      PROVE  /\ DatedIn(p, p[j].hash, p[j].id)
             /\ p[j].type = Checkpoint => DatedIn(p, p[j].facts.signature[2], p[j].id)
  <2>1. p[j] = q[j] /\ q[j].id \in Nat /\ q[j].id < r.id
    BY <1>1
  <2> QED
    BY <1>1, <1>8, <2>1 DEF Traceable
<1>10. ASSUME NEW h, DatedIn(q, h, r.id - 1)
       PROVE  DatedIn(p, h, r.id)
  <2> SUFFICES ASSUME NEW m \in DOMAIN h
               PROVE  /\ h[m][1] \in Nat /\ h[m][1] <= r.id
                      /\ h[m][2] \in Nat
                      /\ \A i \in DOMAIN p : h[m][1] = p[i].id => h[m][2] <= p[i].at
    BY DEF DatedIn
  <2>1. /\ h[m][1] \in Nat /\ h[m][1] <= r.id - 1 /\ h[m][2] \in Nat
        /\ \A i \in DOMAIN q : h[m][1] = q[i].id => h[m][2] <= q[i].at
    BY <1>10 DEF DatedIn
  <2>2. h[m][1] <= r.id /\ h[m][1] # r.id
    BY <1>1, <2>1
  <2> QED
    BY <1>1, <1>2, <2>1, <2>2
<1>11. DatedIn(p, r.hash, r.id)
  <2>1. DatedIn(p, r.prev, r.id)
    BY <1>10
  <2> SUFFICES ASSUME NEW m \in DOMAIN r.hash
               PROVE  /\ r.hash[m][1] \in Nat /\ r.hash[m][1] <= r.id
                      /\ r.hash[m][2] \in Nat
                      /\ \A i \in DOMAIN p : r.hash[m][1] = p[i].id => r.hash[m][2] <= p[i].at
    BY DEF DatedIn
  <2>2. CASE m \in DOMAIN r.prev
    BY <1>4, <2>1, <2>2 DEF DatedIn
  <2>3. CASE m = Len(r.prev) + 1
    <3>1. r.hash[m][1] = r.id /\ r.hash[m][2] = r.at
      BY <1>4, <2>3
    <3>2. \A i \in DOMAIN p : r.id = p[i].id => p[i].at = r.at
      BY <1>1, <1>2
    <3> QED
      BY <1>1, <3>1, <3>2
  <2> QED
    BY <1>4, <2>2, <2>3
<1>12. r.type = Checkpoint => DatedIn(p, r.facts.signature[2], r.id)
  BY <1>10
<1>13. \A j \in DOMAIN p :
          /\ DatedIn(p, p[j].hash, p[j].id)
          /\ p[j].type = Checkpoint => DatedIn(p, p[j].facts.signature[2], p[j].id)
  BY <1>1, <1>2, <1>9, <1>11, <1>12
<1> QED
  BY <1>6, <1>7, <1>13 DEF Traceable

(* A row edited in place no longer hashes to what it says. *)
LEMMA EditShows ==
    ASSUME NEW q, NEW p, NEW i \in DOMAIN q, LogOK(q), LogOK(p), NEW D, Traceable(q, D),
           q[i].id \notin D,
           DOMAIN p = DOMAIN q, \A j \in DOMAIN q : j # i => p[j] = q[j],
           p[i].id = q[i].id, p[i].type = q[i].type, p[i].prev = q[i].prev, p[i].hash = q[i].hash,
           \/ p[i].at = q[i].at + 1 /\ p[i].facts = q[i].facts
           \/ p[i].at = q[i].at /\ p[i].facts = [q[i].facts EXCEPT !.count = @ + 1]
    PROVE  /\ Break(p, i)
           /\ Traceable(p, D \cup {q[i].id})
           /\ \A j \in DOMAIN q : p[j].id = q[j].id /\ q[j].at <= p[j].at /\ p[j].prev = q[j].prev
<1>1. /\ \A j \in DOMAIN q : q[j].id \in Nat /\ q[j].at \in Nat
      /\ \A j \in DOMAIN p : p[j].id \in Nat /\ p[j].at \in Nat
  BY RowShape
<1>2. /\ RowSound(q[i], D) /\ FactsOK(q[i].facts)
      /\ q[i].hash = Append(q[i].prev, <<q[i].id, q[i].at, q[i].type, q[i].facts>>)
  BY DEF Traceable, RowSound, ComputedHash, RowHash
<1>3. \A j \in DOMAIN q : p[j].id = q[j].id /\ q[j].at <= p[j].at /\ p[j].prev = q[j].prev
                           /\ p[j].hash = q[j].hash /\ p[j].type = q[j].type
  BY <1>1
<1>4. FactsOK(p[i].facts) /\ p[i].facts.signature = q[i].facts.signature
  <2>1. PICK f, g : f = q[i].facts /\ g = p[i].facts
    OBVIOUS
  <2>2. g = f \/ g = [f EXCEPT !.count = @ + 1]
    BY <2>1
  <2>3. FactsOK(f)
    BY <1>2, <2>1
  <2>4. FactsOK(g) /\ g.signature = f.signature
    BY <2>2, <2>3 DEF FactsOK
  <2> QED
    BY <2>1, <2>4
<1>5. ASSUME p[i].hash = ComputedHash(p[i])
      PROVE  FALSE
  <2>1. p[i].hash = Append(p[i].prev, <<p[i].id, p[i].at, p[i].type, p[i].facts>>)
    BY <1>5 DEF ComputedHash, RowHash
  <2>2. IsSeq(q[i].prev) /\ IsSeq(p[i].prev)
    BY <1>2 DEF RowSound
  <2>3. p[i].hash[Len(p[i].prev) + 1] = <<p[i].id, p[i].at, p[i].type, p[i].facts>>
    BY <2>1, <2>2, HashShape, Zenon
  <2>4. q[i].hash[Len(q[i].prev) + 1] = <<q[i].id, q[i].at, q[i].type, q[i].facts>>
    BY <1>2, <2>2, HashShape, Zenon
  <2>5. p[i].at = q[i].at /\ p[i].facts = q[i].facts
    BY <2>3, <2>4
  <2>6. p[i].facts = [q[i].facts EXCEPT !.count = @ + 1]
    BY <1>1, <2>5
  <2>7. p[i].facts.count = q[i].facts.count + 1
    <3>1. PICK f, g : f = q[i].facts /\ g = p[i].facts
      OBVIOUS
    <3>2. g = [f EXCEPT !.count = @ + 1] /\ FactsOK(f)
      BY <1>2, <2>6, <3>1
    <3>3. g.count = f.count + 1
      BY <3>2 DEF FactsOK
    <3> QED
      BY <3>1, <3>3
  <2> QED
    BY <1>2, <2>5, <2>7 DEF FactsOK
<1>6. Break(p, i)
  BY <1>5 DEF Break
<1>7. ASSUME NEW j \in DOMAIN p
      PROVE  RowSound(p[j], D \cup {q[i].id})
  <2>1. CASE j = i
    BY <1>2, <1>4, <2>1 DEF RowSound
  <2>2. CASE j # i
    BY <2>2, SoundInMore DEF Traceable
  <2> QED
    BY <2>1, <2>2
<1>8. Lengthens(p)
  BY <1>3 DEF Traceable, Lengthens
<1>9. ASSUME NEW j \in DOMAIN p
      PROVE  /\ DatedIn(p, p[j].hash, p[j].id)
             /\ p[j].type = Checkpoint => DatedIn(p, p[j].facts.signature[2], p[j].id)
  <2>1. \A k \in DOMAIN p : \E m \in DOMAIN q : p[k].id = q[m].id /\ q[m].at <= p[k].at
    BY <1>3
  <2>2. p[j].facts.signature = q[j].facts.signature
    BY <1>4
  <2>3. /\ DatedIn(q, p[j].hash, p[j].id)
        /\ p[j].type = Checkpoint => DatedIn(q, p[j].facts.signature[2], p[j].id)
    BY <1>3, <2>2 DEF Traceable
  <2> QED
    BY <1>1, <2>1, <2>3, DatedStays
<1> QED
  BY <1>3, <1>6, <1>7, <1>8, <1>9 DEF Traceable

(* Rows that stay as they are stay traceable. *)
LEMMA FewerAreTraceable ==
    ASSUME NEW q, NEW p, LogOK(q), LogOK(p), NEW D, NEW E, D \subseteq E, Traceable(q, D),
           NEW f \in [DOMAIN p -> DOMAIN q],
           \A j \in DOMAIN p : p[j] = q[f[j]],
           \A j, k \in DOMAIN p : j < k => f[j] < f[k]
    PROVE  Traceable(p, E)
<1>1. /\ \A j \in DOMAIN q : q[j].id \in Nat /\ q[j].at \in Nat
      /\ \A j \in DOMAIN p : p[j].id \in Nat /\ p[j].at \in Nat
  BY RowShape
<1>2. \A j \in DOMAIN p : RowSound(p[j], E)
  BY SoundInMore DEF Traceable
<1>3. Lengthens(p)
  BY DEF Traceable, Lengthens
<1>4. \A k \in DOMAIN p : \E m \in DOMAIN q : p[k].id = q[m].id /\ q[m].at <= p[k].at
  BY <1>1
<1>5. ASSUME NEW j \in DOMAIN p
      PROVE  /\ DatedIn(p, p[j].hash, p[j].id)
             /\ p[j].type = Checkpoint => DatedIn(p, p[j].facts.signature[2], p[j].id)
  <2>1. /\ DatedIn(q, p[j].hash, p[j].id)
        /\ p[j].type = Checkpoint => DatedIn(q, p[j].facts.signature[2], p[j].id)
    BY DEF Traceable
  <2> QED
    BY <1>1, <1>4, <2>1, DatedStays
<1> QED
  BY <1>2, <1>3, <1>5 DEF Traceable

(* The row after a removed one cannot link to the row before it: too much was hashed. *)
LEMMA RemovalShows ==
    ASSUME NEW q, NEW p, LogOK(q), NEW D, Traceable(q, D), NEW i, 1 < i, i < Len(q), i \in DOMAIN q,
           DOMAIN p = 1 .. Len(q) - 1,
           \A j \in DOMAIN p : p[j] = IF j < i THEN q[j] ELSE q[j + 1]
    PROVE  i \in DOMAIN p /\ Break(p, i)
<1>1. DOMAIN q = 1 .. Len(q) /\ Len(q) \in Nat
  BY RowShape
<1>2. i \in DOMAIN p /\ i - 1 \in DOMAIN p /\ i + 1 \in DOMAIN q /\ i - 1 \in DOMAIN q /\ i # 1
  BY <1>1
<1>3. p[i] = q[i + 1] /\ p[i - 1] = q[i - 1]
  BY <1>1, <1>2
<1>4. Len(q[i - 1].prev) < Len(q[i].prev) /\ Len(q[i].prev) < Len(q[i + 1].prev)
  BY <1>1, <1>2 DEF Traceable, Lengthens
<1>5. \A j \in DOMAIN q : Len(q[j].prev) \in Nat /\ Len(q[j].hash) = Len(q[j].prev) + 1
  <2>1. \A j \in DOMAIN q : IsSeq(q[j].prev) /\ Len(q[j].hash) = Len(q[j].prev) + 1
    BY DEF Traceable, RowSound
  <2> QED
    BY <2>1, SeqShape
<1>6. q[i + 1].prev # q[i - 1].hash
  <2>1. Len(q[i + 1].prev) # Len(q[i - 1].hash)
    BY <1>2, <1>4, <1>5
  <2> QED
    BY <2>1
<1> QED
  BY <1>2, <1>3, <1>6 DEF Break

-----------------------------------------------------------------------------
(* Forgery *)

NewAt(q, i, j) == IF j = i THEN q[j].at + 1 ELSE q[j].at
NewFacts(q, patch, key, j, h) ==
    IF patch /\ q[j].type = Checkpoint THEN [q[j].facts EXCEPT !.headHash = h, !.keyId = key]
    ELSE q[j].facts
Link(q, i, patch, key, j, h) ==
    RowHash(h, q[j].id, NewAt(q, i, j), q[j].type, NewFacts(q, patch, key, j, h))

(* f holds the hashes of the rows from i on to m, made to fit. *)
Linked(q, i, patch, key, f, m) ==
    f = [j \in i - 1 .. m |-> IF j = i - 1 THEN q[i].prev ELSE Link(q, i, patch, key, j, f[j - 1])]

(* Forge's recursive function exists: link after link. *)
LEMMA LinksExist ==
    ASSUME NEW q, NEW n \in Nat, NEW i \in 1 .. n, NEW patch, NEW key
    PROVE  \E f : Linked(q, i, patch, key, f, n)
<1> DEFINE S == {m \in i - 1 .. n : \E f : Linked(q, i, patch, key, f, m)}
<1>1. i - 1 \in S
  <2> DEFINE f == [j \in i - 1 .. i - 1 |-> q[i].prev]
  <2>1. Linked(q, i, patch, key, f, i - 1)
    BY DEF Linked
  <2> QED
    BY <2>1
<1>2. ASSUME NEW m \in i - 1 .. n, m \in S, m < n
      PROVE  m + 1 \in S
  <2>1. PICK f : Linked(q, i, patch, key, f, m)
    BY <1>2
  <2> DEFINE g == [j \in i - 1 .. m + 1 |-> IF j = m + 1 THEN Link(q, i, patch, key, m + 1, f[m]) ELSE f[j]]
             h == [j \in i - 1 .. m + 1 |-> IF j = i - 1 THEN q[i].prev
                                             ELSE Link(q, i, patch, key, j, g[j - 1])]
  <2>2. ASSUME NEW j \in i - 1 .. m + 1
        PROVE  g[j] = h[j]
    <3>1. CASE j = m + 1
      <4>1. g[j] = Link(q, i, patch, key, m + 1, f[m]) /\ h[j] = Link(q, i, patch, key, j, g[j - 1])
        BY <3>1
      <4>2. g[m] = f[m]
        OBVIOUS
      <4>3. j - 1 = m
        BY <3>1
      <4> HIDE DEF g, h
      <4> QED
        BY <3>1, <4>1, <4>2, <4>3
    <3>2. CASE j # m + 1
      <4>1. j \in i - 1 .. m /\ g[j] = f[j]
        BY <3>2
      <4>2. f[j] = IF j = i - 1 THEN q[i].prev ELSE Link(q, i, patch, key, j, f[j - 1])
        BY <2>1, <4>1 DEF Linked
      <4>3. j # i - 1 => g[j - 1] = f[j - 1]
        BY <4>1
      <4>4. h[j] = IF j = i - 1 THEN q[i].prev ELSE Link(q, i, patch, key, j, g[j - 1])
        OBVIOUS
      <4> HIDE DEF g, h
      <4> QED
        BY <4>1, <4>2, <4>3, <4>4
    <3> QED
      BY <3>1, <3>2
  <2>3. g = h
    BY <2>2
  <2>4. Linked(q, i, patch, key, g, m + 1)
    <3>1. g = [j \in i - 1 .. m + 1 |-> IF j = i - 1 THEN q[i].prev
                                         ELSE Link(q, i, patch, key, j, g[j - 1])]
      BY <2>3
    <3> HIDE DEF g
    <3> QED
      BY <3>1 DEF Linked
  <2>5. m + 1 \in i - 1 .. n
    BY <1>2
  <2> HIDE DEF g, h
  <2> QED
    BY <2>4, <2>5
<1>3. \A j \in i - 1 .. n : j \in S
  <2> HIDE DEF S
  <2>1. i - 1 \in Nat /\ n \in Nat
    OBVIOUS
  <2> QED
    BY <1>1, <1>2, <2>1, Climb
<1>4. n \in i - 1 .. n
  OBVIOUS
<1> QED
  BY <1>3, <1>4

(* p is q with row i made later and everything from it on made to fit. *)
ForgedFrom(q, p, i, patch, key, f) ==
    /\ Linked(q, i, patch, key, f, Len(q))
    /\ DOMAIN p = DOMAIN q
    /\ \A j \in DOMAIN q : j < i => p[j] = q[j]
    /\ \A j \in DOMAIN q : j >= i =>
          /\ p[j].id = q[j].id /\ p[j].at = NewAt(q, i, j) /\ p[j].type = q[j].type
          /\ p[j].facts = NewFacts(q, patch, key, j, f[j - 1])
          /\ p[j].prev = f[j - 1] /\ p[j].hash = f[j]

(* A patched head hash leaves the signature alone. *)
LEMMA NewFactsOK ==
    ASSUME NEW q, NEW j, NEW patch, NEW key, NEW h, FactsOK(q[j].facts)
    PROVE  LET f == NewFacts(q, patch, key, j, h) IN FactsOK(f) /\ f.signature = q[j].facts.signature
<1>1. PICK g, f : g = q[j].facts /\ f = NewFacts(q, patch, key, j, h)
  OBVIOUS
<1>2. f = g \/ f = [g EXCEPT !.headHash = h, !.keyId = key]
  BY <1>1 DEF NewFacts
<1>3. FactsOK(g)
  BY <1>1
<1>4. FactsOK(f) /\ f.signature = g.signature
  BY <1>2, <1>3 DEF FactsOK
<1> QED
  BY <1>1, <1>4

(* The hash of a forged row: as long as its place says, dated, and with row i's new time. *)
LEMMA ForgedLinks ==
    ASSUME NEW q, NEW p, NEW i \in DOMAIN q, NEW patch, NEW key, NEW f, LogOK(q), LogOK(p), NEW D,
           Traceable(q, D), \A j, k \in DOMAIN q : j < k => q[j].id < q[k].id,
           ForgedFrom(q, p, i, patch, key, f)
    PROVE  /\ \A j \in i - 1 .. Len(q) : IsSeq(f[j]) /\ Len(f[j]) = Len(q[i].prev) + (j - i + 1)
           /\ \A j \in i .. Len(q) :
                 /\ Continues(f[j], f[j - 1], <<p[j].id, p[j].at, p[j].type, p[j].facts>>)
                 /\ f[j] = ComputedHash(p[j])
                 /\ DatedIn(p, f[j], p[j].id)
                 /\ f[j][Len(q[i].prev) + 1][1] = q[i].id
                 /\ f[j][Len(q[i].prev) + 1][2] = q[i].at + 1
<1> DEFINE n == Len(q)
           L == Len(q[i].prev)
           top(j) == IF j < i THEN p[i].id ELSE p[j].id
           Fits(j) == /\ IsSeq(f[j]) /\ Len(f[j]) = L + (j - i + 1)
                      /\ DatedIn(p, f[j], top(j))
                      /\ j >= i => f[j][L + 1][1] = q[i].id /\ f[j][L + 1][2] = q[i].at + 1
           S == {j \in i - 1 .. n : Fits(j)}
<1>1. /\ n \in Nat /\ DOMAIN q = 1 .. n /\ i \in 1 .. n /\ DOMAIN p = 1 .. n
      /\ \A j \in DOMAIN q : q[j].id \in Nat /\ q[j].at \in Nat
      /\ \A j \in DOMAIN p : p[j].id \in Nat /\ p[j].at \in Nat
  BY RowShape DEF ForgedFrom
<1>2. IsSeq(q[i].prev) /\ L \in Nat /\ DatedIn(q, q[i].prev, q[i].id)
  <2>1. IsSeq(q[i].prev) /\ IsSeq(q[i].hash) /\ Len(q[i].hash) = Len(q[i].prev) + 1
        /\ DatedIn(q, q[i].hash, q[i].id)
    BY DEF Traceable, RowSound
  <2>2. \A m \in DOMAIN q[i].prev : q[i].hash[m] = q[i].prev[m]
    BY DEF Traceable, RowSound
  <2>3. L \in Nat /\ DOMAIN q[i].prev = 1 .. L /\ DOMAIN q[i].hash = 1 .. L + 1
    BY <2>1, SeqShape
  <2>4. \A m \in 1 .. L : m \in 1 .. L + 1
    BY <2>3
  <2>5. DatedIn(q, q[i].prev, q[i].id)
    BY <2>1, <2>2, <2>3, <2>4 DEF DatedIn
  <2> QED
    BY <2>1, <2>3, <2>5
<1>3. ASSUME NEW j \in DOMAIN q
      PROVE  p[j].id = q[j].id /\ q[j].at <= p[j].at /\ (j = i => p[j].at = q[j].at + 1)
  BY <1>1 DEF ForgedFrom, NewAt
<1>4. f[i - 1] = q[i].prev
  BY <1>1 DEF ForgedFrom, Linked
<1>5. ASSUME NEW j \in i .. n
      PROVE  f[j] = ComputedHash(p[j]) /\ p[j].prev = f[j - 1]
             /\ f[j] = Append(f[j - 1], <<p[j].id, p[j].at, p[j].type, p[j].facts>>)
  <2>1. j \in i - 1 .. Len(q) /\ j # i - 1 /\ j \in DOMAIN q /\ j >= i
    BY <1>1
  <2>2. f[j] = Link(q, i, patch, key, j, f[j - 1])
    BY <2>1 DEF ForgedFrom, Linked
  <2>3. /\ p[j].id = q[j].id /\ p[j].at = NewAt(q, i, j) /\ p[j].type = q[j].type
        /\ p[j].facts = NewFacts(q, patch, key, j, f[j - 1])
        /\ p[j].prev = f[j - 1]
    BY <2>1 DEF ForgedFrom
  <2> QED
    BY <2>2, <2>3 DEF Link, ComputedHash, RowHash
<1>6. i - 1 \in S
  <2>1. DatedIn(p, f[i - 1], p[i].id)
    <3>1. \A k \in DOMAIN p : \E m \in DOMAIN q : p[k].id = q[m].id /\ q[m].at <= p[k].at
      BY <1>1, <1>3
    <3>2. DatedIn(q, q[i].prev, p[i].id)
      BY <1>2, <1>3 DEF DatedIn
    <3> QED
      BY <1>1, <1>4, <3>1, <3>2, DatedStays
  <2>2. Len(f[i - 1]) = L + ((i - 1) - i + 1)
    BY <1>1, <1>2, <1>4
  <2>3. IsSeq(f[i - 1]) /\ i - 1 \in i - 1 .. n /\ i - 1 < i /\ ~(i - 1 >= i)
    BY <1>1, <1>2, <1>4
  <2> HIDE DEF n, L
  <2> QED
    BY <2>1, <2>2, <2>3
<1>7. ASSUME NEW j \in i - 1 .. n, j \in S, j < n
      PROVE  j + 1 \in S
  <2> DEFINE k == j + 1
  <2>1. Fits(j)
    BY <1>7
  <2>2. k \in i .. n /\ k \in i - 1 .. n /\ k - 1 = j /\ k \in DOMAIN q /\ k \in DOMAIN p /\ i \in DOMAIN p
    BY <1>1, <1>7
  <2> DEFINE e == <<p[k].id, p[k].at, p[k].type, p[k].facts>>
  <2>3. Continues(f[k], f[j], e)
    <3>1. f[k] = Append(f[j], e)
      BY <1>5, <2>2
    <3>2. IsSeq(f[j])
      BY <2>1
    <3> HIDE DEF e, k
    <3> QED
      BY <3>1, <3>2, AppendContinues
  <2>4. e[1] = p[k].id /\ e[2] = p[k].at
    OBVIOUS
  <2> HIDE DEF e, k
  <2>5. /\ IsSeq(f[k]) /\ Len(f[k]) = Len(f[j]) + 1 /\ DOMAIN f[k] = 1 .. Len(f[j]) + 1
        /\ \A m \in DOMAIN f[j] : f[k][m] = f[j][m]
        /\ f[k][Len(f[j]) + 1] = e
        /\ DOMAIN f[j] = 1 .. Len(f[j]) /\ Len(f[j]) \in Nat
    BY <2>3 DEF Continues
  <2>6. Len(f[k]) = L + (k - i + 1)
    <3>1. Len(f[j]) = L + (j - i + 1) /\ Len(f[k]) = Len(f[j]) + 1
      BY <2>1, <2>5
    <3>2. L \in Nat /\ j \in Int /\ i \in Int /\ k = j + 1
      BY <1>1, <1>2, <2>2
    <3> HIDE DEF L
    <3> QED
      BY <3>1, <3>2
  <2>7. DatedIn(p, f[k], p[k].id)
    <3> SUFFICES ASSUME NEW m \in DOMAIN f[k]
                 PROVE  /\ f[k][m][1] \in Nat /\ f[k][m][1] <= p[k].id
                        /\ f[k][m][2] \in Nat
                        /\ \A x \in DOMAIN p : f[k][m][1] = p[x].id => f[k][m][2] <= p[x].at
      BY DEF DatedIn
    <3>1. CASE m \in DOMAIN f[j]
      <4>1. DatedIn(p, f[j], top(j))
        BY <2>1
      <4>2. top(j) \in Nat /\ top(j) <= p[k].id
        <5>1. /\ i \in DOMAIN q /\ k \in DOMAIN q /\ p[i].id = q[i].id /\ p[k].id = q[k].id
              /\ q[i].id \in Nat /\ q[k].id \in Nat /\ i <= k
          BY <1>1, <1>3, <2>2
        <5>2. CASE j < i
          <6>1. q[i].id <= q[k].id
            BY <1>1, <5>1
          <6> QED
            BY <5>1, <5>2, <6>1
        <5>3. CASE ~(j < i)
          <6>1. j \in DOMAIN q /\ j < k
            BY <1>1, <2>2, <5>3
          <6>2. p[j].id = q[j].id /\ q[j].id \in Nat /\ q[j].id < q[k].id
            BY <1>1, <1>3, <5>1, <6>1
          <6> QED
            BY <5>1, <5>3, <6>2
        <5> QED
          BY <5>2, <5>3
      <4>3. f[k][m] = f[j][m]
        BY <2>5, <3>1
      <4> HIDE DEF top
      <4>4. /\ f[j][m][1] \in Nat /\ f[j][m][1] <= top(j)
            /\ f[j][m][2] \in Nat
            /\ \A x \in DOMAIN p : f[j][m][1] = p[x].id => f[j][m][2] <= p[x].at
        BY <3>1, <4>1 DEF DatedIn
      <4>5. f[j][m][1] <= p[k].id
        BY <1>1, <2>2, <4>2, <4>4
      <4> QED
        BY <4>3, <4>4, <4>5
    <3>2. CASE m = Len(f[j]) + 1
      <4>1. f[k][m][1] = p[k].id /\ f[k][m][2] = p[k].at
        BY <2>4, <2>5, <3>2
      <4>2. \A x \in DOMAIN p : p[k].id = p[x].id => p[k].at <= p[x].at
        <5> SUFFICES ASSUME NEW x \in DOMAIN p, p[k].id = p[x].id
                     PROVE  x = k
          BY <1>1, <2>2
        <5>1. q[k].id = q[x].id /\ x \in DOMAIN q
          BY <1>1, <1>3, <2>2
        <5> QED
          BY <1>1, <2>2, <5>1
      <4> QED
        BY <1>1, <2>2, <4>1, <4>2
    <3> QED
      BY <2>5, <3>1, <3>2
  <2>8. f[k][L + 1][1] = q[i].id /\ f[k][L + 1][2] = q[i].at + 1
    <3>1. Len(f[j]) = L + (j - i + 1)
      BY <2>1
    <3>2. L \in Nat /\ j \in Int /\ i \in Int /\ k = j + 1
      BY <1>1, <1>2, <2>2
    <3>3. CASE j >= i
      <4>1. L + 1 \in DOMAIN f[j]
        <5> HIDE DEF L, n
        <5>1. L + 1 \in 1 .. L + (j - i + 1)
          BY <3>3, <3>2
        <5> QED
          BY <2>5, <3>1, <5>1
      <4>2. f[k][L + 1] = f[j][L + 1]
        BY <2>5, <4>1
      <4>3. f[j][L + 1][1] = q[i].id /\ f[j][L + 1][2] = q[i].at + 1
        BY <2>1, <3>3
      <4> QED
        BY <4>2, <4>3
    <3>4. CASE j = i - 1
      <4>1. Len(f[j]) + 1 = L + 1 /\ k = i
        <5> HIDE DEF L, n
        <5>1. j - i + 1 = 0 /\ k = i
          BY <3>4, <3>2
        <5>2. L + (j - i + 1) = L
          BY <3>2, <5>1
        <5> QED
          BY <3>1, <5>1, <5>2
      <4>2. f[k][L + 1] = e
        BY <2>5, <4>1
      <4> QED
        BY <1>3, <2>4, <4>1, <4>2
    <3> QED
      BY <1>1, <3>3, <3>4
  <2>9. top(k) = p[k].id
    BY <1>1, <2>2
  <2> HIDE DEF top, L, n
  <2>10. Fits(k)
    BY <2>5, <2>6, <2>7, <2>8, <2>9
  <2>11. k \in S
    BY <2>2, <2>10
  <2> QED
    BY <2>11 DEF k
<1>8. \A j \in i - 1 .. n : j \in S
  <2> HIDE DEF S
  <2>1. i - 1 \in Nat /\ n \in Nat
    BY <1>1
  <2> QED
    BY <1>6, <1>7, <2>1, Climb
<1>9. ASSUME NEW j \in i .. n
      PROVE  Continues(f[j], f[j - 1], <<p[j].id, p[j].at, p[j].type, p[j].facts>>)
  <2>1. j - 1 \in i - 1 .. n
    BY <1>1
  <2>2. IsSeq(f[j - 1])
    BY <1>8, <2>1
  <2>3. f[j] = Append(f[j - 1], <<p[j].id, p[j].at, p[j].type, p[j].facts>>)
    BY <1>5
  <2> QED
    BY <2>2, <2>3, AppendContinues
<1>10. ASSUME NEW j \in i .. n
       PROVE  /\ DatedIn(p, f[j], p[j].id)
              /\ f[j][L + 1][1] = q[i].id /\ f[j][L + 1][2] = q[i].at + 1
  <2>1. j \in i - 1 .. n /\ j >= i /\ ~(j < i)
    BY <1>1
  <2>2. Fits(j)
    BY <1>8, <2>1
  <2> QED
    BY <2>1, <2>2
<1>11. \A j \in i - 1 .. n : IsSeq(f[j]) /\ Len(f[j]) = L + (j - i + 1)
  BY <1>8
<1> QED
  BY <1>5, <1>9, <1>10, <1>11

(* A later checkpoint was signed over a time for row i that is not the forged one. *)
LEMMA ForgeryShows ==
    ASSUME NEW q, NEW p, NEW i \in DOMAIN q, NEW patch, NEW key, NEW f, LogOK(q), LogOK(p), NEW D,
           Traceable(q, D), \A j, k \in DOMAIN q : j < k => q[j].id < q[k].id,
           ForgedFrom(q, p, i, patch, key, f),
           NEW c \in DOMAIN q, i < c, q[c].type = Checkpoint
    PROVE  /\ Untrue(p[c])
           /\ Traceable(p, D \cup {q[i].id})
           /\ \A j \in DOMAIN q : /\ p[j].id = q[j].id /\ q[j].at <= p[j].at
                                  /\ Len(p[j].prev) <= Len(q[j].prev)
<1> DEFINE n == Len(q)
           L == Len(q[i].prev)
           E == D \cup {q[i].id}
<1>1. /\ n \in Nat /\ DOMAIN q = 1 .. n /\ i \in 1 .. n /\ DOMAIN p = 1 .. n
      /\ \A j \in DOMAIN q : q[j].id \in Nat /\ q[j].at \in Nat
      /\ \A j \in DOMAIN p : p[j].id \in Nat /\ p[j].at \in Nat
  BY RowShape DEF ForgedFrom
<1>2. \A j \in i - 1 .. n : IsSeq(f[j]) /\ Len(f[j]) = L + (j - i + 1)
  BY ForgedLinks
<1>3. \A j \in i .. n :
         /\ Continues(f[j], f[j - 1], <<p[j].id, p[j].at, p[j].type, p[j].facts>>)
         /\ f[j] = ComputedHash(p[j])
         /\ DatedIn(p, f[j], p[j].id)
         /\ f[j][L + 1][1] = q[i].id
         /\ f[j][L + 1][2] = q[i].at + 1
  BY ForgedLinks
<1>4. ASSUME NEW j \in DOMAIN q
      PROVE  p[j].id = q[j].id /\ q[j].at <= p[j].at /\ p[j].type = q[j].type
  <2>1. CASE j < i
    BY <1>1, <2>1 DEF ForgedFrom
  <2>2. CASE ~(j < i)
    <3>1. j >= i
      BY <1>1, <2>2
    <3>2. p[j].id = q[j].id /\ p[j].at = NewAt(q, i, j) /\ p[j].type = q[j].type
      BY <3>1 DEF ForgedFrom
    <3>3. q[j].at \in Nat /\ q[j].at <= NewAt(q, i, j)
      BY <1>1 DEF NewAt
    <3> QED
      BY <3>2, <3>3
  <2> QED
    BY <2>1, <2>2
<1>5. ASSUME NEW j \in i .. n
      PROVE  /\ j \in DOMAIN q /\ j >= i
             /\ p[j].prev = f[j - 1] /\ p[j].hash = f[j]
             /\ p[j].facts = NewFacts(q, patch, key, j, f[j - 1])
  <2>1. j \in DOMAIN q /\ j >= i
    BY <1>1
  <2> QED
    BY <2>1 DEF ForgedFrom
<1>6. ASSUME NEW j \in DOMAIN q
      PROVE  IsSeq(q[j].prev) /\ Len(q[j].prev) \in Nat /\ FactsOK(q[j].facts)
  BY SeqShape DEF Traceable, RowSound
<1>7. ASSUME NEW j \in i .. n
      PROVE  FactsOK(p[j].facts) /\ p[j].facts.signature = q[j].facts.signature
  BY <1>5, <1>6, NewFactsOK
<1>8. Len(p[c].prev) = L + (c - i) /\ p[c].prev[L + 1][1] = q[i].id
      /\ p[c].prev[L + 1][2] = q[i].at + 1
      /\ L + 1 \in DOMAIN p[c].prev
  <2>1. c - 1 \in i .. n /\ c - 1 \in i - 1 .. n /\ c \in i .. n
    BY <1>1
  <2>2. p[c].prev = f[c - 1]
    BY <1>5, <2>1
  <2>3. f[c - 1][L + 1][1] = q[i].id /\ f[c - 1][L + 1][2] = q[i].at + 1
    BY <1>3, <2>1
  <2>4. IsSeq(f[c - 1]) /\ Len(f[c - 1]) = L + (c - 1 - i + 1)
    BY <1>2, <2>1
  <2>5. DOMAIN f[c - 1] = 1 .. Len(f[c - 1])
    BY <2>4, SeqShape
  <2>6. L \in Nat
    BY <1>6
  <2> HIDE DEF L, n
  <2>7. L + 1 \in 1 .. L + (c - 1 - i + 1) /\ L + (c - 1 - i + 1) = L + (c - i)
    BY <1>1, <2>6
  <2> QED
    BY <2>2, <2>3, <2>4, <2>5, <2>7
<1>9. Untrue(p[c])
  <2> SUFFICES ASSUME BearsSignature(p[c].facts, p[c].facts.keyId), p[c].facts.headHash = p[c].prev
               PROVE  FALSE
    BY <1>4 DEF Untrue, GenuineCheckpoint
  <2>1. c \in i .. n
    BY <1>1
  <2>2. p[c].facts.signature[2] = p[c].prev
    BY DEF BearsSignature
  <2>3. DatedIn(q, p[c].prev, q[c].id)
    BY <1>7, <2>1, <2>2 DEF Traceable
  <2>4. p[c].prev[L + 1][2] <= q[i].at
    <3> HIDE DEF L
    <3> QED
      BY <1>8, <2>3 DEF DatedIn
  <2>5. q[i].at \in Nat /\ q[i].at + 1 <= q[i].at
    BY <1>1, <1>8, <2>4
  <2> QED
    BY <2>5
<1>10. ASSUME NEW j \in DOMAIN p
       PROVE  RowSound(p[j], E)
  <2>1. CASE j < i
    <3>1. RowSound(q[j], D) /\ p[j] = q[j]
      BY <2>1 DEF Traceable, ForgedFrom
    <3> QED
      BY <3>1, SoundInMore
  <2>2. CASE ~(j < i)
    <3>1. j \in i .. n /\ j \in i - 1 .. n /\ j - 1 \in i - 1 .. n
      BY <1>1, <2>2
    <3>2. IsSeq(f[j]) /\ IsSeq(f[j - 1])
      BY <1>2, <3>1
    <3>3. Len(f[j]) = Len(f[j - 1]) + 1 /\ \A m \in DOMAIN f[j - 1] : f[j][m] = f[j - 1][m]
      BY <1>3, <3>1 DEF Continues
    <3>4. p[j].prev = f[j - 1] /\ p[j].hash = f[j] /\ f[j] = ComputedHash(p[j])
      BY <1>3, <1>5, <3>1
    <3> QED
      BY <1>7, <3>1, <3>2, <3>3, <3>4 DEF RowSound
  <2> QED
    BY <2>1, <2>2
<1>11. ASSUME NEW j \in i .. n
       PROVE  Len(p[j].prev) = L + (j - i) /\ Len(p[j].prev) <= Len(q[j].prev)
  <2>1. Len(p[j].prev) = L + (j - i)
    <3>1. j - 1 \in i - 1 .. n /\ p[j].prev = f[j - 1]
      BY <1>1, <1>5
    <3>2. Len(f[j - 1]) = L + (j - 1 - i + 1)
      BY <1>2, <3>1
    <3>3. L \in Nat
      BY <1>6
    <3> HIDE DEF L, n
    <3>4. L + (j - 1 - i + 1) = L + (j - i)
      BY <1>1, <3>3
    <3> QED
      BY <3>1, <3>2, <3>4
  <2> DEFINE S == {k \in i .. n : L + (k - i) <= Len(q[k].prev)}
  <2>2. i \in S
    BY <1>1, <1>6
  <2>3. ASSUME NEW k \in i .. n, k \in S, k < n
        PROVE  k + 1 \in S
    <3>1. k \in DOMAIN q /\ k + 1 \in DOMAIN q /\ k + 1 \in i .. n /\ k < k + 1
      BY <1>1, <2>3
    <3>2. Len(q[k].prev) < Len(q[k + 1].prev)
      BY <3>1 DEF Traceable, Lengthens
    <3>3. Len(q[k].prev) \in Nat /\ Len(q[k + 1].prev) \in Nat /\ L \in Nat
      BY <1>6, <3>1
    <3>4. L + (k - i) <= Len(q[k].prev)
      BY <2>3
    <3> HIDE DEF L, n
    <3>5. i \in Int /\ k \in Int
      BY <1>1
    <3>6. PICK a, b : a = Len(q[k].prev) /\ b = Len(q[k + 1].prev)
      OBVIOUS
    <3>7. a \in Nat /\ b \in Nat /\ a < b /\ L + (k - i) <= a
      BY <3>2, <3>3, <3>4, <3>6
    <3>8. L + ((k + 1) - i) <= b
      BY <3>3, <3>5, <3>7
    <3>9. L + ((k + 1) - i) <= Len(q[k + 1].prev)
      BY <3>6, <3>8
    <3> QED
      BY <3>1, <3>9
  <2>4. \A k \in i .. n : k \in S
    <3> HIDE DEF S
    <3>1. i \in Nat /\ n \in Nat
      BY <1>1
    <3> QED
      BY <2>2, <2>3, <3>1, Climb
  <2> QED
    BY <2>1, <2>4
<1>12. ASSUME NEW j \in DOMAIN q
       PROVE  Len(p[j].prev) <= Len(q[j].prev) /\ Len(p[j].prev) \in Nat
  <2>1. CASE j < i
    BY <1>6, <2>1 DEF ForgedFrom
  <2>2. CASE ~(j < i)
    <3>1. j \in i .. n /\ IsSeq(p[j].prev)
      BY <1>1, <1>10, <2>2 DEF RowSound
    <3> QED
      BY <1>11, <3>1, SeqShape
  <2> QED
    BY <2>1, <2>2
<1>13. Lengthens(p)
  <2> SUFFICES ASSUME NEW j \in DOMAIN p, NEW k \in DOMAIN p, j < k
               PROVE  Len(p[j].prev) < Len(p[k].prev)
    BY DEF Lengthens
  <2>1. CASE k < i
    <3>1. j < i /\ j \in DOMAIN q /\ k \in DOMAIN q
      BY <1>1, <2>1
    <3> QED
      BY <2>1, <3>1 DEF Traceable, Lengthens, ForgedFrom
  <2>2. CASE ~(k < i) /\ j < i
    <3>1. k \in i .. n /\ j \in DOMAIN q /\ L \in Nat
      BY <1>1, <1>6, <2>2
    <3>2. Len(p[k].prev) = L + (k - i) /\ p[j] = q[j]
      BY <1>11, <2>2, <3>1 DEF ForgedFrom
    <3>3. Len(q[j].prev) < L /\ Len(q[j].prev) \in Nat
      BY <1>6, <2>2, <3>1 DEF Traceable, Lengthens
    <3> HIDE DEF L, n
    <3>4. L <= L + (k - i)
      BY <1>1, <3>1
    <3>5. Len(q[j].prev) < L + (k - i)
      BY <1>1, <3>1, <3>3, <3>4
    <3> QED
      BY <3>2, <3>5
  <2>3. CASE ~(j < i)
    <3>1. j \in i .. n /\ k \in i .. n /\ L \in Nat
      BY <1>1, <1>6, <2>3
    <3>2. Len(p[j].prev) = L + (j - i) /\ Len(p[k].prev) = L + (k - i)
      BY <1>11, <3>1
    <3> HIDE DEF L, n
    <3>3. L + (j - i) < L + (k - i)
      BY <1>1, <3>1
    <3> QED
      BY <3>2, <3>3
  <2> QED
    BY <2>1, <2>2, <2>3
<1>14. ASSUME NEW j \in DOMAIN p
       PROVE  /\ DatedIn(p, p[j].hash, p[j].id)
              /\ p[j].type = Checkpoint => DatedIn(p, p[j].facts.signature[2], p[j].id)
  <2>1. \A k \in DOMAIN p : \E m \in DOMAIN q : p[k].id = q[m].id /\ q[m].at <= p[k].at
    BY <1>1, <1>4
  <2>2. p[j].facts.signature = q[j].facts.signature
    <3>1. CASE j < i
      BY <1>1, <3>1 DEF ForgedFrom
    <3>2. CASE ~(j < i)
      BY <1>1, <1>7, <3>2
    <3> QED
      BY <3>1, <3>2
  <2>3. p[j].type = Checkpoint => DatedIn(q, p[j].facts.signature[2], p[j].id)
    BY <1>1, <1>4, <2>2 DEF Traceable
  <2>4. DatedIn(p, p[j].hash, p[j].id)
    <3>1. CASE j < i
      <4>1. DatedIn(q, p[j].hash, p[j].id)
        BY <1>1, <3>1 DEF ForgedFrom, Traceable
      <4> QED
        BY <1>1, <2>1, <4>1, DatedStays
    <3>2. CASE ~(j < i)
      <4>1. j \in i .. n
        BY <1>1, <3>2
      <4>2. p[j].hash = f[j] /\ DatedIn(p, f[j], p[j].id)
        BY <1>3, <1>5, <4>1
      <4> QED
        BY <4>2
    <3> QED
      BY <3>1, <3>2
  <2> QED
    BY <1>1, <2>1, <2>3, <2>4, DatedStays
<1>15. Traceable(p, E)
  BY <1>10, <1>13, <1>14 DEF Traceable
<1> QED
  BY <1>4, <1>9, <1>12, <1>15

-----------------------------------------------------------------------------
(* What is about to be written *)

(* What a session is about to write stays right when rows go or get later times. *)
LEMMA InFlightStays ==
    ASSUME NEW q, NEW p, NEW t, NEW u, NEW c, NEW last \in Nat, NEW more \in Nat, last <= more,
           InFlight(q, t, c, last),
           c = "commit" => t.id \in Nat,
           \A i \in DOMAIN q : q[i].at \in Nat /\ Len(q[i].prev) \in Nat,
           \A i \in DOMAIN p : p[i].at \in Nat /\ Len(p[i].prev) \in Nat,
           \A i \in DOMAIN p : \E k \in DOMAIN q :
              p[i].id = q[k].id /\ q[k].at <= p[i].at /\ Len(p[i].prev) <= Len(q[k].prev),
           u.facts = t.facts, u.type = t.type, u.id = t.id, u.at = t.at,
           u.prev = t.prev, u.hash = t.hash
    PROVE  InFlight(p, u, c, more)
<1>1. ASSUME NEW h, NEW top, DatedIn(q, h, top)
      PROVE  DatedIn(p, h, top)
  <2>1. \A i \in DOMAIN p : \E k \in DOMAIN q : p[i].id = q[k].id /\ q[k].at <= p[i].at
    OBVIOUS
  <2> QED
    BY <1>1, <2>1, DatedStays
<1>2. FactsOK(u.facts) /\ (c = "lock" => u.type = Event)
  BY DEF InFlight
<1>3. c = "chain" /\ u.type = Checkpoint => DatedIn(p, u.facts.signature[2], more)
  <2> SUFFICES ASSUME c = "chain", t.type = Checkpoint
               PROVE  DatedIn(p, t.facts.signature[2], more)
    OBVIOUS
  <2>1. DatedIn(q, t.facts.signature[2], last)
    BY DEF InFlight
  <2>2. DatedIn(q, t.facts.signature[2], more)
    BY <2>1, DatedHigher
  <2> QED
    BY <1>1, <2>2
<1>4. ASSUME c = "commit"
      PROVE  /\ IsSeq(u.prev) /\ u.hash = ComputedHash(RowOf(u))
             /\ DatedIn(p, u.prev, u.id - 1)
             /\ u.type = Checkpoint => DatedIn(p, u.facts.signature[2], u.id - 1)
             /\ \A i \in DOMAIN p : Len(p[i].prev) < Len(u.prev)
  <2>1. /\ IsSeq(t.prev) /\ t.hash = ComputedHash(RowOf(t))
        /\ DatedIn(q, t.prev, t.id - 1)
        /\ t.type = Checkpoint => DatedIn(q, t.facts.signature[2], t.id - 1)
        /\ \A i \in DOMAIN q : Len(q[i].prev) < Len(t.prev)
    BY <1>4 DEF InFlight
  <2>2. RowOf(u) = RowOf(t)
    BY DEF RowOf
  <2>3. Len(t.prev) \in Nat
    BY <2>1, SeqShape
  <2>4. ASSUME NEW i \in DOMAIN p
        PROVE  Len(p[i].prev) < Len(t.prev)
    <3>1. PICK k \in DOMAIN q : Len(p[i].prev) <= Len(q[k].prev)
      OBVIOUS
    <3>2. Len(q[k].prev) < Len(t.prev) /\ Len(q[k].prev) \in Nat /\ Len(p[i].prev) \in Nat
      BY <2>1
    <3> QED
      BY <2>3, <3>1, <3>2
  <2> QED
    BY <1>1, <2>1, <2>2, <2>4
<1> QED
  BY <1>2, <1>3, <1>4 DEF InFlight

-----------------------------------------------------------------------------
(* Walking *)

(* Appending a row leaves every walk where it was, and the break ahead of it. *)
LEMMA GrownWalk ==
    ASSUME NEW q, NEW p, NEW r, NEW k, NEW D, NEW w, Grown(q, p, r), q = <<>> <=> Len(q) = 0,
           WalkTrue(q, k, D, w)
    PROVE  WalkTrue(p, k, D, w)
<1>1. /\ \A i \in DOMAIN q : i \in DOMAIN p /\ p[i] = q[i]
      /\ DOMAIN p # {}
      /\ q # <<>> => 1 \in DOMAIN q
  BY DEF Grown
<1>2. p # <<>>
  BY <1>1
<1>3. ASSUME NEW after, NEW expected, AtRow(q, after, expected)
      PROVE  AtRow(p, after, expected)
  BY <1>1, <1>2, <1>3 DEF AtRow
<1>4. \A i \in DOMAIN q : Break(q, i) => Break(p, i)
  BY GrownBreaks
<1>5. \A after : BreakAhead(q, after) => BreakAhead(p, after)
  BY <1>1, <1>4 DEF BreakAhead
<1>6. (\E i \in DOMAIN q : Break(q, i)) => \E i \in DOMAIN p : Break(p, i)
  BY <1>1, <1>4
<1>7. AnchorOfOther(q, k) => AnchorOfOther(p, k)
  BY <1>1, <1>2 DEF AnchorOfOther
<1>8. \A ids : OfOtherKeys(q, k, ids) => OfOtherKeys(p, k, ids)
  BY <1>1 DEF OfOtherKeys
<1>9. \A ids : NamesUntrue(q, ids) => NamesUntrue(p, ids)
  BY <1>1 DEF NamesUntrue
<1> QED
  BY <1>3, <1>5, <1>6, <1>7, <1>8, <1>9 DEF WalkTrue

(* Nothing is claimed of a walk that saw half of a change. *)
LEMMA DisturbedWalk ==
    ASSUME NEW q, NEW k, NEW D, NEW w, w.disturbed \/ w.phase = "idle"
    PROVE  WalkTrue(q, k, D, w)
BY DEF WalkTrue

(* WHERE id > after ORDER BY id LIMIT size, where k rows are at or below after. *)
Behind(k, after) ==
    \A j \in DOMAIN log : IF j <= k THEN log[j].id <= after ELSE after < log[j].id

Page(k, size) == {i \in DOMAIN log : k < i /\ i <= k + size}

(* Ids are in the order of the rows. *)
LEMMA IdsClimb ==
    ASSUME TypeOK, CommitOrderIsIdOrder
    PROVE  /\ DOMAIN log = 1 .. Len(log) /\ Len(log) \in Nat
           /\ \A i \in DOMAIN log : log[i].id \in Nat
           /\ \A i, j \in DOMAIN log : log[i].id < log[j].id <=> i < j
           /\ \A i, j \in DOMAIN log : log[i].id <= log[j].id <=> i <= j
<1>1. /\ DOMAIN log = 1 .. Len(log) /\ Len(log) \in Nat
      /\ \A i \in DOMAIN log : log[i].id \in Nat
  BY LogIsSequence DEF TypeOK, LogOK, RowOK
<1> QED
  BY <1>1 DEF CommitOrderIsIdOrder

(* ORDER BY id LIMIT size gives the next rows of the log. *)
LEMMA PageIsNext ==
    ASSUME TypeOK, CommitOrderIsIdOrder, NEW k \in 0 .. Len(log), NEW after \in Int,
           Behind(k, after), NEW size \in Nat
    PROVE  NextRows(after, size) = Page(k, size)
<1>1. /\ DOMAIN log = 1 .. Len(log) /\ Len(log) \in Nat
      /\ \A i \in DOMAIN log : log[i].id \in Nat
      /\ \A i, j \in DOMAIN log : log[i].id <= log[j].id <=> i <= j
  BY IdsClimb
<1>2. ASSUME NEW i \in DOMAIN log
      PROVE  log[i].id > after <=> k < i
  BY <1>1 DEF Behind
<1>3. ASSUME NEW i \in DOMAIN log, k < i
      PROVE  Cardinality({j \in DOMAIN log : after < log[j].id /\ log[j].id <= log[i].id}) = i - k
  <2>1. {j \in DOMAIN log : after < log[j].id /\ log[j].id <= log[i].id} = k + 1 .. i
    <3>1. ASSUME NEW j \in DOMAIN log
          PROVE  after < log[j].id /\ log[j].id <= log[i].id <=> k < j /\ j <= i
      BY <1>1, <1>2
    <3>2. \A j \in k + 1 .. i : j \in DOMAIN log
      BY <1>1
    <3>3. \A j \in DOMAIN log : k < j /\ j <= i <=> j \in k + 1 .. i
      BY <1>1
    <3> QED
      BY <3>1, <3>2, <3>3
  <2>2. Cardinality(k + 1 .. i) = i - k
    <3>1. Cardinality(k + 1 .. i) = i - (k + 1) + 1
      BY <1>1, <1>3, FS_Interval
    <3> QED
      BY <1>1, <3>1
  <2> QED
    BY <2>1, <2>2
<1>4. ASSUME NEW i \in DOMAIN log
      PROVE  i \in NextRows(after, size) <=> k < i /\ i <= k + size
  <2>1. k < i => (i - k <= size <=> i <= k + size)
    BY <1>1
  <2> QED
    BY <1>2, <1>3, <2>1 DEF NextRows
<1> QED
  BY <1>4 DEF NextRows, Page

(* A walk has so many rows behind it, and the rest ahead. *)
LEMMA PlaceOfWalk ==
    ASSUME TypeOK, CommitOrderIsIdOrder, NEW after, NEW expected, AtRow(log, after, expected)
    PROVE  \E k \in 0 .. Len(log) :
              /\ after \in Int /\ Behind(k, after)
              /\ k = 0 => expected = log[1].prev
              /\ k > 0 => expected = log[k].hash
<1>1. /\ DOMAIN log = 1 .. Len(log) /\ Len(log) \in Nat
      /\ \A i \in DOMAIN log : log[i].id \in Nat
      /\ \A i, j \in DOMAIN log : log[i].id <= log[j].id <=> i <= j
      /\ log = <<>> <=> Len(log) = 0
  BY IdsClimb, LogIsSequence
<1>2. CASE log # <<>> /\ after = log[1].id - 1 /\ expected = log[1].prev
  <2>1. 1 \in DOMAIN log
    BY <1>1, <1>2
  <2>2. \A j \in DOMAIN log : log[1].id <= log[j].id
    BY <1>1, <2>1
  <2>3. after \in Int /\ Behind(0, after)
    BY <1>1, <1>2, <2>1, <2>2 DEF Behind
  <2> QED
    BY <1>1, <1>2, <2>3
<1>3. ASSUME NEW i \in DOMAIN log, after = log[i].id, expected = log[i].hash
      PROVE  \E k \in 0 .. Len(log) :
                /\ after \in Int /\ Behind(k, after)
                /\ k = 0 => expected = log[1].prev
                /\ k > 0 => expected = log[k].hash
  <2>1. Behind(i, after)
    BY <1>1, <1>3 DEF Behind
  <2> QED
    BY <1>1, <1>3, <2>1
<1> QED
  BY <1>2, <1>3 DEF AtRow

(* lag(hash): in a batch, each row is compared with the one before it in the log. *)
LEMMA BatchJudged ==
    ASSUME TypeOK, CommitOrderIsIdOrder, NEW k \in 0 .. Len(log), NEW size \in Nat, NEW batch,
           batch = Page(k, size), NEW expected,
           k = 0 => expected = log[1].prev, k > 0 => expected = log[k].hash,
           NEW i \in batch
    PROVE  /\ i # 1 => ExpectedPrev(batch, expected, i) = log[i - 1].hash
           /\ i = 1 => ExpectedPrev(batch, expected, i) = log[1].prev
<1>1. /\ DOMAIN log = 1 .. Len(log) /\ Len(log) \in Nat /\ i \in DOMAIN log /\ k < i /\ i <= k + size
      /\ \A j, m \in DOMAIN log : log[j].id < log[m].id <=> j < m
      /\ \A j, m \in DOMAIN log : log[j].id <= log[m].id <=> j <= m
      /\ batch = {j \in DOMAIN log : k < j /\ j <= k + size}
  BY IdsClimb DEF Page
<1> DEFINE earlier == {j \in batch : log[j].id < log[i].id}
<1>2. earlier = {j \in batch : j < i}
  BY <1>1
<1>3. CASE i = k + 1
  <2>1. earlier = {}
    BY <1>1, <1>2, <1>3
  <2>2. ExpectedPrev(batch, expected, i) = expected
    BY <2>1 DEF ExpectedPrev
  <2>3. (i # 1 => k > 0 /\ i - 1 = k) /\ (i = 1 => k = 0)
    BY <1>1, <1>3
  <2> QED
    BY <2>2, <2>3
<1>4. CASE i # k + 1
  <2>1. i - 1 \in earlier
    BY <1>1, <1>2, <1>4
  <2>2. \A j \in earlier : log[j].id <= log[i - 1].id
    BY <1>1, <1>2, <2>1
  <2>3. \A m \in earlier : (\A j \in earlier : log[j].id <= log[m].id) => m = i - 1
    BY <1>1, <1>2, <2>1
  <2> HIDE DEF earlier
  <2>4. Latest(earlier) = i - 1
    BY <2>1, <2>2, <2>3 DEF Latest
  <2>5. ExpectedPrev(batch, expected, i) = log[Latest(earlier)].hash
    BY <2>1 DEF ExpectedPrev, earlier
  <2>6. i # 1
    BY <1>1, <1>4
  <2> QED
    BY <2>4, <2>5, <2>6
<1> QED
  BY <1>3, <1>4

(* The row of the smallest id is the first. *)
LEMMA FirstIsEarliest ==
    ASSUME TypeOK, CommitOrderIsIdOrder, log # <<>>
    PROVE  1 \in DOMAIN log /\ Earliest(DOMAIN log) = 1
<1>1. /\ 1 \in DOMAIN log
      /\ \A i, j \in DOMAIN log : log[i].id <= log[j].id <=> i <= j
      /\ DOMAIN log = 1 .. Len(log) /\ Len(log) \in Nat
  BY IdsClimb, LogIsSequence
<1>2. \A j \in DOMAIN log : log[1].id <= log[j].id
  BY <1>1
<1>3. \A i \in DOMAIN log : (\A j \in DOMAIN log : log[i].id <= log[j].id) => i = 1
  BY <1>1
<1> QED
  BY <1>1, <1>2, <1>3 DEF Earliest

(* The three results of checkCheckpoint(), of a checkpoint that names the row it follows. *)
LEMMA CheckTold ==
    ASSUME NEW r, r.type = Checkpoint
    PROVE  /\ GenuineCheckpoint(r) => ~BadCheckpoint(r)
           /\ Untrue(r) => BadCheckpoint(r) \/ NamesOtherKey(r)
           /\ NamesOtherKey(r) => r.facts.keyId # signingKey
BY DEF GenuineCheckpoint, BadCheckpoint, Untrue, NamesOtherKey, checkCheckpoint

(* verifyChain()'s first query: a log nobody touched has no bad checkpoint, and if a
   touched one has none, its break is one the walk meets, or the checkpoint is named. *)
LEMMA CheckpointsVerified ==
    ASSUME TypeOK, damaged = {} => ChainGrows, damaged # {} => Broken(log),
           NEW v \in Verifier, VerifyCheckpoints(v)
    PROVE  WalkTrue(log, signingKey, damaged, walk'[v])
<1>1. PICK w : w = walk'[v]
  OBVIOUS
<1>2. PICK ok, unknownKey, dirty :
         /\ ok = \A i \in DOMAIN log : ~BadCheckpoint(log[i])
         /\ unknownKey = {log[i].id : i \in {j \in DOMAIN log : NamesOtherKey(log[j])}}
         /\ dirty = (damaged # {})
         /\ walk'[v] = [IdleWalk EXCEPT !.phase = "first", !.ok = ok,
                                        !.unknownKey = unknownKey, !.dirty = dirty]
  BY DEF TypeOK, WalksOK, VerifyCheckpoints
<1>3. w.phase = "first" /\ w.ok = ok /\ w.unknownKey = unknownKey /\ w.dirty = dirty
  BY <1>1, <1>2 DEF IdleWalk
<1>4. damaged = {} => ok
  <2> SUFFICES ASSUME damaged = {}, NEW i \in DOMAIN log, log[i].type = Checkpoint
               PROVE  ~BadCheckpoint(log[i])
    BY <1>2 DEF BadCheckpoint
  <2>1. GenuineCheckpoint(log[i])
    BY DEF ChainGrows, Signed, GenuineCheckpoint
  <2> QED
    BY <2>1, CheckTold
<1>5. OfOtherKeys(log, signingKey, unknownKey)
  <2> SUFFICES ASSUME NEW i \in DOMAIN log, NamesOtherKey(log[i])
               PROVE  log[i].type = Checkpoint /\ log[i].facts.keyId # signingKey
    BY <1>2 DEF OfOtherKeys
  <2>1. log[i].type = Checkpoint
    BY DEF NamesOtherKey
  <2> QED
    BY <2>1, CheckTold
<1>6. ASSUME damaged # {}, ok, ~NamesUntrue(log, unknownKey)
      PROVE  \E i \in DOMAIN log : Break(log, i)
  <2>1. PICK i \in DOMAIN log : Untrue(log[i]) \/ Break(log, i)
    BY <1>6 DEF Broken
  <2>2. ~Untrue(log[i])
    <3> SUFFICES ASSUME Untrue(log[i])
                 PROVE  FALSE
      OBVIOUS
    <3>1. log[i].type = Checkpoint /\ ~GenuineCheckpoint(log[i])
      BY DEF Untrue
    <3>2. NamesOtherKey(log[i])
      BY <1>2, <1>6, <3>1, CheckTold
    <3>3. log[i].id \in unknownKey
      BY <1>2, <3>2
    <3> QED
      BY <1>6, <3>1, <3>3 DEF NamesUntrue
  <2> QED
    BY <2>1, <2>2
<1>7. WalkTrue(log, signingKey, damaged, w)
  BY <1>2, <1>3, <1>4, <1>5, <1>6 DEF WalkTrue
<1> QED
  BY <1>1, <1>7

(* The walk starts at the first row, and a break it passes there shows in the row's own
   hash. *)
LEMMA FirstVerified ==
    ASSUME TypeOK, CommitOrderIsIdOrder, damaged = {} => ChainGrows,
           NEW v \in Verifier, WalkTrue(log, signingKey, damaged, walk[v]), VerifyFirst(v)
    PROVE  WalkTrue(log, signingKey, damaged, walk'[v])
<1>1. PICK w, u : w = walk[v] /\ u = walk'[v]
  OBVIOUS
<1>2. WalkOK(w) /\ WalkTrue(log, signingKey, damaged, w) /\ w.phase = "first"
  BY <1>1 DEF TypeOK, WalksOK, VerifyFirst
<1>3. u = IF log = <<>> THEN [w EXCEPT !.phase = "done"]
          ELSE IF StartsChain(log[Earliest(DOMAIN log)])
               THEN [w EXCEPT !.phase = "batch", !.after = log[Earliest(DOMAIN log)].id - 1,
                              !.expected = log[Earliest(DOMAIN log)].prev]
               ELSE [w EXCEPT !.phase = "done", !.ok = FALSE]
  BY <1>1 DEF TypeOK, WalksOK, VerifyFirst
<1>4. CASE log = <<>>
  <2>1. u = [w EXCEPT !.phase = "done"]
    BY <1>3, <1>4
  <2>2. /\ u.phase = "done" /\ u.ok = w.ok /\ u.unknownKey = w.unknownKey
        /\ u.dirty = w.dirty /\ u.disturbed = w.disturbed
    BY <1>2, <2>1 DEF WalkOK
  <2>3. DOMAIN log = {}
    BY <1>4
  <2>4. ~w.disturbed => /\ damaged = {} => w.ok
                        /\ OfOtherKeys(log, signingKey, w.unknownKey)
                        /\ w.dirty => damaged # {}
                        /\ w.dirty /\ w.ok => NamesUntrue(log, w.unknownKey)
    BY <1>2, <2>3 DEF WalkTrue
  <2>5. WalkTrue(log, signingKey, damaged, u)
    BY <2>2, <2>4 DEF WalkTrue
  <2> QED
    BY <1>1, <2>5
<1>5. CASE log # <<>> /\ StartsChain(log[1])
  <2>1. 1 \in DOMAIN log /\ Earliest(DOMAIN log) = 1
    BY <1>5, FirstIsEarliest
  <2>2. u = [w EXCEPT !.phase = "batch", !.after = log[1].id - 1, !.expected = log[1].prev]
    BY <1>3, <1>5, <2>1
  <2>3. /\ u.phase = "batch" /\ u.after = log[1].id - 1 /\ u.expected = log[1].prev
        /\ u.ok = w.ok /\ u.unknownKey = w.unknownKey
        /\ u.dirty = w.dirty /\ u.disturbed = w.disturbed
    <3>1. PICK after, expected : after = log[1].id - 1 /\ expected = log[1].prev
      OBVIOUS
    <3>2. u = [w EXCEPT !.phase = "batch", !.after = after, !.expected = expected]
      BY <2>2, <3>1
    <3>3. /\ u.phase = "batch" /\ u.after = after /\ u.expected = expected
          /\ u.ok = w.ok /\ u.unknownKey = w.unknownKey
          /\ u.dirty = w.dirty /\ u.disturbed = w.disturbed
      BY <1>2, <3>2 DEF WalkOK
    <3> QED
      BY <3>1, <3>3
  <2>4. AtRow(log, u.after, u.expected)
    BY <1>5, <2>3 DEF AtRow
  <2>5. ~w.disturbed => /\ damaged = {} => w.ok
                        /\ OfOtherKeys(log, signingKey, w.unknownKey)
                        /\ w.dirty => damaged # {}
    BY <1>2 DEF WalkTrue
  <2>6. ASSUME ~w.disturbed, w.dirty, w.ok, ~NamesUntrue(log, w.unknownKey)
        PROVE  BreakAhead(log, u.after)
    <3>1. \E i \in DOMAIN log : Break(log, i)
      BY <1>2, <2>6 DEF WalkTrue
    <3>2. PICK i \in DOMAIN log : Break(log, i)
      BY <3>1
    <3>3. i = 1 => ComputedHash(log[1]) # log[1].hash
      <4>1. Rightful(log[1])
        BY <1>5 DEF StartsChain, Rightful, GenuineCheckpoint, checkCheckpoint
      <4> QED
        BY <3>2, <4>1 DEF Break
    <3>4. u.after < log[i].id
      <4>1. /\ log[1].id \in Nat /\ log[i].id \in Nat /\ log[1].id <= log[i].id
        BY <2>1, IdsClimb
      <4> QED
        BY <2>3, <4>1
    <3> QED
      BY <3>1, <3>2, <3>3, <3>4 DEF BreakAhead
  <2>7. WalkTrue(log, signingKey, damaged, u)
    BY <2>3, <2>4, <2>5, <2>6 DEF WalkTrue
  <2> QED
    BY <1>1, <2>7
<1>6. CASE log # <<>> /\ ~StartsChain(log[1])
  <2>1. 1 \in DOMAIN log /\ Earliest(DOMAIN log) = 1
    BY <1>6, FirstIsEarliest
  <2>2. u = [w EXCEPT !.phase = "done", !.ok = FALSE]
    BY <1>3, <1>6, <2>1
  <2>3. /\ u.phase = "done" /\ ~u.ok /\ u.unknownKey = w.unknownKey
        /\ u.dirty = w.dirty /\ u.disturbed = w.disturbed
    BY <1>2, <2>2 DEF WalkOK
  <2>4. damaged = {} => AnchorOfOther(log, signingKey)
    <3> SUFFICES ASSUME damaged = {}
                 PROVE  AnchorOfOther(log, signingKey)
      OBVIOUS
    <3>1. Rightful(log[1])
      BY <2>1 DEF ChainGrows, ChainLinked
    <3>2. log[1].prev # Genesis /\ GenuineCheckpoint(log[1])
      BY <1>6, <3>1 DEF StartsChain, Rightful
    <3>3. log[1].facts.keyId # signingKey
      BY <1>6, <3>2 DEF StartsChain, GenuineCheckpoint, checkCheckpoint
    <3> QED
      BY <1>6, <3>2, <3>3 DEF AnchorOfOther
  <2>5. ~w.disturbed => /\ OfOtherKeys(log, signingKey, w.unknownKey)
                        /\ w.dirty => damaged # {}
    BY <1>2 DEF WalkTrue
  <2>6. WalkTrue(log, signingKey, damaged, u)
    BY <2>3, <2>4, <2>5 DEF WalkTrue
  <2> QED
    BY <1>1, <2>6
<1> QED
  BY <1>4, <1>5, <1>6

(* A batch finds the break if it holds it, and leaves it ahead if not. *)
LEMMA BatchVerified ==
    ASSUME TypeOK, CommitOrderIsIdOrder, damaged = {} => ChainGrows,
           NEW v \in Verifier, WalkTrue(log, signingKey, damaged, walk[v]), VerifyBatch(v)
    PROVE  WalkTrue(log, signingKey, damaged, walk'[v])
<1>1. PICK w, u : w = walk[v] /\ u = walk'[v]
  OBVIOUS
<1>2. WalkOK(w) /\ WalkTrue(log, signingKey, damaged, w) /\ w.phase = "batch"
  BY <1>1 DEF TypeOK, WalksOK, VerifyBatch
<1> DEFINE B == NextRows(walk[v].after, BatchSize)
           R == {i \in B : \/ ComputedHash(log[i]) # log[i].hash
                           \/ log[i].prev # ExpectedPrev(B, walk[v].expected, i)}
           Out == IF R # {} THEN [walk[v] EXCEPT !.phase = "done", !.ok = FALSE]
                  ELSE IF Cardinality(B) < BatchSize THEN [walk[v] EXCEPT !.phase = "done"]
                  ELSE [walk[v] EXCEPT !.after = log[Latest(B)].id, !.expected = log[Latest(B)].hash]
<1>3. PICK batch, broken :
         /\ batch = NextRows(w.after, BatchSize)
         /\ broken = {i \in batch : \/ ComputedHash(log[i]) # log[i].hash
                                    \/ log[i].prev # ExpectedPrev(batch, w.expected, i)}
         /\ u = IF broken # {} THEN [w EXCEPT !.phase = "done", !.ok = FALSE]
                ELSE IF Cardinality(batch) < BatchSize THEN [w EXCEPT !.phase = "done"]
                ELSE [w EXCEPT !.after = log[Latest(batch)].id, !.expected = log[Latest(batch)].hash]
  <2>1. walk' = [walk EXCEPT ![v] = Out]
    BY DEF VerifyBatch
  <2>2. walk = [x \in Verifier |-> walk[x]]
    BY DEF TypeOK, WalksOK
  <2>3. walk'[v] = Out
    <3> HIDE DEF Out
    <3> QED
      BY <2>1, <2>2
  <2>4. PICK batch, broken : batch = B /\ broken = R
    OBVIOUS
  <2>5. /\ batch = NextRows(w.after, BatchSize)
        /\ broken = {i \in batch : \/ ComputedHash(log[i]) # log[i].hash
                                   \/ log[i].prev # ExpectedPrev(batch, w.expected, i)}
    BY <1>1, <2>4
  <2>6. u = IF broken # {} THEN [w EXCEPT !.phase = "done", !.ok = FALSE]
            ELSE IF Cardinality(batch) < BatchSize THEN [w EXCEPT !.phase = "done"]
            ELSE [w EXCEPT !.after = log[Latest(batch)].id, !.expected = log[Latest(batch)].hash]
    <3> HIDE DEF B, R
    <3> QED
      BY <1>1, <2>3, <2>4 DEF Out
  <2> QED
    BY <2>5, <2>6
<1> HIDE DEF B, R, Out
<1>4. CASE w.disturbed
  <2>1. u.disturbed
    <3>1. PICK after, expected : after = log[Latest(batch)].id /\ expected = log[Latest(batch)].hash
      OBVIOUS
    <3>2. \/ u = [w EXCEPT !.phase = "done", !.ok = FALSE]
          \/ u = [w EXCEPT !.phase = "done"]
          \/ u = [w EXCEPT !.after = after, !.expected = expected]
      BY <1>3, <3>1
    <3> QED
      BY <1>2, <1>4, <3>2 DEF WalkOK
  <2>2. WalkTrue(log, signingKey, damaged, u)
    BY <2>1, DisturbedWalk
  <2> QED
    BY <1>1, <2>2
<1>5. CASE ~w.disturbed
  <2>1. /\ AtRow(log, w.after, w.expected)
        /\ damaged = {} => w.ok
        /\ OfOtherKeys(log, signingKey, w.unknownKey)
        /\ w.dirty => damaged # {}
        /\ w.dirty /\ w.ok /\ ~NamesUntrue(log, w.unknownKey) => BreakAhead(log, w.after)
    BY <1>2, <1>5 DEF WalkTrue
  <2>2. PICK k \in 0 .. Len(log) :
           /\ w.after \in Int /\ Behind(k, w.after)
           /\ k = 0 => w.expected = log[1].prev
           /\ k > 0 => w.expected = log[k].hash
    BY <2>1, PlaceOfWalk
  <2>3. /\ DOMAIN log = 1 .. Len(log) /\ Len(log) \in Nat /\ BatchSize \in Nat \ {0}
        /\ \A i, j \in DOMAIN log : log[i].id < log[j].id <=> i < j
        /\ \A i, j \in DOMAIN log : log[i].id <= log[j].id <=> i <= j
        /\ \A i \in DOMAIN log : log[i].id \in Nat
    BY IdsClimb, BoundsAssumption
  <2>4. batch = Page(k, BatchSize) /\ batch = {i \in DOMAIN log : k < i /\ i <= k + BatchSize}
    BY <1>3, <2>2, <2>3, PageIsNext DEF Page
  <2>5. ASSUME NEW i \in batch
        PROVE  /\ i # 1 => ExpectedPrev(batch, w.expected, i) = log[i - 1].hash
               /\ i = 1 => ExpectedPrev(batch, w.expected, i) = log[1].prev
    <3>1. batch = Page(k, BatchSize) /\ BatchSize \in Nat
      BY <2>3, <2>4
    <3> QED
      BY <2>2, <3>1, BatchJudged
  <2>6. damaged = {} => broken = {}
    <3> SUFFICES ASSUME damaged = {}, NEW i \in broken
                 PROVE  FALSE
      OBVIOUS
    <3>1. i \in batch /\ i \in DOMAIN log
      BY <1>3, <2>4
    <3>2. ComputedHash(log[i]) = log[i].hash /\ (i # 1 => log[i].prev = log[i - 1].hash)
      BY <3>1 DEF ChainGrows, ChainLinked
    <3> QED
      BY <1>3, <2>5, <3>1, <3>2
  <2>7. ASSUME NEW i \in batch, Break(log, i), i = 1 => ComputedHash(log[1]) # log[1].hash
        PROVE  i \in broken
    BY <1>3, <2>5, <2>7 DEF Break
  <2>8. CASE broken # {}
    <3>1. /\ u.phase = "done" /\ ~u.ok /\ u.unknownKey = w.unknownKey
          /\ u.dirty = w.dirty /\ u.disturbed = w.disturbed
      BY <1>2, <1>3, <2>8 DEF WalkOK
    <3>2. WalkTrue(log, signingKey, damaged, u)
      BY <2>1, <2>6, <2>8, <3>1 DEF WalkTrue
    <3> QED
      BY <1>1, <3>2
  <2>9. ASSUME broken = {}, BreakAhead(log, w.after)
        PROVE  \E i \in DOMAIN log : /\ k + BatchSize < i /\ Break(log, i)
                                     /\ i = 1 => ComputedHash(log[1]) # log[1].hash
    <3>1. PICK i \in DOMAIN log : /\ w.after < log[i].id /\ Break(log, i)
                                  /\ i = 1 => ComputedHash(log[1]) # log[1].hash
      BY <2>9 DEF BreakAhead
    <3>2. k < i
      BY <2>2, <2>3, <3>1 DEF Behind
    <3>3. i \notin batch
      BY <2>7, <2>9, <3>1
    <3>4. k + BatchSize < i
      BY <2>3, <2>4, <3>2, <3>3
    <3> QED
      BY <3>1, <3>4
  <2>10. CASE broken = {} /\ Cardinality(batch) < BatchSize
    <3>1. u = [w EXCEPT !.phase = "done"]
      BY <1>3, <2>10
    <3>2. /\ u.phase = "done" /\ u.ok = w.ok /\ u.unknownKey = w.unknownKey
          /\ u.dirty = w.dirty /\ u.disturbed = w.disturbed
      BY <1>2, <3>1 DEF WalkOK
    <3>3. ~(k + BatchSize < Len(log))
      <4> SUFFICES ASSUME k + BatchSize < Len(log)
                   PROVE  Cardinality(batch) = BatchSize
        BY <2>3, <2>10
      <4>1. batch = k + 1 .. k + BatchSize
        BY <2>3, <2>4
      <4>2. Cardinality(k + 1 .. k + BatchSize) = (k + BatchSize) - (k + 1) + 1
        BY <2>3, FS_Interval
      <4> QED
        BY <2>3, <4>1, <4>2
    <3>4. ~BreakAhead(log, w.after)
      BY <2>3, <2>9, <2>10, <3>3
    <3>5. w.dirty /\ w.ok => NamesUntrue(log, w.unknownKey)
      BY <2>1, <3>4
    <3>6. WalkTrue(log, signingKey, damaged, u)
      BY <2>1, <3>2, <3>5 DEF WalkTrue
    <3> QED
      BY <1>1, <3>6
  <2>11. CASE broken = {} /\ ~(Cardinality(batch) < BatchSize)
    <3> DEFINE top == IF Len(log) <= k + BatchSize THEN Len(log) ELSE k + BatchSize
    <3>1. batch # {}
      <4> SUFFICES ASSUME batch = {}
                   PROVE  FALSE
        OBVIOUS
      <4>1. Cardinality(batch) = 0
        BY FS_EmptySet
      <4> QED
        BY <2>3, <2>11, <4>1
    <3>2. top \in batch /\ \A j \in batch : j <= top
      BY <2>3, <2>4, <3>1
    <3>3. top \in DOMAIN log /\ top <= k + BatchSize
      BY <2>3, <2>4, <3>2
    <3> HIDE DEF top
    <3>4. \A j \in batch : log[j].id <= log[top].id
      BY <2>3, <2>4, <3>2
    <3>5. \A i \in batch : (\A j \in batch : log[j].id <= log[i].id) => i = top
      BY <2>3, <2>4, <3>2
    <3>6. Latest(batch) = top
      BY <3>2, <3>4, <3>5 DEF Latest
    <3>7. PICK after, expected : after = log[top].id /\ expected = log[top].hash
      OBVIOUS
    <3>8. u = [w EXCEPT !.after = after, !.expected = expected]
      BY <1>3, <2>11, <3>6, <3>7
    <3>9. /\ u.phase = "batch" /\ u.after = after /\ u.expected = expected
          /\ u.ok = w.ok /\ u.unknownKey = w.unknownKey
          /\ u.dirty = w.dirty /\ u.disturbed = w.disturbed
      BY <1>2, <3>8 DEF WalkOK
    <3>10. AtRow(log, u.after, u.expected)
      BY <3>3, <3>7, <3>9 DEF AtRow
    <3>11. BreakAhead(log, w.after) => BreakAhead(log, u.after)
      <4> SUFFICES ASSUME BreakAhead(log, w.after)
                   PROVE  BreakAhead(log, u.after)
        OBVIOUS
      <4>1. PICK i \in DOMAIN log : /\ k + BatchSize < i /\ Break(log, i)
                                    /\ i = 1 => ComputedHash(log[1]) # log[1].hash
        BY <2>9, <2>11
      <4>2. top < i
        BY <2>3, <3>3, <4>1
      <4>3. u.after < log[i].id
        BY <2>3, <3>3, <3>7, <3>9, <4>2
      <4> QED
        BY <4>1, <4>3 DEF BreakAhead
    <3>12. WalkTrue(log, signingKey, damaged, u)
      BY <2>1, <3>9, <3>10, <3>11 DEF WalkTrue
    <3> QED
      BY <1>1, <3>12
  <2> QED
    BY <2>8, <2>10, <2>11
<1> QED
  BY <1>4, <1>5

-----------------------------------------------------------------------------
(* Steps *)

(* What the lock's holder reads: the head's hash is dated and longer than what any row follows. *)
LEMMA HeadTraced ==
    ASSUME TypeOK, CommitOrderIsIdOrder, IdsDrawn, NEW D, Traceable(log, D)
    PROVE  /\ IsSeq(HeadHash) /\ DatedIn(log, HeadHash, lastId)
           /\ \A i \in DOMAIN log : Len(log[i].prev) < Len(HeadHash)
<1>1. CASE log = <<>>
  <2>1. HeadHash = <<>> /\ DOMAIN log = {} /\ DOMAIN <<>> = {}
    BY <1>1 DEF HeadHash, Genesis
  <2>2. IsSeq(<<>>)
    BY EmptySeq DEF IsSeq
  <2>3. DatedIn(log, <<>>, lastId)
    BY DEF DatedIn
  <2> QED
    BY <2>1, <2>2, <2>3
<1>2. CASE log # <<>>
  <2> DEFINE n == Len(log)
  <2>1. n \in DOMAIN log /\ HeadHash = log[n].hash
    BY <1>2, HeadIsLast
  <2>2. /\ DOMAIN log = 1 .. n /\ n \in Nat
        /\ \A i \in DOMAIN log : log[i].id \in Nat /\ log[i].id <= lastId
        /\ lastId \in Nat
    BY IdsClimb DEF TypeOK, IdsDrawn
  <2> HIDE DEF n
  <2>3. IsSeq(log[n].prev) /\ IsSeq(log[n].hash) /\ Len(log[n].hash) = Len(log[n].prev) + 1
    BY <2>1 DEF Traceable, RowSound
  <2>4. DatedIn(log, log[n].hash, lastId)
    <3>1. DatedIn(log, log[n].hash, log[n].id)
      BY <2>1 DEF Traceable
    <3> QED
      BY <2>1, <2>2, <3>1, DatedHigher
  <2>5. ASSUME NEW i \in DOMAIN log
        PROVE  Len(log[i].prev) < Len(log[n].hash)
    <3>1. Len(log[i].prev) \in Nat /\ Len(log[n].prev) \in Nat
      BY <2>1, SeqShape DEF Traceable, RowSound
    <3>2. i = n \/ Len(log[i].prev) < Len(log[n].prev)
      BY <2>1, <2>2 DEF Traceable, Lengthens
    <3> QED
      BY <2>3, <3>1, <3>2
  <2> QED
    BY <2>1, <2>3, <2>4, <2>5
<1> QED
  BY <1>1, <1>2

(* TamperInv holds of the empty log. *)
LEMMA TracedStart ==
    ASSUME Init
    PROVE  TamperInv
<1>1. DOMAIN log = {}
  BY DEF Init
<1>2. Traceable(log, damaged)
  BY <1>1 DEF Traceable, Lengthens
<1>3. FactsOK(NoFacts)
  BY DEF FactsOK, NoFacts
<1>4. \A s \in Session : InFlight(log, tx[s], pc[s], lastId)
  BY <1>3 DEF Init, InFlight, IdleTx
<1>5. \A v \in Verifier : WalkTrue(log, signingKey, damaged, walk[v])
  BY DEF Init, WalkTrue, IdleWalk
<1> QED
  BY <1>2, <1>4, <1>5 DEF Init, TamperInv

(* The facts a proof about a row that stays needs. *)
LEMMA RowsKept ==
    ASSUME TypeOK, Traceable(log, damaged)
    PROVE  /\ \A i \in DOMAIN log : log[i].at \in Nat /\ Len(log[i].prev) \in Nat
           /\ \A i \in DOMAIN log : \E k \in DOMAIN log :
                 log[i].id = log[k].id /\ log[k].at <= log[i].at /\ Len(log[i].prev) <= Len(log[k].prev)
           /\ lastId \in Nat
           /\ \A s \in Session : tx[s].id \in Nat
<1>1. \A i \in DOMAIN log : log[i].at \in Nat
  BY DEF TypeOK, LogOK, RowOK
<1>2. \A i \in DOMAIN log : Len(log[i].prev) \in Nat
  BY SeqShape DEF Traceable, RowSound
<1>3. lastId \in Nat /\ \A s \in Session : tx[s].id \in Nat
  BY DEF TypeOK, TxsOK, TxOK
<1> QED
  BY <1>1, <1>2, <1>3

(* A step of one session that leaves the log alone. *)
LEMMA SessionKeepsTraced ==
    ASSUME TypeOK, TamperInv, NEW s \in Session, UNCHANGED <<log, walk, damaged, signingKey>>,
           lastId' \in Nat, lastId <= lastId',
           \A t \in Session \ {s} : pc'[t] = pc[t] /\ tx'[t] = tx[t],
           InFlight(log, tx'[s], pc'[s], lastId')
    PROVE  TamperInv'
<1>1. Traceable(log, damaged) /\ lastId \in Nat
  BY DEF TamperInv, TypeOK
<1>2. ASSUME NEW t \in Session \ {s}
      PROVE  InFlight(log, tx'[t], pc'[t], lastId')
  <2>1. InFlight(log, tx[t], pc[t], lastId)
    BY DEF TamperInv
  <2>2. InFlight(log, tx[t], pc[t], lastId')
    BY <1>1, <2>1, RowsKept, InFlightStays
  <2> QED
    BY <2>2
<1> QED
  BY <1>2 DEF TamperInv

(* What a session does before its commit. *)
LEMMA WriterKeepsTraced ==
    ASSUME TypeOK, CommitOrderIsIdOrder, IdsDrawn, TamperInv, NEW s \in Session,
           \/ Publish(s) \/ \E force \in BOOLEAN : StartCheckpoint(s, force)
           \/ TakeLock(s) \/ SkipCheckpoint(s) \/ DecideCheckpoint(s) \/ Chain(s) \/ Abort(s)
    PROVE  TamperInv'
<1>1. /\ pc \in [Session -> {"idle", "lock", "lockCheckpoint", "decide", "chain", "commit"}]
      /\ tx = [t \in Session |-> tx[t]] /\ TxOK(tx[s]) /\ lastId \in Nat /\ day \in Nat
      /\ InFlight(log, tx[s], pc[s], lastId) /\ FactsOK(tx[s].facts)
  BY DEF TypeOK, TxsOK, TamperInv, InFlight
<1>2. UNCHANGED <<log, walk, damaged, signingKey>>
  BY DEF Publish, StartCheckpoint, TakeLock, SkipCheckpoint, DecideCheckpoint, Chain, Abort, readers
<1>3. lastId' \in Nat /\ lastId <= lastId'
  <2>1. lastId' = lastId \/ lastId' = lastId + 1
    BY DEF Publish, StartCheckpoint, TakeLock, SkipCheckpoint, DecideCheckpoint, Chain, Abort
  <2> QED
    BY <1>1, <2>1
<1>4. \A t \in Session \ {s} : pc'[t] = pc[t] /\ tx'[t] = tx[t]
  <2>1. \A t \in Session \ {s} : pc'[t] = pc[t]
    <3>1. \E c : pc' = [pc EXCEPT ![s] = c]
      BY DEF Publish, StartCheckpoint, TakeLock, SkipCheckpoint, DecideCheckpoint, Chain, Abort
    <3> QED
      BY <1>1, <3>1
  <2>2. \A t \in Session \ {s} : tx'[t] = tx[t]
    <3>1. tx' = tx \/ \E c : tx' = [tx EXCEPT ![s] = c]
      <4>1. CASE DecideCheckpoint(s)
        BY <4>1 DEF DecideCheckpoint
      <4>2. CASE Chain(s)
        BY <4>2 DEF Chain
      <4>3. CASE Publish(s) \/ \E force \in BOOLEAN : StartCheckpoint(s, force)
        BY <4>3 DEF Publish, StartCheckpoint
      <4>4. CASE TakeLock(s) \/ SkipCheckpoint(s) \/ Abort(s)
        BY <4>4 DEF TakeLock, SkipCheckpoint, Abort
      <4> QED
        BY <4>1, <4>2, <4>3, <4>4
    <3> QED
      BY <1>1, <3>1
  <2> QED
    BY <2>1, <2>2
<1>5. FactsOK(NoFacts)
  BY DEF FactsOK, NoFacts
<1>6. CASE Publish(s)
  <2>1. pc'[s] = "lock" /\ tx'[s] = IdleTx
    BY <1>1, <1>6 DEF Publish
  <2>2. InFlight(log, tx'[s], pc'[s], lastId')
    BY <1>5, <2>1 DEF InFlight, IdleTx
  <2> QED
    BY <1>2, <1>3, <1>4, <2>2, SessionKeepsTraced
<1>7. ASSUME NEW force \in BOOLEAN, StartCheckpoint(s, force)
      PROVE  TamperInv'
  <2>1. pc'[s] = "lockCheckpoint" /\ tx'[s].facts = NoFacts
    BY <1>1, <1>7 DEF StartCheckpoint, IdleTx
  <2>2. InFlight(log, tx'[s], pc'[s], lastId')
    BY <1>5, <2>1 DEF InFlight
  <2> QED
    BY <1>2, <1>3, <1>4, <2>2, SessionKeepsTraced
<1>8. CASE TakeLock(s)
  <2>1. tx'[s] = tx[s] /\ (pc'[s] = "decide" \/ (pc'[s] = "chain" /\ tx[s].type = Event))
    BY <1>1, <1>8 DEF TakeLock, InFlight
  <2>2. InFlight(log, tx'[s], pc'[s], lastId')
    BY <1>1, <2>1 DEF InFlight, Event, Checkpoint
  <2> QED
    BY <1>2, <1>3, <1>4, <2>2, SessionKeepsTraced
<1>9. CASE SkipCheckpoint(s) \/ Abort(s)
  <2>1. tx'[s] = tx[s] /\ pc'[s] = "idle"
    BY <1>1, <1>9 DEF SkipCheckpoint, Abort
  <2>2. InFlight(log, tx'[s], pc'[s], lastId')
    BY <1>1, <2>1 DEF InFlight
  <2> QED
    BY <1>2, <1>3, <1>4, <2>2, SessionKeepsTraced
<1>10. CASE DecideCheckpoint(s)
  <2>1. PICK count : count = tx[s].seenCount + TailCount(tx[s].seenHead)
    OBVIOUS
  <2>2. count \in Nat
    <3>1. IsFiniteSet({i \in DOMAIN log : log[i].id > tx[s].seenHead})
      BY LogIsSequence, FS_Subset
    <3>2. TailCount(tx[s].seenHead) \in Nat
      BY <3>1, FS_CardinalityType DEF TailCount
    <3> QED
      BY <1>1, <2>1, <3>2 DEF TxOK
  <2>3. PICK facts : facts = SignedFacts(HeadId, HeadHash, count)
    OBVIOUS
  <2>4. FactsOK(facts) /\ facts.signature[2] = HeadHash
    BY <2>2, <2>3 DEF FactsOK, SignedFacts
  <2>5. tx'[s] = [tx[s] EXCEPT !.facts = facts] /\ pc'[s] = "chain" /\ lastId' = lastId
    BY <1>1, <1>10, <2>1, <2>3 DEF DecideCheckpoint
  <2>6. tx'[s].facts = facts
    BY <1>1, <2>5 DEF TxOK
  <2>7. DatedIn(log, HeadHash, lastId)
    BY HeadTraced DEF TamperInv
  <2>8. InFlight(log, tx'[s], pc'[s], lastId')
    BY <2>4, <2>5, <2>6, <2>7 DEF InFlight
  <2> QED
    BY <1>2, <1>3, <1>4, <2>8, SessionKeepsTraced
<1>11. CASE Chain(s)
  <2>1. PICK id, hash, head :
           /\ id = lastId + 1 /\ head = HeadHash
           /\ hash = RowHash(head, id, day, tx[s].type, tx[s].facts)
           /\ tx'[s] = [tx[s] EXCEPT !.id = id, !.at = day, !.prev = head, !.hash = hash]
           /\ pc'[s] = "commit" /\ pc[s] = "chain"
    BY <1>1, <1>11 DEF Chain
  <2>2. /\ tx'[s].id = id /\ tx'[s].at = day /\ tx'[s].prev = head /\ tx'[s].hash = hash
        /\ tx'[s].type = tx[s].type /\ tx'[s].facts = tx[s].facts
    BY <1>1, <2>1 DEF TxOK
  <2>3. tx'[s].hash = ComputedHash(RowOf(tx'[s]))
    BY <2>1, <2>2 DEF ComputedHash, RowOf
  <2>4. /\ IsSeq(head) /\ DatedIn(log, head, lastId)
        /\ \A i \in DOMAIN log : Len(log[i].prev) < Len(head)
    BY <2>1, HeadTraced DEF TamperInv
  <2>5. tx[s].type = Checkpoint => DatedIn(log, tx[s].facts.signature[2], lastId)
    BY <1>1, <2>1 DEF InFlight
  <2>6. id - 1 = lastId
    BY <1>1, <2>1
  <2>7. InFlight(log, tx'[s], pc'[s], lastId')
    BY <1>1, <2>1, <2>2, <2>3, <2>4, <2>5, <2>6 DEF InFlight
  <2> QED
    BY <1>2, <1>3, <1>4, <2>7, SessionKeepsTraced
<1> QED
  BY <1>6, <1>7, <1>8, <1>9, <1>10, <1>11

(* The commit appends a row that was in flight. *)
LEMMA CommitKeepsTraced ==
    ASSUME TypeOK, OneWriterAtATime, CommitOrderIsIdOrder, IdsDrawn, TamperInv,
           NEW s \in Session, Commit(s)
    PROVE  TamperInv'
<1> DEFINE r == RowOf(tx[s])
<1>1. /\ pc \in [Session -> {"idle", "lock", "lockCheckpoint", "decide", "chain", "commit"}]
      /\ TxOK(tx[s]) /\ LogOK(log)
      /\ pc[s] = "commit" /\ UNCHANGED <<tx, lastId, walk, damaged, signingKey>>
      /\ InFlight(log, tx[s], "commit", lastId)
  BY DEF TypeOK, TxsOK, Commit, readers, TamperInv
<1>2. Grown(log, log', r)
  <2>1. /\ DOMAIN log' = 1 .. Len(log) + 1
        /\ \A i \in DOMAIN log : log'[i] = log[i]
        /\ log'[Len(log) + 1] = r
    BY CommitAppends DEF Commit, LogAppends
  <2> QED
    BY <2>1, LogIsSequence DEF Grown
<1>3. RowOK(r)
  BY <1>1 DEF TxOK, RowOf, RowOK
<1>4. /\ r.id = tx[s].id /\ r.type = tx[s].type /\ r.facts = tx[s].facts
      /\ r.prev = tx[s].prev /\ r.hash = tx[s].hash
  BY DEF RowOf
<1>5. /\ IsSeq(tx[s].prev) /\ tx[s].hash = ComputedHash(r) /\ FactsOK(tx[s].facts)
      /\ DatedIn(log, tx[s].prev, tx[s].id - 1)
      /\ tx[s].type = Checkpoint => DatedIn(log, tx[s].facts.signature[2], tx[s].id - 1)
      /\ \A i \in DOMAIN log : Len(log[i].prev) < Len(tx[s].prev)
      /\ \A i \in DOMAIN log : log[i].id < tx[s].id
  BY <1>1 DEF InFlight, IdsDrawn
<1> HIDE DEF r
<1>6. Traceable(log', damaged')
  <2>1. Traceable(log, damaged)
    BY DEF TamperInv
  <2>2. Traceable(log', damaged)
    BY <1>1, <1>2, <1>3, <1>4, <1>5, <2>1, GrownIsTraceable
  <2> QED
    BY <1>1, <2>2
<1>7. ASSUME NEW t \in Session
      PROVE  InFlight(log', tx'[t], pc'[t], lastId')
  <2>1. pc'[t] \notin {"chain", "commit"} /\ (pc'[t] = "lock" => pc[t] = "lock")
    BY <1>1 DEF Commit, OneWriterAtATime, InsideLock
  <2>2. InFlight(log, tx[t], pc[t], lastId)
    BY DEF TamperInv
  <2> QED
    BY <1>1, <2>1, <2>2 DEF InFlight
<1>8. damaged' # {} => Broken(log')
  BY <1>1, <1>2, GrownBreaks DEF TamperInv
<1>9. ASSUME NEW v \in Verifier
      PROVE  WalkTrue(log', signingKey', damaged', walk'[v])
  <2>1. WalkTrue(log, signingKey, damaged, walk[v]) /\ (log = <<>> <=> Len(log) = 0)
    BY LogIsSequence DEF TamperInv
  <2>2. WalkTrue(log', signingKey, damaged, walk[v])
    BY <1>2, <2>1, GrownWalk
  <2> QED
    BY <1>1, <2>2
<1> QED
  BY <1>6, <1>7, <1>8, <1>9 DEF TamperInv

(* Whatever is done to a row shows, and leaves no row of another age or a longer past. *)
LEMMA DamageShows ==
    ASSUME TypeOK, TypeOK', CommitOrderIsIdOrder, Traceable(log, damaged), NEW i \in DOMAIN log,
           EditRow(i) \/ RemoveRow(i) \/ \E patch \in BOOLEAN, key \in Key : Forge(i, patch, key)
    PROVE  /\ Broken(log')
           /\ Traceable(log', damaged')
           /\ \A j \in DOMAIN log' : \E k \in DOMAIN log :
                 /\ log'[j].id = log[k].id /\ log[k].at <= log'[j].at
                 /\ Len(log'[j].prev) <= Len(log[k].prev)
<1>1. /\ LogOK(log) /\ LogOK(log') /\ RowOK(log[i])
      /\ DOMAIN log = 1 .. Len(log) /\ Len(log) \in Nat
      /\ \A j \in DOMAIN log : log[j].at \in Nat /\ Len(log[j].prev) \in Nat
  <2>1. LogOK(log) /\ LogOK(log') /\ RowOK(log[i])
    BY DEF TypeOK, LogOK
  <2> QED
    BY <2>1, LogIsSequence, RowsKept
<1>2. log[i].id \notin damaged /\ damaged' = damaged \cup {log[i].id}
  BY DEF EditRow, RemoveRow, Forge, Damage
<1>3. CASE EditRow(i)
  <2>1. PICK o, facts, at, count :
           /\ o = log[i] /\ at = o.at + 1 /\ count = o.facts.count + 1
           /\ facts = [o.facts EXCEPT !.count = count]
    OBVIOUS
  <2>2. \/ log' = [log EXCEPT ![i] = [o EXCEPT !.at = at]]
        \/ log' = [log EXCEPT ![i] = [o EXCEPT !.facts = facts]]
    BY <1>3, <2>1 DEF EditRow
  <2>3. PICK r : /\ r = [o EXCEPT !.at = at] \/ r = [o EXCEPT !.facts = facts]
                 /\ log' = [log EXCEPT ![i] = r]
    BY <2>2
  <2>4. /\ DOMAIN log' = DOMAIN log /\ log'[i] = r
        /\ \A j \in DOMAIN log : j # i => log'[j] = log[j]
    BY <2>3
  <2>5. RowOK(o)
    BY <1>1, <2>1
  <2>6. /\ r.id = o.id /\ r.type = o.type /\ r.prev = o.prev /\ r.hash = o.hash
        /\ \/ r.at = at /\ r.facts = o.facts
           \/ r.at = o.at /\ r.facts = facts
    BY <2>3, <2>5 DEF RowOK
  <2>7. /\ log'[i].id = log[i].id /\ log'[i].type = log[i].type
        /\ log'[i].prev = log[i].prev /\ log'[i].hash = log[i].hash
        /\ \/ log'[i].at = log[i].at + 1 /\ log'[i].facts = log[i].facts
           \/ log'[i].at = log[i].at /\ log'[i].facts = [log[i].facts EXCEPT !.count = @ + 1]
    BY <2>1, <2>4, <2>6
  <2>8. /\ log[i].id \notin damaged /\ DOMAIN log' = DOMAIN log
        /\ \A j \in DOMAIN log : j # i => log'[j] = log[j]
    BY <1>2, <2>4
  <2>9. /\ Break(log', i)
        /\ Traceable(log', damaged \cup {log[i].id})
        /\ \A j \in DOMAIN log : /\ log'[j].id = log[j].id /\ log[j].at <= log'[j].at
                                 /\ log'[j].prev = log[j].prev
    BY <1>1, <2>7, <2>8, EditShows
  <2> QED
    BY <1>1, <1>2, <2>4, <2>9 DEF Broken
<1>4. CASE RemoveRow(i)
  <2>1. /\ DOMAIN log' = 1 .. Len(log) - 1 /\ 1 < i /\ i < Len(log)
        /\ \A j \in DOMAIN log' : log'[j] = IF j < i THEN log[j] ELSE log[j + 1]
    BY <1>1, <1>4 DEF RemoveRow
  <2>2. i \in DOMAIN log' /\ Break(log', i)
    BY <1>1, <2>1, RemovalShows
  <2> DEFINE f == [j \in DOMAIN log' |-> IF j < i THEN j ELSE j + 1]
  <2>3. f \in [DOMAIN log' -> DOMAIN log] /\ (\A j \in DOMAIN log' : log'[j] = log[f[j]])
        /\ \A j, k \in DOMAIN log' : j < k => f[j] < f[k]
    BY <1>1, <2>1
  <2> HIDE DEF f
  <2>4. Traceable(log', damaged')
    BY <1>1, <1>2, <2>3, FewerAreTraceable
  <2> QED
    BY <1>1, <2>2, <2>3, <2>4 DEF Broken
<1>5. ASSUME NEW patch \in BOOLEAN, NEW key \in Key, Forge(i, patch, key)
      PROVE  /\ Broken(log')
             /\ Traceable(log', damaged')
             /\ \A j \in DOMAIN log' : \E k \in DOMAIN log :
                   /\ log'[j].id = log[k].id /\ log[k].at <= log'[j].at
                   /\ Len(log'[j].prev) <= Len(log[k].prev)
  <2> DEFINE ff == CHOOSE links : links =
                      [j \in i - 1 .. Len(log) |->
                         IF j = i - 1 THEN log[i].prev
                         ELSE RowHash(links[j - 1], log[j].id, IF j = i THEN log[j].at + 1 ELSE log[j].at,
                                      log[j].type,
                                      IF patch /\ log[j].type = Checkpoint
                                      THEN [log[j].facts EXCEPT !.headHash = links[j - 1], !.keyId = key]
                                      ELSE log[j].facts)]
  <2>1. log' = [j \in DOMAIN log |->
                   IF j < i THEN log[j]
                   ELSE [log[j] EXCEPT !.at = IF j = i THEN log[j].at + 1 ELSE log[j].at,
                                       !.facts = IF patch /\ log[j].type = Checkpoint
                                                 THEN [log[j].facts EXCEPT !.headHash = ff[j - 1], !.keyId = key]
                                                 ELSE log[j].facts,
                                       !.prev = ff[j - 1], !.hash = ff[j]]]
    BY <1>5 DEF Forge
  <2>2. Linked(log, i, patch, key, ff, Len(log))
    <3>1. PICK g : Linked(log, i, patch, key, g, Len(log))
      BY <1>1, LinksExist
    <3>2. g = [j \in i - 1 .. Len(log) |->
                 IF j = i - 1 THEN log[i].prev
                 ELSE RowHash(g[j - 1], log[j].id, IF j = i THEN log[j].at + 1 ELSE log[j].at,
                              log[j].type,
                              IF patch /\ log[j].type = Checkpoint
                              THEN [log[j].facts EXCEPT !.headHash = g[j - 1], !.keyId = key]
                              ELSE log[j].facts)]
      BY <3>1 DEF Linked, Link, NewAt, NewFacts
    <3>3. ff = [j \in i - 1 .. Len(log) |->
                 IF j = i - 1 THEN log[i].prev
                 ELSE RowHash(ff[j - 1], log[j].id, IF j = i THEN log[j].at + 1 ELSE log[j].at,
                              log[j].type,
                              IF patch /\ log[j].type = Checkpoint
                              THEN [log[j].facts EXCEPT !.headHash = ff[j - 1], !.keyId = key]
                              ELSE log[j].facts)]
      BY <3>2
    <3> HIDE DEF ff
    <3> QED
      BY <3>3 DEF Linked, Link, NewAt, NewFacts
  <2> HIDE DEF ff
  <2>3. PICK f : /\ f = ff
                 /\ log' = [j \in DOMAIN log |->
                              IF j < i THEN log[j]
                              ELSE [log[j] EXCEPT !.at = NewAt(log, i, j),
                                                  !.facts = NewFacts(log, patch, key, j, f[j - 1]),
                                                  !.prev = f[j - 1], !.hash = f[j]]]
    BY <2>1 DEF NewAt, NewFacts
  <2>4. Linked(log, i, patch, key, f, Len(log))
    BY <2>3, <2>2
  <2>5. PICK c \in DOMAIN log : i < c /\ log[c].type = Checkpoint
    BY <1>5 DEF Forge
  <2>6. ForgedFrom(log, log', i, patch, key, f)
    <3>1. DOMAIN log' = DOMAIN log /\ \A j \in DOMAIN log : j < i => log'[j] = log[j]
      BY <2>3
    <3>2. ASSUME NEW j \in DOMAIN log, j >= i
          PROVE  /\ log'[j].id = log[j].id /\ log'[j].at = NewAt(log, i, j) /\ log'[j].type = log[j].type
                 /\ log'[j].facts = NewFacts(log, patch, key, j, f[j - 1])
                 /\ log'[j].prev = f[j - 1] /\ log'[j].hash = f[j]
      <4>1. ~(j < i)
        BY <1>1, <3>2
      <4>2. PICK o, at, facts, prev, hash :
               /\ o = log[j] /\ at = NewAt(log, i, j) /\ facts = NewFacts(log, patch, key, j, f[j - 1])
               /\ prev = f[j - 1] /\ hash = f[j]
        OBVIOUS
      <4>3. log'[j] = [o EXCEPT !.at = at, !.facts = facts, !.prev = prev, !.hash = hash]
        BY <2>3, <4>1, <4>2
      <4>4. RowOK(o)
        BY <1>1, <4>2 DEF LogOK
      <4>5. /\ log'[j].id = o.id /\ log'[j].at = at /\ log'[j].type = o.type
            /\ log'[j].facts = facts /\ log'[j].prev = prev /\ log'[j].hash = hash
        BY <4>3, <4>4 DEF RowOK
      <4> QED
        BY <4>2, <4>5
    <3> QED
      BY <2>4, <3>1, <3>2 DEF ForgedFrom
  <2>7. /\ Untrue(log'[c])
        /\ Traceable(log', damaged \cup {log[i].id})
        /\ \A j \in DOMAIN log : /\ log'[j].id = log[j].id /\ log[j].at <= log'[j].at
                                 /\ Len(log'[j].prev) <= Len(log[j].prev)
    BY <1>1, <2>5, <2>6, ForgeryShows DEF CommitOrderIsIdOrder
  <2>8. DOMAIN log' = DOMAIN log
    BY <2>6 DEF ForgedFrom
  <2> QED
    BY <1>2, <2>7, <2>8 DEF Broken
<1> QED
  BY <1>3, <1>4, <1>5

(* Whoever works on the log behind the application's back disturbs every walk. *)
LEMMA DisturbedWalks ==
    ASSUME TypeOK, DisturbWalks, NEW v \in Verifier
    PROVE  WalkTrue(log', signingKey', damaged', walk'[v])
<1>1. PICK w, far : w = walk[v] /\ far = (w.phase # "idle")
  OBVIOUS
<1>2. walk'[v] = [w EXCEPT !.disturbed = far]
  BY <1>1 DEF DisturbWalks
<1>3. WalkOK(w)
  BY <1>1 DEF TypeOK, WalksOK
<1>4. PICK u : u = walk'[v]
  OBVIOUS
<1>5. u.disturbed = far /\ u.phase = w.phase
  BY <1>2, <1>3, <1>4 DEF WalkOK
<1>6. u.disturbed \/ u.phase = "idle"
  BY <1>1, <1>5
<1>7. WalkTrue(log', signingKey', damaged', u)
  BY <1>6, DisturbedWalk
<1> QED
  BY <1>4, <1>7

(* What is in flight stays right when rows go or change behind the application's back. *)
LEMMA OutsideKeepsInFlight ==
    ASSUME TypeOK, TypeOK', TamperInv, NEW i \in DOMAIN log, Outside(i),
           Traceable(log', damaged'),
           \A j \in DOMAIN log' : \E k \in DOMAIN log :
              /\ log'[j].id = log[k].id /\ log[k].at <= log'[j].at
              /\ Len(log'[j].prev) <= Len(log[k].prev),
           NEW s \in Session
    PROVE  InFlight(log', tx'[s], pc'[s], lastId')
<1>1. /\ Traceable(log, damaged) /\ InFlight(log, tx[s], pc[s], lastId)
      /\ lastId \in Nat /\ lastId <= lastId /\ TxOK(tx[s]) /\ tx[s].id \in Nat
  <2>1. Traceable(log, damaged) /\ InFlight(log, tx[s], pc[s], lastId)
    BY DEF TamperInv
  <2>2. lastId \in Nat /\ TxOK(tx[s])
    BY DEF TypeOK, TxsOK
  <2> QED
    BY <2>1, <2>2, RowsKept
<1>2. \A j \in DOMAIN log : log[j].at \in Nat /\ Len(log[j].prev) \in Nat
  BY <1>1, RowsKept
<1>3. \A j \in DOMAIN log' : log'[j].at \in Nat /\ Len(log'[j].prev) \in Nat
  <2>1. \A j \in DOMAIN log' : RowOK(log'[j])
    BY DEF TypeOK, LogOK
  <2>2. \A j \in DOMAIN log' : IsSeq(log'[j].prev)
    BY DEF Traceable, RowSound
  <2> QED
    BY <2>1, <2>2, SeqShape DEF RowOK
<1>4. PICK t, trimmed : t = tx[s] /\ tx'[s] = [t EXCEPT !.trimmed = trimmed]
  BY OutsideKeepsTx
<1>5. PICK u : u = tx'[s]
  OBVIOUS
<1>6. /\ u.facts = t.facts /\ u.type = t.type /\ u.id = t.id /\ u.at = t.at
      /\ u.prev = t.prev /\ u.hash = t.hash
  BY <1>1, <1>4, <1>5 DEF TxOK
<1>7. UNCHANGED <<pc, lastId>>
  BY OutsideKeepsTx
<1>8. InFlight(log, t, pc[s], lastId) /\ t.id \in Nat
  BY <1>1, <1>4
<1>9. InFlight(log', u, pc[s], lastId)
  BY <1>1, <1>2, <1>3, <1>6, <1>8, InFlightStays
<1> QED
  BY <1>5, <1>7, <1>9

(* The archiving procedure, which runs on a verified log only. *)
LEMMA ArchiveKeepsTraced ==
    ASSUME TypeOK, TypeOK', TamperInv, NEW k \in DOMAIN log, Archive(k)
    PROVE  TamperInv'
<1>1. /\ LogOK(log) /\ LogOK(log') /\ DOMAIN log = 1 .. Len(log) /\ Len(log) \in Nat
      /\ Traceable(log, damaged) /\ damaged' = {} /\ damaged = {}
  BY LogIsSequence DEF TypeOK, TamperInv, Archive
<1>2. LogCut(k)
  BY ArchiveCuts DEF Archive
<1> DEFINE f == [j \in DOMAIN log' |-> j + k - 1]
<1>3. /\ f \in [DOMAIN log' -> DOMAIN log]
      /\ \A j \in DOMAIN log' : log'[j] = log[f[j]]
      /\ \A j, m \in DOMAIN log' : j < m => f[j] < f[m]
  BY <1>1, <1>2 DEF LogCut
<1> HIDE DEF f
<1>4. Traceable(log', damaged')
  <2>1. damaged \subseteq damaged'
    BY <1>1
  <2> QED
    BY <1>1, <1>3, <2>1, FewerAreTraceable
<1>5. ASSUME NEW j \in DOMAIN log'
      PROVE  \E m \in DOMAIN log : /\ log'[j].id = log[m].id /\ log[m].at <= log'[j].at
                                   /\ Len(log'[j].prev) <= Len(log[m].prev)
  <2>1. f[j] \in DOMAIN log /\ log'[j] = log[f[j]]
    BY <1>3
  <2>2. log[f[j]].at \in Nat /\ Len(log[f[j]].prev) \in Nat
    BY <1>1, <2>1, RowsKept
  <2> QED
    BY <2>1, <2>2
<1>6. \A s \in Session : InFlight(log', tx'[s], pc'[s], lastId')
  <2>1. Outside(k)
    BY DEF Outside
  <2> QED
    BY <1>4, <1>5, <2>1, OutsideKeepsInFlight
<1>7. \A v \in Verifier : WalkTrue(log', signingKey', damaged', walk'[v])
  <2>1. DisturbWalks
    BY DEF Archive
  <2> QED
    BY <2>1, DisturbedWalks
<1> QED
  BY <1>1, <1>4, <1>6, <1>7 DEF TamperInv

(* Damage shows, and disturbs the walks. *)
LEMMA DamageKeepsTraced ==
    ASSUME TypeOK, TypeOK', CommitOrderIsIdOrder, TamperInv, NEW i \in DOMAIN log,
           EditRow(i) \/ RemoveRow(i) \/ \E patch \in BOOLEAN, key \in Key : Forge(i, patch, key)
    PROVE  TamperInv'
<1>1. Traceable(log, damaged)
  BY DEF TamperInv
<1>2. /\ Broken(log')
      /\ Traceable(log', damaged')
      /\ \A j \in DOMAIN log' : \E k \in DOMAIN log :
            /\ log'[j].id = log[k].id /\ log[k].at <= log'[j].at
            /\ Len(log'[j].prev) <= Len(log[k].prev)
  BY <1>1, DamageShows
<1>3. \A s \in Session : InFlight(log', tx'[s], pc'[s], lastId')
  <2>1. Outside(i)
    BY DEF Outside
  <2> QED
    BY <1>2, <2>1, OutsideKeepsInFlight
<1>4. \A v \in Verifier : WalkTrue(log', signingKey', damaged', walk'[v])
  <2>1. DisturbWalks
    BY DEF EditRow, RemoveRow, Forge, Damage
  <2> QED
    BY <2>1, DisturbedWalks
<1> QED
  BY <1>2, <1>3, <1>4 DEF TamperInv

(* A step of one verification. *)
LEMMA VerifyKeepsTraced ==
    ASSUME TypeOK, CommitOrderIsIdOrder, damaged = {} => ChainGrows, TamperInv,
           NEW v \in Verifier, Verify(v)
    PROVE  TamperInv'
<1>1. UNCHANGED <<log, damaged, tx, pc, lastId, signingKey>>
  BY DEF Verify, VerifyCheckpoints, VerifyFirst, VerifyBatch, VerifyAgain
<1>2. ASSUME NEW u \in Verifier \ {v}
      PROVE  walk'[u] = walk[u]
  <2>1. walk = [x \in Verifier |-> walk[x]]
    BY DEF TypeOK, WalksOK
  <2>2. \E w : walk' = [walk EXCEPT ![v] = w]
    BY DEF Verify, VerifyCheckpoints, VerifyFirst, VerifyBatch, VerifyAgain
  <2> QED
    BY <2>1, <2>2
<1>3. WalkTrue(log, signingKey, damaged, walk'[v])
  <2>1. WalkTrue(log, signingKey, damaged, walk[v]) /\ (damaged # {} => Broken(log))
    BY DEF TamperInv
  <2>2. CASE VerifyCheckpoints(v)
    BY <2>1, <2>2, CheckpointsVerified
  <2>3. CASE VerifyFirst(v)
    BY <2>1, <2>3, FirstVerified
  <2>4. CASE VerifyBatch(v)
    BY <2>1, <2>4, BatchVerified
  <2>5. CASE VerifyAgain(v)
    <3>1. walk'[v] = IdleWalk
      BY <2>5 DEF VerifyAgain, TypeOK, WalksOK
    <3>2. walk'[v].phase = "idle"
      BY <3>1 DEF IdleWalk
    <3> QED
      BY <3>2, DisturbedWalk
  <2> QED
    BY <2>2, <2>3, <2>4, <2>5 DEF Verify
<1>4. \A u \in Verifier : WalkTrue(log, signingKey, damaged, walk'[u])
  BY <1>2, <1>3 DEF TamperInv
<1> QED
  BY <1>1, <1>4 DEF TamperInv

(* Every step keeps TamperInv. *)
LEMMA TamperStep ==
    ASSUME IInv, IInv', TamperInv, [Next]_vars
    PROVE  TamperInv'
<1>1. /\ TypeOK /\ TypeOK' /\ OneWriterAtATime /\ CommitOrderIsIdOrder /\ IdsDrawn
      /\ damaged = {} => ChainGrows
  BY DEF IInv
<1>2. ASSUME NEW s \in Session, Write(s)
      PROVE  TamperInv'
  <2>1. CASE Commit(s)
    BY <1>1, <2>1, CommitKeepsTraced
  <2>2. CASE ~Commit(s)
    <3>1. \/ Publish(s) \/ \E force \in BOOLEAN : StartCheckpoint(s, force)
          \/ TakeLock(s) \/ SkipCheckpoint(s) \/ DecideCheckpoint(s) \/ Chain(s) \/ Abort(s)
      BY <1>2, <2>2 DEF Write, Work
    <3> QED
      BY <1>1, <3>1, WriterKeepsTraced
  <2> QED
    BY <2>1, <2>2
<1>3. ASSUME NEW v \in Verifier, Verify(v)
      PROVE  TamperInv'
  BY <1>1, <1>3, VerifyKeepsTraced
<1>4. ASSUME NEW i \in DOMAIN log, Outside(i)
      PROVE  TamperInv'
  <2>1. CASE Archive(i)
    BY <1>1, <2>1, ArchiveKeepsTraced
  <2>2. CASE EditRow(i) \/ RemoveRow(i) \/ \E patch \in BOOLEAN, key \in Key : Forge(i, patch, key)
    BY <1>1, <2>2, DamageKeepsTraced
  <2> QED
    BY <1>4, <2>1, <2>2 DEF Outside
<1>5. CASE (\E p \in Poller : Poll(p)) \/ Tick \/ UNCHANGED vars
  <2>1. UNCHANGED <<log, damaged, tx, pc, lastId, walk, signingKey>>
    BY <1>5 DEF Poll, Tick, vars, readers
  <2> QED
    BY <2>1 DEF TamperInv
<1>6. ASSUME NEW old \in Key, NEW key \in Key, ChangeKey(old, key)
      PROVE  TamperInv'
  <2>1. UNCHANGED <<log, damaged, tx, pc, lastId>> /\ \A v \in Verifier : walk'[v] = IdleWalk
    BY <1>6 DEF ChangeKey
  <2>2. \A v \in Verifier : WalkTrue(log, signingKey', damaged, walk'[v])
    BY <2>1, DisturbedWalk DEF IdleWalk
  <2> QED
    BY <2>1, <2>2 DEF TamperInv
<1> QED
  BY <1>2, <1>3, <1>4, <1>5, <1>6 DEF Next

(* Damage to the log shows, to every walk that started after it, whatever is written
   meanwhile (auditLog.ts:261-368): a touched log has a row that does not hash or link, or
   a checkpoint that the key it names did not sign over the row it follows. *)
THEOREM TamperInvariant == Spec => []TamperInv
<1>1. Init => TamperInv
  BY TracedStart
<1>2. IInv /\ IInv' /\ TamperInv /\ [Next]_vars => TamperInv'
  BY TamperStep
<1> QED
  BY <1>1, <1>2, Invariant, PTL DEF Spec

(* GET /api/audit-log/verify: a log left alone is ok, unless its anchor's key is gone, and
   one that was touched is not, unless a checkpoint that is not genuine is named under
   unknownKey; whatever is appended, aborted or archived, and whenever the key is changed. *)
THEOREM VerdictIsRight == Spec => []VerdictRight
<1>1. TamperInv => VerdictRight
  <2> SUFFICES ASSUME TamperInv, NEW v \in Verifier, walk[v].phase = "done", ~walk[v].disturbed
               PROVE  /\ damaged = {} => walk[v].ok \/ AnchorKeyGone
                      /\ \A id \in walk[v].unknownKey : \E i \in DOMAIN log :
                            log[i].id = id /\ log[i].type = Checkpoint
                            /\ log[i].facts.keyId # signingKey
                      /\ walk[v].dirty /\ walk[v].ok =>
                            \E i \in DOMAIN log : /\ log[i].id \in walk[v].unknownKey
                                                  /\ ~GenuineCheckpoint(log[i])
    BY DEF VerdictRight, VerifierSound, VerifierComplete
  <2>1. WalkTrue(log, signingKey, damaged, walk[v])
    BY DEF TamperInv
  <2> QED
    BY <2>1 DEF WalkTrue, AnchorOfOther, AnchorKeyGone, OfOtherKeys, NamesUntrue
<1> QED
  BY <1>1, TamperInvariant, PTL

=============================================================================
