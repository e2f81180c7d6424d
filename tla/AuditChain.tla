----------------------------- MODULE AuditChain -----------------------------
(***************************************************************************)
(* The tamper-evident audit log: the chaining trigger of migration 0025,   *)
(* the sessions that write through it (publish() and createCheckpoint()),  *)
(* the polling feed and the verification walk, which read it while others  *)
(* write.                                                                  *)
(*                                                                         *)
(* A session is one database connection of one application replica.  The   *)
(* trigger's advisory lock is taken before the head is read and before the *)
(* id is drawn, and is held to the end of the transaction.                 *)
(*                                                                         *)
(* SHA-256 is taken to be free of collisions, so a row's hash is the       *)
(* sequence of everything hashed so far: hash = Append(prev, content).     *)
(***************************************************************************)
EXTENDS Integers, Sequences, FiniteSets

CONSTANTS
    Session,     \* database sessions that publish events and checkpoints
    Poller,      \* outside systems reading GET /api/events with a cursor
    Verifier,    \* administrators running GET /api/audit-log/verify
    NoSession,   \* the chain lock is free
    Key,         \* keys the servers may be given to sign checkpoints with
    MaxId,       \* bound: ids drawn from audit_log_id_seq
    MaxDay,      \* bound: days the clock advances
    MaxDamage,   \* bound: rows damaged behind the application's back
    PageLimit,   \* rows per page of the feed
    BatchSize    \* VERIFY_BATCH, rows per verification batch

ASSUME SessionAssumption == NoSession \notin Session
ASSUME BoundsAssumption ==
    /\ MaxId \in Nat /\ MaxDay \in Nat /\ MaxDamage \in Nat
    /\ PageLimit \in Nat \ {0} /\ BatchSize \in Nat \ {0}

VARIABLES
    log,       \* the committed rows of audit_log, in the order they committed
    lastId,    \* audit_log_id_seq: the last id drawn, never rolled back
    holder,    \* who holds the chain lock
    pc,        \* [Session -> where the session is]
    tx,        \* [Session -> the row it is writing and what it has read]
    day,       \* the clock
    cursor,    \* [Poller -> the last id it was given]
    seen,      \* [Poller -> the ids it was ever given]
    walk,      \* [Verifier -> progress of its verification]
    damaged,   \* history: ids of rows damaged behind the application's back
    signingKey \* AUDIT_SIGNING_KEY of the servers as they run now

vars == <<log, lastId, holder, pc, tx, day, cursor, seen, walk, damaged, signingKey>>
readers == <<cursor, seen, walk, damaged, signingKey>>   \* what a writer leaves alone

-----------------------------------------------------------------------------
(* Rows *)

Genesis == <<>>                          \* GENESIS_HASH
Event == "event"
Checkpoint == "audit.checkpoint"

NoFacts == [headId |-> 0, headHash |-> Genesis, count |-> 0, keyId |-> "none", signature |-> <<>>]

(* signCheckpoint(): nobody without the key can make a signature, so it is the
   facts it was made over and the key.  keyId, which names that key, is not signed. *)
SignedFacts(headId, headHash, count) ==
    [headId |-> headId, headHash |-> headHash, count |-> count, keyId |-> signingKey,
     signature |-> <<headId, headHash, count, signingKey>>]

BearsSignature(facts, key) == facts.signature = <<facts.headId, facts.headHash, facts.count, key>>

(* The key a checkpoint names is looked at before its signature is. *)
checkCheckpoint(facts) ==
    IF facts.keyId # signingKey THEN "unknown_key"
    ELSE IF BearsSignature(facts, signingKey) THEN "valid" ELSE "invalid"

RowHash(prev, id, at, type, facts) == Append(prev, <<id, at, type, facts>>)

ComputedHash(r) == RowHash(r.prev, r.id, r.at, r.type, r.facts)

(* ORDER BY id [DESC] LIMIT 1 over the rows at these indices of the log. *)
Latest(indices) == CHOOSE i \in indices : \A j \in indices : log[j].id <= log[i].id
Earliest(indices) == CHOOSE i \in indices : \A j \in indices : log[i].id <= log[j].id

(* WHERE id > after ORDER BY id LIMIT size *)
NextRows(after, size) ==
    {i \in DOMAIN log :
        /\ log[i].id > after
        /\ Cardinality({j \in DOMAIN log : after < log[j].id /\ log[j].id <= log[i].id}) <= size}

HeadHash == IF log = <<>> THEN Genesis ELSE log[Latest(DOMAIN log)].hash

(* Mutant: an empty log has head -1. *)
HeadIdMinusOne == IF log = <<>> THEN -1 ELSE log[Latest(DOMAIN log)].id

HeadId == IF log = <<>> THEN 0 ELSE log[Latest(DOMAIN log)].id

IdleTx == [type |-> Event, force |-> FALSE, seenHead |-> 0, seenCount |-> 0,
           trimmed |-> FALSE, facts |-> NoFacts,
           id |-> 0, at |-> 0, prev |-> Genesis, hash |-> Genesis]

IdleWalk == [phase |-> "idle", after |-> 0, expected |-> Genesis, ok |-> TRUE,
             unknownKey |-> {}, dirty |-> FALSE, disturbed |-> FALSE]

Init ==
    /\ log = <<>>
    /\ lastId = 0
    /\ holder = NoSession
    /\ pc = [s \in Session |-> "idle"]
    /\ tx = [s \in Session |-> IdleTx]
    /\ day = 1
    /\ cursor = [p \in Poller |-> 0]
    /\ seen = [p \in Poller |-> {}]
    /\ walk = [v \in Verifier |-> IdleWalk]
    /\ damaged = {}
    /\ signingKey \in Key

-----------------------------------------------------------------------------
(* Writing *)

(* Bound: a transaction starts only if an id is left for it. *)
RoomForOne == lastId + Cardinality({s \in Session : pc[s] # "idle"}) < MaxId

(* publish(): one statement on its own connection. *)
Publish(s) ==
    /\ RoomForOne
    /\ pc[s] = "idle"
    /\ pc' = [pc EXCEPT ![s] = "lock"]
    /\ tx' = [tx EXCEPT ![s] = IdleTx]
    /\ UNCHANGED <<log, lastId, holder, day, readers>>

(* createCheckpoint(): the bulk of the log is counted before the lock. *)
StartCheckpoint(s, force) ==
    /\ RoomForOne
    /\ pc[s] = "idle"
    /\ pc' = [pc EXCEPT ![s] = "lockCheckpoint"]
    /\ tx' = [tx EXCEPT ![s] = [IdleTx EXCEPT
                !.type = Checkpoint, !.force = force,
                !.seenHead = HeadId, !.seenCount = Len(log)]]
    /\ UNCHANGED <<log, lastId, holder, day, readers>>

(* Mutant: the lock is keyed per replica, so two writers can hold it. *)
TakeLockUnshared(s) ==
    /\ pc[s] \in {"lock", "lockCheckpoint"}
    /\ holder' = s
    /\ pc' = [pc EXCEPT ![s] = IF @ = "lock" THEN "chain" ELSE "decide"]
    /\ UNCHANGED <<log, lastId, tx, day, readers>>

(* pg_advisory_xact_lock: by the trigger for an event, by createCheckpoint()
   itself, before its trigger, for a checkpoint. *)
TakeLock(s) ==
    /\ pc[s] \in {"lock", "lockCheckpoint"}
    /\ holder = NoSession
    /\ holder' = s
    /\ pc' = [pc EXCEPT ![s] = IF @ = "lock" THEN "chain" ELSE "decide"]
    /\ UNCHANGED <<log, lastId, tx, day, readers>>

LastCheckpointDay ==
    LET checkpoints == {i \in DOMAIN log : log[i].type = Checkpoint}
    IN  IF checkpoints = {} THEN 0 ELSE log[Latest(checkpoints)].at

NothingNew == IF log = <<>> THEN TRUE ELSE log[Latest(DOMAIN log)].type = Checkpoint

(* Mutant: only what is new since the last checkpoint counts, not its age. *)
CheckpointNotDueIgnoringAge == NothingNew

(* Without force: nothing new since the last checkpoint, or that is recent. *)
CheckpointNotDue == NothingNew \/ day = LastCheckpointDay

(* Mutant: returns without ending the transaction. *)
SkipCheckpointKeepingLock(s) ==
    /\ pc[s] = "decide"
    /\ ~tx[s].force /\ CheckpointNotDue
    /\ pc' = [pc EXCEPT ![s] = "idle"]
    /\ UNCHANGED <<log, lastId, holder, tx, day, readers>>

(* Under the lock: give up, or count the tail and fix the facts to sign.
   One step: nobody else can add a row meanwhile. *)
SkipCheckpoint(s) ==
    /\ pc[s] = "decide"
    /\ ~tx[s].force /\ CheckpointNotDue
    /\ pc' = [pc EXCEPT ![s] = "idle"]
    /\ holder' = NoSession
    /\ UNCHANGED <<log, lastId, tx, day, readers>>

(* Mutant: off by one at the head already counted. *)
TailCountInclusive(seenHead) == Cardinality({i \in DOMAIN log : log[i].id >= seenHead})

TailCount(seenHead) == Cardinality({i \in DOMAIN log : log[i].id > seenHead})

DecideCheckpoint(s) ==
    /\ pc[s] = "decide"
    /\ tx[s].force \/ ~CheckpointNotDue
    /\ tx' = [tx EXCEPT ![s].facts =
                SignedFacts(HeadId, HeadHash, tx[s].seenCount + TailCount(tx[s].seenHead))]
    /\ pc' = [pc EXCEPT ![s] = "chain"]
    /\ UNCHANGED <<log, lastId, holder, day, readers>>

(* audit_log_chain(): head, id and time are all taken under the lock. *)
Chain(s) ==
    /\ pc[s] = "chain"
    /\ lastId' = lastId + 1
    /\ tx' = [tx EXCEPT ![s].id = lastId + 1, ![s].at = day, ![s].prev = HeadHash,
                         ![s].hash = RowHash(HeadHash, lastId + 1, day, tx[s].type, tx[s].facts)]
    /\ pc' = [pc EXCEPT ![s] = "commit"]
    /\ UNCHANGED <<log, holder, day, readers>>

RowOf(t) == [id |-> t.id, at |-> t.at, type |-> t.type, facts |-> t.facts,
             prev |-> t.prev, hash |-> t.hash]

(* The row becomes visible and the transaction-scoped lock is released. *)
Commit(s) ==
    /\ pc[s] = "commit"
    /\ log' = Append(log, RowOf(tx[s]))
    /\ holder' = NoSession
    /\ pc' = [pc EXCEPT ![s] = "idle"]
    /\ UNCHANGED <<lastId, tx, day, readers>>

(* An error, a lost connection or a crash anywhere before the commit: the
   lock is released, the row vanishes, the drawn id stays drawn. *)
Abort(s) ==
    /\ pc[s] # "idle"
    /\ pc' = [pc EXCEPT ![s] = "idle"]
    /\ holder' = IF holder = s THEN NoSession ELSE holder
    /\ UNCHANGED <<log, lastId, tx, day, readers>>

Tick ==
    /\ day < MaxDay
    /\ day' = day + 1
    /\ UNCHANGED <<log, lastId, holder, pc, tx, readers>>

-----------------------------------------------------------------------------
(* Reading *)

(* listEventsAfter(): the next page in id order; the caller keeps the last id. *)
Poll(p) ==
    LET page == NextRows(cursor[p], PageLimit) IN
    \E last \in page :
        /\ \A i \in page : log[i].id <= log[last].id
        /\ cursor' = [cursor EXCEPT ![p] = log[last].id]
        /\ seen' = [seen EXCEPT ![p] = @ \cup {log[i].id : i \in page}]
        /\ UNCHANGED <<log, lastId, holder, pc, tx, day, walk, damaged, signingKey>>

(* Mutant: the head a checkpoint names is not compared with its link. *)
BadCheckpointBySignatureOnly(r) == r.type = Checkpoint /\ checkCheckpoint(r.facts) = "invalid"

(* verifyCheckpoints(), the first query of verifyChain(): what it lists as invalid, and
   of the rest what it lists as unknownKey, which leaves the verdict alone. *)
BadCheckpoint(r) ==
    /\ r.type = Checkpoint
    /\ checkCheckpoint(r.facts) = "invalid" \/ r.facts.headHash # r.prev

NamesOtherKey(r) ==
    r.type = Checkpoint /\ ~BadCheckpoint(r) /\ checkCheckpoint(r.facts) = "unknown_key"

VerifyCheckpoints(v) ==
    /\ walk[v].phase = "idle"
    /\ walk' = [walk EXCEPT ![v] = [IdleWalk EXCEPT
                  !.phase = "first",
                  !.ok = \A i \in DOMAIN log : ~BadCheckpoint(log[i]),
                  !.unknownKey = {log[i].id : i \in {j \in DOMAIN log : NamesOtherKey(log[j])}},
                  !.dirty = damaged # {}]]
    /\ UNCHANGED <<log, lastId, holder, pc, tx, day, cursor, seen, damaged, signingKey>>

(* The first row must start the chain or be the anchor an archive left. *)
StartsChain(r) ==
    \/ r.prev = Genesis
    \/ r.type = Checkpoint /\ r.facts.headHash = r.prev /\ checkCheckpoint(r.facts) = "valid"

VerifyFirst(v) ==
    /\ walk[v].phase = "first"
    /\ walk' = [walk EXCEPT ![v] =
         IF log = <<>> THEN [@ EXCEPT !.phase = "done"]
         ELSE LET r == log[Earliest(DOMAIN log)] IN
              IF StartsChain(r)
              THEN [@ EXCEPT !.phase = "batch", !.after = r.id - 1, !.expected = r.prev]
              ELSE [@ EXCEPT !.phase = "done", !.ok = FALSE]]
    /\ UNCHANGED <<log, lastId, holder, pc, tx, day, cursor, seen, damaged, signingKey>>

(* lag(hash) within the batch; its first row follows the batch before. *)
ExpectedPrev(batch, expected, i) ==
    LET earlier == {j \in batch : log[j].id < log[i].id}
    IN  IF earlier = {} THEN expected ELSE log[Latest(earlier)].hash

VerifyBatch(v) ==
    LET w == walk[v]
        batch == NextRows(w.after, BatchSize)
        broken == {i \in batch : \/ ComputedHash(log[i]) # log[i].hash
                                 \/ log[i].prev # ExpectedPrev(batch, w.expected, i)}
    IN  /\ w.phase = "batch"
        /\ walk' = [walk EXCEPT ![v] =
             IF broken # {} THEN [@ EXCEPT !.phase = "done", !.ok = FALSE]
             ELSE IF Cardinality(batch) < BatchSize THEN [@ EXCEPT !.phase = "done"]
             ELSE [@ EXCEPT !.after = log[Latest(batch)].id,
                            !.expected = log[Latest(batch)].hash]]
        /\ UNCHANGED <<log, lastId, holder, pc, tx, day, cursor, seen, damaged, signingKey>>

VerifyAgain(v) ==
    /\ walk[v].phase = "done"
    /\ walk' = [walk EXCEPT ![v] = IdleWalk]
    /\ UNCHANGED <<log, lastId, holder, pc, tx, day, cursor, seen, damaged, signingKey>>

(* The servers are started again with another signing key: no request of theirs, and no
   verification, outlives that. *)
ChangeKey(old, key) ==
    /\ signingKey = old
    /\ \A s \in Session : pc[s] = "idle"
    /\ signingKey' = key
    /\ walk' = [v \in Verifier |-> IdleWalk]
    /\ UNCHANGED <<log, lastId, holder, pc, tx, day, cursor, seen, damaged>>

-----------------------------------------------------------------------------
(* Behind the application's back: verifications under way see half of it. *)

DisturbWalks ==
    walk' = [v \in Verifier |-> [walk[v] EXCEPT !.disturbed = walk[v].phase # "idle"]]

(* The archiving procedure of docs/event-backbone.md, which starts by verifying
   the log: the rows before checkpoint k go.  A checkpoint whose rows are being
   counted is 'trimmed'. *)
Archive(k) ==
    /\ damaged = {}
    /\ log[k].type = Checkpoint
    /\ k > 1
    /\ log' = SubSeq(log, k, Len(log))
    /\ DisturbWalks
    /\ tx' = [s \in Session |-> [tx[s] EXCEPT !.trimmed = pc[s] # "idle"]]
    /\ UNCHANGED <<lastId, holder, pc, day, cursor, seen, damaged, signingKey>>

Damage(i) ==
    /\ Cardinality(damaged) < MaxDamage
    /\ log[i].id \notin damaged
    /\ damaged' = damaged \cup {log[i].id}
    /\ DisturbWalks
    /\ UNCHANGED <<lastId, holder, pc, tx, day, cursor, seen, signingKey>>

(* A row is edited in place. *)
EditRow(i) ==
    /\ Damage(i)
    /\ \/ log' = [log EXCEPT ![i].at = @ + 1]
       \/ log' = [log EXCEPT ![i].facts.count = @ + 1]

(* A row between two others is deleted. *)
RemoveRow(i) ==
    /\ Damage(i)
    /\ 1 < i /\ i < Len(log)
    /\ log' = [j \in 1 .. Len(log) - 1 |-> IF j < i THEN log[j] ELSE log[j + 1]]

(* A row is edited and every link and hash from it on is made to fit again,
   with or without the head hash that later checkpoints name, and the key they
   name.  Only the signing keys are out of reach, so a checkpoint must follow. *)
Forge(i, patch, key) ==
    LET at(j) == IF j = i THEN log[j].at + 1 ELSE log[j].at
        facts(j, prev) == IF patch /\ log[j].type = Checkpoint
                          THEN [log[j].facts EXCEPT !.headHash = prev, !.keyId = key]
                          ELSE log[j].facts
        links[j \in i - 1 .. Len(log)] ==
            IF j = i - 1 THEN log[i].prev
            ELSE RowHash(links[j - 1], log[j].id, at(j), log[j].type, facts(j, links[j - 1]))
        forged(j) == [log[j] EXCEPT !.at = at(j), !.facts = facts(j, links[j - 1]),
                                    !.prev = links[j - 1], !.hash = links[j]]
    IN  /\ Damage(i)
        /\ \E j \in DOMAIN log : i < j /\ log[j].type = Checkpoint
        /\ log' = [j \in DOMAIN log |-> IF j < i THEN log[j] ELSE forged(j)]

-----------------------------------------------------------------------------
Work(s) == \/ TakeLock(s) \/ SkipCheckpoint(s) \/ DecideCheckpoint(s)
           \/ Chain(s) \/ Commit(s)

Write(s) == \/ Publish(s)
            \/ \E force \in BOOLEAN : StartCheckpoint(s, force)
            \/ Work(s)
            \/ Abort(s)

Verify(v) == VerifyCheckpoints(v) \/ VerifyFirst(v) \/ VerifyBatch(v) \/ VerifyAgain(v)

Outside(i) == \/ Archive(i) \/ EditRow(i) \/ RemoveRow(i)
              \/ \E patch \in BOOLEAN, key \in Key : Forge(i, patch, key)

Next == \/ \E s \in Session : Write(s)
        \/ \E p \in Poller : Poll(p)
        \/ \E v \in Verifier : Verify(v)
        \/ Tick
        \/ \E old \in Key : \E key \in Key \ {old} : ChangeKey(old, key)
        \/ \E i \in DOMAIN log : Outside(i)

Spec == Init /\ [][Next]_vars

(* PostgreSQL serves a session's statements and grants a waited-for advisory
   lock in the order of its queue, so a waiting session cannot be passed over
   for ever. *)
FairSpec == Spec /\ \A s \in Session : WF_vars(Work(s)) /\ SF_vars(TakeLock(s))

-----------------------------------------------------------------------------
(* Properties *)

Elements(q) == {q[i] : i \in DOMAIN q}

RowOK(r) ==
    r \in [id : Nat, at : Nat, type : {Event, Checkpoint},
           facts : {r.facts}, prev : {r.prev}, hash : {r.hash}]

TxOK(t) ==
    t \in [type : {Event, Checkpoint}, force : BOOLEAN, seenHead : Nat, seenCount : Nat,
           trimmed : BOOLEAN, facts : {t.facts}, id : Nat, at : Nat,
           prev : {t.prev}, hash : {t.hash}]

WalkOK(w) ==
    w \in [phase : {"idle", "first", "batch", "done"}, after : {w.after}, expected : {w.expected},
           ok : BOOLEAN, unknownKey : SUBSET Nat, dirty : BOOLEAN, disturbed : BOOLEAN]

LogOK(q) == q \in Seq(Elements(q)) /\ \A i \in DOMAIN q : RowOK(q[i])
TxsOK(t) == t = [s \in Session |-> t[s]] /\ \A s \in Session : TxOK(t[s])
WalksOK(w) == w = [v \in Verifier |-> w[v]] /\ \A v \in Verifier : WalkOK(w[v])

(* The shape of every variable: ids and times are numbers, hashes are opaque. *)
TypeOK ==
    /\ LogOK(log)
    /\ lastId \in Nat
    /\ day \in Nat
    /\ holder \in Session \cup {NoSession}
    /\ pc \in [Session -> {"idle", "lock", "lockCheckpoint", "decide", "chain", "commit"}]
    /\ TxsOK(tx)
    /\ cursor \in [Poller -> Nat]
    /\ seen \in [Poller -> SUBSET Nat]
    /\ WalksOK(walk)
    /\ signingKey \in Key

(* The lock the trigger takes covers everything from reading the head to the
   commit (0025_event_backbone.sql:77-79: one writer at a time). *)
InsideLock == {"decide", "chain", "commit"}
OneWriterAtATime == \A s \in Session : pc[s] \in InsideLock => holder = s

(* Rows commit in the order of their ids (0025:16-19), so whoever has seen an id
   has seen every smaller one that will ever be there. *)
CommitOrderIsIdOrder ==
    \A i, j \in DOMAIN log : i < j => log[i].id < log[j].id

(* A checkpoint as the application wrote it, whatever key it signs with by now: it names
   the row it follows, and bears the signature of the key it names. *)
GenuineCheckpoint(r) ==
    r.type = Checkpoint /\ r.facts.headHash = r.prev /\ BearsSignature(r.facts, r.facts.keyId)

(* A row that may be the first: of the whole log, or of what an archive left. *)
Rightful(r) == r.prev = Genesis \/ GenuineCheckpoint(r)

(* Two writers never read the same head and fork the chain (0025:5-7): in id
   order, each row hashes to what it says and links to the row before it, time
   does not run backwards (0025:84-86), and the first row starts the chain or is
   the anchor an archive left. *)
ChainLinked ==
    /\ \A i \in DOMAIN log : log[i].hash = ComputedHash(log[i])
    /\ \A i \in DOMAIN log :
          IF i = 1 THEN Rightful(log[1])
          ELSE log[i].prev = log[i - 1].hash /\ log[i - 1].at <= log[i].at

UndamagedChain == damaged = {} => ChainLinked

(* audit_log is one chain, whoever writes at once, aborts or archives (0025:5-7): one
   writer at a time, ids in the order of the commits, every row linked to the one before. *)
OneChain == OneWriterAtATime /\ CommitOrderIsIdOrder /\ UndamagedChain

(* A reader that keeps the last id it processed never misses a row that commits
   later with a lower id (auditLog.ts:79-82). *)
PollerMissesNothing ==
    \A p \in Poller : \A i \in DOMAIN log : log[i].id <= cursor[p] => log[i].id \in seen[p]

(* A checkpoint names the row it follows and counts every row before it, though
   most were counted before the lock was taken (auditLog.ts:178-180). *)
CheckpointExact ==
    \A s \in Session :
        pc[s] = "commit" /\ tx[s].type = Checkpoint /\ ~tx[s].trimmed =>
            /\ tx[s].facts.headHash = tx[s].prev
            /\ tx[s].facts.headId = HeadId
            /\ tx[s].facts.count = Len(log)

(* Several replicas do not write a scheduled checkpoint each (auditLog.ts:173-174). *)
OneScheduledCheckpointPerDay ==
    [][\A s \in Session :
          pc[s] = "commit" /\ log' = Append(log, RowOf(tx[s]))
          /\ tx[s].type = Checkpoint /\ ~tx[s].force
            => \A i \in DOMAIN log : log[i].type = Checkpoint => log[i].at # tx[s].at]_vars

(* What is left of the log starts with an anchor whose key the servers no longer have
   (docs/event-backbone.md:518-519). *)
AnchorKeyGone ==
    log # <<>> /\ log[1].prev # Genesis /\ log[1].facts.keyId # signingKey

(* Of a log nobody has touched, verification reports no break but an anchor whose key is
   gone, and lists under unknownKey none but checkpoints of another key, whatever is
   appended, or was archived earlier, while it walks (auditLog.ts:261-265). *)
VerifierSound ==
    \A v \in Verifier :
        walk[v].phase = "done" /\ damaged = {} /\ ~walk[v].disturbed =>
            /\ walk[v].ok \/ AnchorKeyGone
            /\ \A id \in walk[v].unknownKey : \E i \in DOMAIN log :
                  log[i].id = id /\ log[i].type = Checkpoint /\ log[i].facts.keyId # signingKey

(* Of every edit, removal and forgery made before it started, verification reports a
   break, or it lists under unknownKey a checkpoint that no key it could name has signed,
   as long as the forger is not at work while it walks. *)
VerifierComplete ==
    \A v \in Verifier :
        walk[v].phase = "done" /\ walk[v].dirty /\ ~walk[v].disturbed /\ walk[v].ok =>
            \E i \in DOMAIN log : log[i].id \in walk[v].unknownKey /\ ~GenuineCheckpoint(log[i])

(* GET /api/audit-log/verify (auditLog.ts:261-368): 'ok' of a log that was left alone,
   unless it starts with an anchor of a key that is gone; and not 'ok' of one that was
   tampered with, unless under unknownKey it names a checkpoint that is not genuine.  So
   'ok' with nothing under unknownKey is said of none but logs that were left alone. *)
VerdictRight == VerifierSound /\ VerifierComplete

(* A session waiting for the chain lock gets it and finishes: nobody returns
   with it still held. *)
WritersFinish == \A s \in Session : pc[s] # "idle" ~> pc[s] = "idle"

=============================================================================
