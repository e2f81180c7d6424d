# A TLA+ model of Bindex

Bindex is an inventory and relocation system: a Node server over PostgreSQL, any
number of server replicas, and a web client that works offline. This directory
holds TLA+ modules of its concurrent core, the TLC configurations that check them
on small instances, and proofs checked by TLAPS for every instance.

    tlc -config AuditChain_writers.cfg MCAuditChain     # a run
    tlapm AuditChainProofs.tla                          # the proofs of a module

Contents: [inventory](#inventory), [what is modelled](#what-is-modelled),
[runs](#runs-and-bounds), [fairness](#fairness), [proofs](#proofs),
[findings](#findings), [assumptions](#assumptions),
[not modelled](#not-modelled), [plan](#plan).

## Inventory

The server keeps all its state in PostgreSQL; a replica has only timers, kicks,
small caches, and whatever request it is in the middle of. Replicas therefore meet
in rows, unique indexes, row locks and advisory locks, and most statements run on
their own, in READ COMMITTED. The client keeps a copy of the inventory and a queue
of changes in IndexedDB, shared by its tabs. Below `S/` is
`src/server/src/services/` and `C/` is `src/client/src/features/`.

### Modelled

| Component | State | Operations | Meets | Hard, and what makes it correct |
| --- | --- | --- | --- | --- |
| Audit log (`S/event-backbone/auditLog.ts`, `bus.ts`, migration 0025) | `audit_log`, its id sequence, the chain lock | publish, checkpoint, feed page, verify, archive | every feature publishes; webhooks, portal and outside readers follow its ids | Concurrent writers, aborts that leave gaps in the ids, verification while rows are added. One chain; commit order is id order; a cursor never misses a row; a verdict is right |
| Webhook delivery (`S/event-backbone/delivery.ts`, `policy.ts`, `webhooks.ts`) | `webhook_endpoints`, `webhook_deliveries` with leases, a drain flag in each replica | fan-out, claim, send, record, count failures, ping, resend, prune, edit, delete | reads the log it is queued with; announces what it does to it | Crashes between claim and outcome, replicas racing for rows, read-then-write edits. Each delivery settles, once, after a bounded number of sends |
| Idempotency keys (`S/offline-field/idempotency.ts`, `routes/offline-field.ts`) | `idempotency_keys` | claim, replay, store, release, take over, expire, prune | in front of every route an offline device calls | Same key at the same time, a process that dies in between, slow routes. At most one run; an answer is one's own; never stuck |
| Offline queue and sync (`C/offline-field/sync.ts`, `store.ts`, `transport.ts`, `S/offline-field/plan.ts`) | the queue (IndexedDB), runs in tabs, requests in flight | write, direct send, queue, plan, replay, ask, keep mine, keep the server's | keys and routes of the server; other people's changes | Lost and late answers, stale plans, several tabs, failures halfway through. Nothing lost, nothing twice, order per record, no silent override, an end for every change |
| Jobs, shipments and manifests (`S/jobs-core`) | lines with stages and their history, shipments and jobs with statuses | scan a batch, tick off, edit the manifest, status of a shipment or job | placement scans for it; the portal shows it | Scanners on one line while its shipment closes. Stages only climb, nobody joins a closed shipment, the history ends where the line is |
| Chain of custody (`S/custody`) | a transfer, its lines, signatures, one-time links, evidence of its finishing | draft, scan, lock, sign on a page or by a link, void, finalise | its entry goes to the audit log | Pages loaded long ago, links revoked meanwhile, finishers that die between two effects. What is signed was shown and stands; each effect once plus what a death costs |
| Consumables (`S/consumables`) | levels, movements, balances of crews | receive, issue, return, transfer, count, adjust | deleting locations and crews | Locks in order, rows that vanish while one waits. A level is the sum of its movements, none overdrawn, no deadlock |
| Tracking core and placement (`S/tracking`, `S/placement`) | sightings, positions, moves; the worker's cursor over sightings | ingest a batch; follow the sightings behind it | readers, people who file items | Ids handed out before commits, batches that cross. The latest read wins; the worker misses nothing that was prompt |
| GPS trackers (`S/gps`) | trackers, sides of a fence, cached fences | take a batch of fixes, redraw, switch a fence | devices post late and again | Out-of-order fixes, a batch across a redrawing. Each real crossing is announced once |
| Bluetooth presence (`S/ble`) | the engine's memory, a tag's row, its position, its alert | a report and its four writes, the sweep, the digest | gateways; replicas that sweep | Sweeps between a report's statements, restarts between its writes. The alert says what the tag's row says; the item is where the engine decided |
| Teardown guides (`S/teardown`) | the guide's row with its job, token, heartbeat and progress; a draft; a part | queue, claim, stages, stop, change the video, edit | speech and language models | A server that stalls and wakes up, stops crossing stages. A settled job stays settled, paid pieces are kept, people's edits stand |
| Bulk capture (`S/bulk-capture`) | session with its cap and count, photos, entries | add, read, merge, edit, split, create | the vision model | Stale claims, late readings over edited entries. The cap holds, counts add up, items are made once |
| Client portal, its notifier (`S/portal/notifier.ts`) | grants, notices, a cursor over the log | collect, mail, switch a grant | reads the audit log | Servers that pass at once, mails accepted and not recorded. Each milestone once, none missed |
| Operations intelligence (`S/ops-intel`) | anomalies and their lock | run the rules, resolve | every other feature's rows | People resolving while a run decides. One open anomaly of a problem, reported once, quiet when dismissed |
| Claims (`S/claims`) | a claim, its lines, total, deadline, reviewer | lines, status, total, assign, delete, breach | people at once, a watcher on each server | Checks before the transaction. Totals are the lines', a decision stands, a breach is told once |
| Inspections (`S/inspections`) | an inspection, findings with their pairing, two signatures | edit, pair, complete, sign, reopen, delete | the pre-move inspection it compares with | Looks before writes everywhere. Both signatures cover what there is; evidence and people's choices stay |
| Crew check-in (`S/crew`) | shifts of a worker | check in, move, check out, correct, delete | credentials and policies of jobs | Several desks, times a little ahead. On one job at a time, hours count once, the door holds |

### Not modelled

| Component | State | Operations | Hard, and what makes it correct |
| --- | --- | --- | --- |
| Items, units, assignments (`S/items.ts`, `units.ts`, `assignments.ts`) | items, units, one open assignment each | edit, move, check out, check in, delete | Races of two holders; one open assignment that agrees with the item's holder |
| Locations, entities, companies, verification | their rows; nothing for a comparison | edit, delete; compare a shelf with the record | Single statements; a deleted target clears or keeps what refers to it |
| Documents and packets (`S/documents`) | templates and versions, documents, exports | publish, attach a packet, complete, sign, export | A packet attached once; content fixed before it is signed |
| Register reconciliation (`S/register-reconcile`) | imports, rows, results | import, classify, act | An action applies once, to what it was shown for |
| Tag commissioning (`S/tag-commissioning`) | tags, bind sessions | bind, undo, close | A code on one record only |
| Valuation (`S/valuation`) | valuations, services, receipts, declarations | estimate, declare, remind | A declaration signed is fixed; one reminder a day |
| AI condition, media, attachments | reports, files beside rows | capture, save, sweep | A file of a live row is never swept |
| Sign-in, users, API keys; configuration, backup; enrichment, registrars, NinjaOne; printing, reports; bridge; screens | sessions, settings, caches | calls of outside services, formatting | Little concurrent state of their own |

The behaviours most worth a model are the ones everything else relies on: the log
that every feature writes to and several follow with a cursor; the queue that
speaks to the outside; and the path of a change from a device without a network to
the record, which crosses all of client queue, plan, key and route. Around that
core stand the features in which several people, servers and devices act on one
record at once.

## What is modelled

### AuditChain

`audit_log_chain()` takes an advisory lock, reads the head, draws the id, sets the
time and hashes; the lock goes with the transaction. A session is `idle`, at
`lock`/`lockCheckpoint`, in `decide` (a checkpoint under its lock), at `chain`, or
at `commit`. `Abort` may take it out of any of them: the row goes, the drawn id
stays drawn. `StartCheckpoint` counts the bulk of the log before the lock,
`DecideCheckpoint` the tail under it, as `createCheckpoint()` does. `Poll` is
`listEventsAfter()` with a caller that keeps its last id. `VerifyCheckpoints`,
`VerifyFirst` and `VerifyBatch` are the queries of `verifyChain()`, others acting
between them. `Archive` is the documented procedure; `EditRow`, `RemoveRow` and
`Forge` are what the log exists to show: rows changed, deleted, or rewritten with
every later hash made to fit, behind the application's back.

A row's hash is the sequence of everything hashed so far, so two hashes agree only
if all before them does. A checkpoint's signature is the facts it was made over and the
key they were signed with; beside it the row names the key (`keyId`), which nothing signs.
So a check has the three results of `checkCheckpoint()`: `unknown_key` if the row names
another key than the current one, and only then `valid` or `invalid`. `ChangeKey` changes
the signing key, and a forger may name another. `VerdictRight` says what the verdict shows
all the same: a log that is called ok has its checkpoints as they were made, but for those
listed as of unknown keys, which may be forged (`NamesOtherKey`;
`docs/event-backbone.md:459-463` lists them, too), and a log nobody touched fails only
where the checkpoint its archived part is anchored in was signed with a key since replaced
(`AnchorKeyGone`, `auditLog.ts:285`). All servers sign with one key; two keys at once, in a
rolling restart, are not modelled.

### WebhookDelivery, an implementation of WebhookQueue

`WebhookQueue` is what the worker promises of one delivery: open until settled,
begun only when nobody is sending it, settled for good. `WebhookDelivery` has the
code: the fan-out in `publish()`'s statement with the endpoints its snapshot saw
(`StartPublish`, then `Insert` once it has the chain lock; the history `fanned` remembers to
whom), `drainDeliveries()` of each replica with its rerun flag,
`CLAIM_SQL`, the lookup after it, the request, and the two or three statements of
`recordOutcome()`, each a step of its own, because another replica, an administrator
or a crash can come between. Time is what has come due: `RetryDue`, `LeaseOver`.
`ImplementsQueue` maps a row to its life and the sends under way to its senders.
`NoOrphans` has both directions of `bus.ts:154-156`: a delivery has its endpoint, and of an
event on record the fan-out chose that endpoint (`Anchored`); and while an event is on
record, each endpoint its fan-out chose is deleted, still has its delivery, or was sent it
(`NoneLost`). A statement that fails logs neither the event nor its deliveries; `publish()`
notes the failure and goes on, which is the code's choice and not in question.

### IdempotencyKeys, an implementation of OnceService

`OnceService` is the promise to a device: of all requests with one key, one is
applied, once, and success is only told of a change that was made.
`IdempotencyKeys` has one key's row and the requests that carry it: `Claim` (one
statement), `Read` and `decideExisting()` after a conflict with up to three passes, the
route's work, then `Store` or `Release` after the answer, which nobody waits for.
What can break the promise is a kind of fault with a budget: an answer that is
`lose`d after the commit, a route that makes its change and then fails
(`partial`), a stored answer that `expire`s in use, a route `slow`er than ten
minutes. `KeepsPromise` is the refinement for as long as nothing has gone wrong
(`Flawless`); `AppliedBounded` says that each further application has a fault of its
own behind it.

### OfflineSync

One device, its tabs, the server's records and other people. `Write` is a change
sent directly (and still in flight when the device stops waiting: `TimeOut` queues
it with the same key, `Arrive` may come before, between or after) or put in the
queue. `List`, `Plan`, then `Ask`, `Skip`, `Send`, `Refused` or `PassOver` for each entry
are `runSync()`: what it listed is a copy, and every put writes that copy back.
`evaluate`/`PlanOne`/`planSync` are the server's plan, a fold over the batch with
what earlier entries block and will have done. `LoseAnswer` and `Stop` end a run
anywhere. `keepMine`/`keepServer` are the person, who acts on what the Offline screen
shows: a second tab's is only as fresh as its last reload (`screen`, `Look`, and the
constant `OtherScreen`). A request whose key was answered
is answered again and does nothing; that this is so is what IdempotencyKeys shows.

Three kinds of thing a device believes of a record: where it is, who has it, that
it exists. The kinds of change are `move`, `hold` (check-out, and check-in to
`Nobody`), `note` (compares nothing), and `check` (several records; blocks nobody).

### StockLedger

A clerk's request is a transaction: `recordMovement` or `recordCount` begins it,
`lockHolderBalance` and `lockLevel` take the rows in the order of their numbers,
waiting for whoever holds them, `TakeLevel` changes one under the lock (the guarded
update of `stock.ts`), `NextLine` goes on, `Commit` shows it all, and `Rollback`
nothing. `deleteLocation` and `deleteEntity` take rows from under those who wait.
`LevelsAreMovements` is the code's own `checkIntegrity()`; `NoStandoff` that of any
requests one can go on. It is about clerks only: a location's DELETE locks the location's
row before its cascade reaches the levels (`locations.ts:127`), while a clerk who holds a
level needs a key-share lock on that row for the movement (`stock.ts:250`). The two can
meet; PostgreSQL fails one of them, which is a `Rollback` here, or a deletion that does not
happen, and the ledger is the same for it.

### JobLines

`PlanScan` is the look of `advance.ts` under the job's lock, `CommitScan` its writes.
`DecideShipment` and `setShipmentStatus` are the two halves of a change of status,
which shares no lock with an edit of the manifest: `LookToEdit`, then `EditLines`.
Lines have a stage on a ladder, a shipment, and `trip`, the end of their history.

### CustodyTransfer

The paper half has each change of `transfers.ts` as one step under the row's lock;
a page behind a link is what it showed when it was loaded (`OpenPage`, then
`signByLink` with whatever is there now). The finishing half has the steps of
`finalize.ts`, each committed on its own: write the receipt, note it, publish the
entry, note it, apply the effects, note them; `FinisherDies` between any two.

### TeardownJobs

The guide's row with the job in it: `claimNext`, the stages of `pipeline.ts` with what
each stores (`Stages`), the heartbeat that reaches the database or not (`Beats`,
`Stalls`, `GoesStale`), `ServerDies`, and people: `enqueueGuide`, `cancelGuideJob`,
`updateGuide` (another video), `applyDraft`, `discardDraft`, `EditGuide`,
`deleteGuide`. Every write of a stage asks for the token, as in the code; the ones
that do not, and what a change of the video may cross, are modelled as they are.

### CaptureSession

A photo is claimed (`ClaimPhoto`, counted against the cap), read by the model outside
any transaction (`readSource`), and merged (`StoreReading`) under the session's lock.
`ClaimGoesStale` lets another request take it over. `updateDraft`, `splitDraft`,
`mergeDrafts`, `updateSource`, `removeSource` and `commitSession` are people. A photo shows
one thing, which each reading names alike: what the code's `moveSource` merges of a reading
beside the entries it moved (`merge.ts:341-352`) is nothing here.

### PortalNotifier

A pass of a server collects the log's next events behind a shared cursor into
notices, lists what waits, claims and mails it, and records the answer; `Passes` has
each statement as a step. `SetNotify` switches a grant, `DayPasses` ages events. A statement
that fails at one grant leaves the pass to the others (`WithoutGrant`). That no milestone is
missed means that each has a notice, which may be one skipped while the grant was off.

### TrackingIngest

`Receive`, `InsertSightings` (the id is drawn), `LockItem`, `CommitBatch` or `Fails`
are a batch of `ingest.ts`; `FirstRun`, `ReadRange`, `ApplyReads`, `MoveCursor` and
`RunStops` the worker of `placement/readers.ts`. Its settle margin is compared with
how long batches took: `prompt` remembers whether all were fast enough for it. What the
worker makes of a read is not modelled: it passes over one that is stale
(`readers.ts:181-191`) and a group of lines that fails (126-130), and its cursor moves on
past both, so `NothingSlipsPast` says that each read is looked at.

### GeofenceCrossings

`ingestOne` plans the batch, one fix after the other from the oldest (`planGpsBatch`):
each is screened and, if it is believed, tested against the cached fence. `commitState`
stores what came of it. `updateGeofence` redraws (one step, though the time it stamps is
taken just before its transaction), `invalidateFences` empties the cache. The tracker's
other fences matter by one thing: `evaluated_at` is one time for all of them, held back by
any fence it has not been tested on (`upload.elsewhere`). So a fence it was learned to be
outside of, which leaves no row, may be learned again (`Forgotten`). The crossings are
those since the fence was last learned; [findings](#findings) says what is lost then.

### AnomalyRuns

`runLocked`, `Gather`, `loadExisting`, `apply`: a run with what it knew at each step,
while `ConditionBegins`, `ConditionEnds`, `EventHappens`, `SwitchRule` and
`resolveAnomaly` go on. `RunDies` anywhere.

### ClaimReview

Lines and statuses change under the row's lock. A typed total, a deadline, a reviewer
and a deletion are checked first (`askUpdateClaim`, `askAssignClaim`,
`askDeleteClaim`) and written by id afterwards (`saveTotal`, `saveDeadline`,
`assignClaim`, `deleteClaim`). `checkSlaBreaches` is any server's watcher.

### InspectionSignoff

Every request is a look (`LooksFirst`) and a write by id. Pairing by a person
(`setPairing`), by the model (`storeAiPairs`) and by the room (`compareFindings`, an
operator of what is stored) are folded as in `pairing.ts`. A signature is the content
it was made over; the pre-move inspection goes on changing (`EarlierEdited`,
`EarlierLoses`).

### CrewCheckin

A shift is looked at and written by id: `judge` then `checkIn`, `loadCheckin` then
`checkOut`, `updateCheckin` or `deleteCheckin`. The unique index of open shifts and the
order of its times are guards of the write, as in migration 0039.

### TagPresence

`Report` is the engine's decision in memory; what follows are the statements of
`ingest.ts` and `state.ts` in their order: `RecordChange` or `RecordStillHere`,
`WriteBegins` (what its statement's snapshot sees) and `WriteStates`, `ResolveMissing`,
`TellFound`. `sweepMissing` and `TellMissing` are any replica's, `ServerRestarts` and
`ReportFails` may come anywhere.

## Runs and bounds

Systems that share no state are checked side by side in one run: a variable `system`,
chosen in the initial state, says which of them a behaviour runs, and the others stay as
they begin. So a run's states are the sum of its systems', not their product, and each
system keeps bounds of its own.

| Run | Systems and states | Question |
| --- | --- | --- |
| `audit_writers` | the log: 157,570 | The chain, the feed and the checkpoints with two writers that crash and archive; everyone gets the lock |
| `records` | the log under damage 485,018; custody 839,668; sightings 1,214,165 | Is what is told of it afterwards true: the verdict, the signed handoff, the position |
| `idempotency_promise` | one key: 109,374 | OnceService until something goes wrong; no key stuck |
| `idempotency_partial` | one key | violation: a change made twice |
| `office` | one key with faults 88.6 thousand; the notifier 900.5; a claim 170.8; an inspection 94.8: 1,254,757 | What each fault costs; one mail for each milestone; totals, decisions and signatures |
| `offline_queue` | one tab, two changes: 1,526,961 | Order, skips, overrides |
| `offline_tabs` | two tabs without a lock: 160,884 | An end for every change |
| `offline_keep` | one tab | violation: Keep mine that overrides nothing |
| `devices` | two tabs and a stale screen 80,060; capture 174,033; GPS 1,601,145; a tag 293,309 | Nothing lost or twice; counts, crossings, rooms |
| `move_day` | webhooks, stock, lines, shifts, anomalies: 859,086 | Deliveries as promised, a ledger, a manifest, hours, reported problems |
| `workers` | webhooks 45,852; guides 350,745 | Under fairness: everything settles though workers die |
| `webhook_edit` | webhooks | violation: an edit switches an endpoint back on |

Why these are enough for what they ask:

- *Two writers, two replicas, two tabs, two clerks, two desks*: each protocol excludes
  pairs (a lock, a lease, a claim, a unique index), and nothing in the code counts past
  one other.
- *Three ids, four to verify*: a row before, at, and after the one in question, a
  checkpoint among them, and with a batch of two the seam between two batches. In `records`
  one damage and two signing keys: one damage may rewrite every row after it, and the key
  changes before it or after it. `audit_writers` has one key, which writers do not look at.
- *Two attempts, two failures before an endpoint goes off*: the boundary and the step
  before it. The code's six and fifty are the same comparisons. The theorems hold for any.
- *Webhooks*: `move_day` has two replicas, two deliveries of one event and a death, no
  edits (an edit breaks the limit, which is what `webhook_edit` shows); `workers` has one
  replica, two events, an edit, a death and stalls.
- *Idempotency*: the promise run has three requests with one fingerprint and one fault of
  any kind (one that holds the key, one that takes over, one that read in between); the
  office has two requests, two fingerprints and two faults.
- *Two changes to one record* (`offline_queue`): order needs a pair. `PlanMax = 2` lets one
  plan hold both; `PlanMax = 1` (`offline_tabs`, `devices`) makes every change a run of its
  own. `MaxKey` bounds the keys: one per change, and one for each check
  decided on without the records that are gone.
  `Skip` and `PassOver` fire in `offline_queue`, `Look` in `devices`.
- *Stock*: two clerks, one crew, three places so that two locks are taken in either order
  of asking, quantities of one, four requests: a level goes up, down and back to none, and
  one request more meets it there.
- *Lines*: two lines, one truck, two rungs, five batches, edits or changes of status: a
  scan, one that crosses it, a departure between look and write, and one more.
- *Shifts*: two desks, two jobs of which both block and one lets only an administrator
  override, three check-ins, a clock of two and a time that may lie one ahead.
- *Anomalies*: two servers; three rows of one problem and four events, so one opens, is
  resolved, reopens, and an event arrives in between.
- *Custody*: two headers and one line (what differs is whether the content changed), two
  links (one replaces the other), two finishers and a death.
- *Sightings*: two batches, two zones, two moments of observation; a settle margin of 3
  with a prompt batch within 1, the smallest where the margin is more than twice that.
- *Guides*: two servers, two pieces of audio, two tries, two videos, one person with two
  requests, two lapses (deaths and lost heartbeats).
- *Capture*: photos of one piece and of two, two areas, two readers, caps 1 and 2, three
  entries (two from readings, one added or split off), three edits, one stale claim.
- *GPS*: three fixes, a dwell of one, two drawings, four uploads (each fix alone and one
  again). `REANCHOR_AFTER` is 3 in the code and 2 here.
- *Tags*: two zones and two sweepers, dwell and store of 1, missing and idle after 3: the
  code has 10 and 60 seconds, 10 and 60 minutes, in that order, and the assumption
  `2 * StoreMs < MissingMs` is what the argument needs. Nothing enforces it: `docs/ble.md:428`
  advises it, and a tag's own `missingMinutes` may undercut it. A clock of 6 lets a tag go missing,
  be heard, and be missed again.
- *Mails*: two servers, one grant, two milestones, two events, one interval, batches of one
  and two rounds in a pass, two tries, one mail accepted and not recorded.
- *Claims*: two people of whom one is an administrator, one thing claimed, two deadlines,
  one request that is between its check and its write.
- *Inspections*: two requests at once, five in all, two findings of which one is there
  first, one pre-move finding that is near both.

Bounds named `Max...` cap what grows. `CHECK_DEADLOCK FALSE` is set where a bounded
system really comes to rest: all ids are drawn, all deliveries settled, all requests
asked. The promise run checks for deadlock, since a device can always send again.
Symmetry is used only in runs without temporal formulas that need fairness.

Every property of a passing run has a mutant, a definition with a plausible bug in
the code beside the one it replaces, commented `Mutant:`, which the property must
catch; none is used by the specifications.

## Fairness

- `AuditChain`: weak fairness of a session's next step, since PostgreSQL goes on
  with a statement that is not blocked; strong fairness of `TakeLock`, since
  waiters of an advisory lock are queued in the order they came. No session is
  obliged to publish.
- `WebhookDelivery` (in `workers`, of the behaviours that run it): the poll's interval
  timer fires again (`Drain`), a drain goes on (`Works`), a send takes its next step since
  the request has a timeout (`Steps`), and time passes (`RetryDue`, `LeaseOver`). Crashes
  are bounded by `MaxMishaps`.
- `TeardownJobs`: servers poll (`claimNext`), a stage goes on, since every call of a model
  or of ffmpeg has a timeout (`Stages`), and a job whose heartbeat stopped goes stale
  (`GoesStale`). No heartbeat is assumed to arrive, and nothing of people.
- `IdempotencyKeys` (`FairSpec`): living requests go on, time passes for a claim nobody
  answers, the device keeps sending (its queue keeps what is not answered), and
  from some time on requests no longer die. Nothing is assumed of `Expire` or `Prune`.
- `OfflineSync` (`FairSpec`): the triggers of `runSync()` (a timer of 30 seconds, the
  `online` event, focus) keep coming, and from some time on a connection holds for a run.
  No fairness is assumed of a person, of other people, or of requests in flight.

## Proofs

Seven modules of proofs, most of them about several components (`WorkersProofs` about
`WebhookDelivery` and `TeardownJobs`, `OfficeProofs` about `IdempotencyKeys` and
`PortalNotifier`, `RecordsProofs` about `CustodyTransfer` and `TrackingIngest`,
`YardAndClaimsProofs` about `JobLines`, `ClaimReview`, `GeofenceCrossings` and `InspectionSignoff`,
`MoveDayProofs` about `StockLedger`, `CrewCheckin` and `AnomalyRuns`, `DevicesProofs` about
`TagPresence`, `CaptureSession` and `OfflineSync`), and `FiniteSums`, the lemmas on sums and
maxima they use; a theorem holds for any number of servers, sessions, people, rows and any bounds that meet the named assumptions of the
module that declares them (`...Assumption`). Every proof is checked from its leaves; no
fact is taken on trust beyond the library's theorems about sequences, finite sets and
well-founded relations. The properties of the first column are those the runs check.

| Module | Theorems |
| --- | --- |
| `AuditChainProofs` | `TypeCorrect`, `LockCorrect`, `OrderCorrect`, `FeedCorrect` (`PollerMissesNothing`), `ChainCorrect` (`OneChain`), `CheckpointsExact`, `OneCheckpointPerDay`, `TamperInvariant`, `VerdictIsRight` (`VerdictRight`) |
| `WorkersProofs` | `DeliveriesAnchored` (`NoOrphans`), `BatchesStayFew`, `SendsStayBounded`, `SendingStaysSound` (`SendingSound`), `QueueImplemented` (`ImplementsQueue`, the refinement of `WebhookQueue`); `TeardownInvariant`, `GuideIsSound` (`GuideSound`), `GuideAlwaysStands` (`GuideStands`) |
| `OfficeProofs` | `TypeCorrect`, `OneRunnerCorrect`, `AnswerCorrect` (`AnswerBelongs`), `PromiseKept` (`KeepsPromise`), `OnceImplemented` (the refinement of `OnceService`), `EveryExtraHasAFault` (`AppliedBounded`); `NoticesInvariant`, `NoticesAreSound` (`NoticesSound`) |
| `MoveDayProofs` | `StockInvariant`, `StockStaysSound` (`StockSound`), `OnlyAdjustmentsOverdraw` (`NeverOverdrawn`); `CrewInvariant`, `HoursStayTrue` (`ShiftsSound`); `AnomalyInvariant`, `AnomaliesStaySound` (`AnomaliesSound`) |
| `RecordsProofs` | `CustodyInvariant`, `HandoffsStaySound` (`HandoffSound`), `DeadLinksStayDead` (`DeadLinksSignNothing`); `IngestInvariant`, `SightingsStaySound` (`SightingsSound`) |
| `YardAndClaimsProofs` | `LinesInvariant`, `LinesStaySound` (`LinesSound`), `ScansStayInOrder` (`ScansKeepOrder`); `ClaimInvariant`, `ClaimStaysSound` (`ClaimSound`); `GeoInvariant`, `FencesStaySound` (`FencesSound`); `InspectionInvariant`, `SignoffsAlwaysStand` (`SignoffsStand`) |
| `DevicesProofs` | `TagInvariant`, `PresenceSound` (`TagsSound`); `CaptureInvariant`, `ReviewIsSound` (`ReviewSound`), `EditsAlwaysStand` (`EditsStand`); `SyncInvariant`, `SyncTypeCorrect` (`TypeOK`), `AppliedOnce` (`AppliedExactlyOnce`), `OrderInvariant`, `QueueStaysSound` (`QueueSound`) |

Each rests on an inductive invariant, which TLC checked on the module's instance before it
was proved. What it says beyond the property is the reason the code works:

- *Audit log.* `IInv` adds that an id in flight is above every id of the log (`IdsDrawn`)
  and that what the lock's holder has read still is the head (`FitsHead`): both because the
  lock covers everything from the read to the commit. `CursorBehind` puts a reader below
  the sequence. `CheckpointInv`: what was counted before the lock is what lies at or below
  the head seen then, since nothing is added below a head; under the lock the signed facts
  are those of the log as it is; and a checkpoint that was due still is. These two theorems
  are about logs nobody has damaged: a row deleted behind the application's back while its
  count is under way does make the count wrong.
- *Tamper evidence.* `TamperInv` says why damage cannot hide. A row's hash holds one element
  more than what it follows, and what rows follow only gets longer (`Lengthens`): so a row
  after a removed one cannot link to the row before it. A row no longer hashes to what it
  says once it was edited, and only a damaged row does not (`RowSound`). Nothing that was
  hashed or signed bears a later time for a row than the row does (`DatedIn`), and a forger
  moves times forward: so the signature of the checkpoint that follows names a past that is
  not the forged one. Appending mends no break. A walk has the break ahead of it for as
  long as it has not reported it (`WalkTrue`), whatever its batches. All this is of
  checkpoints under the current key: one that names another is not looked at, so `Rightful`
  asks that each is as it was signed or names another key, and the verdict lists the latter.
- *Webhooks.* An event and its deliveries are one statement, and whom it chose is in `fanned`
  from that step on (`OwnEvents`); ids are not used twice (`FreshIds`), and a settled
  row was sent, or its event has been archived (`Told`): so what is pruned was sent, and only
  the deletion of its endpoint takes another delivery away. `DeliveriesCared` says of each delivery that one send at most holds it, under
  its lease and on the attempts its row shows, and that the posts made are the attempts
  written down, but for one that each mishap kept from being so. `Tidy` has a row due only
  while attempts are left, `Throng` no more sends of a replica than a batch.
  `WorkerMayStall = FALSE` is a hypothesis because a sender that stalls beyond its lease
  does send beside another; `SendingStaysSound` also assumes no edits, because
  `webhook_edit` shows what one does.
- *Keys.* `Claimed`, `Kept` and `Given` say whose claim a row is, that a stored answer is that of
  its own request, and that whoever was told of success has it made. They hold until a
  route is slower than ten minutes (`Quick`), since `Store` and `Release` go by key only. The
  refinement is proved for the behaviours in which nothing went wrong (`Flawless`) and, under
  `Faults = {}`, for all. With faults it is `Spent` that holds: the changes applied, the
  requests that still may apply theirs (`Ahead`) and a row that is open for one more claim
  come to one more than the faults at most.
- *Guides.* Every start has a token of its own (`OwnTokens`), so what the holder of the row's
  token has heard is never less than the row, and one piece more between hearing and storing
  it (`HolderHears`): writes under the token only add. `Paying` charges each transcription to
  the row, to a person's restart, or to a start that has a piece unsaved; that is stronger
  than `PaidOnce`, which cannot tell whether the piece of a dead server was still to come.
  A change of the video was asked for while nobody had a token (`VideoAskedIdle`), so one
  that finds a job under way has crossed a claim.
- *Notices.* A pass holds a person's notices under their rows' lock while the mail is out
  (`Locked`), so mails made are notices marked sent, mails accepted and about to be marked,
  or mails nobody recorded (`Counted`). What a collecting pass has behind it and has not
  written is in its hands (`Collected`), and whom a pass has yet to mail has none of its
  interval's mails from that server (`Throttled`).
- *Stock.* A transaction has changed only what it holds; what it changed is what its row
  says less what it has still to take. `NoStandoff` needs no counting: locks are taken in
  one order, so of the transactions that wait, the one with the greatest lock goes on.
- *Custody.* Whoever signed a transfer agreed to what it still contains (`Sound`,
  `SignedAsShown`); one finisher at a time is ahead of the row, and by one step
  (`OneFinishes`); what was done is noted, about to be, or was lost with a death (`AllPaid`).
- *Sightings.* A row that is locked stands (`LockedRowStands`), the position is the latest
  read of those committed (`LatestStored`), moves chain (`MovesChain`), and the worker is
  behind by no more than its margin: ids follow the time of receipt within half of it
  (`IdsFollowReceipt`), so every prompt batch is still ahead of the cursor (`WorkerKeepsUp`).
- *Lines.* A scan under way planned for a stage above the one its line has, which the job's
  lock keeps true.
- *Claims.* What a request looked up before its transaction it may rely on unless somebody
  acted in between, and then it is `crossed`; a claim that is being decided has a deadline.
- *Inspections.* Every write leaves the others late; of one that is not, what it looked at is
  so still (`StillSo`), and that is all a signature and an undoing need. That a choice is in
  the comparison comes from the order of the fold: while the choices are gone through, a
  finding holds what a person chose for it (`HeldByChoice`), so only the very same choice of
  another finding stands in its way; what is stored names a finding that is there
  (`PairsThere`), and nothing that comes later takes a pair away (`OneOffer`, `ChoiceHeld`).
- *Capture.* Each draft under review rests on photos that are there, or on what somebody
  typed (`Rests`, `PhotosOnFile`), with their count (`Counted`), and each step changes one or
  two drafts into such. `Spends` holds because a call is counted in the step that claims its
  photo: the calls made and those of photos still claimed are never more than were counted.
- *Offline queue.* `SyncInv` holds for any tabs, locked or not: what a run or a screen has of
  a change is a version of it (`VersionOf`), with the key of its first request unless it is a
  check that goes without deleted records, so that the keys answered tell how often it was
  made (`KeysTell`). `OrderInv` is about tabs that lock and one person deciding in one. What
  waits before a turn, about the same record, has its turn before it or holds it up
  (`NoneBefore`), and each verdict is right about what its change will find after the turns
  before it (`AsPlanned`), but for the records in `off` and those stalled. A turn does what
  was planned, or is set aside with its record (`Laid`, `Behind`), and what the device and
  people do meanwhile touches no pending change and puts the new ones behind (`Calm`): so the
  plan stays right though the run it is for is only halfway through. `Misled` is why `off`
  also has what was answered from a stored answer: there the server did nothing at the turn
  the plan counted on.
- *GPS.* The entries and exits of a set of fixes are defined from the set alone: stays,
  turns, and when a turn is confirmed. What a believed fix behind all others changes in them
  is proved once (`LaterStays`, `LaterTurns`): the last stretch on one side goes on or begins
  anew (`LastRun`), and is a stay once it has lasted. The dwell rule knows the side of the
  last stay and since when the last stretch is on another (`Follows`), which is why it
  announces each turn once and as it was (`Announced`). A plan is right about what was heeded
  before it and believed by it so far (`Judges`); each fix leaves a plan that is
  (`JudgesOne`), hence the batch, and so is what stays when the plan is stored. It carries
  that a tracker not yet told a side was last tested before the fence was drawn. Where that
  is so again of one that had been told (`Forgotten`), the fixes and the announcements it is
  right about begin anew with the batch. It holds for what is about to be stored too, unless
  a drawing came in between (`UploadFits`).
- *Crew.* A desk decides under the worker's lock; outside of it all that survives of what it
  saw is that a shift exists and when it began.
- *Anomalies.* A run may act on what is no longer so, and each write is sound all the same:
  a run that found a condition found it newer than every row that was over by then
  (`Facts`), and whoever resolves a row meanwhile resolves one the run takes for open
  (`Stale`), where the write asks again. The events counted by the rows are no more than
  there were up to the time of the last row (`Counts`), so a newer one is not counted yet.
- *Tags.* A report takes less time than a tag takes to go missing, so what a report still has
  to write cannot be too old (`ReportYoung`); the assumption `2 * StoreMs < MissingMs`
  carries the case of a room that is written late.

Only model-checked, and why: *liveness* (`WritersFinish`, `DeliveriesSettle`, `JobSettles`,
`GetsThrough`, `GetsDecided`), since the provers have no rule for fairness. Every invariant
and every action property the passing runs check is stated by a theorem.

Sums over sets (`MapThenSumSet`) are folds, which the community modules define by a
recursive function. `FiniteSums` proves what is needed of them without an induction rule: if
no function took each subset to its sum, there would be a least size of subset for which
none does (a least number exists, since `<` is well-founded), and taking one element off
such a subset gives one. A plan of the offline queue and the comparison of an inspection are folds of the same kind
over a sequence: `PlannedIs` and `SettledIs` show that they go through it from first to
last, and an invariant of that is carried from each to the next (`OneAfterOther`). `EveryExtraHasAFault` and the theorems about `CaptureSession`
therefore assume that the requests, the changes, the photos and the readers are finitely
many: sums and counts mean nothing else.

## Findings

Runs with `expect` *violation* show the code doing other than its documentation says.

- `webhook_edit`. `updateEndpoint()` reads the endpoint and writes every column.
  An edit that read it before `countFailure()` switched it off writes `active` back
  without resetting the count, so the endpoint is on with its limit reached.
- `idempotency_partial`. A route may commit and then answer with an error:
  `checkOut()` records its event after its transaction. The key is released and the
  retry is a second check-out, where the documentation says a failed request
  changed nothing.
- `offline_keep`. *Keep mine* keeps the change's key. If the change had been made
  before (its answer lost) and someone changed the record since, the server replays
  the stored answer: the device records the change as sent and nothing is
  overridden.

Met while modelling; the models have them, and the properties are stated around them,
each by a condition that names the case.

*Log.*
- `docs/event-backbone.md:459-463` says that checkpoints of a key since changed are listed
  *rather than failing*; the one an archived part is anchored in does fail
  (`auditLog.ts:285`, `AnchorKeyGone`).

*Keys, webhooks, offline.*
- A process that dies between a route's commit and the stored answer leaves a claim
  that is taken over after ten minutes, and the change is made again
  (`AppliedBounded` counts it). `Store` and `Release` go by key only, so a
  route slower than that also answers for the request that took over.
- The outcome of a webhook goes by id only: a worker that stalls beyond its lease
  can write over another's final outcome. `move_day` therefore has
  `WorkerMayStall = FALSE`, which the lease's length (six timeouts) justifies;
  `workers` lets workers stall. A ping of a replica that died stays pending.
- Between the plan and the replay a record may change; routes do not look. The
  properties about overriding leave out records that did (`off`).
- *Try again* on a refused change forces it like *Keep mine* does.
- Without Web Locks (plain http) two tabs work one queue, and a second tab's Offline
  screen may be stale: the key keeps the change from being made twice
  (`AppliedExactlyOnce`, in `devices` with both), but a finished entry can be put back and
  sent again or one discarded while it is sent. `QueueSound` is stated for tabs that lock
  and decisions in one tab (`Orderly`); `GetsDecided` needs neither.
- A plan takes the oldest 500 entries, held ones included (`sync.ts:214`); as many held
  ones would keep later ones waiting. `GetsDecided` names the exception.

*Jobs and custody.*
- A line's history is ordered by a time taken before the job's lock; concurrent adds can
  put a whole item and its units side by side; an edit of the manifest may join lines to a
  shipment that closed between its look and its write.
- `finalize.ts:25-26` and `docs/custody.md:285` say that finishing repeats nothing, but a
  death between a step and its record repeats that step. `HandoffSound` counts one repeat
  for each death.

*Teardown and capture.*
- A change of the video that crosses a claim keeps the old transcript (`guides.ts:476`); a
  person's step added between the listing of steps and `writeDraft` is deleted; refining
  renames parts without the token; a crash after a keyframe was saved leaves the picture.
- After a partial commit, moving a photo (or a retaken claim's second reading) merges it
  again into a new entry though its thing is already an item. `splitByQty`'s first half is
  locked but not `edited`, so a late reading may drop its typed count.

*Portal, tracking, GPS, anomalies.*
- Each server throttles by itself, so a person may get one mail from each in an interval; a
  mail may go out within the pass that listed the grant before it was revoked or muted; one
  accepted and not recorded is sent again; `sent_at` is the start of the pass.
- The worker's margin covers only batches that commit within less than half of it. A crash
  between applying reads and moving the cursor applies them again, over what a person
  changed meanwhile. The duplicate filter may suppress a read for the sake of a batch that
  then fails.
- `geofences.ts:159-161` says that redrawing announces no entries, but a batch under way
  across it, or another server's cached shape (30 seconds), announces trackers that are
  inside. A batch that began before the redrawing leaves the tracker unlearned, and a
  crossing is missed. `CrossingsAreReal` leaves these out (`torn`).
- A tracker that has not been tested on one of its fences (its fixes straddle the edge) has
  `evaluated_at` held back for all of them (`gps/ingest.ts:247`, `335-339`). Another fence,
  known to be away, has no row that says so (`223-226`): it counts as unlearned again, a
  first fix inside it is taken for where the tracker was, and a real entry is not announced
  though nothing was redrawn. `fence.ts:196-200` and `docs/gps.md:179-181` have a crossing
  reported once confirmed, and `gps/ingest.ts:143-146` only fences drawn or redrawn since
  learned again. The model has it (`Forgotten`); `CrossingsAreReal` is exact from one
  learning to the next, and silent on what falls between.
- A condition fixed between gather and load reopens its anomaly as *not fixed*; a dismissal
  between load and apply leaves it quiet when the run missed the condition; an older sticky
  event that comes late is never reported; a death after the commit loses what was to be
  published.

*Claims and inspections.*
- `updateClaim` (`claims.ts:688-772`) checks without the lock and writes by id, where
  `docs/claims.md:136` says otherwise; `setStatus` fingerprints evidence before its
  transaction; `deleteClaim` deletes by id what was a draft when it looked
  (`docs/claims.md:115-117`); the last `assignClaim` wins; a withdrawn draft can be reopened
  into review without evidence (`workflow.ts:32-49`); an announcement is lost when the
  server stops between its stamp and the announcement.
- Deleting a paired pre-move finding leaves `manual` with no target, which reads as *ruled
  out by a person* (migration 0034:79, `pairing.ts:142-145`); two `setPairing` at once for
  one pre-move finding both stand; writes after `assertDraft` are unconditional; *signed* is
  recorded by id without looking at the status again (`inspections.ts:870-875`, `959-964`);
  a pre-move inspection edited after the signatures leaves the status *signed*; closing a
  task races with reopening, and two inspections may claim one task.

*Crew and Bluetooth.*
- Corrections of a timesheet may overlap shifts, and so may a check-out that lies up to five
  minutes ahead; `switchJob` checks out the old shift before an insert that may fail.
- `writeStates` reads `missing_since` from its statement's snapshot (`state.ts:71`): a sweep
  that commits before the row lock is taken leaves the alert open, tells nobody that the tag
  was found, and the next absence gets no alert of its own (`docs/ble.md:192`).
- The engine changes the room in memory before it is written: when that write fails
  (`ingest.ts:355`), or the server dies between the position and the state, the change is
  not written again until the tag moves, while the tag's row shows the new room
  (`docs/ble.md:111-113`). Found and missing may be published out of order.

*Read, not modelled.* `updateItem` writes every column it read (`items.ts:420`); a check-in
acts on a stale open assignment (`assignments.ts:50-70`); `syncRollups` races
(`units.ts:24-39`).

## Assumptions

SHA-256 has no collisions and signatures cannot be made without the key. Which
endpoints an event's patterns match, how a request ends, which zone a read is in and which
entry a photo matches best are open choices. The timeout of a request is far shorter than
its lease (WebhookDelivery, where `WorkerMayStall` is FALSE). A direct request or a replay
that is refused has changed nothing, and stored keys do not expire, in OfflineSync;
IdempotencyKeys has both. Node's `requestTimeout` bounds the reception of a request and not
a route's work, so slow routes are a fault in IdempotencyKeys rather than excluded. The
routes in front of the offline changes are modelled by what they check and set. A report of
a Bluetooth gateway takes less time to process than a tag takes to go missing or the engine
to forget it (10 and 60 minutes). PostgreSQL runs single statements and row locks as
READ COMMITTED says.

## Not modelled

Of the modelled components: secret rotation, the signature on a webhook's body and the
address checks of its target; export of the log; the device's read copy beyond
the values a change takes its base from, the choice of whose changes are sent after
another user signs in, photos, and placing an item into another, which plans and sends
like a move to a location; kits, stock alerts and reports; a job's tasks and templates,
deleting a shipment, how a code finds its line; drawing a receipt and checking seals;
exports and sharing of guides; capture's manifest mode, copies of evidence and several
photos in one request; the portal's pages, codes, passes and contributors; the duplicate
filter, portals' directions and zones' definitions, what a placement read makes of a line;
progress of shipments, batteries and deletion of a fence; the rules, forecasts and questions
of operations intelligence, several problems at once, publication after the commit; a
claim's estimates, evidence, comments and files; an inspection's job tasks, the model that
reads its photos, reports and sharing; crew credentials, badges and exports; signal
smoothing, readings without strength, phones, batteries, calibration, tags known by an
item's identifier only, and several servers that ingest one tag (`docs/ble.md:464` says to
pin it).

Pure functions over text, PDF and spreadsheet layout, clients of outside services, the
bridge's scripts and screens have no state of their own to check. The inventory's
table *Not modelled* lists what is left out as a whole.

## Plan

What is left, in this order:

1. `ItemHolding`: check-out, check-in and edits of an item and its units, two at a time,
   over the unique index of open assignments. *One holder; the item's holder is that of its
   open assignment.* Its hazards are `items.ts:420`, `assignments.ts:50-70`,
   `units.ts:24-39`.
2. `DocumentPackets`: attached once, its content fixed before it is signed.
3. `RegisterReconcile` and `TagCommissioning`: an action applied once, to what it was shown
   for; a code on one record only.
