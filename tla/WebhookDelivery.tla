--------------------------- MODULE WebhookDelivery ---------------------------
(***************************************************************************)
(* Outbound webhooks: the fan-out inside publish()'s statement, the worker *)
(* every replica runs over the shared queue of deliveries, sends by hand   *)
(* (ping and resend), auto-disable, and administrators' changes.           *)
(*                                                                         *)
(* A send is one statement or request at a time; between two of them any   *)
(* other process may run, and the replica may die.  Time is what has come: *)
(* a retry falls due, a lease runs out.                                    *)
(***************************************************************************)
EXTENDS Integers, FiniteSets

CONSTANTS
    Endpoint,        \* webhook endpoints, ever
    NoEndpoint,      \* what a row that is not there belongs to
    Replica,         \* application replicas
    Batch,           \* BATCH, deliveries claimed at a time
    MaxAttempts,     \* MAX_ATTEMPTS
    DisableAfter,    \* AUTO_DISABLE_AFTER
    WorkerMayStall,  \* a live sender may be slower than its lease
    MaxEvent,        \* bound: events published
    MaxDelivery,     \* bound: deliveries made
    MaxEdits,        \* bound: endpoint edits under way at once
    MaxMishaps       \* bound: crashes and database errors

ASSUME BoundsAssumption ==
    /\ MaxEvent \in Nat /\ MaxDelivery \in Nat /\ MaxEdits \in Nat /\ MaxMishaps \in Nat
    /\ Batch \in Nat \ {0} /\ MaxAttempts \in Nat \ {0} /\ DisableAfter \in Nat \ {0}
    /\ WorkerMayStall \in BOOLEAN
    /\ IsFiniteSet(Endpoint) /\ NoEndpoint \notin Endpoint

Delivery == 1 .. MaxDelivery
Event == 1 .. MaxEvent
NoEvent == 0
NoDelivery == 0

VARIABLES
    endpoint,      \* webhook_endpoints: [state, failures]
    logged,        \* the events in audit_log
    row,           \* webhook_deliveries
    lastDelivery,  \* its id sequence
    lastEvent,     \* events published so far
    publishing,    \* publish() statements under way, with the endpoints they saw
    fanned,        \* history: the statements that committed, with the delivery made for each endpoint
    edits,         \* updateEndpoint() calls between reading and writing
    sends,         \* sends under way
    worker,        \* [Replica -> drainDeliveries(): "idle", "claim", a "batch" or a "full" one]
    rerun,         \* [Replica -> asked to drain again meanwhile]
    posts,         \* history: [Delivery -> requests the receiver got]
    mishaps        \* crashes and errors so far

vars == <<endpoint, logged, row, lastDelivery, lastEvent, publishing, fanned, edits, sends, worker,
          rerun, posts, mishaps>>
bus == <<logged, lastEvent, publishing, fanned>>
queue == <<row, lastDelivery>>
workers == <<worker, rerun>>

Exists(ep) == endpoint[ep].state \in {"active", "off"}
Active == {ep \in Endpoint : endpoint[ep].state = "active"}
Queued(d) == row[d].status # "absent"

NoRow == [status |-> "absent", endpoint |-> NoEndpoint, event |-> NoEvent,
          attempts |-> 0, due |-> "never", lease |-> "none"]

(* The table's defaults: pending, due now, not leased. *)
NewRow(ep, e) == [NoRow EXCEPT !.status = "pending", !.endpoint = ep, !.event = e, !.due = "now"]

(* Sending d: on what the row said when it was read. *)
Sending(r, kind, d, attempts, original, phase) ==
    [by |-> r, kind |-> kind, d |-> d, attempts |-> attempts, original |-> original,
     phase |-> phase]

SendsOf(d) == {s \in sends : s.d = d /\ s.phase \in {"claimed", "gone", "ready", "ok", "failed"}}
WorkerSends(r) == {s \in sends : s.by = r /\ s.kind = "worker"}

Moves(s, phase) == sends' = (sends \ {s}) \cup {[s EXCEPT !.phase = phase]}
Ends(s) == sends' = sends \ {s}

Init ==
    /\ endpoint \in [Endpoint -> [state : {"new", "active"}, failures : {0}]]
    /\ logged = {} /\ lastEvent = 0 /\ publishing = {} /\ fanned = {} /\ edits = {}
    /\ row = [d \in Delivery |-> NoRow] /\ lastDelivery = 0
    /\ sends = {}
    /\ worker = [r \in Replica |-> "idle"] /\ rerun = [r \in Replica |-> FALSE]
    /\ posts = [d \in Delivery |-> 0]
    /\ mishaps = 0

-----------------------------------------------------------------------------
(* The bus *)

(* insertEvent() starts: its statement will see these endpoints, whatever
   happens while it waits for the chain lock.  Which patterns match is open. *)
StartPublish(active) ==
    /\ lastEvent < MaxEvent
    /\ lastEvent' = lastEvent + 1
    /\ \E to \in SUBSET active :
          publishing' = publishing \cup {[event |-> lastEvent + 1, to |-> to]}
    /\ UNCHANGED <<logged, fanned>>

Publish == StartPublish(Active) /\ UNCHANGED <<endpoint, queue, edits, sends, workers, posts, mishaps>>

(* Mutant: the fan-out in a statement of its own, which may be lost after the event. *)
FanOutApart(e, to, order) ==
    row' \in {row, [d \in Delivery |-> IF d \in DOMAIN order THEN NewRow(order[d], e) ELSE row[d]]}

FanOut(e, to, order) ==
    row' = [d \in Delivery |-> IF d \in DOMAIN order THEN NewRow(order[d], e) ELSE row[d]]

ForeignKeysHold(p) == \A ep \in p.to : Exists(ep)

Fanned(p, order) ==
    [event |-> p.event, to |-> p.to,
     made |-> [d \in Delivery |-> IF d \in DOMAIN order THEN order[d] ELSE NoEndpoint]]

(* The event and its deliveries commit together; a delivery for an endpoint
   deleted meanwhile breaks a foreign key, and publish() returns null. *)
Insert(p) ==
    /\ publishing' = publishing \ {p}
    /\ IF ForeignKeysHold(p)
       THEN LET ids == lastDelivery + 1 .. lastDelivery + Cardinality(p.to)
            IN  /\ ids \subseteq Delivery
                /\ \E order \in [ids -> p.to] :
                      /\ \A c, d \in ids : order[c] = order[d] => c = d
                      /\ FanOut(p.event, p.to, order)
                      /\ fanned' = fanned \cup {Fanned(p, order)}
                /\ lastDelivery' = lastDelivery + Cardinality(p.to)
                /\ logged' = logged \cup {p.event}
       ELSE UNCHANGED <<queue, logged, fanned>>
    /\ UNCHANGED <<endpoint, lastEvent, edits, sends, workers, posts, mishaps>>

(* An archive removes the event: ON DELETE SET NULL. *)
ArchiveEvent(e) ==
    /\ e \in logged
    /\ logged' = logged \ {e}
    /\ row' = [d \in Delivery |-> IF row[d].event = e THEN [row[d] EXCEPT !.event = NoEvent] ELSE row[d]]
    /\ UNCHANGED <<endpoint, lastDelivery, lastEvent, publishing, fanned, edits, sends, workers, posts,
                   mishaps>>

-----------------------------------------------------------------------------
(* The worker *)

(* drainDeliveries(), from the poll or the kick. *)
Drain(r) ==
    /\ IF worker[r] = "idle"
       THEN /\ worker' = [worker EXCEPT ![r] = "claim"]
            /\ rerun' = [rerun EXCEPT ![r] = FALSE]
       ELSE /\ ~rerun[r]
            /\ rerun' = [rerun EXCEPT ![r] = TRUE]
            /\ UNCHANGED worker
    /\ UNCHANGED <<endpoint, bus, queue, edits, sends, posts, mishaps>>

(* Mutant: claims what another is sending. *)
DueOrLeased(d) ==
    /\ row[d].status \in {"pending", "failed"}
    /\ row[d].due = "now"
    /\ row[d].endpoint \in Active

(* Mutant: a lease that has run out still counts. *)
DueNeverLeased(d) ==
    /\ row[d].status \in {"pending", "failed"}
    /\ row[d].due = "now"
    /\ row[d].lease = "none"
    /\ row[d].endpoint \in Active

Due(d) ==
    /\ row[d].status \in {"pending", "failed"}
    /\ row[d].due = "now"
    /\ row[d].lease # "held"
    /\ row[d].endpoint \in Active

(* CLAIM_SQL, a batch of what is due. *)
Claim(r) ==
    LET due == {d \in Delivery : Due(d)} IN
    /\ worker[r] = "claim"
    /\ IF due = {}
       THEN /\ worker' = [worker EXCEPT ![r] = IF rerun[r] THEN "claim" ELSE "idle"]
            /\ rerun' = [rerun EXCEPT ![r] = FALSE]
            /\ UNCHANGED <<row, sends>>
       ELSE \E claimed \in SUBSET due :
            /\ Cardinality(claimed) = IF Cardinality(due) < Batch THEN Cardinality(due) ELSE Batch
            /\ row' = [d \in Delivery |-> IF d \in claimed THEN [row[d] EXCEPT !.lease = "held"]
                                          ELSE row[d]]
            /\ sends' = sends \cup
                 {Sending(r, "worker", d, row[d].attempts, NoDelivery, "claimed") : d \in claimed}
            /\ worker' = [worker EXCEPT ![r] = IF Cardinality(claimed) = Batch THEN "full" ELSE "batch"]
            /\ UNCHANGED rerun
    /\ UNCHANGED <<endpoint, bus, lastDelivery, edits, posts, mishaps>>

(* Endpoints and events are looked up after the claim, for the whole batch. *)
Load(r) ==
    LET claimed == {s \in WorkerSends(r) : s.phase = "claimed"}
        found(s) == Queued(s.d) /\ row[s.d].event # NoEvent
    IN  /\ claimed # {}
        /\ sends' = (sends \ claimed) \cup
             {[s EXCEPT !.phase = IF found(s) THEN "ready" ELSE "gone"] : s \in claimed}
        /\ UNCHANGED <<endpoint, bus, queue, edits, workers, posts, mishaps>>

(* Promise.all() over the batch; after a full one there may be more waiting. *)
BatchDone(r) ==
    /\ worker[r] \in {"batch", "full"}
    /\ WorkerSends(r) = {}
    /\ worker' = [worker EXCEPT ![r] = IF @ = "full" \/ rerun[r] THEN "claim" ELSE "idle"]
    /\ rerun' = [rerun EXCEPT ![r] = @ /\ worker[r] = "full"]
    /\ UNCHANGED <<endpoint, bus, queue, edits, sends, posts, mishaps>>

MarkDead(s) ==
    /\ s.phase = "gone"
    /\ Ends(s)
    /\ row' = [row EXCEPT ![s.d] = IF Queued(s.d)
                 THEN [@ EXCEPT !.status = "dead", !.due = "never", !.lease = "none"] ELSE @]
    /\ UNCHANGED <<endpoint, bus, lastDelivery, edits, workers, posts, mishaps>>

(* send(): never throws; a request that timed out may have arrived. *)
Post(s) ==
    /\ s.phase = "ready"
    /\ \/ Moves(s, "ok") \/ Moves(s, "failed")
    /\ posts' = [posts EXCEPT ![s.d] = @ + 1]
    /\ UNCHANGED <<endpoint, bus, queue, edits, workers, mishaps>>

(* Mutant: one more entry in the schedule than there is. *)
RetryLeftInclusive(attempts) == attempts <= MaxAttempts

(* nextRetryDelayMs() # null *)
RetryLeft(attempts) == attempts < MaxAttempts

Outcome(s, ok) ==
    LET attempts == s.attempts + 1
        again == ~ok /\ s.kind # "ping" /\ RetryLeft(attempts)
    IN  [row[s.d] EXCEPT
           !.status = IF ok THEN "succeeded"
                      ELSE IF again \/ s.kind = "ping" THEN "failed" ELSE "dead",
           !.attempts = attempts,
           !.due = IF again THEN "later" ELSE "never",
           !.lease = "none"]

(* recordOutcome(), first statement: by id, whatever the row is now. *)
Record(s) ==
    /\ s.phase \in {"ok", "failed"}
    /\ row' = [row EXCEPT ![s.d] = IF Queued(s.d) THEN Outcome(s, s.phase = "ok") ELSE @]
    /\ Moves(s, IF s.phase = "ok" THEN "reset" ELSE "count")
    /\ UNCHANGED <<endpoint, bus, lastDelivery, edits, workers, posts, mishaps>>

(* Second statement, after a success. *)
Reset(s) ==
    /\ s.phase = "reset"
    /\ endpoint' = [ep \in Endpoint |-> IF ep = row[s.d].endpoint
                      THEN [endpoint[ep] EXCEPT !.failures = 0] ELSE endpoint[ep]]
    /\ IF s.kind = "resend" /\ Queued(s.d) THEN Moves(s, "cancel") ELSE Ends(s)
    /\ UNCHANGED <<bus, queue, edits, workers, posts, mishaps>>

(* Mutant: only the failure after the last allowed one counts. *)
SwitchesOffLate(ep, failures) == ep \in Active /\ failures > DisableAfter

SwitchesOff(ep, failures) == ep \in Active /\ failures >= DisableAfter

(* countFailure(); only the failure that switches the endpoint off is announced. *)
Count(s) ==
    LET ep == row[s.d].endpoint
        failures == endpoint[ep].failures + 1
        off == SwitchesOff(ep, failures)
    IN  /\ s.phase = "count"
        /\ Ends(s)
        /\ IF ~Queued(s.d) THEN UNCHANGED <<endpoint, bus>>
           ELSE /\ endpoint' = [endpoint EXCEPT ![ep].failures = failures,
                                                ![ep].state = IF off THEN "off" ELSE @]
                /\ IF off /\ lastEvent < MaxEvent THEN StartPublish(Active \ {ep})
                   ELSE UNCHANGED bus
        /\ UNCHANGED <<queue, edits, workers, posts, mishaps>>

-----------------------------------------------------------------------------
(* Sends by hand: a row made with its lease, then the same steps. *)

SendNow(r, kind, new, original) ==
    /\ lastDelivery < MaxDelivery
    /\ lastDelivery' = lastDelivery + 1
    /\ row' = [row EXCEPT ![lastDelivery + 1] = [new EXCEPT !.lease = "held"]]
    /\ sends' = sends \cup {Sending(r, kind, lastDelivery + 1, 0, original, "ready")}
    /\ UNCHANGED <<endpoint, bus, edits, workers, posts, mishaps>>

(* pingEndpoint(): never claimed again, for it is not due. *)
Ping(r, ep) ==
    /\ Exists(ep)
    /\ SendNow(r, "ping", [NewRow(ep, NoEvent) EXCEPT !.due = "never"], NoDelivery)

(* redeliver() reads the delivery, its event and the endpoint, and then inserts: a row
   whose endpoint or event went meanwhile breaks a foreign key, and the call fails. *)
Resend(r, d) ==
    /\ Queued(d)
    /\ row[d].event # NoEvent
    /\ SendNow(r, "resend", NewRow(row[d].endpoint, row[d].event), d)

Cancellable(old) == old.status = "failed" /\ old.due # "never" /\ old.lease # "held"

(* redeliver(), after a success: the original's retry would only send it again,
   but one already being sent is left to finish. *)
CancelOriginal(s) ==
    /\ s.phase = "cancel"
    /\ Ends(s)
    /\ row' = [row EXCEPT ![s.original] =
                 IF Cancellable(@) THEN [@ EXCEPT !.due = "never"] ELSE @]
    /\ UNCHANGED <<endpoint, bus, lastDelivery, edits, workers, posts, mishaps>>

-----------------------------------------------------------------------------
(* Administration; each change is published once it is made. *)

Create(ep, state) ==
    /\ endpoint[ep].state = "new"
    /\ endpoint' = [endpoint EXCEPT ![ep].state = state]
    /\ StartPublish(IF state = "active" THEN Active \cup {ep} ELSE Active)
    /\ UNCHANGED <<queue, edits, sends, workers, posts, mishaps>>

(* updateEndpoint() reads the row first... *)
Edit(ep, active) ==
    /\ Cardinality(edits) < MaxEdits
    /\ Exists(ep)
    /\ edits' = edits \cup {[endpoint |-> ep, was |-> ep \in Active, active |-> active]}
    /\ UNCHANGED <<endpoint, bus, queue, sends, workers, posts, mishaps>>

(* ... and writes every column, on what it read. *)
SaveEdit(x) ==
    LET ep == x.endpoint
        reenabled == x.active /\ ~x.was
    IN  /\ edits' = edits \ {x}
        /\ IF Exists(ep)
           THEN /\ endpoint' = [endpoint EXCEPT
                       ![ep].state = IF x.active THEN "active" ELSE "off",
                       ![ep].failures = IF reenabled THEN 0 ELSE @]
                /\ StartPublish(IF x.active THEN Active \cup {ep} ELSE Active \ {ep})
           ELSE UNCHANGED <<endpoint, bus>>
        /\ UNCHANGED <<queue, sends, workers, posts, mishaps>>

(* ON DELETE CASCADE takes its deliveries, those being sent included. *)
Delete(ep) ==
    /\ Exists(ep)
    /\ endpoint' = [endpoint EXCEPT ![ep] = [state |-> "deleted", failures |-> 0]]
    /\ row' = [d \in Delivery |-> IF row[d].endpoint = ep THEN NoRow ELSE row[d]]
    /\ StartPublish(Active \ {ep})
    /\ UNCHANGED <<lastDelivery, edits, sends, workers, posts, mishaps>>

-----------------------------------------------------------------------------
(* Time and failure *)

Settled(d) == \/ row[d].status \in {"succeeded", "dead"}
              \/ row[d].status = "failed" /\ row[d].due = "never"

(* pruneDeliveries(): thirty days on, no send of it is left. *)
Prune(d) ==
    /\ Settled(d)
    /\ \A s \in sends : s.d # d /\ s.original # d
    /\ row' = [row EXCEPT ![d] = NoRow]
    /\ UNCHANGED <<endpoint, bus, lastDelivery, edits, sends, workers, posts, mishaps>>

RetryDue(d) ==
    /\ row[d].due = "later"
    /\ row' = [row EXCEPT ![d].due = "now"]
    /\ UNCHANGED <<endpoint, bus, lastDelivery, edits, sends, workers, posts, mishaps>>

(* A live sender never loses its lease, for it is six times the timeout of a
   request: unless the process stalls. *)
LeaseOver(d) ==
    /\ row[d].lease = "held"
    /\ WorkerMayStall \/ SendsOf(d) = {}
    /\ row' = [row EXCEPT ![d].lease = "over"]
    /\ UNCHANGED <<endpoint, bus, lastDelivery, edits, sends, workers, posts, mishaps>>

Mishap == mishaps < MaxMishaps /\ mishaps' = mishaps + 1

(* The process dies, and what it was doing with it. *)
Crash(r) ==
    /\ Mishap
    /\ sends' = {s \in sends : s.by # r}
    /\ worker' = [worker EXCEPT ![r] = "idle"]
    /\ rerun' = [rerun EXCEPT ![r] = FALSE]
    /\ UNCHANGED <<endpoint, bus, queue, edits, posts>>

(* A statement of one send fails: it is logged, or reported to the caller. *)
SendFails(s) ==
    /\ Mishap
    /\ s.phase # "claimed"
    /\ Ends(s)
    /\ UNCHANGED <<endpoint, bus, queue, edits, workers, posts>>

(* A statement before the sends fails: the pass is over, the leases stay. *)
BatchFails(r) ==
    /\ Mishap
    /\ worker[r] = "claim" \/ \E s \in WorkerSends(r) : s.phase = "claimed"
    /\ sends' = sends \ WorkerSends(r)
    /\ worker' = [worker EXCEPT ![r] = "idle"]
    /\ UNCHANGED <<endpoint, bus, queue, edits, rerun, posts>>

-----------------------------------------------------------------------------
Works(r) == Claim(r) \/ Load(r) \/ BatchDone(r)

Steps(s) == MarkDead(s) \/ Post(s) \/ Record(s) \/ Reset(s) \/ Count(s) \/ CancelOriginal(s)

Administrate(ep) == \/ \E state \in {"active", "off"} : Create(ep, state)
                    \/ \E active \in BOOLEAN : Edit(ep, active)
                    \/ Delete(ep)

Next == \/ Publish
        \/ \E p \in publishing : Insert(p)
        \/ \E e \in logged : ArchiveEvent(e)
        \/ \E r \in Replica : Drain(r) \/ Works(r) \/ Crash(r) \/ BatchFails(r)
        \/ \E s \in sends : Steps(s) \/ SendFails(s)
        \/ \E r \in Replica : (\E ep \in Endpoint : Ping(r, ep)) \/ \E d \in Delivery : Resend(r, d)
        \/ \E ep \in Endpoint : Administrate(ep)
        \/ \E x \in edits : SaveEdit(x)
        \/ \E d \in Delivery : Prune(d) \/ RetryDue(d) \/ LeaseOver(d)

Spec == Init /\ [][Next]_vars

(* The poll's timer keeps firing, a worker that runs goes on, a request ends by
   its timeout, and time passes.  Nobody has to edit, resend or publish. *)
Fairness ==
    /\ \A r \in Replica : WF_vars(Drain(r)) /\ WF_vars(Works(r))
    /\ WF_vars(\E s \in sends : Steps(s))
    /\ \A d \in Delivery : WF_vars(RetryDue(d)) /\ WF_vars(LeaseOver(d))

FairSpec == Spec /\ Fairness

-----------------------------------------------------------------------------
(* Properties *)

TypeOK ==
    /\ endpoint \in [Endpoint -> [state : {"new", "active", "off", "deleted"}, failures : Nat]]
    /\ logged \subseteq Event /\ lastEvent \in Event \cup {0}
    /\ publishing \subseteq [event : Event, to : SUBSET Endpoint]
    /\ fanned \subseteq [event : Event, to : SUBSET Endpoint,
                         made : [Delivery -> Endpoint \cup {NoEndpoint}]]
    /\ row \in [Delivery -> [status : {"absent", "pending", "succeeded", "failed", "dead"},
                             endpoint : Endpoint \cup {NoEndpoint}, event : Event \cup {NoEvent},
                             attempts : 0 .. MaxAttempts, due : {"never", "later", "now"},
                             lease : {"none", "held", "over"}]]
    /\ lastDelivery \in Delivery \cup {0}
    /\ edits \subseteq [endpoint : Endpoint, was : BOOLEAN, active : BOOLEAN]
    /\ sends \subseteq [by : Replica, kind : {"worker", "ping", "resend"}, d : Delivery,
                        attempts : 0 .. MaxAttempts - 1, original : Delivery \cup {NoDelivery},
                        phase : {"claimed", "gone", "ready", "ok", "failed", "reset", "count", "cancel"}]
    /\ worker \in [Replica -> {"idle", "claim", "batch", "full"}]
    /\ rerun \in [Replica -> BOOLEAN]
    /\ posts \in [Delivery -> Nat]
    /\ mishaps \in 0 .. MaxMishaps

(* Every delivery lives as WebhookQueue says: sent only while it is open, by one
   sender at a time, and settled for good. *)
Promise == INSTANCE WebhookQueue WITH
    life <- [d \in Delivery |-> IF ~Queued(d) THEN "absent" ELSE IF Settled(d) THEN "settled" ELSE "open"],
    senders <- [d \in Delivery |-> Cardinality(SendsOf(d))]
ImplementsQueue == Promise!Spec

(* Overlapping drains fold into one (delivery.ts:380): a replica never sends more
   than a batch at a time. *)
OneBatchPerReplica == \A r \in Replica : Cardinality(WorkerSends(r)) <= Batch

(* Six attempts (docs/event-backbone.md:263-265), and one more only where a crash or
   an error kept an attempt from being written down. *)
AttemptsBounded == \A d \in Delivery : posts[d] <= MaxAttempts + mishaps

(* What a receiver and a replica have to bear is bounded, whatever starts drains, crashes
   or is sent by hand. *)
SendsBounded == TypeOK /\ OneBatchPerReplica /\ AttemptsBounded

Carries(d, e, ep) == Queued(d) /\ row[d].event = e /\ row[d].endpoint = ep

(* A delivery has its endpoint; one of an event on record is to an endpoint that the
   event's statement saw, for an archived event is forgotten by its deliveries. *)
Anchored ==
    \A d \in Delivery : Queued(d) =>
        /\ Exists(row[d].endpoint)
        /\ row[d].event # NoEvent =>
              /\ row[d].event \in logged
              /\ \E p \in fanned : p.event = row[d].event /\ row[d].endpoint \in p.to

(* While an event is on record, each endpoint its statement saw is gone, still has the
   delivery made for it, or was sent the event at least once by that delivery. *)
NoneLost ==
    \A p \in fanned : p.event \in logged =>
        \A ep \in p.to : Exists(ep) =>
            \E d \in Delivery : p.made[d] = ep /\ (posts[d] > 0 \/ Carries(d, p.event, ep))

(* An event is never logged without its deliveries or the other way round
   (bus.ts:154-156), whatever is deleted while its statement waits for the chain lock;
   and none is lost afterwards, to a dead worker, a lapsed lease, a cancelled retry or
   pruning, before it was sent once. *)
NoOrphans == Anchored /\ NoneLost

(* After so many failures in a row an endpoint is switched off, and stays so until
   switched back on, which resets its count (docs/event-backbone.md:268-272). *)
ActiveMeansUnderLimit == \A ep \in Active : endpoint[ep].failures < DisableAfter

(* What is sent is bounded, and an endpoint that only fails is sent no more: the two go
   together, for each drain counts on the switch of the other replicas' drains. *)
SendingSound == SendsBounded /\ ActiveMeansUnderLimit

(* Whatever crashes, a queued delivery is settled in the end, unless its endpoint
   is off or goes. *)
DeliveriesSettle ==
    \A d \in Delivery :
        Queued(d) /\ ~Settled(d) /\ row[d].due # "never"
          ~> Settled(d) \/ ~Queued(d) \/ row[d].endpoint \notin Active

=============================================================================
