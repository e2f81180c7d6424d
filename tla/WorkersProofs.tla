---------------------------- MODULE WorkersProofs ----------------------------
(***************************************************************************)
(* Proofs about the workers of MCWorkers: the one that delivers webhooks   *)
(* and the one that reads teardown guides from their videos.               *)
(*                                                                         *)
(* What goes wrong with a delivery goes wrong between its row, the send of *)
(* it under way and the requests its receiver got, so the inductive        *)
(* invariant of WebhookDelivery is about these three, one delivery at a    *)
(* time; and what a step of the worker does to a delivery is a step of     *)
(* WebhookQueue.                                                           *)
(*                                                                         *)
(* That no event on record goes without its deliveries needs more of the   *)
(* past: that a statement under way has an event and ids of its own, and   *)
(* that a settled row was sent or has lost its event to an archive (NoLoss). *)
(*                                                                         *)
(* A guide is shared by the job that holds the row's token, jobs that lost *)
(* it and have not noticed, and people.  The invariant of TeardownJobs     *)
(* keeps what the holder has heard ahead of the row, and the audio paid    *)
(* for in the row, thrown away by a person, or the piece a start was at.   *)
(***************************************************************************)
EXTENDS WebhookDelivery, TeardownJobs, TLAPS, FiniteSetTheorems, FunctionTheorems

Hand == {"claimed", "gone", "ready", "ok", "failed"}

EndpointRow == [state : {"new", "active", "off", "deleted"}, failures : Nat]
Row == [status : {"absent", "pending", "succeeded", "failed", "dead"},
        endpoint : Endpoint \cup {NoEndpoint}, event : Event \cup {NoEvent},
        attempts : 0 .. MaxAttempts, due : {"never", "later", "now"},
        lease : {"none", "held", "over"}]
Publishing == [event : Event, to : SUBSET Endpoint]
Statement == [event : Event, to : SUBSET Endpoint, made : [Delivery -> Endpoint \cup {NoEndpoint}]]
EditCall == [endpoint : Endpoint, was : BOOLEAN, active : BOOLEAN]
Send == [by : Replica, kind : {"worker", "ping", "resend"}, d : Delivery,
         attempts : 0 .. MaxAttempts - 1, original : Delivery \cup {NoDelivery},
         phase : {"claimed", "gone", "ready", "ok", "failed", "reset", "count", "cancel"}]

LEMMA Types ==
    TypeOK <=> /\ endpoint \in [Endpoint -> EndpointRow]
               /\ logged \subseteq Event /\ lastEvent \in Event \cup {0}
               /\ publishing \subseteq Publishing
               /\ fanned \subseteq Statement
               /\ row \in [Delivery -> Row]
               /\ lastDelivery \in Delivery \cup {0}
               /\ edits \subseteq EditCall
               /\ sends \subseteq Send
               /\ worker \in [Replica -> {"idle", "claim", "batch", "full"}]
               /\ rerun \in [Replica -> BOOLEAN]
               /\ posts \in [Delivery -> Nat]
               /\ mishaps \in 0 .. MaxMishaps
  BY DEF TypeOK, EndpointRow, Publishing, Statement, Row, EditCall, Send

LEMMA TypesNext ==
    TypeOK' <=> /\ endpoint' \in [Endpoint -> EndpointRow]
                /\ logged' \subseteq Event /\ lastEvent' \in Event \cup {0}
                /\ publishing' \subseteq Publishing
                /\ fanned' \subseteq Statement
                /\ row' \in [Delivery -> Row]
                /\ lastDelivery' \in Delivery \cup {0}
                /\ edits' \subseteq EditCall
                /\ sends' \subseteq Send
                /\ worker' \in [Replica -> {"idle", "claim", "batch", "full"}]
                /\ rerun' \in [Replica -> BOOLEAN]
                /\ posts' \in [Delivery -> Nat]
                /\ mishaps' \in 0 .. MaxMishaps
  BY DEF TypeOK, EndpointRow, Publishing, Statement, Row, EditCall, Send

(* A retry that is due or will be is one the schedule has; a queued delivery has an
   endpoint; an endpoint not yet made has no failures. *)
Scheduled(w) == w.due # "never" => w.attempts < MaxAttempts
Addressed(w) == w.status # "absent" => w.endpoint \in Endpoint

Tidy ==
    /\ \A d \in Delivery : Scheduled(row[d]) /\ Addressed(row[d])
    /\ \A ep \in Endpoint : endpoint[ep].state = "new" => endpoint[ep].failures = 0

-----------------------------------------------------------------------------
(* Records *)

LEMMA NoRowIsRow == NoRow \in Row /\ Scheduled(NoRow) /\ Addressed(NoRow)
  BY BoundsAssumption DEF NoRow, Row, Scheduled, Addressed, NoEvent

LEMMA NewRowIsRow ==
    ASSUME NEW ep \in Endpoint, NEW e \in Event \cup {NoEvent}
    PROVE  /\ NewRow(ep, e) \in Row /\ Scheduled(NewRow(ep, e)) /\ Addressed(NewRow(ep, e))
           /\ NewRow(ep, e).status = "pending" /\ NewRow(ep, e).attempts = 0
           /\ NewRow(ep, e).due = "now" /\ NewRow(ep, e).lease = "none"
           /\ NewRow(ep, e).endpoint = ep /\ NewRow(ep, e).event = e
  <1>1. NoRow \in Row /\ NoRow.attempts = 0 /\ NoRow.lease = "none"
    BY NoRowIsRow DEF NoRow
  <1>2. /\ NewRow(ep, e).status = "pending" /\ NewRow(ep, e).attempts = 0
        /\ NewRow(ep, e).due = "now" /\ NewRow(ep, e).lease = "none"
        /\ NewRow(ep, e).endpoint = ep /\ NewRow(ep, e).event = e
        /\ NewRow(ep, e) \in Row
    <2> HIDE DEF NoRow
    <2> QED
      BY <1>1 DEF NewRow, Row
  <1> QED
    BY <1>2, BoundsAssumption DEF Scheduled, Addressed

LEMMA SendingIsSend ==
    ASSUME NEW r \in Replica, NEW kind \in {"worker", "ping", "resend"}, NEW d \in Delivery,
           NEW a \in 0 .. MaxAttempts - 1, NEW original \in Delivery \cup {NoDelivery},
           NEW phase \in Hand
    PROVE  /\ Sending(r, kind, d, a, original, phase) \in Send
           /\ Sending(r, kind, d, a, original, phase).by = r
           /\ Sending(r, kind, d, a, original, phase).kind = kind
           /\ Sending(r, kind, d, a, original, phase).d = d
           /\ Sending(r, kind, d, a, original, phase).attempts = a
           /\ Sending(r, kind, d, a, original, phase).phase = phase
  BY DEF Sending, Send, Hand

LEMMA MovedIsSend ==
    ASSUME NEW s \in Send,
           NEW phase \in {"claimed", "gone", "ready", "ok", "failed", "reset", "count", "cancel"}
    PROVE  /\ [s EXCEPT !.phase = phase] \in Send
           /\ [s EXCEPT !.phase = phase].by = s.by
           /\ [s EXCEPT !.phase = phase].kind = s.kind
           /\ [s EXCEPT !.phase = phase].d = s.d
           /\ [s EXCEPT !.phase = phase].attempts = s.attempts
           /\ [s EXCEPT !.phase = phase].phase = phase
  BY DEF Send

LEMMA Moved ==
    ASSUME NEW s \in Send,
           NEW phase \in {"claimed", "gone", "ready", "ok", "failed", "reset", "count", "cancel"},
           NEW t, t = [s EXCEPT !.phase = phase]
    PROVE  /\ t \in Send
           /\ t.by = s.by /\ t.kind = s.kind /\ t.d = s.d /\ t.attempts = s.attempts
           /\ t.phase = phase
  BY DEF Send

LEMMA OutcomeIsRow ==
    ASSUME TypeOK, NEW s \in Send, NEW ok \in BOOLEAN
    PROVE  /\ Outcome(s, ok) \in Row /\ Scheduled(Outcome(s, ok))
           /\ Outcome(s, ok).status \in {"succeeded", "failed", "dead"}
           /\ Outcome(s, ok).attempts = s.attempts + 1
           /\ Outcome(s, ok).endpoint = row[s.d].endpoint
           /\ Outcome(s, ok).event = row[s.d].event
           /\ Outcome(s, ok).lease = "none"
  <1>1. row[s.d] \in Row /\ s.attempts + 1 \in 0 .. MaxAttempts
    BY Types, BoundsAssumption DEF Send
  <1>2. RetryLeft(s.attempts + 1) => s.attempts + 1 < MaxAttempts
    BY DEF RetryLeft
  <1> QED
    BY <1>1, <1>2 DEF Outcome, Row, Scheduled

LEMMA Published ==
    ASSUME TypeOK, NEW active \in SUBSET Endpoint, StartPublish(active)
    PROVE  /\ lastEvent' \in Event \cup {0} /\ logged' = logged
           /\ publishing' \subseteq Publishing /\ fanned' = fanned
  <1>1. lastEvent + 1 \in Event /\ lastEvent' = lastEvent + 1
    BY BoundsAssumption DEF TypeOK, StartPublish, Event
  <1>2. PICK to \in SUBSET active :
          publishing' = publishing \cup {[event |-> lastEvent + 1, to |-> to]}
    BY DEF StartPublish
  <1>3. [event |-> lastEvent + 1, to |-> to] \in Publishing
    BY <1>1, <1>2 DEF Publishing
  <1> QED
    BY <1>1, <1>2, <1>3, Types DEF StartPublish

-----------------------------------------------------------------------------
(* Every step keeps the types and Tidy. *)

LEMMA InitTidy == Init => TypeOK /\ Tidy
  <1> SUFFICES ASSUME Init PROVE TypeOK /\ Tidy
    OBVIOUS
  <1>1. endpoint \in [Endpoint -> EndpointRow] /\ \A ep \in Endpoint : endpoint[ep].failures = 0
    BY DEF Init, EndpointRow
  <1>2. row \in [Delivery -> Row] /\ \A d \in Delivery : Scheduled(row[d]) /\ Addressed(row[d])
    BY NoRowIsRow DEF Init
  <1>3. mishaps \in 0 .. MaxMishaps
    BY BoundsAssumption DEF Init
  <1> QED
    BY <1>1, <1>2, <1>3, Types DEF Init, Tidy

LEMMA PublishTidy ==
    ASSUME TypeOK, Tidy, Publish
    PROVE  TypeOK' /\ Tidy'
  <1>1. Active \in SUBSET Endpoint
    BY DEF Active
  <1> QED
    BY <1>1, Published, Types, TypesNext DEF Publish, queue, workers, Tidy

LEMMA InsertTidy ==
    ASSUME TypeOK, Tidy, NEW p \in publishing, Insert(p)
    PROVE  TypeOK' /\ Tidy'
  <1>1. p \in Publishing /\ p.event \in Event /\ p.to \subseteq Endpoint
    BY Types DEF Publishing
  <1>2. CASE ~ForeignKeysHold(p)
    BY <1>2, Types, TypesNext DEF Insert, queue, workers, Tidy
  <1>3. CASE ForeignKeysHold(p)
    <2> DEFINE n == Cardinality(p.to)
               ids == lastDelivery + 1 .. lastDelivery + n
    <2>1. n \in Nat /\ lastDelivery \in Nat
      <3>1. IsFiniteSet(p.to)
        BY <1>1, BoundsAssumption, FS_Subset
      <3> QED
        BY <3>1, FS_CardinalityType, Types DEF Delivery
    <2>2. /\ ids \subseteq Delivery /\ lastDelivery' = lastDelivery + n
          /\ logged' = logged \cup {p.event}
          /\ \E order \in [ids -> p.to] : FanOut(p.event, p.to, order)
      BY <1>3 DEF Insert
    <2>3. lastDelivery' \in Delivery \cup {0}
      <3>1. CASE n = 0
        BY <2>1, <2>2, <3>1, Types
      <3>2. CASE n # 0
        <4>1. lastDelivery + n \in ids
          BY <2>1, <3>2
        <4> QED
          BY <2>2, <4>1
      <3> QED
        BY <3>1, <3>2
    <2>4. PICK order \in [ids -> p.to] : FanOut(p.event, p.to, order)
      BY <2>2
    <2>11. \E o \in [ids -> p.to] : fanned' = fanned \cup {Fanned(p, o)}
      BY <1>3 DEF Insert
    <2> HIDE DEF ids
    <2>5. ASSUME NEW d \in Delivery
          PROVE  row'[d] \in Row /\ Scheduled(row'[d]) /\ Addressed(row'[d])
      <3>1. CASE d \in ids
        <4>1. order[d] \in Endpoint /\ row'[d] = NewRow(order[d], p.event)
          BY <1>1, <2>4, <3>1 DEF FanOut
        <4> QED
          BY <1>1, <4>1, NewRowIsRow
      <3>2. CASE d \notin ids
        <4>1. row'[d] = row[d]
          BY <2>4, <3>2 DEF FanOut
        <4> QED
          BY <4>1, Types DEF Tidy
      <3> QED
        BY <3>1, <3>2
    <2>6. row' \in [Delivery -> Row]
      <3>1. row' = [d \in Delivery |-> row'[d]]
        BY <2>4 DEF FanOut
      <3> QED
        BY <2>5, <3>1
    <2>7. publishing' \subseteq Publishing /\ logged' \subseteq Event
      BY <1>1, <2>2, Types DEF Insert
    <2>9. fanned' \subseteq Statement
      <3>1. PICK o \in [ids -> p.to] : fanned' = fanned \cup {Fanned(p, o)}
        BY <1>3, <2>11
      <3>2. [d \in Delivery |-> IF d \in DOMAIN o THEN o[d] ELSE NoEndpoint]
               \in [Delivery -> Endpoint \cup {NoEndpoint}]
        BY <1>1, <3>1
      <3>3. Fanned(p, o) \in Statement
        BY <1>1, <3>2 DEF Fanned, Statement
      <3> QED
        BY <3>1, <3>3, Types
    <2>8. UNCHANGED <<endpoint, lastEvent, edits, sends, workers, posts, mishaps>>
      BY DEF Insert
    <2> QED
      BY <2>3, <2>5, <2>6, <2>7, <2>8, <2>9, Types, TypesNext DEF workers, Tidy
  <1> QED
    BY <1>2, <1>3

LEMMA ArchiveTidy ==
    ASSUME TypeOK, Tidy, NEW e \in logged, ArchiveEvent(e)
    PROVE  TypeOK' /\ Tidy'
  <1>1. \A w \in Row : /\ [w EXCEPT !.event = NoEvent] \in Row
                       /\ Scheduled(w) => Scheduled([w EXCEPT !.event = NoEvent])
                       /\ Addressed(w) => Addressed([w EXCEPT !.event = NoEvent])
    BY DEF Row, Scheduled, Addressed
  <1>2. row \in [Delivery -> Row]
    BY Types
  <1>3. row' \in [Delivery -> Row] /\ \A d \in Delivery : Scheduled(row'[d]) /\ Addressed(row'[d])
    BY <1>1, <1>2 DEF ArchiveEvent, Tidy
  <1> QED
    BY <1>3, Types, TypesNext DEF ArchiveEvent, workers, Tidy

(* The rows after a step that gives one of them another value. *)
LEMMA OneRowTidy ==
    ASSUME TypeOK, Tidy, NEW d, NEW w, row' = [row EXCEPT ![d] = w],
           d \in Delivery => w \in Row /\ Scheduled(w) /\ Addressed(w)
    PROVE  /\ row' \in [Delivery -> Row]
           /\ \A c \in Delivery : Scheduled(row'[c]) /\ Addressed(row'[c])
  <1>1. row \in [Delivery -> Row]
    BY Types
  <1> QED
    BY <1>1 DEF Tidy

LEMMA DrainTidy ==
    ASSUME TypeOK, Tidy, NEW r \in Replica, Drain(r)
    PROVE  TypeOK' /\ Tidy'
  BY Types, TypesNext DEF Drain, bus, queue, Tidy

LEMMA ClaimTidy ==
    ASSUME TypeOK, Tidy, NEW r \in Replica, Claim(r)
    PROVE  TypeOK' /\ Tidy'
  <1> DEFINE due == {d \in Delivery : Due(d)}
  <1>1. CASE due = {}
    <2>1. /\ worker' = [worker EXCEPT ![r] = IF rerun[r] THEN "claim" ELSE "idle"]
          /\ rerun' = [rerun EXCEPT ![r] = FALSE]
          /\ UNCHANGED <<row, sends>>
          /\ UNCHANGED <<endpoint, bus, lastDelivery, edits, posts, mishaps>>
      BY <1>1 DEF Claim
    <2> QED
      BY <2>1, Types, TypesNext DEF bus, Tidy
  <1>2. CASE due # {}
    <2>1. PICK claimed \in SUBSET due :
            /\ row' = [d \in Delivery |-> IF d \in claimed THEN [row[d] EXCEPT !.lease = "held"]
                                          ELSE row[d]]
            /\ sends' = sends \cup
                 {Sending(r, "worker", d, row[d].attempts, NoDelivery, "claimed") : d \in claimed}
            /\ worker' = [worker EXCEPT ![r] = IF Cardinality(claimed) = Batch THEN "full" ELSE "batch"]
            /\ UNCHANGED rerun
      BY <1>2 DEF Claim
    <2>2. UNCHANGED <<endpoint, bus, lastDelivery, edits, posts, mishaps>>
      BY DEF Claim
    <2>3. \A w \in Row : /\ [w EXCEPT !.lease = "held"] \in Row
                         /\ Scheduled(w) => Scheduled([w EXCEPT !.lease = "held"])
                         /\ Addressed(w) => Addressed([w EXCEPT !.lease = "held"])
      BY DEF Row, Scheduled, Addressed
    <2>4. row \in [Delivery -> Row]
      BY Types
    <2>5. row' \in [Delivery -> Row] /\ \A d \in Delivery : Scheduled(row'[d]) /\ Addressed(row'[d])
      BY <2>1, <2>3, <2>4 DEF Tidy
    <2>6. ASSUME NEW d \in claimed
          PROVE  Sending(r, "worker", d, row[d].attempts, NoDelivery, "claimed") \in Send
      <3>1. d \in Delivery /\ row[d].due = "now" /\ row[d] \in Row /\ Scheduled(row[d])
        BY <2>1, <2>4 DEF Due, Tidy
      <3>2. row[d].attempts \in 0 .. MaxAttempts - 1
        BY <3>1, BoundsAssumption DEF Row, Scheduled
      <3> QED
        BY <3>1, <3>2, SendingIsSend DEF Hand
    <2>7. sends' \subseteq Send
      BY <2>1, <2>6, Types
    <2> QED
      BY <2>1, <2>2, <2>5, <2>7, Types, TypesNext DEF bus, Tidy
  <1> QED
    BY <1>1, <1>2

ClaimedBy(r) == {s \in WorkerSends(r) : s.phase = "claimed"}
Loaded(s) == [s EXCEPT !.phase = IF Queued(s.d) /\ row[s.d].event # NoEvent THEN "ready" ELSE "gone"]

LEMMA LoadSends ==
    ASSUME TypeOK, NEW r \in Replica, Load(r)
    PROVE  /\ sends' = (sends \ ClaimedBy(r)) \cup {Loaded(s) : s \in ClaimedBy(r)}
           /\ \A s \in ClaimedBy(r) :
                /\ s \in sends /\ s \in Send /\ s.by = r /\ s.kind = "worker" /\ s.phase = "claimed"
                /\ Loaded(s) \in Send /\ Loaded(s).by = r /\ Loaded(s).kind = "worker"
                /\ Loaded(s).d = s.d /\ Loaded(s).attempts = s.attempts
                /\ Loaded(s).phase \in {"ready", "gone"}
  <1>1. sends' = (sends \ ClaimedBy(r)) \cup {Loaded(s) : s \in ClaimedBy(r)}
    BY DEF Load, ClaimedBy, Loaded
  <1>2. ASSUME NEW s \in ClaimedBy(r)
        PROVE  /\ s \in sends /\ s \in Send /\ s.by = r /\ s.kind = "worker" /\ s.phase = "claimed"
               /\ Loaded(s) \in Send /\ Loaded(s).by = r /\ Loaded(s).kind = "worker"
               /\ Loaded(s).d = s.d /\ Loaded(s).attempts = s.attempts
               /\ Loaded(s).phase \in {"ready", "gone"}
    <2>1. s \in sends /\ s \in Send /\ s.by = r /\ s.kind = "worker" /\ s.phase = "claimed"
      BY Types DEF ClaimedBy, WorkerSends
    <2>2. CASE Loaded(s) = [s EXCEPT !.phase = "ready"]
      <3> DEFINE t == [s EXCEPT !.phase = "ready"]
      <3>1. /\ t \in Send /\ t.by = s.by /\ t.kind = s.kind
            /\ t.d = s.d /\ t.attempts = s.attempts /\ t.phase = "ready"
        BY <2>1, MovedIsSend
      <3>2. Loaded(s) = t
        BY <2>2
      <3> HIDE DEF t
      <3> QED
        BY <2>1, <3>1, <3>2
    <2>3. CASE Loaded(s) = [s EXCEPT !.phase = "gone"]
      <3> DEFINE t == [s EXCEPT !.phase = "gone"]
      <3>1. /\ t \in Send /\ t.by = s.by /\ t.kind = s.kind
            /\ t.d = s.d /\ t.attempts = s.attempts /\ t.phase = "gone"
        BY <2>1, MovedIsSend
      <3>2. Loaded(s) = t
        BY <2>3
      <3> HIDE DEF t
      <3> QED
        BY <2>1, <3>1, <3>2
    <2>4. Loaded(s) = [s EXCEPT !.phase = "ready"] \/ Loaded(s) = [s EXCEPT !.phase = "gone"]
      BY DEF Loaded
    <2> QED
      BY <2>2, <2>3, <2>4
  <1> QED
    BY <1>1, <1>2

LEMMA LoadTidy ==
    ASSUME TypeOK, Tidy, NEW r \in Replica, Load(r)
    PROVE  TypeOK' /\ Tidy'
  <1>1. sends' \subseteq Send
    BY LoadSends, Types
  <1> QED
    BY <1>1, Types, TypesNext DEF Load, bus, queue, workers, Tidy

LEMMA BatchDoneTidy ==
    ASSUME TypeOK, Tidy, NEW r \in Replica, BatchDone(r)
    PROVE  TypeOK' /\ Tidy'
  BY Types, TypesNext DEF BatchDone, bus, queue, Tidy

LEMMA MarkDeadTidy ==
    ASSUME TypeOK, Tidy, NEW s \in sends, MarkDead(s)
    PROVE  TypeOK' /\ Tidy'
  <1> DEFINE w == IF Queued(s.d) THEN [row[s.d] EXCEPT !.status = "dead", !.due = "never", !.lease = "none"]
                  ELSE row[s.d]
  <1>1. s \in Send /\ s.d \in Delivery /\ row[s.d] \in Row /\ row \in [Delivery -> Row]
    BY Types DEF Send
  <1>2. w \in Row /\ Scheduled(w) /\ Addressed(w)
    BY <1>1 DEF Row, Scheduled, Addressed, Tidy, Queued
  <1>3. row' = [row EXCEPT ![s.d] = w]
    BY <1>1 DEF MarkDead
  <1> HIDE DEF w
  <1>4. row' \in [Delivery -> Row] /\ \A d \in Delivery : Scheduled(row'[d]) /\ Addressed(row'[d])
    BY <1>2, <1>3, OneRowTidy
  <1> QED
    BY <1>4, Types, TypesNext DEF MarkDead, Ends, bus, workers, Tidy

LEMMA MovesTyped ==
    ASSUME TypeOK, NEW s \in sends, NEW phase, Moves(s, phase),
           phase \in {"claimed", "gone", "ready", "ok", "failed", "reset", "count", "cancel"}
    PROVE  sends' \subseteq Send
  <1>1. s \in Send /\ sends \subseteq Send
    BY Types
  <1>2. [s EXCEPT !.phase = phase] \in Send
    BY <1>1, MovedIsSend
  <1> QED
    BY <1>1, <1>2 DEF Moves

LEMMA PostTidy ==
    ASSUME TypeOK, Tidy, NEW s \in sends, Post(s)
    PROVE  TypeOK' /\ Tidy'
  <1>1. sends' \subseteq Send
    BY MovesTyped DEF Post
  <1>2. s \in Send /\ s.d \in Delivery
    BY Types DEF Send
  <1>3. posts' \in [Delivery -> Nat]
    BY <1>2, Types DEF Post
  <1> QED
    BY <1>1, <1>3, Types, TypesNext DEF Post, bus, queue, workers, Tidy

LEMMA RecordTidy ==
    ASSUME TypeOK, Tidy, NEW s \in sends, Record(s)
    PROVE  TypeOK' /\ Tidy'
  <1> DEFINE w == IF Queued(s.d) THEN Outcome(s, s.phase = "ok") ELSE row[s.d]
  <1>1. s \in Send /\ s.d \in Delivery /\ row[s.d] \in Row
    BY Types DEF Send
  <1>2. w \in Row /\ Scheduled(w) /\ Addressed(w)
    BY <1>1, OutcomeIsRow DEF Addressed, Tidy, Queued
  <1>3. row' = [row EXCEPT ![s.d] = w]
    BY <1>1, Types DEF Record
  <1> HIDE DEF w
  <1>4. row' \in [Delivery -> Row] /\ \A d \in Delivery : Scheduled(row'[d]) /\ Addressed(row'[d])
    BY <1>2, <1>3, OneRowTidy
  <1>5. sends' \subseteq Send
    BY MovesTyped DEF Record
  <1> QED
    BY <1>4, <1>5, Types, TypesNext DEF Record, bus, workers, Tidy

LEMMA ResetTidy ==
    ASSUME TypeOK, Tidy, NEW s \in sends, Reset(s)
    PROVE  TypeOK' /\ Tidy'
  <1>1. sends' \subseteq Send
    BY MovesTyped, Types DEF Reset, Ends
  <1>2. endpoint' \in [Endpoint -> EndpointRow]
        /\ \A ep \in Endpoint : endpoint'[ep].state = "new" => endpoint'[ep].failures = 0
    BY Types DEF Reset, EndpointRow, Tidy
  <1> QED
    BY <1>1, <1>2, Types, TypesNext DEF Reset, bus, queue, workers, Tidy

(* The endpoints after a step that changes one of them. *)
LEMMA OneEndpointTidy ==
    ASSUME TypeOK, Tidy, NEW ep \in Endpoint, NEW x \in EndpointRow,
           endpoint' = [endpoint EXCEPT ![ep] = x], x.state = "new" => x.failures = 0
    PROVE  /\ endpoint' \in [Endpoint -> EndpointRow]
           /\ \A a \in Endpoint : endpoint'[a].state = "new" => endpoint'[a].failures = 0
  <1>1. endpoint \in [Endpoint -> EndpointRow]
    BY Types
  <1> QED
    BY <1>1 DEF Tidy
LEMMA CountTidy ==
    ASSUME TypeOK, Tidy, Anchored, NEW s \in sends, Count(s)
    PROVE  TypeOK' /\ Tidy'
  <1> DEFINE ep == row[s.d].endpoint
             failures == endpoint[ep].failures + 1
             off == SwitchesOff(ep, failures)
             x == [endpoint[ep] EXCEPT !.failures = failures,
                                       !.state = IF off THEN "off" ELSE endpoint[ep].state]
  <1>1. s.d \in Delivery /\ sends' \subseteq Send
    BY Types DEF Send, Count, Ends
  <1>2. CASE ~Queued(s.d)
    BY <1>1, <1>2, Types, TypesNext DEF Count, bus, queue, workers, Tidy
  <1>3. CASE Queued(s.d)
    <2>1. ep \in Endpoint /\ endpoint[ep] \in EndpointRow
      BY <1>1, <1>3, Types DEF Tidy, Addressed, Queued
    <2>2. /\ endpoint' = [endpoint EXCEPT ![ep].failures = failures,
                                          ![ep].state = IF off THEN "off" ELSE @]
          /\ IF off /\ lastEvent < MaxEvent THEN StartPublish(Active \ {ep}) ELSE UNCHANGED bus
      BY <1>3 DEF Count
    <2>3. x \in EndpointRow /\ x.state # "new"
      <3>1. endpoint[ep].state # "new"
        BY <1>1, <1>3 DEF Anchored, Exists
      <3>2. failures \in Nat
        BY <2>1 DEF EndpointRow
      <3> HIDE DEF failures, ep
      <3> QED
        BY <2>1, <3>1, <3>2 DEF EndpointRow
    <2>4. /\ endpoint' \in [Endpoint -> EndpointRow]
          /\ \A a \in Endpoint : endpoint'[a].state = "new" => endpoint'[a].failures = 0
      <3>1. endpoint' = [endpoint EXCEPT ![ep] = x]
        BY <2>1, <2>2, Types
      <3> HIDE DEF x
      <3> QED
        BY <2>1, <2>3, <3>1, OneEndpointTidy
    <2>5. /\ lastEvent' \in Event \cup {0} /\ logged' \subseteq Event
          /\ publishing' \subseteq Publishing /\ fanned' = fanned
      <3>1. Active \ {ep} \in SUBSET Endpoint
        BY DEF Active
      <3> QED
        BY <2>2, <3>1, Published, Types DEF bus
    <2> QED
      BY <1>1, <2>4, <2>5, Types, TypesNext DEF Count, queue, workers, Tidy
  <1> QED
    BY <1>2, <1>3
LEMMA SendNowTidy ==
    ASSUME TypeOK, Tidy, NEW r \in Replica, NEW kind \in {"ping", "resend"}, NEW new \in Row,
           NEW original \in Delivery \cup {NoDelivery}, SendNow(r, kind, new, original),
           Scheduled(new), Addressed(new)
    PROVE  TypeOK' /\ Tidy'
  <1> DEFINE w == [new EXCEPT !.lease = "held"]
             d == lastDelivery + 1
  <1>1. d \in Delivery
    <2>1. lastDelivery \in Nat /\ lastDelivery < MaxDelivery
      BY Types, BoundsAssumption DEF SendNow, Delivery, NoDelivery
    <2>2. lastDelivery + 1 \in Delivery
      BY <2>1, BoundsAssumption DEF Delivery
    <2> QED
      BY <2>2 DEF SendNow
  <1>2. w \in Row /\ Scheduled(w) /\ Addressed(w)
    BY DEF Row, Scheduled, Addressed
  <1>3. row' = [row EXCEPT ![d] = w] /\ sends' = sends \cup {Sending(r, kind, d, 0, original, "ready")}
    BY DEF SendNow
  <1>4. Sending(r, kind, d, 0, original, "ready") \in Send
    <2>1. 0 \in 0 .. MaxAttempts - 1
      BY BoundsAssumption
    <2> HIDE DEF d
    <2> QED
      BY <1>1, <2>1, SendingIsSend DEF Hand
  <1>5. lastDelivery' \in Delivery
    BY <1>1 DEF SendNow
  <1> HIDE DEF w, d
  <1>6. row' \in [Delivery -> Row] /\ \A c \in Delivery : Scheduled(row'[c]) /\ Addressed(row'[c])
    BY <1>2, <1>3, OneRowTidy
  <1>7. sends' \subseteq Send
    BY <1>3, <1>4, Types
  <1> QED
    BY <1>5, <1>6, <1>7, Types, TypesNext DEF SendNow, bus, workers, Tidy

LEMMA PingTidy ==
    ASSUME TypeOK, Tidy, NEW r \in Replica, NEW ep \in Endpoint, Ping(r, ep)
    PROVE  TypeOK' /\ Tidy'
  <1> DEFINE new == [NewRow(ep, NoEvent) EXCEPT !.due = "never"]
  <1>1. new \in Row /\ Scheduled(new) /\ Addressed(new)
    <2>1. NewRow(ep, NoEvent) \in Row /\ Addressed(NewRow(ep, NoEvent))
      BY NewRowIsRow
    <2> QED
      BY <2>1 DEF Row, Scheduled, Addressed
  <1>2. SendNow(r, "ping", new, NoDelivery)
    BY DEF Ping
  <1> HIDE DEF new
  <1> QED
    BY <1>1, <1>2, SendNowTidy

LEMMA ResendTidy ==
    ASSUME TypeOK, Tidy, NEW r \in Replica, NEW d \in Delivery, Resend(r, d)
    PROVE  TypeOK' /\ Tidy'
  <1> DEFINE new == NewRow(row[d].endpoint, row[d].event)
  <1>1. row[d].endpoint \in Endpoint /\ row[d].event \in Event \cup {NoEvent}
    BY Types DEF Resend, Queued, Tidy, Addressed, Row
  <1>2. new \in Row /\ Scheduled(new) /\ Addressed(new)
    BY <1>1, NewRowIsRow
  <1>3. SendNow(r, "resend", new, d)
    BY DEF Resend
  <1> HIDE DEF new
  <1> QED
    BY <1>2, <1>3, SendNowTidy

LEMMA CancelTidy ==
    ASSUME TypeOK, Tidy, NEW s \in sends, CancelOriginal(s)
    PROVE  TypeOK' /\ Tidy'
  <1> DEFINE old == row[s.original]
             w == IF Cancellable(old) THEN [old EXCEPT !.due = "never"] ELSE old
  <1>1. row' = [row EXCEPT ![s.original] = w]
    BY DEF CancelOriginal
  <1>2. s.original \in Delivery => w \in Row /\ Scheduled(w) /\ Addressed(w)
    <2>1. s.original \in Delivery => old \in Row /\ Scheduled(old) /\ Addressed(old)
      BY Types DEF Tidy
    <2> HIDE DEF old
    <2> QED
      BY <2>1 DEF Row, Scheduled, Addressed
  <1> HIDE DEF w
  <1>3. row' \in [Delivery -> Row] /\ \A d \in Delivery : Scheduled(row'[d]) /\ Addressed(row'[d])
    BY <1>1, <1>2, OneRowTidy
  <1> QED
    BY <1>3, Types, TypesNext DEF CancelOriginal, Ends, bus, workers, Tidy

LEMMA CreateTidy ==
    ASSUME TypeOK, Tidy, NEW ep \in Endpoint, NEW state \in {"active", "off"}, Create(ep, state)
    PROVE  TypeOK' /\ Tidy'
  <1> DEFINE x == [endpoint[ep] EXCEPT !.state = state]
  <1>1. endpoint[ep] \in EndpointRow
    BY Types
  <1>2. x \in EndpointRow /\ x.state # "new"
    BY <1>1 DEF EndpointRow
  <1>3. endpoint' = [endpoint EXCEPT ![ep] = x]
    BY <1>1, Types DEF Create
  <1> HIDE DEF x
  <1>4. /\ endpoint' \in [Endpoint -> EndpointRow]
        /\ \A a \in Endpoint : endpoint'[a].state = "new" => endpoint'[a].failures = 0
    BY <1>2, <1>3, OneEndpointTidy
  <1>5. /\ lastEvent' \in Event \cup {0} /\ logged' = logged
        /\ publishing' \subseteq Publishing /\ fanned' = fanned
    <2>1. PICK active \in SUBSET Endpoint : StartPublish(active)
      BY DEF Create, Active
    <2> QED
      BY <2>1, Published
  <1> QED
    BY <1>4, <1>5, Types, TypesNext DEF Create, queue, workers, Tidy

LEMMA EditTidy ==
    ASSUME TypeOK, Tidy, NEW ep \in Endpoint, NEW active \in BOOLEAN, Edit(ep, active)
    PROVE  TypeOK' /\ Tidy'
  <1>1. [endpoint |-> ep, was |-> ep \in Active, active |-> active] \in EditCall
    BY DEF EditCall
  <1> QED
    BY <1>1, Types, TypesNext DEF Edit, bus, queue, workers, Tidy

LEMMA SaveEditTidy ==
    ASSUME TypeOK, Tidy, NEW e \in edits, SaveEdit(e)
    PROVE  TypeOK' /\ Tidy'
  <1> DEFINE ep == e.endpoint
             reenabled == e.active /\ ~e.was
             x == [endpoint[ep] EXCEPT !.state = IF e.active THEN "active" ELSE "off",
                                       !.failures = IF reenabled THEN 0 ELSE endpoint[ep].failures]
  <1>1. ep \in Endpoint /\ endpoint[ep] \in EndpointRow /\ edits' \subseteq EditCall
    BY Types DEF EditCall, SaveEdit
  <1>2. CASE ~Exists(ep)
    BY <1>1, <1>2, Types, TypesNext DEF SaveEdit, bus, queue, workers, Tidy
  <1>3. CASE Exists(ep)
    <2>1. /\ endpoint' = [endpoint EXCEPT ![ep].state = IF e.active THEN "active" ELSE "off",
                                          ![ep].failures = IF reenabled THEN 0 ELSE @]
          /\ StartPublish(IF e.active THEN Active \cup {ep} ELSE Active \ {ep})
      BY <1>3 DEF SaveEdit
    <2>2. x \in EndpointRow /\ x.state # "new"
      BY <1>1 DEF EndpointRow
    <2>3. endpoint' = [endpoint EXCEPT ![ep] = x]
      BY <1>1, <2>1, Types
    <2> HIDE DEF x
    <2>4. /\ endpoint' \in [Endpoint -> EndpointRow]
          /\ \A a \in Endpoint : endpoint'[a].state = "new" => endpoint'[a].failures = 0
      BY <1>1, <2>2, <2>3, OneEndpointTidy
    <2>5. /\ lastEvent' \in Event \cup {0} /\ logged' = logged
          /\ publishing' \subseteq Publishing /\ fanned' = fanned
      <3>1. PICK active \in SUBSET Endpoint : StartPublish(active)
        BY <1>1, <2>1 DEF Active
      <3> QED
        BY <3>1, Published
    <2> QED
      BY <1>1, <2>4, <2>5, Types, TypesNext DEF SaveEdit, queue, workers, Tidy
  <1> QED
    BY <1>2, <1>3

LEMMA DeleteTidy ==
    ASSUME TypeOK, Tidy, NEW ep \in Endpoint, Delete(ep)
    PROVE  TypeOK' /\ Tidy'
  <1> DEFINE x == [state |-> "deleted", failures |-> 0]
  <1>1. x \in EndpointRow /\ x.state # "new"
    BY DEF EndpointRow
  <1>2. endpoint' = [endpoint EXCEPT ![ep] = x]
    BY DEF Delete
  <1> HIDE DEF x
  <1>3. /\ endpoint' \in [Endpoint -> EndpointRow]
        /\ \A a \in Endpoint : endpoint'[a].state = "new" => endpoint'[a].failures = 0
    BY <1>1, <1>2, OneEndpointTidy
  <1>4. row \in [Delivery -> Row]
    BY Types
  <1>5. row' \in [Delivery -> Row] /\ \A d \in Delivery : Scheduled(row'[d]) /\ Addressed(row'[d])
    BY <1>4, NoRowIsRow DEF Delete, Tidy
  <1>6. /\ lastEvent' \in Event \cup {0} /\ logged' = logged
        /\ publishing' \subseteq Publishing /\ fanned' = fanned
    <2>1. PICK active \in SUBSET Endpoint : StartPublish(active)
      BY DEF Delete, Active
    <2> QED
      BY <2>1, Published
  <1> QED
    BY <1>3, <1>5, <1>6, Types, TypesNext DEF Delete, workers, Tidy

LEMMA TimeTidy ==
    ASSUME TypeOK, Tidy, NEW d \in Delivery, Prune(d) \/ RetryDue(d) \/ LeaseOver(d)
    PROVE  TypeOK' /\ Tidy'
  <1>1. row[d] \in Row /\ Scheduled(row[d]) /\ Addressed(row[d])
    BY Types DEF Tidy
  <1>2. PICK w \in Row : Scheduled(w) /\ Addressed(w) /\ row' = [row EXCEPT ![d] = w]
    <2>1. CASE Prune(d)
      BY <2>1, NoRowIsRow DEF Prune
    <2>2. CASE RetryDue(d)
      <3> DEFINE w == [row[d] EXCEPT !.due = "now"]
      <3>1. w \in Row /\ Scheduled(w) /\ Addressed(w)
        BY <1>1, <2>2 DEF RetryDue, Row, Scheduled, Addressed
      <3>2. row' = [row EXCEPT ![d] = w]
        BY <2>2, Types DEF RetryDue
      <3> QED
        BY <3>1, <3>2
    <2>3. CASE LeaseOver(d)
      <3> DEFINE w == [row[d] EXCEPT !.lease = "over"]
      <3>1. w \in Row /\ Scheduled(w) /\ Addressed(w)
        BY <1>1 DEF Row, Scheduled, Addressed
      <3>2. row' = [row EXCEPT ![d] = w]
        BY <2>3, Types DEF LeaseOver
      <3> QED
        BY <3>1, <3>2
    <2> QED
      BY <2>1, <2>2, <2>3
  <1>3. row' \in [Delivery -> Row] /\ \A c \in Delivery : Scheduled(row'[c]) /\ Addressed(row'[c])
    BY <1>2, OneRowTidy
  <1>4. UNCHANGED <<endpoint, bus, lastDelivery, edits, sends, workers, posts, mishaps>>
    BY DEF Prune, RetryDue, LeaseOver
  <1> QED
    BY <1>3, <1>4, Types, TypesNext DEF bus, workers, Tidy

LEMMA FailureTidy ==
    ASSUME TypeOK, Tidy,
           \/ \E r \in Replica : Crash(r) \/ BatchFails(r)
           \/ \E s \in sends : SendFails(s)
    PROVE  TypeOK' /\ Tidy'
  <1>1. ASSUME Mishap
        PROVE  mishaps' \in 0 .. MaxMishaps
    BY <1>1, BoundsAssumption DEF TypeOK, Mishap
  <1>2. ASSUME NEW r \in Replica, Crash(r)
        PROVE  TypeOK' /\ Tidy'
    BY <1>1, <1>2, Types, TypesNext DEF Crash, bus, queue, Tidy
  <1>3. ASSUME NEW r \in Replica, BatchFails(r)
        PROVE  TypeOK' /\ Tidy'
    BY <1>1, <1>3, Types, TypesNext DEF BatchFails, bus, queue, Tidy
  <1>4. ASSUME NEW s \in sends, SendFails(s)
        PROVE  TypeOK' /\ Tidy'
    BY <1>1, <1>4, Types, TypesNext DEF SendFails, Ends, bus, queue, workers, Tidy
  <1> QED
    BY <1>2, <1>3, <1>4

LEMMA TidyKept ==
    ASSUME TypeOK, Tidy, Anchored, [Next]_vars
    PROVE  TypeOK' /\ Tidy'
  <1>1. CASE Publish
    BY <1>1, PublishTidy
  <1>2. CASE \E p \in publishing : Insert(p)
    BY <1>2, InsertTidy
  <1>3. CASE \E e \in logged : ArchiveEvent(e)
    BY <1>3, ArchiveTidy
  <1>4. CASE \E r \in Replica : Drain(r) \/ Works(r) \/ Crash(r) \/ BatchFails(r)
    BY <1>4, DrainTidy, ClaimTidy, LoadTidy, BatchDoneTidy, FailureTidy DEF Works
  <1>5. CASE \E s \in sends : Steps(s) \/ SendFails(s)
    BY <1>5, MarkDeadTidy, PostTidy, RecordTidy, ResetTidy, CountTidy, CancelTidy, FailureTidy
       DEF Steps
  <1>6. CASE \E r \in Replica : (\E ep \in Endpoint : Ping(r, ep)) \/ \E d \in Delivery : Resend(r, d)
    BY <1>6, PingTidy, ResendTidy
  <1>7. CASE \E ep \in Endpoint : Administrate(ep)
    BY <1>7, CreateTidy, EditTidy, DeleteTidy DEF Administrate
  <1>8. CASE \E e \in edits : SaveEdit(e)
    BY <1>8, SaveEditTidy
  <1>9. CASE \E d \in Delivery : Prune(d) \/ RetryDue(d) \/ LeaseOver(d)
    BY <1>9, TimeTidy
  <1>10. CASE UNCHANGED vars
    BY <1>10, Types, TypesNext DEF vars, Tidy
  <1> QED
    BY <1>1, <1>2, <1>3, <1>4, <1>5, <1>6, <1>7, <1>8, <1>9, <1>10 DEF Next
-----------------------------------------------------------------------------
(* Nothing is orphaned. *)

(* Where a step leaves the rows their endpoints, and takes neither endpoints nor events. *)
LEMMA NothingTaken ==
    ASSUME TypeOK, Tidy, Anchored,
           \A d \in Delivery : row'[d].status # "absent" =>
               /\ Queued(d)
               /\ row'[d].endpoint = row[d].endpoint
               /\ row'[d].event \in {row[d].event, NoEvent},
           \A ep \in Endpoint : Exists(ep) => Exists(ep)',
           logged \subseteq logged', fanned \subseteq fanned'
    PROVE  Anchored'
  <1> SUFFICES ASSUME NEW d \in Delivery, row'[d].status # "absent"
               PROVE  /\ endpoint'[row'[d].endpoint].state \in {"active", "off"}
                      /\ row'[d].event # NoEvent =>
                           /\ row'[d].event \in logged'
                           /\ \E p \in fanned' : p.event = row'[d].event /\ row'[d].endpoint \in p.to
    BY DEF Anchored, Queued, Exists
  <1>1. row[d].endpoint \in Endpoint /\ Exists(row[d].endpoint)
    BY DEF Anchored, Tidy, Addressed, Queued
  <1>2. \A ep \in Endpoint : Exists(ep) => endpoint'[ep].state \in {"active", "off"}
    BY DEF Exists
  <1> QED
    BY <1>1, <1>2 DEF Anchored, Queued

(* A delivery added, or its row replaced, with an endpoint that is there and an event
   on record. *)
LEMMA AddedRowAnchored ==
    ASSUME TypeOK, Anchored, NEW d \in Delivery, NEW w \in Row,
           row' = [row EXCEPT ![d] = w], UNCHANGED <<endpoint, logged, fanned>>,
           Exists(w.endpoint),
           w.event # NoEvent =>
              /\ w.event \in logged
              /\ \E p \in fanned : p.event = w.event /\ w.endpoint \in p.to
    PROVE  Anchored'
  <1>1. row \in [Delivery -> Row]
    BY Types
  <1> QED
    BY <1>1 DEF Anchored, Queued, Exists

LEMMA AnchoredKept ==
    ASSUME TypeOK, Tidy, Anchored, [Next]_vars
    PROVE  Anchored'
  <1>1. row \in [Delivery -> Row] /\ sends \subseteq Send /\ endpoint \in [Endpoint -> EndpointRow]
    BY Types
  <1>2. CASE Publish
    BY <1>2, NothingTaken DEF Publish, StartPublish, queue, Queued, Exists
  <1>3. ASSUME NEW p \in publishing, Insert(p)
        PROVE  Anchored'
    <2>1. CASE ~ForeignKeysHold(p)
      BY <1>3, <2>1, NothingTaken DEF Insert, queue, Queued, Exists
    <2>2. CASE ForeignKeysHold(p)
      <3> DEFINE ids == lastDelivery + 1 .. lastDelivery + Cardinality(p.to)
      <3>1. /\ logged' = logged \cup {p.event} /\ endpoint' = endpoint
            /\ \E order \in [ids -> p.to] : /\ FanOut(p.event, p.to, order)
                                           /\ fanned' = fanned \cup {Fanned(p, order)}
        BY <1>3, <2>2 DEF Insert
      <3> HIDE DEF ids
      <3>2. PICK order \in [ids -> p.to] : /\ FanOut(p.event, p.to, order)
                                            /\ fanned' = fanned \cup {Fanned(p, order)}
        BY <3>1
      <3>7. /\ Fanned(p, order) \in fanned'
            /\ Fanned(p, order).event = p.event /\ Fanned(p, order).to = p.to
        BY <3>2 DEF Fanned
      <3> DEFINE f == Fanned(p, order)
      <3>8. f \in fanned' /\ f.event = p.event /\ f.to = p.to /\ fanned \subseteq fanned'
        BY <3>2, <3>7
      <3> HIDE DEF f
      <3>3. p.to \subseteq Endpoint /\ p.event \in Event
        BY Types DEF Publishing
      <3>4. SUFFICES ASSUME NEW d \in Delivery, row'[d].status # "absent"
                     PROVE  /\ Exists(row'[d].endpoint)
                            /\ row'[d].event # NoEvent =>
                                 /\ row'[d].event \in logged'
                                 /\ \E q \in fanned' :
                                       q.event = row'[d].event /\ row'[d].endpoint \in q.to
        BY <3>1 DEF Anchored, Queued, Exists
      <3>5. CASE d \in ids
        <4>1. order[d] \in Endpoint /\ order[d] \in p.to /\ row'[d] = NewRow(order[d], p.event)
          BY <3>2, <3>3, <3>5 DEF FanOut
        <4>2. row'[d].endpoint = order[d] /\ row'[d].event = p.event
          BY <3>3, <4>1, NewRowIsRow
        <4> QED
          BY <2>2, <3>1, <3>8, <4>1, <4>2 DEF ForeignKeysHold
      <3>6. CASE d \notin ids
        <4>1. row'[d] = row[d]
          BY <3>2, <3>6 DEF FanOut
        <4> QED
          BY <3>1, <3>4, <3>8, <4>1 DEF Anchored, Queued
      <3> QED
        BY <3>5, <3>6
    <2> QED
      BY <2>1, <2>2
  <1>4. ASSUME NEW e \in logged, ArchiveEvent(e)
        PROVE  Anchored'
    <2>1. \A d \in Delivery : /\ row'[d].status = row[d].status
                              /\ row'[d].endpoint = row[d].endpoint
                              /\ row'[d].event = IF row[d].event = e THEN NoEvent ELSE row[d].event
      BY <1>1, <1>4 DEF ArchiveEvent, Row
    <2> QED
      BY <1>4, <2>1 DEF ArchiveEvent, Anchored, Queued, Exists
  <1>5. ASSUME NEW r \in Replica, Claim(r)
        PROVE  Anchored'
    <2>1. \A d \in Delivery : /\ row'[d].status = row[d].status
                              /\ row'[d].endpoint = row[d].endpoint
                              /\ row'[d].event = row[d].event
      <3>1. \E claimed \in SUBSET Delivery :
              row' = [d \in Delivery |-> IF d \in claimed THEN [row[d] EXCEPT !.lease = "held"]
                                         ELSE row[d]]
        BY <1>1, <1>5 DEF Claim
      <3> QED
        BY <1>1, <3>1 DEF Row
    <2>2. UNCHANGED <<endpoint, logged, fanned>>
      BY <1>5 DEF Claim, bus
    <2> QED
      BY <2>1, <2>2, NothingTaken DEF Queued, Exists
  <1>6. ASSUME NEW r \in Replica, Drain(r) \/ Load(r) \/ BatchDone(r) \/ Crash(r) \/ BatchFails(r)
        PROVE  Anchored'
    <2>1. UNCHANGED <<endpoint, logged, fanned, row>>
      BY <1>6 DEF Drain, Load, BatchDone, Crash, BatchFails, bus, queue
    <2> QED
      BY <2>1, NothingTaken DEF Queued, Exists
  <1>7. ASSUME NEW s \in sends, MarkDead(s) \/ Record(s) \/ CancelOriginal(s)
        PROVE  Anchored'
    <2>1. s \in Send /\ s.d \in Delivery
      BY <1>1 DEF Send
    <2>2. ASSUME NEW d \in Delivery, row'[d].status # "absent"
          PROVE  /\ Queued(d) /\ row'[d].endpoint = row[d].endpoint
                 /\ row'[d].event = row[d].event
      <3>1. CASE MarkDead(s)
        BY <1>1, <2>1, <2>2, <3>1 DEF MarkDead, Row, Queued
      <3>2. CASE Record(s)
        <4>1. row' = [row EXCEPT ![s.d] = IF Queued(s.d) THEN Outcome(s, s.phase = "ok") ELSE @]
          BY <3>2 DEF Record
        <4>2. CASE d = s.d /\ Queued(s.d)
          <5>1. row'[d] = Outcome(s, s.phase = "ok")
            BY <1>1, <2>1, <4>1, <4>2
          <5> QED
            BY <2>1, <4>2, <5>1, OutcomeIsRow
        <4>3. CASE ~(d = s.d /\ Queued(s.d))
          BY <1>1, <2>2, <4>1, <4>3 DEF Queued
        <4> QED
          BY <4>2, <4>3
      <3>3. CASE CancelOriginal(s)
        BY <1>1, <2>2, <3>3 DEF CancelOriginal, Row, Queued
      <3> QED
        BY <1>7, <3>1, <3>2, <3>3
    <2>3. UNCHANGED <<endpoint, logged, fanned>>
      BY <1>7 DEF MarkDead, Record, CancelOriginal, bus
    <2> QED
      BY <2>2, <2>3, NothingTaken DEF Exists
  <1>8. ASSUME NEW s \in sends, Post(s) \/ SendFails(s)
        PROVE  Anchored'
    <2>1. UNCHANGED <<endpoint, logged, fanned, row>>
      BY <1>8 DEF Post, SendFails, bus, queue
    <2> QED
      BY <2>1, NothingTaken DEF Queued, Exists
  <1>9. ASSUME NEW s \in sends, Reset(s)
        PROVE  Anchored'
    <2>1. UNCHANGED <<logged, fanned, row>>
      BY <1>9 DEF Reset, bus, queue
    <2>2. \A ep \in Endpoint : endpoint'[ep].state = endpoint[ep].state
      BY <1>1, <1>9 DEF Reset, EndpointRow
    <2> QED
      BY <2>1, <2>2, NothingTaken DEF Queued, Exists
  <1>10. ASSUME NEW s \in sends, Count(s)
        PROVE  Anchored'
    <2>1. UNCHANGED <<logged, fanned, row>>
      BY <1>10 DEF Count, bus, queue, StartPublish
    <2>2. \A ep \in Endpoint : Exists(ep) => endpoint'[ep].state \in {"active", "off"}
      <3>1. CASE ~Queued(s.d)
        BY <1>10, <3>1 DEF Count, Exists
      <3>2. CASE Queued(s.d)
        <4> DEFINE ep == row[s.d].endpoint
                   failures == endpoint[ep].failures + 1
                   off == SwitchesOff(ep, failures)
        <4>1. endpoint' = [endpoint EXCEPT ![ep].failures = failures,
                                           ![ep].state = IF off THEN "off" ELSE @]
          BY <1>10, <3>2 DEF Count
        <4> HIDE DEF ep, failures, off
        <4> QED
          BY <1>1, <4>1 DEF Exists, EndpointRow
      <3> QED
        BY <3>1, <3>2
    <2> QED
      BY <2>1, <2>2, NothingTaken DEF Queued, Exists
  <1>11. ASSUME NEW r \in Replica, NEW ep \in Endpoint, Ping(r, ep)
         PROVE  Anchored'
    <2> DEFINE w == [[NewRow(ep, NoEvent) EXCEPT !.due = "never"] EXCEPT !.lease = "held"]
    <2>1. /\ lastDelivery + 1 \in Delivery /\ Exists(ep)
          /\ row' = [row EXCEPT ![lastDelivery + 1] = w]
          /\ UNCHANGED <<endpoint, logged, fanned>>
      BY <1>11, Types, BoundsAssumption DEF Ping, SendNow, Delivery, NoDelivery, bus
    <2>2. w \in Row /\ w.endpoint = ep /\ w.event = NoEvent
      <3>1. /\ NewRow(ep, NoEvent) \in Row /\ NewRow(ep, NoEvent).endpoint = ep
            /\ NewRow(ep, NoEvent).event = NoEvent
        BY NewRowIsRow
      <3> QED
        BY <3>1 DEF Row
    <2> HIDE DEF w
    <2> QED
      BY <2>1, <2>2, AddedRowAnchored
  <1>12. ASSUME NEW r \in Replica, NEW d \in Delivery, Resend(r, d)
         PROVE  Anchored'
    <2> DEFINE w == [NewRow(row[d].endpoint, row[d].event) EXCEPT !.lease = "held"]
    <2>1. /\ lastDelivery + 1 \in Delivery /\ Queued(d) /\ row[d].event # NoEvent
          /\ row' = [row EXCEPT ![lastDelivery + 1] = w]
          /\ UNCHANGED <<endpoint, logged, fanned>>
      BY <1>12, Types, BoundsAssumption DEF Resend, SendNow, Delivery, NoDelivery, bus
    <2>2. /\ row[d].endpoint \in Endpoint /\ row[d].event \in Event \cup {NoEvent}
          /\ Exists(row[d].endpoint) /\ row[d].event \in logged
          /\ \E p \in fanned : p.event = row[d].event /\ row[d].endpoint \in p.to
      BY <1>1, <2>1 DEF Row, Anchored, Tidy, Addressed, Queued
    <2>3. w \in Row /\ w.endpoint = row[d].endpoint /\ w.event = row[d].event
      <3> DEFINE v == NewRow(row[d].endpoint, row[d].event)
      <3>1. v \in Row /\ v.endpoint = row[d].endpoint /\ v.event = row[d].event
        BY <2>2, NewRowIsRow
      <3> HIDE DEF v
      <3> QED
        BY <3>1 DEF Row, v
    <2> HIDE DEF w
    <2> QED
      BY <2>1, <2>2, <2>3, AddedRowAnchored
  <1>13. ASSUME NEW ep \in Endpoint, NEW state \in {"active", "off"}, Create(ep, state)
         PROVE  Anchored'
    <2>1. UNCHANGED <<logged, fanned, row>>
      BY <1>13 DEF Create, StartPublish, queue
    <2>2. \A a \in Endpoint : Exists(a) => endpoint'[a].state \in {"active", "off"}
      BY <1>1, <1>13 DEF Create, Exists, EndpointRow
    <2> QED
      BY <2>1, <2>2, NothingTaken DEF Queued, Exists
  <1>14. ASSUME NEW ep \in Endpoint, NEW active \in BOOLEAN, Edit(ep, active)
         PROVE  Anchored'
    BY <1>14, NothingTaken DEF Edit, bus, queue, Queued, Exists
  <1>15. ASSUME NEW ep \in Endpoint, Delete(ep)
         PROVE  Anchored'
    <2>1. /\ logged' = logged /\ fanned' = fanned
          /\ \A a \in Endpoint : a # ep => endpoint'[a] = endpoint[a]
      BY <1>1, <1>15 DEF Delete, StartPublish
    <2>2. \A d \in Delivery : row'[d] = IF row[d].endpoint = ep THEN NoRow ELSE row[d]
      BY <1>15 DEF Delete
    <2> QED
      BY <2>1, <2>2 DEF Anchored, Queued, Exists, Tidy, Addressed, NoRow
  <1>16. ASSUME NEW e \in edits, SaveEdit(e)
         PROVE  Anchored'
    <2>1. UNCHANGED <<logged, fanned, row>>
      BY <1>16 DEF SaveEdit, StartPublish, queue, bus
    <2>2. \A a \in Endpoint : Exists(a) => endpoint'[a].state \in {"active", "off"}
      <3>1. CASE ~Exists(e.endpoint)
        BY <1>16, <3>1 DEF SaveEdit, Exists
      <3>2. CASE Exists(e.endpoint)
        <4> DEFINE reenabled == e.active /\ ~e.was
                   failures == IF reenabled THEN 0 ELSE endpoint[e.endpoint].failures
                   state == IF e.active THEN "active" ELSE "off"
                   x == [endpoint[e.endpoint] EXCEPT !.state = state, !.failures = failures]
        <4>1. e.endpoint \in Endpoint
          BY Types DEF EditCall
        <4>2. endpoint' = [endpoint EXCEPT ![e.endpoint] = x]
          BY <1>1, <1>16, <3>2, <4>1 DEF SaveEdit
        <4>3. x.state \in {"active", "off"}
          BY <1>1, <4>1 DEF EndpointRow
        <4> HIDE DEF x
        <4> QED
          BY <1>1, <4>1, <4>2, <4>3 DEF Exists
      <3> QED
        BY <3>1, <3>2
    <2> QED
      BY <2>1, <2>2, NothingTaken DEF Queued, Exists
  <1>17. ASSUME NEW d \in Delivery, Prune(d) \/ RetryDue(d) \/ LeaseOver(d)
         PROVE  Anchored'
    <2>1. \A c \in Delivery : row'[c].status # "absent" =>
             Queued(c) /\ row'[c].endpoint = row[c].endpoint /\ row'[c].event = row[c].event
      BY <1>1, <1>17 DEF Prune, RetryDue, LeaseOver, Row, Queued, NoRow
    <2>2. UNCHANGED <<endpoint, logged, fanned>>
      BY <1>17 DEF Prune, RetryDue, LeaseOver, bus
    <2> QED
      BY <2>1, <2>2, NothingTaken DEF Exists
  <1>18. CASE UNCHANGED vars
    BY <1>18, NothingTaken DEF vars, Queued, Exists
  <1> QED
    BY <1>2, <1>3, <1>4, <1>5, <1>6, <1>7, <1>8, <1>9, <1>10, <1>11, <1>12, <1>13, <1>14, <1>15, <1>16,
       <1>17, <1>18 DEF Next, Works, Steps, Administrate
-----------------------------------------------------------------------------
(* Nothing is lost. *)

(* The event of a statement under way is its own, and the endpoints a statement saw
   were there. *)
OwnEvents ==
    /\ \A p \in publishing \cup fanned :
         p.event <= lastEvent /\ \A ep \in p.to : endpoint[ep].state # "new"
    /\ \A p, q \in publishing : p.event = q.event => p = q
    /\ \A p \in publishing : \A q \in fanned : p.event # q.event

(* An id that is still to come belongs to nothing. *)
FreshIds ==
    \A d \in Delivery : d > lastDelivery =>
        /\ ~Queued(d)
        /\ \A s \in sends : s.d # d
        /\ \A p \in fanned : p.made[d] = NoEndpoint

(* What a row and a send say of the requests its receiver got. *)
RowTold(w, posted) ==
    /\ w.status \in {"succeeded", "failed"} => posted
    /\ w.status = "dead" => posted \/ w.event = NoEvent
    /\ w.status = "absent" => w.event = NoEvent

SendTold(s) ==
    /\ s.phase \in {"ok", "failed"} => posts[s.d] > 0
    /\ s.phase = "gone" => row[s.d].event = NoEvent

Told == /\ \A d \in Delivery : RowTold(row[d], posts[d] > 0)
        /\ \A s \in sends : SendTold(s)

NoLoss == OwnEvents /\ FreshIds /\ Told /\ NoneLost

(* An endpoint is made once. *)
LEMMA EndpointsMove ==
    ASSUME TypeOK, Tidy, Anchored, [Next]_vars, NEW ep \in Endpoint
    PROVE  /\ endpoint[ep].state # "new" => endpoint'[ep].state # "new"
           /\ endpoint'[ep].state \in {"active", "off"} => endpoint[ep].state \in {"active", "off", "new"}
  <1> DEFINE Fine == /\ endpoint[ep].state # "new" => endpoint'[ep].state # "new"
                     /\ endpoint'[ep].state \in {"active", "off"} =>
                          endpoint[ep].state \in {"active", "off", "new"}
  <1>1. endpoint \in [Endpoint -> EndpointRow] /\ row \in [Delivery -> Row] /\ sends \subseteq Send
    BY Types
  <1>2. CASE endpoint' = endpoint
    BY <1>2
  <1>3. ASSUME NEW s \in sends, Reset(s)
        PROVE  Fine
    BY <1>1, <1>3 DEF Reset, EndpointRow
  <1>4. ASSUME NEW s \in sends, Count(s)
        PROVE  Fine
    <2>1. CASE ~Queued(s.d)
      BY <1>2, <1>4, <2>1 DEF Count
    <2>2. CASE Queued(s.d)
      <3> DEFINE a == row[s.d].endpoint
                 failures == endpoint[a].failures + 1
                 off == SwitchesOff(a, failures)
      <3>1. endpoint' = [endpoint EXCEPT ![a].failures = failures, ![a].state = IF off THEN "off" ELSE @]
        BY <1>4, <2>2 DEF Count
      <3>2. a \in Endpoint /\ Exists(a)
        BY <1>1, <2>2 DEF Anchored, Tidy, Addressed, Queued, Send
      <3> HIDE DEF a, failures, off
      <3> QED
        BY <1>1, <3>1, <3>2 DEF Exists, EndpointRow
    <2> QED
      BY <2>1, <2>2
  <1>5. ASSUME NEW a \in Endpoint, Administrate(a)
        PROVE  Fine
    <2>1. CASE \E state \in {"active", "off"} : Create(a, state)
      BY <1>1, <2>1 DEF Create, EndpointRow
    <2>2. CASE \E active \in BOOLEAN : Edit(a, active)
      BY <1>2, <2>2 DEF Edit
    <2>3. CASE Delete(a)
      BY <1>1, <2>3 DEF Delete, EndpointRow
    <2> QED
      BY <1>5, <2>1, <2>2, <2>3 DEF Administrate
  <1>6. ASSUME NEW x \in edits, SaveEdit(x)
        PROVE  Fine
    <2>1. CASE ~Exists(x.endpoint)
      BY <1>2, <1>6, <2>1 DEF SaveEdit
    <2>2. CASE Exists(x.endpoint)
      BY <1>1, <1>6, <2>2 DEF SaveEdit, Exists, EndpointRow
    <2> QED
      BY <2>1, <2>2
  <1>7. CASE \/ Publish
             \/ \E p \in publishing : Insert(p)
             \/ \E e \in logged : ArchiveEvent(e)
             \/ \E r \in Replica : Drain(r) \/ Works(r) \/ Crash(r) \/ BatchFails(r)
             \/ \E s \in sends : MarkDead(s) \/ Post(s) \/ Record(s) \/ CancelOriginal(s) \/ SendFails(s)
             \/ \E r \in Replica : (\E e \in Endpoint : Ping(r, e)) \/ \E d \in Delivery : Resend(r, d)
             \/ \E d \in Delivery : Prune(d) \/ RetryDue(d) \/ LeaseOver(d)
             \/ UNCHANGED vars
    <2>1. endpoint' = endpoint
      BY <1>7 DEF Publish, Insert, ArchiveEvent, Drain, Works, Claim, Load, BatchDone, Crash, BatchFails,
                  MarkDead, Post, Record, CancelOriginal, SendFails, Ping, Resend, SendNow,
                  Prune, RetryDue, LeaseOver, vars
    <2> QED
      BY <1>2, <2>1
  <1> QED
    BY <1>3, <1>4, <1>5, <1>6, <1>7 DEF Next, Steps

(* The bus moves by a publish() that starts or one that ends. *)
LEMMA BusMoves ==
    ASSUME TypeOK, [Next]_vars
    PROVE  \/ UNCHANGED <<lastEvent, publishing, fanned>>
           \/ \E active \in SUBSET Endpoint :
                 StartPublish(active) /\ \A ep \in active : endpoint'[ep].state # "new"
           \/ \E p \in publishing : Insert(p)
  <1> DEFINE Starts == \E active \in SUBSET Endpoint :
                          StartPublish(active) /\ \A ep \in active : endpoint'[ep].state # "new"
  <1>1. endpoint \in [Endpoint -> EndpointRow]
    BY Types
  <1>2. CASE Publish
    <2>1. StartPublish(Active) /\ endpoint' = endpoint
      BY <1>2 DEF Publish
    <2> QED
      BY <2>1 DEF Active
  <1>3. ASSUME NEW s \in sends, Count(s)
        PROVE  UNCHANGED <<lastEvent, publishing, fanned>> \/ Starts
    <2> DEFINE a == row[s.d].endpoint
               failures == endpoint[a].failures + 1
    <2>1. CASE ~(StartPublish(Active \ {a}) /\ Queued(s.d))
      BY <1>3, <2>1 DEF Count, bus
    <2>2. CASE StartPublish(Active \ {a}) /\ Queued(s.d)
      <3>1. endpoint' = [endpoint EXCEPT ![a].failures = failures,
                                         ![a].state = IF SwitchesOff(a, failures) THEN "off" ELSE @]
        BY <1>3, <2>2 DEF Count
      <3> HIDE DEF a, failures
      <3>2. \A ep \in Active \ {a} : endpoint'[ep].state # "new"
        BY <1>1, <3>1 DEF Active
      <3> QED
        BY <2>2, <3>2 DEF Active
    <2> QED
      BY <2>1, <2>2
  <1>4. ASSUME NEW ep \in Endpoint, Administrate(ep)
        PROVE  UNCHANGED <<lastEvent, publishing, fanned>> \/ Starts
    <2>1. ASSUME NEW state \in {"active", "off"}, Create(ep, state)
          PROVE  Starts
      <3>1. PICK active \in SUBSET (Active \cup {ep}) : StartPublish(active)
        BY <2>1 DEF Create
      <3>2. \A e \in Active \cup {ep} : endpoint'[e].state # "new"
        BY <1>1, <2>1 DEF Create, Active, EndpointRow
      <3> QED
        BY <3>1, <3>2 DEF Active
    <2>2. ASSUME NEW active \in BOOLEAN, Edit(ep, active)
          PROVE  UNCHANGED <<lastEvent, publishing, fanned>>
      BY <2>2 DEF Edit, bus
    <2>3. CASE Delete(ep)
      <3>1. StartPublish(Active \ {ep})
        BY <2>3 DEF Delete
      <3>2. \A e \in Active \ {ep} : endpoint'[e].state # "new"
        BY <1>1, <2>3 DEF Delete, Active
      <3> QED
        BY <3>1, <3>2 DEF Active
    <2> QED
      BY <1>4, <2>1, <2>2, <2>3 DEF Administrate
  <1>5. ASSUME NEW x \in edits, SaveEdit(x)
        PROVE  UNCHANGED <<lastEvent, publishing, fanned>> \/ Starts
    <2>1. CASE ~Exists(x.endpoint)
      BY <1>5, <2>1 DEF SaveEdit, bus
    <2>2. CASE Exists(x.endpoint)
      <3>1. PICK active \in SUBSET (Active \cup {x.endpoint}) : StartPublish(active)
        BY <1>5, <2>2 DEF SaveEdit
      <3>2. x.endpoint \in Endpoint
        BY Types DEF EditCall
      <3>3. \A e \in Active \cup {x.endpoint} : endpoint'[e].state # "new"
        BY <1>1, <1>5, <2>2, <3>2 DEF SaveEdit, Active, EndpointRow
      <3> QED
        BY <3>1, <3>2, <3>3 DEF Active
    <2> QED
      BY <2>1, <2>2
  <1>6. CASE \/ \E e \in logged : ArchiveEvent(e)
             \/ \E r \in Replica : Drain(r) \/ Works(r) \/ Crash(r) \/ BatchFails(r)
             \/ \E s \in sends : \/ MarkDead(s) \/ Post(s) \/ Record(s) \/ Reset(s)
                                 \/ CancelOriginal(s) \/ SendFails(s)
             \/ \E r \in Replica : (\E e \in Endpoint : Ping(r, e)) \/ \E d \in Delivery : Resend(r, d)
             \/ \E d \in Delivery : Prune(d) \/ RetryDue(d) \/ LeaseOver(d)
             \/ UNCHANGED vars
    BY <1>6 DEF ArchiveEvent, Drain, Works, Claim, Load, BatchDone, Crash, BatchFails,
                MarkDead, Post, Record, Reset, CancelOriginal, SendFails, Ping, Resend, SendNow,
                Prune, RetryDue, LeaseOver, vars, bus
  <1> QED
    BY <1>2, <1>3, <1>4, <1>5, <1>6 DEF Next, Steps

LEMMA OwnEventsKept ==
    ASSUME TypeOK, Tidy, Anchored, OwnEvents, [Next]_vars
    PROVE  OwnEvents'
  <1>1. \A ep \in Endpoint : endpoint[ep].state # "new" => endpoint'[ep].state # "new"
    BY EndpointsMove
  <1>2. /\ publishing \subseteq Publishing /\ fanned \subseteq Statement
        /\ lastEvent \in Nat
        /\ \A p \in publishing \cup fanned : p.event \in Nat /\ p.to \subseteq Endpoint
    BY Types, BoundsAssumption DEF Publishing, Statement, Event
  <1>3. \A p \in publishing \cup fanned : \A ep \in p.to : endpoint'[ep].state # "new"
    BY <1>1, <1>2 DEF OwnEvents
  <1>4. CASE UNCHANGED <<lastEvent, publishing, fanned>>
    BY <1>3, <1>4 DEF OwnEvents
  <1>5. ASSUME NEW active \in SUBSET Endpoint, StartPublish(active),
               \A ep \in active : endpoint'[ep].state # "new"
        PROVE  OwnEvents'
    <2>1. PICK to \in SUBSET active :
            publishing' = publishing \cup {[event |-> lastEvent + 1, to |-> to]}
      BY <1>5 DEF StartPublish
    <2> DEFINE new == [event |-> lastEvent + 1, to |-> to]
    <2>2. /\ publishing' = publishing \cup {new} /\ new.event = lastEvent + 1 /\ new.to \subseteq active
          /\ lastEvent' = lastEvent + 1 /\ fanned' = fanned
      BY <1>5, <2>1 DEF StartPublish
    <2> HIDE DEF new
    <2>3. \A p \in publishing \cup fanned : p.event <= lastEvent /\ p.event # new.event
      BY <1>2, <2>2 DEF OwnEvents
    <2> QED
      BY <1>2, <1>3, <1>5, <2>2, <2>3 DEF OwnEvents
  <1>6. ASSUME NEW p \in publishing, Insert(p)
        PROVE  OwnEvents'
    <2>1. publishing' = publishing \ {p} /\ UNCHANGED <<lastEvent, endpoint>>
      BY <1>6 DEF Insert
    <2>2. CASE ~ForeignKeysHold(p)
      BY <1>6, <2>1, <2>2 DEF Insert, OwnEvents
    <2>3. CASE ForeignKeysHold(p)
      <3>1. PICK order : fanned' = fanned \cup {Fanned(p, order)}
        BY <1>6, <2>3 DEF Insert
      <3> DEFINE f == Fanned(p, order)
      <3>2. fanned' = fanned \cup {f} /\ f.event = p.event /\ f.to = p.to
        BY <3>1 DEF Fanned
      <3> HIDE DEF f
      <3> QED
        BY <2>1, <3>2 DEF OwnEvents
    <2> QED
      BY <2>2, <2>3
  <1> QED
    BY <1>4, <1>5, <1>6, BusMoves

(* A step that makes no delivery loses none, if it tells of each row and send that it
   changes, and takes from a row of an event on record nothing before it was sent. *)
LEMMA NoneTaken ==
    ASSUME TypeOK, TypeOK', NoLoss, UNCHANGED <<lastDelivery, fanned>>, logged' \subseteq logged,
           \A ep \in Endpoint :
               endpoint'[ep].state \in {"active", "off"} => endpoint[ep].state \in {"active", "off", "new"},
           \A d \in Delivery :
               /\ posts[d] > 0 => posts'[d] > 0
               /\ row'[d].status # "absent" => Queued(d)
               /\ RowTold(row'[d], posts'[d] > 0)
               /\ row[d].event = NoEvent => row'[d].event = NoEvent
               /\ \/ posts'[d] > 0
                  \/ /\ Queued(d) => row'[d].status # "absent"
                     /\ row'[d].event = row[d].event
                     /\ row'[d].endpoint = row[d].endpoint
                  \/ row[d].event \notin logged'
                  \/ endpoint'[row[d].endpoint].state \notin {"active", "off"},
           \A t \in sends' :
               /\ t.d <= lastDelivery \/ \E s \in sends : s.d = t.d
               /\ \/ t \in sends
                  \/ t.phase \notin {"ok", "failed", "gone"}
                  \/ t.phase \in {"ok", "failed"} /\ posts'[t.d] > 0
                  \/ t.phase = "gone" /\ row'[t.d].event = NoEvent
    PROVE  FreshIds' /\ Told' /\ NoneLost'
  <1>0. /\ sends \subseteq Send /\ sends' \subseteq Send /\ fanned \subseteq Statement
        /\ lastDelivery \in Nat /\ \A d \in Delivery : d \in Nat
    BY Types, TypesNext, BoundsAssumption DEF Delivery
  <1>1. FreshIds'
    <2> SUFFICES ASSUME NEW d \in Delivery, d > lastDelivery
                 PROVE  /\ row'[d].status = "absent"
                        /\ \A s \in sends' : s.d # d
                        /\ \A p \in fanned : p.made[d] = NoEndpoint
      BY DEF FreshIds, Queued
    <2>1. ~Queued(d) /\ (\A s \in sends : s.d # d) /\ \A p \in fanned : p.made[d] = NoEndpoint
      BY DEF NoLoss, FreshIds
    <2>2. \A t \in sends' : t.d # d
      BY <1>0, <2>1
    <2> QED
      BY <2>1, <2>2
  <1>2. Told'
    <2>1. ASSUME NEW t \in sends'
          PROVE  /\ t.phase \in {"ok", "failed"} => posts'[t.d] > 0
                 /\ t.phase = "gone" => row'[t.d].event = NoEvent
      <3>1. t.d \in Delivery
        BY <1>0 DEF Send
      <3>2. CASE t \in sends
        BY <3>1, <3>2 DEF NoLoss, Told, SendTold
      <3> QED
        BY <3>2
    <2> QED
      BY <2>1 DEF Told, SendTold
  <1>3. NoneLost'
    <2> SUFFICES ASSUME NEW p \in fanned, p.event \in logged', NEW ep \in p.to,
                        endpoint'[ep].state \in {"active", "off"}
                 PROVE  \E d \in Delivery :
                          /\ p.made[d] = ep
                          /\ \/ posts'[d] > 0
                             \/ /\ row'[d].status # "absent"
                                /\ row'[d].event = p.event /\ row'[d].endpoint = ep
      BY DEF NoneLost, Exists, Carries, Queued
    <2>1. ep \in Endpoint /\ endpoint[ep].state # "new"
      BY <1>0 DEF Statement, NoLoss, OwnEvents
    <2>2. Exists(ep) /\ p.event \in logged
      BY <2>1 DEF Exists
    <2>3. PICK d \in Delivery : p.made[d] = ep /\ (posts[d] > 0 \/ Carries(d, p.event, ep))
      BY <2>2 DEF NoLoss, NoneLost
    <2> QED
      BY <2>3 DEF Carries
  <1> QED
    BY <1>1, <1>2, <1>3

(* Where rows, posts and the log stay, and sends only move on to phases that say nothing. *)
LEMMA NoneTakenQuietly ==
    ASSUME TypeOK, TypeOK', NoLoss, UNCHANGED <<row, posts, lastDelivery, logged, fanned>>,
           \A ep \in Endpoint :
               endpoint'[ep].state \in {"active", "off"} => endpoint[ep].state \in {"active", "off", "new"},
           \A t \in sends' : \E s \in sends :
               t.d = s.d /\ (t = s \/ t.phase \notin {"ok", "failed", "gone"})
    PROVE  FreshIds' /\ Told' /\ NoneLost'
  <1>1. \A d \in Delivery : RowTold(row'[d], posts'[d] > 0)
    BY DEF NoLoss, Told
  <1>2. \A d \in Delivery :
           /\ posts[d] > 0 => posts'[d] > 0
           /\ row'[d].status # "absent" => Queued(d)
           /\ row[d].event = NoEvent => row'[d].event = NoEvent
           /\ Queued(d) => row'[d].status # "absent"
           /\ row'[d].event = row[d].event
           /\ row'[d].endpoint = row[d].endpoint
    BY DEF Queued
  <1>3. \A t \in sends' : /\ \E s \in sends : s.d = t.d
                          /\ t \in sends \/ t.phase \notin {"ok", "failed", "gone"}
    OBVIOUS
  <1> QED
    BY <1>1, <1>2, <1>3, NoneTaken

LEMMA QuietKept ==
    ASSUME TypeOK, TypeOK', Tidy, Anchored, NoLoss, [Next]_vars,
           \/ Publish
           \/ \E p \in publishing : Insert(p) /\ ~ForeignKeysHold(p)
           \/ \E r \in Replica : Drain(r) \/ BatchDone(r) \/ Crash(r) \/ BatchFails(r)
           \/ \E s \in sends : Reset(s) \/ Count(s) \/ SendFails(s)
           \/ \E ep \in Endpoint : (\E state \in {"active", "off"} : Create(ep, state))
                                   \/ \E active \in BOOLEAN : Edit(ep, active)
           \/ \E x \in edits : SaveEdit(x)
           \/ UNCHANGED vars
    PROVE  FreshIds' /\ Told' /\ NoneLost'
  <1>1. UNCHANGED <<row, posts, lastDelivery, logged, fanned>>
    BY DEF Publish, Insert, Drain, BatchDone, Crash, BatchFails, Reset, Count, SendFails, Create, Edit,
           SaveEdit, StartPublish, vars, bus, queue
  <1>2. \A ep \in Endpoint :
           endpoint'[ep].state \in {"active", "off"} => endpoint[ep].state \in {"active", "off", "new"}
    BY EndpointsMove
  <1>3. \/ sends' \subseteq sends
        \/ \E s \in sends : Reset(s) /\ Moves(s, "cancel")
    BY DEF Publish, Insert, Drain, BatchDone, Crash, BatchFails, Reset, Count, SendFails, Create, Edit,
           SaveEdit, vars, Ends
  <1>4. \A t \in sends' : \E s \in sends : t.d = s.d /\ (t = s \/ t.phase \notin {"ok", "failed", "gone"})
    <2>1. CASE sends' \subseteq sends
      BY <2>1
    <2>2. ASSUME NEW s \in sends, Moves(s, "cancel")
          PROVE  \A t \in sends' : \E u \in sends :
                    t.d = u.d /\ (t = u \/ t.phase \notin {"ok", "failed", "gone"})
      <3> DEFINE t == [s EXCEPT !.phase = "cancel"]
      <3>1. s \in Send
        BY Types
      <3>2. t.d = s.d /\ t.phase = "cancel"
        BY <3>1, MovedIsSend
      <3>3. sends' = (sends \ {s}) \cup {t}
        BY <2>2 DEF Moves
      <3> HIDE DEF t
      <3> QED
        BY <3>2, <3>3
    <2> QED
      BY <1>3, <2>1, <2>2
  <1> QED
    BY <1>1, <1>2, <1>4, NoneTakenQuietly

(* A row that keeps its endpoint and event, or loses them once it was sent or its event
   was archived. *)
LEMMA NoneTakenFromRows ==
    ASSUME TypeOK, TypeOK', NoLoss, UNCHANGED <<lastDelivery, fanned, endpoint, logged>>,
           \A d \in Delivery :
               /\ posts[d] > 0 => posts'[d] > 0
               /\ row'[d].status # "absent" => Queued(d)
               /\ RowTold(row'[d], posts'[d] > 0)
               /\ row[d].event = NoEvent => row'[d].event = NoEvent
               /\ \/ posts'[d] > 0
                  \/ row[d].event = NoEvent
                  \/ /\ Queued(d) => row'[d].status # "absent"
                     /\ row'[d].event = row[d].event
                     /\ row'[d].endpoint = row[d].endpoint,
           \A t \in sends' :
               /\ t.d <= lastDelivery \/ \E s \in sends : s.d = t.d
               /\ \/ t \in sends
                  \/ t.phase \notin {"ok", "failed", "gone"}
                  \/ t.phase \in {"ok", "failed"} /\ posts'[t.d] > 0
                  \/ t.phase = "gone" /\ row'[t.d].event = NoEvent
    PROVE  FreshIds' /\ Told' /\ NoneLost'
  <1>1. NoEvent \notin logged
    BY Types DEF Event, NoEvent
  <1> QED
    BY <1>1, NoneTaken

LEMMA ArchiveKept ==
    ASSUME TypeOK, TypeOK', NoLoss, NEW e \in logged, ArchiveEvent(e)
    PROVE  FreshIds' /\ Told' /\ NoneLost'
  <1>1. \A d \in Delivery : /\ row'[d].status = row[d].status
                            /\ row'[d].endpoint = row[d].endpoint
                            /\ row'[d].event = IF row[d].event = e THEN NoEvent ELSE row[d].event
    BY Types DEF ArchiveEvent, Row
  <1>2. /\ UNCHANGED <<lastDelivery, fanned, endpoint, posts, sends>>
        /\ logged' = logged \ {e}
    BY DEF ArchiveEvent
  <1>3. \A d \in Delivery : RowTold(row'[d], posts'[d] > 0)
    BY <1>1, <1>2 DEF NoLoss, Told, RowTold
  <1>4. \A d \in Delivery : \/ row'[d].event = row[d].event
                            \/ row[d].event \notin logged'
    BY <1>1, <1>2
  <1>5. \A ep \in Endpoint :
           endpoint'[ep].state \in {"active", "off"} => endpoint[ep].state \in {"active", "off", "new"}
    BY <1>2
  <1>6. \A d \in Delivery :
           /\ posts[d] > 0 => posts'[d] > 0
           /\ row'[d].status # "absent" <=> Queued(d)
           /\ row[d].event = NoEvent => row'[d].event = NoEvent
    BY <1>1, <1>2 DEF Queued
  <1> QED
    BY <1>1, <1>2, <1>3, <1>4, <1>5, <1>6, NoneTaken

LEMMA ClaimKept ==
    ASSUME TypeOK, TypeOK', NoLoss, NEW r \in Replica, Claim(r)
    PROVE  FreshIds' /\ Told' /\ NoneLost'
  <1>1. UNCHANGED <<lastDelivery, fanned, endpoint, logged, posts>>
    BY DEF Claim, bus
  <1>2. PICK claimed \in SUBSET Delivery :
          /\ \A d \in claimed : Due(d)
          /\ row' = [d \in Delivery |-> IF d \in claimed THEN [row[d] EXCEPT !.lease = "held"] ELSE row[d]]
          /\ sends' = sends \cup
               {Sending(r, "worker", d, row[d].attempts, NoDelivery, "claimed") : d \in claimed}
    <2> DEFINE due == {d \in Delivery : Due(d)}
    <2>1. CASE due = {}
      <3>1. row' = row /\ sends' = sends
        BY <2>1 DEF Claim
      <3>2. row = [d \in Delivery |-> row[d]]
        BY Types
      <3>3. row' = [d \in Delivery |-> IF d \in {} THEN [row[d] EXCEPT !.lease = "held"] ELSE row[d]]
        BY <3>1, <3>2
      <3>4. {Sending(r, "worker", d, row[d].attempts, NoDelivery, "claimed") : d \in {}} = {}
        OBVIOUS
      <3>5. sends' = sends \cup
               {Sending(r, "worker", d, row[d].attempts, NoDelivery, "claimed") : d \in {}}
        BY <3>1, <3>4
      <3> QED
        BY <3>3, <3>5
    <2>2. CASE due # {}
      BY <2>2 DEF Claim
    <2> QED
      BY <2>1, <2>2
  <1>3. \A d \in Delivery : /\ row'[d].status = row[d].status
                            /\ row'[d].endpoint = row[d].endpoint
                            /\ row'[d].event = row[d].event
    BY <1>2, Types DEF Row
  <1>4. \A d \in Delivery : RowTold(row'[d], posts'[d] > 0)
    BY <1>1, <1>3 DEF NoLoss, Told, RowTold
  <1>5. ASSUME NEW t \in sends', t \notin sends
        PROVE  t.d <= lastDelivery /\ t.phase = "claimed"
    <2>1. PICK d \in claimed : t = Sending(r, "worker", d, row[d].attempts, NoDelivery, "claimed")
      BY <1>2, <1>5
    <2>2. t.d = d /\ t.phase = "claimed"
      BY <2>1 DEF Sending
    <2>3. d \in Delivery /\ Queued(d)
      BY <1>2, <2>1 DEF Due, Queued
    <2>4. d \in Nat /\ lastDelivery \in Nat
      BY <2>3, Types, BoundsAssumption DEF Delivery
    <2> QED
      BY <2>2, <2>3, <2>4 DEF NoLoss, FreshIds
  <1>6. \A d \in Delivery :
           /\ posts[d] > 0 => posts'[d] > 0
           /\ row'[d].status # "absent" <=> Queued(d)
    BY <1>1, <1>3 DEF Queued
  <1>7. \A t \in sends' : /\ t.d <= lastDelivery \/ \E s \in sends : s.d = t.d
                          /\ t \in sends \/ t.phase \notin {"ok", "failed", "gone"}
    BY <1>5
  <1> QED
    BY <1>1, <1>3, <1>4, <1>6, <1>7, NoneTakenFromRows

LEMMA LoadKept ==
    ASSUME TypeOK, TypeOK', NoLoss, NEW r \in Replica, Load(r)
    PROVE  FreshIds' /\ Told' /\ NoneLost'
  <1>1. UNCHANGED <<row, lastDelivery, fanned, endpoint, logged, posts>>
    BY DEF Load, bus, queue
  <1>2. \A d \in Delivery :
           /\ row'[d].status # "absent" <=> Queued(d)
           /\ RowTold(row'[d], posts'[d] > 0)
    BY <1>1 DEF NoLoss, Told, Queued
  <1>3. ASSUME NEW t \in sends', t \notin sends
        PROVE  /\ \E s \in sends : s.d = t.d
               /\ t.phase = "ready" \/ (t.phase = "gone" /\ row'[t.d].event = NoEvent)
    <2>1. PICK s \in ClaimedBy(r) : t = Loaded(s)
      BY <1>3, LoadSends
    <2>2. /\ s \in sends /\ s \in Send /\ Loaded(s).d = s.d
          /\ Loaded(s).phase \in {"ready", "gone"} /\ s.d \in Delivery
      BY LoadSends DEF Send
    <2>3. ~(Queued(s.d) /\ row[s.d].event # NoEvent) => row[s.d].event = NoEvent
      BY <2>2 DEF NoLoss, Told, RowTold, Queued
    <2>4. Loaded(s).phase = IF Queued(s.d) /\ row[s.d].event # NoEvent THEN "ready" ELSE "gone"
      BY <2>2 DEF Loaded, Send
    <2> QED
      BY <1>1, <2>1, <2>2, <2>3, <2>4
  <1>4. \A t \in sends' :
           /\ t.d <= lastDelivery \/ \E s \in sends : s.d = t.d
           /\ \/ t \in sends
              \/ t.phase \notin {"ok", "failed", "gone"}
              \/ t.phase = "gone" /\ row'[t.d].event = NoEvent
    BY <1>3
  <1> QED
    BY <1>1, <1>2, <1>4, NoneTakenFromRows

(* One delivery's row, and the send of it that moves on or ends. *)
LEMMA OneTold ==
    ASSUME TypeOK, TypeOK', NoLoss, NEW s \in sends, NEW w \in Row,
           UNCHANGED <<lastDelivery, fanned, endpoint, logged>>,
           row' = [row EXCEPT ![s.d] = w],
           \A d \in Delivery : posts[d] > 0 => posts'[d] > 0,
           w.status # "absent" <=> Queued(s.d),
           w.endpoint = row[s.d].endpoint, w.event = row[s.d].event,
           RowTold(w, posts'[s.d] > 0),
           \A t \in sends' :
               t \in sends \/ (t.d = s.d /\ (t.phase \in {"ok", "failed"} => posts'[s.d] > 0)
                                         /\ t.phase # "gone")
    PROVE  FreshIds' /\ Told' /\ NoneLost'
  <1>1. s.d \in Delivery /\ row \in [Delivery -> Row]
    BY Types DEF Send
  <1>2. ASSUME NEW d \in Delivery
        PROVE  /\ row'[d].status # "absent" <=> Queued(d)
               /\ row'[d].event = row[d].event /\ row'[d].endpoint = row[d].endpoint
               /\ RowTold(row'[d], posts'[d] > 0)
    <2>1. CASE d = s.d
      <3>1. row'[d] = w
        BY <1>1, <2>1
      <3> QED
        BY <2>1, <3>1
    <2>2. CASE d # s.d
      <3>1. row'[d] = row[d]
        BY <1>1, <2>2
      <3>2. RowTold(row[d], posts[d] > 0)
        BY DEF NoLoss, Told
      <3> QED
        BY <3>1, <3>2 DEF Queued, RowTold
    <2> QED
      BY <2>1, <2>2
  <1>3. \A t \in sends' : /\ t.d <= lastDelivery \/ \E u \in sends : u.d = t.d
                          /\ \/ t \in sends
                             \/ t.phase \notin {"ok", "failed", "gone"}
                             \/ t.phase \in {"ok", "failed"} /\ posts'[t.d] > 0
    OBVIOUS
  <1> QED
    BY <1>2, <1>3, NoneTakenFromRows

(* A send that moves on to another phase. *)
LEMMA MovesOn ==
    ASSUME TypeOK, NEW s \in sends,
           NEW phase \in {"claimed", "gone", "ready", "ok", "failed", "reset", "count", "cancel"},
           Moves(s, phase)
    PROVE  \A t \in sends' : t \in sends \/ (t.d = s.d /\ t.phase = phase)
  <1> DEFINE t == [s EXCEPT !.phase = phase]
  <1>1. s \in Send
    BY Types
  <1>2. t.d = s.d /\ t.phase = phase
    BY <1>1, MovedIsSend
  <1>3. sends' = (sends \ {s}) \cup {t}
    BY DEF Moves
  <1> HIDE DEF t
  <1> QED
    BY <1>2, <1>3

LEMMA SendKept ==
    ASSUME TypeOK, TypeOK', NoLoss, NEW s \in sends, MarkDead(s) \/ Post(s) \/ Record(s)
    PROVE  FreshIds' /\ Told' /\ NoneLost'
  <1>1. s \in Send /\ s.d \in Delivery /\ row[s.d] \in Row /\ row \in [Delivery -> Row]
        /\ posts \in [Delivery -> Nat]
    BY Types DEF Send
  <1>2. RowTold(row[s.d], posts[s.d] > 0) /\ SendTold(s)
    BY <1>1 DEF NoLoss, Told
  <1>3. CASE MarkDead(s)
    <2> DEFINE w == IF Queued(s.d)
                    THEN [row[s.d] EXCEPT !.status = "dead", !.due = "never", !.lease = "none"]
                    ELSE row[s.d]
    <2>1. row' = [row EXCEPT ![s.d] = w] /\ UNCHANGED <<lastDelivery, fanned, endpoint, logged, posts>>
      BY <1>1, <1>3 DEF MarkDead, bus
    <2>2. sends' \subseteq sends /\ row[s.d].event = NoEvent
      BY <1>2, <1>3 DEF MarkDead, Ends, SendTold
    <2>3. /\ w \in Row /\ (w.status # "absent" <=> Queued(s.d))
          /\ w.endpoint = row[s.d].endpoint /\ w.event = row[s.d].event
          /\ w.status \in {"succeeded", "failed"} => row[s.d].status = w.status
      BY <1>1 DEF Row, Queued
    <2> HIDE DEF w
    <2>4. RowTold(w, posts'[s.d] > 0)
      BY <1>2, <2>1, <2>2, <2>3 DEF RowTold
    <2> QED
      BY <2>1, <2>2, <2>3, <2>4, OneTold
  <1>4. CASE Post(s)
    <2>1. PICK phase \in {"ok", "failed"} : Moves(s, phase)
      BY <1>4 DEF Post
    <2>2. \A t \in sends' : t \in sends \/ (t.d = s.d /\ t.phase = phase)
      BY <2>1, MovesOn
    <2>3. /\ UNCHANGED <<row, lastDelivery, fanned, endpoint, logged>>
          /\ posts'[s.d] > 0 /\ \A d \in Delivery : posts[d] > 0 => posts'[d] > 0
      BY <1>1, <1>4 DEF Post, bus, queue
    <2>4. row' = [row EXCEPT ![s.d] = row[s.d]]
      BY <1>1, <2>3
    <2>5. RowTold(row[s.d], posts'[s.d] > 0)
      BY <1>2, <2>3 DEF RowTold
    <2>6. row[s.d].status # "absent" <=> Queued(s.d)
      BY DEF Queued
    <2> QED
      BY <1>1, <2>2, <2>3, <2>4, <2>5, <2>6, OneTold
  <1>5. CASE Record(s)
    <2> DEFINE w == IF Queued(s.d) THEN Outcome(s, s.phase = "ok") ELSE row[s.d]
    <2>1. row' = [row EXCEPT ![s.d] = w] /\ UNCHANGED <<lastDelivery, fanned, endpoint, logged, posts>>
      BY <1>1, <1>5 DEF Record, bus
    <2>2. PICK phase \in {"reset", "count"} : Moves(s, phase)
      BY <1>5 DEF Record
    <2>3. \A t \in sends' : t \in sends \/ (t.d = s.d /\ t.phase = phase)
      BY <2>2, MovesOn
    <2>4. posts[s.d] > 0
      BY <1>2, <1>5 DEF Record, SendTold
    <2>5. /\ w \in Row /\ w.endpoint = row[s.d].endpoint /\ w.event = row[s.d].event
          /\ (w.status # "absent" <=> Queued(s.d))
      BY <1>1, OutcomeIsRow DEF Queued
    <2> HIDE DEF w
    <2>6. RowTold(w, posts'[s.d] > 0)
      <3>1. CASE w.status = "absent"
        <4>1. row[s.d].status = "absent"
          BY <2>5, <3>1 DEF Queued
        <4> QED
          BY <1>2, <2>5, <3>1, <4>1 DEF RowTold
      <3>2. CASE w.status # "absent"
        BY <2>1, <2>4, <3>2 DEF RowTold
      <3> QED
        BY <3>1, <3>2
    <2> QED
      BY <2>1, <2>3, <2>4, <2>5, <2>6, OneTold
  <1> QED
    BY <1>3, <1>4, <1>5

LEMMA SentAndSettled ==
    ASSUME TypeOK, Told, NEW d \in Delivery, Settled(d)
    PROVE  posts[d] > 0 \/ row[d].event = NoEvent
  BY DEF Told, RowTold, Settled

(* A row that time, or a resend of it, moves on, and one that is pruned. *)
LEMMA TimeKept ==
    ASSUME TypeOK, TypeOK', NoLoss,
           \/ \E d \in Delivery : Prune(d) \/ RetryDue(d) \/ LeaseOver(d)
           \/ \E s \in sends : CancelOriginal(s)
    PROVE  FreshIds' /\ Told' /\ NoneLost'
  <1>1. row \in [Delivery -> Row]
    BY Types
  <1>2. UNCHANGED <<lastDelivery, fanned, endpoint, logged, posts>> /\ sends' \subseteq sends
    BY DEF Prune, RetryDue, LeaseOver, CancelOriginal, Ends, bus
  <1>3. CASE \E d \in Delivery : Prune(d)
    <2>1. PICK d \in Delivery : Settled(d) /\ row' = [row EXCEPT ![d] = NoRow]
      BY <1>3 DEF Prune
    <2>2. NoRow.status = "absent" /\ NoRow.event = NoEvent
      BY DEF NoRow
    <2>3. \A c \in Delivery : row'[c] = IF c = d THEN NoRow ELSE row[c]
      BY <1>1, <2>1
    <2>4. posts[d] > 0 \/ row[d].event = NoEvent
      BY <2>1, SentAndSettled DEF NoLoss
    <2> HIDE DEF NoRow
    <2>5. \A c \in Delivery :
             /\ row'[c].status # "absent" => Queued(c)
             /\ RowTold(row'[c], posts'[c] > 0)
             /\ row[c].event = NoEvent => row'[c].event = NoEvent
             /\ \/ posts'[c] > 0
                \/ row[c].event = NoEvent
                \/ row'[c] = row[c]
      BY <1>2, <2>2, <2>3, <2>4 DEF NoLoss, Told, RowTold, Queued
    <2>6. \A c \in Delivery : row'[c] = row[c] => (Queued(c) => row'[c].status # "absent")
      BY DEF Queued
    <2> QED
      BY <1>2, <2>5, <2>6, NoneTakenFromRows
  <1>4. CASE ~\E d \in Delivery : Prune(d)
    <2>1. \A c \in Delivery : /\ row'[c].status = row[c].status
                              /\ row'[c].endpoint = row[c].endpoint
                              /\ row'[c].event = row[c].event
      <3>1. ASSUME NEW d \in Delivery, RetryDue(d) \/ LeaseOver(d), NEW c \in Delivery
            PROVE  /\ row'[c].status = row[c].status
                   /\ row'[c].endpoint = row[c].endpoint
                   /\ row'[c].event = row[c].event
        BY <1>1, <3>1 DEF RetryDue, LeaseOver, Row
      <3>2. ASSUME NEW s \in sends, CancelOriginal(s), NEW c \in Delivery
            PROVE  /\ row'[c].status = row[c].status
                   /\ row'[c].endpoint = row[c].endpoint
                   /\ row'[c].event = row[c].event
        BY <1>1, <3>2 DEF CancelOriginal, Row
      <3> QED
        BY <1>4, <3>1, <3>2
    <2>2. \A c \in Delivery : /\ row'[c].status # "absent" <=> Queued(c)
                              /\ RowTold(row'[c], posts'[c] > 0)
      BY <1>2, <2>1 DEF NoLoss, Told, RowTold, Queued
    <2> QED
      BY <1>2, <2>1, <2>2, NoneTakenFromRows
  <1> QED
    BY <1>3, <1>4

LEMMA DeleteKept ==
    ASSUME TypeOK, TypeOK', NoLoss, NEW ep \in Endpoint, Delete(ep)
    PROVE  FreshIds' /\ Told' /\ NoneLost'
  <1>1. /\ endpoint' = [endpoint EXCEPT ![ep] = [state |-> "deleted", failures |-> 0]]
        /\ UNCHANGED <<lastDelivery, fanned, logged, posts, sends>>
        /\ endpoint \in [Endpoint -> EndpointRow]
    BY Types DEF Delete, StartPublish
  <1>2. \A d \in Delivery : row'[d] = IF row[d].endpoint = ep THEN NoRow ELSE row[d]
    BY DEF Delete
  <1>3. NoRow.status = "absent" /\ NoRow.event = NoEvent
    BY DEF NoRow
  <1>4. \A a \in Endpoint :
           endpoint'[a].state \in {"active", "off"} => endpoint[a].state \in {"active", "off", "new"}
    BY <1>1
  <1>5. endpoint'[ep].state \notin {"active", "off"}
    BY <1>1
  <1> HIDE DEF NoRow
  <1>6. \A d \in Delivery :
           /\ posts[d] > 0 => posts'[d] > 0
           /\ row'[d].status # "absent" => Queued(d)
           /\ RowTold(row'[d], posts'[d] > 0)
           /\ row[d].event = NoEvent => row'[d].event = NoEvent
           /\ \/ row'[d] = row[d]
              \/ endpoint'[row[d].endpoint].state \notin {"active", "off"}
    BY <1>1, <1>2, <1>3, <1>5 DEF NoLoss, Told, RowTold, Queued
  <1>7. \A d \in Delivery : row'[d] = row[d] => (Queued(d) => row'[d].status # "absent")
    BY DEF Queued
  <1> QED
    BY <1>1, <1>4, <1>6, <1>7, NoneTaken

(* One delivery for each endpoint: as many ids as endpoints, no two for the same. *)
LEMMA OntoByCount ==
    ASSUME NEW S, NEW T, IsFiniteSet(S), IsFiniteSet(T), Cardinality(S) = Cardinality(T),
           NEW f \in [S -> T], \A c, d \in S : f[c] = f[d] => c = d, NEW y \in T
    PROVE  \E x \in S : f[x] = y
  <1> SUFFICES ASSUME \A x \in S : f[x] # y PROVE FALSE
    OBVIOUS
  <1>1. f \in [S -> T \ {y}]
    OBVIOUS
  <1>2. Cardinality(T) \in Nat /\ IsFiniteSet(T \ {y}) /\ Cardinality(T \ {y}) = Cardinality(T) - 1
    BY FS_RemoveElement, FS_CardinalityType
  <1>3. Cardinality(T \ {y}) < Cardinality(S)
    BY <1>2
  <1> QED
    BY <1>1, <1>2, <1>3, FS_PigeonHole

LEMMA SpanCount ==
    ASSUME NEW lo \in Nat, NEW n \in Nat
    PROVE  IsFiniteSet(lo + 1 .. lo + n) /\ Cardinality(lo + 1 .. lo + n) = n
  <1>1. PICK a \in Int, b \in Int : a = lo + 1 /\ b = lo + n
    OBVIOUS
  <1>2. IsFiniteSet(a .. b) /\ Cardinality(a .. b) = (IF a > b THEN 0 ELSE b - a + 1)
    BY ONLY FS_Interval
  <1> QED
    BY <1>1, <1>2

(* The deliveries of an event that commits. *)
LEMMA InsertKept ==
    ASSUME TypeOK, TypeOK', NoLoss, NEW p \in publishing, Insert(p), ForeignKeysHold(p)
    PROVE  FreshIds' /\ Told' /\ NoneLost'
  <1>0. PICK last \in Nat : last = lastDelivery
    BY Types, BoundsAssumption DEF Delivery
  <1>17. PICK to : to = p.to
    OBVIOUS
  <1>18. PICK n : n = Cardinality(to)
    OBVIOUS
  <1>16. PICK ids : ids = last + 1 .. last + n
    OBVIOUS
  <1>1. /\ ids \subseteq Delivery /\ lastDelivery' = lastDelivery + Cardinality(p.to)
        /\ logged' = logged \cup {p.event}
        /\ \E order \in [ids -> p.to] : /\ \A c, d \in ids : order[c] = order[d] => c = d
                                        /\ FanOut(p.event, p.to, order)
                                        /\ fanned' = fanned \cup {Fanned(p, order)}
        /\ UNCHANGED <<endpoint, sends, posts>>
    BY <1>0, <1>16, <1>17, <1>18 DEF Insert
  <1>2. /\ p.event \in Event /\ p.to \subseteq Endpoint /\ fanned \subseteq Statement
        /\ lastDelivery \in Nat /\ row \in [Delivery -> Row] /\ sends \subseteq Send
        /\ \A d \in Delivery : d \in Nat
    BY Types, BoundsAssumption DEF Publishing, Delivery
  <1>3. IsFiniteSet(to) /\ n \in Nat
    BY <1>2, <1>17, <1>18, BoundsAssumption, FS_Subset, FS_CardinalityType
  <1>4. ids \in SUBSET Nat /\ IsFiniteSet(ids) /\ Cardinality(ids) = Cardinality(to)
    BY <1>0, <1>3, <1>16, <1>18, SpanCount
  <1>5. \A d \in ids : d > lastDelivery /\ d <= lastDelivery'
    BY <1>0, <1>1, <1>3, <1>16, <1>17, <1>18
  <1>6. PICK order \in [ids -> p.to] : /\ \A c, d \in ids : order[c] = order[d] => c = d
                                       /\ FanOut(p.event, p.to, order)
                                       /\ fanned' = fanned \cup {Fanned(p, order)}
    BY <1>1
  <1> DEFINE f == Fanned(p, order)
  <1>7. /\ f.event = p.event /\ f.to = p.to
        /\ \A d \in Delivery : f.made[d] = IF d \in ids THEN order[d] ELSE NoEndpoint
    BY <1>6 DEF Fanned
  <1>8. fanned' = fanned \cup {f}
    BY <1>6
  <1> HIDE DEF f
  <1>9. \A d \in ids : d \in Delivery /\ row'[d] = NewRow(order[d], p.event) /\ order[d] \in Endpoint
    BY <1>1, <1>2, <1>6 DEF FanOut
  <1>10. \A d \in Delivery \ ids : row'[d] = row[d]
    BY <1>6 DEF FanOut
  <1>11. \A d \in ids : /\ row'[d].status = "pending"
                        /\ row'[d].endpoint = order[d] /\ row'[d].event = p.event
    BY <1>2, <1>9, NewRowIsRow
  <1>12. \A d \in ids : /\ ~Queued(d) /\ \A s \in sends : s.d # d
                        /\ \A q \in fanned : q.made[d] = NoEndpoint
    BY <1>1, <1>5 DEF NoLoss, FreshIds
  <1>13. FreshIds'
    <2> SUFFICES ASSUME NEW d \in Delivery, d > lastDelivery'
                 PROVE  /\ row'[d].status = "absent"
                        /\ \A s \in sends : s.d # d
                        /\ \A q \in fanned' : q.made[d] = NoEndpoint
      BY <1>1 DEF FreshIds, Queued
    <2>1. d \notin ids /\ d > lastDelivery
      BY <1>0, <1>1, <1>2, <1>3, <1>5, <1>17, <1>18
    <2> QED
      BY <1>7, <1>8, <1>10, <2>1 DEF NoLoss, FreshIds, Queued
  <1>14. Told'
    <2>1. \A d \in Delivery : RowTold(row'[d], posts'[d] > 0)
      BY <1>1, <1>10, <1>11 DEF NoLoss, Told, RowTold
    <2>2. ASSUME NEW s \in sends
          PROVE  SendTold(s)'
      <3>1. s.d \in Delivery /\ s.d \notin ids
        BY <1>2, <1>12 DEF Send
      <3> QED
        BY <1>1, <1>10, <3>1 DEF NoLoss, Told, SendTold
    <2> QED
      BY <1>1, <2>1, <2>2 DEF Told
  <1>15. NoneLost'
    <2> SUFFICES ASSUME NEW q \in fanned', q.event \in logged', NEW ep \in q.to, Exists(ep)
                 PROVE  \E d \in Delivery :
                          /\ q.made[d] = ep
                          /\ \/ posts[d] > 0
                             \/ /\ row'[d].status # "absent"
                                /\ row'[d].event = q.event /\ row'[d].endpoint = ep
      BY <1>1 DEF NoneLost, Exists, Carries, Queued
    <2>1. CASE q \in fanned
      <3>1. q.event # p.event /\ ep \in Endpoint /\ ep # NoEndpoint
        BY <1>2, <2>1, BoundsAssumption DEF NoLoss, OwnEvents, Statement
      <3>2. PICK d \in Delivery : q.made[d] = ep /\ (posts[d] > 0 \/ Carries(d, q.event, ep))
        BY <1>1, <2>1, <3>1 DEF NoLoss, NoneLost
      <3>3. d \notin ids
        BY <1>12, <2>1, <3>1, <3>2
      <3> QED
        BY <1>10, <3>2, <3>3 DEF Carries, Queued
    <2>2. CASE q = f
      <3>1. ep \in p.to
        BY <1>7, <2>2
      <3>2. PICK d \in ids : order[d] = ep
        <4>1. order \in [ids -> to] /\ ep \in to
          BY <1>6, <1>17, <3>1
        <4>2. \A c, d \in ids : order[c] = order[d] => c = d
          BY <1>6
        <4>3. IsFiniteSet(ids) /\ IsFiniteSet(to) /\ Cardinality(ids) = Cardinality(to)
          BY <1>3, <1>4
        <4> QED
          BY ONLY <4>1, <4>2, <4>3, OntoByCount
      <3> QED
        BY <1>7, <1>9, <1>11, <2>2, <3>2
    <2> QED
      BY <1>8, <2>1, <2>2
  <1> QED
    BY <1>13, <1>14, <1>15

(* A delivery made by hand is nobody's fan-out. *)
LEMMA SendNowKept ==
    ASSUME TypeOK, TypeOK', NoLoss, NEW r, NEW kind, NEW new \in Row, NEW original,
           new.status = "pending", SendNow(r, kind, new, original)
    PROVE  FreshIds' /\ Told' /\ NoneLost'
  <1> DEFINE n == lastDelivery + 1
             s == Sending(r, kind, n, 0, original, "ready")
             w == [new EXCEPT !.lease = "held"]
  <1>1. /\ n \in Delivery /\ lastDelivery' = n /\ n > lastDelivery
        /\ lastDelivery \in Nat /\ row \in [Delivery -> Row] /\ sends \subseteq Send
        /\ \A d \in Delivery : d \in Nat
    BY Types, BoundsAssumption DEF SendNow, Delivery, NoDelivery
  <1>2. /\ row' = [row EXCEPT ![n] = w] /\ sends' = sends \cup {s}
        /\ UNCHANGED <<endpoint, logged, fanned, posts>>
    BY DEF SendNow, bus
  <1>3. w.status = "pending" /\ s.d = n /\ s.phase = "ready"
    BY DEF Row, Sending
  <1> HIDE DEF n, s, w
  <1>4. /\ ~Queued(n) /\ \A t \in sends : t.d # n
        /\ \A p \in fanned : p.made[n] = NoEndpoint
    BY <1>1 DEF NoLoss, FreshIds
  <1>5. row'[n].status = "pending" /\ \A d \in Delivery \ {n} : row'[d] = row[d]
    BY <1>1, <1>2, <1>3
  <1>6. FreshIds'
    <2> SUFFICES ASSUME NEW d \in Delivery, d > n
                 PROVE  /\ row'[d].status = "absent"
                        /\ \A t \in sends' : t.d # d
                        /\ \A p \in fanned : p.made[d] = NoEndpoint
      BY <1>1, <1>2 DEF FreshIds, Queued
    <2>1. d > lastDelivery /\ d # n
      BY <1>1
    <2> QED
      BY <1>2, <1>3, <1>5, <2>1 DEF NoLoss, FreshIds, Queued
  <1>7. Told'
    <2>1. \A d \in Delivery : RowTold(row'[d], posts'[d] > 0)
      BY <1>2, <1>5 DEF NoLoss, Told, RowTold
    <2>2. ASSUME NEW t \in sends'
          PROVE  SendTold(t)'
      <3>1. CASE t \in sends
        <4>1. t.d \in Delivery /\ t.d # n
          BY <1>1, <1>4, <3>1 DEF Send
        <4> QED
          BY <1>2, <1>5, <3>1, <4>1 DEF NoLoss, Told, SendTold
      <3>2. CASE t \notin sends
        <4>1. t.phase = "ready"
          BY <1>2, <1>3, <3>2
        <4> QED
          BY <4>1 DEF SendTold
      <3> QED
        BY <3>1, <3>2
    <2> QED
      BY <2>1, <2>2 DEF Told
  <1>8. NoneLost'
    <2> SUFFICES ASSUME NEW q \in fanned, q.event \in logged, NEW ep \in q.to, Exists(ep)
                 PROVE  \E d \in Delivery :
                          /\ q.made[d] = ep
                          /\ \/ posts[d] > 0
                             \/ /\ row'[d].status # "absent"
                                /\ row'[d].event = q.event /\ row'[d].endpoint = ep
      BY <1>2 DEF NoneLost, Exists, Carries, Queued
    <2>1. ep # NoEndpoint
      BY Types, BoundsAssumption DEF Statement
    <2>2. PICK d \in Delivery : q.made[d] = ep /\ (posts[d] > 0 \/ Carries(d, q.event, ep))
      BY DEF NoLoss, NoneLost
    <2>3. d # n
      BY <1>4, <2>1, <2>2
    <2> QED
      BY <1>5, <2>2, <2>3 DEF Carries, Queued
  <1> QED
    BY <1>6, <1>7, <1>8

LEMMA HandKept ==
    ASSUME TypeOK, TypeOK', Tidy, NoLoss, NEW r \in Replica,
           (\E ep \in Endpoint : Ping(r, ep)) \/ \E d \in Delivery : Resend(r, d)
    PROVE  FreshIds' /\ Told' /\ NoneLost'
  <1>1. ASSUME NEW ep \in Endpoint, Ping(r, ep)
        PROVE  FreshIds' /\ Told' /\ NoneLost'
    <2> DEFINE new == [NewRow(ep, NoEvent) EXCEPT !.due = "never"]
    <2>1. NewRow(ep, NoEvent) \in Row /\ NewRow(ep, NoEvent).status = "pending"
      BY NewRowIsRow
    <2>2. new \in Row /\ new.status = "pending"
      BY <2>1 DEF Row
    <2>3. SendNow(r, "ping", new, NoDelivery)
      BY <1>1 DEF Ping
    <2> HIDE DEF new
    <2> QED
      BY <2>2, <2>3, SendNowKept
  <1>2. ASSUME NEW d \in Delivery, Resend(r, d)
        PROVE  FreshIds' /\ Told' /\ NoneLost'
    <2> DEFINE new == NewRow(row[d].endpoint, row[d].event)
    <2>1. row[d].endpoint \in Endpoint /\ row[d].event \in Event \cup {NoEvent}
      BY <1>2, Types DEF Resend, Tidy, Addressed, Queued, Row
    <2>2. new \in Row /\ new.status = "pending"
      BY <2>1, NewRowIsRow
    <2>3. SendNow(r, "resend", new, d)
      BY <1>2 DEF Resend
    <2> HIDE DEF new
    <2> QED
      BY <2>2, <2>3, SendNowKept
  <1> QED
    BY <1>1, <1>2

LEMMA EveryStepKeeps ==
    ASSUME TypeOK, TypeOK', Tidy, Anchored, NoLoss, [Next]_vars
    PROVE  NoLoss'
  <1>1. OwnEvents'
    BY OwnEventsKept DEF NoLoss
  <1>2. CASE \/ Publish
             \/ \E p \in publishing : Insert(p) /\ ~ForeignKeysHold(p)
             \/ \E r \in Replica : Drain(r) \/ BatchDone(r) \/ Crash(r) \/ BatchFails(r)
             \/ \E s \in sends : Reset(s) \/ Count(s) \/ SendFails(s)
             \/ \E ep \in Endpoint : (\E state \in {"active", "off"} : Create(ep, state))
                                     \/ \E active \in BOOLEAN : Edit(ep, active)
             \/ \E x \in edits : SaveEdit(x)
             \/ UNCHANGED vars
    BY <1>1, <1>2, QuietKept DEF NoLoss
  <1>3. CASE \/ \E p \in publishing : Insert(p) /\ ForeignKeysHold(p)
             \/ \E e \in logged : ArchiveEvent(e)
             \/ \E r \in Replica : Claim(r) \/ Load(r)
             \/ \E s \in sends : MarkDead(s) \/ Post(s) \/ Record(s) \/ CancelOriginal(s)
             \/ \E r \in Replica : (\E ep \in Endpoint : Ping(r, ep)) \/ \E d \in Delivery : Resend(r, d)
             \/ \E ep \in Endpoint : Delete(ep)
             \/ \E d \in Delivery : Prune(d) \/ RetryDue(d) \/ LeaseOver(d)
    BY <1>1, <1>3, InsertKept, ArchiveKept, ClaimKept, LoadKept, SendKept, TimeKept, HandKept, DeleteKept
       DEF NoLoss
  <1> QED
    BY <1>2, <1>3 DEF Next, Works, Steps, Administrate

LEMMA InitKept == Init => NoLoss
  BY DEF Init, NoLoss, OwnEvents, FreshIds, Told, RowTold, NoneLost, Queued, NoRow, NoEvent

(* bus.ts:154-156: for any replicas, endpoints and bounds, every queued delivery has its
   endpoint, and an event that is on record or was archived; and while an event is on
   record, no endpoint that its statement saw goes without it, unless deleted. *)
THEOREM DeliveriesAnchored == Spec => [](TypeOK /\ NoOrphans)
PROOF
  <1>1. Init => TypeOK /\ Tidy /\ Anchored /\ NoLoss
    <2>1. Init => Anchored
      BY DEF Init, Anchored, Queued, NoRow
    <2> QED
      BY <2>1, InitTidy, InitKept
  <1>2. TypeOK /\ Tidy /\ Anchored /\ NoLoss /\ [Next]_vars => (TypeOK /\ Tidy /\ Anchored /\ NoLoss)'
    BY TidyKept, AnchoredKept, EveryStepKeeps
  <1>3. Anchored /\ NoLoss => NoOrphans
    BY DEF NoLoss, NoOrphans
  <1> QED
    BY <1>1, <1>2, <1>3, PTL DEF Spec
-----------------------------------------------------------------------------
(* A replica sends no more than a batch. *)

Few(W) == IsFiniteSet(W) /\ Cardinality(W) <= Batch

(* A replica that has not claimed yet sends nothing. *)
Throng == \A r \in Replica :
    /\ Few(WorkerSends(r))
    /\ worker[r] \in {"idle", "claim"} => WorkerSends(r) = {}

LEMMA NoneIsFew == Few({})
  BY FS_EmptySet, BoundsAssumption DEF Few

LEMMA FewMoved ==
    ASSUME NEW W, NEW S, NEW V, Few(W), NEW f \in [W -> S],
           \A v \in V : \E s \in W : v = f[s]
    PROVE  Few(V)
  <1> DEFINE T == {f[s] : s \in W}
  <1>1. f \in Surjection(W, T)
    BY DEF Surjection
  <1>2. IsFiniteSet(T) /\ Cardinality(T) <= Cardinality(W)
    BY <1>1, FS_Surjection DEF Few
  <1>3. V \in SUBSET T
    OBVIOUS
  <1> HIDE DEF T
  <1>4. IsFiniteSet(V) /\ Cardinality(V) <= Cardinality(T)
    BY <1>2, <1>3, FS_Subset
  <1>5. Cardinality(V) \in Nat /\ Cardinality(T) \in Nat /\ Cardinality(W) \in Nat
    BY <1>2, <1>4, FS_CardinalityType DEF Few
  <1> QED
    BY <1>2, <1>4, <1>5, BoundsAssumption DEF Few

LEMMA FewLess ==
    ASSUME NEW W, NEW V \in SUBSET W, Few(W)
    PROVE  Few(V)
  <1> DEFINE f == [s \in W |-> s]
  <1>1. f \in [W -> W] /\ \A v \in V : \E s \in W : v = f[s]
    OBVIOUS
  <1> HIDE DEF f
  <1> QED
    BY <1>1, FewMoved

(* A send moves on to another phase or ends. *)
LEMMA ThrongOneMoves ==
    ASSUME TypeOK, Throng, NEW s \in sends, worker' = worker,
           \/ Ends(s)
           \/ \E phase \in {"claimed", "gone", "ready", "ok", "failed", "reset", "count", "cancel"} :
                 Moves(s, phase)
    PROVE  Throng'
  <1> SUFFICES ASSUME NEW r \in Replica
               PROVE  Few(WorkerSends(r)') /\ (WorkerSends(r) = {} => WorkerSends(r)' = {})
    BY DEF Throng, Few
  <1>1. Few(WorkerSends(r)) /\ sends \subseteq Send
    BY Types DEF Throng
  <1>2. CASE Ends(s)
    <2>1. WorkerSends(r)' \in SUBSET WorkerSends(r)
      BY <1>2 DEF Ends, WorkerSends
    <2> QED
      BY <1>1, <2>1, FewLess
  <1>3. ASSUME NEW phase \in {"claimed", "gone", "ready", "ok", "failed", "reset", "count", "cancel"},
               Moves(s, phase)
        PROVE  Few(WorkerSends(r)') /\ (WorkerSends(r) = {} => WorkerSends(r)' = {})
    <2>1. PICK t : t = [s EXCEPT !.phase = phase]
      OBVIOUS
    <2> DEFINE f == [x \in WorkerSends(r) |-> IF x = s THEN t ELSE x]
    <2>2. t \in Send /\ t.by = s.by /\ t.kind = s.kind
      <3>1. s \in Send
        BY <1>1
      <3> QED
        BY <2>1, <3>1, Moved
    <2>3. sends' = (sends \ {s}) \cup {t}
      BY <1>3, <2>1 DEF Moves
    <2>4. f \in [WorkerSends(r) -> Send]
      BY <1>1, <2>2 DEF WorkerSends
    <2>5. \A y \in WorkerSends(r)' : \E x \in WorkerSends(r) : y = f[x]
      BY <2>2, <2>3 DEF WorkerSends
    <2> HIDE DEF f
    <2>6. Few(WorkerSends(r)')
      BY <1>1, <2>4, <2>5, FewMoved
    <2> QED
      BY <2>5, <2>6
  <1> QED
    BY <1>2, <1>3

LEMMA ThrongSame ==
    ASSUME Throng,
           \A r \in Replica : /\ WorkerSends(r)' = WorkerSends(r)
                              /\ worker'[r] \in {"idle", "claim"} /\ worker[r] \notin {"idle", "claim"}
                                   => WorkerSends(r) = {}
    PROVE  Throng'
  BY DEF Throng, Few

LEMMA ThrongKept ==
    ASSUME TypeOK, Tidy, Throng, [Next]_vars
    PROVE  Throng'
  <1>1. sends \subseteq Send /\ worker \in [Replica -> {"idle", "claim", "batch", "full"}]
    BY Types
  <1>2. ASSUME UNCHANGED <<sends, worker>>
        PROVE  Throng'
    BY <1>2, ThrongSame DEF WorkerSends
  <1>3. CASE Publish
    BY <1>2, <1>3 DEF Publish, workers
  <1>4. ASSUME NEW p \in publishing, Insert(p)
        PROVE  Throng'
    BY <1>2, <1>4 DEF Insert, workers
  <1>5. ASSUME NEW e \in logged, ArchiveEvent(e)
        PROVE  Throng'
    BY <1>2, <1>5 DEF ArchiveEvent, workers
  <1>6. ASSUME NEW r \in Replica, Drain(r)
        PROVE  Throng'
    <2>1. sends' = sends /\ (worker' = worker \/ (worker[r] = "idle" /\ worker' = [worker EXCEPT ![r] = "claim"]))
      BY <1>6 DEF Drain
    <2> QED
      BY <1>1, <2>1, ThrongSame DEF WorkerSends
  <1>7. ASSUME NEW r \in Replica, Claim(r)
        PROVE  Throng'
    <2> DEFINE due == {d \in Delivery : Due(d)}
    <2>1. CASE due = {}
      <3>1. sends' = sends /\ worker[r] = "claim"
            /\ worker' = [worker EXCEPT ![r] = IF rerun[r] THEN "claim" ELSE "idle"]
        BY <1>7, <2>1 DEF Claim
      <3> QED
        BY <1>1, <3>1, ThrongSame DEF WorkerSends
    <2>2. CASE due # {}
      <3>1. PICK claimed \in SUBSET due :
              /\ Cardinality(claimed) = IF Cardinality(due) < Batch THEN Cardinality(due) ELSE Batch
              /\ sends' = sends \cup
                   {Sending(r, "worker", d, row[d].attempts, NoDelivery, "claimed") : d \in claimed}
              /\ worker' = [worker EXCEPT ![r] = IF Cardinality(claimed) = Batch THEN "full" ELSE "batch"]
        BY <1>7, <2>2 DEF Claim
      <3>2. worker[r] = "claim"
        BY <1>7 DEF Claim
      <3> DEFINE f == [d \in claimed |-> Sending(r, "worker", d, row[d].attempts, NoDelivery, "claimed")]
                 new == {f[d] : d \in claimed}
      <3>3. IsFiniteSet(due) /\ IsFiniteSet(claimed)
        <4>1. IsFiniteSet(Delivery)
          BY FS_Interval, BoundsAssumption DEF Delivery
        <4>2. due \in SUBSET Delivery /\ claimed \in SUBSET Delivery
          BY <3>1
        <4> QED
          BY <4>1, <4>2, FS_Subset
      <3>4. Few(claimed)
        <4> HIDE DEF due
        <4>1. Cardinality(due) \in Nat
          BY <3>3, FS_CardinalityType
        <4> QED
          BY <3>1, <3>3, <4>1, BoundsAssumption DEF Few
      <3>5. sends' = sends \cup new /\ \A x \in new : x.by = r /\ x.kind = "worker"
        BY <3>1 DEF Sending
      <3>6. Few(new)
        <4>1. f \in [claimed -> {f[d] : d \in claimed}]
          OBVIOUS
        <4> HIDE DEF f
        <4>2. f \in [claimed -> new] /\ \A x \in new : \E d \in claimed : x = f[d]
          BY <4>1
        <4> HIDE DEF new
        <4> QED
          BY <3>4, <4>2, FewMoved
      <3> HIDE DEF new, f, due
      <3>7. WorkerSends(r)' = new
        <4>1. WorkerSends(r) = {}
          BY <3>2 DEF Throng
        <4> QED
          BY <3>5, <4>1 DEF WorkerSends
      <3>8. \A q \in Replica : q # r => WorkerSends(q)' = WorkerSends(q) /\ worker'[q] = worker[q]
        BY <1>1, <3>1, <3>5 DEF WorkerSends
      <3>9. worker'[r] \notin {"idle", "claim"}
        BY <1>1, <3>1
      <3> QED
        BY <3>6, <3>7, <3>8, <3>9 DEF Throng, Few
    <2> QED
      BY <2>1, <2>2
  <1>8. ASSUME NEW r \in Replica, Load(r)
        PROVE  Throng'
    <2> DEFINE f == [s \in WorkerSends(r) |-> IF s \in ClaimedBy(r) THEN Loaded(s) ELSE s]
    <2>1. sends' = (sends \ ClaimedBy(r)) \cup {Loaded(s) : s \in ClaimedBy(r)} /\ worker' = worker
      BY <1>8, LoadSends DEF Load, workers
    <2>2. \A s \in ClaimedBy(r) : s.by = r /\ Loaded(s) \in Send /\ Loaded(s).by = r
                                  /\ Loaded(s).kind = "worker"
      BY <1>8, LoadSends
    <2>3. f \in [WorkerSends(r) -> Send]
      BY <1>1, <2>2 DEF WorkerSends
    <2>4. \A y \in WorkerSends(r)' : \E s \in WorkerSends(r) : y = f[s]
      BY <2>1, <2>2 DEF WorkerSends, ClaimedBy
    <2> HIDE DEF f
    <2>5. \A q \in Replica : q # r => WorkerSends(q)' = WorkerSends(q)
      BY <2>1, <2>2 DEF WorkerSends
    <2>6. Few(WorkerSends(r)')
      <3>1. Few(WorkerSends(r))
        BY DEF Throng
      <3> QED
        BY <2>3, <2>4, <3>1, FewMoved
    <2> QED
      BY <2>1, <2>4, <2>5, <2>6 DEF Throng, Few
  <1>9. ASSUME NEW r \in Replica, BatchDone(r)
        PROVE  Throng'
    <2>1. sends' = sends /\ WorkerSends(r) = {} /\ \A q \in Replica : q # r => worker'[q] = worker[q]
      BY <1>1, <1>9 DEF BatchDone
    <2> QED
      BY <2>1, ThrongSame DEF WorkerSends
  <1>10. ASSUME NEW r \in Replica, Crash(r) \/ BatchFails(r)
        PROVE  Throng'
    <2>1. /\ WorkerSends(r)' = {}
          /\ \A q \in Replica : q # r => WorkerSends(q)' = WorkerSends(q) /\ worker'[q] = worker[q]
      BY <1>1, <1>10 DEF Crash, BatchFails, WorkerSends
    <2> QED
      BY <2>1, NoneIsFew DEF Throng, Few
  <1>11. ASSUME NEW s \in sends, Steps(s) \/ SendFails(s)
         PROVE  Throng'
    <2>1. worker' = worker
      BY <1>11 DEF Steps, MarkDead, Post, Record, Reset, Count, CancelOriginal, SendFails, workers
    <2>2. \/ Ends(s)
          \/ \E phase \in {"claimed", "gone", "ready", "ok", "failed", "reset", "count", "cancel"} :
                Moves(s, phase)
      BY <1>11 DEF Steps, MarkDead, Post, Record, Reset, Count, CancelOriginal, SendFails
    <2> QED
      BY <2>1, <2>2, ThrongOneMoves
  <1>12. ASSUME NEW r \in Replica, NEW kind \in {"ping", "resend"}, NEW new, NEW original,
                SendNow(r, kind, new, original)
         PROVE  Throng'
    <2>1. \A q \in Replica : WorkerSends(q)' = WorkerSends(q)
      BY <1>12 DEF SendNow, Sending, WorkerSends
    <2>2. worker' = worker
      BY <1>12 DEF SendNow, workers
    <2> QED
      BY <2>1, <2>2, ThrongSame
  <1>13. ASSUME NEW ep \in Endpoint, Administrate(ep)
         PROVE  Throng'
    BY <1>2, <1>13 DEF Administrate, Create, Edit, Delete, workers
  <1>14. ASSUME NEW e \in edits, SaveEdit(e)
         PROVE  Throng'
    BY <1>2, <1>14 DEF SaveEdit, workers
  <1>15. ASSUME NEW d \in Delivery, Prune(d) \/ RetryDue(d) \/ LeaseOver(d)
         PROVE  Throng'
    BY <1>2, <1>15 DEF Prune, RetryDue, LeaseOver, workers
  <1>16. CASE UNCHANGED vars
    BY <1>2, <1>16 DEF vars
  <1> QED
    BY <1>3, <1>4, <1>5, <1>6, <1>7, <1>8, <1>9, <1>10, <1>11, <1>12, <1>13, <1>14, <1>15, <1>16
       DEF Next, Works, Ping, Resend

(* delivery.ts:380: whatever starts drains, a replica sends no more than a batch at once. *)
THEOREM BatchesStayFew == Spec => []OneBatchPerReplica
PROOF
  <1>1. Init => TypeOK /\ Tidy /\ Anchored /\ Throng
    <2>1. Init => Anchored
      BY DEF Init, Anchored, Queued, NoRow
    <2>2. Init => Throng
      BY NoneIsFew DEF Init, Throng, WorkerSends
    <2> QED
      BY <2>1, <2>2, InitTidy
  <1>2. TypeOK /\ Tidy /\ Anchored /\ Throng /\ [Next]_vars => (TypeOK /\ Tidy /\ Anchored /\ Throng)'
    BY TidyKept, AnchoredKept, ThrongKept
  <1>3. Throng => OneBatchPerReplica
    BY DEF Throng, Few, OneBatchPerReplica
  <1> QED
    BY <1>1, <1>2, <1>3, PTL DEF Spec
-----------------------------------------------------------------------------
(* One delivery: its row w, the sends h that hold it, the p posts its receiver got,
   and the m mishaps so far. *)

LifeOf(w) == IF w.status = "absent" THEN "absent"
             ELSE IF w.status \in {"succeeded", "dead"} \/ (w.status = "failed" /\ w.due = "never")
                  THEN "settled" ELSE "open"

Posted(s) == IF s.phase \in {"ok", "failed"} THEN 1 ELSE 0

(* At most one send holds it, on what its row says and under its lease; and the posts
   are the attempts written down, but for what a mishap kept from being so. *)
Cared(w, h, p, m) ==
    /\ p <= MaxAttempts + m
    /\ \A s, t \in h : s = t
    /\ \A s \in h :
         /\ p <= s.attempts + m + Posted(s)
         /\ w.status # "absent" =>
              w.lease = "held" /\ LifeOf(w) = "open" /\ w.attempts = s.attempts
    /\ h = {} /\ w.status # "absent" => p <= w.attempts + m

Blank(w, h, p) == w.status = "absent" /\ h = {} /\ p = 0

DeliveriesCared ==
    \A d \in Delivery : /\ Cared(row[d], SendsOf(d), posts[d], mishaps)
                        /\ d > lastDelivery => Blank(row[d], SendsOf(d), posts[d])

(* What WebhookQueue lets a step do to it. *)
Part(w, h, v, g) ==
    \/ LifeOf(v) = LifeOf(w) /\ (g = {} <=> h = {})
    \/ LifeOf(w) = "absent" /\ h = {} /\ LifeOf(v) = "open"
    \/ LifeOf(w) = "open" /\ h = {} /\ LifeOf(v) = "open" /\ g # {}
    \/ LifeOf(w) = "open" /\ h # {} /\ LifeOf(v) \in {"open", "settled"} /\ g = {}
    \/ h # {} /\ LifeOf(v) = LifeOf(w) /\ g = {}
    \/ LifeOf(w) = "open" /\ h = {} /\ LifeOf(v) = "settled" /\ g = {}
    \/ LifeOf(v) = "absent" /\ (g = {} <=> h = {})

(* What a step makes of a delivery d: where it was cared for, it still is. *)
Turns(d, w, h, p, m) ==
    /\ Cared(w, h, p, m)
    /\ Part(row[d], SendsOf(d), w, h)

LEMMA Settledness == \A d \in Delivery : LifeOf(row[d]) = IF ~Queued(d) THEN "absent"
                                           ELSE IF Settled(d) THEN "settled" ELSE "open"
  BY DEF LifeOf, Queued, Settled

LEMMA RowTyped == ASSUME TypeOK, NEW d \in Delivery PROVE row[d] \in Row
  BY Types

LEMMA CaredTypes ==
    ASSUME TypeOK, NEW d \in Delivery
    PROVE  /\ row[d] \in Row /\ SendsOf(d) \subseteq Send /\ posts[d] \in Nat /\ mishaps \in Nat
           /\ MaxAttempts \in Nat \ {0} /\ row[d].attempts \in Nat
           /\ \A s \in SendsOf(d) :
                s \in sends /\ s.d = d /\ s.phase \in Hand /\ s.attempts \in Nat /\ s.attempts < MaxAttempts
  BY Types, BoundsAssumption DEF SendsOf, Hand, Row, Send

(* Nothing happened to it, or at most a mishap elsewhere. *)
LEMMA Unmoved ==
    ASSUME TypeOK, DeliveriesCared, NEW d \in Delivery, NEW m \in {mishaps, mishaps + 1}
    PROVE  Turns(d, row[d], SendsOf(d), posts[d], m)
  <1>1. Cared(row[d], SendsOf(d), posts[d], mishaps)
    BY DEF DeliveriesCared
  <1>2. \A s \in SendsOf(d) : s.attempts \in Nat /\ Posted(s) \in Nat
    BY CaredTypes DEF Posted
  <1>3. /\ posts[d] \in Nat /\ mishaps \in Nat /\ row[d].attempts \in Nat /\ MaxAttempts \in Nat
    BY CaredTypes
  <1>4. Cared(row[d], SendsOf(d), posts[d], m)
    BY <1>1, <1>2, <1>3 DEF Cared
  <1> QED
    BY <1>4 DEF Turns, Part

(* Its row changed in what nobody who holds it minds. *)
LEMMA Retouched ==
    ASSUME TypeOK, DeliveriesCared, NEW d \in Delivery, NEW w \in Row,
           w.status = row[d].status, w.attempts = row[d].attempts, w.lease = row[d].lease,
           w.due = "never" <=> row[d].due = "never"
    PROVE  Turns(d, w, SendsOf(d), posts[d], mishaps)
  <1>1. LifeOf(w) = LifeOf(row[d])
    BY DEF LifeOf
  <1>2. Cared(row[d], SendsOf(d), posts[d], mishaps)
    BY DEF DeliveriesCared
  <1>3. Cared(w, SendsOf(d), posts[d], mishaps)
    BY <1>1, <1>2 DEF Cared
  <1> QED
    BY <1>1, <1>3 DEF Turns, Part

(* Its row is gone. *)
LEMMA RowGone ==
    ASSUME TypeOK, DeliveriesCared, NEW d \in Delivery
    PROVE  Turns(d, NoRow, SendsOf(d), posts[d], mishaps)
  <1>1. NoRow.status = "absent" /\ LifeOf(NoRow) = "absent"
    BY DEF NoRow, LifeOf
  <1>2. Cared(NoRow, SendsOf(d), posts[d], mishaps)
    BY <1>1 DEF DeliveriesCared, Cared
  <1> QED
    BY <1>1, <1>2 DEF Turns, Part

(* A send of it is lost without a word. *)
LEMMA SendLost ==
    ASSUME TypeOK, DeliveriesCared, NEW d \in Delivery, NEW h \in SUBSET SendsOf(d)
    PROVE  Turns(d, row[d], h, posts[d], mishaps + 1)
  <1>1. /\ posts[d] \in Nat /\ mishaps \in Nat /\ row[d].attempts \in Nat /\ MaxAttempts \in Nat
        /\ \A s \in SendsOf(d) : s.attempts \in Nat /\ Posted(s) \in {0, 1}
    BY CaredTypes DEF Posted
  <1>2. CASE h = SendsOf(d)
    BY <1>2, Unmoved
  <1>3. CASE h # SendsOf(d)
    <2>1. Cared(row[d], SendsOf(d), posts[d], mishaps)
      BY DEF DeliveriesCared
    <2>2. PICK s \in SendsOf(d) : SendsOf(d) = {s}
      BY <1>3, <2>1 DEF Cared
    <2>3. h = {}
      BY <1>3, <2>2
    <2>4. row[d].status # "absent" => posts[d] <= row[d].attempts + (mishaps + 1)
      <3>1. SUFFICES ASSUME row[d].status # "absent"
                     PROVE  posts[d] <= row[d].attempts + (mishaps + 1)
        OBVIOUS
      <3>2. posts[d] <= s.attempts + mishaps + Posted(s) /\ row[d].attempts = s.attempts
        BY <2>1, <2>2, <3>1 DEF Cared
      <3> QED
        BY <1>1, <2>2, <3>2
    <2>5. posts[d] <= MaxAttempts + (mishaps + 1)
      BY <1>1, <2>1 DEF Cared
    <2>6. Cared(row[d], h, posts[d], mishaps + 1)
      BY <2>3, <2>4, <2>5 DEF Cared
    <2> QED
      BY <2>2, <2>3, <2>6 DEF Turns, Part
  <1> QED
    BY <1>2, <1>3

(* A new delivery. *)
LEMMA Begun ==
    ASSUME TypeOK, DeliveriesCared, NEW d \in Delivery, d > lastDelivery,
           NEW w \in Row, w.status = "pending", w.attempts = 0, NEW h,
           \/ h = {}
           \/ \E s \in Send : h = {s} /\ s.attempts = 0 /\ w.lease = "held"
    PROVE  Turns(d, w, h, posts[d], mishaps)
  <1>1. Blank(row[d], SendsOf(d), posts[d])
    BY DEF DeliveriesCared
  <1>2. LifeOf(w) = "open" /\ LifeOf(row[d]) = "absent" /\ SendsOf(d) = {} /\ posts[d] = 0
    BY <1>1 DEF LifeOf, Blank
  <1>3. mishaps \in Nat /\ MaxAttempts \in Nat
    BY CaredTypes
  <1>4. Cared(w, h, 0, mishaps)
    BY <1>2, <1>3 DEF Cared, Posted
  <1> QED
    BY <1>2, <1>4 DEF Turns, Part
(* A worker claims it. *)
LEMMA Seized ==
    ASSUME TypeOK, DeliveriesCared, NEW d \in Delivery, Due(d),
           NEW w \in Row, w.status = row[d].status, w.attempts = row[d].attempts,
           w.due = row[d].due, w.lease = "held",
           NEW s \in Send, s.attempts = row[d].attempts, s.phase = "claimed"
    PROVE  SendsOf(d) = {} /\ Turns(d, w, {s}, posts[d], mishaps)
  <1>1. Cared(row[d], SendsOf(d), posts[d], mishaps)
    BY DEF DeliveriesCared
  <1>2. row[d].status \in {"pending", "failed"} /\ row[d].due = "now" /\ row[d].lease # "held"
    BY DEF Due
  <1>3. SendsOf(d) = {}
    BY <1>1, <1>2 DEF Cared
  <1>4. LifeOf(row[d]) = "open" /\ LifeOf(w) = "open"
    BY <1>2 DEF LifeOf
  <1>5. posts[d] <= row[d].attempts + mishaps + 0 /\ posts[d] <= MaxAttempts + mishaps
    BY <1>1, <1>2, <1>3, CaredTypes DEF Cared
  <1>6. Cared(w, {s}, posts[d], mishaps)
    BY <1>4, <1>5 DEF Cared, Posted
  <1> QED
    BY <1>3, <1>4, <1>6 DEF Turns, Part

(* The send that holds it goes on without telling anybody. *)
LEMMA GoesOn ==
    ASSUME TypeOK, DeliveriesCared, NEW d \in Delivery, NEW s \in SendsOf(d), NEW t \in Send,
           t.attempts = s.attempts, s.phase \notin {"ok", "failed"}, t.phase \notin {"ok", "failed"}
    PROVE  Turns(d, row[d], {t}, posts[d], mishaps)
  <1>1. Cared(row[d], SendsOf(d), posts[d], mishaps)
    BY DEF DeliveriesCared
  <1>2. Cared(row[d], {t}, posts[d], mishaps)
    BY <1>1 DEF Cared, Posted
  <1> QED
    BY <1>2 DEF Turns, Part

(* The receiver got it once more. *)
LEMMA Sent ==
    ASSUME TypeOK, DeliveriesCared, NEW d \in Delivery, NEW s \in SendsOf(d), NEW t \in Send,
           t.attempts = s.attempts, s.phase = "ready", t.phase \in {"ok", "failed"}
    PROVE  Turns(d, row[d], {t}, posts[d] + 1, mishaps)
  <1>1. Cared(row[d], SendsOf(d), posts[d], mishaps)
    BY DEF DeliveriesCared
  <1>2. posts[d] <= s.attempts + mishaps + 0
    BY <1>1 DEF Cared, Posted
  <1>3. /\ posts[d] \in Nat /\ mishaps \in Nat /\ MaxAttempts \in Nat
        /\ s.attempts \in Nat /\ s.attempts < MaxAttempts
    BY CaredTypes
  <1>4. posts[d] + 1 <= t.attempts + mishaps + Posted(t) /\ posts[d] + 1 <= MaxAttempts + mishaps
    BY <1>2, <1>3 DEF Posted
  <1>5. Cared(row[d], {t}, posts[d] + 1, mishaps)
    BY <1>1, <1>4 DEF Cared
  <1> QED
    BY <1>5 DEF Turns, Part

(* What came of it is written down, or would be, were its row still there. *)
LEMMA Recorded ==
    ASSUME TypeOK, DeliveriesCared, NEW d \in Delivery, NEW s \in SendsOf(d), NEW w \in Row,
           Queued(d) => /\ w.status \in {"succeeded", "failed", "dead"}
                        /\ w.attempts = s.attempts + Posted(s),
           ~Queued(d) => w = row[d]
    PROVE  Turns(d, w, {}, posts[d], mishaps)
  <1>1. Cared(row[d], SendsOf(d), posts[d], mishaps)
    BY DEF DeliveriesCared
  <1>2. posts[d] <= s.attempts + mishaps + Posted(s) /\ posts[d] <= MaxAttempts + mishaps
    BY <1>1 DEF Cared
  <1>3. posts[d] \in Nat /\ mishaps \in Nat /\ s.attempts \in Nat /\ Posted(s) \in Nat
    BY CaredTypes DEF Posted
  <1>4. CASE ~Queued(d)
    <2>1. Cared(row[d], {}, posts[d], mishaps)
      BY <1>2, <1>4 DEF Cared, Queued
    <2> QED
      BY <1>4, <2>1 DEF Turns, Part
  <1>5. CASE Queued(d)
    <2>1. Cared(w, {}, posts[d], mishaps)
      BY <1>2, <1>3, <1>5 DEF Cared
    <2>2. LifeOf(row[d]) = "open" /\ LifeOf(w) \in {"open", "settled"}
      BY <1>1, <1>5 DEF Cared, Queued, LifeOf
    <2> QED
      BY <2>1, <2>2 DEF Turns, Part
  <1> QED
    BY <1>4, <1>5

(* Its retry is called off. *)
LEMMA CalledOff ==
    ASSUME TypeOK, DeliveriesCared, NEW d \in Delivery, Cancellable(row[d]),
           NEW w \in Row, w.status = row[d].status, w.attempts = row[d].attempts, w.due = "never"
    PROVE  Turns(d, w, SendsOf(d), posts[d], mishaps)
  <1>1. Cared(row[d], SendsOf(d), posts[d], mishaps)
    BY DEF DeliveriesCared
  <1>2. row[d].status = "failed" /\ row[d].due # "never" /\ row[d].lease # "held"
    BY DEF Cancellable
  <1>3. SendsOf(d) = {}
    BY <1>1, <1>2 DEF Cared
  <1>4. LifeOf(row[d]) = "open" /\ LifeOf(w) = "settled"
    BY <1>2 DEF LifeOf
  <1>5. Cared(w, {}, posts[d], mishaps)
    BY <1>1, <1>2, <1>3 DEF Cared
  <1> QED
    BY <1>3, <1>4, <1>5 DEF Turns, Part

-----------------------------------------------------------------------------
(* The sends that hold a delivery after a step. *)

LEMMA HoldersAfterMove ==
    ASSUME TypeOK, DeliveriesCared, NEW s \in sends, NEW d \in Delivery,
           NEW phase \in {"claimed", "gone", "ready", "ok", "failed", "reset", "count", "cancel"},
           Moves(s, phase)
    PROVE  /\ s.d # d => SendsOf(d)' = SendsOf(d)
           /\ s.d = d /\ s.phase \notin Hand /\ phase \notin Hand => SendsOf(d)' = SendsOf(d)
           /\ s.d = d /\ s.phase \in Hand /\ phase \in Hand => SendsOf(d)' = {[s EXCEPT !.phase = phase]}
           /\ s.d = d /\ s.phase \in Hand /\ phase \notin Hand => SendsOf(d)' = {}
  <1>1. PICK t : t = [s EXCEPT !.phase = phase]
    OBVIOUS
  <1>2. t \in Send /\ t.d = s.d /\ t.phase = phase
    <2>1. s \in Send
      BY Types
    <2> QED
      BY <1>1, <2>1, Moved
  <1>3. sends' = (sends \ {s}) \cup {t}
    BY <1>1 DEF Moves
  <1>4. SendsOf(d)' = {x \in sends' : x.d = d /\ x.phase \in Hand}
    BY DEF SendsOf, Hand
  <1>5. SendsOf(d) = {x \in sends : x.d = d /\ x.phase \in Hand}
    BY DEF SendsOf, Hand
  <1>6. s.d = d /\ s.phase \in Hand => SendsOf(d) = {s}
    BY <1>5 DEF DeliveriesCared, Cared
  <1> QED
    <2>1. SendsOf(d)' = (SendsOf(d) \ {s}) \cup {x \in {t} : x.d = d /\ x.phase \in Hand}
      BY <1>3, <1>4, <1>5
    <2>2. s.d # d => SendsOf(d)' = SendsOf(d)
      BY <1>2, <1>5, <2>1
    <2>3. s.d = d /\ s.phase \notin Hand /\ phase \notin Hand => SendsOf(d)' = SendsOf(d)
      BY <1>2, <1>5, <2>1
    <2>4. s.d = d /\ s.phase \in Hand /\ phase \in Hand => SendsOf(d)' = {t}
      BY <1>2, <1>6, <2>1
    <2>5. s.d = d /\ s.phase \in Hand /\ phase \notin Hand => SendsOf(d)' = {}
      BY <1>2, <1>6, <2>1
    <2> QED
      BY <1>1, <2>2, <2>3, <2>4, <2>5

LEMMA HoldersAfterEnd ==
    ASSUME TypeOK, DeliveriesCared, NEW s \in sends, NEW d \in Delivery, Ends(s)
    PROVE  /\ s.d # d \/ s.phase \notin Hand => SendsOf(d)' = SendsOf(d)
           /\ s.d = d /\ s.phase \in Hand => SendsOf(d)' = {}
  <1>1. SendsOf(d)' = {x \in sends \ {s} : x.d = d /\ x.phase \in Hand}
    BY DEF SendsOf, Hand, Ends
  <1>2. SendsOf(d) = {x \in sends : x.d = d /\ x.phase \in Hand}
    BY DEF SendsOf, Hand
  <1>3. s.d = d /\ s.phase \in Hand => SendsOf(d) = {s}
    BY <1>2 DEF DeliveriesCared, Cared
  <1>4. SendsOf(d)' = SendsOf(d) \ {s}
    BY <1>1, <1>2
  <1> QED
    BY <1>2, <1>3, <1>4
-----------------------------------------------------------------------------
(* Every step turns every delivery so. *)

Turned(d) ==
    /\ Turns(d, row'[d], SendsOf(d)', posts'[d], mishaps')
    /\ d > lastDelivery' => Blank(row'[d], SendsOf(d)', posts'[d])

LEMMA Untouched ==
    ASSUME TypeOK, DeliveriesCared, NEW d \in Delivery,
           row'[d] = row[d], SendsOf(d)' = SendsOf(d), posts'[d] = posts[d],
           mishaps' \in {mishaps, mishaps + 1},
           d > lastDelivery' => d > lastDelivery
    PROVE  Turned(d)
  <1>1. Turns(d, row[d], SendsOf(d), posts[d], mishaps')
    BY Unmoved
  <1> QED
    BY <1>1 DEF Turned, DeliveriesCared

LEMMA Touched ==
    ASSUME TypeOK, DeliveriesCared, NEW d \in Delivery, ~Blank(row[d], SendsOf(d), posts[d]),
           NEW h, lastDelivery' = lastDelivery, SendsOf(d)' = h,
           Turns(d, row'[d], h, posts'[d], mishaps')
    PROVE  Turned(d)
  BY DEF Turned, DeliveriesCared

(* Steps that leave the queue alone. *)
LEMMA QueueLeftAlone ==
    ASSUME TypeOK, DeliveriesCared, NEW d \in Delivery,
           UNCHANGED <<row, lastDelivery, sends, posts, mishaps>>
    PROVE  Turned(d)
  <1>1. SendsOf(d)' = SendsOf(d)
    BY DEF SendsOf
  <1> QED
    BY <1>1, Untouched

LEMMA InsertTurns ==
    ASSUME TypeOK, DeliveriesCared, NEW d \in Delivery, NEW p \in publishing, Insert(p)
    PROVE  Turned(d)
  <1>1. SendsOf(d)' = SendsOf(d) /\ posts' = posts /\ mishaps' = mishaps
    BY DEF Insert, SendsOf
  <1>2. CASE ~ForeignKeysHold(p)
    BY <1>1, <1>2, Untouched DEF Insert, queue
  <1>3. CASE ForeignKeysHold(p)
    <2> DEFINE n == Cardinality(p.to)
               ids == lastDelivery + 1 .. lastDelivery + n
    <2>1. p.to \subseteq Endpoint /\ p.event \in Event
      BY Types DEF Publishing
    <2>2. n \in Nat /\ lastDelivery \in Nat
      <3>1. IsFiniteSet(p.to)
        BY <2>1, BoundsAssumption, FS_Subset
      <3> QED
        BY <3>1, FS_CardinalityType, Types DEF Delivery
    <2>3. /\ lastDelivery' = lastDelivery + n
          /\ \E order \in [ids -> p.to] : FanOut(p.event, p.to, order)
      BY <1>3 DEF Insert
    <2>4. PICK order \in [ids -> p.to] : FanOut(p.event, p.to, order)
      BY <2>3
    <2>5. d \in Nat
      BY DEF Delivery
    <2>6. CASE d \in ids
      <3>1. d > lastDelivery /\ ~(d > lastDelivery')
        BY <2>2, <2>3, <2>5, <2>6
      <3> HIDE DEF ids
      <3>2. order[d] \in Endpoint /\ row'[d] = NewRow(order[d], p.event)
        BY <2>1, <2>4, <2>6 DEF FanOut
      <3>3. row'[d] \in Row /\ row'[d].status = "pending" /\ row'[d].attempts = 0
        BY <2>1, <3>2, NewRowIsRow
      <3>4. Turns(d, row'[d], {}, posts[d], mishaps)
        BY <3>1, <3>3, Begun
      <3>5. SendsOf(d) = {}
        BY <3>1 DEF DeliveriesCared, Blank
      <3> QED
        BY <1>1, <3>1, <3>4, <3>5 DEF Turned
    <2>7. CASE d \notin ids
      <3>1. d > lastDelivery' => d > lastDelivery
        BY <2>2, <2>3, <2>5
      <3>2. row'[d] = row[d]
        <4> HIDE DEF ids
        <4> QED
          BY <2>4, <2>7 DEF FanOut
      <3> QED
        BY <1>1, <3>1, <3>2, Untouched
    <2> QED
      BY <2>6, <2>7
  <1> QED
    BY <1>2, <1>3

LEMMA ArchiveTurns ==
    ASSUME TypeOK, DeliveriesCared, NEW d \in Delivery, NEW e \in logged, ArchiveEvent(e)
    PROVE  Turned(d)
  <1> DEFINE w == IF row[d].event = e THEN [row[d] EXCEPT !.event = NoEvent] ELSE row[d]
  <1>1. row'[d] = w /\ UNCHANGED <<lastDelivery, sends, posts, mishaps>> /\ SendsOf(d)' = SendsOf(d)
    BY DEF ArchiveEvent, SendsOf
  <1>2. /\ w \in Row /\ w.status = row[d].status /\ w.attempts = row[d].attempts
        /\ w.lease = row[d].lease /\ w.due = row[d].due
    BY RowTyped DEF Row
  <1> HIDE DEF w
  <1>3. Turns(d, w, SendsOf(d), posts[d], mishaps)
    BY <1>2, Retouched
  <1>4. d > lastDelivery => Blank(w, SendsOf(d), posts[d])
    BY <1>2 DEF DeliveriesCared, Blank
  <1> QED
    BY <1>1, <1>3, <1>4 DEF Turned

LEMMA ClaimTurns ==
    ASSUME TypeOK, Tidy, DeliveriesCared, NEW d \in Delivery, NEW r \in Replica, Claim(r)
    PROVE  Turned(d)
  <1> DEFINE due == {x \in Delivery : Due(x)}
             new(x) == Sending(r, "worker", x, row[x].attempts, NoDelivery, "claimed")
  <1>1. UNCHANGED <<lastDelivery, posts, mishaps>>
    BY DEF Claim
  <1>2. CASE due = {}
    <2>1. UNCHANGED <<row, sends>>
      BY <1>2 DEF Claim
    <2> QED
      BY <1>1, <2>1, QueueLeftAlone
  <1>3. CASE due # {}
    <2>1. PICK claimed \in SUBSET due :
            /\ row' = [x \in Delivery |-> IF x \in claimed THEN [row[x] EXCEPT !.lease = "held"]
                                          ELSE row[x]]
            /\ sends' = sends \cup {new(x) : x \in claimed}
      BY <1>3 DEF Claim
    <2>2. \A x \in claimed : new(x).d = x /\ new(x).phase = "claimed"
      BY DEF Sending
    <2>3. SendsOf(d)' = SendsOf(d) \cup (IF d \in claimed THEN {new(d)} ELSE {})
      <3> HIDE DEF new
      <3> QED
        BY <2>1, <2>2 DEF SendsOf
    <2>4. CASE d \in claimed
      <3> DEFINE w == [row[d] EXCEPT !.lease = "held"]
      <3>1. Due(d) /\ row'[d] = w
        BY <2>1, <2>4
      <3>2. /\ w.status = row[d].status /\ w.attempts = row[d].attempts
            /\ w.due = row[d].due /\ w.lease = "held" /\ w \in Row
        BY RowTyped DEF Row
      <3>3. new(d) \in Send /\ new(d).attempts = row[d].attempts
        <4>1. row[d].attempts \in 0 .. MaxAttempts - 1
          BY <3>1, BoundsAssumption, CaredTypes DEF Due, Tidy, Scheduled, Row
        <4> QED
          BY <4>1, SendingIsSend DEF Hand
      <3> HIDE DEF w, new
      <3>4. SendsOf(d) = {} /\ Turns(d, w, {new(d)}, posts[d], mishaps)
        BY <2>2, <2>4, <3>1, <3>2, <3>3, Seized
      <3>5. ~Blank(row[d], SendsOf(d), posts[d])
        BY <3>1 DEF Due, Blank
      <3> QED
        BY <1>1, <2>3, <2>4, <3>1, <3>4, <3>5, Touched
    <2>5. CASE d \notin claimed
      <3>1. SendsOf(d)' = SendsOf(d) /\ row'[d] = row[d]
        BY <2>1, <2>3, <2>5
      <3> QED
        BY <1>1, <3>1, Untouched
    <2> QED
      BY <2>4, <2>5
  <1> QED
    BY <1>2, <1>3

LEMMA LoadTurns ==
    ASSUME TypeOK, DeliveriesCared, NEW d \in Delivery, NEW r \in Replica, Load(r)
    PROVE  Turned(d)
  <1>1. UNCHANGED <<row, lastDelivery, posts, mishaps>>
    BY DEF Load, queue
  <1>2. SendsOf(d)' = (SendsOf(d) \ ClaimedBy(r)) \cup {Loaded(s) : s \in ClaimedBy(r) \cap SendsOf(d)}
    BY LoadSends DEF SendsOf
  <1>3. CASE ClaimedBy(r) \cap SendsOf(d) = {}
    <2>1. SendsOf(d)' = SendsOf(d)
      BY <1>2, <1>3
    <2> QED
      BY <1>1, <2>1, Untouched
  <1>4. ASSUME NEW s \in ClaimedBy(r) \cap SendsOf(d)
        PROVE  Turned(d)
    <2>1. SendsOf(d) = {s}
      BY <1>4 DEF DeliveriesCared, Cared
    <2>2. SendsOf(d)' = {Loaded(s)}
      BY <1>2, <1>4, <2>1
    <2>3. /\ Loaded(s) \in Send /\ Loaded(s).attempts = s.attempts /\ s.phase = "claimed"
          /\ Loaded(s).phase \in {"ready", "gone"}
      BY <1>4, LoadSends
    <2>4. Turns(d, row[d], {Loaded(s)}, posts[d], mishaps)
      BY <1>4, <2>3, GoesOn
    <2>5. ~Blank(row[d], SendsOf(d), posts[d])
      BY <2>1 DEF Blank
    <2> QED
      BY <1>1, <2>2, <2>4, <2>5, Touched
  <1> QED
    BY <1>3, <1>4
LEMMA MarkDeadTurns ==
    ASSUME TypeOK, DeliveriesCared, NEW d \in Delivery, NEW s \in sends, MarkDead(s)
    PROVE  Turned(d)
  <1>1. UNCHANGED <<lastDelivery, posts, mishaps>> /\ s.phase = "gone" /\ Ends(s)
    BY DEF MarkDead
  <1>2. /\ s.d # d => SendsOf(d)' = SendsOf(d)
        /\ s.d = d => SendsOf(d)' = {}
    BY <1>1, HoldersAfterEnd DEF Hand
  <1>3. CASE s.d # d
    <2>1. row'[d] = row[d]
      BY <1>3, Types DEF MarkDead
    <2> QED
      BY <1>1, <1>2, <1>3, <2>1, Untouched
  <1>4. CASE s.d = d
    <2> DEFINE w == IF Queued(d) THEN [row[d] EXCEPT !.status = "dead", !.due = "never", !.lease = "none"]
                    ELSE row[d]
    <2>1. row'[d] = w
      BY <1>4, Types DEF MarkDead
    <2>2. w \in Row /\ (Queued(d) => w.status = "dead" /\ w.attempts = row[d].attempts)
      <3>1. row[d] \in Row
        BY RowTyped
      <3>2. CASE Queued(d)
        BY <3>1, <3>2 DEF Row
      <3>3. CASE ~Queued(d)
        BY <3>1, <3>3
      <3> QED
        BY <3>2, <3>3
    <2>3. s \in SendsOf(d) /\ Posted(s) = 0
      BY <1>1, <1>4 DEF SendsOf, Posted
    <2>4. Queued(d) => row[d].attempts = s.attempts + Posted(s)
      BY <2>3, CaredTypes DEF DeliveriesCared, Cared, Queued
    <2>5. ~Queued(d) => w = row[d]
      OBVIOUS
    <2> HIDE DEF w
    <2>6. Turns(d, w, {}, posts[d], mishaps)
      BY <2>2, <2>3, <2>4, <2>5, Recorded
    <2>7. ~Blank(row[d], SendsOf(d), posts[d])
      BY <2>3 DEF Blank
    <2> QED
      BY <1>1, <1>2, <1>4, <2>1, <2>6, <2>7, Touched
  <1> QED
    BY <1>3, <1>4

LEMMA PostTurns ==
    ASSUME TypeOK, DeliveriesCared, NEW d \in Delivery, NEW s \in sends, Post(s)
    PROVE  Turned(d)
  <1>1. UNCHANGED <<row, lastDelivery, mishaps>> /\ s.phase = "ready" /\ s \in Send
    BY Types DEF Post, queue
  <1>2. PICK phase \in {"ok", "failed"} : Moves(s, phase)
    BY DEF Post
  <1>3. PICK t : t = [s EXCEPT !.phase = phase]
    OBVIOUS
  <1>4. t \in Send /\ t.attempts = s.attempts /\ t.phase = phase
    <2>1. phase \in {"claimed", "gone", "ready", "ok", "failed", "reset", "count", "cancel"}
      OBVIOUS
    <2> QED
      BY <1>1, <1>3, <2>1, Moved
  <1>5. /\ s.d # d => SendsOf(d)' = SendsOf(d)
        /\ s.d = d => SendsOf(d)' = {t}
    BY <1>1, <1>2, <1>3, HoldersAfterMove DEF Hand
  <1>6. CASE s.d # d
    <2>1. posts'[d] = posts[d]
      BY <1>6, Types DEF Post
    <2> QED
      BY <1>1, <1>5, <1>6, <2>1, Untouched
  <1>7. CASE s.d = d
    <2>1. posts'[d] = posts[d] + 1
      BY <1>7, Types DEF Post
    <2>2. s \in SendsOf(d)
      BY <1>1, <1>7 DEF SendsOf
    <2>3. Turns(d, row[d], {t}, posts[d] + 1, mishaps)
      BY <1>1, <1>2, <1>4, <2>2, Sent
    <2>4. ~Blank(row[d], SendsOf(d), posts[d])
      BY <2>2 DEF Blank
    <2> QED
      BY <1>1, <1>5, <1>7, <2>1, <2>3, <2>4, Touched
  <1> QED
    BY <1>6, <1>7

LEMMA RecordTurns ==
    ASSUME TypeOK, DeliveriesCared, NEW d \in Delivery, NEW s \in sends, Record(s)
    PROVE  Turned(d)
  <1>1. /\ UNCHANGED <<lastDelivery, posts, mishaps>> /\ s.phase \in {"ok", "failed"} /\ s \in Send
        /\ row' = [row EXCEPT ![s.d] = IF Queued(s.d) THEN Outcome(s, s.phase = "ok") ELSE @]
    BY Types DEF Record
  <1>2. PICK phase \in {"reset", "count"} : Moves(s, phase)
    BY DEF Record
  <1>3. /\ s.d # d => SendsOf(d)' = SendsOf(d)
        /\ s.d = d => SendsOf(d)' = {}
    BY <1>1, <1>2, HoldersAfterMove DEF Hand
  <1>4. CASE s.d # d
    <2>1. row'[d] = row[d]
      BY <1>1, <1>4, Types
    <2> QED
      BY <1>1, <1>3, <1>4, <2>1, Untouched
  <1>5. CASE s.d = d
    <2> DEFINE w == IF Queued(d) THEN Outcome(s, s.phase = "ok") ELSE row[d]
    <2>1. row'[d] = w
      BY <1>1, <1>5, Types
    <2>2. w \in Row /\ (Queued(d) => w.status \in {"succeeded", "failed", "dead"}
                                     /\ w.attempts = s.attempts + 1)
      BY <1>1, OutcomeIsRow, CaredTypes
    <2>3. s \in SendsOf(d) /\ Posted(s) = 1
      BY <1>1, <1>5 DEF SendsOf, Posted
    <2>4. ~Queued(d) => w = row[d]
      OBVIOUS
    <2> HIDE DEF w
    <2>5. Turns(d, w, {}, posts[d], mishaps)
      BY <2>2, <2>3, <2>4, Recorded
    <2>6. ~Blank(row[d], SendsOf(d), posts[d])
      BY <2>3 DEF Blank
    <2> QED
      BY <1>1, <1>3, <1>5, <2>1, <2>5, <2>6, Touched
  <1> QED
    BY <1>4, <1>5

(* After what came of it is written down, a send holds nothing any more. *)
LEMMA AfterwardsTurns ==
    ASSUME TypeOK, DeliveriesCared, NEW d \in Delivery, NEW s \in sends, Reset(s) \/ Count(s)
    PROVE  Turned(d)
  <1>1. UNCHANGED <<row, lastDelivery, posts, mishaps>> /\ s.phase \notin Hand
    BY DEF Reset, Count, queue, Hand
  <1>2. Ends(s) \/ Moves(s, "cancel")
    BY DEF Reset, Count
  <1>3. SendsOf(d)' = SendsOf(d)
    BY <1>1, <1>2, HoldersAfterEnd, HoldersAfterMove DEF Hand
  <1> QED
    BY <1>1, <1>3, Untouched

LEMMA CancelTurns ==
    ASSUME TypeOK, DeliveriesCared, NEW d \in Delivery, NEW s \in sends, CancelOriginal(s)
    PROVE  Turned(d)
  <1>1. UNCHANGED <<lastDelivery, posts, mishaps>> /\ s.phase \notin Hand /\ Ends(s)
    BY DEF CancelOriginal, Hand
  <1>2. SendsOf(d)' = SendsOf(d)
    BY <1>1, HoldersAfterEnd
  <1>3. CASE s.original = d /\ Cancellable(row[d])
    <2> DEFINE w == [row[d] EXCEPT !.due = "never"]
    <2>1. row'[d] = w
      BY <1>3, Types DEF CancelOriginal
    <2>2. w \in Row /\ w.status = row[d].status /\ w.attempts = row[d].attempts /\ w.due = "never"
      BY RowTyped DEF Row
    <2> HIDE DEF w
    <2>3. Turns(d, w, SendsOf(d), posts[d], mishaps)
      BY <1>3, <2>2, CalledOff
    <2>4. ~Blank(row[d], SendsOf(d), posts[d])
      BY <1>3 DEF Blank, Cancellable
    <2> QED
      BY <1>1, <1>2, <2>1, <2>3, <2>4, Touched
  <1>4. CASE ~(s.original = d /\ Cancellable(row[d]))
    <2>1. row'[d] = row[d]
      BY <1>4, Types DEF CancelOriginal
    <2> QED
      BY <1>1, <1>2, <2>1, Untouched
  <1> QED
    BY <1>3, <1>4

LEMMA SendNowTurns ==
    ASSUME TypeOK, DeliveriesCared, NEW d \in Delivery, NEW r \in Replica,
           NEW kind \in {"ping", "resend"}, NEW new \in Row, new.status = "pending", new.attempts = 0,
           NEW original \in Delivery \cup {NoDelivery}, SendNow(r, kind, new, original)
    PROVE  Turned(d)
  <1> DEFINE w == [new EXCEPT !.lease = "held"]
             s == Sending(r, kind, lastDelivery + 1, 0, original, "ready")
  <1>1. /\ lastDelivery + 1 \in Delivery /\ lastDelivery' = lastDelivery + 1
        /\ row' = [row EXCEPT ![lastDelivery + 1] = w]
        /\ sends' = sends \cup {s} /\ UNCHANGED <<posts, mishaps>>
    <2>1. lastDelivery \in Nat /\ lastDelivery < MaxDelivery
      BY Types, BoundsAssumption DEF SendNow, Delivery, NoDelivery
    <2>2. lastDelivery + 1 \in Delivery
      BY <2>1, BoundsAssumption DEF Delivery
    <2> QED
      BY <2>2 DEF SendNow
  <1>2. w \in Row /\ w.status = "pending" /\ w.attempts = 0 /\ w.lease = "held"
    BY DEF Row
  <1>3. s \in Send /\ s.d = lastDelivery + 1 /\ s.attempts = 0 /\ s.phase = "ready"
    <2>1. 0 \in 0 .. MaxAttempts - 1
      BY BoundsAssumption
    <2> QED
      BY <1>1, <2>1, SendingIsSend DEF Hand
  <1> HIDE DEF w, s
  <1>4. d \in Nat /\ lastDelivery \in Nat
    BY Types DEF Delivery, NoDelivery
  <1>5. SendsOf(d)' = SendsOf(d) \cup (IF d = lastDelivery + 1 THEN {s} ELSE {})
    BY <1>1, <1>3 DEF SendsOf
  <1>6. CASE d = lastDelivery + 1
    <2>1. d > lastDelivery /\ ~(d > lastDelivery') /\ row'[d] = w
      BY <1>1, <1>4, <1>6, Types
    <2>2. SendsOf(d) = {}
      BY <2>1 DEF DeliveriesCared, Blank
    <2>3. Turns(d, w, {s}, posts[d], mishaps)
      BY <1>2, <1>3, <2>1, Begun
    <2> QED
      BY <1>1, <1>5, <1>6, <2>1, <2>2, <2>3 DEF Turned
  <1>7. CASE d # lastDelivery + 1
    <2>1. row'[d] = row[d] /\ SendsOf(d)' = SendsOf(d)
      BY <1>1, <1>5, <1>7, Types
    <2>2. d > lastDelivery' => d > lastDelivery
      BY <1>1, <1>4
    <2> QED
      BY <1>1, <2>1, <2>2, Untouched
  <1> QED
    BY <1>6, <1>7

LEMMA HandTurns ==
    ASSUME TypeOK, Tidy, DeliveriesCared, NEW d \in Delivery, NEW r \in Replica,
           \/ \E ep \in Endpoint : Ping(r, ep)
           \/ \E x \in Delivery : Resend(r, x)
    PROVE  Turned(d)
  <1>1. ASSUME NEW ep \in Endpoint, Ping(r, ep)
        PROVE  Turned(d)
    <2> DEFINE v == NewRow(ep, NoEvent)
               new == [v EXCEPT !.due = "never"]
    <2>1. v \in Row /\ v.status = "pending" /\ v.attempts = 0
      BY NewRowIsRow
    <2>2. SendNow(r, "ping", new, NoDelivery)
      BY <1>1 DEF Ping
    <2> HIDE DEF v
    <2>3. new \in Row /\ new.status = "pending" /\ new.attempts = 0
      BY <2>1 DEF Row
    <2> HIDE DEF new
    <2> QED
      BY <2>2, <2>3, SendNowTurns
  <1>2. ASSUME NEW x \in Delivery, Resend(r, x)
        PROVE  Turned(d)
    <2> DEFINE new == NewRow(row[x].endpoint, row[x].event)
    <2>1. row[x].endpoint \in Endpoint /\ row[x].event \in Event \cup {NoEvent}
      BY <1>2, Types DEF Resend, Queued, Tidy, Addressed, Row
    <2>2. new \in Row /\ new.status = "pending" /\ new.attempts = 0
      BY <2>1, NewRowIsRow
    <2>3. SendNow(r, "resend", new, x)
      BY <1>2 DEF Resend
    <2> HIDE DEF new
    <2> QED
      BY <2>2, <2>3, SendNowTurns
  <1> QED
    BY <1>1, <1>2

LEMMA DeleteTurns ==
    ASSUME TypeOK, DeliveriesCared, NEW d \in Delivery, NEW ep \in Endpoint, Delete(ep)
    PROVE  Turned(d)
  <1>1. /\ UNCHANGED <<lastDelivery, posts, mishaps, sends>>
        /\ row'[d] = IF row[d].endpoint = ep THEN NoRow ELSE row[d]
    BY DEF Delete
  <1>2. SendsOf(d)' = SendsOf(d)
    BY <1>1 DEF SendsOf
  <1>3. Turns(d, row'[d], SendsOf(d), posts[d], mishaps)
    BY <1>1, RowGone, Unmoved
  <1>4. d > lastDelivery => Blank(row'[d], SendsOf(d), posts[d])
    BY <1>1 DEF DeliveriesCared, Blank, NoRow
  <1> QED
    BY <1>1, <1>2, <1>3, <1>4 DEF Turned

LEMMA TimeTurns ==
    ASSUME TypeOK, DeliveriesCared, ~WorkerMayStall, NEW d \in Delivery, NEW x \in Delivery,
           Prune(x) \/ RetryDue(x) \/ LeaseOver(x)
    PROVE  Turned(d)
  <1>1. UNCHANGED <<lastDelivery, posts, mishaps, sends>>
    BY DEF Prune, RetryDue, LeaseOver
  <1>2. SendsOf(d)' = SendsOf(d)
    BY <1>1 DEF SendsOf
  <1>3. CASE x # d
    <2>1. row'[d] = row[d]
      BY <1>3, Types DEF Prune, RetryDue, LeaseOver
    <2> QED
      BY <1>1, <1>2, <2>1, Untouched
  <1>4. CASE x = d /\ Prune(d)
    <2>1. row'[d] = NoRow
      BY <1>4, Types DEF Prune
    <2>2. Turns(d, NoRow, SendsOf(d), posts[d], mishaps)
      BY RowGone
    <2>3. ~Blank(row[d], SendsOf(d), posts[d])
      BY <1>4 DEF Prune, Settled, Blank
    <2> QED
      BY <1>1, <1>2, <2>1, <2>2, <2>3, Touched
  <1>5. CASE x = d /\ RetryDue(d)
    <2> DEFINE w == [row[d] EXCEPT !.due = "now"]
    <2>1. row'[d] = w /\ row[d].due = "later"
      BY <1>5, Types DEF RetryDue
    <2>2. /\ w \in Row /\ w.status = row[d].status /\ w.attempts = row[d].attempts
          /\ w.lease = row[d].lease /\ w.due = "now"
      BY RowTyped DEF Row
    <2> HIDE DEF w
    <2>3. Turns(d, w, SendsOf(d), posts[d], mishaps)
      BY <2>1, <2>2, Retouched
    <2>4. d > lastDelivery => Blank(w, SendsOf(d), posts[d])
      BY <2>2 DEF DeliveriesCared, Blank
    <2> QED
      BY <1>1, <1>2, <2>1, <2>3, <2>4 DEF Turned
  <1>6. CASE x = d /\ LeaseOver(d)
    <2> DEFINE w == [row[d] EXCEPT !.lease = "over"]
    <2>1. row'[d] = w /\ SendsOf(d) = {}
      BY <1>6, Types DEF LeaseOver
    <2>2. /\ w \in Row /\ w.status = row[d].status /\ w.attempts = row[d].attempts
          /\ w.due = row[d].due
      BY RowTyped DEF Row
    <2> HIDE DEF w
    <2>3. Cared(row[d], SendsOf(d), posts[d], mishaps)
      BY DEF DeliveriesCared
    <2>4. Cared(w, {}, posts[d], mishaps)
      BY <2>1, <2>2, <2>3 DEF Cared
    <2>5. LifeOf(w) = LifeOf(row[d])
      BY <2>2 DEF LifeOf
    <2>6. Turns(d, w, {}, posts[d], mishaps)
      BY <2>1, <2>4, <2>5 DEF Turns, Part
    <2>7. d > lastDelivery => Blank(w, SendsOf(d), posts[d])
      BY <2>2 DEF DeliveriesCared, Blank
    <2> QED
      BY <1>1, <1>2, <2>1, <2>6, <2>7 DEF Turned
  <1> QED
    BY <1>3, <1>4, <1>5, <1>6

LEMMA FailureTurns ==
    ASSUME TypeOK, DeliveriesCared, NEW d \in Delivery,
           \/ \E r \in Replica : Crash(r) \/ BatchFails(r)
           \/ \E s \in sends : SendFails(s)
    PROVE  Turned(d)
  <1>1. /\ UNCHANGED <<row, lastDelivery, posts>> /\ mishaps' = mishaps + 1
        /\ sends' \subseteq sends
    BY DEF Crash, BatchFails, SendFails, Ends, queue, Mishap
  <1> DEFINE h == SendsOf(d)'
  <1>2. h \in SUBSET SendsOf(d)
    BY <1>1 DEF SendsOf
  <1> HIDE DEF h
  <1>3. Turns(d, row[d], h, posts[d], mishaps + 1)
    BY <1>2, SendLost
  <1>4. d > lastDelivery => Blank(row[d], h, posts[d])
    BY <1>2 DEF DeliveriesCared, Blank
  <1> QED
    BY <1>1, <1>3, <1>4 DEF Turned, h

LEMMA EveryStepTurns ==
    ASSUME TypeOK, Tidy, DeliveriesCared, ~WorkerMayStall, [Next]_vars, NEW d \in Delivery
    PROVE  Turned(d)
  <1>1. CASE Publish
    BY <1>1, QueueLeftAlone DEF Publish, queue
  <1>2. CASE \E p \in publishing : Insert(p)
    BY <1>2, InsertTurns
  <1>3. CASE \E e \in logged : ArchiveEvent(e)
    BY <1>3, ArchiveTurns
  <1>4. CASE \E r \in Replica : Drain(r) \/ Works(r) \/ Crash(r) \/ BatchFails(r)
    <2>1. ASSUME NEW r \in Replica, Drain(r) \/ BatchDone(r)
          PROVE  Turned(d)
      BY <2>1, QueueLeftAlone DEF Drain, BatchDone, queue
    <2> QED
      BY <1>4, <2>1, ClaimTurns, LoadTurns, FailureTurns DEF Works
  <1>5. CASE \E s \in sends : Steps(s) \/ SendFails(s)
    BY <1>5, MarkDeadTurns, PostTurns, RecordTurns, AfterwardsTurns, CancelTurns, FailureTurns
       DEF Steps
  <1>6. CASE \E r \in Replica : (\E ep \in Endpoint : Ping(r, ep)) \/ \E x \in Delivery : Resend(r, x)
    BY <1>6, HandTurns
  <1>7. CASE \E ep \in Endpoint : Administrate(ep)
    <2>1. ASSUME NEW ep \in Endpoint,
                 \/ \E state \in {"active", "off"} : Create(ep, state)
                 \/ \E active \in BOOLEAN : Edit(ep, active)
          PROVE  Turned(d)
      BY <2>1, QueueLeftAlone DEF Create, Edit, queue
    <2> QED
      BY <1>7, <2>1, DeleteTurns DEF Administrate
  <1>8. CASE \E e \in edits : SaveEdit(e)
    BY <1>8, QueueLeftAlone DEF SaveEdit, queue
  <1>9. CASE \E x \in Delivery : Prune(x) \/ RetryDue(x) \/ LeaseOver(x)
    BY <1>9, TimeTurns
  <1>10. CASE UNCHANGED vars
    BY <1>10, QueueLeftAlone DEF vars
  <1> QED
    BY <1>1, <1>2, <1>3, <1>4, <1>5, <1>6, <1>7, <1>8, <1>9, <1>10 DEF Next
-----------------------------------------------------------------------------
(* What follows for the whole queue. *)

QueueInv == TypeOK /\ Tidy /\ Anchored /\ Throng /\ DeliveriesCared

LEMMA QueueInvHolds == ASSUME WorkerMayStall = FALSE PROVE Spec => []QueueInv
  <1>1. Init => QueueInv
    <2> SUFFICES ASSUME Init PROVE QueueInv
      OBVIOUS
    <2>1. Anchored
      BY DEF Init, Anchored, Queued, NoRow
    <2>2. Throng
      BY NoneIsFew DEF Init, Throng, WorkerSends
    <2>3. DeliveriesCared
      <3>1. \A d \in Delivery : SendsOf(d) = {} /\ posts[d] = 0 /\ row[d].status = "absent"
        BY DEF Init, SendsOf, NoRow
      <3>2. mishaps = 0 /\ MaxAttempts \in Nat
        BY BoundsAssumption DEF Init
      <3> QED
        BY <3>1, <3>2 DEF DeliveriesCared, Cared, Blank
    <2> QED
      BY <2>1, <2>2, <2>3, InitTidy DEF QueueInv
  <1>2. ASSUME QueueInv, [Next]_vars
        PROVE  QueueInv'
    <2>1. TypeOK' /\ Tidy' /\ Anchored' /\ Throng'
      BY <1>2, TidyKept, AnchoredKept, ThrongKept DEF QueueInv
    <2>2. \A d \in Delivery : Turned(d)
      BY <1>2, EveryStepTurns DEF QueueInv
    <2>3. DeliveriesCared'
      BY <2>2 DEF Turned, Turns, DeliveriesCared
    <2> QED
      BY <2>1, <2>3 DEF QueueInv
  <1> QED
    BY <1>1, <1>2, PTL DEF Spec

(* delivery.ts:380 and docs/event-backbone.md:263-265: where no sender outlives its lease,
   no replica sends more than a batch, and no receiver gets a delivery more often than the
   schedule says but for one more with each crash or error. *)
THEOREM SendsStayBounded == ASSUME WorkerMayStall = FALSE PROVE Spec => []SendsBounded
PROOF
  <1>1. QueueInv => SendsBounded
    BY DEF QueueInv, Throng, Few, DeliveriesCared, Cared, SendsBounded, OneBatchPerReplica,
           AttemptsBounded
  <1> QED
    BY <1>1, QueueInvHolds, PTL

(* At most one send holds a delivery, so counting them says whether one does. *)
LEMMA HoldersCounted ==
    ASSUME NEW w, NEW h, NEW p, NEW m, Cared(w, h, p, m)
    PROVE  Cardinality(h) = IF h = {} THEN 0 ELSE 1
  <1>1. CASE h = {}
    BY <1>1, FS_EmptySet
  <1>2. CASE h # {}
    <2>1. PICK s \in h : h = {s}
      BY <1>2 DEF Cared
    <2> QED
      BY <2>1, FS_Singleton
  <1> QED
    BY <1>1, <1>2

LifeNow == [d \in Delivery |-> IF ~Queued(d) THEN "absent" ELSE IF Settled(d) THEN "settled" ELSE "open"]
SendersNow == [d \in Delivery |-> Cardinality(SendsOf(d))]

LEMMA ViewOfADelivery ==
    ASSUME DeliveriesCared, NEW d \in Delivery
    PROVE  LifeNow[d] = LifeOf(row[d]) /\ SendersNow[d] = IF SendsOf(d) = {} THEN 0 ELSE 1
  BY Settledness, HoldersCounted DEF DeliveriesCared, LifeNow, SendersNow

(* docs/event-backbone.md:259-280: a delivery is sent while it is open, by one sender at
   a time, and what is settled stays so. *)
THEOREM QueueImplemented == ASSUME WorkerMayStall = FALSE PROVE Spec => ImplementsQueue
PROOF
  <1>1. Init => Promise!Init
    <2> SUFFICES ASSUME Init PROVE Promise!Init
      OBVIOUS
    <2>1. \A d \in Delivery : SendsOf(d) = {} /\ ~Queued(d)
      BY DEF Init, SendsOf, NoRow, Queued
    <2> QED
      BY <2>1, FS_EmptySet DEF Promise!Init
  <1>2. ASSUME QueueInv, QueueInv', [Next]_vars
        PROVE  Promise!Next
    <2> SUFFICES ASSUME NEW d \in Delivery
                 PROVE  \/ Promise!Stay(d) \/ Promise!Create(d) \/ Promise!Begin(d) \/ Promise!Record(d)
                        \/ Promise!Lose(d) \/ Promise!Cancel(d) \/ Promise!Forget(d)
      BY DEF Promise!Next
    <2>1. Part(row[d], SendsOf(d), row'[d], SendsOf(d)')
      BY <1>2, EveryStepTurns DEF QueueInv, Turned, Turns
    <2>2. /\ LifeNow[d] = LifeOf(row[d])
          /\ SendersNow[d] = IF SendsOf(d) = {} THEN 0 ELSE 1
      BY <1>2, ViewOfADelivery DEF QueueInv
    <2>3. /\ LifeNow'[d] = LifeOf(row'[d])
          /\ SendersNow'[d] = IF SendsOf(d)' = {} THEN 0 ELSE 1
      <3>1. DeliveriesCared' => (LifeNow[d] = LifeOf(row[d])
                                 /\ SendersNow[d] = IF SendsOf(d) = {} THEN 0 ELSE 1)'
        BY ViewOfADelivery, PTL
      <3> QED
        BY <1>2, <3>1 DEF QueueInv
    <2> QED
      BY <2>1, <2>2, <2>3 DEF Part, Promise!Stay, Promise!Create, Promise!Begin, Promise!Record,
         Promise!Lose, Promise!Cancel, Promise!Forget, LifeNow, SendersNow
  <1> QED
    BY <1>1, <1>2, QueueInvHolds, PTL DEF Spec, ImplementsQueue, Promise!Spec

-----------------------------------------------------------------------------
(* Switched off in time. *)

LEMMA LimitKept ==
    ASSUME MaxEdits = 0, TypeOK, Tidy, Anchored, edits = {}, ActiveMeansUnderLimit, [Next]_vars
    PROVE  edits' = {} /\ ActiveMeansUnderLimit'
  <1>1. /\ endpoint \in [Endpoint -> EndpointRow]
        /\ \A ep \in Endpoint : endpoint[ep].state = "active" => endpoint[ep].failures < DisableAfter
        /\ DisableAfter \in Nat \ {0}
    BY Types, BoundsAssumption DEF ActiveMeansUnderLimit, Active
  <1> DEFINE Under(e) == \A ep \in Endpoint : e[ep].state = "active" => e[ep].failures < DisableAfter
  <1>2. SUFFICES edits' = {} /\ Under(endpoint')
    BY DEF ActiveMeansUnderLimit, Active
  <1>3. ASSUME UNCHANGED <<edits, endpoint>>
        PROVE  edits' = {} /\ Under(endpoint')
    BY <1>1, <1>3
  <1>4. ASSUME NEW s \in sends, Reset(s)
        PROVE  edits' = {} /\ Under(endpoint')
    BY <1>1, <1>4 DEF Reset, EndpointRow
  <1>5. ASSUME NEW s \in sends, Count(s)
        PROVE  edits' = {} /\ Under(endpoint')
    <2>1. CASE ~Queued(s.d)
      BY <1>3, <1>5, <2>1 DEF Count
    <2>2. CASE Queued(s.d)
      <3> DEFINE ep == row[s.d].endpoint
                 failures == endpoint[ep].failures + 1
                 off == SwitchesOff(ep, failures)
                 state == IF off THEN "off" ELSE endpoint[ep].state
                 e == [endpoint[ep] EXCEPT !.failures = failures, !.state = state]
      <3>1. ep \in Endpoint
        <4>1. s.d \in Delivery
          BY Types DEF Send
        <4> QED
          BY <2>2, <4>1 DEF Tidy, Addressed, Queued
      <3>2. endpoint' = [endpoint EXCEPT ![ep] = e] /\ edits' = edits
        BY <1>1, <1>5, <2>2, <3>1 DEF Count
      <3>3. e.state = state /\ e.failures = failures /\ failures \in Nat
        BY <1>1, <3>1 DEF EndpointRow
      <3>4. state = "active" => failures < DisableAfter
        BY <1>1, <3>1, <3>3 DEF SwitchesOff, Active
      <3> HIDE DEF e, state, failures, ep
      <3> QED
        BY <1>1, <3>1, <3>2, <3>3, <3>4
    <2> QED
      BY <2>1, <2>2
  <1>6. ASSUME NEW ep \in Endpoint, NEW state \in {"active", "off"}, Create(ep, state)
        PROVE  edits' = {} /\ Under(endpoint')
    BY <1>1, <1>6 DEF Create, EndpointRow, Tidy
  <1>7. ASSUME NEW ep \in Endpoint, NEW active \in BOOLEAN, Edit(ep, active)
        PROVE  FALSE
    BY <1>7, FS_EmptySet DEF Edit
  <1>8. ASSUME NEW ep \in Endpoint, Delete(ep)
        PROVE  edits' = {} /\ Under(endpoint')
    BY <1>1, <1>8 DEF Delete
  <1>9. ASSUME NEW e \in edits, SaveEdit(e)
        PROVE  FALSE
    BY <1>9
  <1>10. CASE Publish \/ (\E p \in publishing : Insert(p)) \/ (\E e \in logged : ArchiveEvent(e))
    BY <1>3, <1>10 DEF Publish, Insert, ArchiveEvent
  <1>11. CASE \E r \in Replica : Drain(r) \/ Works(r) \/ Crash(r) \/ BatchFails(r)
    BY <1>3, <1>11 DEF Drain, Works, Claim, Load, BatchDone, Crash, BatchFails
  <1>12. ASSUME NEW s \in sends, MarkDead(s) \/ Post(s) \/ Record(s) \/ CancelOriginal(s) \/ SendFails(s)
         PROVE  edits' = {} /\ Under(endpoint')
    BY <1>3, <1>12 DEF MarkDead, Post, Record, CancelOriginal, SendFails
  <1>13. CASE \E r \in Replica : (\E ep \in Endpoint : Ping(r, ep)) \/ \E d \in Delivery : Resend(r, d)
    BY <1>3, <1>13 DEF Ping, Resend, SendNow
  <1>14. CASE \E d \in Delivery : Prune(d) \/ RetryDue(d) \/ LeaseOver(d)
    BY <1>3, <1>14 DEF Prune, RetryDue, LeaseOver
  <1>15. CASE UNCHANGED vars
    BY <1>3, <1>15 DEF vars
  <1> QED
    BY <1>4, <1>5, <1>6, <1>7, <1>8, <1>9, <1>10, <1>11, <1>12, <1>13, <1>14, <1>15
       DEF Next, Steps, Administrate

(* docs/event-backbone.md:268-272: while nobody saves an edit on what it read before, an
   endpoint with so many failures in a row is off, whoever counted the last of them. *)
THEOREM SendingStaysSound ==
    ASSUME WorkerMayStall = FALSE, MaxEdits = 0
    PROVE  Spec => []SendingSound
PROOF
  <1>1. Init => edits = {} /\ ActiveMeansUnderLimit
    BY BoundsAssumption DEF Init, ActiveMeansUnderLimit, Active
  <1>2. QueueInv /\ (edits = {} /\ ActiveMeansUnderLimit) /\ [Next]_vars
        => (edits = {} /\ ActiveMeansUnderLimit)'
    BY LimitKept DEF QueueInv
  <1>3. Spec => [](edits = {} /\ ActiveMeansUnderLimit)
    BY <1>1, <1>2, QueueInvHolds, PTL DEF Spec
  <1>4. SendsBounded /\ edits = {} /\ ActiveMeansUnderLimit => SendingSound
    BY DEF SendingSound
  <1> QED
    BY <1>3, <1>4, SendsStayBounded, PTL

-----------------------------------------------------------------------------
(* Teardown guides *)
JobStage == {"claimed", "listen", "store", "steps", "list", "write", "hold", "mark", "pictures",
             "grabbed", "refine", "name", "named", "finish"}
Later == JobStage \ {"claimed", "store"}
Transcript == [done : 0 .. Chunks, complete : BOOLEAN, read : BOOLEAN, of : Nat]
GuideRow == [there : BOOLEAN, status : {"idle", "queued", "running", "done", "failed"}, token : Nat,
             tokens : Nat, tries : Nat, beating : BOOLEAN, video : Nat, heard : Transcript,
             draft : {"none", "read", "pending"}, refined : BOOLEAN]
GuideJob == [stage : JobStage, token : Nat \ {0}, tries : Nat, heard : Transcript, video : Nat]
Asked == [what : {"continue", "steps", "all", "stop", "video", "apply", "discard"},
          seen : [heard : Transcript, token : Nat, video : Nat]]

StepsTyped ==
    /\ steps \subseteq {"person", "narration"}
    /\ picture \in {"none", "grabbed", "picked"}
    /\ part \in {"none", "heard", "edited", "refined"}

GuideTyped ==
    /\ guide \in GuideRow
    /\ guide.token <= guide.tokens
    /\ guide.token # 0 <=> guide.status = "running"
    /\ jobOf \in [Server -> GuideJob \cup {Idle}]
    /\ asking \in [Person -> Asked \cup {Quiet}]
    /\ paid \in Nat /\ restarts \in Nat /\ crossed \in BOOLEAN

(* A guide that is gone is asked about no more, and nobody has its job. *)
GoneForGood ==
    ~guide.there => guide.status = "idle" /\ \A p \in Person : asking[p] = Quiet

(* Every start has a token of its own. *)
OwnTokens ==
    \A s \in Server : Working(s) =>
        /\ jobOf[s].token <= guide.tokens
        /\ \A u \in Server : Working(u) /\ jobOf[u].token = jobOf[s].token => u = s

Unsaved(s) == jobOf[s].stage = "store"
Listening(s) == Working(s) /\ jobOf[s].stage # "claimed"

(* Who has the job has heard what the row says, and the piece it has not stored yet; unless
   a request crossed it, it is the video of the row that it hears. *)
HolderHears ==
    \A s \in Server : Listening(s) /\ Holds(s) =>
        /\ guide.heard.done <= jobOf[s].heard.done
        /\ Unsaved(s) => guide.heard.done < jobOf[s].heard.done
        /\ ~crossed => jobOf[s].heard.of = guide.video

(* A request to change the video was made while no job ran. *)
VideoAskedIdle == \A p \in Person : asking[p].what = "video" => asking[p].seen.token = 0

(* A start may lose the piece it was at: a job that has none unsaved has lost none. *)
Loses(j) == j.stage = "none" \/ j.stage = "store"
Lossless == {s \in Server : ~Loses(jobOf[s])}
InRow == IF guide.there THEN guide.heard.done ELSE Chunks

Paying ==
    /\ IsFiniteSet(Lossless)
    /\ paid + Cardinality(Lossless) <= Chunks * restarts + InRow + guide.tokens

TeardownInv ==
    /\ StepsTyped /\ GuideTyped /\ GoneForGood /\ OwnTokens /\ HolderHears /\ VideoAskedIdle
    /\ Paying /\ NarrationOfThisVideo

-----------------------------------------------------------------------------
(* What a step leaves of the row that the others rely on. *)
LeavesBe ==
    /\ guide' \in GuideRow /\ guide'.status = guide.status
    /\ guide'.there = guide.there /\ guide'.token = guide.token /\ guide'.tokens = guide.tokens
    /\ guide'.video = guide.video /\ guide'.heard = guide.heard

Becomes(s, j) == jobOf' = [jobOf EXCEPT ![s] = j]

(* A job goes on to its next stage, or is let go. *)
Proceeds(s, j) ==
    j = Idle \/ /\ Listening(s) /\ ~Unsaved(s)
                /\ \E stage \in Later : j = [jobOf[s] EXCEPT !.stage = stage]

(* A job stores what it has heard. *)
Stores(s, j, heard) ==
    /\ Listening(s) /\ Holds(s)
    /\ heard.done = jobOf[s].heard.done /\ heard.of = jobOf[s].heard.of
    /\ guide' \in GuideRow /\ guide'.status = guide.status
    /\ guide'.there = guide.there /\ guide'.token = guide.token /\ guide'.tokens = guide.tokens
    /\ guide'.video = guide.video /\ guide'.heard = heard
    /\ j \in GuideJob /\ j.stage \in Later /\ j.token = jobOf[s].token
    /\ j.heard.done = heard.done /\ j.heard.of = heard.of

-----------------------------------------------------------------------------
LEMMA JobTyped ==
    ASSUME GuideTyped, NEW s \in Server
    PROVE  /\ jobOf[s] \in GuideJob \cup {Idle}
           /\ Working(s) <=> jobOf[s] \in GuideJob
           /\ Working(s) => jobOf[s].token \in Nat \ {0} /\ jobOf[s].heard \in Transcript
                            /\ jobOf[s].heard.done \in 0 .. Chunks
           /\ guide.heard \in Transcript /\ guide.heard.done \in 0 .. Chunks /\ guide.token \in Nat
           /\ guide.tokens \in Nat /\ guide.video \in Nat
  BY DEF GuideTyped, GuideJob, Idle, Working, JobStage, Transcript, GuideRow

LEMMA JobMoves ==
    ASSUME GuideTyped, NEW s \in Server, NEW j \in GuideJob \cup {Idle}, Becomes(s, j)
    PROVE  /\ jobOf' \in [Server -> GuideJob \cup {Idle}]
           /\ jobOf'[s] = j
           /\ \A u \in Server \ {s} : jobOf'[u] = jobOf[u]
  BY DEF GuideTyped, Becomes

(* The jobs that lost nothing, as one job goes on. *)
LEMMA LosslessMoves ==
    ASSUME GuideTyped, IsFiniteSet(Lossless), NEW s \in Server, NEW j \in GuideJob \cup {Idle}, Becomes(s, j)
    PROVE  /\ IsFiniteSet(Lossless') /\ Cardinality(Lossless) \in Nat
           /\ Loses(j) /\ ~Loses(jobOf[s]) => Cardinality(Lossless') = Cardinality(Lossless) - 1
           /\ ~Loses(j) /\ Loses(jobOf[s]) => Cardinality(Lossless') = Cardinality(Lossless) + 1
           /\ (Loses(j) <=> Loses(jobOf[s])) => Cardinality(Lossless') = Cardinality(Lossless)
  <1>1. /\ jobOf'[s] = j /\ \A u \in Server \ {s} : jobOf'[u] = jobOf[u]
    BY JobMoves
  <1>2. Lossless' = {u \in Server : ~Loses(jobOf'[u])}
    BY DEF Lossless, Loses
  <1>3. Cardinality(Lossless) \in Nat
    BY FS_CardinalityType
  <1>4. CASE Loses(j) /\ ~Loses(jobOf[s])
    <2>1. Lossless' = Lossless \ {s} /\ s \in Lossless
      BY <1>1, <1>2, <1>4 DEF Lossless
    <2> QED
      BY <1>3, <1>4, <2>1, FS_RemoveElement
  <1>5. CASE ~Loses(j) /\ Loses(jobOf[s])
    <2>1. Lossless' = Lossless \cup {s} /\ s \notin Lossless
      BY <1>1, <1>2, <1>5 DEF Lossless
    <2> QED
      BY <1>3, <1>5, <2>1, FS_AddElement
  <1>6. CASE Loses(j) <=> Loses(jobOf[s])
    <2>1. Lossless' = Lossless
      BY <1>1, <1>2, <1>6 DEF Lossless
    <2> QED
      BY <1>3, <1>6, <2>1
  <1> QED
    BY <1>4, <1>5, <1>6

(* The jobs stay, and the row as far as they rely on it. *)
LEMMA LeftBe ==
    ASSUME TeardownInv, LeavesBe, jobOf' = jobOf, paid' = paid, restarts' = restarts, crossed' = crossed
    PROVE  OwnTokens' /\ HolderHears' /\ Paying' /\ NarrationOfThisVideo'
  <1>1. OwnTokens'
    BY DEF TeardownInv, OwnTokens, LeavesBe, Working
  <1>2. HolderHears'
    BY DEF TeardownInv, HolderHears, LeavesBe, Listening, Working, Holds, Unsaved
  <1>3. Paying'
    <2>1. Lossless' = Lossless /\ InRow' = InRow
      BY DEF Lossless, InRow, LeavesBe
    <2> QED
      BY <2>1 DEF TeardownInv, Paying, LeavesBe
  <1>4. NarrationOfThisVideo'
    BY DEF TeardownInv, NarrationOfThisVideo, LeavesBe
  <1> QED
    BY <1>1, <1>2, <1>3, <1>4

(* A job goes on, and the row stays as far as the others rely on it. *)
LEMMA GoesOnStep ==
    ASSUME TeardownInv, LeavesBe, NEW s \in Server, NEW j, Becomes(s, j), Proceeds(s, j),
           paid' = paid, restarts' = restarts, crossed' = crossed
    PROVE  /\ jobOf' \in [Server -> GuideJob \cup {Idle}]
           /\ OwnTokens' /\ HolderHears' /\ Paying' /\ NarrationOfThisVideo'
  <1>0. GuideTyped
    BY DEF TeardownInv
  <1>1. CASE j = Idle
    <2>1. /\ jobOf' \in [Server -> GuideJob \cup {Idle}]
          /\ jobOf'[s].stage = "none" /\ \A u \in Server \ {s} : jobOf'[u] = jobOf[u]
      BY <1>0, <1>1, JobMoves DEF Idle
    <2>2. OwnTokens'
      BY <2>1 DEF TeardownInv, OwnTokens, LeavesBe, Working
    <2>3. HolderHears'
      BY <2>1 DEF TeardownInv, HolderHears, LeavesBe, Listening, Working, Holds, Unsaved
    <2>4. /\ IsFiniteSet(Lossless') /\ Cardinality(Lossless) \in Nat /\ Cardinality(Lossless') \in Nat
          /\ Cardinality(Lossless') <= Cardinality(Lossless)
      <3>1. Loses(j) /\ IsFiniteSet(Lossless)
        BY <1>1 DEF Loses, Idle, TeardownInv, Paying
      <3>2. IsFiniteSet(Lossless')
        BY <1>0, <1>1, <3>1, LosslessMoves
      <3>3. Cardinality(Lossless') \in Nat
        BY <3>2, FS_CardinalityType
      <3>4. /\ Cardinality(Lossless) \in Nat
            /\ \/ Cardinality(Lossless') = Cardinality(Lossless) - 1
               \/ Cardinality(Lossless') = Cardinality(Lossless)
        BY <1>0, <1>1, <3>1, LosslessMoves
      <3> QED
        BY <3>2, <3>3, <3>4
    <2>5. Paying'
      <3>1. InRow' = InRow /\ InRow \in Nat /\ guide.tokens \in Nat /\ Chunks * restarts \in Nat /\ paid \in Nat
        BY <1>0, TeardownAssumption DEF InRow, LeavesBe, GuideTyped, GuideRow, Transcript
      <3>2. PICK c \in Nat : c = Chunks * restarts
        BY <3>1
      <3>3. paid + Cardinality(Lossless) <= c + InRow + guide.tokens
        BY <3>2 DEF TeardownInv, Paying
      <3>4. paid' + Cardinality(Lossless') <= c + InRow' + guide.tokens
        BY <2>4, <3>1, <3>3
      <3> QED
        BY <2>4, <3>2, <3>4 DEF Paying, LeavesBe
    <2> QED
      BY <2>1, <2>2, <2>3, <2>5 DEF TeardownInv, NarrationOfThisVideo, LeavesBe
  <1>2. ASSUME Listening(s), ~Unsaved(s), NEW stage \in Later, j = [jobOf[s] EXCEPT !.stage = stage]
        PROVE  /\ jobOf' \in [Server -> GuideJob \cup {Idle}]
               /\ OwnTokens' /\ HolderHears' /\ Paying' /\ NarrationOfThisVideo'
    <2>1. /\ j \in GuideJob /\ j.stage = stage /\ j.token = jobOf[s].token /\ j.heard = jobOf[s].heard
          /\ jobOf[s].stage \in Later /\ jobOf[s] \in GuideJob
      BY <1>0, <1>2, JobTyped DEF Listening, Unsaved, GuideJob, Later
    <2>2. stage # "none" /\ stage # "store" /\ stage # "claimed"
      BY DEF Later, JobStage
    <2>3. /\ jobOf' \in [Server -> GuideJob \cup {Idle}] /\ jobOf'[s] = j
          /\ \A u \in Server \ {s} : jobOf'[u] = jobOf[u]
      BY <1>0, <2>1, JobMoves
    <2>4. OwnTokens'
      <3>1. \A u \in Server : (Working(u))' <=> Working(u)
        BY <1>2, <2>1, <2>2, <2>3 DEF Working, Listening
      <3>2. \A u \in Server : Working(u) => jobOf'[u].token = jobOf[u].token
        BY <2>1, <2>3
      <3> QED
        BY <3>1, <3>2 DEF TeardownInv, OwnTokens, LeavesBe
    <2>5. HolderHears'
      <3> SUFFICES ASSUME NEW u \in Server, Listening(u)', Holds(u)'
                   PROVE  /\ guide'.heard.done <= jobOf'[u].heard.done
                          /\ jobOf'[u].stage = "store" => guide'.heard.done < jobOf'[u].heard.done
                          /\ ~crossed => jobOf'[u].heard.of = guide'.video
        BY DEF HolderHears, Unsaved
      <3>1. CASE u = s
        <4>1. Listening(s) /\ Holds(s) /\ jobOf'[u].heard = jobOf[s].heard /\ jobOf'[u].stage # "store"
          BY <1>2, <2>1, <2>2, <2>3, <3>1 DEF Holds, LeavesBe
        <4> QED
          BY <3>1, <4>1 DEF TeardownInv, HolderHears, LeavesBe
      <3>2. CASE u # s
        <4>1. jobOf'[u] = jobOf[u] /\ Listening(u) /\ Holds(u)
          BY <2>3, <3>2 DEF Holds, LeavesBe, Listening, Working
        <4> QED
          BY <4>1 DEF TeardownInv, HolderHears, LeavesBe, Unsaved
      <3> QED
        BY <3>1, <3>2
    <2>6. Paying'
      <3>1. ~Loses(j) /\ ~Loses(jobOf[s])
        BY <1>2, <2>1, <2>2 DEF Loses, Listening, Working, Unsaved
      <3>2. IsFiniteSet(Lossless') /\ Cardinality(Lossless') = Cardinality(Lossless)
        BY <1>0, <2>1, <3>1, LosslessMoves DEF TeardownInv, Paying
      <3>3. InRow' = InRow
        BY DEF InRow, LeavesBe
      <3> QED
        BY <3>2, <3>3 DEF TeardownInv, Paying, LeavesBe
    <2> QED
      BY <2>3, <2>4, <2>5, <2>6 DEF TeardownInv, NarrationOfThisVideo, LeavesBe
  <1> QED
    BY <1>1, <1>2 DEF Proceeds

(* A job stores what it heard: nobody else has its token, and its piece is not lost. *)
LEMMA StoresStep ==
    ASSUME TeardownInv, NEW s \in Server, NEW j, NEW heard, Becomes(s, j), Stores(s, j, heard),
           paid' = paid, restarts' = restarts, crossed' = crossed
    PROVE  /\ jobOf' \in [Server -> GuideJob \cup {Idle}]
           /\ OwnTokens' /\ HolderHears' /\ Paying' /\ NarrationOfThisVideo'
  <1>0. GuideTyped
    BY DEF TeardownInv
  <1>1. /\ Listening(s) /\ Holds(s) /\ Working(s) /\ guide'.token = guide.token /\ guide'.tokens = guide.tokens
        /\ guide'.video = guide.video /\ guide'.heard = heard /\ guide'.there = guide.there /\ guide.there
        /\ j \in GuideJob /\ j.token = jobOf[s].token /\ jobOf[s].token = guide.token
        /\ j.heard.done = heard.done /\ j.heard.of = heard.of
        /\ heard.done = jobOf[s].heard.done /\ heard.of = jobOf[s].heard.of
    BY DEF Stores, Listening, Holds
  <1>2. j.stage # "none" /\ j.stage # "store" /\ j.stage # "claimed"
    BY DEF Stores, Later, JobStage
  <1>3. /\ jobOf' \in [Server -> GuideJob \cup {Idle}] /\ jobOf'[s] = j
        /\ \A u \in Server \ {s} : jobOf'[u] = jobOf[u]
    BY <1>0, <1>1, JobMoves
  <1>4. OwnTokens'
    <2>1. \A u \in Server : (Working(u))' <=> Working(u)
      BY <1>1, <1>2, <1>3 DEF Working
    <2>2. \A u \in Server : Working(u) => jobOf'[u].token = jobOf[u].token
      BY <1>1, <1>3
    <2> QED
      BY <1>1, <2>1, <2>2 DEF TeardownInv, OwnTokens
  <1>5. HolderHears'
    <2> SUFFICES ASSUME NEW u \in Server, Listening(u)', Holds(u)'
                 PROVE  /\ guide'.heard.done <= jobOf'[u].heard.done
                        /\ jobOf'[u].stage = "store" => guide'.heard.done < jobOf'[u].heard.done
                        /\ ~crossed => jobOf'[u].heard.of = guide'.video
      BY DEF HolderHears, Unsaved
    <2>1. u = s
      <3>1. ASSUME u # s PROVE FALSE
        <4>1. jobOf'[u] = jobOf[u] /\ Working(u) /\ jobOf[u].token = guide.token
          BY <1>1, <1>3, <3>1 DEF Listening, Working, Holds
        <4> QED
          BY <1>1, <3>1, <4>1 DEF TeardownInv, OwnTokens
      <3> QED
        BY <3>1
    <2>2. jobOf'[u] = j /\ guide'.heard.done = j.heard.done /\ j.heard.done \in Nat
      BY <1>0, <1>1, <1>3, <2>1, JobTyped
    <2>3. ~crossed => j.heard.of = guide.video
      BY <1>1 DEF TeardownInv, HolderHears
    <2> QED
      BY <1>1, <1>2, <2>2, <2>3
  <1>6. Paying'
    <2>1. /\ guide.heard.done \in Nat /\ jobOf[s].heard.done \in Nat /\ guide.tokens \in Nat /\ paid \in Nat
          /\ Chunks * restarts \in Nat
      BY <1>0, <1>1, JobTyped, TeardownAssumption DEF GuideTyped
    <2>2. InRow = guide.heard.done /\ InRow' = jobOf[s].heard.done
      BY <1>1 DEF InRow
    <2>3. PICK c \in Nat : c = Chunks * restarts
      BY <2>1
    <2>4. IsFiniteSet(Lossless) /\ paid + Cardinality(Lossless) <= c + InRow + guide.tokens
      BY <2>3 DEF TeardownInv, Paying
    <2>5. Cardinality(Lossless) \in Nat /\ IsFiniteSet(Lossless') /\ ~Loses(j)
      BY <1>0, <1>1, <1>2, <2>4, LosslessMoves DEF Loses
    <2>6. Cardinality(Lossless') \in Nat
      BY <2>5, FS_CardinalityType
    <2>7. paid + Cardinality(Lossless') <= c + InRow' + guide.tokens
      <3>1. CASE Unsaved(s)
        <4>1. guide.heard.done < jobOf[s].heard.done
          BY <1>1, <3>1 DEF TeardownInv, HolderHears
        <4>2. Cardinality(Lossless') = Cardinality(Lossless) + 1
          BY <1>0, <1>1, <2>4, <2>5, <3>1, LosslessMoves DEF Loses, Unsaved
        <4> QED
          BY <2>1, <2>2, <2>4, <2>5, <4>1, <4>2
      <3>2. CASE ~Unsaved(s)
        <4>1. guide.heard.done <= jobOf[s].heard.done
          BY <1>1 DEF TeardownInv, HolderHears
        <4>2. Cardinality(Lossless') = Cardinality(Lossless)
          BY <1>0, <1>1, <2>4, <2>5, <3>2, LosslessMoves DEF Loses, Unsaved, Working
        <4> QED
          BY <2>1, <2>2, <2>4, <2>5, <4>1, <4>2
      <3> QED
        BY <3>1, <3>2
    <2> QED
      BY <1>1, <2>3, <2>5, <2>7 DEF Paying
  <1>7. NarrationOfThisVideo'
    <2>1. ~crossed => jobOf[s].heard.of = guide.video
      BY <1>1 DEF TeardownInv, HolderHears
    <2> QED
      BY <1>1, <2>1 DEF NarrationOfThisVideo
  <1> QED
    BY <1>3, <1>4, <1>5, <1>6, <1>7

(* The job ends, and with it its token. *)
LEMMA FinishStep ==
    ASSUME TeardownInv, NEW s \in Server, Working(s), NEW status \in {"done", "failed"}, Finish(s, status),
           paid' = paid, restarts' = restarts, crossed' = crossed, asking' = asking
    PROVE  /\ GuideTyped' /\ GoneForGood'
           /\ OwnTokens' /\ HolderHears' /\ Paying' /\ NarrationOfThisVideo'
  <1>0. GuideTyped /\ Becomes(s, Idle) /\ Proceeds(s, Idle)
    BY DEF TeardownInv, Finish, LetGo, Becomes, Proceeds
  <1>1. CASE guide' = guide
    <2>1. LeavesBe
      BY <1>0, <1>1 DEF LeavesBe, GuideTyped
    <2>2. /\ jobOf' \in [Server -> GuideJob \cup {Idle}]
          /\ OwnTokens' /\ HolderHears' /\ Paying' /\ NarrationOfThisVideo'
      BY <1>0, <2>1, GoesOnStep
    <2> QED
      BY <1>0, <1>1, <2>2 DEF GuideTyped, GoneForGood, TeardownInv
  <1>2. CASE Holds(s) /\ guide' = [guide EXCEPT !.status = status, !.token = 0]
    <2>1. /\ guide' \in GuideRow /\ guide'.status = status /\ guide'.token = 0 /\ guide'.there = guide.there
          /\ guide'.tokens = guide.tokens /\ guide'.heard = guide.heard /\ guide'.video = guide.video
      BY <1>0, <1>2 DEF GuideTyped, GuideRow
    <2>2. /\ jobOf' \in [Server -> GuideJob \cup {Idle}] /\ jobOf'[s] = Idle
          /\ \A u \in Server \ {s} : jobOf'[u] = jobOf[u]
      BY <1>0, JobMoves
    <2>3. GuideTyped'
      BY <1>0, <2>1, <2>2, status # "running" DEF GuideTyped, GuideRow
    <2>4. GoneForGood'
      BY <1>2, <2>1 DEF GoneForGood, Holds
    <2>5. Idle.stage = "none"
      BY DEF Idle
    <2>6. OwnTokens'
      BY <2>1, <2>2, <2>5 DEF TeardownInv, OwnTokens, Working
    <2>7. HolderHears'
      <3>1. \A u \in Server : ~((Listening(u))' /\ (Holds(u))')
        BY <1>0, <2>1, <2>2, <2>5, JobTyped DEF Listening, Working, Holds
      <3> QED
        BY <3>1 DEF HolderHears
    <2>8. Paying'
      <3>1. ~Loses(jobOf[s]) \/ Loses(jobOf[s])
        OBVIOUS
      <3>2. IsFiniteSet(Lossless) /\ Loses(Idle)
        BY <2>5 DEF TeardownInv, Paying, Loses
      <3>3. /\ IsFiniteSet(Lossless') /\ Cardinality(Lossless) \in Nat
            /\ \/ Cardinality(Lossless') = Cardinality(Lossless) - 1
               \/ Cardinality(Lossless') = Cardinality(Lossless)
        BY <1>0, <3>2, LosslessMoves
      <3>4. Cardinality(Lossless') \in Nat
        BY <3>3, FS_CardinalityType
      <3>5. InRow' = InRow /\ InRow \in Nat /\ guide.tokens \in Nat /\ paid \in Nat /\ Chunks * restarts \in Nat
        BY <1>0, <2>1, JobTyped, TeardownAssumption DEF InRow, GuideTyped
      <3>6. PICK c \in Nat : c = Chunks * restarts
        BY <3>5
      <3>7. paid + Cardinality(Lossless) <= c + InRow + guide.tokens
        BY <3>6 DEF TeardownInv, Paying
      <3>8. paid + Cardinality(Lossless') <= c + InRow' + guide.tokens
        BY <3>3, <3>4, <3>5, <3>7
      <3> QED
        BY <2>1, <3>3, <3>6, <3>8 DEF Paying
    <2>9. NarrationOfThisVideo'
      BY <2>1 DEF TeardownInv, NarrationOfThisVideo
    <2> QED
      BY <2>3, <2>4, <2>6, <2>7, <2>8, <2>9
  <1> QED
    BY <1>1, <1>2 DEF Finish

-----------------------------------------------------------------------------
(* The stages of a job, action by action: it stores what it heard, or leaves the row be. *)

Kind(s) ==
    \E j : /\ Becomes(s, j)
           /\ \/ LeavesBe /\ Proceeds(s, j)
              \/ \E heard : Stores(s, j, heard)

LEMMA GoKind ==
    ASSUME TeardownInv, NEW s \in Server, Listening(s), ~Unsaved(s), NEW stage \in Later,
           GoTo(s, stage), LeavesBe
    PROVE  Kind(s)
  <1>1. PICK j : j = [jobOf[s] EXCEPT !.stage = stage]
    OBVIOUS
  <1>2. Becomes(s, j) /\ Proceeds(s, j)
    BY <1>1 DEF GoTo, Becomes, Proceeds
  <1> QED
    BY <1>2 DEF Kind

LEMMA LetGoKind ==
    ASSUME TeardownInv, NEW s \in Server, LetGo(s), LeavesBe
    PROVE  Kind(s)
  BY DEF LetGo, Kind, Becomes, Proceeds

LEMMA SameRow == TeardownInv /\ guide' = guide => LeavesBe
  BY DEF TeardownInv, GuideTyped, LeavesBe

LEMMA SaveKind ==
    ASSUME TeardownInv, NEW s \in Server, Listening(s), ~Unsaved(s), NEW stage \in Later,
           NEW r \in GuideRow, SaveTo(s, r, stage),
           r.status = guide.status, r.there = guide.there, r.token = guide.token,
           r.tokens = guide.tokens, r.video = guide.video, r.heard = guide.heard
    PROVE  Kind(s)
  <1>1. CASE Holds(s)
    <2>1. guide' = [r EXCEPT !.beating = TRUE] /\ GoTo(s, stage)
      BY <1>1 DEF SaveTo
    <2>2. LeavesBe
      BY <2>1 DEF LeavesBe, GuideRow
    <2> QED
      BY <2>1, <2>2, GoKind
  <1>2. CASE ~Holds(s)
    BY <1>2, SameRow, LetGoKind DEF SaveTo
  <1> QED
    BY <1>1, <1>2

LEMMA StoreKind ==
    ASSUME TeardownInv, NEW s \in Server, Listening(s), NEW stage \in Later, NEW heard \in Transcript,
           NEW told \in Transcript, heard.done = jobOf[s].heard.done, heard.of = jobOf[s].heard.of,
           told.done = heard.done, told.of = heard.of,
           Holds(s), guide' = [guide EXCEPT !.heard = heard, !.beating = TRUE],
           Becomes(s, [jobOf[s] EXCEPT !.stage = stage, !.heard = told])
    PROVE  Kind(s)
  <1>1. PICK j : j = [jobOf[s] EXCEPT !.stage = stage, !.heard = told]
    OBVIOUS
  <1>2. jobOf[s] \in GuideJob /\ guide \in GuideRow
    BY JobTyped DEF TeardownInv, GuideTyped, Listening
  <1>3. j \in GuideJob /\ j.stage = stage /\ j.token = jobOf[s].token /\ j.heard = told
    BY <1>1, <1>2 DEF GuideJob, Later
  <1>4. /\ guide' \in GuideRow /\ guide'.status = guide.status
        /\ guide'.there = guide.there /\ guide'.token = guide.token /\ guide'.tokens = guide.tokens
        /\ guide'.video = guide.video /\ guide'.heard = heard
    BY <1>2 DEF GuideRow
  <1>5. Stores(s, j, heard)
    BY <1>3, <1>4 DEF Stores
  <1> QED
    BY <1>1, <1>5 DEF Kind

LEMMA AtLater ==
    ASSUME NEW s \in Server, NEW stage \in Later, At(s, stage)
    PROVE  Listening(s) /\ ~Unsaved(s) /\ Working(s)
  BY DEF At, Later, JobStage, Listening, Unsaved, Working

LEMMA TranscribeStageKind ==
    ASSUME TeardownInv, NEW s \in Server, transcribeStage(s)
    PROVE  Kind(s)
  <1>0. GuideTyped
    BY DEF TeardownInv
  <1>1. CASE At(s, "store") /\ SaveTo(s, [guide EXCEPT !.heard = jobOf[s].heard], "listen")
    <2>1. Listening(s) /\ Working(s) /\ jobOf[s] \in GuideJob
      BY <1>0, <1>1, JobTyped DEF Listening, At, Working
    <2>2. CASE Holds(s)
      <3>1. guide' = [guide EXCEPT !.heard = jobOf[s].heard, !.beating = TRUE]
        BY <1>0, <1>1, <2>2 DEF SaveTo, GuideTyped, GuideRow
      <3>2. Becomes(s, [jobOf[s] EXCEPT !.stage = "listen", !.heard = jobOf[s].heard])
        BY <1>0, <1>1, <2>1, <2>2 DEF SaveTo, GoTo, Becomes, GuideTyped, GuideJob
      <3>3. "listen" \in Later /\ jobOf[s].heard \in Transcript
        BY <2>1 DEF Later, JobStage, GuideJob
      <3> QED
        BY <2>1, <2>2, <3>1, <3>2, <3>3, StoreKind
    <2>3. CASE ~Holds(s)
      BY <1>1, <2>3, SameRow, LetGoKind DEF SaveTo
    <2> QED
      BY <2>2, <2>3
  <1>2. CASE /\ At(s, "listen")
             /\ IF Holds(s)
                THEN /\ guide' = [guide EXCEPT !.heard = [jobOf[s].heard EXCEPT !.complete = TRUE], !.beating = TRUE]
                     /\ jobOf' = [jobOf EXCEPT ![s].heard.complete = TRUE, ![s].stage = "steps"]
                ELSE UNCHANGED guide /\ LetGo(s)
    <2>1. "listen" \in Later /\ "steps" \in Later
      BY DEF Later, JobStage
    <2>2. Listening(s) /\ Working(s) /\ jobOf[s] \in GuideJob
      BY <1>0, <1>2, <2>1, AtLater, JobTyped
    <2>3. CASE Holds(s)
      <3>1. PICK told : told = [jobOf[s].heard EXCEPT !.complete = TRUE]
        OBVIOUS
      <3>2. jobOf[s].heard \in Transcript
        BY <2>2 DEF GuideJob
      <3>3. told \in Transcript /\ told.done = jobOf[s].heard.done /\ told.of = jobOf[s].heard.of
        BY <3>1, <3>2 DEF Transcript
      <3>4. Becomes(s, [jobOf[s] EXCEPT !.stage = "steps", !.heard = told])
        BY <1>0, <1>2, <2>2, <2>3, <3>1 DEF Becomes, GuideTyped, GuideJob
      <3>5. guide' = [guide EXCEPT !.heard = told, !.beating = TRUE]
        BY <1>2, <2>3, <3>1
      <3> QED
        BY <2>1, <2>2, <2>3, <3>3, <3>4, <3>5, StoreKind
    <2>4. CASE ~Holds(s)
      BY <1>2, <2>4, SameRow, LetGoKind
    <2> QED
      BY <2>3, <2>4
  <1> QED
    BY <1>1, <1>2 DEF transcribeStage

LEMMA StepsStageKind ==
    ASSUME TeardownInv, NEW s \in Server, stepsStage(s)
    PROVE  Kind(s)
  <1>0. GuideTyped /\ guide \in GuideRow
    BY DEF TeardownInv, GuideTyped
  <1>1. {"steps", "list", "write", "hold", "mark", "pictures"} \subseteq Later
    BY DEF Later, JobStage
  <1>2. CASE /\ At(s, "steps")
             /\ IF guide.draft = "read" THEN GoTo(s, "list") /\ UNCHANGED guide
                ELSE SaveTo(s, [guide EXCEPT !.draft = "read"], "list")
    <2>1. Listening(s) /\ ~Unsaved(s)
      BY <1>1, <1>2, AtLater
    <2>2. PICK r : r = [guide EXCEPT !.draft = "read"]
      OBVIOUS
    <2>3. r \in GuideRow /\ r.status = guide.status /\ r.there = guide.there /\ r.token = guide.token
          /\ r.tokens = guide.tokens /\ r.video = guide.video /\ r.heard = guide.heard
      BY <1>0, <2>2 DEF GuideRow
    <2>4. CASE guide.draft = "read"
      BY <1>1, <1>2, <2>1, <2>4, SameRow, GoKind
    <2>5. CASE guide.draft # "read"
      <3>1. SaveTo(s, r, "list")
        BY <1>2, <2>2, <2>5
      <3> QED
        BY <1>1, <2>1, <2>3, <3>1, SaveKind
    <2> QED
      BY <2>4, <2>5
  <1>3. CASE /\ At(s, "list")
             /\ GoTo(s, IF steps = {} /\ part = "none" THEN "write" ELSE "hold")
             /\ UNCHANGED guide
    <2>1. Listening(s) /\ ~Unsaved(s)
      BY <1>1, <1>3, AtLater
    <2>2. PICK stage : stage = IF steps = {} /\ part = "none" THEN "write" ELSE "hold"
      OBVIOUS
    <2>3. stage \in Later /\ GoTo(s, stage)
      BY <1>1, <1>3, <2>2
    <2> QED
      BY <1>3, <2>1, <2>3, SameRow, GoKind
  <1>4. CASE /\ At(s, "write")
             /\ IF Holds(s) THEN writeDraft /\ GoTo(s, "mark") ELSE LetGo(s) /\ UNCHANGED guide
    <2>1. Listening(s) /\ ~Unsaved(s)
      BY <1>1, <1>4, AtLater
    <2>2. writeDraft => LeavesBe
      BY <1>0 DEF writeDraft, LeavesBe, GuideRow
    <2> QED
      BY <1>1, <1>4, <2>1, <2>2, SameRow, GoKind, LetGoKind
  <1>5. CASE At(s, "hold") /\ SaveTo(s, [guide EXCEPT !.draft = "pending"], "mark")
    <2>1. Listening(s) /\ ~Unsaved(s)
      BY <1>1, <1>5, AtLater
    <2>2. PICK r : r = [guide EXCEPT !.draft = "pending"]
      OBVIOUS
    <2>3. r \in GuideRow /\ r.status = guide.status /\ r.there = guide.there /\ r.token = guide.token
          /\ r.tokens = guide.tokens /\ r.video = guide.video /\ r.heard = guide.heard
      BY <1>0, <2>2 DEF GuideRow
    <2>4. SaveTo(s, r, "mark")
      BY <1>5, <2>2
    <2> QED
      BY <1>1, <2>1, <2>3, <2>4, SaveKind
  <1>6. CASE At(s, "mark") /\ SaveTo(s, [guide EXCEPT !.heard = [jobOf[s].heard EXCEPT !.read = TRUE]], "pictures")
    <2>1. Listening(s) /\ Working(s) /\ jobOf[s] \in GuideJob
      BY <1>0, <1>1, <1>6, AtLater, JobTyped
    <2>2. PICK heard : heard = [jobOf[s].heard EXCEPT !.read = TRUE]
      OBVIOUS
    <2>3. jobOf[s].heard \in Transcript
      BY <2>1 DEF GuideJob
    <2>4. heard \in Transcript /\ heard.done = jobOf[s].heard.done /\ heard.of = jobOf[s].heard.of
      BY <2>2, <2>3 DEF Transcript
    <2>5. SaveTo(s, [guide EXCEPT !.heard = heard], "pictures")
      BY <1>6, <2>2
    <2>6. CASE Holds(s)
      <3>1. guide' = [guide EXCEPT !.heard = heard, !.beating = TRUE]
        BY <1>0, <2>5, <2>6 DEF SaveTo, GuideRow
      <3>2. Becomes(s, [jobOf[s] EXCEPT !.stage = "pictures", !.heard = jobOf[s].heard])
        BY <1>0, <2>1, <2>5, <2>6 DEF SaveTo, GoTo, Becomes, GuideTyped, GuideJob
      <3> QED
        BY <1>1, <2>1, <2>3, <2>4, <2>6, <3>1, <3>2, StoreKind
    <2>7. CASE ~Holds(s)
      BY <2>5, <2>7, SameRow, LetGoKind DEF SaveTo
    <2> QED
      BY <2>6, <2>7
  <1> QED
    BY <1>2, <1>3, <1>4, <1>5, <1>6 DEF stepsStage

LEMMA PicturesKind ==
    ASSUME TeardownInv, NEW s \in Server, keyframesStage(s) \/ refineStage(s)
    PROVE  Kind(s)
  <1>0. GuideTyped /\ guide \in GuideRow
    BY DEF TeardownInv, GuideTyped
  <1>1. {"pictures", "grabbed", "refine", "name", "named", "finish"} \subseteq Later
    BY DEF Later, JobStage
  <1>2. PICK r : r = [guide EXCEPT !.refined = TRUE]
    OBVIOUS
  <1>3. r \in GuideRow /\ r.status = guide.status /\ r.there = guide.there /\ r.token = guide.token
        /\ r.tokens = guide.tokens /\ r.video = guide.video /\ r.heard = guide.heard
    BY <1>0, <1>2 DEF GuideRow
  <1>4. CASE keyframesStage(s)
    <2>1. Listening(s) /\ ~Unsaved(s)
      BY <1>1, <1>4, AtLater DEF keyframesStage
    <2>2. \/ SaveTo(s, guide, "grabbed")
          \/ GoTo(s, "refine") /\ UNCHANGED guide
      BY <1>4 DEF keyframesStage
    <2> QED
      BY <1>0, <1>1, <2>1, <2>2, SaveKind, SameRow, GoKind
  <1>5. CASE refineStage(s)
    <2>1. Listening(s) /\ ~Unsaved(s)
      BY <1>1, <1>5, AtLater DEF refineStage
    <2>2. \/ \E stage \in {"finish", "named"} : GoTo(s, stage) /\ UNCHANGED guide
          \/ SaveTo(s, guide, "name")
          \/ SaveTo(s, r, "finish")
      BY <1>2, <1>5 DEF refineStage
    <2> QED
      BY <1>0, <1>1, <1>3, <2>1, <2>2, SaveKind, SameRow, GoKind
  <1> QED
    BY <1>4, <1>5

(* Every action keeps the steps, their pictures and the parts what they may be. *)
LEMMA StepsStep ==
    ASSUME StepsTyped, [TeardownNext]_teardownVars
    PROVE  StepsTyped'
  <1> DEFINE Same == steps' = steps /\ picture' = picture /\ part' = part
  <1>1. Same => StepsTyped'
    BY DEF StepsTyped
  <1>2. writeDraft => StepsTyped'
    BY DEF writeDraft, StepsTyped
  <1>3. ASSUME NEW p \in Person,
               Ask(p) \/ enqueueGuide(p) \/ cancelGuideJob(p) \/ updateGuide(p) \/ applyDraft(p) \/ discardDraft(p)
        PROVE  StepsTyped'
    <2>1. applyDraft(p) => StepsTyped'
      BY <1>2 DEF applyDraft
    <2>2. Ask(p) \/ enqueueGuide(p) \/ cancelGuideJob(p) \/ updateGuide(p) \/ discardDraft(p) => Same
      BY DEF Ask, enqueueGuide, cancelGuideJob, updateGuide, discardDraft
    <2> QED
      BY <1>1, <1>3, <2>1, <2>2
  <1>4. EditGuide => StepsTyped'
    BY DEF EditGuide, StepsTyped
  <1>5. deleteGuide => StepsTyped'
    BY DEF deleteGuide, StepsTyped
  <1>6. ASSUME NEW s \in Server, claimNext(s) \/ Stages(s) \/ ServerDies(s) \/ Stalls(s) \/ Beats(s)
        PROVE  StepsTyped'
    <2>1. claimNext(s) \/ runJob(s) \/ processGuide(s) \/ transcribe(s) \/ transcribeFails(s)
          \/ transcribeStage(s) \/ finish(s) \/ ServerDies(s) \/ Stalls(s) \/ Beats(s) => Same
      BY DEF claimNext, runJob, processGuide, transcribe, transcribeFails, transcribeStage, finish,
             ServerDies, Stalls, Beats
    <2>2. stepsStage(s) => Same \/ writeDraft
      BY DEF stepsStage
    <2>3. keyframesStage(s) => StepsTyped'
      BY DEF keyframesStage, StepsTyped
    <2>4. refineStage(s) => StepsTyped'
      BY DEF refineStage, StepsTyped, Renamed
    <2> QED
      BY <1>1, <1>2, <1>6, <2>1, <2>2, <2>3, <2>4 DEF Stages
  <1>7. GoesStale \/ UNCHANGED teardownVars => Same
    BY DEF GoesStale, teardownVars
  <1> QED
    BY <1>1, <1>3, <1>4, <1>5, <1>6, <1>7 DEF TeardownNext

LEMMA KindStep ==
    ASSUME TeardownInv, StepsTyped', NEW s \in Server, Kind(s),
           paid' = paid, restarts' = restarts, crossed' = crossed, asking' = asking
    PROVE  TeardownInv'
  <1>0. GuideTyped /\ GoneForGood
    BY DEF TeardownInv
  <1>1. PICK j : Becomes(s, j) /\ ((LeavesBe /\ Proceeds(s, j)) \/ \E heard : Stores(s, j, heard))
    BY DEF Kind
  <1>2. /\ jobOf' \in [Server -> GuideJob \cup {Idle}]
        /\ OwnTokens' /\ HolderHears' /\ Paying' /\ NarrationOfThisVideo'
    BY <1>1, GoesOnStep, StoresStep
  <1>3. /\ guide' \in GuideRow /\ guide'.status = guide.status /\ guide'.there = guide.there
        /\ guide'.token = guide.token /\ guide'.tokens = guide.tokens
    BY <1>1 DEF LeavesBe, Stores
  <1>4. GuideTyped' /\ GoneForGood'
    BY <1>0, <1>2, <1>3 DEF GuideTyped, GoneForGood
  <1>5. VideoAskedIdle'
    BY DEF TeardownInv, VideoAskedIdle
  <1> QED
    BY <1>2, <1>4, <1>5 DEF TeardownInv

LEMMA ClaimStep ==
    ASSUME TeardownInv, StepsTyped', NEW s \in Server, claimNext(s)
    PROVE  TeardownInv'
  <1>0. GuideTyped /\ guide \in GuideRow /\ ~Working(s)
    BY DEF TeardownInv, GuideTyped, claimNext
  <1> DEFINE token == guide.tokens + 1
  <1>1. PICK j : j = [stage |-> "claimed", token |-> token, tries |-> guide.tries + 1,
                      heard |-> NoTranscript, video |-> 0]
    OBVIOUS
  <1>2. /\ Becomes(s, j) /\ paid' = paid /\ restarts' = restarts /\ crossed' = crossed /\ asking' = asking
        /\ guide' = [guide EXCEPT !.status = "running", !.tokens = token, !.token = token,
                       !.tries = guide.tries + 1, !.beating = TRUE]
    BY <1>1 DEF claimNext, Becomes
  <1>3. guide.tokens \in Nat /\ guide.tries \in Nat /\ token \in Nat \ {0}
    BY <1>0 DEF GuideRow
  <1>4. j \in GuideJob /\ j.stage = "claimed" /\ j.token = token
    BY <1>1, <1>3, TeardownAssumption DEF GuideJob, JobStage, NoTranscript, Transcript
  <1>5. /\ guide' \in GuideRow /\ guide'.status = "running" /\ guide'.token = token /\ guide'.tokens = token
        /\ guide'.there = guide.there /\ guide'.heard = guide.heard /\ guide'.video = guide.video
    <2>1. PICK tries \in Nat : tries = guide.tries + 1
      BY <1>3
    <2>2. guide' = [guide EXCEPT !.status = "running", !.tokens = token, !.token = token,
                      !.tries = tries, !.beating = TRUE]
      BY <1>2, <2>1
    <2>3. token \in Nat
      BY <1>3
    <2> HIDE DEF token
    <2> QED
      BY <1>0, <2>2, <2>3 DEF GuideRow
  <1>6. /\ jobOf' \in [Server -> GuideJob \cup {Idle}] /\ jobOf'[s] = j
        /\ \A u \in Server \ {s} : jobOf'[u] = jobOf[u]
    BY <1>0, <1>2, <1>4, JobMoves
  <1>7. GuideTyped'
    BY <1>0, <1>2, <1>3, <1>5, <1>6 DEF GuideTyped
  <1>8. GoneForGood'
    BY <1>2, <1>5 DEF TeardownInv, GoneForGood, claimNext, Claimable
  <1>9. \A u \in Server \ {s} : Working(u) => jobOf[u].token # token /\ jobOf[u].token <= guide.tokens
                                             /\ jobOf[u].token \in Nat
    BY <1>0, <1>3, JobTyped DEF TeardownInv, OwnTokens
  <1>10. OwnTokens'
    <2> SUFFICES ASSUME NEW u \in Server, jobOf'[u].stage # "none"
                 PROVE  /\ jobOf'[u].token <= guide'.tokens
                        /\ \A v \in Server : jobOf'[v].stage # "none" /\ jobOf'[v].token = jobOf'[u].token => v = u
      BY DEF OwnTokens, Working
    <2>1. CASE u = s
      BY <1>3, <1>4, <1>5, <1>6, <1>9, <2>1 DEF Working
    <2>2. CASE u # s
      <3>1. jobOf'[u] = jobOf[u] /\ Working(u)
        BY <1>6, <2>2 DEF Working
      <3>2. jobOf'[u].token <= guide'.tokens
        BY <1>3, <1>5, <1>9, <2>2, <3>1
      <3>3. ASSUME NEW v \in Server, jobOf'[v].stage # "none", jobOf'[v].token = jobOf'[u].token
            PROVE  v = u
        <4>1. v # s
          BY <1>4, <1>6, <1>9, <2>2, <3>1, <3>3
        <4> QED
          BY <1>6, <3>1, <3>3, <4>1 DEF TeardownInv, OwnTokens, Working
      <3> QED
        BY <3>2, <3>3
    <2> QED
      BY <2>1, <2>2
  <1>11. HolderHears'
    <2>1. \A u \in Server : ~((Listening(u))' /\ (Holds(u))')
      BY <1>4, <1>5, <1>6, <1>9 DEF Listening, Working, Holds
    <2> QED
      BY <2>1 DEF HolderHears
  <1>12. VideoAskedIdle'
    BY <1>2 DEF TeardownInv, VideoAskedIdle
  <1>13. Paying'
    <2>1. ~Loses(j) /\ Loses(jobOf[s]) /\ IsFiniteSet(Lossless)
      BY <1>0, <1>4 DEF Loses, Working, TeardownInv, Paying
    <2>2. /\ IsFiniteSet(Lossless') /\ Cardinality(Lossless) \in Nat
          /\ Cardinality(Lossless') = Cardinality(Lossless) + 1
      BY <1>0, <1>2, <1>4, <2>1, LosslessMoves
    <2>3. InRow' = InRow /\ InRow \in Nat /\ paid \in Nat /\ Chunks * restarts \in Nat
      BY <1>0, <1>5, JobTyped, TeardownAssumption DEF InRow, GuideTyped
    <2>4. PICK c \in Nat : c = Chunks * restarts
      BY <2>3
    <2>5. paid + Cardinality(Lossless) <= c + InRow + guide.tokens
      BY <2>4 DEF TeardownInv, Paying
    <2>6. paid + Cardinality(Lossless') <= c + InRow' + token
      BY <1>3, <2>2, <2>3, <2>5
    <2> QED
      BY <1>2, <1>5, <2>2, <2>4, <2>6 DEF Paying
  <1>14. NarrationOfThisVideo'
    BY <1>2, <1>5 DEF TeardownInv, NarrationOfThisVideo
  <1> QED
    BY <1>7, <1>8, <1>10, <1>11, <1>12, <1>13, <1>14 DEF TeardownInv

(* A job begins with what the row has: that is of the row's video, but for a crossing. *)
LEMMA ProcessStep ==
    ASSUME TeardownInv, StepsTyped', NEW s \in Server, processGuide(s)
    PROVE  TeardownInv'
  <1>0. GuideTyped /\ guide \in GuideRow /\ At(s, "claimed")
    BY DEF TeardownInv, GuideTyped, processGuide
  <1>1. guide' = guide /\ paid' = paid /\ restarts' = restarts /\ crossed' = crossed /\ asking' = asking
    BY DEF processGuide
  <1>2. CASE ~guide.there
    BY <1>1, <1>2, SameRow, LetGoKind, KindStep DEF processGuide
  <1>3. CASE guide.there
    <2> DEFINE of == IF guide.heard.done = 0 THEN guide.video ELSE guide.heard.of
               stage == CASE guide.heard.read -> "pictures"
                          [] guide.heard.complete /\ ~guide.heard.read -> "steps"
                          [] OTHER -> "listen"
    <2>1. PICK heard : heard = [guide.heard EXCEPT !.of = of]
      OBVIOUS
    <2>2. PICK j : j = [jobOf[s] EXCEPT !.video = guide.video, !.heard = heard, !.stage = stage]
      OBVIOUS
    <2>3. Working(s) /\ jobOf[s] \in GuideJob /\ guide.heard \in Transcript /\ guide.video \in Nat
      BY <1>0, JobTyped DEF At, Working
    <2>4. stage \in Later
      BY DEF Later, JobStage
    <2>5. of \in Nat
      BY <2>3 DEF Transcript
    <2>6. Becomes(s, j)
      <3>1. jobOf' = [jobOf EXCEPT ![s].video = guide.video, ![s].heard = heard, ![s].stage = stage]
        BY <1>3, <2>1 DEF processGuide, Previous
      <3> HIDE DEF stage
      <3> QED
        BY <1>0, <2>2, <3>1 DEF Becomes, GuideTyped
    <2>7. ~crossed => of = guide.video
      BY <2>3 DEF TeardownInv, NarrationOfThisVideo, Transcript
    <2> HIDE DEF of, stage
    <2>8. heard \in Transcript /\ heard.done = guide.heard.done /\ heard.of = of /\ heard.done \in Nat
      BY <2>1, <2>3, <2>5 DEF Transcript
    <2>9. /\ j \in GuideJob /\ j.stage = stage /\ j.token = jobOf[s].token /\ j.heard = heard
      BY <2>2, <2>3, <2>4, <2>8 DEF GuideJob, Later
    <2>10. stage # "none" /\ stage # "store" /\ stage # "claimed"
      BY <2>4 DEF Later, JobStage
    <2>11. /\ jobOf' \in [Server -> GuideJob \cup {Idle}] /\ jobOf'[s] = j
           /\ \A u \in Server \ {s} : jobOf'[u] = jobOf[u]
      BY <1>0, <2>6, <2>9, JobMoves
    <2>12. GuideTyped' /\ GoneForGood' /\ VideoAskedIdle' /\ NarrationOfThisVideo'
      BY <1>0, <1>1, <2>11 DEF GuideTyped, TeardownInv, GoneForGood, VideoAskedIdle, NarrationOfThisVideo
    <2>13. OwnTokens'
      <3>1. \A u \in Server : (Working(u))' <=> Working(u)
        BY <2>3, <2>9, <2>10, <2>11 DEF Working
      <3>2. \A u \in Server : Working(u) => jobOf'[u].token = jobOf[u].token
        BY <2>9, <2>11
      <3> QED
        BY <1>1, <3>1, <3>2 DEF TeardownInv, OwnTokens
    <2>14. HolderHears'
      <3> SUFFICES ASSUME NEW u \in Server, Listening(u)', Holds(u)'
                   PROVE  /\ guide.heard.done <= jobOf'[u].heard.done
                          /\ jobOf'[u].stage = "store" => guide.heard.done < jobOf'[u].heard.done
                          /\ ~crossed => jobOf'[u].heard.of = guide.video
        BY <1>1 DEF HolderHears, Unsaved
      <3>1. CASE u = s
        BY <2>7, <2>8, <2>9, <2>10, <2>11, <3>1
      <3>2. CASE u # s
        <4>1. jobOf'[u] = jobOf[u] /\ Listening(u) /\ Holds(u)
          BY <1>1, <2>11, <3>2 DEF Holds, Listening, Working
        <4> QED
          BY <4>1 DEF TeardownInv, HolderHears, Unsaved
      <3> QED
        BY <3>1, <3>2
    <2>15. Paying'
      <3>1. ~Loses(j) /\ ~Loses(jobOf[s])
        BY <1>0, <2>9, <2>10 DEF Loses, At
      <3>2. IsFiniteSet(Lossless') /\ Cardinality(Lossless') = Cardinality(Lossless)
        BY <1>0, <2>6, <2>9, <3>1, LosslessMoves DEF TeardownInv, Paying
      <3>3. InRow' = InRow
        BY <1>1 DEF InRow
      <3> QED
        BY <1>1, <3>2, <3>3 DEF TeardownInv, Paying
    <2> QED
      BY <2>12, <2>13, <2>14, <2>15 DEF TeardownInv
  <1> QED
    BY <1>2, <1>3

LEMMA TranscribeStep ==
    ASSUME TeardownInv, StepsTyped', NEW s \in Server, transcribe(s)
    PROVE  TeardownInv'
  <1>0. GuideTyped /\ guide \in GuideRow /\ At(s, "listen") /\ jobOf[s].heard.done < Chunks
    BY DEF TeardownInv, GuideTyped, transcribe
  <1>1. /\ guide' = guide /\ paid' = paid + 1 /\ restarts' = restarts /\ crossed' = crossed /\ asking' = asking
    BY DEF transcribe
  <1>2. Working(s) /\ Listening(s) /\ jobOf[s] \in GuideJob /\ ~Unsaved(s)
    BY <1>0, JobTyped DEF At, Working, Listening, Unsaved
  <1>3. PICK heard : heard = [jobOf[s].heard EXCEPT !.done = jobOf[s].heard.done + 1]
    OBVIOUS
  <1>4. PICK j : j = [jobOf[s] EXCEPT !.heard = heard, !.stage = "store"]
    OBVIOUS
  <1>5. jobOf[s].heard \in Transcript /\ jobOf[s].heard.done \in Nat
    BY <1>2 DEF GuideJob, Transcript
  <1>6. /\ heard \in Transcript /\ heard.done = jobOf[s].heard.done + 1 /\ heard.of = jobOf[s].heard.of
    <2>1. jobOf[s].heard.done + 1 \in 0 .. Chunks
      BY <1>0, <1>5, TeardownAssumption
    <2> QED
      BY <1>3, <1>5, <2>1 DEF Transcript
  <1>7. j \in GuideJob /\ j.stage = "store" /\ j.token = jobOf[s].token /\ j.heard = heard
    BY <1>2, <1>4, <1>6 DEF GuideJob, JobStage
  <1>8. Becomes(s, j)
    BY <1>0, <1>2, <1>3, <1>4 DEF transcribe, Becomes, GuideTyped, GuideJob
  <1>9. /\ jobOf' \in [Server -> GuideJob \cup {Idle}] /\ jobOf'[s] = j
        /\ \A u \in Server \ {s} : jobOf'[u] = jobOf[u]
    BY <1>0, <1>7, <1>8, JobMoves
  <1>10. GuideTyped' /\ GoneForGood' /\ VideoAskedIdle' /\ NarrationOfThisVideo'
    BY <1>0, <1>1, <1>9 DEF GuideTyped, TeardownInv, GoneForGood, VideoAskedIdle, NarrationOfThisVideo
  <1>11. OwnTokens'
    <2>1. \A u \in Server : (Working(u))' <=> Working(u)
      BY <1>2, <1>7, <1>9 DEF Working
    <2>2. \A u \in Server : Working(u) => jobOf'[u].token = jobOf[u].token
      BY <1>7, <1>9
    <2> QED
      BY <1>1, <2>1, <2>2 DEF TeardownInv, OwnTokens
  <1>12. HolderHears'
    <2> SUFFICES ASSUME NEW u \in Server, Listening(u)', Holds(u)'
                 PROVE  /\ guide.heard.done <= jobOf'[u].heard.done
                        /\ jobOf'[u].stage = "store" => guide.heard.done < jobOf'[u].heard.done
                        /\ ~crossed => jobOf'[u].heard.of = guide.video
      BY <1>1 DEF HolderHears, Unsaved
    <2>1. CASE u = s
      <3>1. Holds(s)
        BY <1>1, <1>7, <1>9, <2>1 DEF Holds
      <3>2. guide.heard.done <= jobOf[s].heard.done /\ (~crossed => jobOf[s].heard.of = guide.video)
        BY <1>2, <3>1 DEF TeardownInv, HolderHears
      <3>3. guide.heard.done \in Nat
        BY <1>0, JobTyped
      <3> QED
        BY <1>5, <1>6, <1>7, <1>9, <2>1, <3>2, <3>3
    <2>2. CASE u # s
      <3>1. jobOf'[u] = jobOf[u] /\ Listening(u) /\ Holds(u)
        BY <1>1, <1>9, <2>2 DEF Holds, Listening, Working
      <3> QED
        BY <3>1 DEF TeardownInv, HolderHears, Unsaved
    <2> QED
      BY <2>1, <2>2
  <1>13. Paying'
    <2>1. Loses(j) /\ ~Loses(jobOf[s]) /\ IsFiniteSet(Lossless)
      BY <1>2, <1>7 DEF Loses, Working, Unsaved, TeardownInv, Paying
    <2>2. /\ IsFiniteSet(Lossless') /\ Cardinality(Lossless) \in Nat
          /\ Cardinality(Lossless') = Cardinality(Lossless) - 1
      BY <1>0, <1>7, <1>8, <2>1, LosslessMoves
    <2>3. InRow' = InRow /\ InRow \in Nat /\ paid \in Nat /\ Chunks * restarts \in Nat /\ guide.tokens \in Nat
      BY <1>0, <1>1, JobTyped, TeardownAssumption DEF InRow, GuideTyped
    <2>4. PICK c \in Nat : c = Chunks * restarts
      BY <2>3
    <2>5. paid + Cardinality(Lossless) <= c + InRow + guide.tokens
      BY <2>4 DEF TeardownInv, Paying
    <2>6. paid + 1 + Cardinality(Lossless') <= c + InRow' + guide.tokens
      BY <2>2, <2>3, <2>5
    <2> QED
      BY <1>1, <2>2, <2>4, <2>6 DEF Paying
  <1> QED
    BY <1>10, <1>11, <1>12, <1>13 DEF TeardownInv

-----------------------------------------------------------------------------
(* People, and the heart of a job *)

(* What leaves the jobs, and the row as far as they rely on it. *)
LEMMA BesideStep ==
    ASSUME TeardownInv, StepsTyped', LeavesBe, jobOf' = jobOf,
           paid' = paid, restarts' = restarts, crossed' = crossed,
           asking' \in [Person -> Asked \cup {Quiet}],
           \A p \in Person : asking'[p] = asking[p] \/ asking'[p] = Quiet
    PROVE  TeardownInv'
  <1>1. OwnTokens' /\ HolderHears' /\ Paying' /\ NarrationOfThisVideo'
    BY LeftBe
  <1>2. GuideTyped'
    BY DEF TeardownInv, GuideTyped, LeavesBe
  <1>3. GoneForGood'
    BY DEF TeardownInv, GoneForGood, LeavesBe
  <1>4. VideoAskedIdle'
    BY DEF TeardownInv, VideoAskedIdle, Quiet
  <1> QED
    BY <1>1, <1>2, <1>3, <1>4 DEF TeardownInv

(* A request that was answered. *)
LEMMA Answered ==
    ASSUME GuideTyped, NEW p \in Person, Answer(p)
    PROVE  /\ asking' \in [Person -> Asked \cup {Quiet}] /\ asking'[p] = Quiet
           /\ \A q \in Person \ {p} : asking'[q] = asking[q]
  BY DEF GuideTyped, Answer

LEMMA AskStep ==
    ASSUME TeardownInv, StepsTyped', NEW p \in Person, Ask(p)
    PROVE  TeardownInv'
  <1>0. GuideTyped /\ guide \in GuideRow
    BY DEF TeardownInv, GuideTyped
  <1>1. /\ guide' = guide /\ jobOf' = jobOf /\ paid' = paid /\ restarts' = restarts /\ crossed' = crossed
        /\ guide.there
    BY DEF Ask
  <1>2. PICK what \in {"continue", "steps", "all", "stop", "video", "apply", "discard"} :
           /\ asking' = [asking EXCEPT ![p] = [what |-> what, seen |-> Seen]]
           /\ what = "video" => guide.status # "running"
    BY DEF Ask
  <1>3. PICK ask : ask = [what |-> what, seen |-> Seen]
    OBVIOUS
  <1>4. ask \in Asked /\ ask.what = what /\ ask.seen.token = guide.token
    BY <1>0, <1>3 DEF Seen, Asked, GuideRow
  <1>5. /\ asking' \in [Person -> Asked \cup {Quiet}] /\ asking'[p] = ask
        /\ \A q \in Person \ {p} : asking'[q] = asking[q]
    BY <1>0, <1>2, <1>3, <1>4 DEF GuideTyped
  <1>6. LeavesBe
    BY <1>1, SameRow
  <1>7. OwnTokens' /\ HolderHears' /\ Paying' /\ NarrationOfThisVideo'
    BY <1>1, <1>6, LeftBe
  <1>8. GuideTyped' /\ GoneForGood'
    BY <1>0, <1>1, <1>5 DEF GuideTyped, GoneForGood
  <1>9. VideoAskedIdle'
    <2>1. what = "video" => guide.token = 0
      BY <1>0, <1>2 DEF GuideTyped
    <2> QED
      BY <1>4, <1>5, <2>1 DEF TeardownInv, VideoAskedIdle
  <1> QED
    BY <1>7, <1>8, <1>9 DEF TeardownInv

(* The row loses its job: whoever has one holds it no more. *)
LEMMA TakenAway ==
    ASSUME TeardownInv, guide'.token = 0, guide'.tokens = guide.tokens, jobOf' = jobOf
    PROVE  OwnTokens' /\ HolderHears' /\ Lossless' = Lossless
  <1>1. GuideTyped
    BY DEF TeardownInv
  <1>2. OwnTokens'
    BY DEF TeardownInv, OwnTokens, Working
  <1>3. \A u \in Server : ~((Listening(u))' /\ (Holds(u))')
    BY <1>1, JobTyped DEF Listening, Working, Holds
  <1> QED
    BY <1>2, <1>3 DEF HolderHears, Lossless

(* What is thrown away of the transcript is counted. *)
LEMMA RestartPays ==
    ASSUME TeardownInv, Lossless' = Lossless, paid' = paid, guide'.tokens = guide.tokens,
           InRow \in 0 .. Chunks, InRow' \in 0 .. Chunks,
           \/ restarts' = restarts /\ InRow <= InRow'
           \/ restarts' = restarts + 1
    PROVE  Paying'
  <1>1. /\ restarts \in Nat /\ paid \in Nat /\ guide.tokens \in Nat /\ Chunks \in Nat
        /\ IsFiniteSet(Lossless) /\ Cardinality(Lossless) \in Nat
    BY FS_CardinalityType, TeardownAssumption DEF TeardownInv, GuideTyped, GuideRow, Paying
  <1>2. PICK c \in Nat : c = Chunks * restarts
    BY <1>1
  <1>3. paid + Cardinality(Lossless) <= c + InRow + guide.tokens
    BY <1>2 DEF TeardownInv, Paying
  <1>4. CASE restarts' = restarts /\ InRow <= InRow'
    BY <1>1, <1>2, <1>3, <1>4 DEF Paying
  <1>5. CASE restarts' = restarts + 1
    <2>1. Chunks * restarts' = c + Chunks
      BY <1>1, <1>2, <1>5
    <2>2. paid + Cardinality(Lossless) <= c + Chunks + InRow' + guide.tokens
      BY <1>1, <1>2, <1>3
    <2> QED
      BY <1>1, <2>1, <2>2 DEF Paying
  <1> QED
    BY <1>4, <1>5

LEMMA EnqueueStep ==
    ASSUME TeardownInv, StepsTyped', NEW p \in Person, enqueueGuide(p)
    PROVE  TeardownInv'
  <1>0. GuideTyped /\ guide \in GuideRow
    BY DEF TeardownInv, GuideTyped
  <1> DEFINE mode == asking[p].what
             kept == CASE mode = "all" -> NoTranscript
                       [] mode = "steps" /\ asking[p].seen.heard # NoTranscript ->
                              [asking[p].seen.heard EXCEPT !.read = FALSE]
                       [] OTHER -> guide.heard
             draft == IF mode = "continue" THEN guide.draft ELSE "none"
             refined == guide.refined /\ mode = "continue"
  <1>1. mode \in {"continue", "steps", "all"} /\ asking[p] \in Asked
    BY <1>0 DEF enqueueGuide, GuideTyped, Quiet
  <1>2. guide.there /\ guide.heard \in Transcript /\ asking[p].seen.heard \in Transcript
    <2>1. guide.there
      BY <1>1 DEF TeardownInv, GoneForGood, Quiet
    <2>2. guide.heard \in Transcript
      BY <1>0 DEF GuideRow
    <2>3. asking[p].seen.heard \in Transcript
      BY <1>1 DEF Asked
    <2> QED
      BY <2>1, <2>2, <2>3
  <1>3. /\ guide' = [guide EXCEPT !.status = "queued", !.token = 0, !.tries = 0, !.beating = FALSE,
                       !.heard = kept, !.draft = draft, !.refined = refined]
        /\ crossed' = (crossed \/ (mode = "steps" /\ asking[p].seen # Seen))
        /\ restarts' = IF kept.done < guide.heard.done THEN restarts + 1 ELSE restarts
        /\ Answer(p) /\ jobOf' = jobOf /\ paid' = paid
    BY DEF enqueueGuide
  <1>4. NoTranscript \in Transcript /\ NoTranscript.done = 0
    BY TeardownAssumption DEF NoTranscript, Transcript
  <1>5. kept \in Transcript /\ (~crossed' /\ kept.done > 0 => kept.of = guide.heard.of /\ guide.heard.done > 0)
    <2>1. CASE mode = "all"
      BY <1>4, <2>1
    <2>2. CASE mode = "steps" /\ asking[p].seen.heard # NoTranscript
      <3>1. PICK k : k = [asking[p].seen.heard EXCEPT !.read = FALSE]
        OBVIOUS
      <3>2. k \in Transcript /\ k.done = asking[p].seen.heard.done /\ k.of = asking[p].seen.heard.of
        BY <1>2, <3>1 DEF Transcript
      <3>3. kept = k
        BY <2>2, <3>1
      <3>4. ~crossed' => asking[p].seen.heard = guide.heard
        <4>1. Seen.heard = guide.heard
          BY DEF Seen
        <4>2. ~crossed' => asking[p].seen = Seen
          BY <1>3, <2>2
        <4> QED
          BY <4>1, <4>2
      <3> HIDE DEF kept
      <3> QED
        BY <3>2, <3>3, <3>4
    <2>3. CASE mode # "all" /\ ~(mode = "steps" /\ asking[p].seen.heard # NoTranscript)
      <3>1. kept = guide.heard
        BY <2>3
      <3> HIDE DEF kept
      <3> QED
        BY <1>2, <3>1
    <2> HIDE DEF kept
    <2> QED
      BY <2>1, <2>2, <2>3
  <1> HIDE DEF kept
  <1>6. draft \in {"none", "read", "pending"} /\ refined \in BOOLEAN
    BY <1>0 DEF GuideRow
  <1> HIDE DEF draft, refined
  <1>7. /\ guide' \in GuideRow /\ guide'.status = "queued" /\ guide'.token = 0 /\ guide'.tokens = guide.tokens
        /\ guide'.there = guide.there /\ guide'.heard = kept /\ guide'.video = guide.video
    BY <1>0, <1>3, <1>5, <1>6 DEF GuideRow
  <1>8. /\ asking' \in [Person -> Asked \cup {Quiet}] /\ asking'[p] = Quiet
        /\ \A q \in Person \ {p} : asking'[q] = asking[q]
    BY <1>0, <1>3, Answered
  <1>9. GuideTyped'
    <2>1. restarts' \in Nat /\ crossed' \in BOOLEAN
      BY <1>0, <1>3 DEF GuideTyped
    <2> QED
      BY <1>0, <1>3, <1>7, <1>8, <2>1 DEF GuideTyped, GuideRow
  <1>10. GoneForGood'
    BY <1>2, <1>7 DEF GoneForGood
  <1>11. OwnTokens' /\ HolderHears' /\ Lossless' = Lossless
    BY <1>3, <1>7, TakenAway
  <1>12. VideoAskedIdle'
    BY <1>8 DEF TeardownInv, VideoAskedIdle, Quiet
  <1>13. Paying'
    <2>1. InRow = guide.heard.done /\ InRow' = kept.done
      BY <1>2, <1>7 DEF InRow
    <2>2. guide.heard.done \in 0 .. Chunks /\ kept.done \in 0 .. Chunks
      BY <1>2, <1>5 DEF Transcript
    <2>3. (restarts' = restarts /\ guide.heard.done <= kept.done) \/ restarts' = restarts + 1
      BY <1>3, <2>2, TeardownAssumption
    <2> QED
      BY <1>3, <1>7, <1>11, <2>1, <2>2, <2>3, RestartPays
  <1>14. NarrationOfThisVideo'
    BY <1>3, <1>5, <1>7 DEF TeardownInv, NarrationOfThisVideo
  <1> QED
    BY <1>9, <1>10, <1>11, <1>12, <1>13, <1>14 DEF TeardownInv

LEMMA CancelStep ==
    ASSUME TeardownInv, StepsTyped', NEW p \in Person, cancelGuideJob(p)
    PROVE  TeardownInv'
  <1>0. GuideTyped /\ guide \in GuideRow
    BY DEF TeardownInv, GuideTyped
  <1>1. /\ guide' = [guide EXCEPT !.status = "idle", !.token = 0] /\ Answer(p)
        /\ jobOf' = jobOf /\ paid' = paid /\ restarts' = restarts /\ crossed' = crossed
    BY DEF cancelGuideJob
  <1>2. /\ guide' \in GuideRow /\ guide'.status = "idle" /\ guide'.token = 0 /\ guide'.tokens = guide.tokens
        /\ guide'.there = guide.there /\ guide'.heard = guide.heard /\ guide'.video = guide.video
    BY <1>0, <1>1 DEF GuideRow
  <1>3. /\ asking' \in [Person -> Asked \cup {Quiet}] /\ asking'[p] = Quiet
        /\ \A q \in Person \ {p} : asking'[q] = asking[q]
    BY <1>0, <1>1, Answered
  <1>4. GuideTyped' /\ GoneForGood' /\ VideoAskedIdle' /\ NarrationOfThisVideo'
    <2>1. GuideTyped'
      BY <1>0, <1>1, <1>2, <1>3 DEF GuideTyped, GuideRow
    <2>2. GoneForGood' /\ VideoAskedIdle' /\ NarrationOfThisVideo'
      BY <1>1, <1>2, <1>3 DEF TeardownInv, GoneForGood, VideoAskedIdle, NarrationOfThisVideo, Quiet
    <2> QED
      BY <2>1, <2>2
  <1>5. OwnTokens' /\ HolderHears' /\ Lossless' = Lossless
    BY <1>1, <1>2, TakenAway
  <1>6. Paying'
    <2>1. InRow' = InRow
      BY <1>2 DEF InRow
    <2> QED
      BY <1>1, <1>2, <1>5, <2>1 DEF TeardownInv, Paying
  <1> QED
    BY <1>4, <1>5, <1>6 DEF TeardownInv

(* No job ran when the change was asked for; if one has begun since, it crossed it. *)
LEMMA VideoStep ==
    ASSUME TeardownInv, StepsTyped', NEW p \in Person, updateGuide(p)
    PROVE  TeardownInv'
  <1>0. GuideTyped /\ guide \in GuideRow
    BY DEF TeardownInv, GuideTyped
  <1>1. /\ guide' = [guide EXCEPT !.video = guide.video + 1, !.heard = NoTranscript, !.draft = "none",
                       !.refined = FALSE]
        /\ Answer(p) /\ jobOf' = jobOf /\ paid' = paid /\ restarts' = restarts + 1
        /\ crossed' = (crossed \/ asking[p].seen # Seen)
        /\ asking[p].what = "video"
    BY DEF updateGuide
  <1>2. NoTranscript \in Transcript /\ NoTranscript.done = 0
    BY TeardownAssumption DEF NoTranscript, Transcript
  <1>3. /\ guide' \in GuideRow /\ guide'.status = guide.status /\ guide'.token = guide.token
        /\ guide'.tokens = guide.tokens /\ guide'.there = guide.there /\ guide'.heard = NoTranscript
    <2>1. PICK video \in Nat : video = guide.video + 1
      BY <1>0 DEF GuideRow
    <2>2. guide' = [guide EXCEPT !.video = video, !.heard = NoTranscript, !.draft = "none", !.refined = FALSE]
      BY <1>1, <2>1
    <2> QED
      BY <1>0, <1>2, <2>2 DEF GuideRow
  <1>4. /\ asking' \in [Person -> Asked \cup {Quiet}] /\ asking'[p] = Quiet
        /\ \A q \in Person \ {p} : asking'[q] = asking[q]
    BY <1>0, <1>1, Answered
  <1>5. guide.there
    BY <1>1 DEF TeardownInv, GoneForGood, Quiet
  <1>6. GuideTyped'
    <2>1. restarts' \in Nat /\ crossed' \in BOOLEAN
      BY <1>0, <1>1 DEF GuideTyped
    <2> QED
      BY <1>0, <1>1, <1>3, <1>4, <2>1 DEF GuideTyped
  <1>7. GoneForGood'
    BY <1>3, <1>5 DEF GoneForGood
  <1>8. VideoAskedIdle'
    BY <1>4 DEF TeardownInv, VideoAskedIdle, Quiet
  <1>9. OwnTokens'
    BY <1>1, <1>3 DEF TeardownInv, OwnTokens, Working
  <1>10. HolderHears'
    <2> SUFFICES ASSUME NEW u \in Server, Listening(u)', Holds(u)'
                 PROVE  /\ guide'.heard.done <= jobOf'[u].heard.done
                        /\ jobOf'[u].stage = "store" => guide'.heard.done < jobOf'[u].heard.done
                        /\ ~crossed' => jobOf'[u].heard.of = guide'.video
      BY DEF HolderHears, Unsaved
    <2>1. Listening(u) /\ Holds(u) /\ Working(u)
      BY <1>1, <1>3 DEF Listening, Working, Holds
    <2>2. jobOf[u].heard.done \in Nat /\ guide.heard.done \in Nat /\ jobOf[u].token \in Nat \ {0}
      BY <1>0, <2>1, JobTyped, TeardownAssumption
    <2>3. jobOf[u].stage = "store" => guide.heard.done < jobOf[u].heard.done
      BY <2>1 DEF TeardownInv, HolderHears, Unsaved
    <2>4. crossed'
      <3>1. asking[p].seen.token = 0 /\ guide.token # 0
        BY <1>1, <2>1, <2>2 DEF TeardownInv, VideoAskedIdle, Holds
      <3>2. Seen.token = guide.token
        BY DEF Seen
      <3>3. asking[p].seen # Seen
        BY <3>1, <3>2
      <3> QED
        BY <1>1, <3>3
    <2> QED
      BY <1>1, <1>2, <1>3, <2>2, <2>3, <2>4
  <1>11. Paying'
    <2>1. Lossless' = Lossless
      BY <1>1 DEF Lossless
    <2>2. InRow = guide.heard.done /\ InRow' = 0
      BY <1>2, <1>3, <1>5 DEF InRow
    <2>3. guide.heard.done \in 0 .. Chunks /\ 0 \in 0 .. Chunks
      BY <1>0, TeardownAssumption DEF GuideRow, Transcript
    <2> QED
      BY <1>1, <1>3, <2>1, <2>2, <2>3, RestartPays
  <1>12. NarrationOfThisVideo'
    BY <1>2, <1>3 DEF NarrationOfThisVideo
  <1> QED
    BY <1>6, <1>7, <1>8, <1>9, <1>10, <1>11, <1>12 DEF TeardownInv

LEMMA DeleteStep ==
    ASSUME TeardownInv, StepsTyped', deleteGuide
    PROVE  TeardownInv'
  <1>0. GuideTyped /\ guide \in GuideRow /\ guide.there
    BY DEF TeardownInv, GuideTyped, deleteGuide
  <1>1. /\ guide' = [guide EXCEPT !.there = FALSE, !.status = "idle", !.token = 0, !.beating = FALSE,
                       !.heard = NoTranscript, !.draft = "none", !.refined = FALSE]
        /\ asking' = [p \in Person |-> Quiet]
        /\ jobOf' = jobOf /\ paid' = paid /\ restarts' = restarts /\ crossed' = crossed
    BY DEF deleteGuide
  <1>2. NoTranscript \in Transcript /\ NoTranscript.done = 0
    BY TeardownAssumption DEF NoTranscript, Transcript
  <1>3. /\ guide' \in GuideRow /\ guide'.status = "idle" /\ guide'.token = 0 /\ guide'.tokens = guide.tokens
        /\ ~guide'.there /\ guide'.heard = NoTranscript
    BY <1>0, <1>1, <1>2 DEF GuideRow
  <1>4. GuideTyped'
    BY <1>0, <1>1, <1>3 DEF GuideTyped, GuideRow
  <1>5. GoneForGood' /\ VideoAskedIdle' /\ NarrationOfThisVideo'
    BY <1>1, <1>2, <1>3 DEF GoneForGood, VideoAskedIdle, NarrationOfThisVideo, Quiet
  <1>6. OwnTokens' /\ HolderHears' /\ Lossless' = Lossless
    BY <1>1, <1>3, TakenAway
  <1>7. Paying'
    <2>1. InRow = guide.heard.done /\ InRow' = Chunks
      BY <1>0, <1>3 DEF InRow
    <2>2. guide.heard.done \in 0 .. Chunks /\ Chunks \in 0 .. Chunks /\ guide.heard.done <= Chunks
      BY <1>0, TeardownAssumption DEF GuideRow, Transcript
    <2> QED
      BY <1>1, <1>3, <1>6, <2>1, <2>2, RestartPays
  <1> QED
    BY <1>4, <1>5, <1>6, <1>7 DEF TeardownInv

(* applyDraft and discardDraft answer a request, and write over the row's draft only. *)
LEMMA DraftStep ==
    ASSUME TeardownInv, StepsTyped', NEW p \in Person, applyDraft(p) \/ discardDraft(p)
    PROVE  TeardownInv'
  <1>1. GuideTyped /\ guide \in GuideRow
    BY DEF TeardownInv, GuideTyped
  <1>2. Answer(p) /\ jobOf' = jobOf /\ paid' = paid /\ restarts' = restarts /\ crossed' = crossed
    BY DEF applyDraft, discardDraft
  <1>3. LeavesBe
    BY <1>1 DEF applyDraft, discardDraft, writeDraft, LeavesBe, GuideRow
  <1>4. /\ asking' \in [Person -> Asked \cup {Quiet}] /\ asking'[p] = Quiet
        /\ \A q \in Person \ {p} : asking'[q] = asking[q]
    BY <1>1, <1>2, Answered
  <1>5. \A q \in Person : asking'[q] = asking[q] \/ asking'[q] = Quiet
    BY <1>4
  <1> QED
    BY <1>2, <1>3, <1>4, <1>5, BesideStep

(* What neither asks nor answers, and leaves the jobs. *)
LEMMA HeartStep ==
    ASSUME TeardownInv, StepsTyped',
           EditGuide \/ GoesStale \/ (\E s \in Server : Stalls(s) \/ Beats(s)) \/ UNCHANGED teardownVars
    PROVE  TeardownInv'
  <1>1. GuideTyped /\ guide \in GuideRow
    BY DEF TeardownInv, GuideTyped
  <1>2. asking' = asking /\ jobOf' = jobOf /\ paid' = paid /\ restarts' = restarts /\ crossed' = crossed
    BY DEF EditGuide, GoesStale, Stalls, Beats, teardownVars
  <1>3. guide' = guide \/ \E beating \in BOOLEAN : guide' = [guide EXCEPT !.beating = beating]
    BY DEF EditGuide, GoesStale, Stalls, Beats, teardownVars
  <1>4. LeavesBe
    BY <1>1, <1>3 DEF LeavesBe, GuideRow
  <1>5. asking' \in [Person -> Asked \cup {Quiet}]
    BY <1>1, <1>2 DEF GuideTyped
  <1> QED
    BY <1>2, <1>4, <1>5, BesideStep

(* A job ends: all its pieces heard, the service failed, or its tries are used up. *)
LEMMA EndStep ==
    ASSUME TeardownInv, StepsTyped', NEW s \in Server, runJob(s) \/ transcribeFails(s) \/ finish(s)
    PROVE  TeardownInv'
  <1>1. /\ paid' = paid /\ restarts' = restarts /\ crossed' = crossed /\ asking' = asking
        /\ \E status \in {"done", "failed"} : Finish(s, status)
    BY DEF runJob, transcribeFails, finish
  <1>2. Working(s)
    BY DEF runJob, transcribeFails, finish, At, Working
  <1>3. /\ GuideTyped' /\ GoneForGood'
        /\ OwnTokens' /\ HolderHears' /\ Paying' /\ NarrationOfThisVideo'
    BY <1>1, <1>2, FinishStep
  <1>4. VideoAskedIdle'
    BY <1>1 DEF TeardownInv, VideoAskedIdle
  <1> QED
    BY <1>3, <1>4 DEF TeardownInv

LEMMA StagesStep ==
    ASSUME TeardownInv, StepsTyped', NEW s \in Server, Stages(s) \/ ServerDies(s)
    PROVE  TeardownInv'
  <1>1. CASE transcribeStage(s) \/ stepsStage(s) \/ keyframesStage(s) \/ refineStage(s)
    <2>1. Kind(s)
      BY <1>1, TranscribeStageKind, StepsStageKind, PicturesKind
    <2>2. paid' = paid /\ restarts' = restarts /\ crossed' = crossed /\ asking' = asking
      BY <1>1 DEF transcribeStage, stepsStage, keyframesStage, refineStage
    <2> QED
      BY <2>1, <2>2, KindStep
  <1>2. CASE ServerDies(s)
    <2>1. /\ guide' = guide /\ LetGo(s)
          /\ paid' = paid /\ restarts' = restarts /\ crossed' = crossed /\ asking' = asking
      BY <1>2 DEF ServerDies
    <2>2. Kind(s)
      BY <2>1, SameRow, LetGoKind
    <2> QED
      BY <2>1, <2>2, KindStep
  <1> QED
    BY <1>1, <1>2, ProcessStep, TranscribeStep, EndStep DEF Stages

LEMMA TeardownStep ==
    ASSUME TeardownInv, [TeardownNext]_teardownVars
    PROVE  TeardownInv'
  <1>1. StepsTyped'
    BY StepsStep DEF TeardownInv
  <1>2. ASSUME NEW p \in Person,
               Ask(p) \/ enqueueGuide(p) \/ cancelGuideJob(p) \/ updateGuide(p) \/ applyDraft(p) \/ discardDraft(p)
        PROVE  TeardownInv'
    BY <1>1, <1>2, AskStep, EnqueueStep, CancelStep, VideoStep, DraftStep
  <1>3. ASSUME NEW s \in Server, claimNext(s) \/ Stages(s) \/ ServerDies(s)
        PROVE  TeardownInv'
    BY <1>1, <1>3, ClaimStep, StagesStep
  <1>4. EditGuide \/ GoesStale \/ (\E s \in Server : Stalls(s) \/ Beats(s)) \/ UNCHANGED teardownVars
        => TeardownInv'
    BY <1>1, HeartStep
  <1>5. deleteGuide => TeardownInv'
    BY <1>1, DeleteStep
  <1> QED
    BY <1>2, <1>3, <1>4, <1>5 DEF TeardownNext

LEMMA TeardownStarts ==
    ASSUME TeardownInit
    PROVE  TeardownInv
  <1>1. NoTranscript \in Transcript /\ NoTranscript.done = 0
    BY TeardownAssumption DEF NoTranscript, Transcript
  <1>2. /\ guide \in GuideRow /\ guide.there /\ guide.status = "idle" /\ guide.token = 0 /\ guide.tokens = 0
        /\ guide.heard = NoTranscript
    BY <1>1 DEF TeardownInit, GuideRow
  <1>3. StepsTyped /\ GuideTyped /\ GoneForGood
    <2>1. StepsTyped /\ GoneForGood
      BY <1>2 DEF TeardownInit, StepsTyped, GoneForGood
    <2>2. jobOf \in [Server -> GuideJob \cup {Idle}] /\ asking \in [Person -> Asked \cup {Quiet}]
      BY DEF TeardownInit
    <2>3. paid \in Nat /\ restarts \in Nat /\ crossed \in BOOLEAN
      BY DEF TeardownInit
    <2> QED
      BY <1>2, <2>1, <2>2, <2>3 DEF GuideTyped
  <1>4. \A s \in Server : jobOf[s].stage = "none"
    BY DEF TeardownInit, Idle
  <1>5. OwnTokens /\ HolderHears
    BY <1>4 DEF OwnTokens, HolderHears, Listening, Working
  <1>6. VideoAskedIdle
    BY DEF TeardownInit, VideoAskedIdle, Quiet
  <1>7. Paying
    <2>1. Lossless = {}
      BY <1>4 DEF Lossless, Loses
    <2>2. IsFiniteSet(Lossless) /\ Cardinality(Lossless) = 0
      BY <2>1, FS_EmptySet
    <2>3. InRow = 0 /\ paid = 0 /\ restarts = 0 /\ Chunks * 0 = 0
      BY <1>1, <1>2, TeardownAssumption DEF InRow, TeardownInit
    <2> QED
      BY <1>2, <2>2, <2>3 DEF Paying
  <1>8. NarrationOfThisVideo
    BY <1>1, <1>2 DEF NarrationOfThisVideo
  <1> QED
    BY <1>3, <1>5, <1>6, <1>7, <1>8 DEF TeardownInv

(* Whatever is asked of a guide and whichever servers die, stall or come back: every start
   has its own token, only who holds the row's token has heard all the row says, and what
   was paid for is in the row, thrown away by a person, or the piece a start was at. *)
THEOREM TeardownInvariant == TeardownSpec => []TeardownInv
  <1>1. TeardownInit => TeardownInv
    BY TeardownStarts
  <1>2. TeardownInv /\ [TeardownNext]_teardownVars => TeardownInv'
    BY TeardownStep
  <1> QED
    BY <1>1, <1>2, PTL DEF TeardownSpec

-----------------------------------------------------------------------------
LEMMA PaidForOnce ==
    ASSUME TeardownInv
    PROVE  PaidOnce
  <1>1. /\ paid \in Nat /\ restarts \in Nat /\ guide.tokens \in Nat /\ Chunks \in Nat
        /\ Cardinality(Lossless) \in Nat
    BY FS_CardinalityType, TeardownAssumption DEF TeardownInv, GuideTyped, GuideRow, Paying
  <1>2. InRow \in Nat /\ InRow <= Chunks
    BY TeardownAssumption DEF InRow, TeardownInv, GuideTyped, GuideRow, Transcript
  <1>3. PICK c \in Nat : c = Chunks * restarts
    BY <1>1
  <1>4. Chunks * (1 + restarts) = Chunks + c
    BY <1>1, <1>3
  <1>5. paid + Cardinality(Lossless) <= c + InRow + guide.tokens
    BY <1>3 DEF TeardownInv, Paying
  <1>6. paid <= Chunks + c + guide.tokens
    BY <1>1, <1>2, <1>5
  <1> QED
    BY <1>4, <1>6 DEF PaidOnce

(* pipeline.ts:53-55 and guides.ts:481-482, for any number of servers, people and pieces of
   audio: no piece is paid for again but what an interruption or a person lost, and the
   transcript is of the video the guide has. *)
THEOREM GuideIsSound == TeardownSpec => []GuideSound
  <1>1. TeardownInv => TeardownTypeOK
    BY DEF TeardownInv, StepsTyped, GuideTyped, GuideRow, Transcript, TeardownTypeOK
  <1>2. TeardownInv => GuideSound
    BY <1>1, PaidForOnce DEF GuideSound, TeardownInv
  <1> QED
    BY <1>2, TeardownInvariant, PTL

-----------------------------------------------------------------------------
(* What a job has heard is never less than what the row it holds says. *)
LEMMA GrowsByStep ==
    ASSUME TeardownInv, [TeardownNext]_teardownVars
    PROVE  NarrationGrows
  <1> DEFINE Grows == guide'.heard = guide.heard \/ guide'.heard.done >= guide.heard.done
  <1>0. GuideTyped /\ guide \in GuideRow
    BY DEF TeardownInv, GuideTyped
  <1>1. ASSUME NEW s \in Server, Kind(s)
        PROVE  Grows
    <2>1. CASE LeavesBe
      BY <2>1 DEF LeavesBe
    <2>2. ASSUME NEW j, NEW heard, Stores(s, j, heard)
          PROVE  Grows
      <3>1. guide'.heard.done = jobOf[s].heard.done /\ guide.heard.done <= jobOf[s].heard.done
        BY <2>2 DEF Stores, TeardownInv, HolderHears
      <3>2. jobOf[s].heard.done \in Nat /\ guide.heard.done \in Nat
        BY <1>0, <2>2, JobTyped DEF Stores, Listening
      <3> QED
        BY <3>1, <3>2
    <2> QED
      BY <1>1, <2>1, <2>2 DEF Kind
  <1>2. ASSUME NEW s \in Server, transcribeStage(s) \/ stepsStage(s) \/ keyframesStage(s) \/ refineStage(s)
        PROVE  Grows
    BY <1>1, <1>2, TranscribeStageKind, StepsStageKind, PicturesKind
  <1>3. ASSUME NEW s \in Server,
               claimNext(s) \/ runJob(s) \/ processGuide(s) \/ transcribe(s) \/ transcribeFails(s) \/ finish(s)
               \/ ServerDies(s)
        PROVE  Grows
    <2>1. claimNext(s) => Grows
      BY <1>0 DEF claimNext, GuideRow
    <2>2. (\E status \in {"done", "failed"} : Finish(s, status)) => Grows
      BY <1>0 DEF Finish, GuideRow
    <2>3. processGuide(s) \/ transcribe(s) \/ ServerDies(s) => Grows
      BY DEF processGuide, transcribe, ServerDies
    <2> HIDE DEF Grows
    <2> QED
      BY <1>3, <2>1, <2>2, <2>3 DEF runJob, transcribeFails, finish
  <1>4. \/ \E p \in Person : Ask(p) \/ enqueueGuide(p) \/ cancelGuideJob(p) \/ updateGuide(p)
                             \/ applyDraft(p) \/ discardDraft(p)
        \/ EditGuide \/ GoesStale \/ (\E s \in Server : Stalls(s) \/ Beats(s)) \/ UNCHANGED teardownVars
        \/ deleteGuide
        => jobOf' = jobOf
    BY DEF Ask, enqueueGuide, cancelGuideJob, updateGuide, applyDraft, discardDraft, EditGuide, GoesStale,
           Stalls, Beats, teardownVars, deleteGuide
  <1>5. Grows \/ jobOf' = jobOf
    <2> HIDE DEF Grows
    <2> QED
      BY <1>2, <1>3, <1>4 DEF TeardownNext, Stages
  <1> QED
    BY <1>5 DEF NarrationGrows

(* A row nobody's token is in is held by nobody: their writes do nothing, and they let go. *)
LEMMA StoppedByStep ==
    ASSUME TeardownInv, [TeardownNext]_teardownVars
    PROVE  StoppedStays
  <1> DEFINE Same == guide' = guide /\ steps' = steps /\ picture' = picture
  <1> SUFFICES ASSUME guide.status = "idle"
               PROVE  Same \/ jobOf' = jobOf
    BY DEF StoppedStays
  <1>0. GuideTyped /\ guide.token = 0
    BY DEF TeardownInv, GuideTyped
  <1>1. \A s \in Server : Working(s) => ~Holds(s)
    BY <1>0, JobTyped DEF Holds
  <1>2. \A s \in Server : ~claimNext(s)
    BY DEF claimNext, Claimable
  <1>3. ASSUME NEW s \in Server, Stages(s) \/ ServerDies(s)
        PROVE  Same
    <2>1. ~Holds(s)
      BY <1>1, <1>3 DEF Stages, ServerDies, runJob, processGuide, transcribe, transcribeFails,
         transcribeStage, stepsStage, keyframesStage, refineStage, finish, At, Working
    <2>2. runJob(s) \/ transcribeFails(s) \/ finish(s) => Same
      BY <2>1 DEF runJob, transcribeFails, finish, Finish
    <2>3. processGuide(s) \/ transcribe(s) \/ ServerDies(s) => Same
      BY DEF processGuide, transcribe, ServerDies
    <2>4. transcribeStage(s) => Same
      BY <2>1 DEF transcribeStage, SaveTo
    <2>5. stepsStage(s) => Same
      BY <2>1 DEF stepsStage, SaveTo
    <2>6. keyframesStage(s) => Same
      BY <2>1 DEF keyframesStage, SaveTo
    <2>7. refineStage(s) => Same
      BY <2>1 DEF refineStage, SaveTo
    <2> HIDE DEF Same
    <2> QED
      BY <1>3, <2>2, <2>3, <2>4, <2>5, <2>6, <2>7 DEF Stages
  <1>4. \/ \E p \in Person : Ask(p) \/ enqueueGuide(p) \/ cancelGuideJob(p) \/ updateGuide(p)
                             \/ applyDraft(p) \/ discardDraft(p)
        \/ EditGuide \/ GoesStale \/ (\E s \in Server : Stalls(s) \/ Beats(s)) \/ UNCHANGED teardownVars
        \/ deleteGuide
        => jobOf' = jobOf
    BY DEF Ask, enqueueGuide, cancelGuideJob, updateGuide, applyDraft, discardDraft, EditGuide, GoesStale,
           Stalls, Beats, teardownVars, deleteGuide
  <1> HIDE DEF Same
  <1> QED
    BY <1>2, <1>3, <1>4 DEF TeardownNext

LEMMA EditKeptByStep ==
    ASSUME [TeardownNext]_teardownVars, part = "edited"
    PROVE  part' # "refined"
  <1> DEFINE Kept == part' \in {part, "heard", "none", "edited"}
  <1>1. ASSUME NEW p \in Person,
               Ask(p) \/ enqueueGuide(p) \/ cancelGuideJob(p) \/ updateGuide(p) \/ applyDraft(p) \/ discardDraft(p)
        PROVE  Kept
    BY <1>1 DEF Ask, enqueueGuide, cancelGuideJob, updateGuide, applyDraft, discardDraft, writeDraft
  <1>2. EditGuide \/ deleteGuide \/ GoesStale \/ UNCHANGED teardownVars => Kept
    BY DEF EditGuide, deleteGuide, GoesStale, teardownVars
  <1>3. ASSUME NEW s \in Server, claimNext(s) \/ Stages(s) \/ ServerDies(s) \/ Stalls(s) \/ Beats(s)
        PROVE  Kept
    <2>1. claimNext(s) \/ ServerDies(s) \/ Stalls(s) \/ Beats(s) => Kept
      BY DEF claimNext, ServerDies, Stalls, Beats
    <2>2. runJob(s) \/ processGuide(s) \/ transcribe(s) \/ transcribeFails(s) \/ transcribeStage(s) \/ finish(s)
          => Kept
      BY DEF runJob, processGuide, transcribe, transcribeFails, transcribeStage, finish
    <2>3. stepsStage(s) => Kept
      BY DEF stepsStage, writeDraft
    <2>4. keyframesStage(s) => Kept
      BY DEF keyframesStage
    <2>5. refineStage(s) => Kept
      BY DEF refineStage, Renamed
    <2> HIDE DEF Kept
    <2> QED
      BY <1>3, <2>1, <2>2, <2>3, <2>4, <2>5 DEF Stages
  <1>4. Kept
    <2> HIDE DEF Kept
    <2> QED
      BY <1>1, <1>2, <1>3 DEF TeardownNext
  <1> QED
    BY <1>4

(* worker.ts:15-22 and 75-77, pipeline.ts:473, for any number of servers and people: a server
   that lost the job takes nothing back from the one that has it, nothing more comes of a job
   that was stopped, and a part's edited name is not refined. *)
THEOREM GuideAlwaysStands == TeardownSpec => GuideStands
  <1>1. TeardownInv /\ [TeardownNext]_teardownVars => [NarrationGrows /\ StoppedStays /\ EditKept]_teardownVars
    BY GrowsByStep, StoppedByStep, EditKeptByStep DEF EditKept
  <1> QED
    BY <1>1, TeardownInvariant, PTL DEF TeardownSpec, GuideStands

=============================================================================
