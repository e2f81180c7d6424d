--------------------------- MODULE GeofenceCrossings ---------------------------
(***************************************************************************)
(* A GPS tracker and a geofence: which of its fixes are believed, and when *)
(* it has entered or left.  The tracker's other fences are here only in    *)
(* what they do to this one: the time the tracker was last tested is kept  *)
(* once for all its fences.                                                *)
(*                                                                         *)
(* The tracker posts its fixes in batches, late, again and out of order.   *)
(* The server handles one batch at a time: it takes the fence from its     *)
(* memory and what it knows of the tracker from the database, and stores   *)
(* what the batch made of them in one transaction.                         *)
(* Meanwhile somebody may redraw the fence, or switch it off and on.       *)
(***************************************************************************)
EXTENDS Integers, Sequences, FiniteSets, SequencesExt

CONSTANTS
    MaxFix,         \* bound: the fixes the tracker takes, at times 1, 2, ...
    Dwell,          \* how long a side must be held
    REANCHOR_AFTER,
    MaxDrawings,    \* bound: drawings of the fence
    MaxUploads      \* bound: batches

ASSUME GeofenceAssumption ==
    /\ {MaxFix, MaxDrawings, MaxUploads, REANCHOR_AFTER} \subseteq Nat \ {0}
    /\ Dwell \in Nat

VARIABLES
    route,      \* where the tracker was at each fix
    geofence,   \* the latest drawing
    cached,     \* the drawing the server has in memory, or NoDrawing
    memory,     \* gps_trackers: what the server knows of the tracker
    side,       \* geofence_states: which side of the fence it is on, or NoSide
    events,     \* geofence_events since the tracker was last learned on the latest drawing
    upload,     \* the batch being handled
    uploads,    \* counts what MaxUploads bounds
    heeded,     \* the believed fixes tested against it since
    heldBack,   \* whether another fence kept the last test's time before the drawing
    torn        \* whether a batch was under way while the fence was redrawn

geoVars == <<route, geofence, cached, memory, side, events, upload, uploads, heeded, heldBack, torn>>

(* A fix on the edge has an accuracy that straddles it, wherever the edge is drawn, and
   nobody gets far away from one fix to the next. *)
Spot == {"yard", "road", "edge", "far"}
NotTaken == "unsent"
Region == {{"yard"}, {"yard", "road"}}
Time == 1 .. MaxFix

NoDrawing == [drawn |-> 0, on |-> FALSE, region |-> {}]
NoSide == [there |-> FALSE, inside |-> FALSE, pending |-> 0]
OUTSIDE == [there |-> TRUE, inside |-> FALSE, pending |-> 0]
Never == 0

NoUpload == [on |-> FALSE]

GeoInit ==
    /\ route = [n \in Time |-> NotTaken]
    /\ geofence \in [drawn : {1}, on : {TRUE}, region : Region]
    /\ cached = NoDrawing
    /\ memory = [last |-> Never, streak |-> 0, rejected |-> Never, evaluatedAt |-> 0]
    /\ side = NoSide
    /\ events = <<>>
    /\ upload = NoUpload
    /\ uploads = 0
    /\ heeded = {}
    /\ heldBack = FALSE
    /\ torn = FALSE

-----------------------------------------------------------------------------
(* One fix *)

Far(path, a, b) == (path[a] = "far") # (path[b] = "far")

(* Whether a fix is believed, and what the filter knows after it. *)
screenFix(m, path, at) ==
    LET agrees == m.rejected # Never /\ at > m.rejected /\ ~Far(path, m.rejected, at)
        streak == IF agrees THEN m.streak + 1 ELSE 1
        accepted == [m EXCEPT !.last = at, !.streak = 0, !.rejected = Never]
    IN IF m.last # Never /\ at <= m.last THEN [verdict |-> "out_of_order", state |-> m]
       ELSE IF m.last = Never \/ ~Far(path, m.last, at) \/ streak >= REANCHOR_AFTER
       THEN [verdict |-> "accept", state |-> accepted]
       ELSE [verdict |-> "jump", state |-> [m EXCEPT !.streak = streak, !.rejected = at]]

containment(drawing, spot) ==
    IF spot = "edge" THEN "uncertain" ELSE IF spot \in drawing.region THEN "inside" ELSE "outside"

(* The side after a fix, and since when a confirmed crossing. *)
stepFence(s, where, at) ==
    LET inside == where = "inside"
        since == IF s.pending = Never THEN at ELSE s.pending
    IN IF where = "uncertain" THEN [state |-> s, since |-> Never]
       ELSE IF inside = s.inside THEN [state |-> [s EXCEPT !.pending = Never], since |-> Never]
       ELSE IF at - since >= Dwell
       THEN [state |-> [there |-> TRUE, inside |-> inside, pending |-> Never], since |-> since]
       ELSE [state |-> [s EXCEPT !.pending = since], since |-> Never]

(* Mutant: a tracker that is on neither side is taken to be outside. *)
LearnsNever(plan, drawing) == FALSE

(* The fence was drawn since this tracker was last tested. *)
Learns(plan, drawing) == ~plan.side.there /\ plan.memory.evaluatedAt < drawing.drawn

-----------------------------------------------------------------------------
(* A batch of them *)

(* A believed fix against the fence. *)
TestFix(plan, drawing, spot, at) ==
    LET where == containment(drawing, spot)
        learnt == [there |-> TRUE, inside |-> where = "inside", pending |-> Never]
        known == IF plan.side.there THEN plan.side ELSE OUTSIDE
        step == stepFence(known, where, at)
    IN IF ~drawing.on THEN plan
       ELSE IF Learns(plan, drawing)
       THEN IF where = "uncertain" THEN [plan EXCEPT !.unlearned = TRUE]
            ELSE [plan EXCEPT !.side = learnt, !.unlearned = FALSE,
                              !.touched = plan.touched \/ learnt.inside]
       ELSE [plan EXCEPT !.side = IF step.state # known THEN step.state ELSE @,
                         !.touched = plan.touched \/ step.state # known,
                         !.crossings =
                            IF step.since = Never THEN @
                            ELSE Append(@, [kind |-> IF where = "inside" THEN "entered" ELSE "exited",
                                            occurredAt |-> step.since, confirmedAt |-> at])]

TakeFix(plan, drawing, path, at) ==
    LET screened == screenFix(plan.memory, path, at)
        next == [plan EXCEPT !.memory = screened.state]
    IN IF screened.verdict = "accept"
       THEN TestFix([next EXCEPT !.accepted = @ \cup {at}], drawing, path[at], at)
       ELSE next

NothingPlanned ==
    [memory |-> memory, side |-> side, crossings |-> <<>>, accepted |-> {},
     touched |-> FALSE, unlearned |-> FALSE]

(* Oldest first. *)
planGpsBatch(fixes, path, drawing) ==
    LET upTo[n \in 0 .. MaxFix] ==
            IF n = 0 THEN NothingPlanned
            ELSE IF n \in fixes THEN TakeFix(upTo[n - 1], drawing, path, n)
            ELSE upTo[n - 1]
    IN upTo[MaxFix]

-----------------------------------------------------------------------------
(* The server *)

(* The fences and what is known of the tracker are read side by side; the fence may be
   redrawn from then on.  For the tracker's other fences the time of the test is now, or
   just before the oldest of those it was never tested on and is on the edge of. *)
ingestOne ==
    /\ ~upload.on
    /\ uploads < MaxUploads
    /\ uploads' = uploads + 1
    /\ LET fences == IF cached # NoDrawing THEN cached ELSE geofence
       IN /\ cached' = fences
          /\ \E fixes \in (SUBSET Time) \ {{}} :
              \E spots \in [fixes -> Spot] :
                LET path == [n \in Time |-> IF n \in fixes THEN spots[n] ELSE route[n]]
                IN /\ \A n \in fixes : route[n] \in {NotTaken, spots[n]}
                   /\ route' = path
                   /\ \E elsewhere \in memory.evaluatedAt .. geofence.drawn :
                      upload' = [on |-> TRUE, now |-> geofence.drawn, elsewhere |-> elsewhere,
                                 drawing |-> fences,
                                 plan |-> planGpsBatch(fixes, path, fences)]
    /\ UNCHANGED <<geofence, memory, side, events, heeded, heldBack, torn>>

Earlier(a, b) == IF a < b THEN a ELSE b

(* A side that is outside and holds nothing pending needs no row. *)
Kept(s) == IF s.inside \/ s.pending # Never THEN s ELSE NoSide

(* It was outside, which needs no row, and another fence's drawing is why the test has no
   time after this one's: the side is learned again, without an event. *)
Forgotten(drawing) == heldBack /\ Learns(NothingPlanned, drawing)

(* The evidence is stored, then this in one transaction; both by a plan from what was read. *)
commitState ==
    /\ upload.on
    /\ LET used == upload.drawing
           plan == upload.plan
           evaluatedAt == IF plan.accepted = {} THEN memory.evaluatedAt
                          ELSE IF plan.unlearned THEN Earlier(upload.elsewhere, used.drawn - 1)
                          ELSE upload.elsewhere
           anew == Forgotten(used)
       IN /\ memory' = [plan.memory EXCEPT !.evaluatedAt = evaluatedAt]
          /\ side' = IF plan.touched THEN Kept(plan.side) ELSE side
          /\ events' = (IF anew THEN <<>> ELSE events) \o plan.crossings
          /\ heeded' = (IF anew THEN {} ELSE heeded) \cup (IF used.on THEN plan.accepted ELSE {})
          /\ heldBack' = IF plan.accepted = {} THEN heldBack ELSE upload.elsewhere < used.drawn
          /\ torn' = (torn \/ {used.drawn, upload.now} # {geofence.drawn})
    /\ upload' = NoUpload
    /\ UNCHANGED <<route, geofence, cached, uploads>>

(* It fails, or the server dies: nothing was stored but history. *)
UploadFails ==
    /\ upload.on
    /\ upload' = NoUpload
    /\ UNCHANGED <<route, geofence, cached, memory, side, events, uploads, heeded, heldBack, torn>>

(* A change made here forgets the copy, one made elsewhere leaves it until it is too old. *)
invalidateFences ==
    /\ cached # NoDrawing
    /\ cached' = NoDrawing
    /\ UNCHANGED <<route, geofence, memory, side, events, upload, uploads, heeded, heldBack, torn>>

(* A new shape, or switching it on or off, forgets which side the tracker was on.  Its
   time is taken just before the transaction that stores it. *)
updateGeofence ==
    /\ geofence.drawn < MaxDrawings
    /\ geofence' \in [drawn : {geofence.drawn + 1}, on : BOOLEAN, region : Region]
    /\ side' = NoSide
    /\ events' = <<>>
    /\ heeded' = {}
    /\ heldBack' = FALSE
    /\ torn' = FALSE
    /\ UNCHANGED <<route, cached, memory, upload, uploads>>

GeoNext ==
    \/ ingestOne \/ commitState \/ UploadFails \/ invalidateFences \/ updateGeofence

GeoSpec == GeoInit /\ [][GeoNext]_geoVars

-----------------------------------------------------------------------------
(* Properties *)

GeoTypeOK ==
    /\ route \in [Time -> Spot \cup {NotTaken}]
    /\ geofence \in [drawn : 1 .. MaxDrawings, on : BOOLEAN, region : Region]
    /\ memory \in [last : {Never} \cup Time, streak : 0 .. REANCHOR_AFTER - 1,
                   rejected : {Never} \cup Time, evaluatedAt : 0 .. geofence.drawn]
    /\ side \in [there : BOOLEAN, inside : BOOLEAN, pending : {Never} \cup Time]
    /\ side.there <=> side.inside \/ side.pending # Never
    /\ heldBack \in BOOLEAN

(* What a person would say of the fixes that count: those not on the edge. *)
Telling == {n \in heeded : route[n] # "edge"}
Inside(n) == route[n] \in geofence.region
Between(a, b) == {n \in Telling : a <= n /\ n <= b}

(* A stay: from its first fix on, all on one side. *)
Begins(n) ==
    \A m \in Telling : m < n /\ Between(m, n) = {m, n} => Inside(m) # Inside(n)
HeldUntil(n, m) == m >= n /\ m - n >= Dwell /\ \A k \in Between(n, m) : Inside(k) = Inside(n)

(* The stay a tracker was first found on counts at once. *)
First(n) == \A m \in Telling : n <= m
Stays == {n \in Telling : Begins(n) /\ (First(n) \/ \E m \in Telling : HeldUntil(n, m))}

Crossed ==
    {[kind |-> IF Inside(n) THEN "entered" ELSE "exited", occurredAt |-> n,
      confirmedAt |-> CHOOSE m \in Telling : HeldUntil(n, m) /\ \A k \in Telling : HeldUntil(n, k) => m <= k] :
       n \in {n \in Stays :
                \E m \in Stays : m < n /\ Inside(m) # Inside(n) /\ ~\E k \in Stays : m < k /\ k < n}}

(* fence.ts:196-200, geofences.ts:159-161: the entries and exits are those of the fixes that
   were believed, each once, however they came in batches, again and late, and none is that
   of a redrawing; unless a batch was under way meanwhile or its server had the old shape.
   So it is since the tracker was last learned.  An entry is lost if the tracker, outside and
   not on the way in, is learned again: only while it is on the edge of an older fence that
   it was never tested on (ingest.ts:247). *)
CrossingsAreReal ==
    ~torn => /\ ToSet(events) = Crossed
             /\ Len(events) = Cardinality(Crossed)

(* A tracker and a fence: what is remembered, and what is announced from it. *)
FencesSound == GeoTypeOK /\ CrossingsAreReal
=============================================================================
