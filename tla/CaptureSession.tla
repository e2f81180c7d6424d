--------------------------- MODULE CaptureSession ---------------------------
(***************************************************************************)
(* A bulk capture session: photos are added and read by a vision model,    *)
(* what they show is folded into entries that people review, and the       *)
(* entries become items.                                                   *)
(*                                                                         *)
(* Every change of the entries runs in a transaction that locks the        *)
(* session's row, so it is one step here; the calls of the model happen    *)
(* between two of them.  All photos show the same kind of thing, each      *)
(* Count[i] pieces of it: which of several entries matches best is open.   *)
(***************************************************************************)
EXTENDS Integers, FiniteSets, FiniteSetsExt

CONSTANTS
    Photo,
    Count,          \* [Photo -> pieces the model sees in it]
    Room,           \* areas
    Reader,         \* requests that have photos read, one photo at a time
    FirstCap,       \* the image cap the session starts with
    MaxCap,         \* bound: image caps of the session are 1 .. MaxCap
    MaxDraft,       \* bound: entries there may be
    MaxReviews,     \* bound: what people change
    MaxStale        \* bound: claims that grow older than STALE_CLAIM

ASSUME CaptureAssumption ==
    /\ Count \in [Photo -> Nat \ {0}]
    /\ MaxCap \in Nat /\ FirstCap \in 1 .. MaxCap /\ MaxDraft \in Nat \ {0}
    /\ MaxReviews \in Nat /\ MaxStale \in Nat

VARIABLES
    session,     \* its row
    photo,       \* [Photo -> its row]
    draft,       \* [Draft -> its row]
    reading,     \* [Reader -> the photo it claimed, and how far it is]
    made,        \* [Draft -> times it became items]
    asked,       \* calls made of the model
    highest,     \* the highest cap the session has had
    reviews,     \* counts what MaxReviews bounds
    stale        \* counts what MaxStale bounds

captureVars == <<session, photo, draft, reading, made, asked, highest, reviews, stale>>

Draft == 1 .. MaxDraft

NoDraft == [status |-> "none"]
NotReading == [step |-> "none"]
Unseen == [i \in Photo |-> 0]

CaptureInit ==
    /\ session = [open |-> TRUE, cap |-> FirstCap, calls |-> 0, rule |-> "max"]
    /\ photo = [i \in Photo |-> [status |-> "new"]]
    /\ draft = [d \in Draft |-> NoDraft]
    /\ reading = [r \in Reader |-> NotReading]
    /\ made = [d \in Draft |-> 0]
    /\ asked = 0 /\ highest = FirstCap /\ reviews = 0 /\ stale = 0

There(i) == photo[i].status \notin {"new", "removed"}
Photos == {i \in Photo : There(i)}

Reviews == reviews < MaxReviews /\ reviews' = reviews + 1

-----------------------------------------------------------------------------
(* Folding photos into entries.  A draft's sources count how often it holds each photo:
   more than once when a split draft was merged again. *)

Open(e) == e.status \in {"pending", "discarded"}
Seen(e) == {i \in Photo : e.sources[i] > 0}

qtyFromSources(sources, rule) ==
    LET counts == {i \in Photo : sources[i] > 0}
        of == [i \in counts |-> sources[i] * Count[i]]
    IN IF rule = "sum" THEN MapThenSumSet(LAMBDA i : of[i], counts) ELSE Max({of[i] : i \in counts})

(* Mutant: a count somebody typed is computed again. *)
recountAnyway(e, rule) ==
    IF Seen(e) = {} THEN e ELSE [e EXCEPT !.qty = qtyFromSources(e.sources, rule)]

recount(e, rule) ==
    IF e.locked \/ Seen(e) = {} THEN e ELSE [e EXCEPT !.qty = qtyFromSources(e.sources, rule)]

Sighting(i, area) ==
    [status |-> "pending", area |-> area, qty |-> Count[i], locked |-> FALSE, edited |-> FALSE,
     manual |-> FALSE, sources |-> [Unseen EXCEPT ![i] = 1]]

Free(entries) == {d \in Draft : entries[d].status = "none"}

withoutSource(entries, i, rule) ==
    [d \in Draft |->
        LET e == entries[d]
        IN IF ~Open(e) \/ i \notin Seen(e) THEN e
           ELSE IF Seen(e) = {i} /\ ~e.edited /\ ~e.manual THEN NoDraft
           ELSE recount([e EXCEPT !.sources[i] = 0], rule)]

(* What the photo shows joins a draft of its area, a deleted one too, or starts one. *)
mergePhotoDetections(entries, i, area, rule) ==
    LET matches == {d \in Draft : /\ Open(entries[d]) /\ entries[d].area = area
                                  /\ i \notin Seen(entries[d])}
    IN IF matches # {}
       THEN {[entries EXCEPT ![d] = recount([@ EXCEPT !.sources[i] = 1], rule)] : d \in matches}
       ELSE IF Free(entries) = {} THEN {}
       ELSE {[entries EXCEPT ![Min(Free(entries))] = Sighting(i, area)]}

(* Entries only this photo supports that a person edited or deleted go to its area as they
   are, and stand for what it shows; from the others it is taken out and merged again.
   A photo shows one thing here, named alike in every reading, so once something moved it
   shows nothing else to merge (merge.ts:341-352). *)
moveSource(entries, i, area, rule) ==
    LET moving == {d \in Draft : /\ Open(entries[d]) /\ Seen(entries[d]) = {i}
                                 /\ entries[d].edited \/ entries[d].status = "discarded"}
        moved == [d \in Draft |-> IF d \in moving THEN [entries[d] EXCEPT !.area = area] ELSE entries[d]]
        rest == withoutSource([d \in Draft |-> IF d \in moving THEN NoDraft ELSE moved[d]], i, rule)
        kept == [d \in Draft |-> IF d \in moving THEN moved[d] ELSE rest[d]]
    IN IF moving # {} THEN {kept} ELSE mergePhotoDetections(kept, i, area, rule)

-----------------------------------------------------------------------------
(* Photos *)

addSource(i) ==
    /\ session.open
    /\ photo[i].status = "new"
    /\ Cardinality(Photos) + 1 <= session.cap
    /\ \E area \in Room : photo' = [photo EXCEPT ![i] = [status |-> "pending", area |-> area]]
    /\ UNCHANGED <<session, draft, reading, made, asked, highest, reviews, stale>>

(* Its area changes; what it showed is merged again there, without another call. *)
updateSource(i) ==
    /\ session.open /\ There(i)
    /\ Reviews
    /\ \E area \in Room \ {photo[i].area} :
        /\ photo' = [photo EXCEPT ![i].area = area]
        /\ IF photo[i].status = "analysed"
           THEN draft' \in moveSource(draft, i, area, session.rule)
           ELSE UNCHANGED draft
    /\ UNCHANGED <<session, reading, made, asked, highest, stale>>

removeSource(i) ==
    /\ session.open /\ There(i)
    /\ Reviews
    /\ draft' = withoutSource(draft, i, session.rule)
    /\ photo' = [photo EXCEPT ![i] = [status |-> "removed"]]
    /\ UNCHANGED <<session, reading, made, asked, highest, stale>>

retrySource(i) ==
    /\ photo[i].status = "failed"
    /\ Reviews
    /\ photo' = [photo EXCEPT ![i].status = "pending"]
    /\ UNCHANGED <<session, draft, reading, made, asked, highest, stale>>

-----------------------------------------------------------------------------
(* Reading them *)

ToRead(i) == photo[i].status \in {"pending", "stale"}

(* Mutant: a call is counted once the model has answered. *)
CountedAtClaim == 0

CallsAtClaim == 1

(* A photo is claimed, and its call counted, before the call is made. *)
ClaimPhoto(r) ==
    /\ reading[r] = NotReading
    /\ session.open
    /\ session.calls < session.cap
    /\ \E i \in Photos :
        /\ ToRead(i)
        /\ photo' = [photo EXCEPT ![i].status = "analysing"]
        /\ reading' = [reading EXCEPT ![r] = [step |-> "claimed", photo |-> i]]
    /\ session' = [session EXCEPT !.calls = @ + CallsAtClaim]
    /\ UNCHANGED <<draft, made, asked, highest, reviews, stale>>

readSource(r) ==
    /\ reading[r].step = "claimed"
    /\ asked' = asked + 1
    /\ \E answer \in {"read", "failed"} : reading' = [reading EXCEPT ![r].step = answer]
    /\ UNCHANGED <<session, photo, draft, made, highest, reviews, stale>>

StillThere(i) == There(i)

StillOpen == session.open

(* What was read is merged into the entries as they are by now. *)
StoreReading(r) ==
    /\ reading[r].step \in {"read", "failed"}
    /\ LET i == reading[r].photo
       IN IF ~StillOpen \/ ~StillThere(i) THEN UNCHANGED <<photo, draft>>
          ELSE IF reading[r].step = "failed"
          THEN photo' = [photo EXCEPT ![i].status = "failed"] /\ UNCHANGED draft
          ELSE /\ photo' = IF There(i) THEN [photo EXCEPT ![i].status = "analysed"] ELSE photo
               /\ \E area \in IF There(i) THEN {photo[i].area} ELSE Room :
                     draft' \in moveSource(draft, i, area, session.rule)
    /\ reading' = [reading EXCEPT ![r] = NotReading]
    /\ session' = [session EXCEPT !.calls = @ + 1 - CallsAtClaim]
    /\ UNCHANGED <<made, asked, highest, reviews, stale>>

(* The request died, or takes too long: the photo is free again. *)
ClaimGoesStale(i) ==
    /\ photo[i].status = "analysing" /\ stale < MaxStale
    /\ stale' = stale + 1
    /\ photo' = [photo EXCEPT ![i].status = "stale"]
    /\ UNCHANGED <<session, draft, reading, made, asked, highest, reviews>>

RequestDies(r) ==
    /\ reading[r] # NotReading
    /\ reading' = [reading EXCEPT ![r] = NotReading]
    /\ UNCHANGED <<session, photo, draft, made, asked, highest, reviews, stale>>

-----------------------------------------------------------------------------
(* Reviewing *)

(* The cap and the count rule; the session need not be open, and its row is written first,
   so whoever holds it is waited for. *)
updateSession ==
    /\ Reviews
    /\ \/ /\ \E cap \in (1 .. MaxCap) \ {session.cap} : /\ session' = [session EXCEPT !.cap = cap]
                                                        /\ highest' = Max({highest, cap})
          /\ UNCHANGED draft
       \/ LET rule == IF session.rule = "max" THEN "sum" ELSE "max"
          IN /\ session' = [session EXCEPT !.rule = rule]
             /\ draft' = [d \in Draft |-> IF Open(draft[d]) THEN recount(draft[d], rule) ELSE draft[d]]
             /\ UNCHANGED highest
    /\ UNCHANGED <<photo, reading, made, asked, stale>>

addDraft ==
    /\ session.open /\ Free(draft) # {}
    /\ Reviews
    /\ \E area \in Room :
        draft' = [draft EXCEPT ![Min(Free(draft))] =
                     [status |-> "pending", area |-> area, qty |-> 1, locked |-> TRUE, edited |-> TRUE,
                      manual |-> TRUE, sources |-> Unseen]]
    /\ UNCHANGED <<session, photo, reading, made, asked, highest, stale>>

(* A field, the count, or whether it is deleted. *)
updateDraft(d) ==
    /\ session.open /\ Open(draft[d])
    /\ Reviews
    /\ \/ \E area \in Room : draft' = [draft EXCEPT ![d].edited = TRUE, ![d].area = area]
       \/ draft' = [draft EXCEPT ![d].edited = TRUE, ![d].locked = TRUE, ![d].qty = 2]
       \/ \E status \in {"pending", "discarded"} \ {draft[d].status} : draft' = [draft EXCEPT ![d].status = status]
    /\ UNCHANGED <<session, photo, reading, made, asked, highest, stale>>

(* Two entries are one thing. *)
mergeDrafts(d, other) ==
    /\ session.open /\ d # other
    /\ draft[d].status = "pending" /\ draft[other].status = "pending"
    /\ Reviews
    /\ LET sources == [i \in Photo |-> draft[d].sources[i] + draft[other].sources[i]]
           seen == {i \in Photo : sources[i] > 0}
           typed == draft[d].locked \/ draft[other].locked \/ seen = {}
       IN draft' = [draft EXCEPT ![other] = NoDraft,
                       ![d] = [@ EXCEPT !.sources = sources, !.edited = TRUE, !.locked = typed,
                                        !.manual = draft[d].manual /\ draft[other].manual,
                                        !.qty = IF typed THEN draft[d].qty + draft[other].qty
                                                ELSE qtyFromSources(sources, session.rule)]]
    /\ UNCHANGED <<session, photo, reading, made, asked, highest, stale>>

(* One draft is two: one photo's each (of two), or a quantity apart. *)
splitDraft(d) ==
    /\ session.open /\ Open(draft[d]) /\ Free(draft) # {}
    /\ Reviews
    /\ LET new == Min(Free(draft))
           only(i) == [draft[d] EXCEPT !.sources = [Unseen EXCEPT ![i] = draft[d].sources[i]],
                                       !.qty = draft[d].sources[i] * Count[i], !.locked = FALSE]
       IN \/ /\ Cardinality(Seen(draft[d])) = 2
             /\ \E i \in Seen(draft[d]) : draft' = [draft EXCEPT ![d] = only(i),
                    ![new] = only(CHOOSE j \in Seen(draft[d]) : j # i)]
          \/ /\ draft[d].qty > 1
             /\ draft' = [draft EXCEPT ![d].qty = @ - 1, ![d].locked = TRUE,
                             ![new] = [draft[d] EXCEPT !.qty = 1, !.locked = TRUE, !.edited = TRUE]]
    /\ UNCHANGED <<session, photo, reading, made, asked, highest, stale>>

Created(e) == [e EXCEPT !.status = "created"]

(* Some entries, or all that are pending, become items; with none left the session is closed. *)
commitSession ==
    /\ session.open
    /\ \E chosen \in SUBSET {d \in Draft : draft[d].status = "pending"} :
        /\ chosen # {}
        /\ draft' = [d \in Draft |-> IF d \in chosen THEN Created(draft[d]) ELSE draft[d]]
        /\ made' = [d \in Draft |-> IF d \in chosen THEN made[d] + 1 ELSE made[d]]
        /\ session' = [session EXCEPT !.open = \E d \in Draft : draft'[d].status = "pending"]
    /\ Reviews
    /\ UNCHANGED <<photo, reading, asked, highest, stale>>

CaptureNext ==
    \/ \E i \in Photo : addSource(i) \/ updateSource(i) \/ removeSource(i) \/ retrySource(i) \/ ClaimGoesStale(i)
    \/ \E r \in Reader : ClaimPhoto(r) \/ readSource(r) \/ StoreReading(r) \/ RequestDies(r)
    \/ updateSession \/ addDraft \/ commitSession
    \/ \E d \in Draft : updateDraft(d) \/ splitDraft(d) \/ (\E other \in Draft : mergeDrafts(d, other))

CaptureSpec == CaptureInit /\ [][CaptureNext]_captureVars

-----------------------------------------------------------------------------
(* Properties *)

CaptureTypeOK ==
    /\ session.open \in BOOLEAN /\ session.cap \in 1 .. MaxCap /\ session.rule \in {"max", "sum"}
    /\ \A d \in Draft : draft[d] # NoDraft =>
          /\ draft[d].status \in {"pending", "discarded", "created"}
          /\ draft[d].area \in Room /\ draft[d].qty \in Nat \ {0}
          /\ draft[d].locked \/ Seen(draft[d]) # {} \/ draft[d].edited

(* sessions.ts:743-747: the cost guard: however many requests have photos read at once, take
   over each other's claims, die or are slow, no more calls are made of the model than a cap
   the session had, nor does it hold more photos. *)
CapHolds == asked <= highest /\ Cardinality(Photos) <= highest

(* merge.ts:92-111: a draft whose count nobody typed has the count its photos give under the
   session's rule, through moves, removals, splits, merges and a change of the rule. *)
CountsAddUp ==
    \A d \in Draft : Open(draft[d]) /\ ~draft[d].locked /\ Seen(draft[d]) # {}
                     => draft[d].qty = qtyFromSources(draft[d].sources, session.rule)

(* sessions.ts:797-798: a draft under review rests on photos that are still in the session. *)
NoGhosts == \A d \in Draft : Open(draft[d]) => \A i \in Seen(draft[d]) : photo[i].status # "removed"

(* merge.ts:24-26: a reading, whenever it arrives, drops no draft somebody edited, changes no
   count typed into one, and brings nothing back that was deleted.  The first half of a draft
   split by quantity is locked but not edited, so of that it may. *)
EditsStand ==
    [][\A r \in Reader, d \in Draft :
          reading[r].step = "read" /\ reading'[r] # reading[r] /\ Open(draft[d]) =>
             /\ draft[d].edited => draft'[d] # NoDraft
             /\ draft[d].edited /\ draft[d].locked => draft'[d].qty = draft[d].qty
             /\ draft[d].status = "discarded" => draft'[d].status # "pending"
      ]_captureVars

(* sessions.ts:1014-1019: no draft becomes items twice, and once everything became items
   no reading that was under way adds a draft that nobody would review. *)
CreatedOnce ==
    /\ \A d \in Draft : made[d] <= 1
    /\ ~session.open => \A d \in Draft : draft[d].status # "pending"

(* A session under review while photos are read: what it spends, holds and counts. *)
ReviewSound == CaptureTypeOK /\ CapHolds /\ CountsAddUp /\ NoGhosts /\ CreatedOnce
=============================================================================
