------------------------- MODULE YardAndClaimsProofs -------------------------
(***************************************************************************)
(* Proofs about JobLines, ClaimReview, GeofenceCrossings and               *)
(* InspectionSignoff, which share nothing but how they come to be right.   *)
(* In the first two, one transaction looks under a lock and changes what   *)
(* it looked at, while requests without the lock look first and write      *)
(* later.  The invariants say what is left of a look when the write comes: *)
(* of a scan, everything it planned on unless one of its lines is lost to  *)
(* it; of a request about a claim, everything unless the claim has crossed *)
(* it.  In the fourth nobody holds a lock, and a request's look stands     *)
(* until somebody writes; the comparison that is signed is a fold, which   *)
(* goes through a person's choices before anything else.                   *)
(* In the third, a batch of fixes is planned on a copy of the fence and of *)
(* what was known, and stored later.  The entries and exits of a sequence  *)
(* of fixes are defined from the sequence alone; the lemmas say how they   *)
(* change when one more is believed, and the invariant that what is stored *)
(* follows from the fixes heeded so far.                                   *)
(***************************************************************************)
EXTENDS JobLines, ClaimReview, GeofenceCrossings, InspectionSignoff, FiniteSums, FiniteSetTheorems, TLAPS

(* A manifest's lines *)

JobStatus == OpenJob \cup {"completed"}
TruckOrNone == Truck \cup {NoTruck}
TruckState == {"planned", "loaded", "closed"}
LineRow == [there : BOOLEAN, stage : Stage, truck : TruckOrNone]
Trip == [from : Stage, to : Stage]
Scan == [on : {TRUE}, lost : BOOLEAN, truck : TruckOrNone, to : Stage, force : BOOLEAN,
         from : UNION {[moving -> Stage] : moving \in SUBSET BoxLine}, joins : SUBSET BoxLine]
Edit == [on : {TRUE}, what : {"add", "update", "remove"}, line : BoxLine, truck : TruckOrNone]

JobTyped ==
    /\ job \in JobStatus
    /\ line \in [BoxLine -> LineRow]
    /\ truck \in [Truck -> TruckState]
    /\ trip \in [BoxLine -> Trip]
    /\ scan \in [Scanner -> Scan \cup {NoScan}]
    /\ departing \in [Truck -> TruckState \cup {NoStatus}]
    /\ edit \in Edit \cup {NoEdit}

(* A line's trips end where it stands, and one that is gone leaves none behind. *)
TripsKept ==
    \A l \in BoxLine :
        /\ trip[l].to = line[l].stage
        /\ l \notin There => line[l] = NoLine /\ trip[l] = NoTrip

(* What a scan planned on, while it holds the job and shares its shipment. *)
Planned(c) ==
    /\ job \in OpenJob
    /\ \A d \in Scanner : scan[d].on => d = c
    /\ scan[c].joins \subseteq Moving(c)
    /\ scan[c].truck = NoTruck => scan[c].joins = {}
    /\ scan[c].truck # NoTruck => truck[scan[c].truck] # "closed" /\ departing[scan[c].truck] = NoStatus
    /\ ~scan[c].lost => \A l \in Moving(c) :
          /\ l \in There /\ scan[c].from[l] = line[l].stage
          /\ decideStage(line[l].stage, scan[c].to, scan[c].force) = "advance"

ScansPlanned == \A c \in Scanner : scan[c].on => Planned(c)

JobInv == JobTyped /\ TripsKept /\ ScansPlanned

(* A claim *)

LineState == {"off", "open", "priced", "granted", "denied"}
Someone == Staff \cup {Nobody}
ClaimStatus == {"none", "deleted"} \cup Undecided \cup Decided
Total == {Unknown} \cup 0 .. Cardinality(Subject)
Claim == [status : ClaimStatus, listed : BOOLEAN, lines : [Subject -> LineState], total : Total,
          typed : {"no", "fair", "late"}, opener : Someone, reporter : Someone, reviewer : Someone,
          frozen : BOOLEAN, due : Nat, breached : BOOLEAN,
          erased : {"no", "fair", "late", "by the chief"}]
Request == [op : {"none", "total", "deadline", "reviewer", "delete"}, crossed : BOOLEAN, to : Someone]

ClaimTyped ==
    /\ claim \in Claim
    /\ pending \in [Staff -> Request]
    /\ deadlines \in Nat /\ deadlines <= MaxDeadlines
    /\ claim.due <= deadlines
    /\ told \in [1 .. MaxDeadlines -> Nat]
    /\ settled \in [Subject -> LineState]

(* What a request found, unless the claim has crossed it. *)
Founded(p) ==
    /\ claim.status = "none" => pending[p] = NotPending
    /\ pending[p].op = "total" /\ ~pending[p].crossed => On(claim.lines) = {}
    /\ pending[p].op = "delete" /\ ~pending[p].crossed => p \in Chief \/ ~claim.frozen

RequestsFounded == \A p \in Staff : Founded(p)

(* Only a deadline that was set is told of, and a breach is stamped with it. *)
ToldOnce ==
    /\ \A d \in 1 .. MaxDeadlines : told[d] <= 1 /\ (d > deadlines => told[d] = 0)
    /\ claim.due # 0 /\ ~claim.breached => told[claim.due] = 0

ClaimInv ==
    /\ ClaimTyped /\ RequestsFounded /\ ToldOnce
    /\ TotalsFollow /\ DecisionStands /\ RecordStands
    /\ claim.status \in Deciding => claim.due # 0

-----------------------------------------------------------------------------
(* Lines: what is where *)

LEMMA StageFacts == Pending \in Stage /\ Damaged \in Stage /\ Stage \subseteq Int
  BY JobAssumption DEF Stage, Pending, Damaged

LEMMA NothingThere ==
    /\ NoLine \in LineRow /\ ~NoLine.there /\ NoLine.stage = Pending /\ NoLine.truck = NoTruck
    /\ NoTrip \in Trip /\ NoTrip.to = Pending
  BY StageFacts DEF NoLine, LineRow, TruckOrNone, NoTrip, Trip

LEMMA ScanFields ==
    ASSUME NEW r \in Scan
    PROVE  /\ r.on /\ r.lost \in BOOLEAN /\ r.truck \in TruckOrNone /\ r.to \in Stage /\ r.force \in BOOLEAN
           /\ DOMAIN r.from \subseteq BoxLine /\ r.from \in [DOMAIN r.from -> Stage]
           /\ r.joins \subseteq BoxLine
  <1>1. r.from \in UNION {[moving -> Stage] : moving \in SUBSET BoxLine}
    BY DEF Scan
  <1>2. PICK moving \in SUBSET BoxLine : r.from \in [moving -> Stage]
    BY <1>1
  <1> QED
    BY <1>2 DEF Scan

LEMMA ScanNow ==
    ASSUME JobTyped, NEW c \in Scanner
    PROVE  /\ scan[c] \in Scan \cup {NoScan} /\ ~NoScan.on
           /\ scan[c].on <=> scan[c] \in Scan
  <1>1. \A r \in Scan : r.on
    BY ScanFields
  <1> QED
    BY <1>1 DEF JobTyped, NoScan

LEMMA MovingNow ==
    ASSUME JobTyped, NEW c \in Scanner, scan[c].on
    PROVE  /\ scan[c] \in Scan
           /\ scan[c].truck \in TruckOrNone /\ scan[c].to \in Stage
           /\ Moving(c) \subseteq BoxLine /\ \A l \in Moving(c) : scan[c].from[l] \in Stage
  BY ScanNow, ScanFields DEF Moving

(* What a step that leaves the scans alone has to leave them. *)
LEMMA ScansLeft ==
    ASSUME JobInv, UNCHANGED scan,
           \A c \in Scanner : scan[c].on => job' \in OpenJob,
           \A c \in Scanner : scan[c].on /\ scan[c].truck # NoTruck =>
               /\ truck'[scan[c].truck] = truck[scan[c].truck]
               /\ departing'[scan[c].truck] = departing[scan[c].truck],
           \A c \in Scanner : scan[c].on /\ ~scan[c].lost => \A l \in Moving(c) :
               line'[l].there /\ line'[l].stage = line[l].stage
    PROVE  ScansPlanned'
  <1> SUFFICES ASSUME NEW c \in Scanner, scan[c].on PROVE Planned(c)'
    BY DEF ScansPlanned
  <1>1. Planned(c) /\ Moving(c)' = Moving(c) /\ Moving(c) \subseteq BoxLine
    BY MovingNow DEF JobInv, ScansPlanned, Moving
  <1>2. ~scan[c].lost => \A l \in Moving(c) : l \in There' /\ line'[l].stage = line[l].stage
    BY <1>1 DEF There
  <1> QED
    BY <1>1, <1>2 DEF Planned

LEMMA PlanKept ==
    ASSUME JobInv, NEW c \in Scanner, PlanScan(c)
    PROVE  JobInv'
  <1>1. PICK s \in Truck \cup {NoTruck}, to \in Stage, force \in BOOLEAN, batch \in SUBSET There :
        /\ s # NoTruck => truck[s] # "closed" /\ departing[s] = NoStatus
        /\ LET moving == planAdvance(batch, to, s, force)
           IN /\ moving = batch /\ batch # {}
              /\ scan' = [scan EXCEPT ![c] =
                            [on |-> TRUE, lost |-> FALSE, truck |-> s, to |-> to, force |-> force,
                             from |-> [l \in moving |-> line[l].stage],
                             joins |-> {l \in moving : s # NoTruck /\ line[l].truck # s}]]
    BY Zenon DEF PlanScan
  <1> DEFINE m == planAdvance(batch, to, s, force)
             r == [on |-> TRUE, lost |-> FALSE, truck |-> s, to |-> to, force |-> force,
                   from |-> [l \in m |-> line[l].stage],
                   joins |-> {l \in m : s # NoTruck /\ line[l].truck # s}]
  <1>2. /\ JobTyped /\ batch \subseteq BoxLine /\ batch \subseteq There /\ job \in OpenJob
        /\ \A d \in Scanner : ~scan[d].on
        /\ UNCHANGED <<job, line, truck, trip, departing, edit>>
    BY DEF PlanScan, There, JobInv, JobIsFree
  <1>3. m = batch /\ \A l \in batch : decideStage(line[l].stage, to, force) = "advance"
    BY <1>1 DEF planAdvance
  <1>4. scan' = [scan EXCEPT ![c] = r]
    BY <1>1
  <1> HIDE DEF m
  <1>5. [l \in m |-> line[l].stage] \in [m -> Stage]
    BY <1>2, <1>3 DEF JobTyped, LineRow
  <1>6. r \in Scan
    BY <1>2, <1>3, <1>5 DEF Scan, TruckOrNone
  <1>7. /\ r.on /\ ~r.lost /\ r.truck = s /\ r.to = to /\ r.force = force
        /\ r.from = [l \in m |-> line[l].stage] /\ DOMAIN r.from = m
        /\ r.joins \subseteq m /\ (s = NoTruck => r.joins = {})
    OBVIOUS
  <1> HIDE DEF r
  <1>8. scan' \in [Scanner -> Scan \cup {NoScan}] /\ scan'[c] = r /\ \A d \in Scanner : d # c => scan'[d] = scan[d]
    BY <1>2, <1>6, <1>4 DEF JobTyped
  <1>9. JobTyped' /\ TripsKept'
    BY <1>2, <1>8 DEF JobTyped, TripsKept, JobInv, There
  <1>10. Planned(c)'
    BY <1>1, <1>2, <1>3, <1>7, <1>8 DEF Planned, Moving, There, TruckOrNone
  <1> QED
    BY <1>2, <1>8, <1>9, <1>10 DEF JobInv, ScansPlanned

(* What a scan that commits has done. *)
LEMMA Committed ==
    ASSUME JobInv, NEW c \in Scanner, CommitScan(c)
    PROVE  /\ scan[c].on /\ Planned(c) /\ ~scan[c].lost /\ scan[c].to \in Stage
           /\ \A l \in Moving(c) :
                 /\ l \in BoxLine /\ l \in There /\ line'[l] \in LineRow /\ line'[l].there
                 /\ line'[l].stage = scan[c].to /\ line'[l].truck = (IF l \in scan[c].joins THEN scan[c].truck ELSE line[l].truck)
                 /\ trip'[l] = [from |-> line[l].stage, to |-> scan[c].to]
           /\ \A l \in BoxLine : l \notin Moving(c) => line'[l] = line[l] /\ trip'[l] = trip[l]
  <1>1. scan[c].on /\ Planned(c) /\ ~scan[c].lost /\ scan[c].to \in Stage /\ Moving(c) \subseteq BoxLine /\ scan[c].truck \in TruckOrNone
    BY MovingNow DEF JobInv, ScansPlanned, CommitScan
  <1>2. ASSUME NEW l \in Moving(c)
        PROVE  /\ l \in BoxLine /\ l \in There /\ line'[l] \in LineRow /\ line'[l].there
               /\ line'[l].stage = scan[c].to /\ line'[l].truck = (IF l \in scan[c].joins THEN scan[c].truck ELSE line[l].truck)
               /\ trip'[l] = [from |-> line[l].stage, to |-> scan[c].to]
    <2>1. l \in BoxLine /\ l \in There /\ scan[c].from[l] = line[l].stage /\ line[l] \in LineRow /\ line[l].there
      BY <1>1, <1>2 DEF Planned, JobInv, JobTyped, There
    <2>2. PICK t \in TruckOrNone : t = IF l \in scan[c].joins THEN scan[c].truck ELSE line[l].truck
      BY <1>1, <2>1 DEF LineRow
    <2>3. line'[l] = [line[l] EXCEPT !.stage = scan[c].to, !.truck = t]
      BY <1>2, <2>1, <2>2 DEF CommitScan
    <2>4. trip'[l] = [from |-> line[l].stage, to |-> scan[c].to]
      BY <1>2, <2>1 DEF CommitScan
    <2>5. line'[l] \in LineRow /\ line'[l].there /\ line'[l].stage = scan[c].to /\ line'[l].truck = t
      BY <1>1, <2>1, <2>3 DEF LineRow
    <2> QED
      BY <2>1, <2>2, <2>4, <2>5
  <1>3. \A l \in BoxLine : l \notin Moving(c) => line'[l] = line[l] /\ trip'[l] = trip[l]
    BY DEF CommitScan
  <1> QED
    BY <1>1, <1>2, <1>3

LEMMA CommitKept ==
    ASSUME JobInv, NEW c \in Scanner, CommitScan(c)
    PROVE  JobInv'
  <1>1. JobTyped'
    <2>1. line' \in [BoxLine -> LineRow]
      <3>1. \A l \in BoxLine : line'[l] \in LineRow
        BY Committed DEF JobInv, JobTyped
      <3>2. line' = [l \in BoxLine |-> line'[l]]
        BY DEF CommitScan
      <3> QED
        BY <3>1, <3>2
    <2>2. trip' \in [BoxLine -> Trip]
      <3>1. \A l \in BoxLine : trip'[l] \in Trip
        <4> SUFFICES ASSUME NEW l \in BoxLine PROVE trip'[l] \in Trip
          OBVIOUS
        <4>1. CASE l \in Moving(c)
          <5>1. trip'[l] = [from |-> line[l].stage, to |-> scan[c].to] /\ scan[c].to \in Stage
            BY <4>1, Committed
          <5>2. line[l].stage \in Stage
            BY DEF JobInv, JobTyped, LineRow
          <5> QED
            BY <5>1, <5>2 DEF Trip
        <4>2. CASE l \notin Moving(c)
          BY <4>2, Committed DEF JobInv, JobTyped
        <4> QED
          BY <4>1, <4>2
      <3>2. trip' = [l \in BoxLine |-> trip'[l]]
        BY DEF CommitScan
      <3> QED
        BY <3>1, <3>2
    <2>3. job' \in JobStatus /\ scan' \in [Scanner -> Scan \cup {NoScan}]
      BY DEF CommitScan, JobInv, JobTyped, JobStatus, OpenJob
    <2> QED
      BY <2>1, <2>2, <2>3 DEF JobInv, JobTyped, CommitScan
  <1>2. TripsKept'
    <2> SUFFICES ASSUME NEW l \in BoxLine
                 PROVE  trip'[l].to = line'[l].stage /\ (~line'[l].there => line'[l] = NoLine /\ trip'[l] = NoTrip)
      BY DEF TripsKept, There
    <2>1. CASE l \in Moving(c)
      <3>1. /\ trip'[l] = [from |-> line[l].stage, to |-> scan[c].to]
            /\ line'[l].there /\ line'[l].stage = scan[c].to
        BY <2>1, Committed
      <3> QED
        BY <3>1
    <2>2. CASE l \notin Moving(c)
      BY <2>2, Committed DEF JobInv, TripsKept, There
    <2> QED
      BY <2>1, <2>2
  <1>3. ScansPlanned'
    <2>1. \A d \in Scanner : ~scan'[d].on
      <3>1. scan[c].on /\ Planned(c)
        BY Committed
      <3> QED
        BY <3>1 DEF CommitScan, Planned, NoScan, JobInv, JobTyped
    <2> QED
      BY <2>1 DEF ScansPlanned
  <1> QED
    BY <1>1, <1>2, <1>3 DEF JobInv

LEMMA AbortKept ==
    ASSUME JobInv, NEW c \in Scanner, AbortScan(c)
    PROVE  JobInv'
  <1>1. /\ scan' \in [Scanner -> Scan \cup {NoScan}] /\ scan'[c] = NoScan
        /\ \A d \in Scanner : d # c => scan'[d] = scan[d]
        /\ UNCHANGED <<job, line, truck, trip, departing, edit>>
    BY DEF AbortScan, JobInv, JobTyped
  <1>2. JobTyped' /\ TripsKept'
    BY <1>1 DEF JobInv, JobTyped, TripsKept, There
  <1>3. \A d \in Scanner : ~scan'[d].on
    BY <1>1 DEF AbortScan, JobInv, ScansPlanned, Planned, NoScan
  <1> QED
    BY <1>2, <1>3 DEF JobInv, ScansPlanned

LEMMA ShipmentKept ==
    ASSUME JobInv, NEW s \in Truck, DecideShipment(s) \/ setShipmentStatus(s)
    PROVE  JobInv'
  <1>1. UNCHANGED <<job, line, trip, scan, edit>>
    BY DEF DecideShipment, setShipmentStatus
  <1>2. /\ truck' \in [Truck -> TruckState] /\ departing' \in [Truck -> TruckState \cup {NoStatus}]
        /\ \A t \in Truck : t # s => truck'[t] = truck[t] /\ departing'[t] = departing[t]
    <2>1. CASE DecideShipment(s)
      BY <2>1 DEF DecideShipment, JobInv, JobTyped, TruckStatus, TruckState
    <2>2. CASE setShipmentStatus(s)
      BY <2>2 DEF setShipmentStatus, JobInv, JobTyped
    <2> QED
      BY <2>1, <2>2
  <1>3. \A c \in Scanner : scan[c].on => scan[c].truck # s /\ scan[c].truck \in TruckOrNone
    <2>1. CASE DecideShipment(s)
      BY <2>1, MovingNow DEF DecideShipment, TruckIsFree, JobInv
    <2>2. CASE setShipmentStatus(s)
      <3>1. departing[s] # NoStatus /\ s # NoTruck
        BY <2>2, JobAssumption DEF setShipmentStatus
      <3> QED
        BY <3>1, MovingNow DEF JobInv, ScansPlanned, Planned
    <2> QED
      BY <2>1, <2>2
  <1>4. JobTyped' /\ TripsKept'
    BY <1>1, <1>2 DEF JobInv, JobTyped, TripsKept, There
  <1>5. ScansPlanned'
    <2>1. \A c \in Scanner : scan[c].on /\ scan[c].truck # NoTruck =>
               /\ truck'[scan[c].truck] = truck[scan[c].truck]
               /\ departing'[scan[c].truck] = departing[scan[c].truck]
      BY <1>2, <1>3 DEF TruckOrNone
    <2>2. \A c \in Scanner : scan[c].on => job' \in OpenJob
      BY <1>1 DEF JobInv, ScansPlanned, Planned
    <2>3. \A c \in Scanner : scan[c].on /\ ~scan[c].lost => \A l \in Moving(c) :
               line'[l].there /\ line'[l].stage = line[l].stage
      BY <1>1 DEF JobInv, ScansPlanned, Planned, There
    <2> QED
      BY <1>1, <2>1, <2>2, <2>3, ScansLeft
  <1> QED
    BY <1>4, <1>5 DEF JobInv

LEMMA LookKept == JobInv /\ LookToEdit => JobInv'
  <1> SUFFICES ASSUME JobInv, LookToEdit PROVE JobInv'
    OBVIOUS
  <1>1. UNCHANGED <<job, line, truck, trip, scan, departing>> /\ edit' \in Edit
    BY DEF LookToEdit, Edit, TruckOrNone
  <1>2. JobTyped' /\ TripsKept'
    BY <1>1 DEF JobInv, JobTyped, TripsKept, There
  <1>3. ScansPlanned'
    BY <1>1, ScansLeft DEF JobInv, ScansPlanned, Planned, There
  <1> QED
    BY <1>2, <1>3 DEF JobInv

(* An edit of the manifest takes a line from a scan only by removing it, and then the scan
   is lost. *)
LEMMA Edited ==
    ASSUME JobInv, EditLines
    PROVE  /\ edit \in Edit
           /\ \A l \in BoxLine : l # edit.line => line'[l] = line[l] /\ trip'[l] = trip[l]
           /\ line' \in [BoxLine -> LineRow] /\ trip' \in [BoxLine -> Trip]
           /\ \/ edit.what = "remove" /\ line'[edit.line] = NoLine /\ trip'[edit.line] = NoTrip
              \/ /\ edit.what # "remove" /\ trip'[edit.line] = trip[edit.line]
                 /\ line'[edit.line].stage = line[edit.line].stage
                 /\ line[edit.line].there => line'[edit.line].there
                 /\ ~line'[edit.line].there => line'[edit.line] = line[edit.line]
  <1> DEFINE l == edit.line
             new == [NoLine EXCEPT !.there = TRUE, !.truck = edit.truck]
  <1>1. edit \in Edit /\ l \in BoxLine /\ edit.truck \in TruckOrNone /\ edit.what \in {"add", "update", "remove"}
    <2>1. edit \in Edit \cup {NoEdit} /\ edit.on /\ ~NoEdit.on
      BY DEF JobInv, JobTyped, EditLines, NoEdit
    <2>2. edit \in Edit
      BY <2>1
    <2> QED
      BY <2>2 DEF Edit
  <1>2. /\ line \in [BoxLine -> LineRow] /\ trip \in [BoxLine -> Trip] /\ line[l] \in LineRow
        /\ ~line[l].there => line[l] = NoLine /\ trip[l] = NoTrip
    BY <1>1 DEF JobInv, JobTyped, TripsKept, There
  <1>3. new \in LineRow /\ new.there /\ new.stage = Pending
    BY <1>1, NothingThere DEF LineRow
  <1>4. /\ line' = CASE edit.what = "add" /\ ~line[l].there -> [line EXCEPT ![l] = new]
                      [] edit.what = "update" /\ line[l].there -> [line EXCEPT ![l].truck = edit.truck]
                      [] edit.what = "remove" -> [line EXCEPT ![l] = NoLine]
                      [] OTHER -> line
        /\ trip' = IF edit.what = "remove" THEN [trip EXCEPT ![l] = NoTrip] ELSE trip
    BY DEF EditLines
  <1> HIDE DEF new, l
  <1>5. CASE edit.what = "add" /\ ~line[l].there
    <2>1. line' = [line EXCEPT ![l] = new] /\ trip' = trip
      BY <1>4, <1>5
    <2> QED
      BY <1>1, <1>2, <1>3, <1>5, <2>1, NothingThere DEF l
  <1>6. CASE edit.what = "update" /\ line[l].there
    <2>1. line' = [line EXCEPT ![l].truck = edit.truck] /\ trip' = trip
      BY <1>4, <1>6
    <2>2. line'[l] = [line[l] EXCEPT !.truck = edit.truck] /\ \A k \in BoxLine : k # l => line'[k] = line[k]
      BY <1>1, <1>2, <2>1
    <2>3. line'[l] \in LineRow /\ line'[l].stage = line[l].stage /\ line'[l].there
      BY <1>1, <1>2, <1>6, <2>2 DEF LineRow
    <2>4. line' \in [BoxLine -> LineRow]
      BY <1>1, <1>2, <2>1, <2>3
    <2> QED
      BY <1>1, <1>2, <1>6, <2>1, <2>2, <2>3, <2>4 DEF l
  <1>7. CASE edit.what = "remove"
    <2>1. line' = [line EXCEPT ![l] = NoLine] /\ trip' = [trip EXCEPT ![l] = NoTrip]
      BY <1>4, <1>7
    <2> QED
      BY <1>1, <1>2, <1>7, <2>1, NothingThere DEF l
  <1>8. CASE (edit.what = "add" /\ line[l].there) \/ (edit.what = "update" /\ ~line[l].there)
    <2>1. line' = line /\ trip' = trip
      BY <1>4, <1>8
    <2> QED
      BY <1>1, <1>2, <1>8, <2>1 DEF l
  <1> QED
    BY <1>1, <1>5, <1>6, <1>7, <1>8

LEMMA ScansOfAnEdit ==
    ASSUME JobInv, EditLines, NEW c \in Scanner
    PROVE  /\ scan'[c].on <=> scan[c].on
           /\ scan[c].on => /\ scan'[c] \in Scan
                            /\ scan'[c].truck = scan[c].truck /\ scan'[c].to = scan[c].to
                            /\ scan'[c].force = scan[c].force /\ scan'[c].from = scan[c].from
                            /\ scan'[c].joins = scan[c].joins
                            /\ ~scan'[c].lost => ~scan[c].lost /\ (edit.what = "remove" => edit.line \notin Moving(c))
           /\ ~scan[c].on => scan'[c] = scan[c]
  <1>1. scan'[c] = IF edit.what = "remove" /\ scan[c].on /\ edit.line \in Moving(c)
                   THEN [scan[c] EXCEPT !.lost = TRUE] ELSE scan[c]
    BY DEF EditLines
  <1>2. scan[c].on => scan[c] \in Scan /\ scan[c].on = TRUE
    BY MovingNow, ScanFields DEF JobInv
  <1>3. CASE edit.what = "remove" /\ scan[c].on /\ edit.line \in Moving(c)
    <2>1. scan'[c] = [scan[c] EXCEPT !.lost = TRUE] /\ scan[c] \in Scan /\ scan[c].on
      BY <1>1, <1>2, <1>3
    <2> QED
      BY <2>1 DEF Scan
  <1>4. CASE ~(edit.what = "remove" /\ scan[c].on /\ edit.line \in Moving(c))
    BY <1>1, <1>2, <1>4
  <1> QED
    BY <1>3, <1>4

LEMMA EditKept == JobInv /\ EditLines => JobInv'
  <1> SUFFICES ASSUME JobInv, EditLines PROVE JobInv'
    OBVIOUS
  <1>1. UNCHANGED <<job, truck, departing>> /\ edit' = NoEdit
    BY DEF EditLines
  <1>2. scan' \in [Scanner -> Scan \cup {NoScan}]
    <2>1. \A c \in Scanner : scan'[c] \in Scan \cup {NoScan}
      BY ScansOfAnEdit, ScanNow DEF JobInv
    <2>2. scan' = [c \in Scanner |-> scan'[c]]
      BY DEF EditLines
    <2> QED
      BY <2>1, <2>2
  <1>3. JobTyped'
    BY <1>1, <1>2, Edited DEF JobInv, JobTyped
  <1>4. TripsKept'
    <2> SUFFICES ASSUME NEW l \in BoxLine
                 PROVE  trip'[l].to = line'[l].stage /\ (~line'[l].there => line'[l] = NoLine /\ trip'[l] = NoTrip)
      BY DEF TripsKept, There
    <2>1. trip[l].to = line[l].stage /\ (~line[l].there => line[l] = NoLine /\ trip[l] = NoTrip)
      BY DEF JobInv, TripsKept, There
    <2>2. CASE l # edit.line
      BY <2>1, <2>2, Edited
    <2>3. CASE l = edit.line
      BY <2>1, <2>3, Edited, NothingThere
    <2> QED
      BY <2>2, <2>3
  <1>5. ScansPlanned'
    <2> SUFFICES ASSUME NEW c \in Scanner, scan'[c].on PROVE Planned(c)'
      BY DEF ScansPlanned
    <2>1. /\ scan[c].on /\ Planned(c) /\ Moving(c)' = Moving(c) /\ Moving(c) \subseteq BoxLine
          /\ scan'[c].truck = scan[c].truck /\ scan'[c].to = scan[c].to /\ scan'[c].from = scan[c].from
          /\ scan'[c].joins = scan[c].joins /\ scan'[c].force = scan[c].force
          /\ ~scan'[c].lost => ~scan[c].lost /\ (edit.what = "remove" => edit.line \notin Moving(c))
      BY ScansOfAnEdit, MovingNow DEF JobInv, ScansPlanned, Moving
    <2>2. \A d \in Scanner : scan'[d].on => d = c
      BY <2>1, ScansOfAnEdit DEF Planned
    <2>3. ASSUME ~scan'[c].lost, NEW l \in Moving(c)
          PROVE  line'[l].there /\ line'[l].stage = line[l].stage
      <3>1. l \in BoxLine /\ line[l].there /\ (edit.what = "remove" => l # edit.line)
        BY <2>1, <2>3 DEF Planned, There
      <3> QED
        BY <3>1, Edited
    <2> QED
      BY <1>1, <2>1, <2>2, <2>3 DEF Planned, There
  <1> QED
    BY <1>3, <1>4, <1>5 DEF JobInv

LEMMA JobRowKept == JobInv /\ updateJob => JobInv'
  <1> SUFFICES ASSUME JobInv, updateJob PROVE JobInv'
    OBVIOUS
  <1>1. UNCHANGED <<line, truck, trip, scan, departing, edit>> /\ job' \in JobStatus
        /\ \A c \in Scanner : ~scan[c].on
    BY DEF updateJob, JobStatus, JobIsFree
  <1>2. JobTyped' /\ TripsKept'
    BY <1>1 DEF JobInv, JobTyped, TripsKept, There
  <1>3. ScansPlanned'
    BY <1>1 DEF ScansPlanned
  <1> QED
    BY <1>2, <1>3 DEF JobInv

(* advance.ts, shipments.ts, manifest edits: a scan that is not lost finds, when it commits,
   what it planned on, for any number of scanners, lines and shipments. *)
THEOREM LinesInvariant == JobSpec => []JobInv
PROOF
  <1>1. JobInit => JobInv
    <2> SUFFICES ASSUME JobInit PROVE JobInv
      OBVIOUS
    <2>1. JobTyped
      BY NothingThere DEF JobInit, JobTyped, JobStatus, OpenJob, TruckState
    <2>2. TripsKept
      BY NothingThere DEF JobInit, TripsKept, There
    <2>3. ScansPlanned
      BY DEF JobInit, ScansPlanned, NoScan
    <2> QED
      BY <2>1, <2>2, <2>3 DEF JobInv
  <1>2. JobInv /\ [JobNext]_jobVars => JobInv'
    <2> SUFFICES ASSUME JobInv, [JobNext]_jobVars PROVE JobInv'
      OBVIOUS
    <2>1. CASE UNCHANGED jobVars
      <3>1. JobTyped' /\ TripsKept'
        BY <2>1 DEF jobVars, JobInv, JobTyped, TripsKept, There
      <3>2. ScansPlanned'
        BY <2>1 DEF jobVars, JobInv, ScansPlanned, Planned, There, Moving
      <3> QED
        BY <3>1, <3>2 DEF JobInv
    <2>2. CASE JobNext
      BY <2>2, PlanKept, CommitKept, AbortKept, ShipmentKept, LookKept, EditKept, JobRowKept DEF JobNext
    <2> QED
      BY <2>1, <2>2
  <1> QED
    BY <1>1, <1>2, PTL DEF JobSpec

(* advance.ts:524: between scans, a line's history ends where it stands. *)
THEOREM LinesStaySound == JobSpec => []LinesSound
PROOF
  <1>1. JobInv => LinesSound
    <2> SUFFICES ASSUME JobInv PROVE LinesSound
      OBVIOUS
    <2>1. \A l \in BoxLine : line[l].stage \in Stage /\ line[l].truck \in Truck \cup {NoTruck}
      BY DEF JobInv, JobTyped, LineRow, TruckOrNone
    <2>2. \A c \in Scanner : scan[c].on => scan[c].joins \subseteq Moving(c)
      BY DEF JobInv, ScansPlanned, Planned
    <2> QED
      BY <2>1, <2>2 DEF JobInv, JobTyped, JobStatus, TripsKept, There, LinesSound, JobTypeOK, TripEndsHere
  <1> QED
    BY <1>1, LinesInvariant, PTL

(* What one step does to the stages and the shipments of lines. *)
LEMMA OnlyScansMove ==
    ASSUME JobInv, JobNext
    PROVE  /\ \A l \in There \cap There' :
                 line'[l].stage # line[l].stage \/ trip'[l] # trip[l] =>
                    \E c \in Scanner : CommitScan(c) /\ l \in Moving(c)
           /\ \A l \in BoxLine, s \in Truck :
                 line[l].truck # s /\ line'[l].truck = s /\ scan' # scan =>
                    \E c \in Scanner : CommitScan(c) /\ l \in Moving(c)
  <1>1. CASE \E c \in Scanner : CommitScan(c)
    <2>1. PICK c \in Scanner : CommitScan(c)
      BY <1>1
    <2>2. \A l \in BoxLine : l \notin Moving(c) => line'[l] = line[l] /\ trip'[l] = trip[l]
      BY <2>1, Committed
    <2> QED
      BY <2>1, <2>2 DEF There
  <1>2. CASE EditLines
    <2>1. ASSUME edit.what # "remove" PROVE scan' = scan
      <3>1. \A c \in Scanner : scan'[c] = scan[c]
        BY <1>2, <2>1 DEF EditLines
      <3>2. scan' = [c \in Scanner |-> scan'[c]] /\ scan = [c \in Scanner |-> scan[c]]
        BY <1>2 DEF EditLines, JobInv, JobTyped
      <3> QED
        BY <3>1, <3>2
    <2>2. ASSUME NEW l \in There \cap There' PROVE line'[l].stage = line[l].stage /\ trip'[l] = trip[l]
      <3>1. l \in BoxLine /\ line'[l].there
        BY <2>2 DEF There
      <3> QED
        BY <1>2, <3>1, Edited, NothingThere
    <2>3. ASSUME edit.what = "remove", NEW l \in BoxLine, NEW s \in Truck, line'[l].truck = s
          PROVE  line[l].truck = s
      BY <1>2, <2>3, Edited, NothingThere, JobAssumption
    <2> QED
      BY <2>1, <2>2, <2>3
  <1>3. CASE line' = line /\ trip' = trip
    BY <1>3
  <1> QED
    BY <1>1, <1>2, <1>3 DEF JobNext, PlanScan, AbortScan, DecideShipment, setShipmentStatus, LookToEdit, updateJob

(* rules.ts:33-46, advance.ts:176, 524, shared.ts:44: a scan takes lines up the ladder from
   where they stand, onto no closed shipment and on no completed job, whoever else
   scanned, edited, sent a shipment off or closed the job since it looked. *)
THEOREM ScansStayInOrder == JobSpec => ScansKeepOrder
PROOF
  <1>1. JobInv /\ JobNext => LadderGoesUp /\ TripsJoin /\ ClosedTakesNoScan /\ OpenJobOnly
    <2> SUFFICES ASSUME JobInv, JobNext PROVE LadderGoesUp /\ TripsJoin /\ ClosedTakesNoScan /\ OpenJobOnly
      OBVIOUS
    <2>1. ASSUME NEW c \in Scanner, CommitScan(c), NEW l \in Moving(c)
          PROVE  /\ scan[c].on /\ job \in OpenJob /\ line'[l].stage = scan[c].to
                 /\ trip'[l].from = line[l].stage /\ trip[l].to = line[l].stage
                 /\ decideStage(line[l].stage, scan[c].to, scan[c].force) = "advance"
                 /\ \A s \in Truck : line[l].truck # s /\ line'[l].truck = s => truck[s] # "closed"
      <3>1. /\ scan[c].on /\ Planned(c) /\ ~scan[c].lost /\ l \in BoxLine
            /\ line'[l].stage = scan[c].to /\ line'[l].truck = (IF l \in scan[c].joins THEN scan[c].truck ELSE line[l].truck)
            /\ trip'[l] = [from |-> line[l].stage, to |-> scan[c].to]
        BY <2>1, Committed
      <3>2. trip'[l].from = line[l].stage
        BY <3>1
      <3>3. trip[l].to = line[l].stage
        BY <3>1 DEF JobInv, TripsKept
      <3>4. decideStage(line[l].stage, scan[c].to, scan[c].force) = "advance" /\ job \in OpenJob
        BY <2>1, <3>1 DEF Planned
      <3>5. ASSUME NEW s \in Truck, line[l].truck # s, line'[l].truck = s PROVE truck[s] # "closed"
        BY <3>1, <3>5, JobAssumption DEF Planned
      <3> QED
        BY <3>1, <3>2, <3>3, <3>4, <3>5
    <2>2. LadderGoesUp
      <3> SUFFICES ASSUME NEW l \in There \cap There', line'[l].stage # line[l].stage
                   PROVE  \E c \in Scanner :
                            /\ scan[c].on /\ l \in Moving(c)
                            /\ \/ scan[c].force
                               \/ /\ line'[l].stage # Pending
                                  /\ (Damaged \in {line[l].stage, line'[l].stage} \/ line'[l].stage > line[l].stage)
        BY DEF LadderGoesUp
      <3>1. PICK c \in Scanner : CommitScan(c) /\ l \in Moving(c)
        BY OnlyScansMove
      <3> QED
        BY <2>1, <3>1 DEF decideStage
    <2>3. TripsJoin
      BY <2>1, OnlyScansMove DEF TripsJoin
    <2>4. ClosedTakesNoScan
      BY <2>1, OnlyScansMove DEF ClosedTakesNoScan
    <2>5. OpenJobOnly
      BY <2>1, OnlyScansMove DEF OpenJobOnly
    <2> QED
      BY <2>2, <2>3, <2>4, <2>5
  <1>2. JobInv /\ [JobNext]_jobVars => [LadderGoesUp /\ TripsJoin /\ ClosedTakesNoScan /\ OpenJobOnly]_jobVars
    BY <1>1
  <1> QED
    BY <1>2, LinesInvariant, PTL DEF JobSpec, ScansKeepOrder

-----------------------------------------------------------------------------
(* Claims: the pieces *)

LEMMA TotalTyped ==
    ASSUME NEW lines \in [Subject -> LineState]
    PROVE  claimTotal(lines) \in Total
  <1> DEFINE T == {x \in Subject : lines[x] \in {"priced", "granted"}}
  <1>1. IsFiniteSet(Subject) /\ T \subseteq Subject
    BY ClaimAssumption
  <1>2. /\ Cardinality(Subject) \in Nat /\ Cardinality(T) \in Nat /\ Cardinality(T) <= Cardinality(Subject)
    BY <1>1, FS_Subset, FS_CardinalityType
  <1>3. claimTotal(lines) = Unknown \/ claimTotal(lines) = Cardinality(T)
    BY DEF claimTotal
  <1> HIDE DEF T
  <1> QED
    BY <1>2, <1>3 DEF Total

LEMMA NoClaimYet ==
    /\ NoClaim \in Claim /\ NotPending \in Request /\ NoLines \in [Subject -> LineState]
    /\ NoClaim.lines = NoLines /\ On(NoLines) = {} /\ claimTotal(NoLines) = Unknown
    /\ NoClaim.status = "none" /\ NoClaim.total = Unknown /\ NoClaim.typed = "no" /\ NoClaim.due = 0
    /\ ~NoClaim.breached /\ ~NoClaim.frozen /\ NoClaim.erased = "no"
  <1>1. NoLines \in [Subject -> LineState] /\ On(NoLines) = {}
    BY DEF NoLines, LineState, On
  <1>2. claimTotal(NoLines) = Unknown
    BY <1>1 DEF claimTotal
  <1> QED
    BY <1>1, <1>2 DEF NoClaim, Claim, ClaimStatus, Total, Someone, NotPending, Request

LEMMA OvertakenTyped ==
    ASSUME NEW a \in Request
    PROVE  /\ Overtaken(a) \in Request /\ Overtaken(a).op = a.op
           /\ Overtaken(a).crossed <=> a.op \in {"total", "delete"}
  <1>1. /\ \A b \in BOOLEAN : /\ [a EXCEPT !.crossed = b] \in Request
                            /\ [a EXCEPT !.crossed = b].op = a.op
                            /\ [a EXCEPT !.crossed = b].crossed = b
    BY DEF Request
  <1>2. CASE a.op \in {"total", "delete"}
    <2>1. Overtaken(a) = [a EXCEPT !.crossed = TRUE]
      BY <1>2 DEF Overtaken
    <2> QED
      BY <1>1, <1>2, <2>1
  <1>3. CASE a.op \notin {"total", "delete"}
    <2>1. (a.op \in {"total", "delete"}) = FALSE
      BY <1>3
    <2>2. Overtaken(a) = [a EXCEPT !.crossed = FALSE]
      BY <2>1, Zenon DEF Overtaken
    <2> QED
      BY <1>1, <1>3, <2>2
  <1> QED
    BY <1>2, <1>3

LEMMA OvertakenFounds ==
    ASSUME ClaimInv, OvertakesPending, claim'.status # "none"
    PROVE  pending' \in [Staff -> Request] /\ RequestsFounded'
  BY OvertakenTyped DEF ClaimInv, ClaimTyped, OvertakesPending, RequestsFounded, Founded

LEMMA NumbersOfAClaim ==
    ASSUME ClaimInv
    PROVE  /\ claim \in Claim /\ claim.lines \in [Subject -> LineState]
           /\ claim.due \in Nat /\ deadlines \in Nat /\ MaxDeadlines \in Nat
           /\ claim.due <= deadlines /\ deadlines <= MaxDeadlines
  BY ClaimAssumption DEF ClaimInv, ClaimTyped, Claim

(* A deadline that was never set before. *)
LEMMA NewDeadline ==
    ASSUME ClaimInv, deadlines < MaxDeadlines
    PROVE  \E d \in 1 .. MaxDeadlines :
             /\ d \in Nat /\ d = deadlines + 1 /\ d # 0 /\ d <= MaxDeadlines /\ told[d] = 0 /\ d <= d /\ deadlines <= d
             /\ \A e \in 1 .. MaxDeadlines : e > d => e > deadlines
  BY NumbersOfAClaim DEF ClaimInv, ToldOnce

(* What was told of stays so when no deadline is told of. *)
LEMMA ToldKept ==
    ASSUME ClaimInv, UNCHANGED told, deadlines' \in Nat,
           \A e \in 1 .. MaxDeadlines : e > deadlines' => e > deadlines,
           claim'.due # 0 /\ ~claim'.breached => told[claim'.due] = 0
    PROVE  ToldOnce'
  BY DEF ClaimInv, ToldOnce

-----------------------------------------------------------------------------
(* Claims: the steps *)

LEMMA OpenKept ==
    ASSUME ClaimInv, fileClaim \/ \E p \in Staff : createClaim(p)
    PROVE  ClaimInv'
  <1>1. /\ claim = NoClaim /\ ClaimTyped /\ RequestsFounded /\ UNCHANGED <<pending, told, settled>>
        /\ \A p \in Staff : pending[p] = NotPending
    BY NoClaimYet DEF fileClaim, createClaim, ClaimInv, RequestsFounded, Founded
  <1>2. ASSUME NEW on \in SUBSET Subject, NEW lines, lines = [x \in Subject |-> IF x \in on THEN "open" ELSE "off"]
        PROVE  lines \in [Subject -> LineState] /\ claimTotal(lines) = Unknown
    BY <1>2 DEF LineState, claimTotal, On
  <1>3. CASE fileClaim
    <2>1. PICK d \in 1 .. MaxDeadlines :
             /\ d \in Nat /\ d = deadlines + 1 /\ d # 0 /\ d <= MaxDeadlines /\ told[d] = 0 /\ d <= d /\ deadlines <= d
             /\ \A e \in 1 .. MaxDeadlines : e > d => e > deadlines
      BY <1>3, NewDeadline DEF fileClaim
    <2>2. PICK on \in (SUBSET Subject) \ {{}} :
             claim' = [NoClaim EXCEPT !.status = "submitted", !.listed = TRUE, !.frozen = TRUE,
                                      !.due = deadlines + 1,
                                      !.lines = [x \in Subject |-> IF x \in on THEN "open" ELSE "off"]]
      BY <1>3 DEF fileClaim
    <2>3. PICK lines : lines = [x \in Subject |-> IF x \in on THEN "open" ELSE "off"]
      OBVIOUS
    <2>4. lines \in [Subject -> LineState] /\ claimTotal(lines) = Unknown
      BY <1>2, <2>3
    <2>5. claim' = [NoClaim EXCEPT !.status = "submitted", !.listed = TRUE, !.frozen = TRUE, !.due = d, !.lines = lines]
      BY <2>1, <2>2, <2>3
    <2>6. /\ claim' \in Claim /\ claim'.status = "submitted" /\ claim'.frozen /\ claim'.due = d /\ claim'.lines = lines
          /\ claim'.total = Unknown /\ claim'.typed = "no" /\ ~claim'.breached
      BY <2>1, <2>4, <2>5, NoClaimYet DEF Claim, ClaimStatus, Undecided
    <2>7. deadlines' = d
      BY <1>3, <2>1 DEF fileClaim
    <2>8. ClaimTyped'
      BY <1>1, <2>1, <2>6, <2>7 DEF ClaimTyped
    <2>9. RequestsFounded'
      BY <1>1, <2>6 DEF RequestsFounded, Founded, NotPending
    <2>10. ToldOnce'
      BY <1>1, <2>1, <2>6, <2>7, ToldKept
    <2> QED
      BY <2>1, <2>4, <2>6, <2>8, <2>9, <2>10
         DEF ClaimInv, TotalsFollow, DecisionStands, RecordStands, Decided
  <1>4. CASE \E p \in Staff : createClaim(p)
    <2>1. PICK p \in Staff : createClaim(p)
      BY <1>4
    <2>2. PICK on \in SUBSET Subject, loss \in BOOLEAN :
             claim' = [NoClaim EXCEPT !.status = "draft", !.listed = loss, !.opener = p,
                                      !.reporter = IF loss THEN p ELSE Nobody,
                                      !.lines = [x \in Subject |-> IF x \in on THEN "open" ELSE "off"]]
      BY <2>1 DEF createClaim
    <2>3. PICK lines : lines = [x \in Subject |-> IF x \in on THEN "open" ELSE "off"]
      OBVIOUS
    <2>4. lines \in [Subject -> LineState] /\ claimTotal(lines) = Unknown
      BY <1>2, <2>3
    <2>5. PICK reporter \in Someone : reporter = IF loss THEN p ELSE Nobody
      BY DEF Someone
    <2>6. claim' = [NoClaim EXCEPT !.status = "draft", !.listed = loss, !.opener = p, !.reporter = reporter, !.lines = lines]
      BY <2>2, <2>3, <2>5
    <2>7. /\ claim' \in Claim /\ claim'.status = "draft" /\ claim'.due = 0 /\ claim'.lines = lines
          /\ claim'.total = Unknown /\ claim'.typed = "no" /\ ~claim'.breached
      BY <2>4, <2>5, <2>6, NoClaimYet DEF Claim, ClaimStatus, Undecided, Someone
    <2>8. deadlines' = deadlines /\ deadlines \in Nat /\ 0 <= deadlines
      <3>1. deadlines \in Nat /\ deadlines' = deadlines
        BY <2>1, NumbersOfAClaim DEF createClaim
      <3> QED
        BY <3>1
    <2>9. ClaimTyped'
      BY <1>1, <2>7, <2>8 DEF ClaimTyped
    <2>10. RequestsFounded'
      BY <1>1, <2>7 DEF RequestsFounded, Founded, NotPending
    <2>11. ToldOnce'
      BY <1>1, <2>7, <2>8, ToldKept
    <2> QED
      BY <2>4, <2>7, <2>9, <2>10, <2>11
         DEF ClaimInv, TotalsFollow, DecisionStands, RecordStands, Decided, Deciding
  <1> QED
    BY <1>3, <1>4

LEMMA SyncKept ==
    ASSUME ClaimInv, assertEditable, NEW lines \in [Subject -> LineState], syncTotals(lines),
           OvertakesPending, UNCHANGED <<deadlines, told, settled>>
    PROVE  ClaimInv'
  <1>1. /\ claim \in Claim /\ claim.status \in Undecided /\ deadlines \in Nat
    BY NumbersOfAClaim DEF assertEditable
  <1>2. PICK total \in Total : total = claimTotal(lines)
    BY TotalTyped
  <1>3. claim' = [claim EXCEPT !.lines = lines, !.typed = "no", !.total = total]
    BY <1>2 DEF syncTotals
  <1>4. /\ claim' \in Claim /\ claim'.lines = lines /\ claim'.typed = "no" /\ claim'.total = claimTotal(lines)
        /\ claim'.status = claim.status /\ claim'.due = claim.due /\ claim'.breached = claim.breached
    BY <1>1, <1>2, <1>3 DEF Claim
  <1>5. pending' \in [Staff -> Request] /\ RequestsFounded'
    BY <1>1, <1>4, OvertakenFounds DEF Undecided
  <1>6. ClaimTyped'
    BY <1>4, <1>5 DEF ClaimInv, ClaimTyped
  <1>7. ToldOnce'
    BY <1>1, <1>4, ToldKept DEF ClaimInv, ToldOnce
  <1>8. claim.status \notin Decided \cup {"deleted"}
    BY <1>1 DEF Undecided, Decided
  <1> QED
    BY <1>4, <1>5, <1>6, <1>7, <1>8 DEF ClaimInv, TotalsFollow, DecisionStands, RecordStands

LEMMA LinesKept ==
    ASSUME ClaimInv,
           addLines \/ \E x \in Subject : removeLine(x) \/ \E p \in Staff : updateLine(p, x)
    PROVE  ClaimInv'
  <1>1. claim.lines \in [Subject -> LineState]
    BY NumbersOfAClaim
  <1>2. CASE addLines
    <2>1. PICK more \in (SUBSET Subject) \ {{}} :
             syncTotals([x \in Subject |-> IF x \in more /\ claim.lines[x] = "off" THEN "open" ELSE claim.lines[x]])
      BY <1>2 DEF addLines
    <2>2. PICK lines \in [Subject -> LineState] :
             lines = [x \in Subject |-> IF x \in more /\ claim.lines[x] = "off" THEN "open" ELSE claim.lines[x]]
      BY <1>1 DEF LineState
    <2> QED
      BY <1>2, <2>1, <2>2, SyncKept DEF addLines
  <1>3. CASE \E x \in Subject : removeLine(x)
    <2>1. PICK x \in Subject : removeLine(x)
      BY <1>3
    <2>2. PICK lines \in [Subject -> LineState] : lines = [claim.lines EXCEPT ![x] = "off"]
      BY <1>1 DEF LineState
    <2> QED
      BY <2>1, <2>2, SyncKept DEF removeLine
  <1>4. CASE \E x \in Subject : \E p \in Staff : updateLine(p, x)
    <2>1. PICK x \in Subject, p \in Staff : updateLine(p, x)
      BY <1>4
    <2>2. PICK l \in {"open", "priced", "granted", "denied"} : syncTotals([claim.lines EXCEPT ![x] = l])
      BY <2>1 DEF updateLine
    <2>3. PICK lines \in [Subject -> LineState] : lines = [claim.lines EXCEPT ![x] = l]
      BY <1>1 DEF LineState
    <2> QED
      BY <2>1, <2>2, <2>3, SyncKept DEF updateLine
  <1> QED
    BY <1>2, <1>3, <1>4

(* The workflow goes one way, but for those who may decide. *)
LEMMA TransitionFacts ==
    ASSUME NEW from, NEW to, <<from, to>> \in Transitions
    PROVE  /\ to \in Undecided \cup Decided
           /\ to = "paid" => from = "approved"
           /\ to = "under_review" => from \in Decided \cup {"submitted"}
  BY DEF Transitions, Decision, Undecided, Deciding, Decided

LEMMA StatusSet ==
    ASSUME ClaimInv, NEW to \in Undecided \cup Decided,
           to = "approved" => \A x \in On(claim.lines) : isLineDecided(claim.lines[x]),
           to = "paid" => claim.status = "approved",
           NEW due \in Nat, NEW breached \in BOOLEAN,
           claim' = [claim EXCEPT !.status = to, !.due = due, !.breached = breached,
                                  !.frozen = @ \/ to = "submitted"],
           to \in Deciding => due # 0, due # 0 /\ ~breached => told[due] = 0,
           deadlines' \in Nat, deadlines' <= MaxDeadlines, due <= deadlines',
           \A e \in 1 .. MaxDeadlines : e > deadlines' => e > deadlines,
           settled' = (IF to \notin Decided THEN NoLines
                       ELSE IF claim.status \in Decided THEN settled ELSE claim.lines),
           OvertakesPending, UNCHANGED told
    PROVE  ClaimInv'
  <1>1. PICK frozen \in BOOLEAN : claim' = [claim EXCEPT !.status = to, !.due = due, !.breached = breached, !.frozen = frozen]
    <2>1. claim.frozen \in BOOLEAN
      BY NumbersOfAClaim DEF Claim
    <2>2. CASE to = "submitted"
      <3>1. (claim.frozen \/ to = "submitted") = TRUE
        BY <2>2
      <3> QED
        BY <3>1
    <2>3. CASE to # "submitted"
      <3>1. (claim.frozen \/ to = "submitted") = claim.frozen
        BY <2>1, <2>3
      <3> QED
        BY <2>1, <3>1
    <2> QED
      BY <2>2, <2>3
  <1>2. /\ claim' \in Claim /\ claim'.status = to /\ claim'.due = due /\ claim'.breached = breached
        /\ claim'.lines = claim.lines /\ claim'.total = claim.total /\ claim'.typed = claim.typed
    <2>1. claim \in Claim /\ to \in ClaimStatus
      BY NumbersOfAClaim DEF ClaimStatus
    <2>2. claim' \in Claim
      BY <1>1, <2>1 DEF Claim
    <2>3. claim'.status = to /\ claim'.due = due /\ claim'.breached = breached
      BY <1>1, <2>1 DEF Claim
    <2>4. claim'.lines = claim.lines /\ claim'.total = claim.total /\ claim'.typed = claim.typed
      BY <1>1, <2>1 DEF Claim
    <2> QED
      BY <2>2, <2>3, <2>4
  <1>3. to \notin {"none", "deleted"}
    BY DEF Undecided, Decided
  <1>4. pending' \in [Staff -> Request] /\ RequestsFounded'
    BY <1>2, <1>3, OvertakenFounds
  <1>5. settled' \in [Subject -> LineState]
    BY NumbersOfAClaim, NoClaimYet DEF ClaimInv, ClaimTyped
  <1>6. ClaimTyped'
    BY <1>2, <1>4, <1>5 DEF ClaimInv, ClaimTyped
  <1>7. ToldOnce'
    BY <1>2, ToldKept
  <1>8. TotalsFollow' /\ RecordStands'
    BY <1>2, <1>3 DEF ClaimInv, TotalsFollow, RecordStands
  <1>9. DecisionStands'
    <2> SUFFICES ASSUME to \in Decided
                 PROVE  /\ claim.lines = settled'
                        /\ to \in {"approved", "paid"} => \A x \in On(claim.lines) : isLineDecided(claim.lines[x])
      BY <1>2 DEF DecisionStands
    <2>1. claim.lines = settled'
      BY DEF ClaimInv, DecisionStands
    <2>2. ASSUME to = "paid" PROVE \A x \in On(claim.lines) : isLineDecided(claim.lines[x])
      BY <2>2 DEF ClaimInv, DecisionStands, Decided
    <2> QED
      BY <2>1, <2>2
  <1> QED
    BY <1>2, <1>4, <1>6, <1>7, <1>8, <1>9 DEF ClaimInv

LEMMA StatusKept ==
    ASSUME ClaimInv, NEW p \in Staff, NEW to, setStatus(p, to)
    PROVE  ClaimInv'
  <1>1. /\ <<claim.status, to>> \in Transitions /\ UNCHANGED told /\ OvertakesPending
        /\ to = "approved" => \A x \in On(claim.lines) : isLineDecided(claim.lines[x])
    BY DEF setStatus, checkTransition
  <1>2. settled' = (IF to \notin Decided THEN NoLines
                    ELSE IF claim.status \in Decided THEN settled ELSE claim.lines)
    BY DEF setStatus
  <1>3. /\ to \in Undecided \cup Decided
        /\ to = "paid" => claim.status = "approved"
        /\ to = "under_review" => claim.status \in Decided \cup {"submitted"}
    BY <1>1, TransitionFacts
  <1>4. /\ claim' = [claim EXCEPT !.status = to, !.due = transitionStamps(to).due,
                                  !.breached = transitionStamps(to).breached, !.frozen = @ \/ to = "submitted"]
        /\ deadlines' = IF StartsClock(to) THEN deadlines + 1 ELSE deadlines
        /\ StartsClock(to) => deadlines < MaxDeadlines
    BY DEF setStatus
  <1>5. claim.breached \in BOOLEAN
    BY NumbersOfAClaim DEF Claim
  <1>6. CASE StartsClock(to)
    <2>1. PICK d \in 1 .. MaxDeadlines :
             /\ d \in Nat /\ d = deadlines + 1 /\ d # 0 /\ d <= MaxDeadlines /\ told[d] = 0 /\ d <= d /\ deadlines <= d
             /\ \A e \in 1 .. MaxDeadlines : e > d => e > deadlines
      BY <1>4, <1>6, NewDeadline
    <2>2. transitionStamps(to).due = d /\ transitionStamps(to).breached = FALSE
      <3>1. transitionStamps(to) = [due |-> deadlines + 1, breached |-> FALSE]
        <4>1. to # "draft"
          BY <1>6, <1>3 DEF StartsClock, Decided, Undecided
        <4> QED
          BY <1>6, <4>1 DEF transitionStamps
      <3> QED
        BY <2>1, <3>1
    <2>3. deadlines' = d /\ claim' = [claim EXCEPT !.status = to, !.due = d, !.breached = FALSE, !.frozen = @ \/ to = "submitted"]
      BY <1>4, <1>6, <2>1, <2>2
    <2> QED
      BY <1>1, <1>2, <1>3, <2>1, <2>3, StatusSet
  <1>7. CASE ~StartsClock(to) /\ to = "draft"
    <2>1. transitionStamps(to).due = 0 /\ transitionStamps(to).breached = FALSE
      BY <1>7 DEF transitionStamps
    <2>2. deadlines' = deadlines /\ claim' = [claim EXCEPT !.status = to, !.due = 0, !.breached = FALSE, !.frozen = @ \/ to = "submitted"]
      BY <1>4, <1>7, <2>1
    <2>3. to \notin Deciding /\ 0 <= deadlines
      BY <1>7, NumbersOfAClaim DEF Deciding
    <2> QED
      BY <1>1, <1>2, <1>3, <2>2, <2>3, NumbersOfAClaim, StatusSet
  <1>8. CASE ~StartsClock(to) /\ to # "draft"
    <2>1. transitionStamps(to).due = claim.due /\ transitionStamps(to).breached = claim.breached
      BY <1>8 DEF transitionStamps
    <2>2. PICK due \in Nat, breached \in BOOLEAN : due = claim.due /\ breached = claim.breached
      BY <1>5, NumbersOfAClaim
    <2>3. deadlines' = deadlines /\ claim' = [claim EXCEPT !.status = to, !.due = due, !.breached = breached, !.frozen = @ \/ to = "submitted"]
      BY <1>4, <1>8, <2>1, <2>2
    <2>4. to \in Deciding => due # 0
      BY <1>3, <1>8, <2>2 DEF StartsClock, Deciding, ClaimInv
    <2>5. due # 0 /\ ~breached => told[due] = 0
      BY <2>2 DEF ClaimInv, ToldOnce
    <2> QED
      BY <1>1, <1>2, <1>3, <2>2, <2>3, <2>4, <2>5, NumbersOfAClaim, StatusSet
  <1> QED
    BY <1>6, <1>7, <1>8

(* A request that has looked, and no more. *)
LEMMA AskKept ==
    ASSUME ClaimInv, NEW p \in Staff, NEW op \in {"total", "deadline", "reviewer", "delete"},
           NEW to \in Someone, MeansTo(p, op, to), claim.status # "none",
           op = "total" => On(claim.lines) = {},
           op = "delete" => p \in Chief \/ ~claim.frozen
    PROVE  ClaimInv'
  <1>1. [op |-> op, crossed |-> FALSE, to |-> to] \in Request
    BY DEF Request
  <1>2. /\ pending' \in [Staff -> Request] /\ pending'[p] = [op |-> op, crossed |-> FALSE, to |-> to]
        /\ \A q \in Staff : q # p => pending'[q] = pending[q]
        /\ UNCHANGED <<claim, deadlines, told, settled>>
    BY <1>1 DEF MeansTo, ClaimInv, ClaimTyped
  <1>3. ClaimTyped' /\ RequestsFounded'
    BY <1>2 DEF ClaimInv, ClaimTyped, RequestsFounded, Founded
  <1> QED
    BY <1>2, <1>3 DEF ClaimInv, ToldOnce, TotalsFollow, DecisionStands, RecordStands

LEMMA AsksKept ==
    ASSUME ClaimInv, NEW p \in Staff, askUpdateClaim(p) \/ askAssignClaim(p) \/ askDeleteClaim(p)
    PROVE  ClaimInv'
  <1>1. Nobody \in Someone
    BY DEF Someone
  <1>2. CASE askUpdateClaim(p)
    <2>1. claim.status # "none"
      BY <1>2 DEF askUpdateClaim, Deciding
    <2> QED
      BY <1>1, <1>2, <2>1, AskKept DEF askUpdateClaim
  <1>3. CASE askAssignClaim(p)
    <2>1. claim.status # "none"
      BY <1>3 DEF askAssignClaim, Present, Undecided, Decided
    <2> QED
      BY <1>3, <2>1, AskKept DEF askAssignClaim, Someone
  <1>4. CASE askDeleteClaim(p)
    BY <1>1, <1>4, AskKept DEF askDeleteClaim, MayDelete
  <1> QED
    BY <1>2, <1>3, <1>4

LEMMA MissKept ==
    ASSUME ClaimInv, NEW p \in Staff, Misses(p)
    PROVE  ClaimInv'
  <1>1. /\ pending' \in [Staff -> Request] /\ pending'[p] = NotPending
        /\ \A q \in Staff : q # p => pending'[q] = pending[q]
        /\ UNCHANGED <<claim, deadlines, told, settled>>
    BY NoClaimYet DEF Misses, ClaimInv, ClaimTyped
  <1>2. NotPending.op = "none"
    BY DEF NotPending
  <1>3. ClaimTyped' /\ RequestsFounded'
    BY <1>1, <1>2 DEF ClaimInv, ClaimTyped, RequestsFounded, Founded
  <1> QED
    BY <1>1, <1>3 DEF ClaimInv, ToldOnce, TotalsFollow, DecisionStands, RecordStands

(* A write by id: the others read the claim as it was before. *)
LEMMA WriteFounds ==
    ASSUME ClaimInv, NEW p \in Staff, NEW op, Writes(p, op)
    PROVE  /\ pending' \in [Staff -> Request] /\ (claim'.status # "none" => RequestsFounded')
           /\ Founded(p) /\ pending[p] \in Request /\ pending[p].op = op
           /\ claim.status \in Undecided \cup Decided /\ claim.status \notin {"none", "deleted"}
           /\ UNCHANGED <<told, settled>>
  <1>1. NotPending.op = "none"
    BY DEF NotPending
  <1>2. pending' \in [Staff -> Request]
    BY OvertakenTyped, NoClaimYet DEF ClaimInv, ClaimTyped, Writes
  <1>3. ASSUME claim'.status # "none", NEW q \in Staff PROVE Founded(q)'
    <2>1. pending'[q] = IF q = p THEN NotPending ELSE Overtaken(pending[q])
      BY DEF Writes
    <2>2. pending[q] \in Request
      BY DEF ClaimInv, ClaimTyped
    <2> QED
      BY <1>1, <1>3, <2>1, <2>2, OvertakenTyped DEF Founded
  <1> QED
    BY <1>2, <1>3 DEF RequestsFounded, ClaimInv, ClaimTyped, Writes, Present, Undecided, Decided

(* What is written leaves the claim's lines and its status. *)
LEMMA FieldWritten ==
    ASSUME ClaimInv, NEW p \in Staff, NEW op, Writes(p, op), NEW c \in Claim, claim' = c,
           c.status = claim.status, c.lines = claim.lines,
           c.typed = "no" => claim.typed = "no" /\ c.total = claim.total,
           c.typed = "fair" => On(c.lines) = {},
           c.due = 0 => claim.due = 0, c.due # 0 /\ ~c.breached => told[c.due] = 0,
           deadlines' \in Nat, deadlines' <= MaxDeadlines, c.due <= deadlines',
           \A e \in 1 .. MaxDeadlines : e > deadlines' => e > deadlines
    PROVE  ClaimInv'
  <1>1. pending' \in [Staff -> Request] /\ RequestsFounded' /\ UNCHANGED <<told, settled>>
        /\ claim.status \notin {"none", "deleted"}
    BY WriteFounds
  <1>2. ClaimTyped' /\ ToldOnce'
    BY <1>1, ToldKept DEF ClaimInv, ClaimTyped
  <1>3. TotalsFollow'
    BY DEF ClaimInv, TotalsFollow
  <1>4. DecisionStands' /\ RecordStands'
    BY <1>1 DEF ClaimInv, DecisionStands, RecordStands
  <1> QED
    BY <1>1, <1>2, <1>3, <1>4 DEF ClaimInv

LEMMA TotalKept ==
    ASSUME ClaimInv, NEW p \in Staff, saveTotal(p)
    PROVE  ClaimInv'
  <1>1. PICK n \in 0 .. Cardinality(Subject) :
          claim' = [claim EXCEPT !.total = n, !.typed = IF pending[p].crossed THEN "late" ELSE "fair"]
    BY DEF saveTotal
  <1>2. PICK typed \in {"fair", "late"} : typed = IF pending[p].crossed THEN "late" ELSE "fair"
    OBVIOUS
  <1>3. Writes(p, "total") /\ claim.lines \in [Subject -> LineState] /\ UNCHANGED deadlines
    BY NumbersOfAClaim DEF saveTotal
  <1>4. typed = "fair" => On(claim.lines) = {}
    BY <1>2, <1>3, WriteFounds DEF Founded, Request
  <1>5. PICK c : c = [claim EXCEPT !.total = n, !.typed = typed]
    OBVIOUS
  <1>6. /\ c \in Claim /\ c.status = claim.status /\ c.lines = claim.lines /\ c.typed = typed
        /\ c.due = claim.due /\ c.breached = claim.breached
    BY <1>5, NumbersOfAClaim DEF Claim, Total
  <1>7. claim' = c
    BY <1>1, <1>2, <1>5
  <1>8. c.due # 0 /\ ~c.breached => told[c.due] = 0
    BY <1>6 DEF ClaimInv, ToldOnce
  <1> QED
    BY <1>2, <1>3, <1>4, <1>6, <1>7, <1>8, NumbersOfAClaim, FieldWritten

LEMMA DeadlineMoved ==
    ASSUME ClaimInv, NEW p \in Staff, saveDeadline(p)
    PROVE  ClaimInv'
  <1>1. PICK d \in 1 .. MaxDeadlines :
             /\ d \in Nat /\ d = deadlines + 1 /\ d # 0 /\ d <= MaxDeadlines /\ told[d] = 0 /\ d <= d /\ deadlines <= d
             /\ \A e \in 1 .. MaxDeadlines : e > d => e > deadlines
    BY NewDeadline DEF saveDeadline
  <1>2. PICK c : c = [claim EXCEPT !.due = d, !.breached = FALSE]
    OBVIOUS
  <1>3. claim' = c /\ deadlines' = d /\ Writes(p, "deadline")
    BY <1>1, <1>2 DEF saveDeadline
  <1>4. /\ c \in Claim /\ c.status = claim.status /\ c.lines = claim.lines /\ c.typed = claim.typed
        /\ c.total = claim.total /\ c.due = d
    BY <1>1, <1>2, NumbersOfAClaim DEF Claim
  <1>5. c.typed = "fair" => On(c.lines) = {}
    BY <1>4 DEF ClaimInv, TotalsFollow
  <1> QED
    BY <1>1, <1>3, <1>4, <1>5, FieldWritten

LEMMA ReviewerKept ==
    ASSUME ClaimInv, NEW p \in Staff, assignClaim(p)
    PROVE  ClaimInv'
  <1>1. Writes(p, "reviewer") /\ UNCHANGED deadlines
    BY DEF assignClaim
  <1>2. PICK to \in Someone : to = pending[p].to
    BY <1>1, WriteFounds DEF Request
  <1>3. PICK c : c = [claim EXCEPT !.reviewer = to]
    OBVIOUS
  <1>4. claim' = c
    BY <1>2, <1>3 DEF assignClaim
  <1>5. /\ c \in Claim /\ c.status = claim.status /\ c.lines = claim.lines /\ c.typed = claim.typed
        /\ c.total = claim.total /\ c.due = claim.due /\ c.breached = claim.breached
    BY <1>3, NumbersOfAClaim DEF Claim
  <1>6. c.typed = "fair" => On(c.lines) = {}
    BY <1>5 DEF ClaimInv, TotalsFollow
  <1>7. c.due # 0 /\ ~c.breached => told[c.due] = 0
    BY <1>5 DEF ClaimInv, ToldOnce
  <1> QED
    BY <1>1, <1>4, <1>5, <1>6, <1>7, NumbersOfAClaim, FieldWritten

LEMMA DeleteKept ==
    ASSUME ClaimInv, NEW p \in Staff, deleteClaim(p)
    PROVE  ClaimInv'
  <1>1. Writes(p, "delete") /\ deadlines' = deadlines /\ 0 <= deadlines
    <2>1. deadlines \in Nat
      BY NumbersOfAClaim
    <2> QED
      BY <2>1 DEF deleteClaim
  <1>2. PICK erased \in {"by the chief", "late", "fair"} :
          erased = IF p \in Chief THEN "by the chief" ELSE IF pending[p].crossed THEN "late" ELSE "fair"
    OBVIOUS
  <1>3. PICK frozen \in BOOLEAN : frozen = claim.frozen
    BY NumbersOfAClaim DEF Claim
  <1>4. claim' = [NoClaim EXCEPT !.status = "deleted", !.frozen = frozen, !.erased = erased]
    BY <1>2, <1>3 DEF deleteClaim
  <1>5. /\ claim' \in Claim /\ claim'.status = "deleted" /\ claim'.lines = NoLines /\ claim'.typed = "no"
        /\ claim'.total = Unknown /\ claim'.due = 0 /\ claim'.frozen = frozen /\ claim'.erased = erased
    BY <1>2, <1>4, NoClaimYet DEF Claim, ClaimStatus
  <1>6. pending' \in [Staff -> Request] /\ RequestsFounded' /\ UNCHANGED <<told, settled>>
    BY <1>1, <1>5, WriteFounds
  <1>7. deadlines \in Nat
    BY NumbersOfAClaim
  <1>8. ClaimTyped'
    BY <1>1, <1>5, <1>6, <1>7 DEF ClaimInv, ClaimTyped
  <1>9. ToldOnce'
    BY <1>1, <1>5, <1>6, <1>7, ToldKept
  <1>10. frozen => erased # "fair"
    BY <1>1, <1>2, <1>3, WriteFounds DEF Founded, Request
  <1> QED
    BY <1>5, <1>6, <1>8, <1>9, <1>10, NoClaimYet
       DEF ClaimInv, TotalsFollow, DecisionStands, RecordStands, Decided, Deciding

(* The deadline that has passed is stamped by the statement that finds it. *)
LEMMA BreachKept == ClaimInv /\ checkSlaBreaches => ClaimInv'
  <1> SUFFICES ASSUME ClaimInv, checkSlaBreaches PROVE ClaimInv'
    OBVIOUS
  <1>1. /\ claim' = [claim EXCEPT !.breached = TRUE] /\ UNCHANGED <<pending, deadlines, settled>>
        /\ claim.due # 0 /\ ~claim.breached /\ claim.status \in Deciding
        /\ told' \in {told, [told EXCEPT ![claim.due] = @ + 1]}
    BY DEF checkSlaBreaches, Breached
  <1>2. /\ claim' \in Claim /\ claim'.status = claim.status /\ claim'.lines = claim.lines
        /\ claim'.typed = claim.typed /\ claim'.total = claim.total /\ claim'.due = claim.due
        /\ claim'.breached /\ claim'.frozen = claim.frozen /\ claim'.erased = claim.erased
    BY <1>1, NumbersOfAClaim DEF Claim
  <1>3. claim.due \in 1 .. MaxDeadlines
    BY <1>1, NumbersOfAClaim
  <1>4. told \in [1 .. MaxDeadlines -> Nat] /\ told[claim.due] = 0 /\ ~(claim.due > deadlines)
        /\ \A d \in 1 .. MaxDeadlines : told[d] <= 1 /\ (d > deadlines => told[d] = 0)
    BY <1>1, <1>3, NumbersOfAClaim DEF ClaimInv, ClaimTyped, ToldOnce
  <1>5. /\ told' \in [1 .. MaxDeadlines -> Nat]
        /\ \A d \in 1 .. MaxDeadlines : told'[d] <= 1 /\ (d > deadlines => told'[d] = 0)
    <2>1. CASE told' = told
      BY <1>4, <2>1
    <2>2. CASE told' = [told EXCEPT ![claim.due] = @ + 1]
      <3>1. told' = [told EXCEPT ![claim.due] = 1]
        BY <1>3, <1>4, <2>2
      <3> QED
        BY <1>3, <1>4, <3>1
    <2> QED
      BY <1>1, <2>1, <2>2
  <1>6. ClaimTyped' /\ ToldOnce'
    BY <1>1, <1>2, <1>5 DEF ClaimInv, ClaimTyped, ToldOnce
  <1>7. RequestsFounded'
    BY <1>1, <1>2 DEF ClaimInv, RequestsFounded, Founded
  <1>8. TotalsFollow' /\ DecisionStands' /\ RecordStands'
    BY <1>1, <1>2 DEF ClaimInv, TotalsFollow, DecisionStands, RecordStands
  <1> QED
    BY <1>1, <1>2, <1>6, <1>7, <1>8 DEF ClaimInv

(* claims.ts, sla.ts: a request that nothing crossed still finds what it found, and only a
   deadline that was set is told of, for any staff and any lines. *)
THEOREM ClaimInvariant == ClaimSpec => []ClaimInv
PROOF
  <1>1. ClaimInit => ClaimInv
    <2> SUFFICES ASSUME ClaimInit PROVE ClaimInv
      OBVIOUS
    <2>1. ClaimTyped
      BY NoClaimYet, ClaimAssumption DEF ClaimInit, ClaimTyped
    <2>2. RequestsFounded
      BY DEF ClaimInit, RequestsFounded, Founded, NotPending
    <2>3. ToldOnce
      BY NoClaimYet DEF ClaimInit, ToldOnce
    <2>4. TotalsFollow /\ DecisionStands /\ RecordStands /\ claim.status \notin Deciding
      BY NoClaimYet DEF ClaimInit, TotalsFollow, DecisionStands, RecordStands, Decided, Deciding
    <2> QED
      BY <2>1, <2>2, <2>3, <2>4 DEF ClaimInv
  <1>2. ClaimInv /\ [ClaimNext]_claimVars => ClaimInv'
    <2> SUFFICES ASSUME ClaimInv, [ClaimNext]_claimVars PROVE ClaimInv'
      OBVIOUS
    <2>1. CASE UNCHANGED claimVars
      <3>1. ClaimTyped' /\ RequestsFounded'
        BY <2>1 DEF claimVars, ClaimInv, ClaimTyped, RequestsFounded, Founded
      <3> QED
        BY <2>1, <3>1 DEF claimVars, ClaimInv, ToldOnce, TotalsFollow, DecisionStands, RecordStands
    <2>2. CASE ClaimNext
      BY <2>2, OpenKept, LinesKept, StatusKept, AsksKept, MissKept, TotalKept, DeadlineMoved, ReviewerKept,
         DeleteKept, BreachKept DEF ClaimNext
    <2> QED
      BY <2>1, <2>2
  <1> QED
    BY <1>1, <1>2, PTL DEF ClaimSpec

(* docs/claims.md:113-117, 136-137, 148-158: totals, decisions, the record and the deadline
   stay right, whatever the order of requests. *)
THEOREM ClaimStaysSound == ClaimSpec => []ClaimSound
PROOF
  <1>1. ClaimInv => ClaimSound
    <2> SUFFICES ASSUME ClaimInv PROVE ClaimSound
      OBVIOUS
    <2>1. claim.due \in 0 .. deadlines /\ deadlines \in 0 .. MaxDeadlines
      BY NumbersOfAClaim
    <2>2. /\ claim.status \in ClaimStatus /\ claim.lines \in [Subject -> LineState] /\ claim.total \in Total
          /\ \A p \in Staff : pending[p].op \in {"none", "total", "deadline", "reviewer", "delete"}
      BY NumbersOfAClaim DEF Claim, Request, ClaimInv, ClaimTyped
    <2>3. ClaimTypeOK
      BY <2>1, <2>2 DEF ClaimTypeOK, ClaimStatus, LineState, Total
    <2>4. DeadlineKept
      BY DEF ClaimInv, ToldOnce, DeadlineKept
    <2> QED
      BY <2>3, <2>4 DEF ClaimInv, ClaimSound
  <1> QED
    BY <1>1, ClaimInvariant, PTL

-----------------------------------------------------------------------------
(* A tracker and a fence *)

(* The crossings of any set T of times, of which those in I are inside. *)
Within(T, a, b) == {n \in T : a <= n /\ n <= b}
(* A time that comes right after one of the other side, or after none. *)
StartsAt(T, I, n) ==
    \A m \in T : m < n /\ Within(T, m, n) = {m, n} => ~(m \in I <=> n \in I)
(* Its side is held from then on, for the dwell time at least. *)
Holds(T, I, n, m) ==
    m >= n /\ m - n >= Dwell /\ \A k \in Within(T, n, m) : k \in I <=> n \in I
(* It begins a stay. *)
IsStay(T, I, n) ==
    /\ n \in T /\ StartsAt(T, I, n)
    /\ (\A m \in T : n <= m) \/ \E m \in T : Holds(T, I, n, m)
(* A stay on another side than the one before. *)
IsTurn(T, I, n) ==
    /\ IsStay(T, I, n)
    /\ \E m \in T : /\ IsStay(T, I, m) /\ m < n /\ ~(m \in I <=> n \in I)
                    /\ ~\E k \in T : IsStay(T, I, k) /\ m < k /\ k < n
(* When it had been held for long enough. *)
IsConfirmed(T, I, n, m) ==
    m \in T /\ Holds(T, I, n, m) /\ \A k \in T : Holds(T, I, n, k) => m <= k

(* The last stretch on one side. *)
LastRun(T, I, n) ==
    n \in T /\ StartsAt(T, I, n) /\ \A k \in T : k >= n => (k \in I <=> n \in I)

(* There is a last time before another. *)
LEMMA TimeBefore ==
    ASSUME NEW T, T \subseteq Nat, NEW n \in T, NEW a \in T, a < n
    PROVE  \E p \in T : a <= p /\ p < n /\ Within(T, p, n) = {p, n}
  <1> DEFINE D == {d \in Nat : d >= 1 /\ d <= n /\ n - d \in T}
  <1>1. n \in Nat /\ a \in Nat /\ n - a \in Nat /\ n - (n - a) = a /\ n - a >= 1 /\ n - a <= n
    OBVIOUS
  <1>2. n - a \in D
    BY <1>1
  <1>3. PICK d \in D : \A e \in D : d <= e
    BY <1>2, LeastNumber
  <1>4. d \in Nat /\ d >= 1 /\ d <= n /\ n - d \in T /\ d <= n - a
    BY <1>2, <1>3
  <1>5. PICK p \in T : p = n - d
    BY <1>4
  <1>6. p \in Nat /\ a <= p /\ p < n /\ d = n - p
    BY <1>1, <1>4, <1>5
  <1>7. ASSUME NEW k \in T, p < k, k < n
        PROVE  FALSE
    <2>1. k \in Nat /\ n - k \in Nat /\ n - k >= 1 /\ n - k <= n /\ n - (n - k) = k
      BY <1>1, <1>7
    <2>2. n - k \in D
      BY <2>1
    <2>3. d <= n - k
      BY <1>3, <2>2
    <2> HIDE DEF D
    <2> QED
      BY <1>1, <1>6, <1>7, <2>1, <2>3
  <1>8. Within(T, p, n) = {p, n}
    <2>1. \A k \in T : k \in Nat
      OBVIOUS
    <2> HIDE DEF D
    <2>2. \A k \in Within(T, p, n) : k = p \/ k = n
      BY <1>1, <1>6, <1>7, <2>1 DEF Within
    <2>3. p \in Within(T, p, n) /\ n \in Within(T, p, n)
      BY <1>1, <1>6 DEF Within
    <2> QED
      BY <2>2, <2>3
  <1> QED
    BY <1>6, <1>8

(* A time behind all others, and what it adds to those inside. *)
Later(T, I, at, U, J) ==
    /\ T \subseteq Nat /\ I \subseteq T /\ at \in Nat /\ \A n \in T : n < at
    /\ U = T \cup {at}
    /\ J \subseteq U /\ \A n \in T : n \in J <=> n \in I

(* It changes nothing about the times before. *)
LEMMA LaterKeeps ==
    ASSUME NEW T, NEW I, NEW at, NEW U, NEW J, Later(T, I, at, U, J), NEW n \in T
    PROVE  /\ \A m \in T : Within(U, m, n) = Within(T, m, n) /\ Within(U, n, m) = Within(T, n, m)
           /\ StartsAt(U, J, n) <=> StartsAt(T, I, n)
           /\ \A m \in T : Holds(U, J, n, m) <=> Holds(T, I, n, m)
           /\ \A m \in T : IsConfirmed(T, I, n, m) => IsConfirmed(U, J, n, m)
           /\ IsStay(T, I, n) => IsStay(U, J, n)
  <1>1. /\ \A k \in T : k \in Nat /\ k < at /\ k \in U
        /\ \A k \in U : k \in T \/ k = at
        /\ at \in Nat /\ at \notin T
    BY DEF Later
  <1>2. \A m \in T : Within(U, m, n) = Within(T, m, n) /\ Within(U, n, m) = Within(T, n, m)
    <2> SUFFICES ASSUME NEW m \in T
                 PROVE  Within(U, m, n) = Within(T, m, n) /\ Within(U, n, m) = Within(T, n, m)
      OBVIOUS
    <2>1. \A k \in U : (m <= k /\ k <= n) \/ (n <= k /\ k <= m) => k \in T
      BY <1>1
    <2>2. Within(U, m, n) = Within(T, m, n)
      BY <1>1, <2>1 DEF Within
    <2>3. Within(U, n, m) = Within(T, n, m)
      BY <1>1, <2>1 DEF Within
    <2> QED
      BY <2>2, <2>3
  <1>3. StartsAt(U, J, n) <=> StartsAt(T, I, n)
    <2>1. \A m \in T : (m \in J <=> m \in I) /\ (n \in J <=> n \in I)
      BY DEF Later
    <2>2. \A m \in U : m < n => m \in T
      BY <1>1
    <2>3. ASSUME StartsAt(U, J, n)
          PROVE  StartsAt(T, I, n)
      BY <1>1, <1>2, <2>1, <2>3 DEF StartsAt
    <2>4. ASSUME StartsAt(T, I, n)
          PROVE  StartsAt(U, J, n)
      BY <1>1, <1>2, <2>1, <2>2, <2>4 DEF StartsAt
    <2> QED
      BY <2>3, <2>4
  <1>4. \A m \in T : Holds(U, J, n, m) <=> Holds(T, I, n, m)
    <2> SUFFICES ASSUME NEW m \in T
                 PROVE  Holds(U, J, n, m) <=> Holds(T, I, n, m)
      OBVIOUS
    <2>1. \A k \in Within(T, n, m) : (k \in J <=> k \in I) /\ (n \in J <=> n \in I)
      BY DEF Later, Within
    <2> QED
      BY <1>2, <2>1 DEF Holds
  <1>5. \A m \in T : IsConfirmed(T, I, n, m) => IsConfirmed(U, J, n, m)
    <2> SUFFICES ASSUME NEW m \in T, IsConfirmed(T, I, n, m)
                 PROVE  IsConfirmed(U, J, n, m)
      OBVIOUS
    <2>1. m \in U /\ Holds(U, J, n, m)
      BY <1>1, <1>4 DEF IsConfirmed
    <2>2. \A k \in U : Holds(U, J, n, k) => m <= k
      BY <1>1, <1>4 DEF IsConfirmed
    <2> QED
      BY <2>1, <2>2 DEF IsConfirmed
  <1>6. IsStay(T, I, n) => IsStay(U, J, n)
    <2> SUFFICES ASSUME IsStay(T, I, n)
                 PROVE  IsStay(U, J, n)
      OBVIOUS
    <2>1. n \in U /\ StartsAt(U, J, n)
      BY <1>1, <1>3 DEF IsStay
    <2>2. CASE \A m \in T : n <= m
      <3>1. \A m \in U : n <= m
        BY <1>1, <2>2
      <3> QED
        BY <2>1, <3>1 DEF IsStay
    <2>3. CASE \E m \in T : Holds(T, I, n, m)
      BY <1>1, <1>4, <2>1, <2>3 DEF IsStay
    <2> QED
      BY <2>2, <2>3 DEF IsStay
  <1> QED
    BY <1>2, <1>3, <1>4, <1>5, <1>6

(* Where the last stretch begins then. *)
RunStart(I, L, at, J) == IF (at \in J <=> L \in I) THEN L ELSE at

(* The last stretch goes on with a later time, or begins anew there. *)
LEMMA LaterRun ==
    ASSUME NEW T, NEW I, NEW at, NEW U, NEW J, Later(T, I, at, U, J), NEW L, LastRun(T, I, L),
           NEW R, R = RunStart(I, L, at, J)
    PROVE  /\ LastRun(U, J, R) /\ L <= R /\ R <= at /\ (R \in J <=> at \in J)
           /\ R \in T => R = L /\ (L \in J <=> L \in I)
           /\ R \notin T => R = at
  <1>1. /\ \A k \in T : k \in Nat /\ k < at /\ k \in U /\ (k \in J <=> k \in I)
        /\ \A k \in U : k \in T \/ k = at
        /\ at \in Nat /\ at \notin T /\ at \in U
    BY DEF Later
  <1>2. L \in T /\ StartsAt(T, I, L) /\ \A k \in T : k >= L => (k \in I <=> L \in I)
    BY DEF LastRun
  <1>3. CASE (at \in J <=> L \in I)
    <2>1. R = L
      BY <1>3 DEF RunStart
    <2>2. StartsAt(U, J, L)
      BY <1>2, LaterKeeps
    <2>3. \A k \in U : k >= L => (k \in J <=> L \in J)
      BY <1>1, <1>2, <1>3
    <2>4. LastRun(U, J, L)
      BY <1>1, <1>2, <2>2, <2>3 DEF LastRun
    <2> QED
      BY <1>1, <1>2, <1>3, <2>1, <2>4
  <1>4. CASE ~(at \in J <=> L \in I)
    <2>1. R = at
      BY <1>4 DEF RunStart
    <2>2. StartsAt(U, J, at)
      <3> SUFFICES ASSUME NEW m \in U, m < at, Within(U, m, at) = {m, at}
                   PROVE  ~(m \in J <=> at \in J)
        BY DEF StartsAt
      <3>1. m \in T
        BY <1>1
      <3>2. m >= L
        <4> SUFFICES ASSUME m < L
                     PROVE  FALSE
          BY <1>1, <1>2, <3>1
        <4>1. L \in Within(U, m, at)
          BY <1>1, <1>2, <3>1 DEF Within
        <4> QED
          BY <1>1, <1>2, <3>1, <4>1
      <3> QED
        BY <1>1, <1>2, <1>4, <3>1, <3>2
    <2>3. \A k \in U : k >= at => (k \in J <=> at \in J)
      BY <1>1
    <2>4. LastRun(U, J, at)
      BY <1>1, <2>2, <2>3 DEF LastRun
    <2> QED
      BY <1>1, <1>2, <2>1, <2>4
  <1> QED
    BY <1>3, <1>4

(* The stays are those before, and the last stretch once it has lasted. *)
LEMMA LaterStays ==
    ASSUME NEW T, NEW I, NEW at, NEW U, NEW J, Later(T, I, at, U, J), NEW L, LastRun(T, I, L),
           NEW R, R = RunStart(I, L, at, J)
    PROVE  \A n \in U : IsStay(U, J, n) <=> IsStay(T, I, n) \/ (n = R /\ at - R >= Dwell)
  <1>1. /\ \A k \in T : k \in Nat /\ k < at /\ k \in U
        /\ \A k \in U : k \in T \/ k = at
        /\ at \in Nat /\ at \in U /\ U \subseteq Nat /\ L \in T
    BY DEF Later, LastRun
  <1>2. /\ LastRun(U, J, R) /\ R <= at /\ (R \in J <=> at \in J)
        /\ R \in T => R = L
    BY LaterRun
  <1>3. R \in U /\ StartsAt(U, J, R) /\ \A k \in U : k >= R => (k \in J <=> R \in J)
    BY <1>2 DEF LastRun
  <1>4. ASSUME NEW n \in U, IsStay(U, J, n)
        PROVE  IsStay(T, I, n) \/ (n = R /\ at - R >= Dwell)
    <2>1. StartsAt(U, J, n) /\ ((\A m \in U : n <= m) \/ \E m \in U : Holds(U, J, n, m))
      BY <1>4 DEF IsStay
    <2>2. ~(R < n)
      <3> SUFFICES ASSUME R < n
                   PROVE  FALSE
        OBVIOUS
      <3>1. PICK p \in U : R <= p /\ p < n /\ Within(U, p, n) = {p, n}
        BY <1>1, <1>3, TimeBefore
      <3>2. ~(p \in J <=> n \in J)
        BY <2>1, <3>1 DEF StartsAt
      <3>3. p >= R /\ n >= R
        BY <1>1, <1>3, <3>1
      <3> QED
        BY <1>3, <3>2, <3>3
    <2>3. CASE \E m \in T : n \in T /\ Holds(U, J, n, m)
      <3>1. PICK m \in T : n \in T /\ Holds(U, J, n, m)
        BY <2>3
      <3>2. Holds(T, I, n, m) /\ StartsAt(T, I, n)
        BY <2>1, <3>1, LaterKeeps
      <3> QED
        BY <3>1, <3>2 DEF IsStay
    <2>4. CASE \A m \in U : n <= m
      <3>1. n \in T
        BY <1>1, <2>4
      <3>2. StartsAt(T, I, n) /\ \A m \in T : n <= m
        BY <1>1, <2>1, <2>4, <3>1, LaterKeeps
      <3> QED
        BY <3>1, <3>2 DEF IsStay
    <2>5. CASE Holds(U, J, n, at)
      <3>1. at - n >= Dwell /\ \A k \in Within(U, n, at) : k \in J <=> n \in J
        BY <2>5 DEF Holds
      <3>2. ~(n < R)
        <4> SUFFICES ASSUME n < R
                     PROVE  FALSE
          OBVIOUS
        <4>1. PICK p \in U : n <= p /\ p < R /\ Within(U, p, R) = {p, R}
          BY <1>1, <1>3, TimeBefore
        <4>2. ~(p \in J <=> R \in J)
          BY <1>3, <4>1 DEF StartsAt
        <4>3. p \in Within(U, n, at) /\ R \in Within(U, n, at)
          BY <1>1, <1>2, <1>3, <4>1 DEF Within
        <4> QED
          BY <3>1, <4>2, <4>3
      <3>3. n = R
        BY <1>1, <1>3, <2>2, <3>2
      <3> QED
        BY <3>1, <3>3
    <2>6. ASSUME NEW m \in U, Holds(U, J, n, m), ~(n \in T /\ m \in T)
          PROVE  m = at
      <3>1. m >= n
        BY <2>6 DEF Holds
      <3> QED
        BY <1>1, <2>6, <3>1
    <2> QED
      BY <1>1, <2>1, <2>3, <2>4, <2>5, <2>6
  <1>5. ASSUME at - R >= Dwell
        PROVE  IsStay(U, J, R)
    <2>1. \A k \in Within(U, R, at) : k \in J <=> R \in J
      BY <1>1, <1>3 DEF Within
    <2>2. Holds(U, J, R, at)
      BY <1>1, <1>2, <1>3, <1>5, <2>1 DEF Holds
    <2> QED
      BY <1>1, <1>3, <2>2 DEF IsStay
  <1>6. \A n \in U : IsStay(T, I, n) => IsStay(U, J, n)
    <2>1. \A n \in U : IsStay(T, I, n) => n \in T
      BY DEF IsStay
    <2> QED
      BY <2>1, LaterKeeps
  <1> QED
    BY <1>4, <1>5, <1>6

(* The last stay. *)
LastStay(T, I, P) == IsStay(T, I, P) /\ \A k \in T : IsStay(T, I, k) => k <= P

(* A stay turns if it is on another side than the last stay before it. *)
LEMMA LaterTurns ==
    ASSUME NEW T, NEW I, NEW at, NEW U, NEW J, Later(T, I, at, U, J), NEW L, LastRun(T, I, L),
           NEW R, R = RunStart(I, L, at, J), NEW P, LastStay(T, I, P), P <= L
    PROVE  \A n \in U : IsTurn(U, J, n)
               <=> IsTurn(T, I, n) \/ (n = R /\ at - R >= Dwell /\ ~(R \in J <=> P \in I))
  <1>1. /\ \A k \in T : k \in Nat /\ k < at /\ k \in U /\ (k \in J <=> k \in I)
        /\ \A k \in U : k \in T \/ k = at
        /\ at \in Nat /\ at \in U /\ U \subseteq Nat /\ L \in T
    BY DEF Later, LastRun
  <1>2. L <= R /\ R \in U
    <2>1. LastRun(U, J, R) /\ L <= R
      BY LaterRun
    <2> QED
      BY <2>1 DEF LastRun
  <1>3. \A n \in U : IsStay(U, J, n) <=> IsStay(T, I, n) \/ (n = R /\ at - R >= Dwell)
    BY LaterStays
  <1>4. \A n : IsStay(T, I, n) => n \in T /\ n \in U /\ n <= P
    <2>1. \A n : IsStay(T, I, n) => n \in T
      BY DEF IsStay
    <2> QED
      BY <1>1, <2>1 DEF LastStay
  <1>5. P \in T /\ IsStay(T, I, P) /\ P <= R
    <2>1. IsStay(T, I, P)
      BY DEF LastStay
    <2>2. P \in T
      BY <1>4, <2>1
    <2> QED
      BY <1>1, <1>2, <2>1, <2>2
  <1>6. \A n : IsStay(T, I, n) => n <= R
    BY <1>1, <1>2, <1>4, <1>5
  <1>7. ASSUME NEW n \in U, IsStay(T, I, n)
        PROVE  IsTurn(U, J, n) <=> IsTurn(T, I, n)
    <2>1. n \in T /\ n <= R
      BY <1>4, <1>6, <1>7
    <2>2. \A m \in U : m < n => (IsStay(U, J, m) <=> m \in T /\ IsStay(T, I, m))
      BY <1>1, <1>2, <1>3, <1>4, <2>1
    <2>3. ASSUME IsTurn(U, J, n)
          PROVE  IsTurn(T, I, n)
      <3>1. PICK m \in U : /\ IsStay(U, J, m) /\ m < n /\ ~(m \in J <=> n \in J)
                           /\ ~\E k \in U : IsStay(U, J, k) /\ m < k /\ k < n
        BY <2>3 DEF IsTurn
      <3>2. m \in T /\ IsStay(T, I, m) /\ ~(m \in I <=> n \in I)
        BY <1>1, <2>1, <2>2, <3>1
      <3>3. ~\E k \in T : IsStay(T, I, k) /\ m < k /\ k < n
        BY <1>1, <1>3, <3>1
      <3> QED
        BY <1>7, <3>1, <3>2, <3>3 DEF IsTurn
    <2>4. ASSUME IsTurn(T, I, n)
          PROVE  IsTurn(U, J, n)
      <3>1. PICK m \in T : /\ IsStay(T, I, m) /\ m < n /\ ~(m \in I <=> n \in I)
                           /\ ~\E k \in T : IsStay(T, I, k) /\ m < k /\ k < n
        BY <2>4 DEF IsTurn
      <3>2. m \in U /\ IsStay(U, J, m) /\ ~(m \in J <=> n \in J)
        BY <1>1, <1>3, <2>1, <3>1
      <3>3. ~\E k \in U : IsStay(U, J, k) /\ m < k /\ k < n
        BY <1>1, <2>2, <3>1
      <3>4. IsStay(U, J, n)
        BY <1>3, <1>7
      <3> QED
        BY <3>1, <3>2, <3>3, <3>4 DEF IsTurn
    <2> QED
      BY <2>3, <2>4
  <1>8. ASSUME at - R >= Dwell, ~IsStay(T, I, R)
        PROVE  IsTurn(U, J, R) <=> ~(R \in J <=> P \in I)
    <2>1. P < R /\ P \in U /\ IsStay(U, J, P) /\ IsStay(U, J, R) /\ (P \in J <=> P \in I)
      BY <1>1, <1>2, <1>3, <1>5, <1>8
    <2>2. \A k \in U : IsStay(U, J, k) /\ k < R => k <= P
      BY <1>1, <1>2, <1>3, <1>4
    <2>3. ASSUME IsTurn(U, J, R)
          PROVE  ~(R \in J <=> P \in I)
      <3>1. PICK m \in U : /\ IsStay(U, J, m) /\ m < R /\ ~(m \in J <=> R \in J)
                           /\ ~\E k \in U : IsStay(U, J, k) /\ m < k /\ k < R
        BY <2>3 DEF IsTurn
      <3>2. m <= P /\ ~(m < P)
        BY <2>1, <2>2, <3>1
      <3>3. m = P
        BY <1>1, <1>5, <3>1, <3>2
      <3> QED
        BY <2>1, <3>1, <3>3
    <2>4. ASSUME ~(R \in J <=> P \in I)
          PROVE  IsTurn(U, J, R)
      <3>1. ~\E k \in U : IsStay(U, J, k) /\ P < k /\ k < R
        BY <1>1, <1>5, <2>2
      <3> QED
        BY <1>2, <2>1, <2>4, <3>1 DEF IsTurn
    <2> QED
      BY <2>3, <2>4
  <1>9. IsStay(T, I, R) => (R \in J <=> P \in I)
    <2> SUFFICES ASSUME IsStay(T, I, R)
                 PROVE  R \in J <=> P \in I
      OBVIOUS
    <2>1. R \in T /\ R <= P
      BY <1>4
    <2>2. R = P
      BY <1>1, <1>5, <2>1
    <2> QED
      BY <1>1, <1>5, <2>2
  <1>10. \A n \in U : IsTurn(U, J, n) => IsStay(U, J, n)
    BY DEF IsTurn
  <1>11. \A n \in U : IsTurn(T, I, n) => IsStay(T, I, n)
    BY DEF IsTurn
  <1> QED
    BY <1>3, <1>7, <1>8, <1>9, <1>10, <1>11

(* Which side the dwell rule is on, and since when it waits for another. *)
Follows(T, I, inside, waits) ==
    \E L \in T, P \in T :
        /\ LastRun(T, I, L) /\ LastStay(T, I, P) /\ P <= L
        /\ inside <=> P \in I
        /\ waits = IF (L \in I <=> P \in I) THEN Never ELSE L

(* Each turn is announced once, as it was. *)
Announced(ev, T, I) ==
    /\ \A i \in DOMAIN ev :
          /\ IsTurn(T, I, ev[i].occurredAt)
          /\ IsConfirmed(T, I, ev[i].occurredAt, ev[i].confirmedAt)
          /\ ev[i] = [kind |-> IF ev[i].occurredAt \in I THEN "entered" ELSE "exited",
                      occurredAt |-> ev[i].occurredAt, confirmedAt |-> ev[i].confirmedAt]
    /\ \A n \in T : IsTurn(T, I, n) => \E i \in DOMAIN ev : ev[i].occurredAt = n
    /\ \A i, j \in DOMAIN ev : ev[i].occurredAt = ev[j].occurredAt => i = j

(* An entry or an exit. *)
Crossing == [kind : {"entered", "exited"}, occurredAt : Time, confirmedAt : Time]

(* What was announced stays announced when nothing turns. *)
LEMMA AnnouncedStays ==
    ASSUME NEW T, NEW I, NEW at, NEW U, NEW J, Later(T, I, at, U, J), NEW ev, Announced(ev, T, I),
           \A n \in U : IsTurn(U, J, n) <=> IsTurn(T, I, n)
    PROVE  Announced(ev, U, J)
  <1>1. \A n \in T : n \in U /\ (n \in J <=> n \in I)
    BY DEF Later
  <1>2. \A n : IsTurn(T, I, n) => n \in T
    BY DEF IsTurn, IsStay
  <1>3. \A n, m : IsTurn(T, I, n) /\ IsConfirmed(T, I, n, m) => IsConfirmed(U, J, n, m)
    <2> SUFFICES ASSUME NEW n, NEW m, IsTurn(T, I, n), IsConfirmed(T, I, n, m)
                 PROVE  IsConfirmed(U, J, n, m)
      OBVIOUS
    <2>1. n \in T /\ m \in T
      BY <1>2 DEF IsConfirmed
    <2> QED
      BY <2>1, LaterKeeps
  <1>4. \A i \in DOMAIN ev :
          /\ IsTurn(U, J, ev[i].occurredAt)
          /\ IsConfirmed(U, J, ev[i].occurredAt, ev[i].confirmedAt)
          /\ ev[i] = [kind |-> IF ev[i].occurredAt \in J THEN "entered" ELSE "exited",
                      occurredAt |-> ev[i].occurredAt, confirmedAt |-> ev[i].confirmedAt]
    <2> SUFFICES ASSUME NEW i \in DOMAIN ev
                 PROVE  /\ IsTurn(U, J, ev[i].occurredAt)
                        /\ IsConfirmed(U, J, ev[i].occurredAt, ev[i].confirmedAt)
                        /\ ev[i] = [kind |-> IF ev[i].occurredAt \in J THEN "entered" ELSE "exited",
                                    occurredAt |-> ev[i].occurredAt, confirmedAt |-> ev[i].confirmedAt]
      OBVIOUS
    <2>1. PICK n : n = ev[i].occurredAt
      OBVIOUS
    <2>2. PICK m : m = ev[i].confirmedAt
      OBVIOUS
    <2>3. /\ IsTurn(T, I, n) /\ IsConfirmed(T, I, n, m)
          /\ ev[i] = [kind |-> IF n \in I THEN "entered" ELSE "exited", occurredAt |-> n, confirmedAt |-> m]
      BY <2>1, <2>2 DEF Announced
    <2>4. n \in T /\ n \in U /\ (n \in J <=> n \in I)
      BY <1>1, <1>2, <2>3
    <2> QED
      BY <1>3, <2>1, <2>2, <2>3, <2>4
  <1>5. \A n \in U : IsTurn(U, J, n) => \E i \in DOMAIN ev : ev[i].occurredAt = n
    BY <1>2 DEF Announced
  <1>6. \A i, j \in DOMAIN ev : ev[i].occurredAt = ev[j].occurredAt => i = j
    BY DEF Announced
  <1> QED
    BY <1>4, <1>5, <1>6 DEF Announced

(* What the last stretch and the last stay are then. *)
LEMMA LaterLast ==
    ASSUME NEW T, NEW I, NEW at, NEW U, NEW J, Later(T, I, at, U, J), NEW L, LastRun(T, I, L),
           NEW R, R = RunStart(I, L, at, J), NEW P, LastStay(T, I, P), P <= L
    PROVE  /\ at - R >= Dwell => LastStay(U, J, R) /\ R <= R
           /\ ~(at - R >= Dwell) => LastStay(U, J, P) /\ P <= R
           /\ P \in T /\ P \in U /\ R \in U /\ (P \in J <=> P \in I) /\ (R \in J <=> at \in J)
  <1>1. /\ \A k \in T : k \in Nat /\ k < at /\ k \in U /\ (k \in J <=> k \in I)
        /\ at \in Nat /\ U \subseteq Nat /\ L \in T
    BY DEF Later, LastRun
  <1>2. LastRun(U, J, R) /\ L <= R /\ (R \in J <=> at \in J)
    BY LaterRun
  <1>3. R \in U /\ R \in Nat
    BY <1>1, <1>2 DEF LastRun
  <1>4. \A n \in U : IsStay(U, J, n) <=> IsStay(T, I, n) \/ (n = R /\ at - R >= Dwell)
    BY LaterStays
  <1>5. IsStay(T, I, P) /\ P \in T /\ \A k \in T : IsStay(T, I, k) => k <= P
    BY DEF LastStay, IsStay
  <1>6. \A k : IsStay(T, I, k) => k \in T
    BY DEF IsStay
  <1>7. \A k \in U : IsStay(T, I, k) => k <= P /\ k <= R
    BY <1>1, <1>2, <1>3, <1>5, <1>6
  <1>8. P <= R /\ P \in U
    BY <1>1, <1>2, <1>3, <1>5
  <1>9. ASSUME at - R >= Dwell
        PROVE  LastStay(U, J, R) /\ R <= R
    <2>1. IsStay(U, J, R) /\ R <= R
      BY <1>3, <1>4, <1>9
    <2>2. \A k \in U : IsStay(U, J, k) => k <= R
      BY <1>4, <1>7, <2>1
    <2> QED
      BY <2>1, <2>2 DEF LastStay
  <1>10. ASSUME ~(at - R >= Dwell)
         PROVE  LastStay(U, J, P)
    BY <1>4, <1>5, <1>7, <1>8, <1>10 DEF LastStay
  <1> QED
    BY <1>1, <1>2, <1>3, <1>5, <1>8, <1>9, <1>10

(* The first time counts at once, and announces nothing. *)
LEMMA FollowsFirst ==
    ASSUME NEW at \in Nat, NEW U, U = {at}, NEW J, J \subseteq U, NEW b, b <=> at \in J
    PROVE  Follows(U, J, b, Never) /\ Announced(<<>>, U, J)
  <1>1. StartsAt(U, J, at)
    BY DEF StartsAt
  <1>2. LastRun(U, J, at)
    BY <1>1 DEF LastRun
  <1>3. LastStay(U, J, at)
    BY <1>1 DEF LastStay, IsStay
  <1>4. Follows(U, J, b, Never)
    BY <1>2, <1>3 DEF Follows
  <1>5. \A n \in U : ~IsTurn(U, J, n)
    BY DEF IsTurn
  <1> QED
    BY <1>4, <1>5 DEF Announced

(* Back on the side it is on. *)
LEMMA FollowsSame ==
    ASSUME NEW T, NEW I, NEW at, NEW U, NEW J, Later(T, I, at, U, J), NEW inside, NEW waits,
           Follows(T, I, inside, waits), NEW ev, Announced(ev, T, I), at \in J <=> inside
    PROVE  Follows(U, J, inside, Never) /\ Announced(ev, U, J)
  <1>1. PICK L \in T, P \in T :
          /\ LastRun(T, I, L) /\ LastStay(T, I, P) /\ P <= L
          /\ inside <=> P \in I
    BY DEF Follows
  <1>2. PICK R : R = RunStart(I, L, at, J)
    OBVIOUS
  <1>3. /\ LastRun(U, J, R)
        /\ at - R >= Dwell => LastStay(U, J, R) /\ R <= R
        /\ ~(at - R >= Dwell) => LastStay(U, J, P) /\ P <= R
        /\ P \in U /\ R \in U /\ (P \in J <=> P \in I) /\ (R \in J <=> at \in J)
    BY <1>1, <1>2, LaterRun, LaterLast
  <1>4. Follows(U, J, inside, Never)
    BY <1>1, <1>3 DEF Follows
  <1>5. \A n \in U : IsTurn(U, J, n) <=> IsTurn(T, I, n)
    <2>1. \A n \in U : IsTurn(U, J, n)
               <=> IsTurn(T, I, n) \/ (n = R /\ at - R >= Dwell /\ ~(R \in J <=> P \in I))
      BY <1>1, <1>2, LaterTurns
    <2> QED
      BY <1>1, <1>3, <2>1
  <1>6. Announced(ev, U, J)
    BY <1>5, AnnouncedStays
  <1> QED
    BY <1>4, <1>6

(* Since when it waits, and what becomes of it then. *)
Since(waits, at) == IF waits = Never THEN at ELSE waits
(* It goes on waiting, or turns. *)
TurnsOrWaits(T, I, at, U, J, inside, b, since, ev) ==
    /\ since \in U
    /\ ~(at - since >= Dwell) => Follows(U, J, inside, since) /\ Announced(ev, U, J)
    /\ at - since >= Dwell =>
         /\ Follows(U, J, b, Never)
         /\ since \in J <=> at \in J
         /\ IsTurn(U, J, since) /\ ~IsTurn(T, I, since) /\ IsConfirmed(U, J, since, at)
         /\ \A n \in U : IsTurn(U, J, n) <=> IsTurn(T, I, n) \/ n = since

(* On the other side: it waits since the last stretch began, until that has lasted. *)
LEMMA FollowsOther ==
    ASSUME NEW T, NEW I, NEW at, NEW U, NEW J, Later(T, I, at, U, J), T \subseteq Time, NEW inside, NEW waits,
           Follows(T, I, inside, waits), NEW ev, Announced(ev, T, I), ~(at \in J <=> inside),
           NEW b, b <=> at \in J, NEW since, since = Since(waits, at)
    PROVE  TurnsOrWaits(T, I, at, U, J, inside, b, since, ev)
  <1>1. PICK L \in T, P \in T :
          /\ LastRun(T, I, L) /\ LastStay(T, I, P) /\ P <= L
          /\ inside <=> P \in I
          /\ waits = IF (L \in I <=> P \in I) THEN Never ELSE L
    BY DEF Follows
  <1>2. PICK R : R = RunStart(I, L, at, J)
    OBVIOUS
  <1>3. /\ LastRun(U, J, R) /\ R <= at
        /\ at - R >= Dwell => LastStay(U, J, R) /\ R <= R
        /\ ~(at - R >= Dwell) => LastStay(U, J, P) /\ P <= R
        /\ P \in U /\ R \in U /\ (P \in J <=> P \in I) /\ (R \in J <=> at \in J)
        /\ R \in T => R = L
        /\ R \notin T => R = at
    BY <1>1, <1>2, LaterRun, LaterLast
  <1>4. since = R
    <2>1. L # Never
      BY DEF Never, Time
    <2> QED
      BY <1>1, <1>2, <2>1 DEF RunStart, Since
  <1>5. \A n \in U : IsTurn(U, J, n) <=> IsTurn(T, I, n) \/ (n = R /\ at - R >= Dwell)
    <2>1. \A n \in U : IsTurn(U, J, n)
               <=> IsTurn(T, I, n) \/ (n = R /\ at - R >= Dwell /\ ~(R \in J <=> P \in I))
      BY <1>1, <1>2, LaterTurns
    <2> QED
      BY <1>1, <1>3, <2>1
  <1>6. ASSUME ~(at - R >= Dwell)
        PROVE  Follows(U, J, inside, R) /\ Announced(ev, U, J)
    <2>1. Follows(U, J, inside, R)
      BY <1>1, <1>3, <1>6 DEF Follows
    <2>2. \A n \in U : IsTurn(U, J, n) <=> IsTurn(T, I, n)
      BY <1>5, <1>6
    <2>3. Announced(ev, U, J)
      BY <2>2, AnnouncedStays
    <2> QED
      BY <2>1, <2>3
  <1>7. ASSUME at - R >= Dwell
        PROVE  /\ Follows(U, J, b, Never)
               /\ IsTurn(U, J, R) /\ ~IsTurn(T, I, R) /\ IsConfirmed(U, J, R, at)
    <2>1. /\ \A k \in T : k \in Nat /\ k < at
          /\ \A k \in U : k \in T \/ k = at
          /\ at \in Nat /\ at \in U /\ U \subseteq Nat
      BY DEF Later
    <2>2. Follows(U, J, b, Never)
      BY <1>3, <1>7 DEF Follows
    <2>3. ~IsStay(T, I, R)
      <3> SUFFICES ASSUME IsStay(T, I, R)
                   PROVE  FALSE
        OBVIOUS
      <3>1. R \in T /\ R <= P
        BY <1>1 DEF IsStay, LastStay
      <3>2. R = L /\ P <= R /\ P \in Nat /\ R \in Nat
        BY <1>1, <1>3, <2>1, <3>1
      <3>3. R = P
        BY <3>1, <3>2
      <3> QED
        BY <1>1, <1>3, <3>2, <3>3
    <2>4. ~IsTurn(T, I, R)
      BY <2>3 DEF IsTurn
    <2>5. Holds(U, J, R, at)
      <3>1. \A k \in U : k >= R => (k \in J <=> R \in J)
        BY <1>3 DEF LastRun
      <3>2. \A k \in Within(U, R, at) : k \in J <=> R \in J
        BY <2>1, <3>1 DEF Within
      <3> QED
        BY <1>3, <1>7, <2>1, <3>2 DEF Holds
    <2>6. ASSUME NEW k \in U, Holds(U, J, R, k)
          PROVE  at <= k
      <3> SUFFICES ASSUME k \in T
                   PROVE  FALSE
        BY <2>1
      <3>1. k >= R
        BY <2>6 DEF Holds
      <3>2. R \in T
        BY <1>3, <2>1, <3>1
      <3>3. StartsAt(T, I, R)
        BY <1>1, <1>3, <3>2 DEF LastRun
      <3>4. Holds(T, I, R, k)
        BY <2>6, <3>2, LaterKeeps
      <3>5. IsStay(T, I, R)
        BY <3>2, <3>3, <3>4 DEF IsStay
      <3> QED
        BY <2>3, <3>5
    <2>7. IsConfirmed(U, J, R, at)
      BY <2>1, <2>5, <2>6 DEF IsConfirmed
    <2> QED
      BY <1>3, <1>5, <1>7, <2>2, <2>4, <2>7
  <1> QED
    BY <1>3, <1>4, <1>5, <1>6, <1>7 DEF TurnsOrWaits

(* A turn is announced behind the others. *)
LEMMA AnnouncedNext ==
    ASSUME NEW T, NEW I, NEW at, NEW U, NEW J, Later(T, I, at, U, J), U \subseteq Time,
           NEW ev \in Seq(Crossing), Announced(ev, T, I),
           NEW n \in U, \A k \in U : IsTurn(U, J, k) <=> IsTurn(T, I, k) \/ k = n,
           IsTurn(U, J, n), ~IsTurn(T, I, n), IsConfirmed(U, J, n, at), n \in J <=> at \in J,
           NEW e, e = [kind |-> IF at \in J THEN "entered" ELSE "exited", occurredAt |-> n, confirmedAt |-> at],
           NEW all, all = Append(ev, e)
    PROVE  Announced(all, U, J) /\ all \in Seq(Crossing)
  <1>1. at \in U /\ e \in Crossing
    <2>1. at \in U
      BY DEF Later
    <2> QED
      BY <2>1 DEF Crossing
  <1>2. /\ all \in Seq(Crossing) /\ Len(ev) \in Nat /\ Len(all) = Len(ev) + 1 /\ all[Len(ev) + 1] = e
        /\ DOMAIN ev = 1 .. Len(ev) /\ DOMAIN all = 1 .. Len(all)
    BY <1>1
  <1>3. \A i \in DOMAIN ev : all[i] = ev[i] /\ i \in DOMAIN all
    BY <1>1
  <1>4. PICK l \in Nat : l = Len(ev) + 1
    BY <1>2
  <1>5. /\ \A i \in DOMAIN all : i \in DOMAIN ev \/ i = l
        /\ l \in DOMAIN all /\ l \notin DOMAIN ev /\ all[l] = e
    BY <1>2, <1>4
  <1>6. \A k \in T : k \in U /\ (k \in J <=> k \in I)
    BY DEF Later
  <1>7. \A k : IsTurn(T, I, k) => k \in T
    BY DEF IsTurn, IsStay
  <1>8. ASSUME NEW i \in DOMAIN all
        PROVE  /\ IsTurn(U, J, all[i].occurredAt)
               /\ IsConfirmed(U, J, all[i].occurredAt, all[i].confirmedAt)
               /\ all[i] = [kind |-> IF all[i].occurredAt \in J THEN "entered" ELSE "exited",
                            occurredAt |-> all[i].occurredAt, confirmedAt |-> all[i].confirmedAt]
    <2>1. CASE i = l
      <3>1. all[i] = e /\ e.occurredAt = n /\ e.confirmedAt = at
        BY <1>5, <2>1
      <3>2. e = [kind |-> IF n \in J THEN "entered" ELSE "exited", occurredAt |-> n, confirmedAt |-> at]
        OBVIOUS
      <3> QED
        BY <3>1, <3>2
    <2>2. CASE i \in DOMAIN ev
      <3>1. PICK k : k = ev[i].occurredAt
        OBVIOUS
      <3>2. PICK m : m = ev[i].confirmedAt
        OBVIOUS
      <3>3. /\ IsTurn(T, I, k) /\ IsConfirmed(T, I, k, m)
            /\ ev[i] = [kind |-> IF k \in I THEN "entered" ELSE "exited", occurredAt |-> k, confirmedAt |-> m]
        BY <2>2, <3>1, <3>2 DEF Announced
      <3>4. k \in T /\ k \in U /\ (k \in J <=> k \in I) /\ m \in T
        BY <1>6, <1>7, <3>3 DEF IsConfirmed
      <3>5. IsConfirmed(U, J, k, m)
        BY <3>3, <3>4, LaterKeeps
      <3>6. all[i] = ev[i] /\ IsTurn(U, J, k)
        BY <1>3, <2>2, <3>3, <3>4
      <3> QED
        BY <3>1, <3>2, <3>3, <3>4, <3>5, <3>6
    <2> QED
      BY <1>5, <2>1, <2>2
  <1>9. ASSUME NEW k \in U, IsTurn(U, J, k)
        PROVE  \E i \in DOMAIN all : all[i].occurredAt = k
    <2>1. CASE k = n
      BY <1>5, <2>1
    <2>2. CASE IsTurn(T, I, k)
      <3>1. PICK i \in DOMAIN ev : ev[i].occurredAt = k
        BY <1>7, <2>2 DEF Announced
      <3> QED
        BY <1>3, <3>1
    <2> QED
      BY <1>9, <2>1, <2>2
  <1>10. ASSUME NEW i \in DOMAIN all, NEW j \in DOMAIN all, all[i].occurredAt = all[j].occurredAt
         PROVE  i = j
    <2>1. \A x \in DOMAIN ev : IsTurn(T, I, all[x].occurredAt) /\ all[x] = ev[x]
      BY <1>3 DEF Announced
    <2>2. all[l].occurredAt = n
      BY <1>5
    <2>3. CASE i \in DOMAIN ev /\ j \in DOMAIN ev
      BY <1>10, <2>1, <2>3 DEF Announced
    <2>4. CASE i = l /\ j = l
      BY <2>4
    <2> QED
      BY <1>5, <1>10, <2>1, <2>2, <2>3, <2>4
  <1> QED
    BY <1>2, <1>8, <1>9, <1>10 DEF Announced

(* The values a plan holds. *)
Moment == {Never} \cup Time
(* What is known of a tracker. *)
Memory == [last : Moment, streak : 0 .. REANCHOR_AFTER - 1, rejected : Moment, evaluatedAt : Nat]
(* A side of the fence, as it is stored or planned. *)
Side == [there : BOOLEAN, inside : BOOLEAN, pending : Moment]
(* A drawing of the fence. *)
Drawing == [drawn : Nat, on : BOOLEAN, region : Region]
(* What a batch plans. *)
PlanType == [memory : Memory, side : Side, crossings : Seq(Crossing), accepted : SUBSET Time,
             touched : BOOLEAN, unlearned : BOOLEAN]
(* A plan in which nothing waits on a side that is not known. *)
IsPlan(p) == p \in PlanType /\ (p.side.inside \/ p.side.pending # Never => p.side.there)

(* What a fix is tested on. *)
KnownSide(s) == IF s.there THEN s ELSE OUTSIDE

(* A believed fix comes behind those before it; another changes nothing but the doubts. *)
LEMMA Screens ==
    ASSUME NEW m \in Memory, NEW path, NEW at \in Time, NEW r, r = screenFix(m, path, at)
    PROVE  /\ r.state \in Memory /\ r.state.evaluatedAt = m.evaluatedAt
           /\ r.verdict = "accept" => at > m.last /\ r.state.last = at
           /\ r.verdict # "accept" => r.state.last = m.last
  <1>1. /\ m.last \in Moment /\ m.streak \in 0 .. REANCHOR_AFTER - 1 /\ REANCHOR_AFTER \in Nat \ {0}
        /\ at \in Nat \ {0} /\ at \in Moment /\ Never \in Moment /\ m.rejected \in Moment
        /\ m.evaluatedAt \in Nat
    BY GeofenceAssumption DEF Memory, Moment, Time
  <1>2. 0 \in 0 .. REANCHOR_AFTER - 1 /\ m.last \in Nat
    BY <1>1, GeofenceAssumption DEF Moment, Never, Time
  <1>3. PICK a : a = [m EXCEPT !.last = at, !.streak = 0, !.rejected = Never]
    OBVIOUS
  <1>4. a \in Memory /\ a.evaluatedAt = m.evaluatedAt /\ a.last = at
    BY <1>1, <1>2, <1>3 DEF Memory
  <1>5. PICK streak : streak = IF m.rejected # Never /\ at > m.rejected /\ ~Far(path, m.rejected, at)
                               THEN m.streak + 1 ELSE 1
    OBVIOUS
  <1>6. r = IF m.last # Never /\ at <= m.last THEN [verdict |-> "out_of_order", state |-> m]
            ELSE IF m.last = Never \/ ~Far(path, m.last, at) \/ streak >= REANCHOR_AFTER
            THEN [verdict |-> "accept", state |-> a]
            ELSE [verdict |-> "jump", state |-> [m EXCEPT !.streak = streak, !.rejected = at]]
    BY <1>3, <1>5 DEF screenFix
  <1>7. CASE m.last # Never /\ at <= m.last
    BY <1>6, <1>7
  <1>8. CASE ~(m.last # Never /\ at <= m.last) /\ (m.last = Never \/ ~Far(path, m.last, at) \/ streak >= REANCHOR_AFTER)
    <2>1. r = [verdict |-> "accept", state |-> a]
      BY <1>6, <1>8
    <2>2. at > m.last
      BY <1>1, <1>2, <1>8 DEF Never
    <2> QED
      BY <1>4, <2>1, <2>2
  <1>9. CASE ~(m.last # Never /\ at <= m.last) /\ ~(m.last = Never \/ ~Far(path, m.last, at) \/ streak >= REANCHOR_AFTER)
    <2>1. PICK j : j = [m EXCEPT !.streak = streak, !.rejected = at]
      OBVIOUS
    <2>2. r = [verdict |-> "jump", state |-> j]
      BY <1>6, <1>9, <2>1
    <2>3. streak \in 0 .. REANCHOR_AFTER - 1
      BY <1>1, <1>5, <1>9
    <2>4. j \in Memory /\ j.evaluatedAt = m.evaluatedAt /\ j.last = m.last
      BY <1>1, <2>1, <2>3 DEF Memory
    <2> QED
      BY <2>2, <2>4
  <1> QED
    BY <1>7, <1>8, <1>9

(* A fence that is off tests nothing, a fix on the edge tells nothing of one that is on. *)
LEMMA TestsOff ==
    ASSUME NEW p, NEW drawing, ~drawing.on, NEW spot, NEW at
    PROVE  TestFix(p, drawing, spot, at) = p
  BY DEF TestFix

(* A fix on the edge only leaves it open which side a new fence finds the tracker on. *)
LEMMA TestsEdge ==
    ASSUME NEW p \in PlanType, NEW drawing, drawing.on, NEW at
    PROVE  TestFix(p, drawing, "edge", at)
             = IF Learns(p, drawing) THEN [p EXCEPT !.unlearned = TRUE] ELSE p
  <1>1. containment(drawing, "edge") = "uncertain"
    BY DEF containment
  <1>2. CASE Learns(p, drawing)
    BY <1>1, <1>2 DEF TestFix
  <1>3. CASE ~Learns(p, drawing)
    <2>1. PICK k : k = IF p.side.there THEN p.side ELSE OUTSIDE
      OBVIOUS
    <2>2. PICK r : r = stepFence(k, "uncertain", at)
      OBVIOUS
    <2>3. r.state = k /\ r.since = Never
      BY <2>2 DEF stepFence
    <2>4. PICK t \in BOOLEAN : t = (p.touched \/ r.state # k)
      BY DEF PlanType
    <2>5. t = p.touched
      BY <2>3, <2>4 DEF PlanType
    <2>6. PICK s : s = IF r.state # k THEN r.state ELSE p.side
      OBVIOUS
    <2>7. PICK e : e = [kind |-> "exited", occurredAt |-> r.since, confirmedAt |-> at]
      OBVIOUS
    <2>8. PICK c : c = IF r.since = Never THEN p.crossings ELSE Append(p.crossings, e)
      OBVIOUS
    <2>9. TestFix(p, drawing, "edge", at) = [p EXCEPT !.side = s, !.touched = t, !.crossings = c]
      BY <1>1, <1>3, <2>1, <2>2, <2>4, <2>6, <2>7, <2>8 DEF TestFix
    <2>10. s = p.side /\ c = p.crossings
      BY <2>3, <2>6, <2>8
    <2> QED
      BY <1>3, <2>5, <2>9, <2>10 DEF PlanType
  <1> QED
    BY <1>2, <1>3

(* What the first fix that tells does, and what another one does. *)
FirstTest(p, q, b) ==
    /\ IsPlan(q) /\ p.side = NoSide
    /\ q.side = [there |-> TRUE, inside |-> b, pending |-> Never]
    /\ q.memory = p.memory /\ q.accepted = p.accepted /\ q.crossings = p.crossings /\ ~q.unlearned
    /\ ~q.touched => ~p.touched /\ Kept(q.side) = p.side
(* What another fix that tells does: b says whether it is inside. *)
NextTest(p, q, b, at) ==
    LET k == KnownSide(p.side)
        x == KnownSide(q.side)
        since == IF k.pending = Never THEN at ELSE k.pending
    IN /\ IsPlan(q) /\ q.memory = p.memory /\ q.accepted = p.accepted /\ q.unlearned = p.unlearned
       /\ q.side.there \/ q.side = p.side
       /\ ~q.touched => ~p.touched /\ q.side = p.side
       /\ since \in Time
       /\ b = k.inside =>
            q.crossings = p.crossings /\ x.inside = k.inside /\ x.pending = Never
       /\ b # k.inside /\ at - since >= Dwell =>
            /\ q.crossings = Append(p.crossings, [kind |-> IF b THEN "entered" ELSE "exited",
                                                  occurredAt |-> since, confirmedAt |-> at])
            /\ x.inside = b /\ x.pending = Never
       /\ b # k.inside /\ ~(at - since >= Dwell) =>
            q.crossings = p.crossings /\ x.inside = k.inside /\ x.pending = since

(* The first fix that tells says which side it is on. *)
LEMMA TestsFirst ==
    ASSUME NEW p, IsPlan(p), NEW drawing, drawing.on, NEW spot, spot # "edge", NEW at, Learns(p, drawing),
           NEW q, q = TestFix(p, drawing, spot, at), NEW b \in BOOLEAN, b <=> spot \in drawing.region
    PROVE  FirstTest(p, q, b)
  <1>1. PICK where : where = containment(drawing, spot)
    OBVIOUS
  <1>2. where # "uncertain" /\ (where = "inside" <=> spot \in drawing.region)
    BY <1>1 DEF containment
  <1>3. b \in BOOLEAN /\ (b <=> spot \in drawing.region)
    OBVIOUS
  <1>4. PICK s : s = [there |-> TRUE, inside |-> b, pending |-> Never]
    OBVIOUS
  <1>5. [there |-> TRUE, inside |-> where = "inside", pending |-> Never] = s
    BY <1>2, <1>3, <1>4
  <1>6. q = [p EXCEPT !.side = s, !.unlearned = FALSE, !.touched = p.touched \/ s.inside]
    BY <1>1, <1>2, <1>5 DEF TestFix
  <1>7. s \in Side /\ s.inside = b /\ s.there
    BY <1>3, <1>4 DEF Side, Moment
  <1>8. p \in PlanType /\ p.side \in Side /\ p.touched \in BOOLEAN
    BY DEF IsPlan, PlanType
  <1>9. q \in PlanType
    BY <1>6, <1>7, <1>8 DEF PlanType
  <1>10. /\ q.side = s /\ q.memory = p.memory /\ q.accepted = p.accepted /\ q.crossings = p.crossings
         /\ q.unlearned = FALSE /\ q.touched = (p.touched \/ b)
    BY <1>6, <1>7, <1>8 DEF PlanType
  <1>11. IsPlan(q)
    BY <1>7, <1>9, <1>10 DEF IsPlan
  <1>12. p.side = NoSide
    <2>1. ~p.side.there /\ ~p.side.inside /\ p.side.pending = Never
      BY DEF Learns, IsPlan
    <2> QED
      BY <1>8, <2>1 DEF Side, NoSide, Never
  <1>13. ~b => Kept(s) = NoSide
    BY <1>4 DEF Kept
  <1> QED
    BY <1>3, <1>4, <1>10, <1>11, <1>12, <1>13 DEF FirstTest

(* The dwell rule on one fix. *)
LEMMA FenceSteps ==
    ASSUME NEW k \in Side, k.there, NEW where, where # "uncertain", NEW b \in BOOLEAN, b <=> where = "inside", NEW at \in Time,
           NEW since, since = (IF k.pending = Never THEN at ELSE k.pending),
           NEW r, r = stepFence(k, where, at)
    PROVE  /\ r.state \in Side /\ r.state.there /\ since \in Time
           /\ b = k.inside =>
                r.since = Never /\ r.state.inside = k.inside /\ r.state.pending = Never
           /\ b # k.inside /\ at - since >= Dwell =>
                r.since = since /\ r.state.inside = b /\ r.state.pending = Never
           /\ b # k.inside /\ ~(at - since >= Dwell) =>
                r.since = Never /\ r.state.inside = k.inside /\ r.state.pending = since
  <1>1. since \in Time /\ since \in Moment /\ Never \in Moment /\ b \in BOOLEAN
    BY DEF Side, Moment
  <1>2. r = IF b = k.inside THEN [state |-> [k EXCEPT !.pending = Never], since |-> Never]
            ELSE IF at - since >= Dwell
            THEN [state |-> [there |-> TRUE, inside |-> b, pending |-> Never], since |-> since]
            ELSE [state |-> [k EXCEPT !.pending = since], since |-> Never]
    BY DEF stepFence
  <1>3. PICK x : x = [k EXCEPT !.pending = Never]
    OBVIOUS
  <1>4. PICK y : y = [there |-> TRUE, inside |-> b, pending |-> Never]
    OBVIOUS
  <1>5. PICK z : z = [k EXCEPT !.pending = since]
    OBVIOUS
  <1>6. x \in Side /\ x.there /\ x.inside = k.inside /\ x.pending = Never
    BY <1>1, <1>3 DEF Side
  <1>7. y \in Side /\ y.there /\ y.inside = b /\ y.pending = Never
    BY <1>1, <1>4 DEF Side
  <1>8. z \in Side /\ z.there /\ z.inside = k.inside /\ z.pending = since
    BY <1>1, <1>5 DEF Side
  <1>9. CASE b = k.inside
    <2>1. r = [state |-> x, since |-> Never]
      BY <1>2, <1>3, <1>9
    <2>2. r.state = x /\ r.since = Never
      BY <2>1
    <2> QED
      BY <1>1, <1>6, <1>9, <2>2
  <1>10. CASE b # k.inside /\ at - since >= Dwell
    <2>1. r = [state |-> y, since |-> since]
      BY <1>2, <1>4, <1>10
    <2>2. r.state = y /\ r.since = since
      BY <2>1
    <2> QED
      BY <1>1, <1>7, <1>10, <2>2
  <1>11. CASE b # k.inside /\ ~(at - since >= Dwell)
    <2>1. r = [state |-> z, since |-> Never]
      BY <1>2, <1>5, <1>11
    <2>2. r.state = z /\ r.since = Never
      BY <2>1
    <2> QED
      BY <1>1, <1>8, <1>11, <2>2
  <1> QED
    BY <1>9, <1>10, <1>11

(* A fix that tells, once a side is known. *)
LEMMA TestsNext ==
    ASSUME NEW p, IsPlan(p), NEW drawing, drawing.on, NEW spot, spot # "edge", NEW at \in Time,
           ~Learns(p, drawing), NEW q, q = TestFix(p, drawing, spot, at),
           NEW b \in BOOLEAN, b <=> spot \in drawing.region
    PROVE  NextTest(p, q, b, at)
  <1> DEFINE k == KnownSide(p.side)
             x == KnownSide(q.side)
             since == IF k.pending = Never THEN at ELSE k.pending
  <1>1. PICK where : where = containment(drawing, spot)
    OBVIOUS
  <1>2. where # "uncertain" /\ (b <=> where = "inside")
    BY <1>1 DEF containment
  <1>3. p \in PlanType /\ p.side \in Side /\ p.touched \in BOOLEAN /\ p.crossings \in Seq(Crossing)
    BY DEF IsPlan, PlanType
  <1>4. k \in Side /\ k.there
    BY <1>3 DEF KnownSide, OUTSIDE, Side, Moment, Never
  <1>5. PICK r : r = stepFence(k, where, at)
    OBVIOUS
  <1>6. /\ r.state \in Side /\ r.state.there /\ since \in Time
        /\ b = k.inside =>
             r.since = Never /\ r.state.inside = k.inside /\ r.state.pending = Never
        /\ b # k.inside /\ at - since >= Dwell =>
             r.since = since /\ r.state.inside = b /\ r.state.pending = Never
        /\ b # k.inside /\ ~(at - since >= Dwell) =>
             r.since = Never /\ r.state.inside = k.inside /\ r.state.pending = since
    BY ONLY <1>2, <1>4, <1>5, b \in BOOLEAN, at \in Time, since = (IF k.pending = Never THEN at ELSE k.pending), FenceSteps
  <1>7. PICK e : e = [kind |-> IF b THEN "entered" ELSE "exited", occurredAt |-> r.since, confirmedAt |-> at]
    OBVIOUS
  <1>8. PICK c : c = IF r.since = Never THEN p.crossings ELSE Append(p.crossings, e)
    OBVIOUS
  <1>9. PICK s : s = IF r.state # k THEN r.state ELSE p.side
    OBVIOUS
  <1>10. PICK t \in BOOLEAN : t = (p.touched \/ r.state # k)
    BY <1>3
  <1>11. q = [p EXCEPT !.side = s, !.touched = t, !.crossings = c]
    <2>1. k = IF p.side.there THEN p.side ELSE OUTSIDE
      BY DEF KnownSide
    <2> QED
      BY <1>1, <1>2, <1>5, <1>7, <1>8, <1>9, <1>10, <2>1 DEF TestFix
  <1>12. Never \notin Time
    BY DEF Never, Time
  <1>13. r.since = Never \/ r.since = since
    BY <1>6
  <1>14. c \in Seq(Crossing)
    <2>1. CASE r.since = Never
      BY <1>3, <1>8, <2>1
    <2>2. CASE r.since # Never
      <3>1. e \in Crossing
        BY <1>6, <1>7, <1>13, <2>2 DEF Crossing
      <3> QED
        BY <1>3, <1>8, <2>2, <3>1
    <2> QED
      BY <2>1, <2>2
  <1>15. s \in Side /\ (s.inside \/ s.pending # Never => s.there) /\ (s.there \/ s = p.side)
    BY <1>3, <1>6, <1>9 DEF IsPlan
  <1>16. q \in PlanType
    BY <1>3, <1>11, <1>14, <1>15 DEF PlanType
  <1>17. /\ q.side = s /\ q.touched = t /\ q.crossings = c
         /\ q.memory = p.memory /\ q.accepted = p.accepted /\ q.unlearned = p.unlearned
    BY <1>3, <1>11 DEF PlanType
  <1>18. x = r.state
    <2>1. CASE r.state # k
      BY <1>6, <1>9, <1>17, <2>1 DEF KnownSide
    <2>2. CASE r.state = k
      BY <1>9, <1>17, <2>2
    <2> QED
      BY <2>1, <2>2
  <1>19. IsPlan(q)
    BY <1>15, <1>16, <1>17 DEF IsPlan
  <1>20. ~q.touched => ~p.touched /\ q.side = p.side
    BY <1>9, <1>10, <1>17
  <1>21. b # k.inside /\ at - since >= Dwell =>
           q.crossings = Append(p.crossings, [kind |-> IF b THEN "entered" ELSE "exited",
                                              occurredAt |-> since, confirmedAt |-> at])
    BY <1>6, <1>7, <1>8, <1>12, <1>17
  <1>22. ~(b # k.inside /\ at - since >= Dwell) => q.crossings = p.crossings
    BY <1>6, <1>8, <1>17
  <1> QED
    BY <1>6, <1>15, <1>17, <1>18, <1>19, <1>20, <1>21, <1>22 DEF NextTest

(* What one fix does to a plan. *)
LEMMA Takes ==
    ASSUME NEW p, IsPlan(p), NEW drawing, NEW path, NEW at \in Time, NEW n, n = TakeFix(p, drawing, path, at)
    PROVE  \E m \in Memory : \E g :
             /\ m.evaluatedAt = p.memory.evaluatedAt
             /\ IsPlan(g) /\ g.memory = m /\ g.side = p.side /\ g.crossings = p.crossings
             /\ g.touched = p.touched /\ g.unlearned = p.unlearned
             /\ \/ m.last = p.memory.last /\ g.accepted = p.accepted /\ n = g
                \/ /\ at > p.memory.last /\ m.last = at /\ g.accepted = p.accepted \cup {at}
                   /\ n = TestFix(g, drawing, path[at], at)
  <1>1. PICK r : r = screenFix(p.memory, path, at)
    OBVIOUS
  <1>2. p \in PlanType /\ p.memory \in Memory /\ p.accepted \in SUBSET Time
    BY DEF IsPlan, PlanType
  <1>3. /\ r.state \in Memory /\ r.state.evaluatedAt = p.memory.evaluatedAt
        /\ r.verdict = "accept" => at > p.memory.last /\ r.state.last = at
        /\ r.verdict # "accept" => r.state.last = p.memory.last
    BY ONLY <1>1, <1>2, at \in Time, Screens
  <1>4. PICK m \in Memory : m = r.state
    BY <1>3
  <1>5. PICK g : g = [p EXCEPT !.memory = m]
    OBVIOUS
  <1>6. PICK h : h = [g EXCEPT !.accepted = @ \cup {at}]
    OBVIOUS
  <1>7. n = IF r.verdict = "accept" THEN TestFix(h, drawing, path[at], at) ELSE g
    BY <1>1, <1>4, <1>5, <1>6 DEF TakeFix
  <1>8. /\ IsPlan(g) /\ g.memory = m /\ g.side = p.side /\ g.crossings = p.crossings
        /\ g.touched = p.touched /\ g.unlearned = p.unlearned /\ g.accepted = p.accepted
    BY <1>2, <1>4, <1>5 DEF IsPlan, PlanType
  <1>9. /\ IsPlan(h) /\ h.memory = m /\ h.side = p.side /\ h.crossings = p.crossings
        /\ h.touched = p.touched /\ h.unlearned = p.unlearned /\ h.accepted = p.accepted \cup {at}
    BY <1>2, <1>6, <1>8 DEF IsPlan, PlanType
  <1>10. CASE r.verdict = "accept"
    <2>1. n = TestFix(h, drawing, path[at], at) /\ at > p.memory.last /\ m.last = at
      BY <1>3, <1>4, <1>7, <1>10
    <2> QED
      BY <1>3, <1>4, <1>9, <2>1
  <1>11. CASE r.verdict # "accept"
    <2>1. n = g /\ m.last = p.memory.last
      BY <1>3, <1>4, <1>7, <1>11
    <2> QED
      BY <1>3, <1>4, <1>8, <2>1
  <1> QED
    BY <1>10, <1>11

(* Whatever the fence is, a fix that is tested leaves a plan. *)
LEMMA TestsPlan ==
    ASSUME NEW g, IsPlan(g), NEW drawing, NEW spot, NEW at \in Time, NEW q, q = TestFix(g, drawing, spot, at)
    PROVE  IsPlan(q) /\ q.memory = g.memory /\ q.accepted = g.accepted
  <1>1. CASE ~drawing.on
    <2>1. q = g
      BY <1>1, TestsOff
    <2> QED
      BY <2>1
  <1>2. CASE drawing.on /\ spot = "edge"
    <2>1. g \in PlanType
      BY DEF IsPlan
    <2>2. q = IF Learns(g, drawing) THEN [g EXCEPT !.unlearned = TRUE] ELSE g
      BY <1>2, <2>1, TestsEdge
    <2>3. CASE Learns(g, drawing)
      BY <2>1, <2>2, <2>3 DEF IsPlan, PlanType
    <2> QED
      BY <2>2, <2>3
  <1>3. CASE drawing.on /\ spot # "edge" /\ Learns(g, drawing)
    <2>0. PICK b \in BOOLEAN : b <=> spot \in drawing.region
      OBVIOUS
    <2>1. FirstTest(g, q, b)
      BY ONLY IsPlan(g), q = TestFix(g, drawing, spot, at), <1>3, <2>0, TestsFirst
    <2> QED
      BY <2>1 DEF FirstTest
  <1>4. CASE drawing.on /\ spot # "edge" /\ ~Learns(g, drawing)
    <2>1. PICK b \in BOOLEAN : b <=> spot \in drawing.region
      OBVIOUS
    <2>2. NextTest(g, q, b, at)
      BY ONLY IsPlan(g), q = TestFix(g, drawing, spot, at), <1>4, <2>1, TestsNext
    <2> QED
      BY <2>2 DEF NextTest
  <1> QED
    BY <1>1, <1>2, <1>3, <1>4

(* The believed fixes that tell, and which of them were inside. *)
TellingOf(A, path) == {n \in A : path[n] # "edge"}
(* Those inside the fence. *)
InsideOf(A, path, region) == {n \in TellingOf(A, path) : path[n] \in region}

(* What a plan knows of them, and has announced with ev before it. *)
Told(T, I, p, drawing, ev) ==
    \/ /\ T = {} /\ p.side = NoSide /\ p.crossings = <<>> /\ ev = <<>>
       /\ p.memory.evaluatedAt < drawing.drawn
       /\ p.unlearned <=> p.accepted # {}
    \/ /\ T # {} /\ ~p.unlearned /\ ~Learns(p, drawing)
       /\ p.accepted # {} \/ ~(p.memory.evaluatedAt < drawing.drawn) \/ Kept(p.side).there
       /\ Follows(T, I, KnownSide(p.side).inside, KnownSide(p.side).pending)
       /\ Announced(ev \o p.crossings, T, I)

(* A plan on a fence that is on, after the fixes H were heeded, and what the side was. *)
Judges(p, H, path, drawing, ev, s) ==
    /\ IsPlan(p) /\ ev \in Seq(Crossing)
    /\ \A n \in H \cup p.accepted : n \in Time /\ n <= p.memory.last
    /\ ~p.touched => Kept(p.side) = s
    /\ Told(TellingOf(H \cup p.accepted, path), InsideOf(H \cup p.accepted, path, drawing.region), p, drawing, ev)

(* A fix that is not believed. *)
LEMMA JudgesNot ==
    ASSUME NEW p, NEW H, NEW path, NEW drawing, NEW ev, NEW s, Judges(p, H, path, drawing, ev, s),
           NEW g, IsPlan(g), g.memory.evaluatedAt = p.memory.evaluatedAt, g.memory.last = p.memory.last,
           g.side = p.side, g.crossings = p.crossings, g.touched = p.touched, g.unlearned = p.unlearned,
           g.accepted = p.accepted
    PROVE  Judges(g, H, path, drawing, ev, s)
  <1>1. Learns(g, drawing) <=> Learns(p, drawing)
    BY DEF Learns
  <1> QED
    BY <1>1 DEF Judges, Told

(* A believed fix on the edge. *)
LEMMA JudgesEdge ==
    ASSUME NEW p, NEW H, NEW path, NEW drawing, drawing.on, NEW ev, NEW s, Judges(p, H, path, drawing, ev, s),
           NEW at \in Time, at > p.memory.last, path[at] = "edge",
           NEW g, IsPlan(g), g.memory.evaluatedAt = p.memory.evaluatedAt, g.memory.last = at,
           g.side = p.side, g.crossings = p.crossings, g.touched = p.touched, g.unlearned = p.unlearned,
           g.accepted = p.accepted \cup {at},
           NEW q, q = TestFix(g, drawing, path[at], at)
    PROVE  Judges(q, H, path, drawing, ev, s)
  <1>1. g \in PlanType /\ q = IF Learns(g, drawing) THEN [g EXCEPT !.unlearned = TRUE] ELSE g
    <2>1. g \in PlanType
      BY DEF IsPlan
    <2> QED
      BY <2>1, TestsEdge
  <1>2. IsPlan(q) /\ q.memory = g.memory /\ q.accepted = g.accepted
    BY TestsPlan
  <1>3. q.side = p.side /\ q.crossings = p.crossings /\ q.touched = p.touched
    BY <1>1 DEF PlanType
  <1>4. q.unlearned <=> p.unlearned \/ Learns(g, drawing)
    BY <1>1 DEF PlanType
  <1>5. (Learns(g, drawing) <=> Learns(p, drawing)) /\ (Learns(q, drawing) <=> Learns(p, drawing))
    BY <1>2, <1>3 DEF Learns
  <1>6. PICK A : A = H \cup p.accepted
    OBVIOUS
  <1>7. PICK B : B = H \cup q.accepted
    OBVIOUS
  <1>8. B = A \cup {at}
    BY <1>2, <1>6, <1>7
  <1>9. TellingOf(B, path) = TellingOf(A, path)
    BY <1>8 DEF TellingOf
  <1>10. InsideOf(B, path, drawing.region) = InsideOf(A, path, drawing.region)
    BY <1>9 DEF InsideOf
  <1>11. PICK T : T = TellingOf(A, path)
    OBVIOUS
  <1>12. PICK I : I = InsideOf(A, path, drawing.region)
    OBVIOUS
  <1>13. Told(T, I, p, drawing, ev)
    BY <1>6, <1>11, <1>12 DEF Judges
  <1>16. q.accepted # {}
    BY <1>2
  <1>14. Told(T, I, q, drawing, ev)
    <2>1. CASE T = {}
      <3>1. ~p.side.there /\ p.memory.evaluatedAt < drawing.drawn
        BY <1>13, <2>1 DEF Told, NoSide
      <3>2. q.unlearned /\ q.accepted # {}
        BY <1>2, <1>4, <1>5, <3>1 DEF Learns
      <3> QED
        BY <1>2, <1>3, <1>13, <2>1, <3>2 DEF Told
    <2>2. CASE T # {}
      <3>1. ~Learns(p, drawing) /\ ~p.unlearned
        BY <1>13, <2>2 DEF Told
      <3> QED
        BY <1>3, <1>4, <1>5, <1>13, <1>16, <2>2, <3>1 DEF Told
    <2> QED
      BY <2>1, <2>2
  <1>15. \A n \in B : n \in Time /\ n <= q.memory.last
    <2>1. \A n \in A : n \in Time /\ n <= p.memory.last
      BY <1>6 DEF Judges
    <2>2. p.memory.last \in Int /\ at \in Int /\ Time \subseteq Int
      BY DEF Judges, IsPlan, PlanType, Memory, Moment, Never, Time
    <2>3. \A n \in B : n \in A \/ n = at
      BY <1>8
    <2>4. q.memory.last = at /\ at <= at
      BY <1>2, <2>2
    <2>5. ASSUME NEW n \in A
          PROVE  n \in Time /\ n <= at
      <3>1. PICK l \in Int : l = p.memory.last
        BY <2>2
      <3>2. n \in Int /\ n <= l /\ l < at /\ n \in Time
        BY <2>1, <2>2, <3>1
      <3> QED
        BY <2>2, <3>2
    <2> QED
      BY <2>3, <2>4, <2>5
  <1> QED
    BY <1>2, <1>3, <1>7, <1>9, <1>6, <1>10, <1>11, <1>12, <1>14, <1>15 DEF Judges

(* A believed fix that tells. *)
LEMMA JudgesTelling ==
    ASSUME NEW p, NEW H, NEW path, NEW drawing, drawing.on, NEW ev, NEW s, Judges(p, H, path, drawing, ev, s),
           NEW at \in Time, at > p.memory.last, path[at] # "edge",
           NEW g, IsPlan(g), g.memory.evaluatedAt = p.memory.evaluatedAt, g.memory.last = at,
           g.side = p.side, g.crossings = p.crossings, g.touched = p.touched, g.unlearned = p.unlearned,
           g.accepted = p.accepted \cup {at},
           NEW q, q = TestFix(g, drawing, path[at], at)
    PROVE  Judges(q, H, path, drawing, ev, s)
  <1>1. IsPlan(q) /\ q.memory = g.memory /\ q.accepted = g.accepted
    BY TestsPlan
  <1>2. Learns(g, drawing) <=> Learns(p, drawing)
    BY DEF Learns
  <1>3. PICK A : A = H \cup p.accepted
    OBVIOUS
  <1>4. PICK B : B = H \cup q.accepted
    OBVIOUS
  <1>5. B = A \cup {at}
    BY <1>1, <1>3, <1>4
  <1>6. PICK T : T = TellingOf(A, path)
    OBVIOUS
  <1>7. PICK I : I = InsideOf(A, path, drawing.region)
    OBVIOUS
  <1>8. PICK U : U = TellingOf(B, path)
    OBVIOUS
  <1>9. PICK J : J = InsideOf(B, path, drawing.region)
    OBVIOUS
  <1>10. /\ IsPlan(p) /\ ev \in Seq(Crossing) /\ Told(T, I, p, drawing, ev)
         /\ \A n \in A : n \in Time /\ n <= p.memory.last
         /\ ~p.touched => Kept(p.side) = s
    BY <1>3, <1>6, <1>7 DEF Judges
  <1>11. /\ p.side \in Side /\ p.crossings \in Seq(Crossing) /\ p.memory.last \in Nat
         /\ Time \subseteq Nat /\ at \in Nat
    BY <1>10 DEF IsPlan, PlanType, Memory, Moment, Never, Time
  <1>12. \A n \in A : n \in Time /\ n \in Nat /\ n < at
    <2>1. PICK l \in Nat : l = p.memory.last
      BY <1>11
    <2>2. l < at
      BY <1>11, <2>1
    <2> SUFFICES ASSUME NEW n \in A
                 PROVE  n \in Time /\ n \in Nat /\ n < at
      OBVIOUS
    <2>3. n \in Time /\ n \in Nat /\ n <= l
      BY <1>10, <1>11, <2>1
    <2> QED
      BY <1>11, <2>2, <2>3
  <1>13. Later(T, I, at, U, J)
    <2>1. T \subseteq Nat /\ \A n \in T : n < at
      BY <1>6, <1>12 DEF TellingOf
    <2>2. I \subseteq T /\ J \subseteq U
      BY <1>6, <1>7, <1>8, <1>9 DEF InsideOf
    <2>3. U = T \cup {at}
      BY <1>5, <1>6, <1>8 DEF TellingOf
    <2>4. \A n \in T : n \in J <=> n \in I
      BY <1>5, <1>6, <1>7, <1>8, <1>9, <2>3 DEF InsideOf
    <2> QED
      BY <1>11, <2>1, <2>2, <2>3, <2>4 DEF Later
  <1>14. U = T \cup {at} /\ at \in U /\ T \subseteq Time /\ U \subseteq Time /\ J \subseteq U
    <2>1. T \subseteq Time
      BY <1>6, <1>12 DEF TellingOf
    <2> QED
      BY <1>13, <2>1 DEF Later
  <1>15. PICK b \in BOOLEAN : b <=> path[at] \in drawing.region
    OBVIOUS
  <1>16. b <=> at \in J
    BY <1>9, <1>8, <1>14, <1>15 DEF InsideOf
  <1>17. \A n \in B : n \in Time /\ n <= q.memory.last
    <2>1. q.memory.last = at /\ at <= at
      BY <1>1, <1>11
    <2>2. \A n \in A : n \in Time /\ n <= at
      BY <1>11, <1>12
    <2> QED
      BY <1>5, <2>1, <2>2
  <1>20. q.accepted # {}
    BY <1>1
  <1>18. CASE T = {}
    <2>1. /\ p.side = NoSide /\ p.crossings = <<>> /\ ev = <<>> /\ p.memory.evaluatedAt < drawing.drawn
      BY <1>10, <1>18 DEF Told
    <2>2. Learns(p, drawing)
      BY <2>1 DEF Learns, NoSide
    <2>3. FirstTest(g, q, b)
      <3>1. drawing.on /\ path[at] # "edge" /\ Learns(g, drawing)
        BY <1>2, <2>2
      <3> QED
        BY ONLY IsPlan(g), q = TestFix(g, drawing, path[at], at), b \in BOOLEAN, <1>15, <3>1, TestsFirst
    <2>4. PICK x : x = [there |-> TRUE, inside |-> b, pending |-> Never]
      OBVIOUS
    <2>5. q.side = x
      BY <2>3, <2>4 DEF FirstTest
    <2>6. /\ q.crossings = p.crossings /\ ~q.unlearned
          /\ ~q.touched => ~p.touched /\ Kept(q.side) = p.side
      BY <2>3 DEF FirstTest
    <2>7. Follows(U, J, b, Never) /\ Announced(<<>>, U, J)
      <3>1. U = {at}
        BY <1>14, <1>18
      <3> QED
        BY <1>11, <1>14, <1>16, <3>1, FollowsFirst
    <2>8. KnownSide(q.side) = x /\ x.inside = b /\ x.pending = Never /\ q.side.there
      BY <2>4, <2>5 DEF KnownSide
    <2>9. ~Learns(q, drawing)
      BY <2>8 DEF Learns
    <2>10. ev \o q.crossings = <<>>
      BY <2>1, <2>6
    <2>11. Told(U, J, q, drawing, ev)
      BY <1>14, <1>20, <2>6, <2>7, <2>8, <2>9, <2>10 DEF Told
    <2>12. ~q.touched => Kept(q.side) = s
      BY <1>10, <2>1, <2>6 DEF Kept, NoSide
    <2> QED
      BY <1>1, <1>4, <1>8, <1>9, <1>10, <1>17, <2>11, <2>12 DEF Judges
  <1>19. CASE T # {}
    <2>1. PICK k : k = KnownSide(p.side)
      OBVIOUS
    <2>2. PICK x : x = KnownSide(q.side)
      OBVIOUS
    <2>3. PICK c \in Seq(Crossing) : c = p.crossings
      BY <1>11
    <2>4. PICK said : said = ev \o c
      OBVIOUS
    <2>5. ~p.unlearned /\ ~Learns(p, drawing) /\ Follows(T, I, k.inside, k.pending) /\ Announced(said, T, I)
      BY <1>10, <1>19, <2>1, <2>3, <2>4 DEF Told
    <2>6. NextTest(g, q, b, at)
      <3>1. drawing.on /\ path[at] # "edge" /\ ~Learns(g, drawing)
        BY <1>2, <2>5
      <3> QED
        BY ONLY IsPlan(g), q = TestFix(g, drawing, path[at], at), at \in Time, b \in BOOLEAN, <1>15, <3>1, TestsNext
    <2>7. PICK since : since = IF k.pending = Never THEN at ELSE k.pending
      OBVIOUS
    <2>8. PICK e : e = [kind |-> IF b THEN "entered" ELSE "exited", occurredAt |-> since, confirmedAt |-> at]
      OBVIOUS
    <2>9. /\ ~q.unlearned /\ (q.side.there \/ q.side = p.side)
          /\ ~q.touched => ~p.touched /\ q.side = p.side
          /\ b = k.inside => q.crossings = c /\ x.inside = k.inside /\ x.pending = Never
          /\ b # k.inside /\ at - since >= Dwell =>
               q.crossings = Append(c, e) /\ x.inside = b /\ x.pending = Never
          /\ b # k.inside /\ ~(at - since >= Dwell) =>
               q.crossings = c /\ x.inside = k.inside /\ x.pending = since
      BY <2>1, <2>2, <2>3, <2>5, <2>6, <2>7, <2>8 DEF NextTest
    <2>10. k.inside \in BOOLEAN
      BY <1>11, <2>1 DEF KnownSide, OUTSIDE, Side
    <2>11. Follows(U, J, x.inside, x.pending) /\ Announced(ev \o q.crossings, U, J)
      <3>1. PICK inside \in BOOLEAN : inside = k.inside
        BY <2>10
      <3>2. PICK waits : waits = k.pending
        OBVIOUS
      <3>3. Follows(T, I, inside, waits)
        BY <2>5, <3>1, <3>2
      <3>4. CASE b = inside
        <4>1. Follows(U, J, inside, Never) /\ Announced(said, U, J)
          <5>1. at \in J <=> inside
            BY <1>16, <3>4
          <5> QED
            BY ONLY <1>13, <2>5, <3>3, <5>1, FollowsSame
        <4>2. q.crossings = c /\ x.inside = inside /\ x.pending = Never
          BY <2>9, <3>1, <3>4
        <4> QED
          BY <2>4, <4>1, <4>2
      <3>5. CASE b # inside
        <4>0. TurnsOrWaits(T, I, at, U, J, inside, b, since, said)
          <5>1. ~(at \in J <=> inside)
            BY <1>16, <3>5
          <5>2. since = Since(waits, at)
            BY <2>7, <3>2 DEF Since
          <5> QED
            BY ONLY <1>13, <1>14, <1>16, <2>5, <3>3, <5>1, <5>2, FollowsOther
        <4>1. /\ since \in U
              /\ ~(at - since >= Dwell) => Follows(U, J, inside, since) /\ Announced(said, U, J)
              /\ at - since >= Dwell =>
                   /\ Follows(U, J, b, Never)
                   /\ since \in J <=> at \in J
                   /\ IsTurn(U, J, since) /\ ~IsTurn(T, I, since) /\ IsConfirmed(U, J, since, at)
                   /\ \A n \in U : IsTurn(U, J, n) <=> IsTurn(T, I, n) \/ n = since
          BY <4>0 DEF TurnsOrWaits
        <4>2. CASE ~(at - since >= Dwell)
          <5>1. q.crossings = c /\ x.inside = inside /\ x.pending = since
            BY <2>9, <3>1, <3>5, <4>2
          <5> QED
            BY <2>4, <4>1, <4>2, <5>1
        <4>3. CASE at - since >= Dwell
          <5>1. q.crossings = Append(c, e) /\ x.inside = b /\ x.pending = Never
            BY <2>9, <3>1, <3>5, <4>3
          <5>2. said \in Seq(Crossing) /\ e \in Crossing
            <6>1. said \in Seq(Crossing)
              BY <1>10, <2>3, <2>4
            <6>2. e \in Crossing
              BY <1>14, <2>8, <4>1 DEF Crossing
            <6> QED
              BY <6>1, <6>2
          <5>3. ev \o Append(c, e) = Append(said, e)
            BY <1>10, <2>3, <2>4, <5>2
          <5>4. PICK all : all = Append(said, e)
            OBVIOUS
          <5>5. e = [kind |-> IF at \in J THEN "entered" ELSE "exited", occurredAt |-> since, confirmedAt |-> at]
            BY <1>16, <2>8
          <5>6. Announced(all, U, J)
            <6>1. /\ Later(T, I, at, U, J) /\ U \subseteq Time /\ said \in Seq(Crossing) /\ Announced(said, T, I)
                  /\ since \in U /\ (since \in J <=> at \in J)
                  /\ IsTurn(U, J, since) /\ ~IsTurn(T, I, since) /\ IsConfirmed(U, J, since, at)
                  /\ \A n \in U : IsTurn(U, J, n) <=> IsTurn(T, I, n) \/ n = since
              BY <1>13, <1>14, <2>5, <4>1, <4>3, <5>2
            <6> QED
              BY ONLY <6>1, <5>4, <5>5, AnnouncedNext
          <5> QED
            BY <4>1, <4>3, <5>1, <5>3, <5>4, <5>6
        <4> QED
          BY <4>2, <4>3
      <3> QED
        BY <3>4, <3>5
    <2>12. ~Learns(q, drawing)
      BY <1>1, <2>5, <2>9 DEF Learns
    <2>13. Told(U, J, q, drawing, ev)
      BY <1>14, <1>20, <2>2, <2>9, <2>11, <2>12 DEF Told
    <2>14. ~q.touched => Kept(q.side) = s
      BY <1>10, <2>9
    <2> QED
      BY <1>1, <1>4, <1>8, <1>9, <1>10, <1>17, <2>13, <2>14 DEF Judges
  <1> QED
    BY <1>18, <1>19

(* One fix leaves a plan of what was believed so far. *)
LEMMA JudgesOne ==
    ASSUME NEW p, NEW H, NEW path, NEW drawing, drawing.on, NEW ev, NEW s, Judges(p, H, path, drawing, ev, s),
           NEW at \in Time, NEW n, n = TakeFix(p, drawing, path, at)
    PROVE  Judges(n, H, path, drawing, ev, s)
  <1>1. IsPlan(p)
    BY DEF Judges
  <1>2. PICK m \in Memory : \E g :
             /\ m.evaluatedAt = p.memory.evaluatedAt
             /\ IsPlan(g) /\ g.memory = m /\ g.side = p.side /\ g.crossings = p.crossings
             /\ g.touched = p.touched /\ g.unlearned = p.unlearned
             /\ \/ m.last = p.memory.last /\ g.accepted = p.accepted /\ n = g
                \/ /\ at > p.memory.last /\ m.last = at /\ g.accepted = p.accepted \cup {at}
                   /\ n = TestFix(g, drawing, path[at], at)
    BY ONLY <1>1, at \in Time, n = TakeFix(p, drawing, path, at), Takes
  <1>3. PICK g :
             /\ m.evaluatedAt = p.memory.evaluatedAt
             /\ IsPlan(g) /\ g.memory = m /\ g.side = p.side /\ g.crossings = p.crossings
             /\ g.touched = p.touched /\ g.unlearned = p.unlearned
             /\ \/ m.last = p.memory.last /\ g.accepted = p.accepted /\ n = g
                \/ /\ at > p.memory.last /\ m.last = at /\ g.accepted = p.accepted \cup {at}
                   /\ n = TestFix(g, drawing, path[at], at)
    BY <1>2
  <1>4. /\ IsPlan(g) /\ g.memory.evaluatedAt = p.memory.evaluatedAt
        /\ g.side = p.side /\ g.crossings = p.crossings /\ g.touched = p.touched /\ g.unlearned = p.unlearned
    BY <1>3
  <1>5. CASE m.last = p.memory.last /\ g.accepted = p.accepted /\ n = g
    <2>1. g.memory.last = p.memory.last /\ g.accepted = p.accepted
      BY <1>3, <1>5
    <2>2. Judges(g, H, path, drawing, ev, s)
      BY ONLY Judges(p, H, path, drawing, ev, s), <1>4, <2>1, JudgesNot
    <2> QED
      BY <1>5, <2>2
  <1>6. CASE /\ at > p.memory.last /\ m.last = at /\ g.accepted = p.accepted \cup {at}
             /\ n = TestFix(g, drawing, path[at], at)
    <2>1. /\ g.memory.last = at /\ at > p.memory.last /\ g.accepted = p.accepted \cup {at}
          /\ n = TestFix(g, drawing, path[at], at)
      BY <1>3, <1>6
    <2>2. CASE path[at] = "edge"
      BY ONLY Judges(p, H, path, drawing, ev, s), drawing.on, at \in Time, <1>4, <2>1, <2>2, JudgesEdge
    <2>3. CASE path[at] # "edge"
      BY ONLY Judges(p, H, path, drawing, ev, s), drawing.on, at \in Time, <1>4, <2>1, <2>3, JudgesTelling
    <2> QED
      BY <2>2, <2>3
  <1> QED
    BY <1>3, <1>5, <1>6

(* It takes only what was sent, believed or not, and never forgets when it was last tested. *)
LEMMA TakesWhat ==
    ASSUME NEW p, IsPlan(p), NEW drawing, NEW path, NEW at \in Time, NEW n, n = TakeFix(p, drawing, path, at)
    PROVE  /\ IsPlan(n) /\ n.accepted \subseteq p.accepted \cup {at}
           /\ n.memory.evaluatedAt = p.memory.evaluatedAt
           /\ p.memory.last \in Nat /\ n.memory.last \in Nat /\ p.memory.last <= n.memory.last
           /\ ~drawing.on => /\ n.side = p.side /\ n.crossings = p.crossings /\ n.touched = p.touched
                             /\ n.unlearned = p.unlearned
           /\ n.accepted # {} => p.accepted # {} \/ at \in n.accepted
  <1>2. PICK m \in Memory : \E g :
             /\ m.evaluatedAt = p.memory.evaluatedAt
             /\ IsPlan(g) /\ g.memory = m /\ g.side = p.side /\ g.crossings = p.crossings
             /\ g.touched = p.touched /\ g.unlearned = p.unlearned
             /\ \/ m.last = p.memory.last /\ g.accepted = p.accepted /\ n = g
                \/ /\ at > p.memory.last /\ m.last = at /\ g.accepted = p.accepted \cup {at}
                   /\ n = TestFix(g, drawing, path[at], at)
    BY ONLY IsPlan(p), at \in Time, n = TakeFix(p, drawing, path, at), Takes
  <1>3. PICK g :
             /\ m.evaluatedAt = p.memory.evaluatedAt
             /\ IsPlan(g) /\ g.memory = m /\ g.side = p.side /\ g.crossings = p.crossings
             /\ g.touched = p.touched /\ g.unlearned = p.unlearned
             /\ \/ m.last = p.memory.last /\ g.accepted = p.accepted /\ n = g
                \/ /\ at > p.memory.last /\ m.last = at /\ g.accepted = p.accepted \cup {at}
                   /\ n = TestFix(g, drawing, path[at], at)
    BY <1>2
  <1>4. p.memory.last \in Nat /\ m.last \in Nat /\ at \in Nat
    BY DEF IsPlan, PlanType, Memory, Moment, Never, Time
  <1>5. CASE m.last = p.memory.last /\ g.accepted = p.accepted /\ n = g
    BY <1>3, <1>4, <1>5
  <1>6. CASE /\ at > p.memory.last /\ m.last = at /\ g.accepted = p.accepted \cup {at}
             /\ n = TestFix(g, drawing, path[at], at)
    <2>1. PICK spot : spot = path[at]
      OBVIOUS
    <2>2. IsPlan(g) /\ n = TestFix(g, drawing, spot, at)
      BY <1>3, <1>6, <2>1
    <2>3. IsPlan(n) /\ n.memory = g.memory /\ n.accepted = g.accepted
      BY ONLY at \in Time, <2>2, TestsPlan
    <2>4. ~drawing.on => n = g
      BY ONLY <2>2, TestsOff
    <2> QED
      BY <1>3, <1>4, <1>6, <2>3, <2>4
  <1> QED
    BY <1>3, <1>5, <1>6

(* A batch: each of its fixes is taken on what is planned after those before it. *)
BatchStep(p, k, fixes, path, drawing) == IF k \in fixes THEN TakeFix(p, drawing, path, k) ELSE p
(* The plans of a batch, one after each time up to n. *)
IsBatch(f, n, fixes, path, drawing) ==
    f = [k \in 0 .. n |-> IF k = 0 THEN NothingPlanned ELSE BatchStep(f[k - 1], k, fixes, path, drawing)]

(* There are such plans, up to every number. *)
LEMMA BatchExists ==
    ASSUME NEW N \in Nat, NEW fixes, NEW path, NEW drawing
    PROVE  \E f : IsBatch(f, N, fixes, path, drawing)
  <1> DEFINE Bad == {n \in Nat : ~\E f : IsBatch(f, n, fixes, path, drawing)}
  <1> SUFFICES ASSUME Bad # {} PROVE FALSE
    OBVIOUS
  <1>1. PICK n \in Bad : \A m \in Bad : n <= m
    BY LeastNumber
  <1>2. n \in Nat /\ ~\E f : IsBatch(f, n, fixes, path, drawing)
    OBVIOUS
  <1>3. n # 0
    <2> SUFFICES ASSUME n = 0 PROVE FALSE
      OBVIOUS
    <2>1. IsBatch([k \in 0 .. 0 |-> NothingPlanned], 0, fixes, path, drawing)
      BY DEF IsBatch
    <2> QED
      BY <1>2, <2>1
  <1>4. n - 1 \in Nat /\ ~(n <= n - 1)
    BY <1>2, <1>3
  <1>5. PICK g : IsBatch(g, n - 1, fixes, path, drawing)
    <2>1. n - 1 \notin Bad
      BY <1>1, <1>4
    <2> QED
      BY <1>4, <2>1
  <1> DEFINE h == [k \in 0 .. n |-> IF k = 0 THEN NothingPlanned ELSE BatchStep(g[k - 1], k, fixes, path, drawing)]
  <1>6. ASSUME NEW k \in 1 .. n
        PROVE  h[k - 1] = g[k - 1]
    <2>1. k - 1 \in 0 .. n - 1 /\ k - 1 \in 0 .. n
      BY <1>2
    <2>2. g[k - 1] = IF k - 1 = 0 THEN NothingPlanned
                     ELSE BatchStep(g[(k - 1) - 1], k - 1, fixes, path, drawing)
      BY <1>5, <2>1 DEF IsBatch
    <2> QED
      BY <2>1, <2>2
  <1>7. h = [k \in 0 .. n |-> IF k = 0 THEN NothingPlanned ELSE BatchStep(h[k - 1], k, fixes, path, drawing)]
    <2>1. \A k \in 0 .. n : k # 0 => h[k - 1] = g[k - 1]
      <3>1. \A k \in 0 .. n : k # 0 => k \in 1 .. n
        BY <1>2
      <3> HIDE DEF h
      <3> QED
        BY <1>6, <3>1
    <2>2. \A k \in 0 .. n : (IF k = 0 THEN NothingPlanned ELSE BatchStep(g[k - 1], k, fixes, path, drawing))
                          = (IF k = 0 THEN NothingPlanned ELSE BatchStep(h[k - 1], k, fixes, path, drawing))
      <3> HIDE DEF h
      <3> QED
        BY <2>1
    <2> QED
      BY <2>2
  <1> HIDE DEF h
  <1> QED
    BY <1>2, <1>7 DEF IsBatch

(* What is planned is what the last step makes of it. *)
LEMMA BatchPlans ==
    ASSUME NEW fixes, NEW path, NEW drawing
    PROVE  \E f : /\ f[0] = NothingPlanned
                  /\ \A k \in 1 .. MaxFix : f[k] = BatchStep(f[k - 1], k, fixes, path, drawing)
                  /\ planGpsBatch(fixes, path, drawing) = f[MaxFix]
  <1>1. MaxFix \in Nat
    BY GeofenceAssumption
  <1> DEFINE f == CHOOSE f : IsBatch(f, MaxFix, fixes, path, drawing)
  <1>2. IsBatch(f, MaxFix, fixes, path, drawing)
    BY <1>1, BatchExists
  <1>3. planGpsBatch(fixes, path, drawing) = f[MaxFix]
    BY DEF planGpsBatch, IsBatch, BatchStep
  <1>4. PICK g : g = f
    OBVIOUS
  <1> HIDE DEF f
  <1>5. \A k \in 0 .. MaxFix : g[k] = IF k = 0 THEN NothingPlanned ELSE BatchStep(g[k - 1], k, fixes, path, drawing)
    BY <1>2, <1>4 DEF IsBatch
  <1>6. g[0] = NothingPlanned
    BY <1>1, <1>5
  <1>7. \A k \in 1 .. MaxFix : g[k] = BatchStep(g[k - 1], k, fixes, path, drawing)
    BY <1>1, <1>5
  <1> QED
    BY <1>3, <1>4, <1>6, <1>7

(* A batch plans only what was sent, and nothing for a fence that is off. *)
KeepsTo(plan, fixes, drawing) ==
    /\ IsPlan(plan) /\ plan.accepted \subseteq fixes
    /\ plan.memory.evaluatedAt = memory.evaluatedAt
    /\ ~drawing.on => plan.side = side /\ plan.crossings = <<>> /\ ~plan.touched /\ ~plan.unlearned

(* It does so. *)
LEMMA BatchKeeps ==
    ASSUME NEW fixes \in SUBSET Time, NEW path, NEW drawing, IsPlan(NothingPlanned),
           NEW plan, plan = planGpsBatch(fixes, path, drawing)
    PROVE  KeepsTo(plan, fixes, drawing)
  <1>1. PICK f : /\ f[0] = NothingPlanned
                 /\ \A k \in 1 .. MaxFix : f[k] = BatchStep(f[k - 1], k, fixes, path, drawing)
                 /\ planGpsBatch(fixes, path, drawing) = f[MaxFix]
    BY BatchPlans
  <1> DEFINE Good(p) ==
               /\ IsPlan(p) /\ p.accepted \subseteq fixes
               /\ p.memory.evaluatedAt = memory.evaluatedAt
               /\ ~drawing.on => p.side = side /\ p.crossings = <<>> /\ ~p.touched /\ ~p.unlearned
             G == {k \in 0 .. MaxFix : Good(f[k])}
  <1>2. MaxFix \in Nat
    BY GeofenceAssumption
  <1>3. 0 \in G
    BY <1>1, <1>2 DEF NothingPlanned
  <1>4. ASSUME NEW k \in 1 .. MaxFix, k - 1 \in G
        PROVE  k \in G
    <2>1. PICK p : p = f[k - 1]
      OBVIOUS
    <2>2. PICK n : n = f[k]
      OBVIOUS
    <2>3. Good(p) /\ n = BatchStep(p, k, fixes, path, drawing) /\ k \in Time /\ k \in 0 .. MaxFix
      BY <1>1, <1>2, <1>4, <2>1, <2>2 DEF Time
    <2>4. CASE k \in fixes
      <3>1. n = TakeFix(p, drawing, path, k)
        BY <2>3, <2>4 DEF BatchStep
      <3>2. /\ IsPlan(n) /\ n.accepted \subseteq p.accepted \cup {k}
            /\ n.memory.evaluatedAt = p.memory.evaluatedAt
            /\ ~drawing.on => /\ n.side = p.side /\ n.crossings = p.crossings /\ n.touched = p.touched
                              /\ n.unlearned = p.unlearned
        <4>1. IsPlan(p) /\ k \in Time
          BY <2>3
        <4> QED
          BY ONLY <3>1, <4>1, TakesWhat
      <3>3. Good(n)
        BY <2>3, <2>4, <3>2
      <3> HIDE DEF Good
      <3> QED
        BY <2>2, <2>3, <3>3
    <2>5. CASE k \notin fixes
      <3>1. n = p
        BY <2>3, <2>5 DEF BatchStep
      <3> HIDE DEF Good
      <3> QED
        BY <2>2, <2>3, <3>1
    <2> QED
      BY <2>4, <2>5
  <1>5. MaxFix \in G
    <2> HIDE DEF G
    <2>1. \A k \in 1 .. MaxFix : k - 1 \in G => k \in G
      BY <1>4
    <2>2. \A k \in 0 .. MaxFix : k \in G
      BY ONLY <1>2, <1>3, <2>1, OneAfterOther
    <2> QED
      BY <1>2, <2>2
  <1> QED
    BY <1>1, <1>5 DEF KeepsTo

(* A batch on a fence that is on leaves a plan of what was heeded before and believed of it. *)
LEMMA BatchJudges ==
    ASSUME NEW fixes \in SUBSET Time, NEW path, NEW drawing, drawing.on, NEW H, NEW ev, NEW s,
           Judges(NothingPlanned, H, path, drawing, ev, s),
           NEW plan, plan = planGpsBatch(fixes, path, drawing)
    PROVE  Judges(plan, H, path, drawing, ev, s)
  <1>1. PICK f : /\ f[0] = NothingPlanned
                 /\ \A k \in 1 .. MaxFix : f[k] = BatchStep(f[k - 1], k, fixes, path, drawing)
                 /\ planGpsBatch(fixes, path, drawing) = f[MaxFix]
    BY BatchPlans
  <1> DEFINE G == {k \in 0 .. MaxFix : Judges(f[k], H, path, drawing, ev, s)}
  <1>2. MaxFix \in Nat
    BY GeofenceAssumption
  <1>3. 0 \in G
    BY <1>1, <1>2
  <1>4. ASSUME NEW k \in 1 .. MaxFix, k - 1 \in G
        PROVE  k \in G
    <2>1. PICK p : p = f[k - 1]
      OBVIOUS
    <2>2. PICK n : n = f[k]
      OBVIOUS
    <2>3. /\ Judges(p, H, path, drawing, ev, s)
          /\ n = BatchStep(p, k, fixes, path, drawing) /\ k \in Time /\ k \in 0 .. MaxFix
      BY <1>1, <1>2, <1>4, <2>1, <2>2 DEF Time
    <2>4. Judges(n, H, path, drawing, ev, s)
      <3>1. CASE k \in fixes
        <4>1. n = TakeFix(p, drawing, path, k)
          BY <2>3, <3>1 DEF BatchStep
        <4> QED
          BY ONLY drawing.on, <2>3, <4>1, JudgesOne
      <3>2. CASE k \notin fixes
        BY <2>3, <3>2 DEF BatchStep
      <3> QED
        BY <3>1, <3>2
    <2> QED
      BY <2>2, <2>3, <2>4
  <1>5. MaxFix \in G
    <2> HIDE DEF G
    <2>1. \A k \in 1 .. MaxFix : k - 1 \in G => k \in G
      BY <1>4
    <2>2. \A k \in 0 .. MaxFix : k \in G
      BY ONLY <1>2, <1>3, <2>1, OneAfterOther
    <2> QED
      BY <1>2, <2>2
  <1> QED
    BY <1>1, <1>5

(* The fixes the tracker has taken, and the drawings there have been. *)
Sent == {n \in Time : route[n] # NotTaken}
(* A copy of the fence: the latest drawing or an older one. *)
KnownDrawing(d) ==
    /\ d \in Drawing /\ d.drawn \in 1 .. geofence.drawn
    /\ d.drawn = geofence.drawn => d = geofence

(* What the next batch goes on from: nothing, when it learns the tracker again. *)
Heard == IF Forgotten(geofence) THEN {} ELSE heeded
Noted == IF Forgotten(geofence) THEN <<>> ELSE events

(* What was announced is what was heeded. *)
Reported == Announced(events, TellingOf(heeded, route), InsideOf(heeded, route, geofence.region))

(* What a plan says of the fence as it is drawn now. *)
FenceFits(p) ==
    IF geofence.on THEN Judges(p, Heard, route, geofence, Noted, side)
    ELSE heeded = {} /\ events = <<>> /\ p.crossings = <<>>

(* What a batch under way has planned still fits, unless the fence was redrawn meanwhile. *)
UploadFits ==
    upload.on =>
       /\ upload.now \in 1 .. geofence.drawn /\ KnownDrawing(upload.drawing)
       /\ upload.elsewhere \in 0 .. geofence.drawn
       /\ IsPlan(upload.plan) /\ upload.plan.accepted \subseteq Sent
       /\ upload.plan.memory.evaluatedAt = memory.evaluatedAt
       /\ ~torn /\ upload.now = geofence.drawn /\ upload.drawing.drawn = geofence.drawn => FenceFits(upload.plan)

(* The inductive invariant: what is stored fits, and so does what is about to be. *)
GeoInv ==
    /\ GeoTypeOK
    /\ heeded \subseteq Sent /\ events \in Seq(Crossing)
    /\ cached = NoDrawing \/ KnownDrawing(cached)
    /\ UploadFits
    /\ ~torn => FenceFits(NothingPlanned) /\ Reported

(* What is kept of a side is what the next fix is tested on. *)
LEMMA KeptIsKnown ==
    ASSUME NEW p, IsPlan(p), NEW s, s = Kept(p.side)
    PROVE  /\ KnownSide(s) = KnownSide(p.side)
           /\ s \in Side /\ Kept(s) = s /\ (s.there <=> s.inside \/ s.pending # Never)
  <1>1. p.side \in Side /\ (p.side.inside \/ p.side.pending # Never => p.side.there)
    BY DEF IsPlan, PlanType
  <1>2. NoSide \in Side /\ ~NoSide.there /\ ~NoSide.inside /\ NoSide.pending = Never
    BY DEF NoSide, Side, Moment, Never
  <1>3. CASE p.side.inside \/ p.side.pending # Never
    <2>1. s = p.side
      BY <1>3 DEF Kept
    <2> QED
      BY <1>1, <1>3, <2>1 DEF Kept
  <1>4. CASE ~(p.side.inside \/ p.side.pending # Never)
    <2>1. s = NoSide
      BY <1>4 DEF Kept
    <2>2. KnownSide(s) = OUTSIDE
      BY <1>2, <2>1 DEF KnownSide
    <2>3. CASE p.side.there
      <3>1. p.side = OUTSIDE
        BY <1>1, <1>4, <2>3 DEF Side, OUTSIDE, Never
      <3> QED
        BY <1>2, <2>1, <2>2, <2>3, <3>1 DEF Kept, KnownSide
    <2>4. CASE ~p.side.there
      BY <1>2, <2>1, <2>2, <2>4 DEF Kept, KnownSide
    <2> QED
      BY <2>3, <2>4
  <1> QED
    BY <1>3, <1>4

(* A plan that is stored leaves the state it judged. *)
LEMMA JudgesRest ==
    ASSUME NEW p, NEW H, NEW path, NEW d, d.drawn \in Nat, NEW ev, NEW s, Judges(p, H, path, d, ev, s),
           NEW q, IsPlan(q), q.memory.last = p.memory.last, q.side = Kept(p.side),
           q.crossings = <<>>, q.accepted = {}, ~q.unlearned,
           p.accepted = {} => q.memory.evaluatedAt = p.memory.evaluatedAt,
           p.accepted # {} /\ p.unlearned => q.memory.evaluatedAt < d.drawn,
           p.accepted # {} /\ ~p.unlearned => ~Learns(q, d),
           NEW G, G = H \cup p.accepted, NEW all, all = ev \o p.crossings
    PROVE  Judges(q, G, path, d, all, q.side)
  <1>1. IsPlan(p) /\ ev \in Seq(Crossing) /\ \A n \in G : n \in Time /\ n <= q.memory.last
    BY DEF Judges
  <1>2. p.crossings \in Seq(Crossing)
    BY <1>1 DEF IsPlan, PlanType
  <1>3. all \in Seq(Crossing) /\ all \o q.crossings = all
    BY <1>1, <1>2
  <1>4. KnownSide(q.side) = KnownSide(p.side) /\ Kept(q.side) = q.side
    BY <1>1, KeptIsKnown
  <1>5. G \cup q.accepted = G
    OBVIOUS
  <1>6. PICK T : T = TellingOf(G, path)
    OBVIOUS
  <1>7. PICK I : I = InsideOf(G, path, d.region)
    OBVIOUS
  <1>8. Told(T, I, p, d, ev)
    BY <1>6, <1>7 DEF Judges
  <1>9. Told(T, I, q, d, all)
    <2>1. CASE T = {}
      <3>1. /\ p.side = NoSide /\ p.crossings = <<>> /\ ev = <<>>
            /\ p.memory.evaluatedAt < d.drawn /\ (p.unlearned <=> p.accepted # {})
        BY <1>8, <2>1 DEF Told
      <3>2. q.side = NoSide
        BY <3>1 DEF Kept, NoSide
      <3>3. all = <<>>
        BY <3>1
      <3>4. q.memory.evaluatedAt < d.drawn
        BY <3>1
      <3> QED
        BY <2>1, <3>2, <3>3, <3>4 DEF Told
    <2>2. CASE T # {}
      <3>1. /\ ~p.unlearned
            /\ p.accepted # {} \/ ~(p.memory.evaluatedAt < d.drawn) \/ Kept(p.side).there
            /\ Follows(T, I, KnownSide(p.side).inside, KnownSide(p.side).pending)
            /\ Announced(ev \o p.crossings, T, I)
        BY <1>8, <2>2 DEF Told
      <3>2. ~Learns(q, d)
        BY <3>1 DEF Learns
      <3>3. ~(q.memory.evaluatedAt < d.drawn) \/ Kept(q.side).there
        BY <1>4, <3>2 DEF Learns
      <3> QED
        BY <1>3, <1>4, <2>2, <3>1, <3>2, <3>3 DEF Told
    <2> QED
      BY <2>1, <2>2
  <1> QED
    BY <1>1, <1>3, <1>4, <1>5, <1>6, <1>7, <1>9 DEF Judges

(* A plan says the same along every route that agrees on its fixes. *)
LEMMA JudgesAlong ==
    ASSUME NEW p, NEW H, NEW path, NEW other, NEW d, NEW ev, NEW s, Judges(p, H, path, d, ev, s),
           \A n \in H \cup p.accepted : path[n] = other[n]
    PROVE  Judges(p, H, other, d, ev, s)
  <1>1. TellingOf(H \cup p.accepted, path) = TellingOf(H \cup p.accepted, other)
    BY DEF TellingOf
  <1>2. InsideOf(H \cup p.accepted, path, d.region) = InsideOf(H \cup p.accepted, other, d.region)
    BY <1>1 DEF InsideOf, TellingOf
  <1> QED
    BY <1>1, <1>2 DEF Judges

(* Nothing planned is a plan. *)
LEMMA NothingIsPlan ==
    ASSUME GeoTypeOK, geofence.drawn \in Nat
    PROVE  /\ IsPlan(NothingPlanned) /\ Kept(side) = side
           /\ NothingPlanned.memory = memory /\ NothingPlanned.side = side /\ NothingPlanned.crossings = <<>>
           /\ NothingPlanned.accepted = {} /\ ~NothingPlanned.touched /\ ~NothingPlanned.unlearned
  <1>1. memory \in Memory
    <2>1. \A e \in 0 .. geofence.drawn : e \in Nat
      OBVIOUS
    <2> QED
      BY <2>1 DEF GeoTypeOK, Memory, Moment
  <1>2. side \in Side /\ (side.there <=> side.inside \/ side.pending # Never)
    BY DEF GeoTypeOK, Side, Moment
  <1>3. NothingPlanned \in PlanType
    <2>1. <<>> \in Seq(Crossing)
      OBVIOUS
    <2> QED
      BY <1>1, <1>2, <2>1 DEF PlanType, NothingPlanned
  <1>4. /\ NothingPlanned.memory = memory /\ NothingPlanned.side = side /\ NothingPlanned.crossings = <<>>
        /\ NothingPlanned.accepted = {} /\ ~NothingPlanned.touched /\ ~NothingPlanned.unlearned
    BY DEF NothingPlanned
  <1>5. Kept(side) = side
    <2>1. ~side.there => side = NoSide
      BY <1>2 DEF Side, NoSide, Never
    <2> QED
      BY <1>2, <2>1 DEF Kept
  <1> QED
    BY <1>2, <1>3, <1>4, <1>5 DEF IsPlan

(* Before any fix has been tested, nothing is said. *)
LEMMA NothingTold ==
    ASSUME NEW p, IsPlan(p), NEW path, NEW d, p.side = NoSide, p.crossings = <<>>, p.accepted = {},
           ~p.unlearned, p.memory.evaluatedAt < d.drawn
    PROVE  Judges(p, {}, path, d, <<>>, NoSide)
  <1>1. TellingOf({} \cup p.accepted, path) = {}
    BY DEF TellingOf
  <1>2. Kept(p.side) = NoSide
    BY DEF Kept, NoSide
  <1>3. <<>> \in Seq(Crossing) /\ {} \cup p.accepted = {}
    OBVIOUS
  <1> QED
    BY <1>1, <1>2, <1>3 DEF Judges, Told

(* Nothing heeded, nothing announced. *)
LEMMA NothingReported == ASSUME NEW I PROVE Announced(<<>>, {}, I)
  BY DEF Announced

(* What was announced does not depend on fixes that were not heeded. *)
LEMMA ReportedAlong ==
    ASSUME NEW A, NEW path, NEW other, NEW region, NEW ev, \A n \in A : path[n] = other[n],
           Announced(ev, TellingOf(A, path), InsideOf(A, path, region))
    PROVE  Announced(ev, TellingOf(A, other), InsideOf(A, other, region))
  <1>1. TellingOf(A, path) = TellingOf(A, other)
    BY DEF TellingOf
  <1>2. InsideOf(A, path, region) = InsideOf(A, other, region)
    BY <1>1 DEF InsideOf, TellingOf
  <1> QED
    BY <1>1, <1>2

(* A plan announces what it heeds. *)
LEMMA JudgesReports ==
    ASSUME NEW p, NEW H, NEW path, NEW d, NEW ev, NEW s, Judges(p, H, path, d, ev, s),
           NEW G, G = H \cup p.accepted
    PROVE  Announced(ev \o p.crossings, TellingOf(G, path), InsideOf(G, path, d.region))
  <1>1. PICK T : T = TellingOf(G, path)
    OBVIOUS
  <1>2. PICK I : I = InsideOf(G, path, d.region)
    OBVIOUS
  <1>3. Told(T, I, p, d, ev)
    BY <1>1, <1>2 DEF Judges
  <1>4. CASE T = {}
    <2>1. p.crossings = <<>> /\ ev = <<>>
      BY <1>3, <1>4 DEF Told
    <2>2. ev \o p.crossings = <<>>
      BY <2>1
    <2> QED
      BY <1>1, <1>2, <1>4, <2>2, NothingReported
  <1>5. CASE T # {}
    BY <1>1, <1>2, <1>3, <1>5 DEF Told
  <1> QED
    BY <1>4, <1>5

(* It holds before any fix. *)
LEMMA GeoInitial == GeoInit => GeoInv
  <1> SUFFICES ASSUME GeoInit
               PROVE  GeoInv
    OBVIOUS
  <1>1. MaxDrawings \in Nat \ {0} /\ REANCHOR_AFTER \in Nat \ {0} /\ 0 \in 0 .. REANCHOR_AFTER - 1
    BY GeofenceAssumption
  <1>2. geofence.drawn = 1 /\ geofence.on = TRUE /\ geofence \in [drawn : 1 .. MaxDrawings, on : BOOLEAN, region : Region]
    <2>1. 1 \in 1 .. MaxDrawings
      BY <1>1
    <2> QED
      BY <2>1 DEF GeoInit
  <1>3. GeoTypeOK
    <2>1. route \in [Time -> Spot \cup {NotTaken}]
      BY DEF GeoInit
    <2>2. memory \in [last : {Never} \cup Time, streak : 0 .. REANCHOR_AFTER - 1,
                      rejected : {Never} \cup Time, evaluatedAt : 0 .. geofence.drawn]
      <3>1. 0 \in 0 .. geofence.drawn
        BY <1>2
      <3> QED
        BY <1>1, <3>1 DEF GeoInit
    <2>3. /\ side \in [there : BOOLEAN, inside : BOOLEAN, pending : {Never} \cup Time]
          /\ side.there <=> side.inside \/ side.pending # Never
      BY DEF GeoInit, NoSide, Never
    <2>4. heldBack \in BOOLEAN
      BY DEF GeoInit
    <2> QED
      BY <1>2, <2>1, <2>2, <2>3, <2>4 DEF GeoTypeOK
  <1>4. PICK p : p = NothingPlanned
    OBVIOUS
  <1>5. /\ IsPlan(p) /\ p.memory = memory /\ p.side = side /\ p.crossings = <<>> /\ p.accepted = {} /\ ~p.unlearned
    BY <1>2, <1>3, <1>4, NothingIsPlan
  <1>6. Judges(p, {}, route, geofence, <<>>, NoSide)
    <2>1. p.side = NoSide /\ p.memory.evaluatedAt < geofence.drawn
      BY <1>2, <1>5 DEF GeoInit
    <2> QED
      BY <1>5, <2>1, NothingTold
  <1>7. FenceFits(NothingPlanned)
    <2>1. Heard = {} /\ Noted = <<>>
      BY DEF Heard, Noted, GeoInit
    <2> QED
      BY <1>2, <1>4, <1>6, <2>1 DEF FenceFits, GeoInit
  <1>8. UploadFits
    BY DEF UploadFits, GeoInit, NoUpload
  <1>9. heeded \subseteq Sent /\ events \in Seq(Crossing) /\ cached = NoDrawing
    BY DEF GeoInit
  <1>10. Reported
    <2>1. heeded = {} /\ events = <<>>
      BY DEF GeoInit
    <2>2. TellingOf(heeded, route) = {}
      BY <2>1 DEF TellingOf
    <2> QED
      BY <2>1, <2>2, NothingReported DEF Reported
  <1> QED
    BY <1>3, <1>7, <1>8, <1>9, <1>10 DEF GeoInv

(* A batch that begins plans what fits. *)
LEMMA GeoIngests == GeoInv /\ ingestOne => GeoInv'
  <1> SUFFICES ASSUME GeoInv, ingestOne
               PROVE  GeoInv'
    OBVIOUS
  <1>1. PICK fences : fences = IF cached # NoDrawing THEN cached ELSE geofence
    OBVIOUS
  <1>2. PICK fixes \in (SUBSET Time) \ {{}} : \E spots \in [fixes -> Spot] :
           /\ \A n \in fixes : route[n] \in {NotTaken, spots[n]}
           /\ route' = [n \in Time |-> IF n \in fixes THEN spots[n] ELSE route[n]]
           /\ \E elsewhere \in memory.evaluatedAt .. geofence.drawn :
                 upload' = [on |-> TRUE, now |-> geofence.drawn, elsewhere |-> elsewhere, drawing |-> fences,
                            plan |-> planGpsBatch(fixes, [n \in Time |-> IF n \in fixes THEN spots[n] ELSE route[n]], fences)]
    BY <1>1 DEF ingestOne
  <1>3. PICK spots \in [fixes -> Spot] :
           /\ \A n \in fixes : route[n] \in {NotTaken, spots[n]}
           /\ route' = [n \in Time |-> IF n \in fixes THEN spots[n] ELSE route[n]]
           /\ \E elsewhere \in memory.evaluatedAt .. geofence.drawn :
                 upload' = [on |-> TRUE, now |-> geofence.drawn, elsewhere |-> elsewhere, drawing |-> fences,
                            plan |-> planGpsBatch(fixes, [n \in Time |-> IF n \in fixes THEN spots[n] ELSE route[n]], fences)]
    BY <1>2
  <1>4. PICK path : path = [n \in Time |-> IF n \in fixes THEN spots[n] ELSE route[n]]
    OBVIOUS
  <1>5. PICK plan : plan = planGpsBatch(fixes, path, fences)
    OBVIOUS
  <1>6. /\ route' = path
        /\ \E elsewhere \in memory.evaluatedAt .. geofence.drawn :
              upload' = [on |-> TRUE, now |-> geofence.drawn, elsewhere |-> elsewhere, drawing |-> fences, plan |-> plan]
    BY <1>3, <1>4, <1>5
  <1>7. /\ cached' = fences
        /\ UNCHANGED <<geofence, memory, side, events, heeded, heldBack, torn>>
    BY <1>1 DEF ingestOne
  <1>8. GeoTypeOK /\ heeded \subseteq Sent /\ events \in Seq(Crossing) /\ (cached = NoDrawing \/ KnownDrawing(cached))
    BY DEF GeoInv
  <1>9. /\ geofence.drawn \in 1 .. MaxDrawings /\ MaxDrawings \in Nat /\ geofence.drawn \in Nat
        /\ geofence.drawn \in 1 .. geofence.drawn /\ geofence \in Drawing
    <2>1. geofence \in [drawn : 1 .. MaxDrawings, on : BOOLEAN, region : Region]
      BY <1>8 DEF GeoTypeOK
    <2>2. MaxDrawings \in Nat
      BY GeofenceAssumption
    <2>3. \A n \in 1 .. MaxDrawings : n \in Nat /\ n \in 1 .. n
      BY <2>2
    <2> QED
      BY <2>1, <2>2, <2>3 DEF Drawing
  <1>10. KnownDrawing(fences)
    BY <1>1, <1>8, <1>9 DEF KnownDrawing
  <1>11. PICK start : start = NothingPlanned
    OBVIOUS
  <1>12. /\ IsPlan(start) /\ start.accepted = {} /\ IsPlan(NothingPlanned)
    BY <1>8, <1>9, <1>11, NothingIsPlan
  <1>13. \A n \in Sent : path[n] = route[n] /\ path[n] # NotTaken
    BY <1>3, <1>4 DEF Sent, Spot, NotTaken
  <1>14. path \in [Time -> Spot \cup {NotTaken}] /\ \A n \in fixes : path[n] # NotTaken
    <2>1. route \in [Time -> Spot \cup {NotTaken}]
      BY <1>8 DEF GeoTypeOK
    <2>2. \A n \in fixes : n \in Time /\ spots[n] \in Spot /\ spots[n] # NotTaken
      BY DEF Spot, NotTaken
    <2> QED
      BY <1>4, <2>1, <2>2
  <1>15. fixes \in SUBSET Time /\ Sent \subseteq Sent' /\ fixes \subseteq Sent'
    BY <1>6, <1>13, <1>14 DEF Sent
  <1>16. /\ IsPlan(plan) /\ plan.accepted \subseteq fixes
         /\ plan.memory.evaluatedAt = memory.evaluatedAt
         /\ ~fences.on => plan.side = side /\ plan.crossings = <<>> /\ ~plan.touched /\ ~plan.unlearned
    <2>1. KeepsTo(plan, fixes, fences)
      BY ONLY <1>5, <1>12, <1>15, BatchKeeps
    <2> QED
      BY <2>1 DEF KeepsTo
  <1>17. NothingPlanned' = NothingPlanned /\ Heard' = Heard /\ Noted' = Noted
    <2>1. NothingPlanned' = NothingPlanned
      BY <1>7 DEF NothingPlanned
    <2>2. Forgotten(geofence)' <=> Forgotten(geofence)
      BY <1>7, <2>1 DEF Forgotten
    <2> QED
      BY <1>7, <2>1, <2>2 DEF Heard, Noted
  <1>18. PICK H : H = Heard
    OBVIOUS
  <1>19. PICK ev : ev = Noted
    OBVIOUS
  <1>20. H \subseteq Sent /\ \A n \in H \cup start.accepted : route[n] = path[n]
    BY <1>8, <1>12, <1>13, <1>18 DEF Heard
  <1>21. ASSUME ~torn, geofence.on
         PROVE  Judges(start, H, path, geofence, ev, side)
    <2>1. Judges(start, H, route, geofence, ev, side)
      BY <1>11, <1>18, <1>19, <1>21 DEF GeoInv, FenceFits
    <2> QED
      BY ONLY <1>20, <2>1, JudgesAlong
  <1>22. ASSUME ~torn, fences.drawn = geofence.drawn
         PROVE  IF geofence.on THEN Judges(plan, H, path, geofence, ev, side)
                ELSE heeded = {} /\ events = <<>> /\ plan.crossings = <<>>
    <2>1. fences = geofence /\ FenceFits(start)
      BY <1>10, <1>11, <1>22 DEF KnownDrawing, GeoInv
    <2>2. CASE ~geofence.on
      BY <1>16, <2>1, <2>2 DEF FenceFits
    <2>3. CASE geofence.on
      <3>1. Judges(NothingPlanned, H, path, fences, ev, side) /\ fences.on
        BY <1>11, <1>21, <1>22, <2>1, <2>3
      <3>2. Judges(plan, H, path, fences, ev, side)
        BY ONLY <1>5, <1>15, <3>1, BatchJudges
      <3> QED
        BY <2>1, <2>3, <3>2
    <2> QED
      BY <2>2, <2>3
  <1>23. UploadFits'
    <2>1. /\ upload'.now = geofence.drawn /\ upload'.drawing = fences /\ upload'.plan = plan
          /\ upload'.elsewhere \in memory.evaluatedAt .. geofence.drawn
      BY <1>6
    <2>2. KnownDrawing(fences)'
      BY <1>7, <1>10 DEF KnownDrawing
    <2>3. /\ geofence'.drawn = geofence.drawn /\ plan.memory.evaluatedAt = memory'.evaluatedAt
          /\ plan.accepted \subseteq Sent' /\ geofence.drawn \in 1 .. geofence'.drawn
      BY <1>7, <1>9, <1>15, <1>16
    <2>4. torn' = torn /\ (~torn /\ fences.drawn = geofence.drawn => FenceFits(plan)')
      BY <1>6, <1>7, <1>17, <1>18, <1>19, <1>22 DEF FenceFits
    <2>5. upload'.elsewhere \in 0 .. geofence'.drawn
      <3>1. memory.evaluatedAt \in 0 .. geofence.drawn
        BY <1>8 DEF GeoTypeOK
      <3> QED
        BY <1>9, <2>1, <2>3, <3>1
    <2> QED
      BY <1>16, <2>1, <2>2, <2>3, <2>4, <2>5 DEF UploadFits, KnownDrawing
  <1>24. ~torn' => FenceFits(NothingPlanned)'
    <2> SUFFICES ASSUME ~torn
                 PROVE  FenceFits(NothingPlanned)'
      BY <1>7
    <2>1. FenceFits(start) /\ start = NothingPlanned'
      BY <1>11, <1>17 DEF GeoInv
    <2>2. CASE geofence.on
      BY <1>6, <1>7, <1>17, <1>18, <1>19, <1>21, <2>1, <2>2 DEF FenceFits
    <2>3. CASE ~geofence.on
      BY <1>7, <2>1, <2>3 DEF FenceFits
    <2> QED
      BY <2>2, <2>3
  <1>25. ~torn' => Reported'
    <2> SUFFICES ASSUME ~torn
                 PROVE  Reported'
      BY <1>7
    <2>1. PICK A : A = heeded
      OBVIOUS
    <2>2. PICK said : said = events
      OBVIOUS
    <2>3. Announced(said, TellingOf(A, route), InsideOf(A, route, geofence.region))
      BY <2>1, <2>2 DEF GeoInv, Reported
    <2>4. \A n \in A : route[n] = path[n]
      BY <1>8, <1>13, <2>1
    <2>5. Announced(said, TellingOf(A, path), InsideOf(A, path, geofence.region))
      BY ONLY <2>3, <2>4, ReportedAlong
    <2> QED
      BY <1>6, <1>7, <2>1, <2>2, <2>5 DEF Reported
  <1>26. GeoTypeOK'
    BY <1>6, <1>7, <1>8, <1>14 DEF GeoTypeOK
  <1>27. heeded' \subseteq Sent' /\ events' \in Seq(Crossing) /\ KnownDrawing(cached)'
    <2>1. KnownDrawing(cached)'
      BY <1>7, <1>10 DEF KnownDrawing
    <2> QED
      BY <1>7, <1>8, <1>15, <2>1
  <1> QED
    BY <1>23, <1>24, <1>25, <1>26, <1>27 DEF GeoInv

(* How far the fence was drawn, as numbers. *)
LEMMA DrawnSoFar ==
    ASSUME GeoTypeOK
    PROVE  /\ geofence.drawn \in 1 .. MaxDrawings /\ MaxDrawings \in Nat /\ geofence.drawn \in Nat
           /\ geofence \in Drawing
  <1>1. geofence \in [drawn : 1 .. MaxDrawings, on : BOOLEAN, region : Region]
    BY DEF GeoTypeOK
  <1>2. MaxDrawings \in Nat
    BY GeofenceAssumption
  <1>3. \A n \in 1 .. MaxDrawings : n \in Nat
    BY <1>2
  <1> QED
    BY <1>1, <1>2, <1>3 DEF Drawing

(* When the tracker was last tested, as it is stored. *)
TestedAt(plan, used, elsewhere) ==
    IF plan.accepted = {} THEN memory.evaluatedAt
    ELSE IF plan.unlearned THEN Earlier(elsewhere, used.drawn - 1) ELSE elsewhere

(* What it stores fits, if the fence was not redrawn meanwhile. *)
LEMMA GeoCommits == GeoInv /\ commitState => GeoInv'
  <1> SUFFICES ASSUME GeoInv, commitState
               PROVE  GeoInv'
    OBVIOUS
  <1>1. PICK used : used = upload.drawing
    OBVIOUS
  <1>2. PICK plan : plan = upload.plan
    OBVIOUS
  <1>3. PICK now : now = upload.now
    OBVIOUS
  <1>3a. PICK elsewhere : elsewhere = upload.elsewhere
    OBVIOUS
  <1>4. PICK e : e = TestedAt(plan, used, elsewhere)
    OBVIOUS
  <1>4a. PICK anew \in BOOLEAN : anew <=> Forgotten(used)
    OBVIOUS
  <1>5. /\ memory' = [plan.memory EXCEPT !.evaluatedAt = e]
        /\ side' = IF plan.touched THEN Kept(plan.side) ELSE side
        /\ events' = (IF anew THEN <<>> ELSE events) \o plan.crossings
        /\ heeded' = (IF anew THEN {} ELSE heeded) \cup (IF used.on THEN plan.accepted ELSE {})
        /\ heldBack' = IF plan.accepted = {} THEN heldBack ELSE elsewhere < used.drawn
        /\ torn' = (torn \/ {used.drawn, now} # {geofence.drawn})
        /\ upload' = NoUpload /\ upload.on
    BY <1>1, <1>2, <1>3, <1>4, <1>3a, <1>4a DEF commitState, TestedAt
  <1>6. route' = route /\ geofence' = geofence /\ cached' = cached
    BY DEF commitState
  <1>7. /\ GeoTypeOK /\ heeded \subseteq Sent /\ events \in Seq(Crossing)
        /\ cached = NoDrawing \/ KnownDrawing(cached)
    BY DEF GeoInv
  <1>8. /\ geofence.drawn \in 1 .. MaxDrawings /\ MaxDrawings \in Nat /\ geofence.drawn \in Nat
        /\ geofence \in Drawing
    BY <1>7, DrawnSoFar
  <1>9. /\ now \in 1 .. geofence.drawn /\ elsewhere \in 0 .. geofence.drawn /\ KnownDrawing(used)
        /\ IsPlan(plan) /\ plan.accepted \subseteq Sent /\ plan.memory.evaluatedAt = memory.evaluatedAt
        /\ ~torn /\ now = geofence.drawn /\ used.drawn = geofence.drawn => FenceFits(plan)
    BY <1>1, <1>2, <1>3, <1>5, <1>3a DEF GeoInv, UploadFits
  <1>10. /\ used.drawn \in 1 .. geofence.drawn /\ now \in Nat /\ elsewhere \in Nat
         /\ used.drawn \in Nat /\ used.drawn >= 1
    BY <1>8, <1>9 DEF KnownDrawing
  <1>11. memory.evaluatedAt \in 0 .. geofence.drawn
    BY <1>7 DEF GeoTypeOK
  <1>12. e \in 0 .. geofence.drawn
    <2>1. Earlier(elsewhere, used.drawn - 1) \in 0 .. geofence.drawn
      BY <1>8, <1>9, <1>10 DEF Earlier
    <2> QED
      BY <1>4, <1>9, <1>11, <2>1 DEF TestedAt
  <1>13. /\ plan.memory \in Memory /\ plan.side \in Side /\ plan.crossings \in Seq(Crossing)
         /\ plan.touched \in BOOLEAN /\ plan.unlearned \in BOOLEAN
    BY <1>9 DEF IsPlan, PlanType
  <1>14. GeoTypeOK'
    <2>1. memory' \in [last : {Never} \cup Time, streak : 0 .. REANCHOR_AFTER - 1,
                       rejected : {Never} \cup Time, evaluatedAt : 0 .. geofence'.drawn]
      BY <1>5, <1>6, <1>12, <1>13 DEF Memory, Moment
    <2>2. PICK s : s = Kept(plan.side)
      OBVIOUS
    <2>3. s \in Side /\ (s.there <=> s.inside \/ s.pending # Never)
      BY ONLY <1>9, <2>2, KeptIsKnown
    <2>4. side' = s \/ side' = side
      BY <1>5, <2>2
    <2>5. /\ side' \in [there : BOOLEAN, inside : BOOLEAN, pending : {Never} \cup Time]
          /\ side'.there <=> side'.inside \/ side'.pending # Never
      BY <1>7, <2>3, <2>4 DEF GeoTypeOK, Side, Moment
    <2>6. heldBack' \in BOOLEAN
      <3>1. heldBack \in BOOLEAN
        BY <1>7 DEF GeoTypeOK
      <3>2. CASE plan.accepted = {}
        BY <1>5, <3>1, <3>2
      <3>3. CASE plan.accepted # {}
        <4>1. heldBack' = (elsewhere < used.drawn)
          BY <1>5, <3>3
        <4> QED
          BY <4>1
      <3> QED
        BY <3>2, <3>3
    <2> QED
      BY <1>6, <1>7, <2>1, <2>5, <2>6 DEF GeoTypeOK
  <1>15. heeded' \subseteq Sent' /\ events' \in Seq(Crossing)
    <2>1. Sent' = Sent
      BY <1>6 DEF Sent
    <2>2. heeded' \subseteq Sent
      BY <1>5, <1>7, <1>9
    <2>3. PICK before : before = IF anew THEN <<>> ELSE events
      OBVIOUS
    <2>4. before \in Seq(Crossing)
      BY <1>7, <2>3
    <2> QED
      BY <1>5, <1>13, <2>1, <2>2, <2>3, <2>4
  <1>16. (cached = NoDrawing \/ KnownDrawing(cached))'
    BY <1>6, <1>7 DEF KnownDrawing
  <1>17. UploadFits'
    BY <1>5 DEF UploadFits, NoUpload
  <1>18. ~torn' => FenceFits(NothingPlanned)' /\ Reported'
    <2> SUFFICES ASSUME ~torn'
                 PROVE  FenceFits(NothingPlanned)' /\ Reported'
      OBVIOUS
    <2>1. ~torn /\ used.drawn = geofence.drawn /\ now = geofence.drawn
      BY <1>5
    <2>2. FenceFits(plan) /\ used = geofence
      BY <1>9, <2>1 DEF KnownDrawing
    <2>3. CASE ~geofence.on
      <3>1. heeded = {} /\ events = <<>> /\ plan.crossings = <<>>
        BY <2>2, <2>3 DEF FenceFits
      <3>2. heeded' = {} /\ events' = <<>>
        BY <1>5, <2>2, <2>3, <3>1
      <3>3. NothingPlanned'.crossings = <<>>
        BY DEF NothingPlanned
      <3>4. TellingOf(heeded', route') = {}
        BY <3>2 DEF TellingOf
      <3>5. Reported'
        BY <3>2, <3>4, NothingReported DEF Reported
      <3> QED
        BY <1>6, <2>3, <3>2, <3>3, <3>5 DEF FenceFits
    <2>4. CASE geofence.on
      <3>1. PICK before : before = Heard
        OBVIOUS
      <3>2. PICK noted : noted = Noted
        OBVIOUS
      <3>3. Judges(plan, before, route, geofence, noted, side)
        BY <2>2, <2>4, <3>1, <3>2 DEF FenceFits
      <3>4. PICK H : H = before \cup plan.accepted
        OBVIOUS
      <3>5. PICK all : all = noted \o plan.crossings
        OBVIOUS
      <3>6. heeded' = H /\ events' = all
        BY <1>5, <1>4a, <2>2, <2>4, <3>1, <3>2, <3>4, <3>5 DEF Heard, Noted
      <3>7. Reported'
        <4>1. Announced(all, TellingOf(H, route), InsideOf(H, route, geofence.region))
          BY ONLY <3>3, <3>4, <3>5, JudgesReports
        <4> QED
          BY <1>6, <3>6, <4>1 DEF Reported
      <3>8. PICK q : q = NothingPlanned'
        OBVIOUS
      <3>9. /\ IsPlan(q) /\ q.memory = memory' /\ q.side = side' /\ q.crossings = <<>>
            /\ q.accepted = {} /\ ~q.unlearned
        <4>1. GeoTypeOK' /\ geofence'.drawn \in Nat
          BY <1>6, <1>8, <1>14
        <4>2. (GeoTypeOK /\ geofence.drawn \in Nat =>
                 /\ IsPlan(NothingPlanned) /\ NothingPlanned.memory = memory
                 /\ NothingPlanned.side = side /\ NothingPlanned.crossings = <<>>
                 /\ NothingPlanned.accepted = {} /\ ~NothingPlanned.unlearned)'
          BY NothingIsPlan, PTL
        <4> QED
          BY <3>8, <4>1, <4>2 DEF IsPlan, PlanType
      <3>10. Forgotten(geofence)' <=> heldBack' /\ Learns(q, geofence)
        BY <1>6, <3>8 DEF Forgotten
      <3>11. CASE Forgotten(geofence)'
        <4>1. q.side = NoSide /\ q.memory.evaluatedAt < geofence.drawn
          <5>1. ~q.side.there /\ q.memory.evaluatedAt < geofence.drawn
            BY <3>10, <3>11 DEF Learns
          <5>2. /\ side' \in [there : BOOLEAN, inside : BOOLEAN, pending : {Never} \cup Time]
                /\ side'.there <=> side'.inside \/ side'.pending # Never
            BY <1>14 DEF GeoTypeOK
          <5> QED
            BY <3>9, <5>1, <5>2 DEF NoSide, Never
        <4>2. Judges(q, {}, route, geofence, <<>>, NoSide)
          BY <3>9, <4>1, NothingTold
        <4>3. Heard' = {} /\ Noted' = <<>>
          BY <3>11 DEF Heard, Noted
        <4> QED
          BY <1>6, <2>4, <3>7, <3>8, <3>9, <4>1, <4>2, <4>3 DEF FenceFits
      <3>12. CASE ~Forgotten(geofence)'
        <4>1. side' = Kept(plan.side)
          BY <1>5, <3>3 DEF Judges
        <4>2. q.memory.last = plan.memory.last /\ q.memory.evaluatedAt = e
          BY <1>5, <1>13, <3>9 DEF Memory
        <4>3. /\ plan.accepted = {} => e = plan.memory.evaluatedAt
              /\ plan.accepted # {} /\ plan.unlearned => e < geofence.drawn
              /\ plan.accepted # {} /\ ~plan.unlearned => e = elsewhere
          <5>1. Earlier(elsewhere, used.drawn - 1) < geofence.drawn
            BY <1>8, <1>10, <2>1 DEF Earlier
          <5> QED
            BY <1>4, <1>9, <2>1, <5>1 DEF TestedAt
        <4>4. ASSUME plan.accepted # {}, ~plan.unlearned
              PROVE  ~Learns(q, geofence)
          <5>1. CASE elsewhere < used.drawn
            BY <1>5, <3>10, <3>12, <4>4, <5>1
          <5>2. CASE ~(elsewhere < used.drawn)
            BY <2>1, <4>2, <4>3, <4>4, <5>2 DEF Learns
          <5> QED
            BY <5>1, <5>2
        <4>5. Judges(q, H, route, geofence, all, q.side)
          <5>1. /\ q.side = Kept(plan.side)
                /\ plan.accepted = {} => q.memory.evaluatedAt = plan.memory.evaluatedAt
                /\ plan.accepted # {} /\ plan.unlearned => q.memory.evaluatedAt < geofence.drawn
                /\ plan.accepted # {} /\ ~plan.unlearned => ~Learns(q, geofence)
            BY <3>9, <4>1, <4>2, <4>3, <4>4
          <5> QED
            BY ONLY <1>8, <3>3, <3>4, <3>5, <3>9, <4>2, <5>1, JudgesRest
        <4>6. Heard' = H /\ Noted' = all
          BY <3>6, <3>12 DEF Heard, Noted
        <4> QED
          BY <1>6, <2>4, <3>7, <3>8, <3>9, <4>5, <4>6 DEF FenceFits
      <3> QED
        BY <3>11, <3>12
    <2> QED
      BY <2>3, <2>4
  <1> QED
    BY <1>14, <1>15, <1>16, <1>17, <1>18 DEF GeoInv

(* A batch that fails leaves everything as it was. *)
LEMMA GeoFails == GeoInv /\ UploadFails => GeoInv'
  <1> SUFFICES ASSUME GeoInv, UploadFails
               PROVE  GeoInv'
    OBVIOUS
  <1>1. UNCHANGED <<route, geofence, cached, memory, side, events, uploads, heeded, heldBack, torn>> /\ upload' = NoUpload
    BY DEF UploadFails
  <1>2. GeoTypeOK'
    BY <1>1 DEF GeoInv, GeoTypeOK
  <1>3. heeded' \subseteq Sent' /\ events' \in Seq(Crossing) /\ (cached = NoDrawing \/ KnownDrawing(cached))'
    BY <1>1 DEF GeoInv, Sent, KnownDrawing
  <1>4. UploadFits'
    BY <1>1 DEF UploadFits, NoUpload
  <1>5. ~torn' => FenceFits(NothingPlanned)' /\ Reported'
    <2>1. NothingPlanned' = NothingPlanned
      BY <1>1 DEF NothingPlanned
    <2>2. Heard' = Heard /\ Noted' = Noted
      BY <1>1, <2>1 DEF Heard, Noted, Forgotten
    <2> QED
      BY <1>1, <2>1, <2>2 DEF GeoInv, FenceFits, Reported
  <1> QED
    BY <1>2, <1>3, <1>4, <1>5 DEF GeoInv

(* The copy of the fence may be forgotten at any time. *)
LEMMA GeoForgets == GeoInv /\ invalidateFences => GeoInv'
  <1> SUFFICES ASSUME GeoInv, invalidateFences
               PROVE  GeoInv'
    OBVIOUS
  <1>1. UNCHANGED <<route, geofence, memory, side, events, upload, uploads, heeded, heldBack, torn>> /\ cached' = NoDrawing
    BY DEF invalidateFences
  <1>2. GeoTypeOK'
    BY <1>1 DEF GeoInv, GeoTypeOK
  <1>3. heeded' \subseteq Sent' /\ events' \in Seq(Crossing)
    BY <1>1 DEF GeoInv, Sent
  <1>4. NothingPlanned' = NothingPlanned /\ Sent' = Sent
    BY <1>1 DEF NothingPlanned, Sent
  <1>4a. Heard' = Heard /\ Noted' = Noted
    BY <1>1, <1>4 DEF Heard, Noted, Forgotten
  <1>5. FenceFits(upload.plan)' = FenceFits(upload.plan) /\ KnownDrawing(upload.drawing)' = KnownDrawing(upload.drawing)
    BY <1>1, <1>4a DEF FenceFits, KnownDrawing
  <1>6. UploadFits'
    BY <1>1, <1>4, <1>5 DEF GeoInv, UploadFits
  <1>7. ~torn' => FenceFits(NothingPlanned)' /\ Reported'
    BY <1>1, <1>4, <1>4a DEF GeoInv, FenceFits, Reported
  <1> QED
    BY <1>1, <1>2, <1>3, <1>6, <1>7 DEF GeoInv

(* A new drawing begins anew. *)
LEMMA GeoRedraws == GeoInv /\ updateGeofence => GeoInv'
  <1> SUFFICES ASSUME GeoInv, updateGeofence
               PROVE  GeoInv'
    OBVIOUS
  <1>1. /\ geofence.drawn < MaxDrawings
        /\ geofence' \in [drawn : {geofence.drawn + 1}, on : BOOLEAN, region : Region]
        /\ side' = NoSide /\ events' = <<>> /\ heeded' = {} /\ heldBack' = FALSE
        /\ UNCHANGED <<route, cached, memory, upload, uploads>>
    BY DEF updateGeofence
  <1>2. /\ GeoTypeOK /\ (cached = NoDrawing \/ KnownDrawing(cached)) /\ UploadFits
    BY DEF GeoInv
  <1>3. /\ geofence.drawn \in 1 .. MaxDrawings /\ MaxDrawings \in Nat /\ geofence.drawn \in Nat
    BY <1>2, DrawnSoFar
  <1>4. /\ geofence'.drawn = geofence.drawn + 1 /\ geofence'.drawn \in 1 .. MaxDrawings
        /\ geofence' \in [drawn : 1 .. MaxDrawings, on : BOOLEAN, region : Region]
        /\ geofence'.drawn \in Nat
    BY <1>1, <1>3
  <1>5. \A n \in 0 .. geofence.drawn : n \in 0 .. geofence'.drawn /\ n < geofence'.drawn
    BY <1>3, <1>4
  <1>6. \A n \in 1 .. geofence.drawn : n \in 1 .. geofence'.drawn /\ n # geofence'.drawn
    BY <1>3, <1>4
  <1>7. GeoTypeOK'
    <2>1. /\ side' \in [there : BOOLEAN, inside : BOOLEAN, pending : {Never} \cup Time]
          /\ side'.there <=> side'.inside \/ side'.pending # Never
      BY <1>1 DEF NoSide, Never
    <2>2. memory' \in [last : {Never} \cup Time, streak : 0 .. REANCHOR_AFTER - 1,
                       rejected : {Never} \cup Time, evaluatedAt : 0 .. geofence'.drawn]
      BY <1>1, <1>2, <1>5 DEF GeoTypeOK
    <2> QED
      BY <1>1, <1>2, <1>4, <2>1, <2>2 DEF GeoTypeOK
  <1>8. \A d : KnownDrawing(d) => KnownDrawing(d)' /\ d.drawn # geofence'.drawn
    BY <1>6 DEF KnownDrawing
  <1>9. (cached = NoDrawing \/ KnownDrawing(cached))'
    <2>1. KnownDrawing(cached) => KnownDrawing(cached)'
      BY <1>1, <1>6 DEF KnownDrawing
    <2> QED
      BY <1>1, <1>2, <2>1
  <1>10. UploadFits'
    <2>1. Sent' = Sent
      BY <1>1 DEF Sent
    <2>2. KnownDrawing(upload.drawing) => KnownDrawing(upload.drawing)'
      BY <1>1, <1>6 DEF KnownDrawing
    <2> QED
      BY <1>1, <1>2, <1>5, <1>6, <2>1, <2>2 DEF UploadFits
  <1>11. FenceFits(NothingPlanned)'
    <2>1. PICK q : q = NothingPlanned'
      OBVIOUS
    <2>2. /\ IsPlan(q) /\ q.memory = memory' /\ q.side = side' /\ q.crossings = <<>>
          /\ q.accepted = {} /\ ~q.unlearned
      <3>1. (GeoTypeOK /\ geofence.drawn \in Nat =>
               /\ IsPlan(NothingPlanned) /\ NothingPlanned.memory = memory
               /\ NothingPlanned.side = side /\ NothingPlanned.crossings = <<>>
               /\ NothingPlanned.accepted = {} /\ ~NothingPlanned.unlearned)'
        BY NothingIsPlan, PTL
      <3> QED
        BY <1>4, <1>7, <2>1, <3>1 DEF IsPlan, PlanType
    <2>3. q.side = NoSide /\ q.memory.evaluatedAt < geofence'.drawn
      <3>1. memory.evaluatedAt \in 0 .. geofence.drawn
        BY <1>2 DEF GeoTypeOK
      <3> QED
        BY <1>1, <1>5, <2>2, <3>1
    <2>4. Judges(q, {}, route', geofence', <<>>, NoSide)
      BY <2>2, <2>3, NothingTold
    <2>5. Heard' = {} /\ Noted' = <<>>
      BY <1>1 DEF Heard, Noted
    <2> QED
      BY <1>1, <2>1, <2>2, <2>4, <2>5 DEF FenceFits
  <1>12. Reported'
    <2>1. TellingOf(heeded', route') = {}
      BY <1>1 DEF TellingOf
    <2> QED
      BY <1>1, <2>1, NothingReported DEF Reported
  <1> QED
    BY <1>1, <1>7, <1>9, <1>10, <1>11, <1>12 DEF GeoInv

(* Steps of others change nothing. *)
LEMMA GeoRests == GeoInv /\ UNCHANGED geoVars => GeoInv'
  <1> SUFFICES ASSUME GeoInv, UNCHANGED geoVars
               PROVE  GeoInv'
    OBVIOUS
  <1>1. UNCHANGED <<route, geofence, cached, memory, side, events, upload, heeded, heldBack, torn>>
    BY DEF geoVars
  <1>2. GeoTypeOK'
    BY <1>1 DEF GeoInv, GeoTypeOK
  <1>3. NothingPlanned' = NothingPlanned /\ Sent' = Sent
    BY <1>1 DEF NothingPlanned, Sent
  <1>3a. Heard' = Heard /\ Noted' = Noted
    BY <1>1, <1>3 DEF Heard, Noted, Forgotten
  <1>4. FenceFits(upload.plan)' = FenceFits(upload.plan) /\ KnownDrawing(upload.drawing)' = KnownDrawing(upload.drawing)
    BY <1>1, <1>3a DEF FenceFits, KnownDrawing
  <1>5. UploadFits'
    BY <1>1, <1>3, <1>4 DEF GeoInv, UploadFits
  <1>6. ~torn' => FenceFits(NothingPlanned)' /\ Reported'
    BY <1>1, <1>3, <1>3a DEF GeoInv, FenceFits, Reported
  <1>7. (cached = NoDrawing \/ KnownDrawing(cached))'
    BY <1>1 DEF GeoInv, KnownDrawing
  <1>8. heeded' \subseteq Sent' /\ events' \in Seq(Crossing)
    BY <1>1, <1>3 DEF GeoInv
  <1> QED
    BY <1>2, <1>5, <1>6, <1>7, <1>8 DEF GeoInv

(* ingest.ts:110-250, geofences.ts:159-161: at every step, what is stored of the tracker and
   the fence follows from the fixes that were heeded since the tracker was last learned, and
   so does what a batch is about to store, unless the fence was redrawn under it. *)
THEOREM GeoInvariant == GeoSpec => []GeoInv
  <1>1. GeoInv /\ [GeoNext]_geoVars => GeoInv'
    BY GeoIngests, GeoCommits, GeoFails, GeoForgets, GeoRedraws, GeoRests DEF GeoNext
  <1> QED
    BY <1>1, GeoInitial, PTL DEF GeoSpec

(* The fixes that count, as the lemmas above name them. *)
LEMMA Names ==
    ASSUME GeoTypeOK, heeded \subseteq Time
    PROVE  \E T \in SUBSET Nat : \E I :
             /\ T = Telling /\ T = TellingOf(heeded, route)
             /\ I = InsideOf(heeded, route, geofence.region)
             /\ \A n \in T : Inside(n) <=> n \in I
             /\ \A n \in T, m \in T : Between(n, m) = Within(T, n, m)
             /\ \A n \in T, m \in T : HeldUntil(n, m) <=> Holds(T, I, n, m)
             /\ \A n \in T : n \in Stays <=> IsStay(T, I, n)
  <1>1. PICK T : T = Telling
    OBVIOUS
  <1>2. PICK I : I = InsideOf(heeded, route, geofence.region)
    OBVIOUS
  <1>3. T = TellingOf(heeded, route)
    BY <1>1 DEF Telling, TellingOf
  <1>4. T \in SUBSET Nat
    <2>1. Time \subseteq Nat
      BY DEF Time
    <2>2. Telling \subseteq heeded
      BY DEF Telling
    <2> QED
      BY <1>1, <2>1, <2>2
  <1>5. \A n \in T : Inside(n) <=> n \in I
    BY <1>2, <1>3 DEF Inside, InsideOf
  <1>6. \A n \in T, m \in T : Between(n, m) = Within(T, n, m)
    BY <1>1 DEF Between, Within
  <1>7. \A n \in T, m \in T : HeldUntil(n, m) <=> Holds(T, I, n, m)
    <2> SUFFICES ASSUME NEW n \in T, NEW m \in T
                 PROVE  HeldUntil(n, m) <=> Holds(T, I, n, m)
      OBVIOUS
    <2>1. \A k \in Within(T, n, m) : (Inside(k) <=> k \in I) /\ (Inside(n) <=> n \in I)
      BY <1>5 DEF Within
    <2>2. PICK B : B = Within(T, n, m)
      OBVIOUS
    <2>3. Between(n, m) = B
      BY <1>6, <2>2
    <2>4. (\A k \in B : Inside(k) = Inside(n)) <=> (\A k \in B : k \in I <=> n \in I)
      BY <2>1, <2>2 DEF Inside
    <2> QED
      BY <2>2, <2>3, <2>4 DEF HeldUntil, Holds
  <1>8. \A n \in T : Begins(n) <=> StartsAt(T, I, n)
    <2> SUFFICES ASSUME NEW n \in T
                 PROVE  Begins(n) <=> StartsAt(T, I, n)
      OBVIOUS
    <2>1. \A m \in T : /\ Between(m, n) = Within(T, m, n)
                       /\ Inside(m) # Inside(n) <=> ~(m \in I <=> n \in I)
      BY <1>5, <1>6 DEF Inside
    <2> QED
      BY <1>1, <2>1 DEF Begins, StartsAt
  <1>9. \A n \in T : n \in Stays <=> IsStay(T, I, n)
    BY <1>1, <1>7, <1>8 DEF Stays, First, IsStay
  <1> QED
    BY <1>1, <1>2, <1>3, <1>4, <1>5, <1>6, <1>7, <1>9

(* A crossing, and the set of them. *)
CrossingOf(T, I, n, m) ==
    [kind |-> IF n \in I THEN "entered" ELSE "exited", occurredAt |-> n, confirmedAt |-> m]
(* When a crossing was confirmed, as the property says it. *)
ConfirmedAt(n) == CHOOSE m \in Telling : HeldUntil(n, m) /\ \A k \in Telling : HeldUntil(n, k) => m <= k
(* The stays that cross, as the property says it. *)
Turns == {n \in Stays : \E m \in Stays : m < n /\ Inside(m) # Inside(n) /\ ~\E k \in Stays : m < k /\ k < n}

(* They are the turns of the fixes that count. *)
LEMMA CrossedIs ==
    ASSUME GeoTypeOK, heeded \subseteq Time
    PROVE  \E T \in SUBSET Nat : \E I :
             /\ T = TellingOf(heeded, route) /\ I = InsideOf(heeded, route, geofence.region)
             /\ \A n : n \in Turns <=> IsTurn(T, I, n)
             /\ \A n, m : IsTurn(T, I, n) /\ IsConfirmed(T, I, n, m) => ConfirmedAt(n) = m
             /\ Crossed = {CrossingOf(T, I, n, ConfirmedAt(n)) : n \in Turns}
  <1>1. PICK T \in SUBSET Nat : \E I :
             /\ T = Telling /\ T = TellingOf(heeded, route)
             /\ I = InsideOf(heeded, route, geofence.region)
             /\ \A n \in T : Inside(n) <=> n \in I
             /\ \A n \in T, m \in T : Between(n, m) = Within(T, n, m)
             /\ \A n \in T, m \in T : HeldUntil(n, m) <=> Holds(T, I, n, m)
             /\ \A n \in T : n \in Stays <=> IsStay(T, I, n)
    BY Names
  <1>2. PICK I :
             /\ T = Telling /\ T = TellingOf(heeded, route)
             /\ I = InsideOf(heeded, route, geofence.region)
             /\ \A n \in T : Inside(n) <=> n \in I
             /\ \A n \in T, m \in T : Between(n, m) = Within(T, n, m)
             /\ \A n \in T, m \in T : HeldUntil(n, m) <=> Holds(T, I, n, m)
             /\ \A n \in T : n \in Stays <=> IsStay(T, I, n)
    BY <1>1
  <1>3. Stays \subseteq T
    BY <1>2 DEF Stays
  <1>4. \A n : IsStay(T, I, n) => n \in T
    BY DEF IsStay
  <1>5. \A n : n \in Turns <=> IsTurn(T, I, n)
    <2> SUFFICES ASSUME NEW n
                 PROVE  n \in Turns <=> IsTurn(T, I, n)
      OBVIOUS
    <2>1. \A k : k \in Stays <=> IsStay(T, I, k)
      BY <1>2, <1>3, <1>4
    <2>2. \A m \in T : n \in T => (Inside(m) # Inside(n) <=> ~(m \in I <=> n \in I))
      BY <1>2 DEF Inside
    <2>3. ASSUME n \in Turns
          PROVE  IsTurn(T, I, n)
      <3>1. PICK m \in Stays : m < n /\ Inside(m) # Inside(n) /\ ~\E k \in Stays : m < k /\ k < n
        BY <2>3 DEF Turns
      <3>2. m \in T /\ n \in T /\ IsStay(T, I, m) /\ IsStay(T, I, n)
        BY <1>3, <2>1, <2>3, <3>1 DEF Turns
      <3> QED
        BY <2>1, <2>2, <3>1, <3>2 DEF IsTurn
    <2>4. ASSUME IsTurn(T, I, n)
          PROVE  n \in Turns
      <3>1. PICK m \in T : /\ IsStay(T, I, m) /\ m < n /\ ~(m \in I <=> n \in I)
                           /\ ~\E k \in T : IsStay(T, I, k) /\ m < k /\ k < n
        BY <2>4 DEF IsTurn
      <3>2. n \in Stays /\ m \in Stays /\ n \in T
        BY <1>3, <2>1, <2>4, <3>1 DEF IsTurn
      <3>3. ~\E k \in Stays : m < k /\ k < n
        BY <1>3, <2>1, <3>1
      <3> QED
        BY <2>2, <3>1, <3>2, <3>3 DEF Turns
    <2> QED
      BY <2>3, <2>4
  <1>6. ASSUME NEW n, NEW m, IsTurn(T, I, n), IsConfirmed(T, I, n, m)
        PROVE  ConfirmedAt(n) = m
    <2>1. n \in T /\ m \in T /\ m \in Nat
      BY <1>6 DEF IsTurn, IsStay, IsConfirmed
    <2>2. HeldUntil(n, m) /\ \A k \in Telling : HeldUntil(n, k) => m <= k
      BY <1>2, <1>6, <2>1 DEF IsConfirmed
    <2>3. \A x \in Telling : (HeldUntil(n, x) /\ \A k \in Telling : HeldUntil(n, k) => x <= k) => x = m
      <3> SUFFICES ASSUME NEW x \in Telling, HeldUntil(n, x), \A k \in Telling : HeldUntil(n, k) => x <= k
                   PROVE  x = m
        OBVIOUS
      <3>1. x <= m /\ m <= x /\ x \in Nat
        BY <1>2, <2>1, <2>2
      <3> QED
        BY <2>1, <3>1
    <2>4. \E x \in Telling : HeldUntil(n, x) /\ \A k \in Telling : HeldUntil(n, k) => x <= k
      BY <1>2, <2>1, <2>2
    <2> QED
      BY <2>3, <2>4 DEF ConfirmedAt
  <1>7. Crossed = {CrossingOf(T, I, n, ConfirmedAt(n)) : n \in Turns}
    <2>1. \A n \in Turns : Inside(n) <=> n \in I
      BY <1>2, <1>3 DEF Turns
    <2>2. Crossed = {[kind |-> IF Inside(n) THEN "entered" ELSE "exited", occurredAt |-> n,
                      confirmedAt |-> ConfirmedAt(n)] : n \in Turns}
      BY DEF Crossed, ConfirmedAt, Turns
    <2>3. \A n \in Turns : [kind |-> IF Inside(n) THEN "entered" ELSE "exited", occurredAt |-> n,
                            confirmedAt |-> ConfirmedAt(n)] = CrossingOf(T, I, n, ConfirmedAt(n))
      BY <2>1 DEF CrossingOf
    <2> QED
      BY <2>2, <2>3
  <1> QED
    BY <1>2, <1>5, <1>6, <1>7

(* What is announced is what crossed. *)
LEMMA AnnouncedIsCrossed ==
    ASSUME GeoTypeOK, heeded \subseteq Time, events \in Seq(Crossing),
           Announced(events, TellingOf(heeded, route), InsideOf(heeded, route, geofence.region))
    PROVE  ToSet(events) = Crossed /\ Len(events) = Cardinality(Crossed)
  <1>1. PICK T \in SUBSET Nat : \E I :
             /\ T = TellingOf(heeded, route) /\ I = InsideOf(heeded, route, geofence.region)
             /\ \A n : n \in Turns <=> IsTurn(T, I, n)
             /\ \A n, m : IsTurn(T, I, n) /\ IsConfirmed(T, I, n, m) => ConfirmedAt(n) = m
             /\ Crossed = {CrossingOf(T, I, n, ConfirmedAt(n)) : n \in Turns}
    BY CrossedIs
  <1>2. PICK I :
             /\ T = TellingOf(heeded, route) /\ I = InsideOf(heeded, route, geofence.region)
             /\ \A n : n \in Turns <=> IsTurn(T, I, n)
             /\ \A n, m : IsTurn(T, I, n) /\ IsConfirmed(T, I, n, m) => ConfirmedAt(n) = m
             /\ Crossed = {CrossingOf(T, I, n, ConfirmedAt(n)) : n \in Turns}
    BY <1>1
  <1>3. Announced(events, T, I)
    BY <1>2
  <1>4. DOMAIN events = 1 .. Len(events) /\ Len(events) \in Nat
    OBVIOUS
  <1>5. ASSUME NEW i \in DOMAIN events
        PROVE  events[i].occurredAt \in Turns
               /\ events[i] = CrossingOf(T, I, events[i].occurredAt, ConfirmedAt(events[i].occurredAt))
    <2>1. PICK n : n = events[i].occurredAt
      OBVIOUS
    <2>2. PICK m : m = events[i].confirmedAt
      OBVIOUS
    <2>3. /\ IsTurn(T, I, n) /\ IsConfirmed(T, I, n, m)
          /\ events[i] = [kind |-> IF n \in I THEN "entered" ELSE "exited", occurredAt |-> n, confirmedAt |-> m]
      BY <1>3, <2>1, <2>2 DEF Announced
    <2>4. n \in Turns /\ ConfirmedAt(n) = m
      BY <1>2, <2>3
    <2> QED
      BY <2>1, <2>3, <2>4 DEF CrossingOf
  <1>6. \A n \in Turns : \E i \in DOMAIN events : events[i] = CrossingOf(T, I, n, ConfirmedAt(n))
    <2> SUFFICES ASSUME NEW n \in Turns
                 PROVE  \E i \in DOMAIN events : events[i] = CrossingOf(T, I, n, ConfirmedAt(n))
      OBVIOUS
    <2>1. IsTurn(T, I, n)
      BY <1>2
    <2>2. n \in T
      BY <2>1 DEF IsTurn, IsStay
    <2>3. PICK i \in DOMAIN events : events[i].occurredAt = n
      BY <1>3, <2>1, <2>2 DEF Announced
    <2> QED
      BY <1>5, <2>3
  <1>7. ToSet(events) = Crossed
    <2>1. \A i \in DOMAIN events : events[i] \in Crossed
      BY <1>2, <1>5
    <2>2. \A c \in Crossed : \E i \in DOMAIN events : events[i] = c
      BY <1>2, <1>6
    <2> QED
      BY <2>1, <2>2 DEF ToSet
  <1>8. \A i, j \in DOMAIN events : events[i] = events[j] => i = j
    BY <1>3 DEF Announced
  <1>9. Cardinality(Crossed) = Len(events)
    <2>1. PICK g : g = [i \in 1 .. Len(events) |-> events[i]]
      OBVIOUS
    <2>2. g \in Bijection(1 .. Len(events), Crossed)
      <3>1. g \in [1 .. Len(events) -> Crossed]
        BY <1>4, <1>7, <2>1 DEF ToSet
      <3>2. \A i, j \in 1 .. Len(events) : g[i] = g[j] => i = j
        BY <1>4, <1>8, <2>1
      <3>3. \A c \in Crossed : \E i \in 1 .. Len(events) : g[i] = c
        BY <1>4, <1>7, <2>1 DEF ToSet
      <3> QED
        BY <3>1, <3>2, <3>3 DEF Bijection, Injection, Surjection, IsInjective
    <2>3. ExistsBijection(1 .. Len(events), Crossed)
      BY <2>2 DEF ExistsBijection
    <2> QED
      BY ONLY <1>4, <2>3, FS_CountingElements
  <1> QED
    BY <1>7, <1>9

(* The invariant says what is announced is what crossed. *)
LEMMA GeoIsSound == GeoInv => FencesSound
  <1> SUFFICES ASSUME GeoInv, ~torn
               PROVE  ToSet(events) = Crossed /\ Len(events) = Cardinality(Crossed)
    BY DEF FencesSound, CrossingsAreReal, GeoInv
  <1>1. GeoTypeOK /\ heeded \subseteq Time /\ events \in Seq(Crossing) /\ Reported
    BY DEF GeoInv, Sent
  <1> QED
    BY <1>1, AnnouncedIsCrossed DEF Reported

(* fence.ts:196-200, geofences.ts:159-161: entries and exits are those of the fixes that were
   believed since the tracker was last learned on the fence, each once, however they came in
   batches, again and late; it is learned once for each drawing, and again only when another
   fence kept the time of the last test before it (ingest.ts:247). *)
THEOREM FencesStaySound == GeoSpec => []FencesSound
  BY GeoInvariant, GeoIsSound, PTL

-----------------------------------------------------------------------------
(* An inspection *)

PairedWith == PreFinding \cup {Blank}
Sources == {"absent", "none", "manual", "ai", "gone"}
StoredPair == [source : Sources, with : PairedWith]
EarlierRead == [there : SUBSET PreFinding, words : {0, 1}]
ContentRead == [words : {0, 1}, on : SUBSET Finding, compared : BOOLEAN,
                earlier : EarlierRead \cup {Blank}, pairs : [Finding -> PairedWith]]
SlotsHeld == [SignRole -> ContentRead \cup {Blank}]
InspectionOp == {"none", "add", "remove", "write", "compare", "choose", "free", "pair", "match",
                 "lose", "reuse", "reopen", "delete", "fill", "sign"}
InspectionRequest ==
    [op : InspectionOp, late : BOOLEAN, chief : BOOLEAN, of : Finding \cup {Blank},
     to : PairedWith \cup SignRole \cup {"out", "auto", "none", "earlier"},
     pairs : SUBSET (Finding \X PreFinding), over : ContentRead \cup SlotsHeld \cup {Blank}]

InspectionTyped ==
    /\ status \in {"draft", "completed", "signed", "deleted"}
    /\ slots \in SlotsHeld
    /\ found \in [Finding -> StoredPair]
    /\ compared \in BOOLEAN
    /\ earlier \in EarlierRead
    /\ words \in {0, 1}
    /\ client \in [Asker -> InspectionRequest]

(* A pair is stored with a finding the pre-move inspection has. *)
PairsThere == \A f \in Finding : found[f].with \in earlier.there \cup {Blank}

(* What a request carries, by what it asks. *)
RequestHolds(request) ==
    /\ request.op \in {"add", "remove", "free", "pair"} => request.of \in Finding
    /\ request.op = "lose" => request.to \in PreFinding
    /\ request.op = "fill" => request.to \in SignRole /\ request.over \in ContentRead
    /\ request.op = "reuse" => request.over \in SlotsHeld

(* What it read is so, while nobody has overtaken it. *)
StillSo(request) ==
    /\ request.op = "reuse" => request.over = slots
    /\ request.op = "fill" => request.over = Content
    /\ request.op = "sign" => \A r \in SignRole : slots[r] = Content
    /\ request.op \in {"reopen", "delete"} /\ status = "signed" => request.chief

RequestsStand == \A p \in Asker : RequestHolds(client[p]) /\ (~client[p].late => StillSo(client[p]))

InspectionInv == InspectionTyped /\ PairsThere /\ RequestsStand

(* The comparison: FoldLeft is a function by recursion over sets of places, and goes through
   the offers one after the other. *)

(* What the fold of some offers has come to after the first of them. *)
SettleStart == [f \in Finding |-> Blank]

(* g is the fold of Settle over seq, on the sets of places in T. *)
IsSettling(g, T, seq) ==
    g = [s \in T |-> IF s = {} THEN SettleStart ELSE Settle(g[s \ {Max(s)}], seq[Max(s)])]
Settling(seq) == CHOOSE g : IsSettling(g, SUBSET DOMAIN seq, seq)
Settled(seq, k) == Settling(seq)[1 .. k]

(* There is one for every list of offers. *)
LEMMA SettlingExists ==
    ASSUME NEW S, IsFiniteSet(S), S \subseteq Nat, NEW seq
    PROVE  \E g : IsSettling(g, SUBSET S, seq)
  <1>0. \A s \in SUBSET S :
          /\ Cardinality(s) \in Nat /\ Cardinality(s) <= Cardinality(S)
          /\ Cardinality(s) = 0 <=> s = {}
          /\ \A x \in s : s \ {x} \in SUBSET S /\ Cardinality(s \ {x}) = Cardinality(s) - 1
    BY ONLY IsFiniteSet(S), Smaller
  <1> DEFINE Bad == {n \in Nat : ~\E g : IsSettling(g, Small(S, n), seq)}
  <1>1. Bad = {}
    <2> SUFFICES ASSUME Bad # {} PROVE FALSE
      OBVIOUS
    <2>1. PICK n \in Bad : \A m \in Bad : n <= m
      BY LeastNumber
    <2>2. n \in Nat /\ ~\E g : IsSettling(g, Small(S, n), seq)
      OBVIOUS
    <2>3. n # 0
      <3> SUFFICES ASSUME n = 0 PROVE FALSE
        OBVIOUS
      <3>1. Small(S, 0) = {{}}
        <4>1. \A s \in SUBSET S : Cardinality(s) <= 0 <=> s = {}
          BY <1>0
        <4> QED
          BY <4>1 DEF Small
      <3>2. IsSettling([s \in {{}} |-> SettleStart], Small(S, 0), seq)
        BY <3>1 DEF IsSettling
      <3> QED
        BY <2>2, <3>2
    <2>4. PICK g : IsSettling(g, Small(S, n - 1), seq)
      <3>1. n - 1 \in Nat /\ ~(n <= n - 1)
        BY <2>2, <2>3
      <3>2. n - 1 \notin Bad
        BY <2>1, <3>1
      <3> QED
        BY <3>1, <3>2
    <2> DEFINE h == [s \in Small(S, n) |-> IF s = {} THEN SettleStart ELSE Settle(g[s \ {Max(s)}], seq[Max(s)])]
    <2>5. ASSUME NEW s \in Small(S, n), s # {}
          PROVE  s \ {Max(s)} \in Small(S, n - 1)
      <3>1. s \in SUBSET S /\ Cardinality(s) <= n
        BY DEF Small
      <3>2. PICK m \in s : m = Max(s)
        BY ONLY IsFiniteSet(S), S \subseteq Nat, <2>5, <3>1, MaxIsIn
      <3>3. s \ {m} \in SUBSET S /\ Cardinality(s \ {m}) = Cardinality(s) - 1
        BY <3>1, <3>2, <1>0
      <3>4. Cardinality(s \ {m}) <= n - 1
        <4>1. Cardinality(s) \in Nat
          BY <3>1, <1>0
        <4> QED
          BY <2>2, <3>1, <3>3, <4>1
      <3> HIDE DEF h, Bad
      <3> QED
        BY <3>2, <3>3, <3>4 DEF Small
    <2>6. ASSUME NEW t \in Small(S, n - 1)
          PROVE  h[t] = g[t]
      <3>1. t \in Small(S, n)
        BY <2>2, <1>0 DEF Small
      <3>2. g[t] = IF t = {} THEN SettleStart ELSE Settle(g[t \ {Max(t)}], seq[Max(t)])
        BY <2>4 DEF IsSettling
      <3> QED
        BY <3>1, <3>2
    <2>7. h = [s \in Small(S, n) |-> IF s = {} THEN SettleStart ELSE Settle(h[s \ {Max(s)}], seq[Max(s)])]
      <3>1. \A s \in Small(S, n) : (IF s = {} THEN SettleStart ELSE Settle(g[s \ {Max(s)}], seq[Max(s)]))
                                   = (IF s = {} THEN SettleStart ELSE Settle(h[s \ {Max(s)}], seq[Max(s)]))
        <4>1. ASSUME NEW s \in Small(S, n), s # {}
              PROVE  h[s \ {Max(s)}] = g[s \ {Max(s)}]
          BY <2>5, <2>6, <4>1
        <4> HIDE DEF h
        <4> QED
          BY <4>1
      <3> QED
        BY <3>1
    <2> QED
      BY <2>2, <2>7 DEF IsSettling
  <1>2. Small(S, Cardinality(S)) = SUBSET S
    BY <1>0 DEF Small
  <1>3. Cardinality(S) \in Nat
    BY FS_CardinalityType
  <1>4. \E g : IsSettling(g, Small(S, Cardinality(S)), seq)
    BY <1>1, <1>3
  <1> QED
    BY <1>2, <1>4

(* The comparison goes over the offers one by one. *)
LEMMA SettledIs ==
    ASSUME NEW n \in Nat, NEW stored, NEW seq, seq = stored \o Closest, DOMAIN seq = 1 .. n
    PROVE  /\ Settled(seq, 0) = SettleStart
           /\ \A k \in 1 .. n : Settled(seq, k) = Settle(Settled(seq, k - 1), seq[k])
           /\ compared => Pairing(stored) = Settled(seq, n)
  <1>1. IsFiniteSet(DOMAIN seq) /\ DOMAIN seq \subseteq Nat
    BY FS_Interval
  <1>2. IsSettling(Settling(seq), SUBSET DOMAIN seq, seq)
    <2>1. PICK g : IsSettling(g, SUBSET DOMAIN seq, seq)
      <3>1. PICK S : S = DOMAIN seq
        OBVIOUS
      <3>2. \E g : IsSettling(g, SUBSET S, seq)
        BY <1>1, <3>1, SettlingExists
      <3> QED
        BY <3>1, <3>2
    <2> QED
      BY <2>1 DEF Settling
  <1>3. PICK g : g = Settling(seq)
    OBVIOUS
  <1>4. \A s \in SUBSET (1 .. n) : g[s] = IF s = {} THEN SettleStart ELSE Settle(g[s \ {Max(s)}], seq[Max(s)])
    BY <1>2, <1>3 DEF IsSettling
  <1>5. g[1 .. 0] = SettleStart
    <2>1. 1 .. 0 = {}
      OBVIOUS
    <2> QED
      BY <1>4, <2>1
  <1>6. ASSUME NEW k \in 1 .. n
        PROVE  g[1 .. k] = Settle(g[1 .. k - 1], seq[k])
    <2>1. PICK s : s = 1 .. k
      OBVIOUS
    <2>2. s \in SUBSET (1 .. n) /\ s # {} /\ s \in SUBSET Int /\ IsFiniteSet(s)
      <3>1. s \in SUBSET (1 .. n)
        BY <2>1
      <3>2. k \in s /\ s \in SUBSET Int
        BY <2>1
      <3>3. IsFiniteSet(s)
        BY <2>1, FS_Interval
      <3> QED
        BY <3>1, <3>2, <3>3
    <2>3. Max(s) \in s /\ \A x \in s : Max(s) >= x
      BY ONLY <2>2, MaxIsLargest
    <2>4. PICK m \in s : m = Max(s) /\ \A x \in s : m >= x
      BY <2>3
    <2>5. m = k
      BY <2>1, <2>4
    <2>6. s \ {k} = 1 .. k - 1
      BY <2>1
    <2> QED
      BY <1>4, <2>1, <2>2, <2>4, <2>5, <2>6
  <1>7. compared => Pairing(stored) = Settling(seq)[DOMAIN seq]
    BY DEF Pairing, FoldLeft, MapThenFoldSet, Settling, IsSettling, SettleStart
  <1> QED
    BY <1>3, <1>5, <1>6, <1>7 DEF Settled

(* One sequence after another. *)
LEMMA Joined ==
    ASSUME NEW S, NEW a \in Seq(S), NEW b \in Seq(S)
    PROVE  \E ab \in Seq(S) :
             ab = a \o b /\ Len(ab) = Len(a) + Len(b) /\ \A i \in 1 .. Len(a) : ab[i] = a[i]
  <1>1. a \o b \in Seq(S) /\ Len(a \o b) = Len(a) + Len(b)
    OBVIOUS
  <1>2. \A i \in 1 .. Len(a) : (a \o b)[i] = a[i]
    OBVIOUS
  <1> QED
    BY <1>1, <1>2

(* What findings have stored is a list of offers, one for each. *)
LEMMA OffersOfFindings ==
    ASSUME InspectionAssumption, InspectionTyped, NEW source
    PROVE  /\ StoredPairs(source) \in Seq(Finding \X PairedWith)
           /\ Len(StoredPairs(source)) = LastFinding
           /\ \A f \in Finding : StoredPairs(source)[f] =
                <<f, IF found[f].source = source THEN found[f].with ELSE Blank>>
  <1>1. LastFinding \in Nat
    BY DEF InspectionAssumption
  <1>2. \A f \in Finding : found[f].with \in PairedWith
    BY DEF InspectionTyped, StoredPair
  <1>3. PICK list : list = StoredPairs(source)
    OBVIOUS
  <1>4. list = [f \in 1 .. LastFinding |->
                  <<f, IF found[f].source = source THEN found[f].with ELSE Blank>>]
    BY <1>3 DEF StoredPairs, Finding
  <1>5. \A f \in 1 .. LastFinding : list[f] \in Finding \X PairedWith
    BY <1>2, <1>4 DEF Finding, PairedWith
  <1>6. list \in Seq(Finding \X PairedWith) /\ Len(list) = LastFinding
    <2>1. list \in [1 .. LastFinding -> Finding \X PairedWith]
      BY <1>4, <1>5
    <2> QED
      BY <1>1, <2>1
  <1> QED
    BY <1>3, <1>4, <1>6 DEF Finding

(* All offers of the comparison. *)
Stored == StoredPairs("manual") \o StoredPairs("ai")
Offers == Stored \o Closest

(* They are offers of findings, and those of a person's choices come first. *)
LEMMA OffersListed ==
    ASSUME InspectionAssumption, InspectionTyped
    PROVE  /\ Offers \in Seq(Finding \X PairedWith) /\ LastFinding <= Len(Offers)
           /\ \A f \in Finding : Offers[f] =
                <<f, IF found[f].source = "manual" THEN found[f].with ELSE Blank>>
  <1>1. LastFinding \in Nat /\ Closest \in Seq(Finding \X PairedWith)
    BY DEF InspectionAssumption, PairedWith
  <1>0. PICK S : S = Finding \X PairedWith
    OBVIOUS
  <1>2. PICK a \in Seq(S) :
          /\ a = StoredPairs("manual") /\ Len(a) = LastFinding
          /\ \A f \in Finding : a[f] = <<f, IF found[f].source = "manual" THEN found[f].with ELSE Blank>>
    BY <1>0, OffersOfFindings
  <1>3. PICK b \in Seq(S) : b = StoredPairs("ai") /\ Len(b) = LastFinding
    BY <1>0, OffersOfFindings
  <1>4. PICK c \in Seq(S) : c = Closest
    BY <1>0, <1>1
  <1>5. PICK ab \in Seq(S) :
          ab = a \o b /\ Len(ab) = Len(a) + Len(b) /\ \A i \in 1 .. Len(a) : ab[i] = a[i]
    BY ONLY a \in Seq(S), b \in Seq(S), Joined
  <1>6. PICK abc \in Seq(S) :
          abc = ab \o c /\ Len(abc) = Len(ab) + Len(c) /\ \A i \in 1 .. Len(ab) : abc[i] = ab[i]
    BY ONLY ab \in Seq(S), c \in Seq(S), Joined
  <1>7. Offers = abc
    BY <1>2, <1>3, <1>4, <1>5, <1>6 DEF Offers, Stored
  <1>8. Len(c) \in Nat /\ Len(abc) = LastFinding + LastFinding + Len(c)
    <2>1. Len(c) \in Nat
      BY ONLY c \in Seq(S)
    <2> QED
      BY <2>1, <1>2, <1>3, <1>5, <1>6
  <1>9. \A f \in Finding : abc[f] = a[f]
    BY <1>1, <1>2, <1>3, <1>5, <1>6 DEF Finding
  <1> QED
    BY <1>0, <1>1, <1>2, <1>7, <1>8, <1>9

(* What one offer does. *)
LEMMA OneOffer ==
    ASSUME Blank \notin PreFinding, earlier.there \subseteq PreFinding,
           NEW held \in [Finding -> PairedWith], NEW f \in Finding, NEW b \in PairedWith
    PROVE  /\ Settle(held, <<f, b>>) \in [Finding -> PairedWith]
           /\ \A g \in Finding : g # f \/ held[g] # Blank => Settle(held, <<f, b>>)[g] = held[g]
           /\ f \notin Found \/ RuledOut(f) \/ b \notin earlier.there => Settle(held, <<f, b>>) = held
           /\ Settle(held, <<f, b>>)[f] \in {held[f], b}
           /\ f \in Found /\ ~RuledOut(f) /\ b \in earlier.there =>
                \/ held[f] # Blank \/ Settle(held, <<f, b>>)[f] = b
                \/ \E g \in Finding : held[g] = b
  <1>1. PICK next : next = Settle(held, <<f, b>>)
    OBVIOUS
  <1>2. next = IF \/ f \notin Found \/ RuledOut(f) \/ held[f] # Blank
                  \/ b \notin earlier.there \/ \E g \in Finding : held[g] = b
               THEN held ELSE [held EXCEPT ![f] = b]
    BY <1>1 DEF Settle
  <1> QED
    BY <1>1, <1>2

(* What the comparison has given each finding, after some of the offers. *)
Held(k) == Settled(Offers, k)

(* While the choices are gone through, a finding holds what a person chose for it. *)
HeldByChoice(k) ==
    /\ Held(k) \in [Finding -> PairedWith]
    /\ k <= LastFinding => \A g \in Finding :
          Held(k)[g] # Blank => g <= k /\ g \in Found /\ found[g].source = "manual"
                                /\ Held(k)[g] = found[g].with

(* A choice holds once it is reached, unless another finding has the very same. *)
ChoiceHeld(f, k) ==
    IF found[f].with = Blank THEN Held(k)[f] = Blank
    ELSE f <= k => Held(k)[f] = found[f].with \/ \E g \in Found \ {f} : found[g] = found[f]

(* The comparison goes from offer to offer. *)
LEMMA HeldIs ==
    ASSUME InspectionAssumption, InspectionTyped
    PROVE  /\ Held(0) = [f \in Finding |-> Blank]
           /\ \A k \in 1 .. Len(Offers) : Held(k) = Settle(Held(k - 1), Offers[k])
           /\ compareFindings = IF compared THEN Held(Len(Offers)) ELSE [f \in Finding |-> Blank]
  <1>1. PICK n \in Nat : n = Len(Offers) /\ DOMAIN Offers = 1 .. n
    BY OffersListed
  <1>2. PICK seq : seq = Offers
    OBVIOUS
  <1>3. PICK stored : stored = Stored
    OBVIOUS
  <1>4. seq = stored \o Closest /\ DOMAIN seq = 1 .. n
    BY <1>1, <1>2, <1>3 DEF Offers
  <1>5. /\ Settled(seq, 0) = SettleStart
        /\ \A k \in 1 .. n : Settled(seq, k) = Settle(Settled(seq, k - 1), seq[k])
        /\ compared => Pairing(stored) = Settled(seq, n)
    BY ONLY n \in Nat, <1>4, SettledIs
  <1>6. compareFindings = Pairing(stored)
    BY <1>3 DEF compareFindings, Stored
  <1>7. ~compared => Pairing(stored) = [f \in Finding |-> Blank]
    BY DEF Pairing
  <1>8. \A k : Held(k) = Settled(seq, k)
    BY <1>2 DEF Held
  <1> QED
    BY <1>1, <1>2, <1>5, <1>6, <1>7, <1>8 DEF SettleStart

(* One offer after another. *)
LEMMA NextHeld ==
    ASSUME InspectionAssumption, InspectionTyped, NEW k \in 1 .. Len(Offers), HeldByChoice(k - 1)
    PROVE  /\ HeldByChoice(k)
           /\ \A f \in Found : found[f].source = "manual" /\ found[f].with \in earlier.there \cup {Blank}
                               /\ ChoiceHeld(f, k - 1) => ChoiceHeld(f, k)
  <1>1. /\ LastFinding \in Nat /\ k \in Nat /\ Blank \notin PreFinding
        /\ earlier.there \subseteq PreFinding /\ Found \subseteq Finding
        /\ Len(Offers) \in Nat
    BY OffersListed DEF InspectionAssumption, InspectionTyped, EarlierRead, Found
  <1>2. PICK held \in [Finding -> PairedWith] : held = Held(k - 1)
    BY DEF HeldByChoice
  <1>3. PICK next : next = Held(k)
    OBVIOUS
  <1>4. PICK f \in Finding : \E b \in PairedWith : Offers[k] = <<f, b>>
    <2>1. Offers[k] \in Finding \X PairedWith
      BY OffersListed
    <2> QED
      BY <2>1
  <1>5. PICK b \in PairedWith : Offers[k] = <<f, b>>
    BY <1>4
  <1>6. next = Settle(held, <<f, b>>)
    BY <1>2, <1>3, <1>5, HeldIs
  <1>7. /\ next \in [Finding -> PairedWith]
        /\ \A g \in Finding : g # f \/ held[g] # Blank => next[g] = held[g]
        /\ f \notin Found \/ RuledOut(f) \/ b \notin earlier.there => next = held
        /\ next[f] \in {held[f], b}
        /\ f \in Found /\ ~RuledOut(f) /\ b \in earlier.there =>
             \/ held[f] # Blank \/ next[f] = b
             \/ \E g \in Finding : held[g] = b
    BY <1>1, <1>6, OneOffer
  <1>8. k <= LastFinding => f = k /\ b = IF found[k].source = "manual" THEN found[k].with ELSE Blank
    <2> SUFFICES ASSUME k <= LastFinding
                 PROVE  f = k /\ b = IF found[k].source = "manual" THEN found[k].with ELSE Blank
      OBVIOUS
    <2>1. k \in Finding
      BY <1>1 DEF Finding
    <2>2. Offers[k] = <<k, IF found[k].source = "manual" THEN found[k].with ELSE Blank>>
      BY <2>1, OffersListed
    <2> QED
      BY <1>5, <2>2
  <1>9. k - 1 <= LastFinding => \A g \in Finding :
          held[g] # Blank => g <= k - 1 /\ g \in Found /\ found[g].source = "manual"
                             /\ held[g] = found[g].with
    BY <1>2 DEF HeldByChoice
  <1>10. HeldByChoice(k)
    <2>1. ASSUME k <= LastFinding, NEW g \in Finding, next[g] # Blank
          PROVE  g <= k /\ g \in Found /\ found[g].source = "manual" /\ next[g] = found[g].with
      <3>1. Finding \subseteq Nat
        BY DEF Finding
      <3>2. CASE g # f \/ held[g] # Blank
        BY <1>1, <1>7, <1>9, <2>1, <3>1, <3>2
      <3>3. CASE g = f /\ held[g] = Blank
        BY <1>1, <1>7, <1>8, <2>1, <3>1, <3>3
      <3> QED
        BY <3>2, <3>3
    <2> QED
      BY <1>3, <1>7, <2>1 DEF HeldByChoice
  <1>11. ASSUME NEW h \in Found, found[h].source = "manual",
                found[h].with \in earlier.there \cup {Blank}, ChoiceHeld(h, k - 1)
         PROVE  ChoiceHeld(h, k)
    <2>1. CASE found[h].with = Blank
      <3>1. held[h] = Blank /\ RuledOut(h) /\ h \in Finding
        BY <1>1, <1>2, <1>11, <2>1 DEF ChoiceHeld, RuledOut
      <3>2. next[h] = Blank
        BY <1>7, <3>1
      <3> QED
        BY <1>3, <2>1, <3>2 DEF ChoiceHeld
    <2>2. CASE found[h].with # Blank
      <3>1. /\ ~RuledOut(h) /\ h \in Finding /\ found[h].with \in earlier.there
            /\ Finding \subseteq Nat
        BY <1>1, <1>11, <2>2 DEF RuledOut, Finding
      <3>2. h <= k - 1 => held[h] = found[h].with \/ \E g \in Found \ {h} : found[g] = found[h]
        BY <1>2, <1>11, <2>2 DEF ChoiceHeld
      <3>3. CASE h <= k - 1
        BY <1>3, <1>7, <2>2, <3>1, <3>2, <3>3 DEF ChoiceHeld
      <3>4. CASE h = k
        <4>1. k <= LastFinding /\ f = h /\ b = found[h].with
          BY <1>1, <1>8, <1>11, <3>1, <3>4 DEF Finding
        <4>2. held[h] = Blank
          BY <1>1, <1>9, <3>1, <3>4, <4>1
        <4>3. next[h] = found[h].with \/ \E g \in Finding : held[g] = found[h].with
          BY <1>7, <1>11, <3>1, <4>1, <4>2
        <4>4. ASSUME NEW g \in Finding, held[g] = found[h].with
              PROVE  g \in Found \ {h} /\ found[g] = found[h]
          <5>1. g # h /\ held[g] # Blank
            BY <2>2, <4>2, <4>4
          <5>2. g \in Found /\ found[g].source = "manual" /\ found[g].with = found[h].with
            BY <1>1, <1>9, <4>1, <4>4, <5>1
          <5>3. found[g] \in StoredPair /\ found[h] \in StoredPair
            BY <3>1 DEF InspectionTyped
          <5> QED
            BY <1>11, <5>1, <5>2, <5>3 DEF StoredPair
        <4> QED
          BY <1>3, <2>2, <4>3, <4>4 DEF ChoiceHeld
      <3>5. CASE h > k
        BY <1>1, <2>2, <3>1, <3>5 DEF ChoiceHeld
      <3> QED
        BY <1>1, <3>1, <3>3, <3>4, <3>5
    <2> QED
      BY <2>1, <2>2
  <1> QED
    BY <1>10, <1>11

(* A person's choice is in the comparison, or another finding has the very same. *)
LEMMA ChoicesComeFirst ==
    ASSUME InspectionAssumption, InspectionTyped, PairsThere
    PROVE  /\ compareFindings \in [Finding -> PairedWith]
           /\ compared => \A f \in Found : found[f].source = "manual" =>
                \/ compareFindings[f] = found[f].with
                \/ \E g \in Found \ {f} : found[g] = found[f]
  <1>1. /\ LastFinding \in Nat /\ Len(Offers) \in Nat /\ LastFinding <= Len(Offers)
        /\ Found \subseteq Finding /\ Finding \subseteq Nat
    BY OffersListed DEF InspectionAssumption, Found, Finding
  <1>2. PICK n \in Nat : n = Len(Offers)
    BY <1>1
  <1> DEFINE T == {k \in 0 .. n : /\ HeldByChoice(k)
                                  /\ \A f \in Found : found[f].source = "manual" => ChoiceHeld(f, k)}
  <1>3. 0 \in T
    <2>1. Held(0) = [f \in Finding |-> Blank]
      BY HeldIs
    <2>2. HeldByChoice(0)
      BY <2>1 DEF HeldByChoice, PairedWith
    <2>3. \A f \in Found : ChoiceHeld(f, 0)
      <3>1. \A f \in Found : f \in Finding /\ ~(f <= 0)
        BY <1>1 DEF Finding
      <3> QED
        BY <2>1, <3>1 DEF ChoiceHeld
    <2> QED
      BY <2>2, <2>3
  <1>4. ASSUME NEW k \in 1 .. n, k - 1 \in T
        PROVE  k \in T
    <2>1. HeldByChoice(k - 1) /\ \A f \in Found : found[f].source = "manual" => ChoiceHeld(f, k - 1)
      BY <1>4
    <2>2. /\ HeldByChoice(k)
          /\ \A f \in Found : found[f].source = "manual" /\ found[f].with \in earlier.there \cup {Blank}
                              /\ ChoiceHeld(f, k - 1) => ChoiceHeld(f, k)
      BY <1>2, <2>1, NextHeld
    <2>3. \A f \in Found : found[f].with \in earlier.there \cup {Blank}
      BY <1>1 DEF PairsThere
    <2> QED
      BY <2>1, <2>2, <2>3
  <1>5. n \in T
    <2> HIDE DEF T
    <2>1. \A k \in 0 .. n : k \in T
      BY <1>3, <1>4, OneAfterOther
    <2> QED
      BY <2>1
  <1>6. HeldByChoice(n) /\ \A f \in Found : found[f].source = "manual" => ChoiceHeld(f, n)
    BY <1>5
  <1>7. compareFindings = IF compared THEN Held(n) ELSE [f \in Finding |-> Blank]
    BY <1>2, HeldIs
  <1>8. compareFindings \in [Finding -> PairedWith]
    BY <1>6, <1>7 DEF HeldByChoice, PairedWith
  <1>9. ASSUME compared, NEW f \in Found, found[f].source = "manual"
        PROVE  compareFindings[f] = found[f].with \/ \E g \in Found \ {f} : found[g] = found[f]
    <2>1. f <= n
      BY <1>1, <1>2 DEF Finding
    <2> QED
      BY <1>6, <1>7, <1>9, <2>1 DEF ChoiceHeld
  <1> QED
    BY <1>8, <1>9

(* What is read is made of what is there. *)
LEMMA ContentIsRead ==
    ASSUME InspectionAssumption, InspectionTyped, PairsThere
    PROVE  Content \in ContentRead
  <1>1. compareFindings \in [Finding -> PairedWith]
    BY ChoicesComeFirst
  <1>2. PICK pairs : pairs = compareFindings
    OBVIOUS
  <1>3. Found \subseteq Finding
    BY DEF Found
  <1> QED
    BY <1>1, <1>2, <1>3 DEF Content, ContentRead, InspectionTyped

(* It changes only with what it is made of. *)
LEMMA ContentStays ==
    ASSUME found' = found, compared' = compared, earlier' = earlier, words' = words
    PROVE  Content' = Content
  <1>1. Found' = Found
    BY DEF Found
  <1>2. compareFindings' = compareFindings
    BY DEF compareFindings, Pairing, StoredPairs, FoldLeft, MapThenFoldSet, Settle, Found, RuledOut
  <1> QED
    BY <1>1, <1>2 DEF Content

(* No request is a request of which nothing is asked. *)
LEMMA NoneAsked ==
    /\ NoRequest \in InspectionRequest /\ NoRequest.op = "none"
    /\ RequestHolds(NoRequest) /\ StillSo(NoRequest) /\ StillSo(NoRequest)'
  <1>1. NoRequest \in InspectionRequest /\ NoRequest.op = "none"
    BY DEF NoRequest, InspectionRequest, InspectionOp, PairedWith
  <1> QED
    BY <1>1 DEF RequestHolds, StillSo

(* A request under way, its write or nothing after it, stands in the state it leaves. *)
Goes(next) == next \in InspectionRequest /\ RequestHolds(next)

(* A step that overtakes: nothing is left of what the others read. *)
LEMMA AfterOvertaking ==
    ASSUME client \in [Asker -> InspectionRequest], RequestsStand, NEW p, NEW next,
           Overtaking(p, next), p \in Asker => Goes(next) /\ (~next.late => StillSo(next)')
    PROVE  client' \in [Asker -> InspectionRequest] /\ RequestsStand'
  <1>1. client' = [q \in Asker |-> IF q = p THEN next
                                   ELSE [client[q] EXCEPT !.late = client[q] # NoRequest]]
    BY DEF Overtaking
  <1>2. ASSUME NEW q \in Asker
        PROVE  /\ client'[q] \in InspectionRequest /\ RequestHolds(client'[q])
               /\ ~client'[q].late => StillSo(client[q])'
    <2>1. CASE q = p
      <3>1. client'[q] = next
        BY <1>1, <2>1
      <3> QED
        BY <2>1, <3>1 DEF Goes, StillSo
    <2>2. CASE q # p
      <3>1. PICK r \in InspectionRequest : r = client[q] /\ RequestHolds(r)
        BY DEF RequestsStand
      <3>2. PICK b \in BOOLEAN : b = (r # NoRequest)
        OBVIOUS
      <3>3. PICK s : s = [r EXCEPT !.late = b]
        OBVIOUS
      <3>4. client'[q] = s
        BY <1>1, <2>2, <3>1, <3>2, <3>3
      <3>5. /\ s \in InspectionRequest /\ s.late = b /\ s.op = r.op /\ s.of = r.of
            /\ s.to = r.to /\ s.over = r.over
        BY <3>1, <3>3 DEF InspectionRequest
      <3>6. RequestHolds(s)
        BY <3>1, <3>5 DEF RequestHolds
      <3>7. ~s.late => s.op = "none"
        BY <3>2, <3>5, NoneAsked
      <3> QED
        BY <3>4, <3>5, <3>6, <3>7 DEF StillSo
    <2> QED
      BY <2>1, <2>2
  <1>3. client' \in [Asker -> InspectionRequest]
    BY <1>1, <1>2
  <1> QED
    BY <1>2, <1>3 DEF RequestsStand

(* A step that only looks: what was read stays so. *)
LEMMA AfterLooking ==
    ASSUME client \in [Asker -> InspectionRequest], RequestsStand, NEW p \in Asker, NEW next,
           UNCHANGED <<status, slots, found, compared, earlier, words>>,
           client' = [client EXCEPT ![p] = next], Goes(next), ~next.late => StillSo(next)
    PROVE  client' \in [Asker -> InspectionRequest] /\ RequestsStand'
  <1>1. Content' = Content
    BY ContentStays
  <1>2. ASSUME NEW q \in Asker
        PROVE  /\ client'[q] \in InspectionRequest /\ RequestHolds(client'[q])
               /\ ~client'[q].late => StillSo(client[q])'
    <2>1. PICK r : r = client'[q]
      OBVIOUS
    <2>2. r \in InspectionRequest /\ RequestHolds(r) /\ (~r.late => StillSo(r))
      <3>1. CASE q = p
        BY <2>1, <3>1 DEF Goes
      <3>2. CASE q # p
        BY <2>1, <3>2 DEF RequestsStand
      <3> QED
        BY <3>1, <3>2
    <2>3. ~r.late => StillSo(client[q])'
      BY <1>1, <2>1, <2>2 DEF StillSo
    <2> QED
      BY <2>1, <2>2, <2>3
  <1>3. client' \in [Asker -> InspectionRequest]
    BY DEF Goes
  <1> QED
    BY <1>2, <1>3 DEF RequestsStand

(* What a request that looks first may ask. *)
LEMMA AskedFirst ==
    ASSUME NEW op \in {"add", "remove", "write", "compare", "free", "pair", "lose"},
           NEW f \in Finding \cup {Blank},
           NEW to \in PairedWith \cup {"out", "auto", "none", "earlier"},
           op \in {"add", "remove", "free", "pair"} => f \in Finding,
           op = "lose" => to \in PreFinding
    PROVE  Goes(Asks(op, f, to)) /\ StillSo(Asks(op, f, to))
  <1>1. PICK next : next = Asks(op, f, to)
    OBVIOUS
  <1>2. next = [op |-> op, late |-> FALSE, chief |-> FALSE, of |-> f, to |-> to,
                pairs |-> {}, over |-> Blank]
    BY <1>1 DEF Asks, NoRequest
  <1>3. next \in InspectionRequest
    BY <1>2 DEF InspectionRequest, InspectionOp
  <1> QED
    BY <1>1, <1>2, <1>3 DEF Goes, RequestHolds, StillSo

(* A request that looks first. *)
LEMMA LooksFirstStands ==
    ASSUME InspectionAssumption, InspectionInv, NEW p \in Asker, LooksFirst(p)
    PROVE  InspectionInv'
  <1>1. InspectionTyped /\ PairsThere /\ RequestsStand
    BY DEF InspectionInv
  <1>2. UNCHANGED <<status, slots, found, compared, earlier, words>>
    BY DEF LooksFirst
  <1>3. /\ client \in [Asker -> InspectionRequest] /\ Found \subseteq Finding
        /\ earlier.there \subseteq PreFinding
    BY <1>1 DEF InspectionTyped, EarlierRead, Found
  <1>4. \E next : client' = [client EXCEPT ![p] = next] /\ Goes(next) /\ StillSo(next)
    <2>1. CASE \E f \in Finding : found[f] = Unfound /\ StartsWith(p, Asks("add", f, Blank))
      <3>1. PICK f \in Finding : StartsWith(p, Asks("add", f, Blank))
        BY <2>1
      <3>2. Goes(Asks("add", f, Blank)) /\ StillSo(Asks("add", f, Blank))
        BY AskedFirst DEF PairedWith
      <3> QED
        BY <3>1, <3>2 DEF StartsWith
    <2>2. CASE \E f \in Found : StartsWith(p, Asks("remove", f, Blank))
      <3>1. PICK f \in Finding : StartsWith(p, Asks("remove", f, Blank))
        BY <1>3, <2>2
      <3>2. Goes(Asks("remove", f, Blank)) /\ StillSo(Asks("remove", f, Blank))
        BY AskedFirst DEF PairedWith
      <3> QED
        BY <3>1, <3>2 DEF StartsWith
    <2>3. CASE StartsWith(p, Asks("write", Blank, Blank))
      <3>1. Goes(Asks("write", Blank, Blank)) /\ StillSo(Asks("write", Blank, Blank))
        BY AskedFirst DEF PairedWith
      <3> QED
        BY <2>3, <3>1 DEF StartsWith
    <2>4. CASE StartsWith(p, Asks("compare", Blank, IF compared THEN "none" ELSE "earlier"))
      <3>1. PICK to \in {"none", "earlier"} : to = IF compared THEN "none" ELSE "earlier"
        OBVIOUS
      <3>2. Goes(Asks("compare", Blank, to)) /\ StillSo(Asks("compare", Blank, to))
        BY AskedFirst
      <3> QED
        BY <2>4, <3>1, <3>2 DEF StartsWith
    <2>5. CASE \E f \in Found, b \in earlier.there : StartsWith(p, Asks("free", f, b))
      <3>1. PICK f \in Finding, b \in PreFinding : StartsWith(p, Asks("free", f, b))
        BY <1>3, <2>5
      <3>2. Goes(Asks("free", f, b)) /\ StillSo(Asks("free", f, b))
        BY AskedFirst DEF PairedWith
      <3> QED
        BY <3>1, <3>2 DEF StartsWith
    <2>6. CASE \E f \in Found, to \in {"out", "auto"} : StartsWith(p, Asks("pair", f, to))
      <3>1. PICK f \in Finding, to \in {"out", "auto"} : StartsWith(p, Asks("pair", f, to))
        BY <1>3, <2>6
      <3>2. Goes(Asks("pair", f, to)) /\ StillSo(Asks("pair", f, to))
        BY AskedFirst
      <3> QED
        BY <3>1, <3>2 DEF StartsWith
    <2>7. CASE \E few \in SUBSET unmatched :
                 StartsWith(p, [NoRequest EXCEPT !.op = "match", !.pairs = few])
      <3>1. unmatched \subseteq Finding \X PreFinding
        BY <1>3 DEF unmatched
      <3>2. PICK few \in SUBSET (Finding \X PreFinding) :
              StartsWith(p, [NoRequest EXCEPT !.op = "match", !.pairs = few])
        BY <2>7, <3>1
      <3>3. PICK next : next = [NoRequest EXCEPT !.op = "match", !.pairs = few]
        OBVIOUS
      <3>4. next \in InspectionRequest /\ next.op = "match"
        BY <3>3, NoneAsked DEF InspectionRequest, InspectionOp
      <3>5. Goes(next) /\ StillSo(next)
        BY <3>4 DEF Goes, RequestHolds, StillSo
      <3> QED
        BY <3>2, <3>3, <3>5 DEF StartsWith
    <2> QED
      BY <2>1, <2>2, <2>3, <2>4, <2>5, <2>6, <2>7 DEF LooksFirst
  <1>5. PICK next : client' = [client EXCEPT ![p] = next] /\ Goes(next) /\ StillSo(next)
    BY <1>4
  <1>6. client' \in [Asker -> InspectionRequest] /\ RequestsStand'
    BY <1>1, <1>2, <1>3, <1>5, AfterLooking
  <1> QED
    BY <1>1, <1>2, <1>6 DEF InspectionInv, InspectionTyped, PairsThere

(* A request that is not heard of again. *)
LEMMA GoesAwayStands ==
    ASSUME InspectionAssumption, InspectionInv, NEW p \in Asker, GoesAway(p)
    PROVE  InspectionInv'
  <1>1. InspectionTyped /\ PairsThere /\ RequestsStand
    BY DEF InspectionInv
  <1>2. /\ UNCHANGED <<status, slots, found, compared, earlier, words>>
        /\ client' = [client EXCEPT ![p] = NoRequest]
    BY DEF GoesAway
  <1>3. client \in [Asker -> InspectionRequest]
    BY <1>1 DEF InspectionTyped
  <1>4. Goes(NoRequest) /\ StillSo(NoRequest)
    BY NoneAsked DEF Goes
  <1>5. client' \in [Asker -> InspectionRequest] /\ RequestsStand'
    BY <1>1, <1>2, <1>3, <1>4, AfterLooking
  <1> QED
    BY <1>1, <1>2, <1>5 DEF InspectionInv, InspectionTyped, PairsThere

(* A write of which nothing is left to do. *)
LEMMA AfterWriting ==
    ASSUME InspectionInv, NEW p, Overtaking(p, NoRequest)
    PROVE  client' \in [Asker -> InspectionRequest] /\ RequestsStand'
  <1>1. client \in [Asker -> InspectionRequest] /\ RequestsStand
    BY DEF InspectionInv, InspectionTyped
  <1>2. PICK next : next = NoRequest
    OBVIOUS
  <1>3. Overtaking(p, next) /\ Goes(next) /\ StillSo(next)'
    <2>1. StillSo(next)'
      BY <1>2, NoneAsked DEF StillSo
    <2> QED
      BY <1>2, <2>1, NoneAsked DEF Goes
  <1> QED
    BY <1>1, <1>3, AfterOvertaking

(* A finding is added. *)
LEMMA AddStands ==
    ASSUME InspectionAssumption, InspectionInv, NEW p \in Asker, addFinding(p)
    PROVE  InspectionInv'
  <1>1. client' \in [Asker -> InspectionRequest] /\ RequestsStand'
    BY AfterWriting DEF addFinding
  <1>2. PICK f : f = client[p].of
    OBVIOUS
  <1>3. /\ found' = [found EXCEPT ![f] = Unpaired]
        /\ UNCHANGED <<status, slots, compared, earlier, words>>
    BY <1>2 DEF addFinding
  <1>4. Unpaired \in StoredPair /\ Unpaired.with = Blank
    BY DEF Unpaired, StoredPair, Sources, PairedWith
  <1> QED
    BY <1>1, <1>3, <1>4 DEF InspectionInv, InspectionTyped, PairsThere

(* A finding is removed. *)
LEMMA RemoveStands ==
    ASSUME InspectionAssumption, InspectionInv, NEW p \in Asker, removeFinding(p)
    PROVE  InspectionInv'
  <1>1. client' \in [Asker -> InspectionRequest] /\ RequestsStand'
    BY AfterWriting DEF removeFinding
  <1>2. PICK f : f = client[p].of
    OBVIOUS
  <1>3. /\ found' = [found EXCEPT ![f] = Gone]
        /\ UNCHANGED <<status, slots, compared, earlier, words>>
    BY <1>2 DEF removeFinding
  <1>4. Gone \in StoredPair /\ Gone.with = Blank
    BY DEF Gone, StoredPair, Sources, PairedWith
  <1> QED
    BY <1>1, <1>3, <1>4 DEF InspectionInv, InspectionTyped, PairsThere

(* Words are edited, here or in the pre-move inspection. *)
LEMMA WordsStand ==
    ASSUME InspectionAssumption, InspectionInv, NEW p, Overtaking(p, NoRequest),
           UNCHANGED <<status, slots, found, compared>>, words' \in {0, 1},
           earlier' \in EarlierRead, earlier'.there = earlier.there
    PROVE  InspectionInv'
  <1>1. client' \in [Asker -> InspectionRequest] /\ RequestsStand'
    BY AfterWriting
  <1> QED
    BY <1>1 DEF InspectionInv, InspectionTyped, PairsThere

(* Another inspection is compared with. *)
LEMMA CompareStands ==
    ASSUME InspectionAssumption, InspectionInv, NEW p \in Asker, updateInspection(p)
    PROVE  InspectionInv'
  <1>1. InspectionTyped /\ PairsThere /\ RequestsStand
    BY DEF InspectionInv
  <1>2. PICK old \in InspectionRequest : old = client[p] /\ RequestHolds(old)
    BY <1>1 DEF InspectionTyped, RequestsStand
  <1>3. CASE /\ Acts(p, "compare")
             /\ found' = [f \in Finding |-> IF f \in Found THEN Unpaired ELSE found[f]]
             /\ Overtaking(p, [client[p] EXCEPT !.op = "choose"])
             /\ UNCHANGED <<status, slots, compared, earlier, words, asked>>
    <2>1. PICK next : next = [old EXCEPT !.op = "choose"]
      OBVIOUS
    <2>2. next \in InspectionRequest /\ next.op = "choose"
      BY <2>1 DEF InspectionRequest, InspectionOp
    <2>3. Goes(next) /\ StillSo(next)' /\ Overtaking(p, next)
      BY <1>2, <1>3, <2>1, <2>2 DEF Goes, RequestHolds, StillSo
    <2>4. client' \in [Asker -> InspectionRequest] /\ RequestsStand'
      BY <1>1, <2>3, AfterOvertaking DEF InspectionTyped
    <2>5. Unpaired \in StoredPair /\ Unpaired.with = Blank
      BY DEF Unpaired, StoredPair, Sources, PairedWith
    <2>6. found' \in [Finding -> StoredPair] /\ PairsThere'
      BY <1>1, <1>3, <2>5 DEF InspectionTyped, PairsThere
    <2> QED
      BY <1>1, <1>3, <2>4, <2>6 DEF InspectionInv, InspectionTyped
  <1>4. CASE /\ Acts(p, "choose")
             /\ compared' = (client[p].to = "earlier")
             /\ Overtaking(p, NoRequest)
             /\ UNCHANGED <<status, slots, found, earlier, words, asked>>
    <2>1. client' \in [Asker -> InspectionRequest] /\ RequestsStand'
      BY <1>4, AfterWriting
    <2>2. compared' \in BOOLEAN
      BY <1>4
    <2> QED
      BY <1>1, <1>4, <2>1, <2>2 DEF InspectionInv, InspectionTyped, PairsThere
  <1> QED
    BY <1>3, <1>4 DEF updateInspection

(* A person chooses. *)
LEMMA ChoosesStands ==
    ASSUME InspectionAssumption, InspectionInv, NEW p \in Asker, setPairing(p)
    PROVE  InspectionInv'
  <1>1. InspectionTyped /\ PairsThere /\ RequestsStand
    BY DEF InspectionInv
  <1>2. PICK old \in InspectionRequest : old = client[p] /\ RequestHolds(old)
    BY <1>1 DEF InspectionTyped, RequestsStand
  <1>3. Unpaired \in StoredPair /\ Unpaired.with = Blank
    BY DEF Unpaired, StoredPair, Sources, PairedWith
  <1>4. CASE /\ Acts(p, "free")
             /\ found' = [f \in Finding |-> IF f # client[p].of /\ found[f].with = client[p].to
                                            THEN Unpaired ELSE found[f]]
             /\ Overtaking(p, [client[p] EXCEPT !.op = "pair"])
             /\ UNCHANGED <<status, slots, compared, earlier, words, asked>>
    <2>1. PICK next : next = [old EXCEPT !.op = "pair"]
      OBVIOUS
    <2>2. old.of \in Finding
      BY <1>2, <1>4 DEF Acts, RequestHolds
    <2>3. next \in InspectionRequest /\ next.op = "pair" /\ next.of = old.of
      BY <2>1 DEF InspectionRequest, InspectionOp
    <2>4. Goes(next) /\ StillSo(next)' /\ Overtaking(p, next)
      BY <1>2, <1>4, <2>1, <2>2, <2>3 DEF Goes, RequestHolds, StillSo
    <2>5. client' \in [Asker -> InspectionRequest] /\ RequestsStand'
      BY <1>1, <2>4, AfterOvertaking DEF InspectionTyped
    <2>6. found' \in [Finding -> StoredPair] /\ PairsThere'
      BY <1>1, <1>3, <1>4 DEF InspectionTyped, PairsThere
    <2> QED
      BY <1>1, <1>4, <2>5, <2>6 DEF InspectionInv, InspectionTyped
  <1>5. CASE /\ Acts(p, "pair")
             /\ client[p].of \in Found
             /\ client[p].to \in earlier.there \cup {"out", "auto"}
             /\ found' = [found EXCEPT ![client[p].of] = Choice(client[p].to)]
             /\ Overtaking(p, NoRequest)
             /\ UNCHANGED <<status, slots, compared, earlier, words, asked>>
    <2>1. client' \in [Asker -> InspectionRequest] /\ RequestsStand'
      BY <1>5, AfterWriting
    <2>2. earlier.there \subseteq PreFinding
      BY <1>1 DEF InspectionTyped, EarlierRead
    <2>3. PICK c : c = Choice(old.to)
      OBVIOUS
    <2>4. c \in StoredPair /\ c.with \in earlier.there \cup {Blank}
      <3>1. CASE old.to = "auto"
        BY <1>3, <2>3, <3>1 DEF Choice
      <3>2. CASE old.to = "out"
        BY <2>3, <3>2 DEF Choice, StoredPair, Sources, PairedWith
      <3>3. CASE old.to \notin {"auto", "out"}
        <4>1. c = [source |-> "manual", with |-> old.to]
          BY <2>3, <3>3 DEF Choice
        <4>2. old.to \in earlier.there
          BY <1>2, <1>5, <3>3
        <4> QED
          BY <2>2, <4>1, <4>2 DEF StoredPair, Sources, PairedWith
      <3> QED
        BY <3>1, <3>2, <3>3
    <2>5. found' = [found EXCEPT ![old.of] = c] /\ earlier' = earlier
      BY <1>2, <1>5, <2>3
    <2>6. found' \in [Finding -> StoredPair] /\ PairsThere'
      BY <1>1, <2>4, <2>5 DEF InspectionTyped, PairsThere
    <2> QED
      BY <1>1, <1>5, <2>1, <2>6 DEF InspectionInv, InspectionTyped
  <1> QED
    BY <1>4, <1>5 DEF setPairing

(* The pairs of the model are stored. *)
LEMMA MatchStands ==
    ASSUME InspectionAssumption, InspectionInv, NEW p \in Asker, storeAiPairs(p)
    PROVE  InspectionInv'
  <1>1. InspectionTyped /\ PairsThere /\ RequestsStand
    BY DEF InspectionInv
  <1>2. client' \in [Asker -> InspectionRequest] /\ RequestsStand'
    BY AfterWriting DEF storeAiPairs
  <1>3. UNCHANGED <<status, slots, compared, earlier, words>>
    BY DEF storeAiPairs
  <1>4. PICK pairs \in SUBSET (Finding \X PreFinding) : pairs = client[p].pairs
    BY <1>1 DEF InspectionTyped, InspectionRequest
  <1> DEFINE Paired(f) == {b \in PreFinding : <<f, b>> \in pairs}
             Chosen(f) == [source |-> "ai", with |-> CHOOSE b \in Paired(f) : TRUE]
  <1>5. \A b \in PreFinding, f \in Finding : <<f, b>> \in pairs => b \in earlier.there
    <2>1. \A pair \in pairs : pair[2] \in earlier.there
      BY <1>4 DEF storeAiPairs
    <2> QED
      BY <2>1
  <1>6. ASSUME NEW f \in Finding
        PROVE  \/ found'[f] = found[f]
               \/ found'[f] = Unpaired
               \/ Paired(f) # {} /\ found'[f] = Chosen(f)
    BY <1>4 DEF storeAiPairs
  <1>7. ASSUME NEW f \in Finding, Paired(f) # {}
        PROVE  Chosen(f) \in StoredPair /\ Chosen(f).with \in earlier.there
    <2>1. PICK b : b = CHOOSE x \in Paired(f) : TRUE
      OBVIOUS
    <2>2. b \in Paired(f)
      BY <1>7, <2>1
    <2>3. b \in PreFinding /\ b \in earlier.there
      BY <1>5, <2>2
    <2> QED
      BY <2>1, <2>3 DEF StoredPair, Sources, PairedWith
  <1>8. Unpaired \in StoredPair /\ Unpaired.with = Blank
    BY DEF Unpaired, StoredPair, Sources, PairedWith
  <1>9. \A f \in Finding : found'[f] \in StoredPair /\ found'[f].with \in earlier.there \cup {Blank}
    <2> HIDE DEF Chosen, Paired
    <2>1. \A f \in Finding : found[f] \in StoredPair /\ found[f].with \in earlier.there \cup {Blank}
      BY <1>1 DEF InspectionTyped, PairsThere
    <2> QED
      BY <1>6, <1>7, <1>8, <2>1
  <1>10. \E h : found' = [f \in Finding |-> h[f]]
    BY DEF storeAiPairs
  <1>11. found' \in [Finding -> StoredPair] /\ PairsThere'
    BY <1>3, <1>9, <1>10 DEF PairsThere
  <1> QED
    BY <1>1, <1>2, <1>3, <1>11 DEF InspectionInv, InspectionTyped

(* A finding of the pre-move inspection goes, and takes its place in the stored pairs. *)
LEMMA LosesStands ==
    ASSUME InspectionAssumption, InspectionInv, NEW p \in Asker, EarlierLoses(p)
    PROVE  InspectionInv'
  <1>1. InspectionTyped /\ PairsThere /\ RequestsStand
    BY DEF InspectionInv
  <1>2. CASE /\ \E b \in earlier.there : StartsWith(p, Asks("lose", Blank, b))
             /\ UNCHANGED <<status, slots, found, compared, earlier, words>>
    <2>1. PICK b \in PreFinding : StartsWith(p, Asks("lose", Blank, b))
      BY <1>1, <1>2 DEF InspectionTyped, EarlierRead
    <2>2. PICK next : next = Asks("lose", Blank, b)
      OBVIOUS
    <2>3. Goes(next) /\ StillSo(next)
      BY <2>2, AskedFirst DEF PairedWith
    <2>4. client' = [client EXCEPT ![p] = next]
      BY <2>1, <2>2 DEF StartsWith
    <2>5. client' \in [Asker -> InspectionRequest] /\ RequestsStand'
      BY <1>1, <1>2, <2>3, <2>4, AfterLooking DEF InspectionTyped
    <2> QED
      BY <1>1, <1>2, <2>5 DEF InspectionInv, InspectionTyped, PairsThere
  <1>3. CASE /\ client[p].op = "lose"
             /\ earlier' = [earlier EXCEPT !.there = @ \ {client[p].to}]
             /\ found' = [f \in Finding |-> IF found[f].with = client[p].to
                                            THEN [found[f] EXCEPT !.with = Blank] ELSE found[f]]
             /\ Overtaking(p, NoRequest)
             /\ UNCHANGED <<status, slots, compared, words, asked>>
    <2>1. client' \in [Asker -> InspectionRequest] /\ RequestsStand'
      BY <1>3, AfterWriting
    <2>2. PICK b : b = client[p].to
      OBVIOUS
    <2>3. earlier' \in EarlierRead /\ earlier'.there = earlier.there \ {b}
      BY <1>1, <1>3, <2>2 DEF InspectionTyped, EarlierRead
    <2>4. ASSUME NEW f \in Finding
          PROVE  found'[f] \in StoredPair /\ found'[f].with \in (earlier.there \ {b}) \cup {Blank}
      <3>1. PICK r \in StoredPair : r = found[f] /\ r.with \in earlier.there \cup {Blank}
        BY <1>1 DEF InspectionTyped, PairsThere
      <3>2. found'[f] = IF r.with = b THEN [r EXCEPT !.with = Blank] ELSE r
        BY <1>3, <2>2, <3>1
      <3> QED
        BY <3>1, <3>2 DEF StoredPair, PairedWith
    <2>5. found' \in [Finding -> StoredPair] /\ PairsThere'
      BY <1>3, <2>3, <2>4 DEF PairsThere
    <2> QED
      BY <1>1, <1>3, <2>1, <2>3, <2>5 DEF InspectionInv, InspectionTyped
  <1> QED
    BY <1>2, <1>3 DEF EarlierLoses

(* The inspection is completed, and what was signed before is counted again. *)
LEMMA CompletesStands ==
    ASSUME InspectionAssumption, InspectionInv, NEW p \in Asker, completeInspection(p)
    PROVE  InspectionInv'
  <1>1. InspectionTyped /\ PairsThere /\ RequestsStand
    BY DEF InspectionInv
  <1>2. CASE /\ status' = "completed"
             /\ Overtaking(p, [NoRequest EXCEPT !.op = "reuse", !.over = slots])
             /\ UNCHANGED <<slots, found, compared, earlier, words>>
    <2>1. PICK held \in SlotsHeld : held = slots
      BY <1>1 DEF InspectionTyped
    <2>2. PICK next : next = [NoRequest EXCEPT !.op = "reuse", !.over = held]
      OBVIOUS
    <2>3. next \in InspectionRequest /\ next.op = "reuse" /\ next.over = held
      BY <2>2, NoneAsked DEF InspectionRequest, InspectionOp
    <2>4. Overtaking(p, next) /\ Goes(next)
      BY <1>2, <2>1, <2>2, <2>3 DEF Goes, RequestHolds
    <2>5. StillSo(next)'
      BY <1>2, <2>1, <2>3 DEF StillSo
    <2>6. client' \in [Asker -> InspectionRequest] /\ RequestsStand'
      BY <1>1, <2>4, <2>5, AfterOvertaking DEF InspectionTyped
    <2> QED
      BY <1>1, <1>2, <2>6 DEF InspectionInv, InspectionTyped, PairsThere
  <1>3. CASE /\ Acts(p, "reuse")
             /\ client' = [client EXCEPT ![p] =
                   IF bothSigned(client[p].over, Content) THEN [@ EXCEPT !.op = "sign", !.over = Blank]
                   ELSE NoRequest]
             /\ UNCHANGED <<status, slots, found, compared, earlier, words, asked>>
    <2>1. PICK old \in InspectionRequest : old = client[p] /\ RequestHolds(old)
                                           /\ (~old.late => StillSo(old)) /\ old.op = "reuse"
      BY <1>1, <1>3 DEF InspectionTyped, RequestsStand, Acts
    <2>2. PICK next : next = IF bothSigned(old.over, Content) THEN [old EXCEPT !.op = "sign", !.over = Blank]
                             ELSE NoRequest
      OBVIOUS
    <2>3. client' = [client EXCEPT ![p] = next]
      BY <1>1, <1>3, <2>1, <2>2 DEF InspectionTyped
    <2>4. CASE next = NoRequest
      <3>1. Goes(next) /\ StillSo(next)
        BY <2>4, NoneAsked DEF Goes
      <3>2. client' \in [Asker -> InspectionRequest] /\ RequestsStand'
        BY <1>1, <1>3, <2>3, <3>1, AfterLooking DEF InspectionTyped
      <3> QED
        BY <1>1, <1>3, <3>2 DEF InspectionInv, InspectionTyped, PairsThere
    <2>5. CASE /\ bothSigned(old.over, Content)
               /\ next = [old EXCEPT !.op = "sign", !.over = Blank]
      <3>1. next \in InspectionRequest /\ next.op = "sign" /\ next.late = old.late
        BY <2>5 DEF InspectionRequest, InspectionOp
      <3>2. ~next.late => StillSo(next)
        BY <2>1, <2>5, <3>1 DEF StillSo, bothSigned
      <3>3. Goes(next)
        BY <3>1 DEF Goes, RequestHolds
      <3>4. client' \in [Asker -> InspectionRequest] /\ RequestsStand'
        BY <1>1, <1>3, <2>3, <3>2, <3>3, AfterLooking DEF InspectionTyped
      <3> QED
        BY <1>1, <1>3, <3>4 DEF InspectionInv, InspectionTyped, PairsThere
    <2> QED
      BY <2>2, <2>4, <2>5
  <1> QED
    BY <1>2, <1>3 DEF completeInspection

(* It is asked to be undone. *)
LEMMA AsksStands ==
    ASSUME InspectionAssumption, InspectionInv, NEW p \in Asker, asksToUndo(p)
    PROVE  InspectionInv'
  <1>1. InspectionTyped /\ PairsThere /\ RequestsStand
    BY DEF InspectionInv
  <1>2. /\ UNCHANGED <<status, slots, found, compared, earlier, words>>
        /\ client[p] = NoRequest
    BY DEF asksToUndo
  <1>3. PICK op \in {"reopen", "delete"}, chief \in BOOLEAN :
          /\ status = "signed" => chief
          /\ client' = [client EXCEPT ![p].op = op, ![p].chief = chief]
    BY DEF asksToUndo
  <1>4. PICK next : next = [NoRequest EXCEPT !.op = op, !.chief = chief]
    OBVIOUS
  <1>5. client' = [client EXCEPT ![p] = next]
    BY <1>1, <1>2, <1>3, <1>4 DEF InspectionTyped
  <1>6. next \in InspectionRequest /\ next.op = op /\ next.chief = chief
    BY <1>4, NoneAsked DEF InspectionRequest, InspectionOp
  <1>7. Goes(next) /\ StillSo(next)
    BY <1>3, <1>6 DEF Goes, RequestHolds, StillSo
  <1>8. client' \in [Asker -> InspectionRequest] /\ RequestsStand'
    BY <1>1, <1>2, <1>5, <1>7, AfterLooking DEF InspectionTyped
  <1> QED
    BY <1>1, <1>2, <1>8 DEF InspectionInv, InspectionTyped, PairsThere

(* It is reopened or deleted. *)
LEMMA UndoStands ==
    ASSUME InspectionAssumption, InspectionInv, NEW p \in Asker, Overtaking(p, NoRequest),
           status' \in {"draft", "signed", "deleted"},
           UNCHANGED <<slots, found, compared, earlier, words>>
    PROVE  InspectionInv'
  <1>1. client' \in [Asker -> InspectionRequest] /\ RequestsStand'
    BY AfterWriting
  <1> QED
    BY <1>1 DEF InspectionInv, InspectionTyped, PairsThere

(* A signature is recorded, and the inspection signed. *)
LEMMA SignsStands ==
    ASSUME InspectionAssumption, InspectionInv, NEW p \in Asker, recordSignoff(p)
    PROVE  InspectionInv'
  <1>1. InspectionTyped /\ PairsThere /\ RequestsStand
    BY DEF InspectionInv
  <1>2. PICK content \in ContentRead : content = Content
    BY <1>1, ContentIsRead
  <1>3. CASE /\ \E r \in SignRole :
                   StartsWith(p, [NoRequest EXCEPT !.op = "fill", !.to = r, !.over = Content])
             /\ UNCHANGED <<status, slots, found, compared, earlier, words>>
    <2>1. PICK r \in SignRole :
            StartsWith(p, [NoRequest EXCEPT !.op = "fill", !.to = r, !.over = content])
      BY <1>2, <1>3
    <2>2. PICK next : next = [NoRequest EXCEPT !.op = "fill", !.to = r, !.over = content]
      OBVIOUS
    <2>3. next \in InspectionRequest /\ next.op = "fill" /\ next.to = r /\ next.over = content
      BY <2>2, NoneAsked DEF InspectionRequest, InspectionOp
    <2>4. Goes(next) /\ StillSo(next)
      BY <1>2, <2>3 DEF Goes, RequestHolds, StillSo
    <2>5. client' = [client EXCEPT ![p] = next]
      BY <2>1, <2>2 DEF StartsWith
    <2>6. client' \in [Asker -> InspectionRequest] /\ RequestsStand'
      BY <1>1, <1>3, <2>4, <2>5, AfterLooking DEF InspectionTyped
    <2> QED
      BY <1>1, <1>3, <2>6 DEF InspectionInv, InspectionTyped, PairsThere
  <1>4. CASE /\ Acts(p, "fill")
             /\ slots' = [slots EXCEPT ![client[p].to] = client[p].over]
             /\ Overtaking(p, IF status # "signed" /\ bothSigned(slots', client[p].over)
                              THEN [client[p] EXCEPT !.op = "sign", !.over = Blank] ELSE NoRequest)
             /\ UNCHANGED <<status, found, compared, earlier, words, asked>>
    <2>1. PICK old \in InspectionRequest : old = client[p] /\ RequestHolds(old)
                                           /\ (~old.late => StillSo(old)) /\ old.op = "fill"
      BY <1>1, <1>4 DEF InspectionTyped, RequestsStand, Acts
    <2>2. slots' \in SlotsHeld
      <3>1. old.to \in SignRole /\ old.over \in ContentRead
        BY <2>1 DEF RequestHolds
      <3>2. slots' = [slots EXCEPT ![old.to] = old.over]
        BY <1>4, <2>1
      <3> QED
        BY <1>1, <3>1, <3>2 DEF InspectionTyped, SlotsHeld
    <2>3. CASE status # "signed" /\ bothSigned(slots', client[p].over)
      <3>1. PICK next : next = [old EXCEPT !.op = "sign", !.over = Blank]
        OBVIOUS
      <3>2. next \in InspectionRequest /\ next.op = "sign" /\ next.late = old.late
        BY <3>1 DEF InspectionRequest, InspectionOp
      <3>3. Overtaking(p, next) /\ Goes(next)
        BY <1>4, <2>1, <2>3, <3>1, <3>2 DEF Goes, RequestHolds
      <3>4. Content' = Content
        BY <1>4, ContentStays
      <3>5. ~next.late => \A r \in SignRole : slots'[r] = Content
        BY <2>1, <2>3, <3>2 DEF StillSo, bothSigned
      <3>6. ~next.late => StillSo(next)'
        BY <3>2, <3>4, <3>5 DEF StillSo
      <3>7. client' \in [Asker -> InspectionRequest] /\ RequestsStand'
        BY <1>1, <3>3, <3>6, AfterOvertaking DEF InspectionTyped
      <3> QED
        BY <1>1, <1>4, <2>2, <3>7 DEF InspectionInv, InspectionTyped, PairsThere
    <2>4. CASE ~(status # "signed" /\ bothSigned(slots', client[p].over))
      <3>1. Overtaking(p, NoRequest)
        BY <1>4, <2>4
      <3>2. client' \in [Asker -> InspectionRequest] /\ RequestsStand'
        BY <3>1, AfterWriting
      <3> QED
        BY <1>1, <1>4, <2>2, <3>2 DEF InspectionInv, InspectionTyped, PairsThere
    <2> QED
      BY <2>3, <2>4
  <1>5. CASE /\ Acts(p, "sign")
             /\ status' = "signed"
             /\ Overtaking(p, NoRequest)
             /\ UNCHANGED <<slots, found, compared, earlier, words, asked>>
    BY <1>5, UndoStands
  <1> QED
    BY <1>3, <1>4, <1>5 DEF recordSignoff

(* It stands at first. *)
LEMMA InspectionStarts == InspectionAssumption /\ InspectionInit => InspectionInv
  <1> SUFFICES ASSUME InspectionAssumption, InspectionInit
               PROVE  InspectionInv
    OBVIOUS
  <1>1. Unpaired \in StoredPair /\ Unfound \in StoredPair /\ Unpaired.with = Blank /\ Unfound.with = Blank
    BY DEF Unpaired, Unfound, StoredPair, Sources, PairedWith
  <1>2. InspectionTyped
    BY <1>1, NoneAsked DEF InspectionInit, InspectionTyped, SlotsHeld, EarlierRead
  <1>3. PairsThere
    BY <1>1 DEF InspectionInit, PairsThere
  <1>4. RequestsStand
    BY NoneAsked DEF InspectionInit, RequestsStand
  <1> QED
    BY <1>2, <1>3, <1>4 DEF InspectionInv

(* Every step keeps it. *)
LEMMA InspectionSteps == InspectionAssumption /\ InspectionInv /\ [InspectionNext]_inspVars => InspectionInv'
  <1> SUFFICES ASSUME InspectionAssumption, InspectionInv, [InspectionNext]_inspVars
               PROVE  InspectionInv'
    OBVIOUS
  <1>1. CASE UNCHANGED inspVars
    <2>1. Content' = Content
      BY <1>1, ContentStays DEF inspVars
    <2> QED
      BY <1>1, <2>1 DEF inspVars, InspectionInv, InspectionTyped, PairsThere, RequestsStand, StillSo
  <1>2. CASE EarlierEdited
    <2>1. earlier' \in EarlierRead /\ earlier'.there = earlier.there
      BY <1>2 DEF EarlierEdited, InspectionInv, InspectionTyped, EarlierRead
    <2>2. words' \in {0, 1} /\ UNCHANGED <<status, slots, found, compared>> /\ Overtaking(Blank, NoRequest)
      BY <1>2 DEF EarlierEdited, InspectionInv, InspectionTyped
    <2> QED
      BY <2>1, <2>2, WordsStand
  <1>3. ASSUME NEW p \in Asker, updateFinding(p)
        PROVE  InspectionInv'
    <2>1. words' \in {0, 1} /\ UNCHANGED <<status, slots, found, compared, earlier>> /\ Overtaking(p, NoRequest)
      BY <1>3 DEF updateFinding, InspectionInv, InspectionTyped
    <2>2. earlier' \in EarlierRead /\ earlier'.there = earlier.there
      BY <2>1 DEF InspectionInv, InspectionTyped
    <2> QED
      BY <2>1, <2>2, WordsStand
  <1>4. ASSUME NEW p \in Asker, reopenInspection(p) \/ deleteInspection(p)
        PROVE  InspectionInv'
    BY <1>4, UndoStands DEF reopenInspection, deleteInspection
  <1> QED
    BY <1>1, <1>2, <1>3, <1>4, LooksFirstStands, GoesAwayStands, LosesStands, AddStands, RemoveStands,
       CompareStands, ChoosesStands, MatchStands, CompletesStands, AsksStands, SignsStands
       DEF InspectionNext

(* A request that signs does so over what both signatures cover, unless it is overtaken. *)
LEMMA SigningCovers == InspectionInv => SignedOverContent
  BY DEF InspectionInv, RequestsStand, StillSo, SignedOverContent

(* Who overtakes is seen to. *)
LEMMA Goers ==
    ASSUME client \in [Asker -> InspectionRequest], NEW p \in Asker, NEW op,
           client[p].op = op, op # "none",
           \/ Overtaking(p, NoRequest)
           \/ \E next : next # op /\ Overtaking(p, [client[p] EXCEPT !.op = next])
    PROVE  client'[p] # client[p]
  <1>1. client[p].op = op /\ client[p] \in InspectionRequest
    OBVIOUS
  <1>2. CASE Overtaking(p, NoRequest)
    BY <1>1, <1>2, NoneAsked DEF Overtaking
  <1>3. CASE \E next : next # op /\ Overtaking(p, [client[p] EXCEPT !.op = next])
    <2>1. PICK next : next # op /\ Overtaking(p, [client[p] EXCEPT !.op = next])
      BY <1>3
    <2>2. client'[p] = [client[p] EXCEPT !.op = next]
      BY <2>1 DEF Overtaking
    <2>3. client'[p].op = next
      BY <1>1, <2>2 DEF InspectionRequest
    <2> QED
      BY <1>1, <2>1, <2>3
  <1> QED
    BY <1>2, <1>3

(* What is signed is undone by an administrator, or by who looked before. *)
LEMMA EvidenceIsKept == InspectionInv /\ InspectionNext => EvidenceStays
  <1> SUFFICES ASSUME InspectionInv, InspectionNext, status = "signed", status' # "signed"
               PROVE  \E p \in Asker : /\ client[p].op \in {"reopen", "delete"} /\ client'[p] # client[p]
                                       /\ client[p].chief \/ client[p].late
    BY DEF EvidenceStays
  <1>1. client \in [Asker -> InspectionRequest] /\ RequestsStand
    BY DEF InspectionInv, InspectionTyped
  <1>2. PICK p \in Asker : reopenInspection(p) \/ deleteInspection(p)
    BY DEF InspectionNext, EarlierEdited, LooksFirst, GoesAway, EarlierLoses, addFinding, removeFinding,
           updateFinding, updateInspection, setPairing, storeAiPairs, completeInspection, asksToUndo,
           recordSignoff, assertDraft
  <1>3. PICK op : op = client[p].op /\ op \in {"reopen", "delete"} /\ Overtaking(p, NoRequest)
    BY <1>2 DEF reopenInspection, deleteInspection, Acts
  <1>4. client'[p] # client[p]
    BY <1>1, <1>3, Goers
  <1>5. client[p].chief \/ client[p].late
    BY <1>1, <1>3 DEF RequestsStand, StillSo
  <1> QED
    BY <1>3, <1>4, <1>5

(* A choice changes under a person's request only, or with what it was made of. *)
LEMMA ChoicesAreKept ==
    ASSUME InspectionInv, InspectionNext, NEW f \in Found, found[f].source = "manual"
    PROVE  \/ found'[f] = found[f] \/ earlier' # earlier
           \/ \E p \in Asker : client[p].op \in {"free", "pair", "remove", "compare"}
                                /\ client'[p] # client[p]
  <1>1. /\ client \in [Asker -> InspectionRequest] /\ found \in [Finding -> StoredPair]
        /\ f \in Finding /\ PairsThere /\ RequestsStand /\ earlier \in EarlierRead
    BY DEF InspectionInv, InspectionTyped, Found
  <1>2. ASSUME NEW p \in Asker, addFinding(p)
        PROVE  found'[f] = found[f]
    <2>1. client[p].of # f
      BY <1>2 DEF addFinding, Unfound
    <2> QED
      BY <1>1, <1>2, <2>1 DEF addFinding
  <1>3. ASSUME NEW p \in Asker, removeFinding(p)
        PROVE  client[p].op = "remove" /\ client'[p] # client[p]
    BY <1>1, <1>3, Goers DEF removeFinding, Acts
  <1>4. ASSUME NEW p \in Asker, updateInspection(p)
        PROVE  found'[f] = found[f] \/ (client[p].op = "compare" /\ client'[p] # client[p])
    <2>1. CASE Acts(p, "choose") /\ found' = found
      BY <2>1
    <2>2. CASE Acts(p, "compare") /\ Overtaking(p, [client[p] EXCEPT !.op = "choose"])
      BY <1>1, <2>2, Goers DEF Acts
    <2> QED
      BY <1>4, <2>1, <2>2 DEF updateInspection
  <1>5. ASSUME NEW p \in Asker, setPairing(p)
        PROVE  client[p].op \in {"free", "pair"} /\ client'[p] # client[p]
    <2>1. CASE Acts(p, "free") /\ Overtaking(p, [client[p] EXCEPT !.op = "pair"])
      BY <1>1, <2>1, Goers DEF Acts
    <2>2. CASE Acts(p, "pair") /\ Overtaking(p, NoRequest)
      BY <1>1, <2>2, Goers DEF Acts
    <2> QED
      BY <1>5, <2>1, <2>2 DEF setPairing
  <1>6. ASSUME NEW p \in Asker, storeAiPairs(p)
        PROVE  found'[f] = found[f]
    <2>1. ~MayPair(f)
      BY DEF MayPair
    <2> QED
      BY <1>1, <1>6, <2>1 DEF storeAiPairs
  <1>7. ASSUME NEW p \in Asker, EarlierLoses(p)
        PROVE  found'[f] = found[f] \/ earlier' # earlier
    <2>1. CASE found' = found
      BY <2>1
    <2>2. CASE /\ client[p].op = "lose"
               /\ earlier' = [earlier EXCEPT !.there = @ \ {client[p].to}]
               /\ found' = [g \in Finding |-> IF found[g].with = client[p].to
                                              THEN [found[g] EXCEPT !.with = Blank] ELSE found[g]]
      <3>1. PICK b : b = client[p].to
        OBVIOUS
      <3>2. found[f].with # b => found'[f] = found[f]
        BY <1>1, <2>2, <3>1
      <3>3. found[f].with = b /\ b # Blank => b \in earlier.there
        BY <1>1 DEF PairsThere
      <3>4. b \in earlier.there => earlier' # earlier
        <4>1. earlier'.there = earlier.there \ {b}
          BY <1>1, <2>2, <3>1 DEF EarlierRead
        <4> QED
          BY <4>1
      <3>5. found[f].with = Blank /\ b = Blank => found'[f] = found[f]
        <4>1. found[f].with = Blank => [found[f] EXCEPT !.with = Blank] = found[f]
          BY <1>1 DEF StoredPair
        <4> QED
          BY <1>1, <2>2, <4>1
      <3> QED
        BY <3>2, <3>3, <3>4, <3>5
    <2> QED
      BY <1>7, <2>1, <2>2 DEF EarlierLoses
  <1>8. ASSUME NEW p \in Asker,
               \/ LooksFirst(p) \/ GoesAway(p) \/ updateFinding(p) \/ completeInspection(p)
               \/ asksToUndo(p) \/ reopenInspection(p) \/ deleteInspection(p) \/ recordSignoff(p)
        PROVE  found' = found
    BY <1>8 DEF LooksFirst, GoesAway, updateFinding, completeInspection, asksToUndo, reopenInspection,
                deleteInspection, recordSignoff
  <1>9. EarlierEdited => found' = found
    BY DEF EarlierEdited
  <1> QED
    BY <1>2, <1>3, <1>4, <1>5, <1>6, <1>7, <1>8, <1>9 DEF InspectionNext

(* The requests of the inspection, what they carry and what they read, stand in every state. *)
THEOREM InspectionInvariant == InspectionSpec => []InspectionInv
  <1>1. InspectionInit => InspectionInv
    BY InspectionAssumption, InspectionStarts
  <1>2. InspectionInv /\ [InspectionNext]_inspVars => InspectionInv'
    BY InspectionAssumption, InspectionSteps
  <1> QED
    BY <1>1, <1>2, PTL DEF InspectionSpec

(* inspections.ts: what was found, chosen and signed stays as people meant it, for any
   number of requests, findings and pairs that lie near each other. *)
THEOREM SignoffsAlwaysStand == InspectionSpec => SignoffsStand
  <1>1. InspectionInv /\ [InspectionNext]_inspVars
        => [SignedOverContent /\ EvidenceStays /\ ChoicesStand]_inspVars
    <2> SUFFICES ASSUME InspectionInv, InspectionNext
                 PROVE  SignedOverContent /\ EvidenceStays /\ ChoicesStand
      OBVIOUS
    <2>1. compared => \A f \in Found : found[f].source = "manual" =>
                \/ compareFindings[f] = found[f].with
                \/ \E g \in Found \ {f} : found[g] = found[f]
      BY InspectionAssumption, ChoicesComeFirst DEF InspectionInv
    <2>2. ChoicesStand
      BY <2>1, ChoicesAreKept DEF ChoicesStand
    <2> QED
      BY <2>2, SigningCovers, EvidenceIsKept
  <1> QED
    BY <1>1, InspectionInvariant, PTL DEF InspectionSpec, SignoffsStand

=============================================================================
