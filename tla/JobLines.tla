------------------------------- MODULE JobLines -------------------------------
(***************************************************************************)
(* A job's manifest: lines climb the ladder of stages as they are scanned, *)
(* join the shipments they are scanned onto, and hold a shipment back      *)
(* until they have caught up with it.                                      *)
(*                                                                         *)
(* A scan, or ticking rows off, runs in a transaction under the job's lock *)
(* and shares the shipment's.  Edits of the manifest take neither: they    *)
(* look, and then change the rows in one statement.                        *)
(***************************************************************************)
EXTENDS Integers, FiniteSets

CONSTANTS
    Scanner,    \* batches of scans at a time
    BoxLine,    \* lines there may be
    Truck,      \* the job's shipments
    NoTruck,
    Ladder,     \* how many rungs above pending
    MaxBatches  \* bound: scans, edits and changes of status

ASSUME JobAssumption ==
    NoTruck \notin Truck /\ Ladder \in Nat \ {0} /\ MaxBatches \in Nat

VARIABLES
    job,         \* its status
    line,        \* [BoxLine -> its row]
    truck,       \* [Truck -> status]
    trip,        \* [BoxLine -> its latest stage change]
    scan,        \* [Scanner -> the plan of its transaction]
    departing,   \* [Truck -> the status a transaction decided on]
    edit,        \* an edit that looked, and is about to change rows
    batches      \* counts what MaxBatches bounds

jobVars == <<job, line, truck, trip, scan, departing, edit, batches>>

(* Stages: the rungs, pending the lowest, and one that is not on the ladder. *)
Pending == 0
Damaged == -1
Stage == -1 .. Ladder
Loaded == IF Ladder > 1 THEN Ladder - 1 ELSE Ladder
Delivered == Ladder

OpenJob == {"planned", "in_progress"}
TruckStatus == <<"planned", "loaded", "closed">>
RankOf(status) == CHOOSE n \in DOMAIN TruckStatus : TruckStatus[n] = status

NoLine == [there |-> FALSE, stage |-> Pending, truck |-> NoTruck]
NoTrip == [from |-> Pending, to |-> Pending]
NoScan == [on |-> FALSE]
NoStatus == "none"
NoEdit == [on |-> FALSE]

JobInit ==
    /\ job = "planned"
    /\ line = [l \in BoxLine |-> NoLine]
    /\ truck = [s \in Truck |-> "planned"]
    /\ trip = [l \in BoxLine |-> NoTrip]
    /\ scan = [c \in Scanner |-> NoScan]
    /\ departing = [s \in Truck |-> NoStatus]
    /\ edit = NoEdit
    /\ batches = 0

There == {l \in BoxLine : line[l].there}
Batched == batches < MaxBatches /\ batches' = batches + 1

-----------------------------------------------------------------------------
(* The rules *)

decideStage(from, to, force) ==
    CASE from = to -> "already"
      [] from # to /\ force -> "advance"
      [] from # to /\ ~force /\ to = Pending -> "blocked"
      [] from # to /\ ~force /\ to # Pending /\ (Damaged \in {from, to} \/ to > from) -> "advance"
      [] OTHER -> "already"

(* The lines a batch moves: on the shipment being worked or on none, unless forced off
   another; a guard may keep some back. *)
Fits(l, s) == s = NoTruck \/ line[l].truck \in {NoTruck, s}

planAdvance(batch, to, s, force) ==
    {l \in batch : (Fits(l, s) \/ force) /\ decideStage(line[l].stage, to, force) = "advance"}

(* Exceptions never hold a shipment back. *)
Ready(l, status) ==
    line[l].stage = Damaged
    \/ line[l].stage >= (CASE status = "loaded" -> Loaded [] status = "closed" -> Delivered
                           [] status = "planned" -> Pending)

checkShipmentTransition(s, to, force) ==
    /\ to # truck[s]
    /\ \/ force
       \/ /\ RankOf(to) > RankOf(truck[s])
          /\ \A l \in There : line[l].truck = s => Ready(l, to)

-----------------------------------------------------------------------------
(* Scans *)

(* Mutant: the job is read without its lock. *)
JobIsFreeAnyway == TRUE

(* No scan holds the job: another scan, and an edit of the job, wait. *)
JobIsFree == \A c \in Scanner : ~scan[c].on

(* No scan shares the shipment's lock. *)
TruckIsFree(s) == \A c \in Scanner : scan[c].on => scan[c].truck # s

(* The job locked, the shipment shared, the candidates read, the guards asked. *)
PlanScan(c) ==
    /\ ~scan[c].on
    /\ JobIsFree
    /\ job \in OpenJob
    /\ Batched
    /\ \E s \in Truck \cup {NoTruck}, to \in Stage, force \in BOOLEAN, batch \in SUBSET There :
        /\ s # NoTruck => truck[s] # "closed" /\ departing[s] = NoStatus
        /\ LET moving == planAdvance(batch, to, s, force)
           IN /\ moving = batch /\ batch # {}
              /\ scan' = [scan EXCEPT ![c] =
                            [on |-> TRUE, lost |-> FALSE, truck |-> s, to |-> to, force |-> force,
                             from |-> [l \in moving |-> line[l].stage],
                             joins |-> {l \in moving : s # NoTruck /\ line[l].truck # s}]]
    /\ UNCHANGED <<job, line, truck, trip, departing, edit>>

Moving(c) == DOMAIN scan[c].from

(* Rows and history; the first real movement starts a planned job. *)
CommitScan(c) ==
    /\ scan[c].on
    /\ ~scan[c].lost
    /\ line' = [l \in BoxLine |->
                  IF l \notin Moving(c) THEN line[l]
                  ELSE [line[l] EXCEPT !.stage = scan[c].to,
                                       !.truck = IF l \in scan[c].joins THEN scan[c].truck ELSE @]]
    /\ trip' = [l \in BoxLine |->
                  IF l \in Moving(c) THEN [from |-> scan[c].from[l], to |-> scan[c].to] ELSE trip[l]]
    /\ job' = IF job = "planned" THEN "in_progress" ELSE job
    /\ scan' = [scan EXCEPT ![c] = NoScan]
    /\ UNCHANGED <<truck, departing, edit, batches>>

(* A line that was removed meanwhile has no history to add to; or the connection is lost. *)
AbortScan(c) ==
    /\ scan[c].on
    /\ scan' = [scan EXCEPT ![c] = NoScan]
    /\ UNCHANGED <<job, line, truck, trip, departing, edit, batches>>

-----------------------------------------------------------------------------
(* Shipments *)

DecideShipment(s) ==
    /\ departing[s] = NoStatus
    /\ TruckIsFree(s)
    /\ Batched
    /\ \E n \in DOMAIN TruckStatus, force \in BOOLEAN :
        /\ checkShipmentTransition(s, TruckStatus[n], force)
        /\ departing' = [departing EXCEPT ![s] = TruckStatus[n]]
    /\ UNCHANGED <<job, line, truck, trip, scan, edit>>

setShipmentStatus(s) ==
    /\ departing[s] # NoStatus
    /\ truck' = [truck EXCEPT ![s] = departing[s]]
    /\ departing' = [departing EXCEPT ![s] = NoStatus]
    /\ UNCHANGED <<job, line, trip, scan, edit, batches>>

-----------------------------------------------------------------------------
(* The manifest and the job *)

(* The job and the shipment are looked at first. *)
LookToEdit ==
    /\ ~edit.on
    /\ job \in OpenJob
    /\ Batched
    /\ \E s \in Truck \cup {NoTruck}, what \in {"add", "update", "remove"}, l \in BoxLine :
        /\ s # NoTruck => truck[s] # "closed" /\ what # "remove"
        /\ line[l].there <=> what # "add"
        /\ edit' = [on |-> TRUE, what |-> what, line |-> l, truck |-> s]
    /\ UNCHANGED <<job, line, truck, trip, scan, departing>>

(* Mutant: a line removed and added again keeps its stage. *)
EditKeepingStage ==
    /\ edit.on
    /\ line' = [line EXCEPT ![edit.line].there = edit.what # "remove", ![edit.line].truck = edit.truck]
    /\ trip' = IF edit.what = "remove" THEN [trip EXCEPT ![edit.line] = NoTrip] ELSE trip
    /\ edit' = NoEdit
    /\ UNCHANGED <<job, truck, scan, departing, batches>>

(* A foreign key locks the row it names: a line is added once the job is free, and put on a
   shipment once no one is changing it. *)
NamedRowsFree ==
    /\ edit.what = "add" => JobIsFree
    /\ edit.truck # NoTruck => departing[edit.truck] = NoStatus

(* A line already there is not added again, and one that is gone is not changed; its
   history goes with it. *)
EditLines ==
    /\ edit.on
    /\ NamedRowsFree
    /\ LET l == edit.line
       IN /\ line' = CASE edit.what = "add" /\ ~line[l].there ->
                            [line EXCEPT ![l] = [NoLine EXCEPT !.there = TRUE, !.truck = edit.truck]]
                       [] edit.what = "update" /\ line[l].there -> [line EXCEPT ![l].truck = edit.truck]
                       [] edit.what = "remove" -> [line EXCEPT ![l] = NoLine]
                       [] OTHER -> line
          /\ trip' = IF edit.what = "remove" THEN [trip EXCEPT ![l] = NoTrip] ELSE trip
          /\ scan' = [c \in Scanner |->
                         IF edit.what = "remove" /\ scan[c].on /\ l \in Moving(c)
                         THEN [scan[c] EXCEPT !.lost = TRUE] ELSE scan[c]]
    /\ edit' = NoEdit
    /\ UNCHANGED <<job, truck, departing, batches>>

(* A plain UPDATE: it waits for whoever has the job locked. *)
updateJob ==
    /\ Batched
    /\ JobIsFree
    /\ \E status \in (OpenJob \cup {"completed"}) \ {job} : job' = status
    /\ UNCHANGED <<line, truck, trip, scan, departing, edit>>

JobNext ==
    \/ \E c \in Scanner : PlanScan(c) \/ CommitScan(c) \/ AbortScan(c)
    \/ \E s \in Truck : DecideShipment(s) \/ setShipmentStatus(s)
    \/ LookToEdit \/ EditLines \/ updateJob

JobSpec == JobInit /\ [][JobNext]_jobVars

-----------------------------------------------------------------------------
(* Properties *)

JobTypeOK ==
    /\ job \in OpenJob \cup {"completed"}
    /\ \A l \in BoxLine :
          /\ line[l].stage \in Stage /\ line[l].truck \in Truck \cup {NoTruck}
          /\ ~line[l].there => line[l] = NoLine
    /\ \A c \in Scanner : scan[c].on => scan[c].joins \subseteq Moving(c)

(* rules.ts:33-46: unless forced, no line goes back down the ladder, two scanners reading
   it at the same stage included. *)
LadderGoesUp ==
    \A l \in There \cap There' :
        line'[l].stage # line[l].stage
        => \E c \in Scanner :
              /\ scan[c].on /\ l \in Moving(c)
              /\ \/ scan[c].force
                 \/ line'[l].stage # Pending
                    /\ (Damaged \in {line[l].stage, line'[l].stage} \/ line'[l].stage > line[l].stage)

(* advance.ts:524: each stage change of a line starts at the stage the last one ended. *)
TripsJoin ==
    \A l \in There \cap There' : trip'[l] # trip[l] => trip'[l].from = trip[l].to

(* advance.ts:524: a line stands where its latest stage change left it, and one that was
   removed and added again starts over. *)
TripEndsHere == \A l \in There : trip[l].to = line[l].stage

(* advance.ts:176: nothing is scanned onto a shipment that closed meanwhile. *)
ClosedTakesNoScan ==
    \A l \in BoxLine, s \in Truck :
        line[l].truck # s /\ line'[l].truck = s /\ scan' # scan => truck[s] # "closed"

(* shared.ts:44: no stage changes on a job that was completed meanwhile, until it is
   reopened. *)
OpenJobOnly ==
    \A l \in There \cap There' : line'[l].stage # line[l].stage => job \in OpenJob

(* The manifest between scans: a line's history ends where it stands. *)
LinesSound == JobTypeOK /\ TripEndsHere

(* What a scan, committed, has done to the lines, whoever else scanned, sent a shipment off
   or closed the job between its look and its commit. *)
ScansKeepOrder == [][LadderGoesUp /\ TripsJoin /\ ClosedTakesNoScan /\ OpenJobOnly]_jobVars
=============================================================================
