------------------------------ MODULE TagPresence ------------------------------
(* One Bluetooth tag (services/ble): the presence engine decides its room in the memory of
   the server its gateways report to, one report at a time; the room goes to the database
   in several writes; and every replica sweeps for tags gone missing.  The server stops
   and starts, and writes fail. *)
EXTENDS Integers, FiniteSets

CONSTANTS
    Zone,
    NoZone,
    Sweeper,    \* replicas that look for missing tags
    DwellMs,    \* BLE_DWELL_SECONDS
    StoreMs,    \* BLE_STORE_SECONDS
    MissingMs,  \* BLE_MISSING_MINUTES: well above it
    IdleMs,     \* ENGINE_IDLE_MS
    MaxTime,    \* bound: the clock
    MaxFails,   \* bound: writes that fail
    MaxStops    \* bound: restarts

ASSUME TagAssumption ==
    /\ NoZone \notin Zone /\ IsFiniteSet(Sweeper)
    /\ DwellMs \in Nat /\ StoreMs \in Nat /\ MissingMs \in Nat /\ IdleMs \in Nat
    /\ 2 * StoreMs < MissingMs
    /\ MaxTime \in Nat /\ MaxFails \in Nat /\ MaxStops \in Nat

VARIABLES
    time,
    engine,      \* memory: what the presence engine believes
    lastStored,  \* memory: when the tag's state was last written
    report,      \* memory: the report under way
    tag,         \* its row in ble_tag_state
    place,       \* the zone of the item's position
    alert,       \* its alert that it is missing: is it open, was it in a digest
    sweep,       \* [Sweeper -> the tag it marked is still to be published]
    told,        \* history: times it was said to be missing, and to be found
    spells,      \* history: times it was marked missing
    heardAt,     \* history: the latest reading of a report that is done
    adrift,      \* history: what a failure or a crossing left behind
    fails, stops

tagVars == <<time, engine, lastStored, report, tag, place, alert, sweep, told, spells,
             heardAt, adrift, fails, stops>>

NoTime == -1
NotSeen == [known |-> FALSE, zone |-> NoZone, candidate |-> NoZone, since |-> NoTime, last |-> NoTime]
NoReport == [at |-> "idle", zone |-> NoZone, change |-> NoZone, due |-> FALSE, now |-> NoTime,
             was |-> FALSE]

(* The server may start with a tag whose room is on file. *)
TagInit ==
    /\ time = 0
    /\ engine = NotSeen /\ lastStored = NoTime /\ report = NoReport
    /\ place \in {NoZone} \cup Zone
    /\ tag = [there |-> place # NoZone, zone |-> place, heard |-> 0, missing |-> FALSE]
    /\ alert = [open |-> FALSE, sent |-> FALSE]
    /\ sweep = [s \in Sweeper |-> FALSE]
    /\ told = [missing |-> 0, found |-> 0] /\ spells = 0
    /\ heardAt = IF place = NoZone THEN NoTime ELSE 0
    /\ adrift = {}
    /\ fails = 0 /\ stops = 0

Memory == <<engine, lastStored, report>>
Database == <<tag, place, alert>>
History == <<told, spells, heardAt, adrift>>
Mishaps == <<fails, stops>>

(* A report takes less than the time after which its tag is missing or forgotten. *)
Elapse ==
    /\ time < MaxTime
    /\ report.at # "idle" => time - report.now < MissingMs /\ time - report.now < IdleMs
    /\ time' = time + 1
    /\ UNCHANGED <<Memory, Database, sweep, History, Mishaps>>

-----------------------------------------------------------------------------
(* The presence engine: a verdict on a reading is the best zone by the smoothed signals,
   and whether it beats the current one by the margin. *)

seeded ==
    IF engine.known THEN engine
    ELSE [NotSeen EXCEPT !.known = TRUE, !.zone = IF tag.there THEN tag.zone ELSE NoZone]

decide(e, best, beats) ==
    LET since == IF e.candidate = best THEN e.since ELSE time
    IN IF best = e.zone \/ ~beats THEN [e EXCEPT !.candidate = NoZone, !.since = NoTime]
       ELSE IF time - since < DwellMs THEN [e EXCEPT !.candidate = best, !.since = since]
       ELSE [e EXCEPT !.zone = best, !.candidate = NoZone, !.since = NoTime]

(* Mutant: only the gateway that hears it best keeps a tag current. *)
DueFromBest(last, mine) == last = NoTime \/ (time - last >= StoreMs /\ mine)

(* What is stored is paced, and left to the gateway that hears the tag best, for a while. *)
Due(last, mine) ==
    last = NoTime \/ (time - last >= StoreMs /\ (mine \/ time - last >= 2 * StoreMs))

Report ==
    /\ report.at = "idle"
    /\ \E best \in Zone, beats, mine \in BOOLEAN :
          /\ seeded.zone = NoZone => beats
          /\ LET e == decide(seeded, best, beats)
                 change == IF e.zone # seeded.zone THEN e.zone ELSE NoZone
                 last == IF ~engine.known /\ lastStored = NoTime /\ tag.there THEN tag.heard
                         ELSE lastStored
             IN /\ engine' = [e EXCEPT !.last = time]
                /\ lastStored' = last
                /\ report' = [NoReport EXCEPT !.at = IF change = NoZone THEN "still" ELSE "record",
                       !.zone = e.zone, !.change = change, !.now = time,
                       !.due = change # NoZone \/ Due(last, mine)]
    /\ UNCHANGED <<time, Database, sweep, History, Mishaps>>

(* What is forgotten comes back as the tag's row has it: a room that reached the position
   and not the row, or the other way round, is behind or ahead of it. *)
AsOnFile(left) == (left \ {"place"}) \cup (IF tag.zone # place THEN {"place"} ELSE {})

forgetIdle ==
    /\ engine.known /\ engine.last < time - IdleMs
    /\ engine' = NotSeen
    /\ adrift' = AsOnFile(adrift)
    /\ UNCHANGED <<time, lastStored, report, Database, sweep, told, spells, heardAt, Mishaps>>

-----------------------------------------------------------------------------
(* From the decision to the database *)

(* The change of zone is a sighting of its own; the position follows. *)
RecordChange ==
    /\ report.at = "record"
    /\ place' = report.change
    /\ adrift' = adrift \ {"place"}
    /\ report' = [report EXCEPT !.at = "still"]
    /\ UNCHANGED <<time, engine, lastStored, tag, alert, sweep, told, spells, heardAt, Mishaps>>

(* A tag that stays put is a sighting without a zone, and its state is written with it. *)
RecordStillHere ==
    /\ report.at = "still"
    /\ report' = IF report.due THEN [report EXCEPT !.at = "write"] ELSE NoReport
    /\ heardAt' = IF report.due THEN heardAt ELSE report.now
    /\ UNCHANGED <<time, engine, lastStored, Database, sweep, told, spells, adrift, Mishaps>>

(* The statement sees whether the tag was missing when it begins, and waits for its row. *)
WriteBegins ==
    /\ report.at = "write"
    /\ report' = [report EXCEPT !.at = "upsert", !.was = tag.there /\ tag.missing]
    /\ UNCHANGED <<time, engine, lastStored, Database, sweep, History, Mishaps>>

WriteStates ==
    /\ report.at = "upsert"
    /\ tag' = [there |-> TRUE, zone |-> report.zone, missing |-> FALSE,
               heard |-> IF tag.there /\ tag.heard > report.now THEN tag.heard ELSE report.now]
    /\ lastStored' = report.now
    /\ report' = IF report.was THEN [report EXCEPT !.at = "announce"] ELSE NoReport
    /\ heardAt' = report.now
    /\ adrift' = IF tag.missing /\ ~report.was THEN adrift \cup {"alert"} ELSE adrift
    /\ UNCHANGED <<time, engine, place, alert, sweep, told, spells, Mishaps>>

(* What went wrong here is logged, and no more. *)
ResolveMissing ==
    /\ report.at = "announce"
    /\ alert' = [alert EXCEPT !.open = FALSE]
    /\ adrift' = adrift \ {"alert"}
    /\ report' = [report EXCEPT !.at = "tell"]
    /\ UNCHANGED <<time, engine, lastStored, tag, place, sweep, told, spells, heardAt, Mishaps>>

TellFound ==
    /\ report.at = "tell"
    /\ told' = [told EXCEPT !.found = @ + 1]
    /\ report' = NoReport
    /\ UNCHANGED <<time, engine, lastStored, Database, sweep, spells, heardAt, adrift, Mishaps>>

(* What the report still had to do is not done again. *)
LeftBehind ==
    adrift \cup (IF report.at = "record" THEN {"place"} ELSE {})
           \cup (IF report.at = "announce" THEN {"alert"} ELSE {})

ReportFails ==
    /\ report.at # "idle" /\ fails < MaxFails
    /\ fails' = fails + 1
    /\ adrift' = LeftBehind
    /\ report' = NoReport
    /\ UNCHANGED <<time, engine, lastStored, Database, sweep, told, spells, heardAt, stops>>

(* The memory goes. *)
ServerRestarts ==
    /\ engine.known /\ stops < MaxStops
    /\ stops' = stops + 1
    /\ engine' = NotSeen /\ lastStored' = NoTime /\ report' = NoReport
    /\ adrift' = AsOnFile(LeftBehind)
    /\ UNCHANGED <<time, Database, sweep, told, spells, heardAt, fails>>

-----------------------------------------------------------------------------
(* The checks of every replica *)

MayMark == tag.there /\ ~tag.missing /\ tag.heard < time - MissingMs

(* In one transaction, with the alert unless one is open. *)
sweepMissing(s) ==
    /\ ~sweep[s] /\ MayMark
    /\ tag' = [tag EXCEPT !.missing = TRUE]
    /\ alert' = IF alert.open THEN alert ELSE [open |-> TRUE, sent |-> FALSE]
    /\ spells' = IF tag.missing THEN spells ELSE spells + 1
    /\ adrift' = adrift \ {"alert"}
    /\ sweep' = [sweep EXCEPT ![s] = TRUE]
    /\ UNCHANGED <<time, Memory, place, told, heardAt, Mishaps>>

TellMissing(s) ==
    /\ sweep[s]
    /\ told' = [told EXCEPT !.missing = @ + 1]
    /\ sweep' = [sweep EXCEPT ![s] = FALSE]
    /\ UNCHANGED <<time, Memory, Database, spells, heardAt, adrift, Mishaps>>

SweeperStops(s) ==
    /\ sweep[s] /\ stops < MaxStops
    /\ stops' = stops + 1
    /\ sweep' = [sweep EXCEPT ![s] = FALSE]
    /\ UNCHANGED <<time, Memory, Database, History, fails>>

claimDigest ==
    /\ alert.open /\ ~alert.sent
    /\ alert' = [alert EXCEPT !.sent = TRUE]
    /\ UNCHANGED <<time, Memory, tag, place, sweep, History, Mishaps>>

-----------------------------------------------------------------------------
TagNext ==
    \/ Elapse
    \/ Report \/ forgetIdle
    \/ RecordChange \/ RecordStillHere \/ WriteBegins \/ WriteStates
    \/ ResolveMissing \/ TellFound \/ ReportFails \/ ServerRestarts
    \/ \E s \in Sweeper : sweepMissing(s) \/ TellMissing(s) \/ SweeperStops(s)
    \/ claimDigest

TagSpec == TagInit /\ [][TagNext]_tagVars

-----------------------------------------------------------------------------
(* Properties *)

(* docs/ble.md:192: a tag that is missing has its alert, and one that was heard again has
   not: but for a sweep that came between a report's statement and its lock, and for
   alerts that could not be closed. *)
AlertsMatch ==
    /\ tag.missing => alert.open
    /\ alert.open /\ ~tag.missing => report.at = "announce" \/ "alert" \in adrift

(* docs/ble.md:111-113: once its report is done, the item is where the engine decided, but
   for a write that failed and a memory lost between two writes. *)
PlacedAsDecided ==
    report.at = "idle" /\ engine.known /\ "place" \notin adrift => place = engine.zone

(* alerts.ts:8-13: each spell of silence is told once at most, however many replicas
   sweep, and found once at most. *)
ToldOnce == told.missing <= spells /\ told.found <= spells

(* ingest.ts:365: pacing what is stored leaves nothing missing that is being heard. *)
NotMissedWhileHeard ==
    ~tag.missing /\ tag'.missing => heardAt < time - MissingMs + 2 * StoreMs

(* Each spell has an alert of its own in a digest, but for one that could not be closed. *)
NewSpellIsNew ==
    ~tag.missing /\ tag'.missing /\ "alert" \notin adrift => alert'.open /\ ~alert'.sent

(* A tag's room, its alert and what is told of it agree, over reports, sweeps of several
   replicas, failures and restarts. *)
TagsSound ==
    [][/\ AlertsMatch' /\ PlacedAsDecided' /\ ToldOnce'
       /\ NotMissedWhileHeard
       /\ NewSpellIsNew]_tagVars
=============================================================================
