---------------------------- MODULE DevicesProofs ----------------------------
(***************************************************************************)
(* Proofs about parts of MCDevices, for any rooms, replicas and times, and *)
(* any finite number of photos and of requests that read them, and about   *)
(* OfflineSync, for any records, tabs and numbers of changes.              *)
(*                                                                         *)
(* A report under way keeps the engine of TagPresence, the database and    *)
(* the sweeps in step because it is short: until it is done, what it wrote *)
(* is too young for a sweep to find the tag missing, or for the engine to  *)
(* forget it.                                                              *)
(*                                                                         *)
(* The drafts of CaptureSession each rest on photos that are there, with   *)
(* what those count, or on what somebody typed, and every step changes one *)
(* or two of them into drafts that do.  A call to the model is counted in  *)
(* the step that claims its photo, so that the calls made and those still  *)
(* to be made are never more than were counted.                            *)
(*                                                                         *)
(* What the queue, a screen and a run of OfflineSync have of a change are  *)
(* versions of it, and the first key of a change, unless it is a check,    *)
(* has only ever been the key of that request.  A plan judges each change  *)
(* by what those planned before it will have left, and stays right about   *)
(* those still to come while a run goes through it: a turn does what was   *)
(* planned, or what it is about is set aside.                              *)
(***************************************************************************)
EXTENDS TagPresence, CaptureSession, OfflineSync, FiniteSums, FiniteSetTheorems, TLAPS

Whereabouts == Zone \cup {NoZone}
Step == {"idle", "record", "still", "write", "upsert", "announce", "tell"}
EngineState == [known : BOOLEAN, zone : Whereabouts, candidate : Whereabouts, since : Int, last : Int]
Reported == [at : Step, zone : Whereabouts, change : Whereabouts, due : BOOLEAN, now : Int, was : BOOLEAN]
OnFile == [there : BOOLEAN, zone : Whereabouts, heard : Int, missing : BOOLEAN]

TagTypeOK ==
    /\ time \in Nat
    /\ engine \in EngineState
    /\ lastStored \in Int
    /\ report \in Reported
    /\ tag \in OnFile
    /\ place \in Whereabouts
    /\ alert \in [open : BOOLEAN, sent : BOOLEAN]
    /\ sweep \in [Sweeper -> BOOLEAN]
    /\ told \in [missing : Nat, found : Nat]
    /\ spells \in Nat
    /\ heardAt \in Int
    /\ adrift \subseteq {"place", "alert"}

Busy == report.at # "idle"

(* While a report is under way nothing it relies on is forgotten or too old. *)
ReportYoung ==
    Busy => /\ engine.known /\ engine.last = report.now
            /\ report.now <= time
            /\ time - report.now <= MissingMs /\ time - report.now <= IdleMs

(* Where the engine has the tag is where its item is, or is going to be put. *)
Placing ==
    /\ report.at = "record" => report.change = engine.zone /\ report.due
    /\ engine.known /\ "place" \notin adrift /\ report.at # "record" => place = engine.zone
    /\ ~engine.known /\ "place" \notin adrift => place = tag.zone
    /\ ~tag.there => tag.zone = NoZone

(* What was stored, and how far what was heard may be ahead of it. *)
Pacing ==
    /\ lastStored # NoTime => tag.there /\ lastStored <= tag.heard
    /\ report.at = "still" /\ ~report.due =>
          tag.there /\ (report.now <= tag.heard \/ report.now - tag.heard < 2 * StoreMs)
    /\ tag.there => heardAt <= tag.heard \/ heardAt - tag.heard < 2 * StoreMs

(* A report that found the tag missing ends a spell that nobody told of yet. *)
Ending == report.at \in {"announce", "tell"}

Finding ==
    /\ Ending => tag.there /\ ~tag.missing /\ report.now <= tag.heard
    /\ report.at = "upsert" /\ report.was => tag.missing
    /\ tag.missing \/ Ending => told.found < spells
    /\ told.found <= spells

ToTell == {s \in Sweeper : sweep[s]}

Telling == told.missing + Cardinality(ToTell) <= spells

TagInv == TagTypeOK /\ ReportYoung /\ Placing /\ Pacing /\ Finding /\ Telling /\ AlertsMatch

-----------------------------------------------------------------------------
(* Helpers *)

(* A tag whose report is still under way after its state was written cannot be marked. *)
LEMMA EndingNotMarked ==
    ASSUME TagInv, Ending
    PROVE  ~MayMark
  <1>1. report.now <= tag.heard /\ time - report.now <= MissingMs
    BY DEF TagInv, Finding, ReportYoung, Busy, Ending
  <1> QED
    BY <1>1, TagAssumption DEF TagInv, TagTypeOK, MayMark, OnFile, Reported

LEMMA ToTellFinite == IsFiniteSet(ToTell) /\ Cardinality(ToTell) \in Nat
  BY TagAssumption, FS_Subset, FS_CardinalityType DEF ToTell

(* A sweep that marked the tag, and one that published it. *)
LEMMA ToTellGrows ==
    ASSUME TagTypeOK, NEW s \in Sweeper, ~sweep[s], sweep' = [sweep EXCEPT ![s] = TRUE]
    PROVE  Cardinality(ToTell') = Cardinality(ToTell) + 1
  <1>1. ToTell' = ToTell \cup {s} /\ s \notin ToTell
    BY DEF ToTell, TagTypeOK
  <1> QED
    BY <1>1, ToTellFinite, FS_AddElement

LEMMA ToTellShrinks ==
    ASSUME TagTypeOK, NEW s \in Sweeper, sweep[s], sweep' = [sweep EXCEPT ![s] = FALSE]
    PROVE  Cardinality(ToTell') = Cardinality(ToTell) - 1
  <1>1. ToTell' = ToTell \ {s} /\ s \in ToTell
    BY DEF ToTell, TagTypeOK
  <1> QED
    BY <1>1, ToTellFinite, FS_RemoveElement

(* What a step that leaves the sweeps alone keeps. *)
LEMMA TellingStays ==
    ASSUME TagInv, UNCHANGED <<sweep, spells>>, told'.missing = told.missing
    PROVE  Telling'
  <1>1. ToTell' = ToTell
    BY DEF ToTell
  <1> QED
    BY <1>1 DEF TagInv, Telling

LEMMA NotSeenIs == NotSeen \in EngineState /\ ~NotSeen.known
  BY DEF NotSeen, NoTime, EngineState, Whereabouts

LEMMA NoReportReported == NoReport \in Reported /\ NoReport.at = "idle"
  BY DEF NoReport, NoTime, Reported, Whereabouts, Step

-----------------------------------------------------------------------------
LEMMA TagInitInv == TagInit => TagInv
  <1> SUFFICES ASSUME TagInit PROVE TagInv
    OBVIOUS
  <1> USE DEF TagInit, NotSeen, NoReport, NoTime
  <1>1. TagTypeOK
    BY TagAssumption DEF TagTypeOK, Whereabouts, Step, EngineState, Reported, OnFile
  <1>2. ReportYoung /\ Placing /\ AlertsMatch
    BY DEF ReportYoung, Busy, Placing, AlertsMatch
  <1>5. Pacing
    BY TagAssumption DEF Pacing
  <1>3. Finding
    BY DEF Finding, Ending
  <1>4. Telling
    <2>1. ToTell = {}
      BY DEF ToTell
    <2> QED
      BY <2>1, FS_EmptySet DEF Telling
  <1> QED
    BY <1>1, <1>2, <1>3, <1>4, <1>5 DEF TagInv

LEMMA ElapseStep ==
    ASSUME TagInv, Elapse
    PROVE  TagInv'
  <1> USE DEF Elapse, Memory, Database, History, Mishaps
  <1>1. TagTypeOK'
    BY DEF TagInv, TagTypeOK
  <1>2. ReportYoung'
    BY TagAssumption DEF TagInv, TagTypeOK, ReportYoung, Busy, OnFile, Reported
  <1>3. Placing' /\ Pacing' /\ AlertsMatch'
    BY DEF TagInv, Placing, Pacing, AlertsMatch
  <1>4. Finding'
    BY DEF TagInv, Finding, Ending
  <1>5. Telling'
    BY TellingStays
  <1> QED
    BY <1>1, <1>2, <1>3, <1>4, <1>5 DEF TagInv


(* What the engine starts from is what it believes, or what is on file. *)
LEMMA SeededKnows ==
    ASSUME TagInv
    PROVE  /\ seeded \in EngineState /\ seeded.known
           /\ report.at # "record" /\ "place" \notin adrift => place = seeded.zone
  <1>1. CASE engine.known
    BY <1>1 DEF seeded, TagInv, TagTypeOK, Placing
  <1>2. CASE ~engine.known
    <2> DEFINE zone == IF tag.there THEN tag.zone ELSE NoZone
    <2>1. zone \in Whereabouts /\ zone = tag.zone
      BY DEF TagInv, TagTypeOK, Placing, Whereabouts, OnFile
    <2>2. seeded = [NotSeen EXCEPT !.known = TRUE, !.zone = zone]
      BY <1>2 DEF seeded
    <2> HIDE DEF zone
    <2>3. seeded \in EngineState /\ seeded.known /\ seeded.zone = zone
      BY <2>1, <2>2, NotSeenIs DEF EngineState
    <2> QED
      BY <1>2, <2>1, <2>3 DEF TagInv, Placing
  <1> QED
    BY <1>1, <1>2

LEMMA DecideTypes ==
    ASSUME NEW e \in EngineState, e.known, NEW best \in Zone, NEW beats \in BOOLEAN, time \in Nat
    PROVE  /\ decide(e, best, beats) \in EngineState /\ decide(e, best, beats).known
           /\ decide(e, best, beats).zone \in {e.zone, best}
  <1> DEFINE since == IF e.candidate = best THEN e.since ELSE time
  <1>1. since \in Int /\ best \in Whereabouts /\ NoZone \in Whereabouts /\ NoTime \in Int
    BY DEF EngineState, Whereabouts, NoTime
  <1>2. \/ decide(e, best, beats) = [e EXCEPT !.candidate = NoZone, !.since = NoTime]
        \/ decide(e, best, beats) = [e EXCEPT !.candidate = best, !.since = since]
        \/ decide(e, best, beats) = [e EXCEPT !.zone = best, !.candidate = NoZone, !.since = NoTime]
    BY DEF decide
  <1> HIDE DEF since
  <1>3. CASE decide(e, best, beats) = [e EXCEPT !.candidate = NoZone, !.since = NoTime]
    BY <1>1, <1>3 DEF EngineState
  <1>4. CASE decide(e, best, beats) = [e EXCEPT !.candidate = best, !.since = since]
    BY <1>1, <1>4 DEF EngineState
  <1>5. CASE decide(e, best, beats) = [e EXCEPT !.zone = best, !.candidate = NoZone, !.since = NoTime]
    BY <1>1, <1>5 DEF EngineState
  <1> QED
    BY <1>2, <1>3, <1>4, <1>5

LEMMA ReportStep ==
    ASSUME TagInv, Report
    PROVE  TagInv'
  <1> USE DEF Database, History, Mishaps
  <1>1. PICK best \in Zone, beats, mine \in BOOLEAN :
          /\ seeded.zone = NoZone => beats
          /\ LET e == decide(seeded, best, beats)
                 change == IF e.zone # seeded.zone THEN e.zone ELSE NoZone
                 last == IF ~engine.known /\ lastStored = NoTime /\ tag.there THEN tag.heard
                         ELSE lastStored
             IN /\ engine' = [e EXCEPT !.last = time]
                /\ lastStored' = last
                /\ report' = [NoReport EXCEPT !.at = IF change = NoZone THEN "still" ELSE "record",
                       !.zone = e.zone, !.change = change, !.now = time,
                       !.due = change # NoZone \/ Due(last, mine)]
    BY Zenon DEF Report
  <1> DEFINE e == decide(seeded, best, beats)
             change == IF e.zone # seeded.zone THEN e.zone ELSE NoZone
             last == IF ~engine.known /\ lastStored = NoTime /\ tag.there THEN tag.heard
                     ELSE lastStored
             due == change # NoZone \/ Due(last, mine)
             at == IF change = NoZone THEN "still" ELSE "record"
  <1>2. /\ report.at = "idle"
        /\ UNCHANGED <<time, tag, place, alert, sweep, told, spells, heardAt, adrift>>
    BY DEF Report
  <1>3. /\ seeded \in EngineState /\ seeded.known
        /\ "place" \notin adrift => place = seeded.zone
    BY <1>2, SeededKnows
  <1>4. e \in EngineState /\ e.known /\ time \in Nat /\ e.zone \in {seeded.zone, best}
    BY <1>3, DecideTypes DEF TagInv, TagTypeOK
  <1>5. last \in Int /\ change \in Whereabouts /\ due \in BOOLEAN /\ at \in {"still", "record"}
    BY <1>4 DEF TagInv, TagTypeOK, EngineState, Whereabouts, Due, OnFile, Reported
  <1>6. last # NoTime => tag.there /\ last <= tag.heard
    BY DEF TagInv, TagTypeOK, Pacing, OnFile, Reported
  <1>7. ~due => last # NoTime /\ time - last < 2 * StoreMs
    <2> HIDE DEF last, change
    <2>1. ASSUME ~due PROVE ~Due(last, mine)
      BY <2>1
    <2>2. ASSUME ~Due(last, mine) PROVE last # NoTime /\ time - last < 2 * StoreMs
      BY <1>4, <1>5, <2>2, TagAssumption DEF Due
    <2> QED
      BY <2>1, <2>2
  <1>8. /\ at = "record" => change = e.zone /\ due
    OBVIOUS
  <1>9. at = "still" => e.zone = seeded.zone
    <2> HIDE DEF e
    <2> QED
      BY <1>4, TagAssumption
  <1>10. /\ engine' = [e EXCEPT !.last = time] /\ lastStored' = last
         /\ report' = [NoReport EXCEPT !.at = at, !.zone = e.zone, !.change = change,
                                       !.now = time, !.due = due]
    BY <1>1
  <1> HIDE DEF e, change, last, due, at
  <1>11. /\ engine' \in EngineState /\ engine'.known /\ engine'.last = time /\ engine'.zone = e.zone
    BY <1>4, <1>10 DEF EngineState
  <1>12. /\ report' \in Reported
         /\ report'.at = at /\ report'.change = change /\ report'.due = due /\ report'.now = time
    <2>1. e.zone \in Whereabouts /\ at \in Step /\ time \in Int
      BY <1>4, <1>5 DEF EngineState, Step
    <2> QED
      BY <1>5, <1>10, <2>1, NoReportReported DEF Reported
  <1>13. TagTypeOK'
    BY <1>2, <1>5, <1>10, <1>11, <1>12 DEF TagInv, TagTypeOK, EngineState
  <1>14. ReportYoung'
    BY <1>2, <1>4, <1>11, <1>12, TagAssumption DEF ReportYoung, Busy
  <1>15. Placing'
    BY <1>2, <1>3, <1>5, <1>8, <1>9, <1>11, <1>12 DEF TagInv, Placing
  <1>16. Pacing'
    <2>1. ~due => tag.there /\ time - tag.heard < 2 * StoreMs
      BY <1>4, <1>5, <1>6, <1>7, TagAssumption DEF TagInv, TagTypeOK, OnFile, Reported
    <2> QED
      BY <1>2, <1>6, <1>10, <1>12, <2>1 DEF TagInv, Pacing
  <1>17. AlertsMatch' /\ Finding'
    BY <1>2, <1>5, <1>12 DEF TagInv, AlertsMatch, Finding, Ending
  <1>18. Telling'
    BY <1>2, TellingStays
  <1> QED
    BY <1>13, <1>14, <1>15, <1>16, <1>17, <1>18 DEF TagInv

(* What is forgotten comes back as the row has it. *)
LEMMA AsOnFileSets ==
    ASSUME TagTypeOK, NEW left \in SUBSET {"place", "alert"}
    PROVE  /\ AsOnFile(left) \subseteq {"place", "alert"}
           /\ "place" \notin AsOnFile(left) <=> tag.zone = place
           /\ "alert" \in AsOnFile(left) <=> "alert" \in left
  BY DEF AsOnFile

LEMMA ForgetStep ==
    ASSUME TagInv, forgetIdle
    PROVE  TagInv'
  <1> USE DEF forgetIdle, Database, Mishaps
  <1>0. TagTypeOK /\ adrift \in SUBSET {"place", "alert"}
    BY DEF TagInv, TagTypeOK
  <1>1. /\ adrift' \subseteq {"place", "alert"}
        /\ "place" \notin adrift' <=> tag.zone = place
        /\ "alert" \in adrift' <=> "alert" \in adrift
    BY <1>0, AsOnFileSets
  <1>2. ~Busy
    BY TagAssumption DEF TagInv, TagTypeOK, ReportYoung, Reported, EngineState
  <1>3. TagTypeOK'
    BY <1>0, <1>1, NotSeenIs DEF TagTypeOK
  <1>4. ReportYoung' /\ Placing'
    BY <1>1, <1>2, NotSeenIs DEF TagInv, ReportYoung, Placing, Busy
  <1>5. Pacing' /\ AlertsMatch' /\ Finding'
    BY <1>1 DEF TagInv, Pacing, AlertsMatch, Finding, Ending
  <1>6. Telling'
    BY TellingStays
  <1> QED
    BY <1>3, <1>4, <1>5, <1>6 DEF TagInv

(* The report goes from one step to the next; nothing else moves but what it writes. *)
LEMMA RecordChangeStep ==
    ASSUME TagInv, RecordChange
    PROVE  TagInv'
  <1> USE DEF RecordChange
  <1>0. TagTypeOK /\ report \in Reported
    BY DEF TagInv, TagTypeOK
  <1>1. /\ report' \in Reported /\ report'.at = "still" /\ report'.now = report.now
        /\ report'.due = report.due
    BY <1>0 DEF Reported, Step
  <1>2. TagTypeOK'
    BY <1>0, <1>1 DEF TagTypeOK, Reported
  <1>3. ReportYoung'
    BY <1>1 DEF TagInv, ReportYoung, Busy
  <1>4. Placing'
    BY <1>1 DEF TagInv, ReportYoung, Busy, Placing
  <1>5. Pacing' /\ AlertsMatch' /\ Finding'
    BY <1>1 DEF TagInv, Placing, Pacing, AlertsMatch, Finding, Ending
  <1>6. Telling'
    BY TellingStays
  <1> QED
    BY <1>2, <1>3, <1>4, <1>5, <1>6 DEF TagInv

LEMMA RecordStillHereStep ==
    ASSUME TagInv, RecordStillHere
    PROVE  TagInv'
  <1> USE DEF RecordStillHere, Database, Mishaps
  <1>0. TagTypeOK /\ report \in Reported /\ heardAt' \in Int
    BY DEF TagInv, TagTypeOK, Reported
  <1>1. /\ report' \in Reported /\ report'.at \in {"idle", "write"}
        /\ report'.at = "write" => report'.now = report.now
    BY <1>0, NoReportReported DEF Reported, Step
  <1>2. TagTypeOK'
    BY <1>0, <1>1 DEF TagTypeOK
  <1>3. ReportYoung' /\ Placing'
    BY <1>1 DEF TagInv, ReportYoung, Busy, Placing
  <1>4. Pacing' /\ AlertsMatch' /\ Finding'
    BY <1>1 DEF TagInv, Pacing, AlertsMatch, Finding, Ending
  <1>5. Telling'
    BY TellingStays
  <1> QED
    BY <1>2, <1>3, <1>4, <1>5 DEF TagInv

LEMMA WriteBeginsStep ==
    ASSUME TagInv, WriteBegins
    PROVE  TagInv'
  <1> USE DEF WriteBegins, Database, History, Mishaps
  <1>0. TagTypeOK /\ report \in Reported /\ tag \in OnFile
    BY DEF TagInv, TagTypeOK
  <1>1. /\ report' \in Reported /\ report'.at = "upsert" /\ report'.now = report.now
        /\ report'.was => tag.missing
    BY <1>0 DEF Reported, Step, OnFile
  <1>2. TagTypeOK'
    BY <1>0, <1>1 DEF TagTypeOK
  <1>3. ReportYoung' /\ Placing'
    BY <1>1 DEF TagInv, ReportYoung, Busy, Placing
  <1>4. Pacing' /\ AlertsMatch' /\ Finding'
    BY <1>1 DEF TagInv, Pacing, AlertsMatch, Finding, Ending
  <1>5. Telling'
    BY TellingStays
  <1> QED
    BY <1>2, <1>3, <1>4, <1>5 DEF TagInv

(* The state is written: a spell ends, if the statement saw it. *)
LEMMA WriteStatesStep ==
    ASSUME TagInv, WriteStates
    PROVE  TagInv'
  <1> USE DEF WriteStates, Mishaps
  <1>0. TagTypeOK /\ report \in Reported /\ tag \in OnFile
    BY DEF TagInv, TagTypeOK
  <1>1. /\ tag' \in OnFile /\ tag'.there /\ ~tag'.missing /\ tag'.zone = report.zone
        /\ report.now <= tag'.heard
    BY <1>0 DEF OnFile, Reported
  <1>2. /\ report' \in Reported /\ report'.at \in {"idle", "announce"}
        /\ report'.at = "announce" => report'.now = report.now /\ report.was
        /\ report'.at = "idle" => ~report.was
    BY <1>0, NoReportReported DEF Reported, Step
  <1>3. adrift' \subseteq {"place", "alert"} /\ ("place" \in adrift' <=> "place" \in adrift)
    BY <1>0 DEF TagTypeOK
  <1>4. TagTypeOK'
    BY <1>0, <1>1, <1>2, <1>3 DEF TagTypeOK, Reported
  <1>5. ReportYoung'
    BY <1>2 DEF TagInv, ReportYoung, Busy
  <1>6. Placing'
    BY <1>1, <1>2, <1>3 DEF TagInv, ReportYoung, Busy, Placing
  <1>7. Pacing'
    BY <1>1, <1>2 DEF Pacing
  <1>8. AlertsMatch'
    BY <1>1, <1>2 DEF TagInv, AlertsMatch
  <1>9. Finding'
    BY <1>1, <1>2 DEF TagInv, Finding, Ending
  <1>10. Telling'
    BY TellingStays
  <1> QED
    BY <1>4, <1>5, <1>6, <1>7, <1>8, <1>9, <1>10 DEF TagInv

LEMMA ResolveMissingStep ==
    ASSUME TagInv, ResolveMissing
    PROVE  TagInv'
  <1> USE DEF ResolveMissing, Mishaps
  <1>0. TagTypeOK /\ report \in Reported
    BY DEF TagInv, TagTypeOK
  <1>1. report' \in Reported /\ report'.at = "tell" /\ report'.now = report.now
    BY <1>0 DEF Reported, Step
  <1>2. TagTypeOK' /\ ~alert'.open
    BY <1>0, <1>1 DEF TagTypeOK
  <1>3. ReportYoung' /\ Placing'
    BY <1>1 DEF TagInv, ReportYoung, Busy, Placing
  <1>4. Pacing' /\ Finding'
    BY <1>1 DEF TagInv, Pacing, Finding, Ending
  <1>5. AlertsMatch'
    BY <1>2 DEF TagInv, Finding, Ending, AlertsMatch
  <1>6. Telling'
    BY TellingStays
  <1> QED
    BY <1>2, <1>3, <1>4, <1>5, <1>6 DEF TagInv

LEMMA TellFoundStep ==
    ASSUME TagInv, TellFound
    PROVE  TagInv'
  <1> USE DEF TellFound, Database, Mishaps
  <1>0. TagTypeOK
    BY DEF TagInv
  <1>1. /\ told' \in [missing : Nat, found : Nat] /\ told'.missing = told.missing
        /\ told'.found = told.found + 1
    BY <1>0 DEF TagTypeOK
  <1>2. report' \in Reported /\ report'.at = "idle"
    BY NoReportReported
  <1>3. TagTypeOK'
    BY <1>0, <1>1, <1>2 DEF TagTypeOK
  <1>4. ReportYoung' /\ Placing' /\ Pacing' /\ AlertsMatch'
    BY <1>2 DEF TagInv, ReportYoung, Busy, Placing, Pacing, AlertsMatch
  <1>5. Finding'
    BY <1>0, <1>1, <1>2 DEF TagInv, TagTypeOK, Finding, Ending
  <1>6. Telling'
    BY <1>1, TellingStays
  <1> QED
    BY <1>3, <1>4, <1>5, <1>6 DEF TagInv

LEMMA LeftBehindSets ==
    ASSUME TagTypeOK
    PROVE  /\ LeftBehind \in SUBSET {"place", "alert"}
           /\ "place" \in LeftBehind <=> "place" \in adrift \/ report.at = "record"
           /\ "alert" \in LeftBehind <=> "alert" \in adrift \/ report.at = "announce"
  BY DEF LeftBehind, TagTypeOK

LEMMA ReportFailsStep ==
    ASSUME TagInv, ReportFails
    PROVE  TagInv'
  <1> USE DEF ReportFails, Database
  <1>0. TagTypeOK
    BY DEF TagInv
  <1>1. report' \in Reported /\ report'.at = "idle"
    BY NoReportReported
  <1>2. TagTypeOK'
    BY <1>0, <1>1, LeftBehindSets DEF TagTypeOK
  <1>3. ReportYoung' /\ Pacing'
    BY <1>1 DEF TagInv, ReportYoung, Busy, Pacing
  <1>4. Placing' /\ AlertsMatch'
    BY <1>0, <1>1, LeftBehindSets DEF TagInv, ReportYoung, Busy, Placing, AlertsMatch
  <1>5. Finding'
    BY <1>1 DEF TagInv, Finding, Ending
  <1>6. Telling'
    BY TellingStays
  <1> QED
    BY <1>2, <1>3, <1>4, <1>5, <1>6 DEF TagInv

LEMMA RestartStep ==
    ASSUME TagInv, ServerRestarts
    PROVE  TagInv'
  <1> USE DEF ServerRestarts, Database
  <1>0. TagTypeOK
    BY DEF TagInv
  <1>1. report' \in Reported /\ report'.at = "idle"
    BY NoReportReported
  <1>2. engine' \in EngineState /\ ~engine'.known
    BY NotSeenIs
  <1>3. /\ adrift' \subseteq {"place", "alert"}
        /\ "place" \notin adrift' <=> tag.zone = place
        /\ "alert" \in adrift' <=> "alert" \in adrift \/ report.at = "announce"
    BY <1>0, LeftBehindSets, AsOnFileSets
  <1>4. TagTypeOK'
    BY <1>0, <1>1, <1>2, <1>3 DEF TagTypeOK, NoTime
  <1>5. ReportYoung' /\ Pacing'
    BY <1>1 DEF TagInv, ReportYoung, Busy, Pacing
  <1>6. Placing' /\ AlertsMatch'
    BY <1>1, <1>2, <1>3 DEF TagInv, Placing, AlertsMatch
  <1>7. Finding'
    BY <1>1 DEF TagInv, Finding, Ending
  <1>8. Telling'
    BY TellingStays
  <1> QED
    BY <1>4, <1>5, <1>6, <1>7, <1>8 DEF TagInv

-----------------------------------------------------------------------------
(* The sweeps *)

LEMMA SweepStep ==
    ASSUME TagInv, NEW s \in Sweeper, sweepMissing(s)
    PROVE  TagInv'
  <1> USE DEF sweepMissing, Memory, Mishaps
  <1>0. TagTypeOK /\ tag \in OnFile /\ ~Ending /\ ~tag.missing /\ spells \in Nat
    BY EndingNotMarked DEF TagInv, TagTypeOK, MayMark
  <1>1. tag' \in OnFile /\ tag'.missing /\ tag'.zone = tag.zone /\ tag'.there = tag.there
        /\ tag'.heard = tag.heard
    BY <1>0 DEF OnFile
  <1>2. alert' \in [open : BOOLEAN, sent : BOOLEAN] /\ alert'.open
    BY <1>0 DEF TagTypeOK
  <1>3. spells' = spells + 1
    BY <1>0
  <1>4. TagTypeOK'
    BY <1>0, <1>1, <1>2, <1>3 DEF TagTypeOK
  <1>5. ReportYoung' /\ Placing' /\ Pacing'
    BY <1>1 DEF TagInv, ReportYoung, Busy, Placing, Pacing
  <1>6. AlertsMatch'
    BY <1>1, <1>2 DEF AlertsMatch
  <1>7. Finding'
    <2>1. told.found <= spells /\ told.found \in Nat
      BY DEF TagInv, TagTypeOK, Finding
    <2> QED
      BY <1>0, <1>1, <1>3, <2>1 DEF Finding, Ending
  <1>8. Telling'
    <2>1. Cardinality(ToTell') = Cardinality(ToTell) + 1
      BY <1>0, ToTellGrows
    <2>2. told.missing + Cardinality(ToTell) <= spells /\ told.missing \in Nat
      BY <1>0 DEF TagInv, TagTypeOK, Telling
    <2> QED
      BY <1>0, <1>3, <2>1, <2>2, ToTellFinite DEF Telling
  <1> QED
    BY <1>4, <1>5, <1>6, <1>7, <1>8 DEF TagInv

LEMMA SweeperGoesOn ==
    ASSUME TagInv, NEW s \in Sweeper, TellMissing(s) \/ SweeperStops(s)
    PROVE  TagInv'
  <1> USE DEF TellMissing, SweeperStops, Memory, Database, History, Mishaps
  <1>0. TagTypeOK /\ sweep[s] /\ sweep' = [sweep EXCEPT ![s] = FALSE]
    BY DEF TagInv
  <1>1. /\ told' \in [missing : Nat, found : Nat] /\ told'.found = told.found
        /\ told'.missing \in {told.missing, told.missing + 1}
    BY <1>0 DEF TagTypeOK
  <1>2. TagTypeOK'
    BY <1>0, <1>1 DEF TagTypeOK
  <1>3. ReportYoung' /\ Placing' /\ Pacing' /\ AlertsMatch'
    BY DEF TagInv, ReportYoung, Busy, Placing, Pacing, AlertsMatch
  <1>4. Finding'
    BY <1>1 DEF TagInv, Finding, Ending
  <1>5. Telling'
    <2>1. Cardinality(ToTell') = Cardinality(ToTell) - 1
      BY <1>0, ToTellShrinks
    <2>2. told.missing + Cardinality(ToTell) <= spells /\ told.missing \in Nat /\ spells \in Nat
      BY <1>0 DEF TagInv, TagTypeOK, Telling
    <2>3. spells' = spells
      OBVIOUS
    <2> QED
      BY <1>1, <2>1, <2>2, <2>3, ToTellFinite DEF Telling
  <1> QED
    BY <1>2, <1>3, <1>4, <1>5 DEF TagInv

LEMMA DigestStep ==
    ASSUME TagInv, claimDigest
    PROVE  TagInv'
  <1> USE DEF claimDigest, Memory, History, Mishaps
  <1>1. TagTypeOK' /\ alert'.open
    BY DEF TagInv, TagTypeOK
  <1>2. ReportYoung' /\ Placing' /\ Pacing'
    BY DEF TagInv, ReportYoung, Busy, Placing, Pacing
  <1>3. AlertsMatch' /\ Finding'
    BY <1>1 DEF TagInv, AlertsMatch, Finding, Ending
  <1>4. Telling'
    BY TellingStays
  <1> QED
    BY <1>1, <1>2, <1>3, <1>4 DEF TagInv

-----------------------------------------------------------------------------
(* Theorems *)

LEMMA TagStep == TagInv /\ [TagNext]_tagVars => TagInv'
  <1> SUFFICES ASSUME TagInv, [TagNext]_tagVars PROVE TagInv'
    OBVIOUS
  <1>1. CASE TagNext
    BY <1>1, ElapseStep, ReportStep, ForgetStep, RecordChangeStep, RecordStillHereStep,
       WriteBeginsStep, WriteStatesStep, ResolveMissingStep, TellFoundStep, ReportFailsStep,
       RestartStep, SweepStep, SweeperGoesOn, DigestStep DEF TagNext
  <1>2. CASE UNCHANGED tagVars
    <2>1. TagTypeOK' /\ ReportYoung' /\ Placing' /\ Pacing' /\ AlertsMatch' /\ Finding'
      BY <1>2 DEF TagInv, TagTypeOK, ReportYoung, Busy, Placing, Pacing, AlertsMatch, Finding,
                  Ending, tagVars
    <2>2. Telling'
      BY <1>2, TellingStays DEF tagVars
    <2> QED
      BY <2>1, <2>2 DEF TagInv
  <1> QED
    BY <1>1, <1>2

(* Only a sweep marks a tag: it is long unheard, and no report is ending a spell. *)
LEMMA MarkedStep ==
    ASSUME TagInv, [TagNext]_tagVars, ~tag.missing, tag'.missing
    PROVE  /\ heardAt < time - MissingMs + 2 * StoreMs
           /\ "alert" \notin adrift => alert'.open /\ ~alert'.sent
  <1>0. TagTypeOK
    BY DEF TagInv
  <1>1. PICK s \in Sweeper : sweepMissing(s)
    <2>1. Elapse \/ Report \/ forgetIdle \/ RecordStillHere \/ WriteBegins \/ TellFound
          \/ ReportFails \/ ServerRestarts \/ UNCHANGED tagVars => tag' = tag
      BY DEF Elapse, Report, forgetIdle, RecordStillHere, WriteBegins, TellFound, ReportFails,
             ServerRestarts, tagVars, Database
    <2>2. RecordChange \/ ResolveMissing \/ claimDigest => tag' = tag
      BY DEF RecordChange, ResolveMissing, claimDigest
    <2>3. \A s \in Sweeper : TellMissing(s) \/ SweeperStops(s) => tag' = tag
      BY DEF TellMissing, SweeperStops, Database
    <2>4. WriteStates => ~tag'.missing
      BY DEF WriteStates
    <2> QED
      BY <2>1, <2>2, <2>3, <2>4 DEF TagNext
  <1>2. MayMark /\ ~Ending
    BY <1>1, EndingNotMarked DEF sweepMissing
  <1>3. heardAt < time - MissingMs + 2 * StoreMs
    <2>1. tag.heard < time - MissingMs /\ tag.there
      BY <1>2 DEF MayMark
    <2>2. heardAt <= tag.heard \/ heardAt - tag.heard < 2 * StoreMs
      BY <2>1 DEF TagInv, Pacing
    <2>3. heardAt \in Int /\ tag.heard \in Int /\ time \in Int
      BY <1>0 DEF TagTypeOK, OnFile
    <2> QED
      BY <2>1, <2>2, <2>3, TagAssumption
  <1>4. ASSUME "alert" \notin adrift PROVE alert'.open /\ ~alert'.sent
    <2>1. ~alert.open
      BY <1>2, <1>4 DEF TagInv, AlertsMatch, Ending
    <2> QED
      BY <1>1, <2>1 DEF sweepMissing
  <1> QED
    BY <1>3, <1>4

(* services/ble: the engine, the tag's row, its alert and the sweeps stay in step, for any
   number of rooms and replicas, over failures and restarts. *)
THEOREM TagInvariant == TagSpec => []TagInv
  BY TagInitInv, TagStep, PTL DEF TagSpec

(* A missing tag has its alert and one that was heard has not, but for what a failure or a
   crossing left behind; the item is where the engine decided; each spell is told once at
   most; and nothing that is heard goes missing. *)
THEOREM PresenceSound == TagSpec => TagsSound
  <1>1. TagInv => AlertsMatch /\ PlacedAsDecided /\ ToldOnce
    <2>1. TagInv => PlacedAsDecided
      BY DEF TagInv, Placing, PlacedAsDecided
    <2>2. ASSUME TagInv PROVE ToldOnce
      <3>1. told.missing + Cardinality(ToTell) <= spells /\ told.missing \in Nat
            /\ told.found <= spells /\ spells \in Nat
        BY <2>2 DEF TagInv, TagTypeOK, Telling, Finding
      <3> QED
        BY <3>1, ToTellFinite DEF ToldOnce
    <2> QED
      BY <2>1, <2>2 DEF TagInv
  <1>2. TagInv /\ [TagNext]_tagVars => NotMissedWhileHeard /\ NewSpellIsNew
    BY MarkedStep DEF NotMissedWhileHeard, NewSpellIsNew
  <1> QED
    BY <1>1, <1>2, TagInvariant, PTL DEF TagSpec, TagsSound

-----------------------------------------------------------------------------
CaptureSizes == IsFiniteSet(Photo) /\ IsFiniteSet(Reader)

DraftRow == [status : {"pending", "discarded", "created"}, area : Room, qty : Nat \ {0},
             locked : BOOLEAN, edited : BOOLEAN, manual : BOOLEAN, sources : [Photo -> Nat]]
PhotoRow == [status : {"new", "removed"}]
            \cup [status : {"pending", "stale", "analysing", "analysed", "failed"}, area : Room]
ReadingRow == {NotReading} \cup [step : {"claimed", "read", "failed"}, photo : Photo]

CaptureShape ==
    /\ session \in [open : BOOLEAN, cap : 1 .. MaxCap, calls : Nat, rule : {"max", "sum"}]
    /\ photo \in [Photo -> PhotoRow]
    /\ reading \in [Reader -> ReadingRow]
    /\ asked \in Nat /\ highest \in 1 .. MaxCap

(* A draft's count is that of its photos unless somebody typed it, and it rests on
   photos, or on somebody's word. *)
Counted(e, rule) == e.locked \/ Seen(e) = {} \/ e.qty = qtyFromSources(e.sources, rule)
Rests(e) == (e.locked \/ Seen(e) # {} \/ e.edited) /\ (e.manual => e.edited)
PhotosOnFile(e, photos) == \A i \in Seen(e) : photos[i].status # "removed"

DraftOK(e, rule, photos) ==
    e = NoDraft \/ (e \in DraftRow /\ Rests(e) /\ (Open(e) => Counted(e, rule) /\ PhotosOnFile(e, photos)))

DraftsOK(entries, rule, photos) ==
    /\ entries \in [Draft -> {NoDraft} \cup DraftRow]
    /\ \A d \in Draft : DraftOK(entries[d], rule, photos)

(* Readers that were counted and have yet to ask. *)
Claimed == {r \in Reader : reading[r].step = "claimed"}

Spends ==
    /\ asked + Cardinality(Claimed) <= session.calls
    /\ session.calls <= highest /\ session.cap <= highest
    /\ Cardinality(Photos) <= highest

MadeOK ==
    /\ made \in [Draft -> {0, 1}]
    /\ \A d \in Draft : made[d] = 1 => draft[d].status = "created"
    /\ ~session.open => \A d \in Draft : draft[d].status # "pending"

CaptureInv ==
    /\ CaptureShape
    /\ DraftsOK(draft, session.rule, photo)
    /\ Spends
    /\ MadeOK

-----------------------------------------------------------------------------
(* Counting *)

(* Values by name, which the provers match as they stand. *)
OnlySource(s, i, k) == s = [Unseen EXCEPT ![i] = k]
SourceSet(n, e, i, k) == n = [e EXCEPT !.sources[i] = k]
DraftSet(n, entries, d, e) == n = [entries EXCEPT ![d] = e]

(* A draft that rests on photos counts at least one piece, by either rule. *)
LEMMA CountsArePositive ==
    ASSUME CaptureSizes, NEW sources \in [Photo -> Nat], NEW rule,
           {i \in Photo : sources[i] > 0} # {}
    PROVE  qtyFromSources(sources, rule) \in Nat \ {0}
  <1> DEFINE counts == {i \in Photo : sources[i] > 0}
             of == [i \in counts |-> sources[i] * Count[i]]
  <1>1. IsFiniteSet(counts)
    BY FS_Subset DEF CaptureSizes
  <1>2. \A i \in counts : of[i] \in Nat \ {0}
    <2> TAKE i \in counts
    <2>1. sources[i] \in Nat /\ sources[i] > 0 /\ Count[i] \in Nat \ {0}
      BY CaptureAssumption
    <2>2. PICK a, b \in Nat : a = sources[i] /\ b = Count[i] /\ a > 0 /\ b > 0
      BY <2>1
    <2>3. a * b \in Nat /\ a * b > 0
      BY <2>2
    <2> QED
      BY <2>2, <2>3
  <1>3. CASE rule = "sum"
    <2>1. qtyFromSources(sources, rule) = SumOver(of, counts)
      BY <1>3 DEF qtyFromSources, SumOver, MapThenSumSet, MapThenFoldSet
    <2>2. PICK c, f : c = counts /\ f = of
      OBVIOUS
    <2>3. SumOver(f, c) \in Nat \ {0}
      <3>1. IsFiniteSet(c) /\ c # {} /\ \A k \in c : f[k] \in Nat \ {0}
        BY <1>1, <1>2, <2>2
      <3> QED
        BY ONLY <3>1, SumIsPositive
    <2> QED
      BY <2>1, <2>2, <2>3
  <1>4. CASE rule # "sum"
    <2> DEFINE S == {of[i] : i \in counts}
    <2>1. qtyFromSources(sources, rule) = Max(S)
      BY <1>4 DEF qtyFromSources
    <2> HIDE DEF of, counts
    <2>2. IsFiniteSet(S)
      BY <1>1, ImageIsFinite
    <2>3. S \in SUBSET Int /\ S # {} /\ S \subseteq Nat \ {0}
      BY <1>2 DEF counts
    <2> HIDE DEF S
    <2> QED
      BY <2>1, <2>2, <2>3, MaxIsLargest
  <1> QED
    BY <1>3, <1>4

(* By either rule, one photo counts for what it shows. *)
LEMMA CountOfOne ==
    ASSUME NEW i \in Photo, NEW n \in Nat \ {0}, NEW sources, OnlySource(sources, i, n), NEW rule
    PROVE  /\ qtyFromSources(sources, rule) = n * Count[i]
           /\ n * Count[i] \in Nat \ {0}
           /\ sources \in [Photo -> Nat]
           /\ {j \in Photo : sources[j] > 0} = {i}
  <1> DEFINE counts == {j \in Photo : sources[j] > 0}
             of == [j \in counts |-> sources[j] * Count[j]]
  <1>1. sources \in [Photo -> Nat] /\ counts = {i} /\ sources[i] = n
    BY DEF Unseen, OnlySource
  <1>2. n * Count[i] \in Nat \ {0}
    <2>1. PICK b \in Nat : b = Count[i] /\ b > 0
      BY CaptureAssumption
    <2>2. n * b \in Nat /\ n * b > 0
      BY <2>1
    <2> QED
      BY <2>1, <2>2
  <1>3. of[i] = n * Count[i]
    BY <1>1
  <1>4. CASE rule = "sum"
    <2>1. qtyFromSources(sources, rule) = SumOver(of, counts)
      BY <1>4 DEF qtyFromSources, SumOver, MapThenSumSet, MapThenFoldSet
    <2>2. PICK f : f = of
      OBVIOUS
    <2>3. SumOver(f, {i}) = f[i]
      <3>1. f[i] \in Int
        BY <1>2, <1>3, <2>2
      <3> QED
        BY ONLY <3>1, SumOfOne
    <2> QED
      BY <1>1, <1>2, <1>3, <2>1, <2>2, <2>3
  <1>5. CASE rule # "sum"
    <2>1. qtyFromSources(sources, rule) = Max({of[j] : j \in counts})
      BY <1>5 DEF qtyFromSources
    <2>2. {of[j] : j \in counts} = {of[i]}
      BY <1>1
    <2>3. PICK m \in Int : m = of[i]
      BY <1>2, <1>3
    <2>4. Max({m}) = m
      <3>1. IsFiniteSet({m}) /\ {m} \in SUBSET Int /\ {m} # {}
        BY FS_Singleton
      <3> QED
        BY <3>1, MaxIsLargest
    <2> QED
      BY <1>1, <1>2, <1>3, <2>1, <2>2, <2>3, <2>4
  <1> QED
    BY <1>1, <1>2, <1>4, <1>5

(* Counting again changes the count only, and only one that nobody typed. *)
LEMMA RecountKeeps ==
    ASSUME CaptureSizes, NEW e \in DraftRow, NEW rule
    PROVE  LET n == recount(e, rule)
           IN /\ n \in DraftRow
              /\ Seen(n) = Seen(e) /\ n.sources = e.sources
              /\ n.status = e.status /\ n.area = e.area /\ n.locked = e.locked
              /\ n.edited = e.edited /\ n.manual = e.manual
              /\ e.locked => n.qty = e.qty
              /\ Counted(n, rule)
  <1>1. CASE e.locked \/ Seen(e) = {}
    BY <1>1 DEF recount, Counted
  <1>2. CASE ~(e.locked \/ Seen(e) = {})
    <2>1. PICK q \in Nat \ {0} : q = qtyFromSources(e.sources, rule)
      <3>1. e.sources \in [Photo -> Nat]
        BY DEF DraftRow
      <3> QED
        BY <1>2, <3>1, CountsArePositive DEF Seen
    <2>2. PICK n : n = [e EXCEPT !.qty = q]
      OBVIOUS
    <2>3. /\ n \in DraftRow /\ n.sources = e.sources /\ n.qty = q
          /\ n.status = e.status /\ n.area = e.area /\ n.locked = e.locked
          /\ n.edited = e.edited /\ n.manual = e.manual
      BY <2>1, <2>2 DEF DraftRow
    <2>4. recount(e, rule) = n
      BY <1>2, <2>1, <2>2 DEF recount
    <2>5. Seen(n) = Seen(e)
      BY <2>3 DEF Seen
    <2> QED
      BY <1>2, <2>1, <2>3, <2>4, <2>5 DEF Counted
  <1> QED
    BY <1>1, <1>2

(* A draft whose sources change is one that sees other photos. *)
LEMMA SourcesChange ==
    ASSUME NEW e \in DraftRow, NEW i \in Photo, NEW k \in Nat, NEW n, SourceSet(n, e, i, k)
    PROVE  /\ n \in DraftRow
           /\ Seen(n) = IF k > 0 THEN Seen(e) \cup {i} ELSE Seen(e) \ {i}
           /\ n.status = e.status /\ n.area = e.area /\ n.locked = e.locked /\ n.qty = e.qty
           /\ n.edited = e.edited /\ n.manual = e.manual
  <1>1. PICK s : s = [e.sources EXCEPT ![i] = k]
    OBVIOUS
  <1>2. s \in [Photo -> Nat] /\ \A j \in Photo : s[j] = IF j = i THEN k ELSE e.sources[j]
    BY <1>1 DEF DraftRow
  <1>3. n = [e EXCEPT !.sources = s]
    BY <1>1 DEF SourceSet, DraftRow
  <1>4. /\ n \in DraftRow /\ n.sources = s
        /\ n.status = e.status /\ n.area = e.area /\ n.locked = e.locked /\ n.qty = e.qty
        /\ n.edited = e.edited /\ n.manual = e.manual
    BY <1>2, <1>3 DEF DraftRow
  <1>6. Seen(n) = IF k > 0 THEN Seen(e) \cup {i} ELSE Seen(e) \ {i}
    BY <1>2, <1>4 DEF Seen
  <1> QED
    BY <1>4, <1>6

(* The photos that a draft holds as it loses one. *)
LEMMA WithoutRow ==
    ASSUME CaptureSizes, NEW rule, NEW photos, NEW e, DraftOK(e, rule, photos), NEW i \in Photo
    PROVE  LET n == IF ~Open(e) \/ i \notin Seen(e) THEN e
                    ELSE IF Seen(e) = {i} /\ ~e.edited /\ ~e.manual THEN NoDraft
                    ELSE recount([e EXCEPT !.sources[i] = 0], rule)
           IN /\ DraftOK(n, rule, photos)
              /\ n # NoDraft => /\ n.status = e.status /\ n.edited = e.edited /\ n.locked = e.locked
                                /\ e.locked => n.qty = e.qty
              /\ n = NoDraft => e = NoDraft \/ (Open(e) /\ Seen(e) = {i} /\ ~e.edited)
              /\ Open(n) => i \notin Seen(n)
              /\ ~Open(e) => n = e
  <1>1. CASE ~Open(e) \/ i \notin Seen(e)
    BY <1>1
  <1>2. CASE Open(e) /\ i \in Seen(e)
    <2>0. e \in DraftRow /\ Rests(e) /\ PhotosOnFile(e, photos)
      BY <1>2 DEF DraftOK, Open, NoDraft
    <2>1. CASE Seen(e) = {i} /\ ~e.edited /\ ~e.manual
      BY <1>2, <2>1 DEF DraftOK, Open, NoDraft
    <2>2. CASE ~(Seen(e) = {i} /\ ~e.edited /\ ~e.manual)
      <3>1. PICK m : m = [e EXCEPT !.sources[i] = 0]
        OBVIOUS
      <3>2. /\ m \in DraftRow /\ Seen(m) = Seen(e) \ {i}
            /\ m.status = e.status /\ m.area = e.area /\ m.locked = e.locked /\ m.qty = e.qty
            /\ m.edited = e.edited /\ m.manual = e.manual
        <4>1. SourceSet(m, e, i, 0) /\ e \in DraftRow /\ 0 \in Nat /\ ~(0 > 0)
          BY <2>0, <3>1 DEF SourceSet
        <4> QED
          BY <4>1, SourcesChange
      <3>3. PICK n : n = recount(m, rule)
        OBVIOUS
      <3>4. /\ n \in DraftRow /\ Seen(n) = Seen(e) \ {i}
            /\ n.status = e.status /\ n.locked = e.locked
            /\ n.edited = e.edited /\ n.manual = e.manual /\ (e.locked => n.qty = e.qty)
            /\ Counted(n, rule)
        BY <3>2, <3>3, RecountKeeps
      <3>5. Rests(n) /\ PhotosOnFile(n, photos)
        BY <2>0, <2>2, <3>4 DEF Rests, PhotosOnFile
      <3>6. n # NoDraft
        BY <3>4 DEF DraftRow, NoDraft
      <3> QED
        BY <1>2, <2>2, <3>1, <3>3, <3>4, <3>5, <3>6 DEF DraftOK
    <2> QED
      BY <2>1, <2>2
  <1> QED
    BY <1>1, <1>2

(* One of the entries changes, to what a draft may be. *)
LEMMA OneDraftChanges ==
    ASSUME NEW rule, NEW photos, NEW entries, DraftsOK(entries, rule, photos),
           NEW d \in Draft, NEW e, DraftOK(e, rule, photos), NEW n, DraftSet(n, entries, d, e)
    PROVE  /\ DraftsOK(n, rule, photos)
           /\ n[d] = e /\ \A c \in Draft \ {d} : n[c] = entries[c]
  <1>1. e \in {NoDraft} \cup DraftRow
    BY DEF DraftOK
  <1>2. n \in [Draft -> {NoDraft} \cup DraftRow]
    BY <1>1 DEF DraftsOK, DraftSet
  <1>3. n[d] = e /\ \A c \in Draft \ {d} : n[c] = entries[c]
    BY DEF DraftsOK, DraftSet
  <1>4. \A c \in Draft : DraftOK(n[c], rule, photos)
    BY <1>3 DEF DraftsOK
  <1> QED
    BY <1>2, <1>3, <1>4 DEF DraftsOK

(* The next free entry is one. *)
LEMMA FreeIsFree ==
    ASSUME NEW entries, Free(entries) # {}
    PROVE  Min(Free(entries)) \in Draft /\ entries[Min(Free(entries))].status = "none"
  <1>1. Free(entries) \in SUBSET Nat
    BY CaptureAssumption DEF Free, Draft
  <1>2. Min(Free(entries)) \in Free(entries)
    BY <1>1, MinIsLeast
  <1> QED
    BY <1>2 DEF Free

(* What becomes of a draft as a photo is merged or moved: one that became items stays,
   and so does what somebody said of one under review. *)
Stands(e, n) ==
    /\ e.status = "created" => n = e
    /\ Open(e) /\ (e.edited \/ e.status = "discarded") =>
          /\ n.status = e.status /\ n.edited = e.edited /\ n.locked = e.locked
          /\ e.locked => n.qty = e.qty

(* A draft made of one photo is one that may be. *)
LEMMA SightingOK ==
    ASSUME NEW i \in Photo, NEW area \in Room, NEW rule, NEW photos, photos[i].status # "removed"
    PROVE  DraftOK(Sighting(i, area), rule, photos)
  <1>1. PICK s : s = [Unseen EXCEPT ![i] = 1]
    OBVIOUS
  <1>2. /\ qtyFromSources(s, rule) = 1 * Count[i] /\ s \in [Photo -> Nat]
        /\ {j \in Photo : s[j] > 0} = {i}
    <2>1. OnlySource(s, i, 1) /\ 1 \in Nat \ {0}
      BY <1>1 DEF OnlySource
    <2> QED
      BY <2>1, CountOfOne
  <1>3. Count[i] \in Nat \ {0} /\ 1 * Count[i] = Count[i]
    BY CaptureAssumption
  <1>4. PICK e : e = Sighting(i, area)
    OBVIOUS
  <1>5. /\ e \in DraftRow /\ e.status = "pending" /\ e.qty = Count[i] /\ ~e.edited /\ ~e.manual
        /\ e.sources = s
    BY <1>1, <1>2, <1>3, <1>4 DEF Sighting, DraftRow
  <1>6. Seen(e) = {i}
    BY <1>2, <1>5 DEF Seen
  <1>7. Rests(e) /\ PhotosOnFile(e, photos)
    BY <1>5, <1>6 DEF Rests, PhotosOnFile
  <1>8. Counted(e, rule)
    BY <1>2, <1>3, <1>5 DEF Counted
  <1> QED
    BY <1>4, <1>5, <1>7, <1>8 DEF DraftOK

(* Merging a photo adds it to an open draft of its area or makes a draft of it. *)
LEMMA MergeOK ==
    ASSUME CaptureSizes, NEW rule, NEW photos, NEW entries, DraftsOK(entries, rule, photos),
           NEW i \in Photo, NEW area \in Room, photos[i].status # "removed",
           NEW n \in mergePhotoDetections(entries, i, area, rule)
    PROVE  /\ DraftsOK(n, rule, photos)
           /\ \A d \in Draft : Stands(entries[d], n[d])
           /\ \A d \in Draft : entries[d].status # "none" => n[d].status = entries[d].status
  <1> DEFINE matches == {d \in Draft : /\ Open(entries[d]) /\ entries[d].area = area
                                       /\ i \notin Seen(entries[d])}
  <1>1. CASE matches # {}
    <2>1. PICK d \in matches : n = [entries EXCEPT ![d] = recount([@ EXCEPT !.sources[i] = 1], rule)]
      BY <1>1 DEF mergePhotoDetections
    <2>2. PICK e : e = entries[d]
      OBVIOUS
    <2>3. d \in Draft /\ Open(e) /\ e \in DraftRow /\ Rests(e) /\ PhotosOnFile(e, photos)
      BY <2>1, <2>2 DEF DraftsOK, DraftOK, Open, NoDraft
    <2>4. PICK m : m = [e EXCEPT !.sources[i] = 1]
      OBVIOUS
    <2>5. /\ m \in DraftRow /\ Seen(m) = Seen(e) \cup {i}
          /\ m.status = e.status /\ m.area = e.area /\ m.locked = e.locked /\ m.qty = e.qty
          /\ m.edited = e.edited /\ m.manual = e.manual
      <3>1. SourceSet(m, e, i, 1) /\ e \in DraftRow /\ 1 \in Nat /\ 1 > 0
        BY <2>3, <2>4 DEF SourceSet
      <3> QED
        BY <3>1, SourcesChange
    <2>6. PICK f : f = recount(m, rule)
      OBVIOUS
    <2>7. /\ f \in DraftRow /\ Seen(f) = Seen(e) \cup {i}
          /\ f.status = e.status /\ f.locked = e.locked
          /\ f.edited = e.edited /\ f.manual = e.manual /\ (e.locked => f.qty = e.qty)
          /\ Counted(f, rule)
      BY <2>5, <2>6, RecountKeeps
    <2>8. Rests(f) /\ PhotosOnFile(f, photos)
      BY <2>3, <2>7 DEF Rests, PhotosOnFile
    <2>9. DraftOK(f, rule, photos)
      BY <2>7, <2>8 DEF DraftOK
    <2>10. DraftSet(n, entries, d, f)
      BY <2>1, <2>2, <2>3, <2>4, <2>6 DEF DraftsOK, DraftSet
    <2>11. /\ DraftsOK(n, rule, photos)
           /\ n[d] = f /\ \A c \in Draft \ {d} : n[c] = entries[c]
      BY <2>3, <2>9, <2>10, OneDraftChanges
    <2>12. Stands(e, f)
      BY <2>3, <2>7 DEF Stands, Open
    <2>13. \A c \in Draft \ {d} : Stands(entries[c], n[c])
      BY <2>11 DEF Stands
    <2> QED
      BY <2>2, <2>3, <2>7, <2>11, <2>12, <2>13
  <1>2. CASE matches = {}
    <2>1. Free(entries) # {} /\ n = [entries EXCEPT ![Min(Free(entries))] = Sighting(i, area)]
      BY <1>2 DEF mergePhotoDetections
    <2>2. PICK d \in Draft : d = Min(Free(entries)) /\ entries[d].status = "none"
      BY <2>1, FreeIsFree
    <2>3. DraftOK(Sighting(i, area), rule, photos)
      BY SightingOK
    <2>4. /\ DraftsOK(n, rule, photos)
          /\ \A c \in Draft \ {d} : n[c] = entries[c]
      <3>1. DraftSet(n, entries, d, Sighting(i, area))
        BY <2>1, <2>2 DEF DraftSet
      <3> QED
        BY <2>3, <3>1, OneDraftChanges
    <2>5. Stands(entries[d], n[d])
      BY <2>2 DEF Stands, Open
    <2>6. \A c \in Draft \ {d} : Stands(entries[c], n[c])
      BY <2>4 DEF Stands
    <2> QED
      BY <2>2, <2>4, <2>5, <2>6
  <1> QED
    BY <1>1, <1>2

(* Taking a photo out of the drafts drops those that nobody touched and that rested on
   it alone. *)
LEMMA WithoutOK ==
    ASSUME CaptureSizes, NEW rule, NEW photos, NEW entries, DraftsOK(entries, rule, photos), NEW i \in Photo,
           NEW n, n = withoutSource(entries, i, rule)
    PROVE  /\ DraftsOK(n, rule, photos)
           /\ \A d \in Draft :
                 /\ n[d] # NoDraft => /\ n[d].status = entries[d].status
                                      /\ n[d].edited = entries[d].edited
                                      /\ n[d].locked = entries[d].locked
                                      /\ entries[d].locked => n[d].qty = entries[d].qty
                 /\ n[d] = NoDraft => \/ entries[d] = NoDraft
                                      \/ /\ Open(entries[d]) /\ Seen(entries[d]) = {i}
                                         /\ ~entries[d].edited
                 /\ Open(n[d]) => i \notin Seen(n[d])
                 /\ ~Open(entries[d]) => n[d] = entries[d]
  <1> DEFINE W(e) == IF ~Open(e) \/ i \notin Seen(e) THEN e
                     ELSE IF Seen(e) = {i} /\ ~e.edited /\ ~e.manual THEN NoDraft
                     ELSE recount([e EXCEPT !.sources[i] = 0], rule)
  <1>2. n = [d \in Draft |-> W(entries[d])]
    BY DEF withoutSource
  <1>3. ASSUME NEW d \in Draft
        PROVE  /\ DraftOK(n[d], rule, photos)
               /\ n[d] # NoDraft => n[d].status = entries[d].status /\ n[d].edited = entries[d].edited
                                    /\ n[d].locked = entries[d].locked
                                    /\ (entries[d].locked => n[d].qty = entries[d].qty)
               /\ n[d] = NoDraft => entries[d] = NoDraft
                                    \/ (Open(entries[d]) /\ Seen(entries[d]) = {i} /\ ~entries[d].edited)
               /\ Open(n[d]) => i \notin Seen(n[d])
               /\ ~Open(entries[d]) => n[d] = entries[d]
    <2>1. DraftOK(entries[d], rule, photos)
      BY DEF DraftsOK
    <2>2. n[d] = W(entries[d])
      BY <1>2
    <2> QED
      BY <2>1, <2>2, WithoutRow
  <1>4. n \in [Draft -> {NoDraft} \cup DraftRow]
    <2>1. \A d \in Draft : n[d] \in {NoDraft} \cup DraftRow
      BY <1>3 DEF DraftOK
    <2> HIDE DEF W
    <2> QED
      BY <1>2, <2>1
  <1>5. DraftsOK(n, rule, photos)
    BY <1>3, <1>4 DEF DraftsOK
  <1> HIDE DEF W
  <1> QED
    BY <1>3, <1>5

(* A photo that goes to another area takes its drafts along, or leaves them for others. *)
LEMMA MoveOK ==
    ASSUME CaptureSizes, NEW rule, NEW photos, NEW entries, DraftsOK(entries, rule, photos),
           NEW i \in Photo, NEW area \in Room, photos[i].status # "removed",
           NEW n \in moveSource(entries, i, area, rule)
    PROVE  /\ DraftsOK(n, rule, photos)
           /\ \A d \in Draft : Stands(entries[d], n[d])
  <1> DEFINE moving == {d \in Draft : /\ Open(entries[d]) /\ Seen(entries[d]) = {i}
                                      /\ entries[d].edited \/ entries[d].status = "discarded"}
             moved == [d \in Draft |-> IF d \in moving THEN [entries[d] EXCEPT !.area = area] ELSE entries[d]]
             elsewhere == [d \in Draft |-> IF d \in moving THEN NoDraft ELSE moved[d]]
             rest == withoutSource(elsewhere, i, rule)
             kept == [d \in Draft |-> IF d \in moving THEN moved[d] ELSE rest[d]]
  <1>1. n \in IF moving # {} THEN {kept} ELSE mergePhotoDetections(kept, i, area, rule)
    BY DEF moveSource
  <1>2. \A d \in Draft : elsewhere[d] = IF d \in moving THEN NoDraft ELSE entries[d]
    OBVIOUS
  <1>3. DraftsOK(elsewhere, rule, photos)
    <2>1. elsewhere \in [Draft -> {NoDraft} \cup DraftRow]
      BY <1>2 DEF DraftsOK
    <2>2. ASSUME NEW d \in Draft PROVE DraftOK(elsewhere[d], rule, photos)
      <3>1. DraftOK(entries[d], rule, photos) /\ DraftOK(NoDraft, rule, photos)
        BY DEF DraftsOK, DraftOK
      <3>2. elsewhere[d] = NoDraft \/ elsewhere[d] = entries[d]
        BY <1>2
      <3> HIDE DEF elsewhere
      <3> QED
        BY <3>1, <3>2
    <2> HIDE DEF elsewhere
    <2> QED
      BY <2>1, <2>2 DEF DraftsOK
  <1>4. PICK o : o = elsewhere
    OBVIOUS
  <1>5. PICK w : w = rest
    OBVIOUS
  <1>6. /\ DraftsOK(w, rule, photos)
        /\ \A d \in Draft :
              /\ w[d] # NoDraft => /\ w[d].status = o[d].status
                                   /\ w[d].edited = o[d].edited
                                   /\ w[d].locked = o[d].locked
                                   /\ o[d].locked => w[d].qty = o[d].qty
              /\ w[d] = NoDraft => o[d] = NoDraft \/ (Open(o[d]) /\ Seen(o[d]) = {i} /\ ~o[d].edited)
              /\ ~Open(o[d]) => w[d] = o[d]
    <2>1. DraftsOK(o, rule, photos) /\ w = withoutSource(o, i, rule)
      BY <1>3, <1>4, <1>5
    <2> HIDE DEF moving, moved, elsewhere, rest, kept
    <2> QED
      BY ONLY CaptureSizes, <2>1, WithoutOK
  <1>7. PICK k : k = kept
    OBVIOUS
  <1>8. \A d \in Draft : k[d] = IF d \in moving THEN [entries[d] EXCEPT !.area = area] ELSE w[d]
    BY <1>5, <1>7
  <1>9. ASSUME NEW d \in Draft, d \in moving
        PROVE  /\ DraftOK(k[d], rule, photos)
               /\ Stands(entries[d], k[d])
    <2>1. PICK e : e = entries[d]
      OBVIOUS
    <2>2. e \in DraftRow /\ Open(e) /\ Rests(e) /\ Counted(e, rule) /\ PhotosOnFile(e, photos)
      BY <1>9, <2>1 DEF DraftsOK, DraftOK, Open, NoDraft
    <2>3. PICK m : m = [e EXCEPT !.area = area]
      OBVIOUS
    <2>4. /\ m \in DraftRow /\ m.status = e.status /\ m.locked = e.locked /\ m.qty = e.qty
          /\ m.edited = e.edited /\ m.manual = e.manual /\ m.sources = e.sources
      BY <2>2, <2>3 DEF DraftRow
    <2>5. Seen(m) = Seen(e)
      BY <2>4 DEF Seen
    <2>6. Rests(m) /\ Counted(m, rule) /\ PhotosOnFile(m, photos)
      BY <2>2, <2>4, <2>5 DEF Rests, Counted, PhotosOnFile
    <2>7. k[d] = m
      BY <1>8, <1>9, <2>1, <2>3
    <2>8. DraftOK(m, rule, photos)
      BY <2>4, <2>6 DEF DraftOK
    <2>9. Stands(e, m)
      BY <2>2, <2>4 DEF Stands, Open
    <2> QED
      BY <2>1, <2>7, <2>8, <2>9
  <1>10. ASSUME NEW d \in Draft, d \notin moving
         PROVE  /\ DraftOK(k[d], rule, photos)
                /\ Stands(entries[d], k[d])
    <2>1. k[d] = w[d] /\ o[d] = entries[d]
      BY <1>2, <1>4, <1>8, <1>10
    <2>2. DraftOK(w[d], rule, photos)
      BY <1>6 DEF DraftsOK
    <2>3. ASSUME Open(entries[d]), entries[d].edited \/ entries[d].status = "discarded"
          PROVE  w[d] # NoDraft
      <3>1. Seen(entries[d]) # {i}
        BY <1>10, <2>3
      <3>2. entries[d] # NoDraft
        BY <2>3 DEF Open, NoDraft
      <3> QED
        BY <1>6, <2>1, <3>1, <3>2
    <2>4. Stands(entries[d], w[d])
      <3>1. entries[d].status = "created" => ~Open(entries[d])
        BY DEF Open
      <3>2. entries[d].status = "created" => w[d] = entries[d]
        BY <1>6, <2>1, <3>1
      <3>3. w[d] # NoDraft => /\ w[d].status = entries[d].status
                              /\ w[d].edited = entries[d].edited
                              /\ w[d].locked = entries[d].locked
                              /\ entries[d].locked => w[d].qty = entries[d].qty
        BY <1>6, <2>1
      <3> QED
        BY <2>3, <3>2, <3>3 DEF Stands
    <2> QED
      BY <2>1, <2>2, <2>4
  <1>11. /\ DraftsOK(k, rule, photos)
         /\ \A d \in Draft : Stands(entries[d], k[d])
    <2>1. \A d \in Draft : DraftOK(k[d], rule, photos) /\ Stands(entries[d], k[d])
      BY <1>9, <1>10
    <2>2. \A d \in Draft : k[d] \in {NoDraft} \cup DraftRow
      BY <2>1 DEF DraftOK
    <2>3. k = [d \in Draft |-> k[d]]
      BY <1>7
    <2>4. k \in [Draft -> {NoDraft} \cup DraftRow]
      BY <2>2, <2>3
    <2> QED
      BY <2>1, <2>4 DEF DraftsOK
  <1>12. CASE moving # {}
    <2>1. n = k
      BY <1>1, <1>7, <1>12
    <2> QED
      BY <1>11, <2>1
  <1>13. CASE moving = {}
    <2>1. n \in mergePhotoDetections(k, i, area, rule)
      BY <1>1, <1>7, <1>13
    <2>2. /\ DraftsOK(n, rule, photos)
          /\ \A d \in Draft : Stands(k[d], n[d])
      BY <1>11, <2>1, MergeOK
    <2>3. ASSUME NEW d \in Draft
          PROVE  Stands(entries[d], n[d])
      <3>1. Stands(entries[d], k[d]) /\ Stands(k[d], n[d])
        BY <1>11, <2>2
      <3> QED
        BY <3>1 DEF Stands, Open
    <2> QED
      BY <2>2, <2>3
  <1> QED
    BY <1>12, <1>13

-----------------------------------------------------------------------------
(* The steps *)

(* What became items stays so. *)
Kept(entries, n) == \A d \in Draft : entries[d].status = "created" => n[d].status = "created"

(* What a photo is does not matter to the drafts, as long as no other is removed. *)
LEMMA PhotosAside ==
    ASSUME NEW rule, NEW photos, NEW entries, DraftsOK(entries, rule, photos), NEW later,
           \A i \in Photo : later[i].status = "removed" => photos[i].status = "removed"
    PROVE  DraftsOK(entries, rule, later)
  <1>1. \A d \in Draft : PhotosOnFile(entries[d], photos) => PhotosOnFile(entries[d], later)
    BY DEF PhotosOnFile, Seen
  <1>2. \A d \in Draft : DraftOK(entries[d], rule, later)
    BY <1>1 DEF DraftsOK, DraftOK
  <1> QED
    BY <1>2 DEF DraftsOK

(* There are finitely many photos, and finitely many are claimed. *)
LEMMA PhotosFinite ==
    ASSUME CaptureSizes
    PROVE  IsFiniteSet(Photos) /\ Cardinality(Photos) \in Nat
  <1>1. Photos \subseteq Photo
    BY DEF Photos
  <1> QED
    BY <1>1, FS_Subset, FS_CardinalityType DEF CaptureSizes

LEMMA ClaimedFinite ==
    ASSUME CaptureSizes
    PROVE  IsFiniteSet(Claimed) /\ Cardinality(Claimed) \in Nat
  <1>1. Claimed \subseteq Reader
    BY DEF Claimed
  <1> QED
    BY <1>1, FS_Subset, FS_CardinalityType DEF CaptureSizes

(* A photo that is there has an area. *)
LEMMA PhotoKinds ==
    ASSUME CaptureShape, NEW i \in Photo
    PROVE  /\ photo[i] \in PhotoRow
           /\ There(i) => photo[i] \in [status : {"pending", "stale", "analysing", "analysed", "failed"},
                                        area : Room]
           /\ There(i) => photo[i].area \in Room
           /\ photo[i].status \in {"new", "removed", "pending", "stale", "analysing", "analysed", "failed"}
  BY DEF CaptureShape, PhotoRow, There

(* A photo that is there and stays. *)
LEMMA PhotoStatus ==
    ASSUME CaptureInv, NEW i \in Photo, There(i),
           NEW status \in {"pending", "stale", "analysing", "analysed", "failed"},
           photo' = [photo EXCEPT ![i].status = status]
    PROVE  /\ photo' \in [Photo -> PhotoRow]
           /\ Photos' = Photos
           /\ \A j \in Photo : photo'[j].status = "removed" => photo[j].status = "removed"
  <1>1. photo \in [Photo -> PhotoRow]
    BY DEF CaptureInv, CaptureShape
  <1>2. PICK p : p = [photo[i] EXCEPT !.status = status]
    OBVIOUS
  <1>3. p \in PhotoRow /\ p.status = status
    <2>1. photo[i] \in [status : {"pending", "stale", "analysing", "analysed", "failed"}, area : Room]
      BY PhotoKinds DEF CaptureInv
    <2> QED
      BY <1>2, <2>1 DEF PhotoRow
  <1>4. photo' = [photo EXCEPT ![i] = p]
    BY <1>1, <1>2
  <1>5. photo' \in [Photo -> PhotoRow]
    BY <1>1, <1>3, <1>4
  <1>6. \A j \in Photo : photo'[j] = IF j = i THEN p ELSE photo[j]
    BY <1>1, <1>4
  <1>7. Photos' = Photos
    <2>1. \A j \in Photo : There(j)' <=> There(j)
      BY <1>3, <1>6 DEF There
    <2> QED
      BY <2>1 DEF Photos
  <1> QED
    BY <1>3, <1>5, <1>6, <1>7

(* The steps of a photo, one by one. *)
LEMMA AddSourceStep ==
    ASSUME CaptureSizes, CaptureInv, NEW i \in Photo, addSource(i)
    PROVE  CaptureInv'
  <1>1. PICK area \in Room : photo' = [photo EXCEPT ![i] = [status |-> "pending", area |-> area]]
    BY DEF addSource
  <1>2. photo' \in [Photo -> PhotoRow] /\ photo[i].status = "new"
    BY <1>1 DEF CaptureInv, CaptureShape, PhotoRow, addSource
  <1>3. \A j \in Photo : photo'[j] = IF j = i THEN [status |-> "pending", area |-> area] ELSE photo[j]
    BY <1>1 DEF CaptureInv, CaptureShape
  <1>4. Photos' = Photos \cup {i}
    <2>1. \A j \in Photo : There(j)' <=> There(j) \/ j = i
      BY <1>3 DEF There
    <2> QED
      BY <2>1 DEF Photos
  <1>5. Cardinality(Photos') <= highest
    <2>1. Cardinality(Photos \cup {i}) <= Cardinality(Photos) + 1
      <3>1. IsFiniteSet(Photos) /\ Cardinality(Photos) \in Nat
        BY PhotosFinite
      <3>2. Cardinality(Photos \cup {i}) = IF i \in Photos THEN Cardinality(Photos) ELSE Cardinality(Photos) + 1
        BY <3>1, FS_AddElement
      <3> QED
        BY <3>1, <3>2
    <2>2. Cardinality(Photos) + 1 <= session.cap /\ session.cap <= highest
      BY DEF addSource, CaptureInv, Spends
    <2>3. IsFiniteSet(Photos \cup {i}) /\ Cardinality(Photos \cup {i}) \in Nat
      BY PhotosFinite, FS_AddElement, FS_CardinalityType
    <2>4. session.cap \in Int /\ highest \in Int /\ Cardinality(Photos) \in Int
      BY PhotosFinite, CaptureAssumption DEF CaptureInv, CaptureShape
    <2> QED
      BY <1>4, <2>1, <2>2, <2>3, <2>4
  <1>6. UNCHANGED <<session, draft, reading, made, asked, highest>>
    BY DEF addSource
  <1>7. DraftsOK(draft, session.rule, photo')
    BY <1>3, PhotosAside DEF CaptureInv
  <1>8. CaptureShape'
    BY <1>2, <1>6 DEF CaptureInv, CaptureShape
  <1>9. Spends'
    BY <1>5, <1>6 DEF CaptureInv, Spends, Claimed
  <1>10. MadeOK'
    BY <1>6 DEF CaptureInv, MadeOK
  <1> QED
    BY <1>6, <1>7, <1>8, <1>9, <1>10 DEF CaptureInv

(* A photo to be read again leaves the drafts alone. *)
LEMMA PhotoStep ==
    ASSUME CaptureSizes, CaptureInv, NEW i \in Photo, retrySource(i) \/ ClaimGoesStale(i)
    PROVE  CaptureInv'
  <1>1. There(i)
    BY DEF retrySource, ClaimGoesStale, There
  <1>2. UNCHANGED <<session, draft, reading, made, asked, highest>>
    BY DEF retrySource, ClaimGoesStale
  <1>3. PICK status \in {"pending", "stale"} : photo' = [photo EXCEPT ![i].status = status]
    BY DEF retrySource, ClaimGoesStale
  <1>4. /\ photo' \in [Photo -> PhotoRow]
        /\ Photos' = Photos
        /\ \A j \in Photo : photo'[j].status = "removed" => photo[j].status = "removed"
    BY <1>1, <1>3, PhotoStatus
  <1>5. DraftsOK(draft, session.rule, photo')
    BY <1>4, PhotosAside DEF CaptureInv
  <1>6. CaptureShape'
    BY <1>2, <1>4 DEF CaptureInv, CaptureShape
  <1>7. Spends'
    BY <1>2, <1>4 DEF CaptureInv, Spends, Claimed
  <1>8. MadeOK'
    BY <1>2 DEF CaptureInv, MadeOK
  <1> QED
    BY <1>2, <1>5, <1>6, <1>7, <1>8 DEF CaptureInv

(* Items that were made stay made of a created draft. *)
LEMMA MadeAside ==
    ASSUME CaptureInv, UNCHANGED made, session.open, session'.open, Kept(draft, draft')
    PROVE  MadeOK'
  BY DEF CaptureInv, MadeOK, Kept

(* An entry that stands stays created if it was. *)
LEMMA StandsKeeps ==
    ASSUME NEW entries, NEW n, \A d \in Draft : Stands(entries[d], n[d])
    PROVE  Kept(entries, n)
  BY DEF Stands, Kept

(* A photo of an open session goes to an area. *)
LEMMA UpdateSourceStep ==
    ASSUME CaptureSizes, CaptureInv, NEW i \in Photo, updateSource(i)
    PROVE  CaptureInv'
  <1>1. PICK area \in Room :
            /\ photo' = [photo EXCEPT ![i].area = area]
            /\ IF photo[i].status = "analysed"
               THEN draft' \in moveSource(draft, i, area, session.rule)
               ELSE UNCHANGED draft
    BY DEF updateSource
  <1>2. There(i) /\ session.open /\ UNCHANGED <<session, reading, made, asked, highest>>
    BY DEF updateSource
  <1>3. PICK p : p = [photo[i] EXCEPT !.area = area]
    OBVIOUS
  <1>4. photo \in [Photo -> PhotoRow]
    BY DEF CaptureInv, CaptureShape
  <1>5. p \in PhotoRow /\ p.status = photo[i].status
    <2>1. photo[i] \in [status : {"pending", "stale", "analysing", "analysed", "failed"}, area : Room]
      BY <1>2, PhotoKinds DEF CaptureInv
    <2> QED
      BY <1>3, <2>1 DEF PhotoRow
  <1>6. photo' = [photo EXCEPT ![i] = p]
    BY <1>1, <1>3, <1>4
  <1>7. photo' \in [Photo -> PhotoRow] /\ \A j \in Photo : photo'[j].status = photo[j].status
    BY <1>4, <1>5, <1>6
  <1>8. Photos' = Photos
    BY <1>7 DEF Photos, There
  <1>9. DraftsOK(draft, session.rule, photo')
    BY <1>7, PhotosAside DEF CaptureInv
  <1>10. DraftsOK(draft', session.rule, photo') /\ Kept(draft, draft')
    <2>1. CASE photo[i].status = "analysed"
      <3>1. photo'[i].status # "removed"
        BY <1>7, <2>1
      <3>2. draft' \in moveSource(draft, i, area, session.rule)
        BY <1>1, <2>1
      <3>3. PICK photos, n, rule : photos = photo' /\ n = draft' /\ rule = session.rule
        OBVIOUS
      <3>4. DraftsOK(draft, rule, photos) /\ photos[i].status # "removed" /\ n \in moveSource(draft, i, area, rule)
        BY <1>9, <3>1, <3>2, <3>3
      <3>5. /\ DraftsOK(n, rule, photos)
            /\ \A d \in Draft : Stands(draft[d], n[d])
        BY <3>4, MoveOK
      <3> QED
        BY <3>3, <3>5, StandsKeeps
    <2>2. CASE photo[i].status # "analysed"
      BY <1>1, <1>9, <2>2 DEF Kept
    <2> QED
      BY <2>1, <2>2
  <1>11. CaptureShape'
    BY <1>2, <1>7 DEF CaptureInv, CaptureShape
  <1>12. Spends'
    BY <1>2, <1>8 DEF CaptureInv, Spends, Claimed
  <1>13. MadeOK'
    BY <1>2, <1>10, MadeAside
  <1> QED
    BY <1>2, <1>10, <1>11, <1>12, <1>13 DEF CaptureInv

(* A photo is removed, and the drafts do without it. *)
LEMMA RemoveSourceStep ==
    ASSUME CaptureSizes, CaptureInv, NEW i \in Photo, removeSource(i)
    PROVE  CaptureInv'
  <1>1. /\ There(i) /\ session.open /\ UNCHANGED <<session, reading, made, asked, highest>>
        /\ draft' = withoutSource(draft, i, session.rule)
        /\ photo' = [photo EXCEPT ![i] = [status |-> "removed"]]
    BY DEF removeSource
  <1>2. photo' \in [Photo -> PhotoRow]
    BY <1>1 DEF CaptureInv, CaptureShape, PhotoRow
  <1>3. \A j \in Photo : photo'[j] = IF j = i THEN [status |-> "removed"] ELSE photo[j]
    BY <1>1 DEF CaptureInv, CaptureShape
  <1>4. Photos' \subseteq Photos
    BY <1>3 DEF Photos, There
  <1>5. Cardinality(Photos') <= highest
    <2>1. Cardinality(Photos') <= Cardinality(Photos) /\ Cardinality(Photos') \in Nat
      BY <1>4, PhotosFinite, FS_Subset, FS_CardinalityType
    <2>2. Cardinality(Photos) <= highest /\ highest \in Int
      BY DEF CaptureInv, Spends, CaptureShape
    <2> QED
      BY <2>1, <2>2, PhotosFinite
  <1>6. PICK n : n = draft'
    OBVIOUS
  <1>7. /\ DraftsOK(n, session.rule, photo)
        /\ \A d \in Draft :
              /\ Open(n[d]) => i \notin Seen(n[d])
              /\ ~Open(draft[d]) => n[d] = draft[d]
    <2>1. n = withoutSource(draft, i, session.rule) /\ DraftsOK(draft, session.rule, photo)
      BY <1>1, <1>6 DEF CaptureInv
    <2> QED
      BY <2>1, WithoutOK
  <1>8. DraftsOK(n, session.rule, photo')
    <2>1. ASSUME NEW d \in Draft PROVE DraftOK(n[d], session.rule, photo')
      <3>1. DraftOK(n[d], session.rule, photo)
        BY <1>7 DEF DraftsOK
      <3>2. Open(n[d]) /\ PhotosOnFile(n[d], photo) => PhotosOnFile(n[d], photo')
        <4>1. \A j \in Seen(n[d]) : j \in Photo
          BY DEF Seen
        <4> QED
          BY <1>3, <1>7, <4>1 DEF PhotosOnFile
      <3> QED
        BY <3>1, <3>2 DEF DraftOK
    <2> QED
      BY <1>7, <2>1 DEF DraftsOK
  <1>9. Kept(draft, n)
    BY <1>7 DEF Kept, Open
  <1>10. CaptureShape'
    BY <1>1, <1>2 DEF CaptureInv, CaptureShape
  <1>11. Spends'
    BY <1>1, <1>5 DEF CaptureInv, Spends, Claimed
  <1>12. MadeOK'
    BY <1>1, <1>6, <1>9, MadeAside
  <1> QED
    BY <1>1, <1>6, <1>8, <1>10, <1>11, <1>12 DEF CaptureInv

(* One reader goes on; it has claimed a photo or it has not. *)
LEMMA ReaderGoes ==
    ASSUME CaptureSizes, CaptureInv, NEW r \in Reader, NEW go \in ReadingRow,
           reading' = [reading EXCEPT ![r] = go]
    PROVE  /\ reading' \in [Reader -> ReadingRow]
           /\ Cardinality(Claimed') \in Nat
           /\ Cardinality(Claimed') = Cardinality(Claimed) + (IF go.step = "claimed" THEN 1 ELSE 0)
                                     - (IF reading[r].step = "claimed" THEN 1 ELSE 0)
  <1>1. reading' \in [Reader -> ReadingRow] /\ \A q \in Reader : reading'[q] = IF q = r THEN go ELSE reading[q]
    BY DEF CaptureInv, CaptureShape
  <1>2. IsFiniteSet(Claimed) /\ Cardinality(Claimed) \in Nat
    BY ClaimedFinite
  <1>3. r \in Claimed <=> reading[r].step = "claimed"
    BY DEF Claimed
  <1>4. CASE go.step = "claimed"
    <2>1. Claimed' = Claimed \cup {r}
      BY <1>1, <1>4 DEF Claimed
    <2>2. Cardinality(Claimed \cup {r}) = IF r \in Claimed THEN Cardinality(Claimed) ELSE Cardinality(Claimed) + 1
      BY <1>2, FS_AddElement
    <2> QED
      BY <1>1, <1>2, <1>3, <1>4, <2>1, <2>2
  <1>5. CASE go.step # "claimed"
    <2>1. Claimed' = Claimed \ {r}
      BY <1>1, <1>5 DEF Claimed
    <2>2. Cardinality(Claimed \ {r}) = IF r \in Claimed THEN Cardinality(Claimed) - 1 ELSE Cardinality(Claimed)
      BY <1>2, FS_RemoveElement
    <2>3. Cardinality(Claimed \ {r}) \in Nat
      BY <1>2, FS_RemoveElement, FS_CardinalityType
    <2> QED
      BY <1>1, <1>2, <1>3, <1>5, <2>1, <2>2, <2>3
  <1> QED
    BY <1>4, <1>5

(* What the session spends, as numbers. *)
LEMMA SpendNumbers ==
    ASSUME CaptureSizes, CaptureInv
    PROVE  /\ asked \in Nat /\ session.calls \in Nat /\ session.cap \in Nat /\ highest \in Nat
           /\ Cardinality(Claimed) \in Nat /\ Cardinality(Photos) \in Nat
           /\ asked + Cardinality(Claimed) <= session.calls
           /\ session.calls <= highest /\ session.cap <= highest
           /\ Cardinality(Photos) <= highest
  BY PhotosFinite, ClaimedFinite, CaptureAssumption DEF CaptureInv, CaptureShape, Spends

(* A claim is paid for as it is made: the cap is checked and the call counted at once. *)
LEMMA ClaimPhotoStep ==
    ASSUME CaptureSizes, CaptureInv, NEW r \in Reader, ClaimPhoto(r)
    PROVE  CaptureInv'
  <1>1. PICK i \in Photos :
            /\ photo' = [photo EXCEPT ![i].status = "analysing"]
            /\ reading' = [reading EXCEPT ![r] = [step |-> "claimed", photo |-> i]]
    BY DEF ClaimPhoto
  <1>2. /\ reading[r] = NotReading /\ session.open /\ session.calls < session.cap
        /\ session' = [session EXCEPT !.calls = session.calls + 1]
        /\ UNCHANGED <<draft, made, asked, highest>>
    BY DEF ClaimPhoto, CallsAtClaim
  <1>3. i \in Photo /\ There(i)
    BY DEF Photos
  <1>4. /\ photo' \in [Photo -> PhotoRow]
        /\ Photos' = Photos
        /\ \A j \in Photo : photo'[j].status = "removed" => photo[j].status = "removed"
    BY <1>1, <1>3, PhotoStatus
  <1>5. PICK go \in ReadingRow : go = [step |-> "claimed", photo |-> i]
    BY <1>3 DEF ReadingRow
  <1>6. /\ reading' \in [Reader -> ReadingRow]
        /\ Cardinality(Claimed') \in Nat
        /\ Cardinality(Claimed') = Cardinality(Claimed) + 1
    <2>1. go.step = "claimed" /\ reading[r].step # "claimed" /\ reading' = [reading EXCEPT ![r] = go]
      BY <1>1, <1>2, <1>5 DEF NotReading
    <2>2. /\ reading' \in [Reader -> ReadingRow]
          /\ Cardinality(Claimed') \in Nat
          /\ Cardinality(Claimed') = Cardinality(Claimed) + (IF go.step = "claimed" THEN 1 ELSE 0)
                                     - (IF reading[r].step = "claimed" THEN 1 ELSE 0)
      BY <2>1, ReaderGoes
    <2> QED
      BY <2>1, <2>2, SpendNumbers
  <1>7. /\ session' \in [open : BOOLEAN, cap : 1 .. MaxCap, calls : Nat, rule : {"max", "sum"}]
        /\ session'.calls = session.calls + 1 /\ session'.cap = session.cap
        /\ session'.rule = session.rule /\ session'.open = session.open
    <2>1. session.calls + 1 \in Nat
      BY SpendNumbers
    <2> QED
      BY <1>2, <2>1 DEF CaptureInv, CaptureShape
  <1>8. CaptureShape'
    BY <1>2, <1>4, <1>6, <1>7 DEF CaptureInv, CaptureShape
  <1>9. DraftsOK(draft, session.rule, photo')
    BY <1>4, PhotosAside DEF CaptureInv
  <1>10. Spends'
    <2>1. asked + (Cardinality(Claimed) + 1) <= session.calls + 1 /\ session.calls + 1 <= highest
      BY <1>2, SpendNumbers
    <2> QED
      BY <1>2, <1>4, <1>6, <1>7, <2>1, SpendNumbers DEF Spends
  <1>11. MadeOK'
    BY <1>2, <1>7 DEF CaptureInv, MadeOK
  <1> QED
    BY <1>2, <1>7, <1>8, <1>9, <1>10, <1>11 DEF CaptureInv

(* The call a claim was paid for is made. *)
LEMMA ReadSourceStep ==
    ASSUME CaptureSizes, CaptureInv, NEW r \in Reader, readSource(r) \/ RequestDies(r)
    PROVE  CaptureInv'
  <1>1. UNCHANGED <<session, photo, draft, made, highest>>
    BY DEF readSource, RequestDies
  <1>2. PICK go \in ReadingRow :
            /\ reading' = [reading EXCEPT ![r] = go] /\ go.step # "claimed"
            /\ \/ asked' = asked + 1 /\ reading[r].step = "claimed"
               \/ asked' = asked
    <2>1. CASE readSource(r)
      <3>1. PICK answer \in {"read", "failed"} : reading' = [reading EXCEPT ![r].step = answer]
        BY <2>1 DEF readSource
      <3>2. reading[r] \in [step : {"claimed", "read", "failed"}, photo : Photo]
        BY <2>1 DEF readSource, CaptureInv, CaptureShape, ReadingRow, NotReading
      <3>3. PICK go : go = [reading[r] EXCEPT !.step = answer]
        OBVIOUS
      <3>4. go \in ReadingRow /\ go.step = answer
        BY <3>2, <3>3 DEF ReadingRow
      <3>5. reading' = [reading EXCEPT ![r] = go]
        BY <3>1, <3>3 DEF CaptureInv, CaptureShape
      <3> QED
        BY <2>1, <3>4, <3>5 DEF readSource
    <2>2. CASE RequestDies(r)
      <3>1. PICK go \in ReadingRow : go = NotReading
        BY DEF ReadingRow
      <3>2. reading' = [reading EXCEPT ![r] = go] /\ go.step # "claimed" /\ asked' = asked
        BY <2>2, <3>1 DEF RequestDies, NotReading
      <3> QED
        BY <3>2
    <2> QED
      BY <2>1, <2>2
  <1>3. /\ reading' \in [Reader -> ReadingRow]
        /\ Cardinality(Claimed') \in Nat
        /\ Cardinality(Claimed') = Cardinality(Claimed) + (IF go.step = "claimed" THEN 1 ELSE 0)
                                   - (IF reading[r].step = "claimed" THEN 1 ELSE 0)
    BY <1>2, ReaderGoes
  <1>4. asked' \in Nat /\ asked' + Cardinality(Claimed') <= session.calls
    BY <1>2, <1>3, SpendNumbers
  <1>5. CaptureShape'
    BY <1>1, <1>3, <1>4 DEF CaptureInv, CaptureShape
  <1>6. Photos' = Photos
    BY <1>1 DEF Photos, There
  <1>7. Spends'
    BY <1>1, <1>4, <1>6 DEF CaptureInv, Spends
  <1>8. MadeOK'
    BY <1>1 DEF CaptureInv, MadeOK
  <1> QED
    BY <1>1, <1>5, <1>7, <1>8 DEF CaptureInv

(* What was read is merged where the photo is now, or dropped. *)
LEMMA StoreReadingStep ==
    ASSUME CaptureSizes, CaptureInv, NEW r \in Reader, StoreReading(r)
    PROVE  /\ CaptureInv'
           /\ draft' = draft \/ \A d \in Draft : Stands(draft[d], draft'[d])
  <1> DEFINE i == reading[r].photo
  <1>1. reading[r].step \in {"read", "failed"} /\ UNCHANGED <<made, asked, highest>>
    BY DEF StoreReading
  <1>2. i \in Photo
    BY <1>1 DEF CaptureInv, CaptureShape, ReadingRow, NotReading
  <1>3. /\ session' \in [open : BOOLEAN, cap : 1 .. MaxCap, calls : Nat, rule : {"max", "sum"}]
        /\ session'.calls = session.calls /\ session'.cap = session.cap
        /\ session'.rule = session.rule /\ session'.open = session.open
    <2>1. PICK c \in Nat : c = session.calls + 1 - CallsAtClaim /\ c = session.calls
      BY SpendNumbers DEF CallsAtClaim
    <2>2. session' = [session EXCEPT !.calls = c]
      BY <2>1 DEF StoreReading
    <2> QED
      BY <2>1, <2>2 DEF CaptureInv, CaptureShape
  <1>4. /\ reading' \in [Reader -> ReadingRow]
        /\ Cardinality(Claimed') = Cardinality(Claimed)
    <2>1. PICK go \in ReadingRow : go = NotReading
      BY DEF ReadingRow
    <2>2. reading' = [reading EXCEPT ![r] = go] /\ go.step # "claimed"
      BY <2>1 DEF StoreReading, NotReading
    <2>3. /\ reading' \in [Reader -> ReadingRow]
          /\ Cardinality(Claimed') = Cardinality(Claimed) + (IF go.step = "claimed" THEN 1 ELSE 0)
                                     - (IF reading[r].step = "claimed" THEN 1 ELSE 0)
      BY <2>2, ReaderGoes
    <2> QED
      BY <1>1, <2>2, <2>3, SpendNumbers
  <1>5. CASE ~session.open \/ ~There(i)
    <2>1. UNCHANGED <<photo, draft>>
      BY <1>5 DEF StoreReading, StillOpen, StillThere
    <2>2. Photos' = Photos
      BY <2>1 DEF Photos, There
    <2>3. CaptureShape'
      BY <1>1, <1>3, <1>4, <2>1 DEF CaptureInv, CaptureShape
    <2>4. Spends'
      BY <1>1, <1>3, <1>4, <2>2 DEF CaptureInv, Spends
    <2>5. MadeOK'
      BY <1>1, <1>3, <2>1 DEF CaptureInv, MadeOK
    <2> QED
      BY <1>3, <2>1, <2>3, <2>4, <2>5 DEF CaptureInv
  <1>6. CASE session.open /\ There(i)
    <2>1. \E status \in {"failed", "analysed"} : photo' = [photo EXCEPT ![i].status = status]
      BY <1>6 DEF StoreReading, StillOpen, StillThere
    <2>2. /\ photo' \in [Photo -> PhotoRow]
          /\ Photos' = Photos
          /\ \A j \in Photo : photo'[j].status = "removed" => photo[j].status = "removed"
      BY <1>2, <1>6, <2>1, PhotoStatus
    <2>3. photo'[i].status # "removed"
      BY <1>2, <1>6, <2>2 DEF There
    <2>4. DraftsOK(draft, session.rule, photo')
      BY <2>2, PhotosAside DEF CaptureInv
    <2>5. draft' = draft \/ draft' \in moveSource(draft, i, photo[i].area, session.rule)
      BY <1>6 DEF StoreReading, StillOpen, StillThere
    <2>6. DraftsOK(draft', session.rule, photo') /\ Kept(draft, draft')
          /\ (draft' = draft \/ \A d \in Draft : Stands(draft[d], draft'[d]))
      <3>1. CASE draft' = draft
        BY <2>4, <3>1 DEF Kept
      <3>2. CASE draft' \in moveSource(draft, i, photo[i].area, session.rule)
        <4>1. PICK j \in Photo, area \in Room, photos \in {photo'}, n \in {draft'}, rule \in {session.rule} :
                  j = i /\ area = photo[i].area
          BY <1>2, <1>6, PhotoKinds DEF CaptureInv
        <4>2. /\ DraftsOK(draft, rule, photos) /\ photos[j].status # "removed"
              /\ n \in moveSource(draft, j, area, rule)
          BY <2>3, <2>4, <3>2, <4>1
        <4>3. /\ DraftsOK(n, rule, photos)
              /\ \A d \in Draft : Stands(draft[d], n[d])
          BY <4>2, MoveOK
        <4> QED
          BY <4>1, <4>3, StandsKeeps
      <3> QED
        BY <2>5, <3>1, <3>2
    <2>7. CaptureShape'
      BY <1>1, <1>3, <1>4, <2>2 DEF CaptureInv, CaptureShape
    <2>8. Spends'
      BY <1>1, <1>3, <1>4, <2>2 DEF CaptureInv, Spends
    <2>9. MadeOK'
      BY <1>1, <1>3, <1>6, <2>6, MadeAside
    <2> QED
      BY <1>3, <2>6, <2>7, <2>8, <2>9 DEF CaptureInv
  <1> QED
    BY <1>5, <1>6

-----------------------------------------------------------------------------
(* Reviewing changes drafts only. *)
LEMMA ReviewStep ==
    ASSUME CaptureInv, UNCHANGED <<session, photo, reading, made, asked, highest>>, session.open,
           DraftsOK(draft', session.rule, photo), Kept(draft, draft')
    PROVE  CaptureInv'
  <1>1. CaptureShape'
    BY DEF CaptureInv, CaptureShape
  <1>2. Photos' = Photos /\ Claimed' = Claimed
    BY DEF Photos, There, Claimed
  <1>3. Spends'
    BY <1>2 DEF CaptureInv, Spends
  <1>4. MadeOK'
    BY MadeAside
  <1> QED
    BY <1>1, <1>3, <1>4 DEF CaptureInv

(* What the invariant says of an entry. *)
LEMMA DraftRows ==
    ASSUME CaptureInv, NEW d \in Draft
    PROVE  /\ DraftOK(draft[d], session.rule, photo)
           /\ draft[d].status # "none" => draft[d] \in DraftRow /\ Rests(draft[d])
           /\ Open(draft[d]) => /\ Counted(draft[d], session.rule) /\ PhotosOnFile(draft[d], photo)
                                /\ draft[d].status # "none"
  BY DEF CaptureInv, DraftsOK, DraftOK, NoDraft, Open

(* One draft changes that no items were made of, as a draft may. *)
LEMMA OneReviewed ==
    ASSUME CaptureInv, NEW d \in Draft, draft[d].status # "created", NEW e, DraftOK(e, session.rule, photo),
           DraftSet(draft', draft, d, e)
    PROVE  DraftsOK(draft', session.rule, photo) /\ Kept(draft, draft')
  <1>1. PICK n, rule : n = draft' /\ rule = session.rule
    OBVIOUS
  <1>2. DraftsOK(draft, rule, photo) /\ DraftOK(e, rule, photo) /\ DraftSet(n, draft, d, e)
    BY <1>1 DEF CaptureInv
  <1>3. DraftsOK(n, rule, photo) /\ n[d] = e /\ \A c \in Draft \ {d} : n[c] = draft[c]
    BY <1>2, OneDraftChanges
  <1> QED
    BY <1>1, <1>3 DEF Kept

(* The reviews, one by one. *)
LEMMA AddDraftStep ==
    ASSUME CaptureSizes, CaptureInv, addDraft
    PROVE  CaptureInv'
  <1>1. PICK area \in Room : draft' = [draft EXCEPT ![Min(Free(draft))] =
                     [status |-> "pending", area |-> area, qty |-> 1, locked |-> TRUE, edited |-> TRUE,
                      manual |-> TRUE, sources |-> Unseen]]
    BY DEF addDraft
  <1>2. /\ session.open /\ Free(draft) # {}
        /\ UNCHANGED <<session, photo, reading, made, asked, highest>>
    BY DEF addDraft
  <1>3. PICK d \in Draft : d = Min(Free(draft)) /\ draft[d].status = "none"
    BY <1>2, FreeIsFree
  <1>4. PICK e : e = [status |-> "pending", area |-> area, qty |-> 1, locked |-> TRUE, edited |-> TRUE,
                      manual |-> TRUE, sources |-> Unseen]
    OBVIOUS
  <1>5. Unseen \in [Photo -> Nat] /\ \A i \in Photo : ~(Unseen[i] > 0)
    BY DEF Unseen
  <1>6. e \in DraftRow /\ e.locked /\ e.edited /\ e.sources = Unseen
    BY <1>4, <1>5 DEF DraftRow
  <1>7. Seen(e) = {}
    BY <1>5, <1>6 DEF Seen
  <1>8. DraftOK(e, session.rule, photo)
    BY <1>6, <1>7 DEF DraftOK, Rests, Counted, PhotosOnFile
  <1>9. DraftSet(draft', draft, d, e)
    BY <1>1, <1>3, <1>4 DEF DraftSet
  <1>10. DraftsOK(draft', session.rule, photo) /\ Kept(draft, draft')
    BY <1>3, <1>8, <1>9, OneReviewed
  <1> QED
    BY <1>2, <1>10, ReviewStep

(* What somebody may make of a draft by hand. *)
Reviewed(e, n) ==
    /\ n \in DraftRow /\ n.sources = e.sources /\ n.manual = e.manual
    /\ e.edited => n.edited
    /\ n.locked \/ (e.locked = n.locked /\ n.qty = e.qty)
    /\ n.edited \/ n.locked = e.locked

(* What is typed is an edit, and a typed count is locked. *)
LEMMA UpdateDraftStep ==
    ASSUME CaptureSizes, CaptureInv, NEW d \in Draft, updateDraft(d)
    PROVE  CaptureInv'
  <1>1. /\ session.open /\ Open(draft[d])
        /\ UNCHANGED <<session, photo, reading, made, asked, highest>>
    BY DEF updateDraft
  <1>2. PICK e : e = draft[d]
    OBVIOUS
  <1>3. /\ e \in DraftRow /\ Rests(e) /\ Counted(e, session.rule) /\ PhotosOnFile(e, photo)
        /\ e.status \in {"pending", "discarded"} /\ e.status # "created"
    BY <1>1, <1>2, DraftRows DEF Open
  <1>4. \E n : Reviewed(e, n) /\ DraftSet(draft', draft, d, n)
    <2>1. ASSUME NEW area \in Room, draft' = [draft EXCEPT ![d].edited = TRUE, ![d].area = area]
          PROVE  \E n : Reviewed(e, n) /\ DraftSet(draft', draft, d, n)
      <3>1. PICK n : n = [e EXCEPT !.edited = TRUE, !.area = area]
        OBVIOUS
      <3>2. /\ n \in DraftRow /\ n.sources = e.sources /\ n.manual = e.manual /\ n.edited
            /\ e.locked = n.locked /\ n.qty = e.qty
        BY <1>3, <3>1 DEF DraftRow
      <3>3. DraftSet(draft', draft, d, n)
        BY <1>2, <2>1, <3>1 DEF DraftSet, CaptureInv, DraftsOK
      <3> QED
        BY <3>2, <3>3 DEF Reviewed
    <2>2. CASE draft' = [draft EXCEPT ![d].edited = TRUE, ![d].locked = TRUE, ![d].qty = 2]
      <3> DEFINE two == 2
      <3>0. two \in Nat \ {0}
        OBVIOUS
      <3>1. PICK n : n = [e EXCEPT !.edited = TRUE, !.locked = TRUE, !.qty = two]
        OBVIOUS
      <3>2. /\ n \in DraftRow /\ n.sources = e.sources /\ n.manual = e.manual /\ n.edited /\ n.locked
        <4> HIDE DEF two
        <4>1. e \in DraftRow
          BY <1>3
        <4> QED
          BY <3>0, <3>1, <4>1 DEF DraftRow
      <3>3. DraftSet(draft', draft, d, n)
        BY <1>2, <2>2, <3>1 DEF DraftSet, CaptureInv, DraftsOK
      <3> QED
        BY <3>2, <3>3 DEF Reviewed
    <2>3. ASSUME NEW status \in {"pending", "discarded"}, draft' = [draft EXCEPT ![d].status = status]
          PROVE  \E n : Reviewed(e, n) /\ DraftSet(draft', draft, d, n)
      <3>1. PICK n : n = [e EXCEPT !.status = status]
        OBVIOUS
      <3>2. /\ n \in DraftRow /\ n.sources = e.sources /\ n.manual = e.manual /\ n.edited = e.edited
            /\ e.locked = n.locked /\ n.qty = e.qty
        BY <1>3, <3>1 DEF DraftRow
      <3>3. DraftSet(draft', draft, d, n)
        BY <1>2, <2>3, <3>1 DEF DraftSet, CaptureInv, DraftsOK
      <3> QED
        BY <3>2, <3>3 DEF Reviewed
    <2> QED
      BY <2>1, <2>2, <2>3 DEF updateDraft
  <1>5. PICK n : Reviewed(e, n) /\ DraftSet(draft', draft, d, n)
    BY <1>4
  <1>6. Seen(n) = Seen(e)
    BY <1>5 DEF Seen, Reviewed
  <1>7. DraftOK(n, session.rule, photo)
    BY <1>3, <1>5, <1>6 DEF DraftOK, Rests, Counted, PhotosOnFile, Reviewed
  <1>8. DraftsOK(draft', session.rule, photo) /\ Kept(draft, draft')
    BY <1>2, <1>3, <1>5, <1>7, OneReviewed
  <1> QED
    BY <1>1, <1>8, ReviewStep

(* Two drafts change, neither of which became items. *)
LEMMA TwoReviewed ==
    ASSUME CaptureInv, NEW d \in Draft, NEW c \in Draft, d # c,
           draft[d].status # "created", draft[c].status # "created",
           NEW e, DraftOK(e, session.rule, photo), NEW f, DraftOK(f, session.rule, photo),
           NEW between, DraftSet(between, draft, c, f), DraftSet(draft', between, d, e)
    PROVE  DraftsOK(draft', session.rule, photo) /\ Kept(draft, draft')
  <1>1. PICK n, rule : n = draft' /\ rule = session.rule
    OBVIOUS
  <1>2. DraftsOK(draft, rule, photo) /\ DraftOK(e, rule, photo) /\ DraftOK(f, rule, photo)
        /\ DraftSet(n, between, d, e)
    BY <1>1 DEF CaptureInv
  <1>3. DraftsOK(between, rule, photo) /\ \A b \in Draft \ {c} : between[b] = draft[b]
    BY <1>2, OneDraftChanges
  <1>4. DraftsOK(n, rule, photo) /\ \A b \in Draft \ {d} : n[b] = between[b]
    BY <1>2, <1>3, OneDraftChanges
  <1> QED
    BY <1>1, <1>3, <1>4 DEF Kept

(* One draft takes the photos of another, which is discarded. *)
LEMMA MergeDraftsStep ==
    ASSUME CaptureSizes, CaptureInv, NEW d \in Draft, NEW other \in Draft, mergeDrafts(d, other)
    PROVE  CaptureInv'
  <1> DEFINE sources == [i \in Photo |-> draft[d].sources[i] + draft[other].sources[i]]
             seen == {i \in Photo : sources[i] > 0}
             typed == draft[d].locked \/ draft[other].locked \/ seen = {}
             qty == IF typed THEN draft[d].qty + draft[other].qty ELSE qtyFromSources(sources, session.rule)
  <1>1. /\ session.open /\ d # other
        /\ draft[d].status = "pending" /\ draft[other].status = "pending"
        /\ UNCHANGED <<session, photo, reading, made, asked, highest>>
    BY DEF mergeDrafts
  <1>2. PICK e, f : e = draft[d] /\ f = draft[other]
    OBVIOUS
  <1>3. /\ e \in DraftRow /\ Rests(e) /\ PhotosOnFile(e, photo)
        /\ f \in DraftRow /\ Rests(f) /\ PhotosOnFile(f, photo)
    BY <1>1, <1>2, DraftRows DEF Open
  <1>4. PICK s : s = sources
    OBVIOUS
  <1>5. \A i \in Photo :
            /\ s[i] = e.sources[i] + f.sources[i] /\ s[i] \in Nat
            /\ s[i] > 0 => e.sources[i] > 0 \/ f.sources[i] > 0
    <2> TAKE i \in Photo
    <2>1. e.sources[i] \in Nat /\ f.sources[i] \in Nat
      BY <1>3 DEF DraftRow
    <2>2. s[i] = e.sources[i] + f.sources[i]
      BY <1>2, <1>4
    <2> QED
      BY <2>1, <2>2
  <1>6. s \in [Photo -> Nat]
    <2>1. s = [i \in Photo |-> s[i]]
      BY <1>4
    <2>2. \A i \in Photo : s[i] \in Nat
      BY <1>5
    <2> QED
      BY ONLY <2>1, <2>2
  <1>7. PICK q \in Nat \ {0} : q = qty
    <2>1. CASE typed
      <3>1. e.qty \in Nat \ {0} /\ f.qty \in Nat \ {0}
        BY <1>3 DEF DraftRow
      <3>2. qty = e.qty + f.qty
        BY <1>2, <2>1
      <3>3. PICK a, b \in Nat \ {0} : a = e.qty /\ b = f.qty
        BY <3>1
      <3>4. a + b \in Nat \ {0}
        OBVIOUS
      <3> HIDE DEF qty
      <3> QED
        BY <3>2, <3>3, <3>4
    <2>2. CASE ~typed
      <3>1. {i \in Photo : s[i] > 0} # {}
        BY <1>4, <2>2
      <3>2. qtyFromSources(s, session.rule) \in Nat \ {0}
        BY <1>6, <3>1, CountsArePositive
      <3>3. qty = qtyFromSources(s, session.rule)
        BY <1>4, <2>2
      <3> QED
        BY <3>2, <3>3
    <2> QED
      BY <2>1, <2>2
  <1>8. PICK l \in BOOLEAN : l = typed
    BY <1>2, <1>3 DEF DraftRow
  <1>9. PICK m \in BOOLEAN : m = (e.manual /\ f.manual)
    OBVIOUS
  <1>10. PICK n : n = [e EXCEPT !.sources = s, !.edited = TRUE, !.locked = l, !.manual = m, !.qty = q]
    OBVIOUS
  <1>11. n \in DraftRow /\ n.sources = s /\ n.edited /\ n.locked = l /\ n.qty = q /\ n.status = e.status
    <2>1. e \in DraftRow
      BY <1>3
    <2> QED
      BY ONLY <1>6, l \in BOOLEAN, m \in BOOLEAN, q \in Nat \ {0}, <1>10, <2>1 DEF DraftRow
  <1>12. Seen(n) = {i \in Photo : s[i] > 0}
    BY <1>11 DEF Seen
  <1>13. DraftOK(n, session.rule, photo)
    <2>1. Rests(n)
      BY <1>11 DEF Rests
    <2>2. Counted(n, session.rule)
      <3>1. n.locked \/ Seen(n) = {} \/ ~typed
        BY <1>4, <1>8, <1>11, <1>12
      <3>2. ~typed => n.qty = qtyFromSources(s, session.rule)
        BY <1>4, <1>7, <1>11
      <3> QED
        BY <1>11, <3>1, <3>2 DEF Counted
    <2>3. PhotosOnFile(n, photo)
      <3>1. \A i \in Seen(n) : i \in Seen(e) \/ i \in Seen(f)
        <4> HIDE DEF sources, typed, qty, seen
        <4> TAKE i \in Seen(n)
        <4>1. i \in Photo /\ s[i] > 0
          BY <1>12
        <4>2. e.sources[i] > 0 \/ f.sources[i] > 0
          BY <1>5, <4>1
        <4> QED
          BY <4>1, <4>2 DEF Seen
      <3> QED
        BY <1>3, <3>1 DEF PhotosOnFile
    <2> QED
      BY <1>11, <2>1, <2>2, <2>3 DEF DraftOK
  <1>14. PICK between : DraftSet(between, draft, other, NoDraft)
    BY DEF DraftSet
  <1>15. DraftSet(draft', between, d, n)
    <2>1. draft' = [draft EXCEPT ![other] = NoDraft, ![d] = n]
      <3>0. draft' = [draft EXCEPT ![other] = NoDraft,
                       ![d] = [draft[d] EXCEPT !.sources = sources, !.edited = TRUE, !.locked = typed,
                                               !.manual = draft[d].manual /\ draft[other].manual,
                                               !.qty = qty]]
        BY <1>1 DEF mergeDrafts, CaptureInv, DraftsOK
      <3>1. n = [draft[d] EXCEPT !.sources = sources, !.edited = TRUE, !.locked = typed,
                                 !.manual = draft[d].manual /\ draft[other].manual, !.qty = qty]
        BY <1>2, <1>4, <1>7, <1>8, <1>9, <1>10
      <3> HIDE DEF sources, typed, qty, seen
      <3> QED
        BY <3>0, <3>1
    <2> QED
      BY <1>1, <1>14, <2>1 DEF DraftSet, CaptureInv, DraftsOK
  <1>16. DraftsOK(draft', session.rule, photo) /\ Kept(draft, draft')
    <2>1. DraftOK(NoDraft, session.rule, photo)
      BY DEF DraftOK
    <2> HIDE DEF sources, typed, qty, seen
    <2> QED
      BY <1>1, <1>13, <1>14, <1>15, <2>1, TwoReviewed
  <1> QED
    BY <1>1, <1>16, ReviewStep

(* A draft of one photo, its pieces counted. *)
LEMMA OnlyOK ==
    ASSUME NEW rule, NEW photos, NEW e \in DraftRow, Rests(e), PhotosOnFile(e, photos), NEW i \in Seen(e),
           NEW n, n = [e EXCEPT !.sources = [Unseen EXCEPT ![i] = e.sources[i]],
                                !.qty = e.sources[i] * Count[i], !.locked = FALSE]
    PROVE  DraftOK(n, rule, photos)
  <1>1. i \in Photo /\ e.sources[i] > 0
    BY DEF Seen
  <1>2. PICK k \in Nat \ {0} : k = e.sources[i]
    BY <1>1 DEF DraftRow
  <1>3. PICK s : s = [Unseen EXCEPT ![i] = k]
    OBVIOUS
  <1>4. /\ qtyFromSources(s, rule) = k * Count[i]
        /\ k * Count[i] \in Nat \ {0}
        /\ s \in [Photo -> Nat]
        /\ {j \in Photo : s[j] > 0} = {i}
    <2>1. OnlySource(s, i, k)
      BY <1>3 DEF OnlySource
    <2> QED
      BY <1>1, <2>1, CountOfOne
  <1>5. PICK q \in Nat \ {0} : q = k * Count[i]
    BY <1>4
  <1>6. n = [e EXCEPT !.sources = s, !.qty = q, !.locked = FALSE]
    BY <1>2, <1>3, <1>5
  <1>7. n \in DraftRow /\ n.sources = s /\ n.qty = q /\ n.manual = e.manual /\ n.edited = e.edited
    BY ONLY <1>4, q \in Nat \ {0}, <1>6, e \in DraftRow DEF DraftRow
  <1>8. Seen(n) = {i}
    BY <1>4, <1>7 DEF Seen
  <1>9. Rests(n) /\ PhotosOnFile(n, photos) /\ Counted(n, rule)
    BY <1>4, <1>5, <1>7, <1>8 DEF Rests, PhotosOnFile, Counted
  <1> QED
    BY <1>7, <1>9 DEF DraftOK

(* A draft gives one of its photos to a draft of its own. *)
LEMMA SplitDraftStep ==
    ASSUME CaptureSizes, CaptureInv, NEW d \in Draft, splitDraft(d)
    PROVE  CaptureInv'
  <1> DEFINE new == Min(Free(draft))
             only(i) == [draft[d] EXCEPT !.sources = [Unseen EXCEPT ![i] = draft[d].sources[i]],
                                         !.qty = draft[d].sources[i] * Count[i], !.locked = FALSE]
  <1>1. /\ session.open /\ Open(draft[d]) /\ Free(draft) # {}
        /\ UNCHANGED <<session, photo, reading, made, asked, highest>>
    BY DEF splitDraft
  <1>2. PICK c \in Draft : c = new /\ draft[c].status = "none"
    BY <1>1, FreeIsFree
  <1>3. PICK e : e = draft[d]
    OBVIOUS
  <1>4. /\ e \in DraftRow /\ Rests(e) /\ PhotosOnFile(e, photo)
        /\ e.status # "created" /\ c # d
    BY <1>1, <1>2, <1>3, DraftRows DEF Open
  <1>5. \E m, n : /\ DraftOK(m, session.rule, photo) /\ DraftOK(n, session.rule, photo)
                  /\ draft' = [draft EXCEPT ![d] = m, ![c] = n]
    <2>1. CASE /\ Cardinality(Seen(draft[d])) = 2
               /\ \E i \in Seen(draft[d]) : draft' = [draft EXCEPT ![d] = only(i),
                      ![new] = only(CHOOSE j \in Seen(draft[d]) : j # i)]
      <3>1. PICK i \in Seen(draft[d]) : draft' = [draft EXCEPT ![d] = only(i),
                                            ![new] = only(CHOOSE j \in Seen(draft[d]) : j # i)]
        BY <2>1
      <3>2. Seen(e) # {i}
        <4>1. Cardinality({i}) = 1
          BY FS_Singleton
        <4> QED
          BY <1>3, <2>1, <4>1
      <3>3. PICK j \in Seen(e) : j = CHOOSE k \in Seen(draft[d]) : k # i
        BY <1>3, <3>1, <3>2
      <3>4. PICK m, n : m = only(i) /\ n = only(j)
        OBVIOUS
      <3>5. draft' = [draft EXCEPT ![d] = m, ![c] = n]
        BY <1>2, <3>1, <3>3, <3>4
      <3>6. DraftOK(m, session.rule, photo)
        <4>1. i \in Seen(e) /\ m = [e EXCEPT !.sources = [Unseen EXCEPT ![i] = e.sources[i]],
                                     !.qty = e.sources[i] * Count[i], !.locked = FALSE]
          BY <1>3, <3>1, <3>4
        <4> HIDE DEF only
        <4> QED
          BY <1>4, <4>1, OnlyOK
      <3>7. DraftOK(n, session.rule, photo)
        <4>1. n = [e EXCEPT !.sources = [Unseen EXCEPT ![j] = e.sources[j]],
                                     !.qty = e.sources[j] * Count[j], !.locked = FALSE]
          BY <1>3, <3>4
        <4> HIDE DEF only
        <4> QED
          BY <1>4, <4>1, OnlyOK
      <3> HIDE DEF only, new
      <3> QED
        BY <3>5, <3>6, <3>7
    <2>2. CASE /\ draft[d].qty > 1
               /\ draft' = [draft EXCEPT ![d].qty = @ - 1, ![d].locked = TRUE,
                               ![new] = [draft[d] EXCEPT !.qty = 1, !.locked = TRUE, !.edited = TRUE]]
      <3>1. PICK q, one \in Nat \ {0} : q = e.qty - 1 /\ one = 1
        <4>1. e.qty \in Nat /\ e.qty > 1
          BY <1>3, <1>4, <2>2 DEF DraftRow
        <4>2. e.qty - 1 \in Nat \ {0} /\ 1 \in Nat \ {0}
          BY <4>1
        <4> QED
          BY <4>2
      <3>2. PICK m, n : /\ m = [e EXCEPT !.qty = q, !.locked = TRUE]
                        /\ n = [e EXCEPT !.qty = one, !.locked = TRUE, !.edited = TRUE]
        OBVIOUS
      <3>3. /\ m \in DraftRow /\ m.sources = e.sources /\ m.locked /\ m.manual = e.manual /\ m.edited = e.edited
            /\ n \in DraftRow /\ n.sources = e.sources /\ n.locked /\ n.edited
        BY ONLY q \in Nat \ {0}, one \in Nat \ {0}, <1>4, <3>2 DEF DraftRow
      <3>4. Seen(m) = Seen(e) /\ Seen(n) = Seen(e)
        BY <3>3 DEF Seen
      <3>5. DraftOK(m, session.rule, photo) /\ DraftOK(n, session.rule, photo)
        BY <1>4, <3>3, <3>4 DEF DraftOK, Rests, Counted, PhotosOnFile
      <3>6. draft' = [draft EXCEPT ![d] = m, ![c] = n]
        BY <1>2, <1>3, <1>4, <2>2, <3>1, <3>2 DEF CaptureInv, DraftsOK
      <3> HIDE DEF only, new
      <3> QED
        BY <3>5, <3>6
    <2> QED
      BY <2>1, <2>2 DEF splitDraft
  <1> HIDE DEF only, new
  <1>6. PICK m, n : /\ DraftOK(m, session.rule, photo) /\ DraftOK(n, session.rule, photo)
                    /\ draft' = [draft EXCEPT ![d] = m, ![c] = n]
    BY <1>5
  <1>7. PICK between : DraftSet(between, draft, d, m)
    BY DEF DraftSet
  <1>8. DraftSet(draft', between, c, n)
    BY <1>4, <1>6, <1>7 DEF DraftSet, CaptureInv, DraftsOK
  <1>9. DraftsOK(draft', session.rule, photo) /\ Kept(draft, draft')
    BY <1>2, <1>3, <1>4, <1>6, <1>7, <1>8, TwoReviewed
  <1> QED
    BY <1>1, <1>9, ReviewStep

(* Changing the cap leaves the drafts, and a change of the rule counts them again. *)
LEMMA UpdateSessionStep ==
    ASSUME CaptureSizes, CaptureInv, updateSession
    PROVE  CaptureInv'
  <1>1. UNCHANGED <<photo, reading, made, asked>>
    BY DEF updateSession
  <1>2. Photos' = Photos /\ Claimed' = Claimed
    BY <1>1 DEF Photos, There, Claimed
  <1>3. ASSUME NEW cap \in 1 .. MaxCap, session' = [session EXCEPT !.cap = cap],
               highest' = Max({highest, cap}), UNCHANGED draft
        PROVE  CaptureInv'
    <2>1. {highest, cap} \in SUBSET (1 .. MaxCap) /\ IsFiniteSet({highest, cap})
      <3>1. {highest, cap} = {highest} \cup {cap}
        OBVIOUS
      <3>2. IsFiniteSet({highest} \cup {cap})
        BY FS_Singleton, FS_Union
      <3> QED
        BY <3>1, <3>2 DEF CaptureInv, CaptureShape
    <2>2. highest' \in {highest, cap} /\ \A x \in {highest, cap} : highest' >= x
      <3>1. {highest, cap} \in SUBSET Int /\ {highest, cap} # {}
        BY <2>1
      <3> QED
        BY <1>3, <2>1, <3>1, MaxIsLargest
    <2>3. highest' \in 1 .. MaxCap /\ highest' >= highest /\ highest' >= cap
      BY <2>1, <2>2
    <2>4. /\ session' \in [open : BOOLEAN, cap : 1 .. MaxCap, calls : Nat, rule : {"max", "sum"}]
          /\ session'.calls = session.calls /\ session'.cap = cap
          /\ session'.rule = session.rule /\ session'.open = session.open
      BY <1>3 DEF CaptureInv, CaptureShape
    <2>5. CaptureShape'
      BY <1>1, <2>3, <2>4 DEF CaptureInv, CaptureShape
    <2>6. Spends'
      <3>1. session.calls <= highest' /\ cap <= highest' /\ Cardinality(Photos) <= highest'
        BY <2>1, <2>3, SpendNumbers
      <3> QED
        BY <1>1, <1>2, <2>4, <3>1 DEF CaptureInv, Spends
    <2>7. MadeOK'
      BY <1>1, <1>3, <2>4 DEF CaptureInv, MadeOK
    <2>8. DraftsOK(draft', session'.rule, photo')
      BY <1>1, <1>3, <2>4 DEF CaptureInv
    <2> QED
      BY <2>5, <2>6, <2>7, <2>8 DEF CaptureInv
  <1>4. ASSUME NEW rule \in {"max", "sum"}, session' = [session EXCEPT !.rule = rule], UNCHANGED highest,
               draft' = [d \in Draft |-> IF Open(draft[d]) THEN recount(draft[d], rule) ELSE draft[d]]
        PROVE  CaptureInv'
    <2>1. /\ session' \in [open : BOOLEAN, cap : 1 .. MaxCap, calls : Nat, rule : {"max", "sum"}]
          /\ session'.calls = session.calls /\ session'.cap = session.cap
          /\ session'.rule = rule /\ session'.open = session.open
      BY <1>4 DEF CaptureInv, CaptureShape
    <2>2. CaptureShape'
      BY <1>1, <1>4, <2>1 DEF CaptureInv, CaptureShape
    <2>3. Spends'
      BY <1>1, <1>2, <1>4, <2>1 DEF CaptureInv, Spends
    <2>4. ASSUME NEW d \in Draft
          PROVE  DraftOK(draft'[d], rule, photo) /\ draft'[d].status = draft[d].status
      <3>1. CASE ~Open(draft[d])
        <4>1. draft'[d] = draft[d]
          BY <1>4, <3>1
        <4> QED
          BY <3>1, <4>1, DraftRows DEF DraftOK
      <3>2. CASE Open(draft[d])
        <4>1. PICK e : e = draft[d] /\ e \in DraftRow /\ Rests(e) /\ PhotosOnFile(e, photo)
          BY <3>2, DraftRows
        <4>2. PICK n : n = recount(e, rule)
          OBVIOUS
        <4>3. /\ n \in DraftRow
              /\ Seen(n) = Seen(e) /\ n.status = e.status /\ n.locked = e.locked
              /\ n.edited = e.edited /\ n.manual = e.manual
              /\ Counted(n, rule)
          BY <4>1, <4>2, RecountKeeps
        <4>4. Rests(n) /\ PhotosOnFile(n, photo)
          BY <4>1, <4>3 DEF Rests, PhotosOnFile
        <4>5. draft'[d] = n
          BY <1>4, <3>2, <4>1, <4>2
        <4> QED
          BY <4>1, <4>3, <4>4, <4>5 DEF DraftOK
      <3> QED
        BY <3>1, <3>2
    <2>5. DraftsOK(draft', rule, photo)
      <3>1. \A d \in Draft : draft'[d] \in {NoDraft} \cup DraftRow
        BY <2>4 DEF DraftOK
      <3>2. draft' = [d \in Draft |-> draft'[d]]
        BY <1>4
      <3>3. draft' \in [Draft -> {NoDraft} \cup DraftRow]
        BY ONLY <3>1, <3>2
      <3> QED
        BY <2>4, <3>3 DEF DraftsOK
    <2>6. MadeOK'
      BY <1>1, <2>1, <2>4 DEF CaptureInv, MadeOK
    <2> QED
      BY <1>1, <2>1, <2>2, <2>3, <2>5, <2>6 DEF CaptureInv
  <1> QED
    BY <1>3, <1>4 DEF updateSession

(* Committing makes items of the drafts chosen, and closes the session when none is left. *)
LEMMA CommitStep ==
    ASSUME CaptureSizes, CaptureInv, commitSession
    PROVE  CaptureInv'
  <1>1. PICK chosen \in SUBSET {d \in Draft : draft[d].status = "pending"} :
            /\ draft' = [d \in Draft |-> IF d \in chosen THEN Created(draft[d]) ELSE draft[d]]
            /\ made' = [d \in Draft |-> IF d \in chosen THEN made[d] + 1 ELSE made[d]]
            /\ session' = [session EXCEPT !.open = \E d \in Draft : draft'[d].status = "pending"]
    BY DEF commitSession
  <1>2. UNCHANGED <<photo, reading, asked, highest>>
    BY DEF commitSession
  <1>3. PICK open \in BOOLEAN : open = \E d \in Draft : draft'[d].status = "pending"
    OBVIOUS
  <1>4. /\ session' \in [open : BOOLEAN, cap : 1 .. MaxCap, calls : Nat, rule : {"max", "sum"}]
        /\ session'.calls = session.calls /\ session'.cap = session.cap
        /\ session'.rule = session.rule /\ session'.open = open
    <2>1. session' = [session EXCEPT !.open = open]
      BY <1>1, <1>3
    <2> QED
      BY <2>1 DEF CaptureInv, CaptureShape
  <1>5. CaptureShape'
    BY <1>2, <1>4 DEF CaptureInv, CaptureShape
  <1>6. Photos' = Photos /\ Claimed' = Claimed
    BY <1>2 DEF Photos, There, Claimed
  <1>7. Spends'
    BY <1>2, <1>4, <1>6 DEF CaptureInv, Spends
  <1>8. ASSUME NEW d \in Draft
        PROVE  /\ DraftOK(draft'[d], session.rule, photo)
               /\ d \in chosen => draft'[d].status = "created" /\ draft[d].status = "pending"
               /\ d \notin chosen => draft'[d] = draft[d]
    <2>1. CASE d \notin chosen
      BY <1>1, <2>1, DraftRows
    <2>2. CASE d \in chosen
      <3>1. PICK e : e = draft[d] /\ e \in DraftRow /\ Rests(e) /\ e.status = "pending"
        BY <2>2, DraftRows
      <3>2. PICK n : n = [e EXCEPT !.status = "created"]
        OBVIOUS
      <3>3. /\ n \in DraftRow /\ n.status = "created" /\ n.sources = e.sources
            /\ n.locked = e.locked /\ n.edited = e.edited /\ n.manual = e.manual
        BY ONLY <3>1, <3>2 DEF DraftRow
      <3>4. Rests(n) /\ ~Open(n)
        BY <3>1, <3>3 DEF Rests, Seen, Open
      <3>5. draft'[d] = n
        BY <1>1, <2>2, <3>1, <3>2 DEF Created
      <3> QED
        BY <2>2, <3>1, <3>3, <3>4, <3>5 DEF DraftOK
    <2> QED
      BY <2>1, <2>2
  <1>9. DraftsOK(draft', session.rule, photo)
    <2>1. \A d \in Draft : draft'[d] \in {NoDraft} \cup DraftRow
      BY <1>8 DEF DraftOK
    <2>2. draft' = [d \in Draft |-> draft'[d]]
      BY <1>1
    <2>3. draft' \in [Draft -> {NoDraft} \cup DraftRow]
      BY ONLY <2>1, <2>2
    <2> QED
      BY <1>8, <2>3 DEF DraftsOK
  <1>10. MadeOK'
    <2>1. \A d \in Draft : made'[d] = IF d \in chosen THEN made[d] + 1 ELSE made[d]
      BY <1>1
    <2>2. \A d \in chosen : made[d] = 0
      BY <1>8 DEF CaptureInv, MadeOK
    <2>3. \A d \in Draft : made'[d] \in {0, 1} /\ (made'[d] = 1 => draft'[d].status = "created")
      BY <1>8, <2>1, <2>2 DEF CaptureInv, MadeOK
    <2>4. made' = [d \in Draft |-> made'[d]]
      BY <1>1
    <2>5. made' \in [Draft -> {0, 1}]
      BY <2>3, <2>4
    <2> QED
      BY <1>3, <1>4, <2>3, <2>5 DEF MadeOK
  <1> QED
    BY <1>2, <1>4, <1>5, <1>7, <1>9, <1>10 DEF CaptureInv

-----------------------------------------------------------------------------
(* The invariant holds at first, and no step breaks it. *)
LEMMA CaptureStarts == CaptureSizes /\ CaptureInit => CaptureInv
  <1> SUFFICES ASSUME CaptureSizes, CaptureInit PROVE CaptureInv
    OBVIOUS
  <1>1. CaptureShape
    BY CaptureAssumption DEF CaptureInit, CaptureShape, PhotoRow, ReadingRow
  <1>2. Photos = {} /\ Claimed = {}
    BY DEF CaptureInit, Photos, There, Claimed, NotReading
  <1>3. Cardinality(Photos) = 0 /\ Cardinality(Claimed) = 0
    BY <1>2, FS_EmptySet
  <1>4. Spends
    BY <1>3, CaptureAssumption DEF CaptureInit, Spends
  <1>5. DraftsOK(draft, session.rule, photo)
    BY DEF CaptureInit, DraftsOK, DraftOK
  <1>6. MadeOK
    BY DEF CaptureInit, MadeOK
  <1> QED
    BY <1>1, <1>4, <1>5, <1>6 DEF CaptureInv

LEMMA CaptureStep == CaptureSizes /\ CaptureInv /\ [CaptureNext]_captureVars => CaptureInv'
  <1> SUFFICES ASSUME CaptureSizes, CaptureInv, [CaptureNext]_captureVars PROVE CaptureInv'
    OBVIOUS
  <1>1. CASE UNCHANGED captureVars
    <2>1. CaptureShape'
      BY <1>1 DEF captureVars, CaptureInv, CaptureShape
    <2>2. Photos' = Photos /\ Claimed' = Claimed
      BY <1>1 DEF captureVars, Photos, There, Claimed
    <2>3. Spends'
      BY <1>1, <2>2 DEF captureVars, CaptureInv, Spends
    <2>4. MadeOK'
      BY <1>1 DEF captureVars, CaptureInv, MadeOK
    <2> QED
      BY <1>1, <2>1, <2>3, <2>4 DEF captureVars, CaptureInv
  <1>2. ASSUME NEW i \in Photo,
               addSource(i) \/ updateSource(i) \/ removeSource(i) \/ retrySource(i) \/ ClaimGoesStale(i)
        PROVE  CaptureInv'
    BY <1>2, AddSourceStep, UpdateSourceStep, RemoveSourceStep, PhotoStep
  <1>3. ASSUME NEW r \in Reader, ClaimPhoto(r) \/ readSource(r) \/ StoreReading(r) \/ RequestDies(r)
        PROVE  CaptureInv'
    BY <1>3, ClaimPhotoStep, ReadSourceStep, StoreReadingStep
  <1>4. CASE updateSession \/ addDraft \/ commitSession
    BY <1>4, UpdateSessionStep, AddDraftStep, CommitStep
  <1>5. ASSUME NEW d \in Draft, updateDraft(d) \/ splitDraft(d) \/ (\E other \in Draft : mergeDrafts(d, other))
        PROVE  CaptureInv'
    BY <1>5, UpdateDraftStep, SplitDraftStep, MergeDraftsStep
  <1> QED
    BY <1>1, <1>2, <1>3, <1>4, <1>5 DEF CaptureNext

(* However requests, people and crashed readers interleave: drafts rest on photos that
   are there or on what somebody typed, every call was counted when it was claimed, and
   what became items did once. *)
THEOREM CaptureInvariant ==
    ASSUME IsFiniteSet(Photo), IsFiniteSet(Reader)
    PROVE  CaptureSpec => []CaptureInv
  <1>1. CaptureSizes
    BY DEF CaptureSizes
  <1> QED
    BY <1>1, CaptureStarts, CaptureStep, PTL DEF CaptureSpec

(* The cap holds for calls and photos, counts nobody typed add up, no draft rests on a
   removed photo, and a draft is created once: ReviewSound, for any finite number of
   photos and of requests that read them (bulk-capture/sessions.ts). *)
THEOREM ReviewIsSound ==
    ASSUME IsFiniteSet(Photo), IsFiniteSet(Reader)
    PROVE  CaptureSpec => []ReviewSound
  <1>1. CaptureSizes
    BY DEF CaptureSizes
  <1>2. CaptureInv => ReviewSound
    <2> SUFFICES ASSUME CaptureInv PROVE ReviewSound
      OBVIOUS
    <2>1. CaptureTypeOK
      <3>1. \A d \in Draft : draft[d] # NoDraft => draft[d] \in DraftRow /\ Rests(draft[d])
        BY DEF CaptureInv, DraftsOK, DraftOK
      <3>2. session.open \in BOOLEAN /\ session.cap \in 1 .. MaxCap /\ session.rule \in {"max", "sum"}
        BY DEF CaptureInv, CaptureShape
      <3> QED
        BY <3>1, <3>2 DEF CaptureTypeOK, DraftRow, Rests
    <2>2. CapHolds
      <3>1. asked <= highest
        BY <1>1, SpendNumbers
      <3> QED
        BY <1>1, <3>1, SpendNumbers DEF CapHolds
    <2>3. CountsAddUp
      BY DraftRows DEF CountsAddUp, Counted
    <2>4. NoGhosts
      BY DraftRows DEF NoGhosts, PhotosOnFile
    <2>5. CreatedOnce
      BY DEF CaptureInv, MadeOK, CreatedOnce
    <2> QED
      BY <2>1, <2>2, <2>3, <2>4, <2>5 DEF ReviewSound
  <1> QED
    BY <1>2, CaptureInvariant, PTL

(* A reading that comes late leaves what people did: it drops no draft somebody edited,
   changes no count somebody typed, and brings back none that was discarded. *)
THEOREM EditsAlwaysStand ==
    ASSUME IsFiniteSet(Photo), IsFiniteSet(Reader)
    PROVE  CaptureSpec => EditsStand
  <1> DEFINE Stand == \A r \in Reader, d \in Draft :
          reading[r].step = "read" /\ reading'[r] # reading[r] /\ Open(draft[d]) =>
             /\ draft[d].edited => draft'[d] # NoDraft
             /\ draft[d].edited /\ draft[d].locked => draft'[d].qty = draft[d].qty
             /\ draft[d].status = "discarded" => draft'[d].status # "pending"
  <1>1. CaptureSizes
    BY DEF CaptureSizes
  <1>2. CaptureInv /\ [CaptureNext]_captureVars => [Stand]_captureVars
    <2> SUFFICES ASSUME CaptureInv, CaptureNext, NEW r \in Reader, NEW d \in Draft,
                        reading[r].step = "read", reading'[r] # reading[r], Open(draft[d])
                 PROVE  /\ draft[d].edited => draft'[d] # NoDraft
                        /\ draft[d].edited /\ draft[d].locked => draft'[d].qty = draft[d].qty
                        /\ draft[d].status = "discarded" => draft'[d].status # "pending"
      OBVIOUS
    <2>1. draft[d].status # "none"
      BY DEF Open
    <2>2. CASE draft' = draft
      BY <2>1, <2>2 DEF NoDraft
    <2>3. CASE draft' # draft
      <3>1. PICK q \in Reader : StoreReading(q)
        <4>1. reading' # reading
          OBVIOUS
        <4> QED
          BY <2>3, <4>1 DEF CaptureNext, addSource, updateSource, removeSource, retrySource, ClaimGoesStale,
             ClaimPhoto, readSource, RequestDies, updateSession, addDraft, commitSession, updateDraft,
             splitDraft, mergeDrafts
      <3>2. Stands(draft[d], draft'[d])
        BY <1>1, <2>3, <3>1, StoreReadingStep
      <3> QED
        BY <2>1, <3>2 DEF Stands, NoDraft
    <2> QED
      BY <2>2, <2>3
  <1> QED
    BY <1>2, CaptureInvariant, PTL DEF CaptureSpec, EditsStand

-----------------------------------------------------------------------------
(* The plan of a queue: offline/plan.ts.  FoldLeft is a function by recursion over sets of
   places; it is there for every queue, and goes through the changes one after the other. *)

(* What the fold of a plan has come to after some of its changes. *)
PlanStart == [world |-> world, blocked |-> {}, plan |-> <<>>]

(* g is the fold of PlanOne over seq, on the sets of places in T. *)
IsPlanFold(g, T, seq) ==
    g = [s \in T |-> IF s = {} THEN PlanStart ELSE PlanOne(g[s \ {Max(s)}], seq[Max(s)])]
PlanFold(seq) == CHOOSE g : IsPlanFold(g, SUBSET DOMAIN seq, seq)
Planned(seq, k) == PlanFold(seq)[1 .. k]

(* There is one for every queue. *)
LEMMA PlanFoldExists ==
    ASSUME NEW S, IsFiniteSet(S), S \subseteq Nat, NEW seq
    PROVE  \E g : IsPlanFold(g, SUBSET S, seq)
  <1>0. \A s \in SUBSET S :
          /\ Cardinality(s) \in Nat /\ Cardinality(s) <= Cardinality(S)
          /\ Cardinality(s) = 0 <=> s = {}
          /\ \A x \in s : s \ {x} \in SUBSET S /\ Cardinality(s \ {x}) = Cardinality(s) - 1
    BY ONLY IsFiniteSet(S), Smaller
  <1> DEFINE Bad == {n \in Nat : ~\E g : IsPlanFold(g, Small(S, n), seq)}
  <1>1. Bad = {}
    <2> SUFFICES ASSUME Bad # {} PROVE FALSE
      OBVIOUS
    <2>1. PICK n \in Bad : \A m \in Bad : n <= m
      BY LeastNumber
    <2>2. n \in Nat /\ ~\E g : IsPlanFold(g, Small(S, n), seq)
      OBVIOUS
    <2>3. n # 0
      <3> SUFFICES ASSUME n = 0 PROVE FALSE
        OBVIOUS
      <3>1. Small(S, 0) = {{}}
        <4>1. \A s \in SUBSET S : Cardinality(s) <= 0 <=> s = {}
          BY <1>0
        <4> QED
          BY <4>1 DEF Small
      <3>2. IsPlanFold([s \in {{}} |-> PlanStart], Small(S, 0), seq)
        BY <3>1 DEF IsPlanFold
      <3> QED
        BY <2>2, <3>2
    <2>4. PICK g : IsPlanFold(g, Small(S, n - 1), seq)
      <3>1. n - 1 \in Nat /\ ~(n <= n - 1)
        BY <2>2, <2>3
      <3>2. n - 1 \notin Bad
        BY <2>1, <3>1
      <3> QED
        BY <3>1, <3>2
    <2> DEFINE h == [s \in Small(S, n) |-> IF s = {} THEN PlanStart ELSE PlanOne(g[s \ {Max(s)}], seq[Max(s)])]
    <2>5. ASSUME NEW s \in Small(S, n), s # {}
          PROVE  s \ {Max(s)} \in Small(S, n - 1)
      <3>1. s \in SUBSET S /\ Cardinality(s) <= n
        BY DEF Small
      <3>2. PICK m \in s : m = Max(s)
        BY ONLY IsFiniteSet(S), S \subseteq Nat, <2>5, <3>1, MaxIsIn
      <3>3. s \ {m} \in SUBSET S /\ Cardinality(s \ {m}) = Cardinality(s) - 1
        BY <3>1, <3>2, <1>0
      <3>4. Cardinality(s \ {m}) <= n - 1
        <4>1. Cardinality(s) \in Nat
          BY <3>1, <1>0
        <4> QED
          BY <2>2, <3>1, <3>3, <4>1
      <3> HIDE DEF h, Bad
      <3> QED
        BY <3>2, <3>3, <3>4 DEF Small
    <2>6. ASSUME NEW t \in Small(S, n - 1)
          PROVE  h[t] = g[t]
      <3>1. t \in Small(S, n)
        BY <2>2, <1>0 DEF Small
      <3>2. g[t] = IF t = {} THEN PlanStart ELSE PlanOne(g[t \ {Max(t)}], seq[Max(t)])
        BY <2>4 DEF IsPlanFold
      <3> QED
        BY <3>1, <3>2
    <2>7. h = [s \in Small(S, n) |-> IF s = {} THEN PlanStart ELSE PlanOne(h[s \ {Max(s)}], seq[Max(s)])]
      <3>1. \A s \in Small(S, n) : (IF s = {} THEN PlanStart ELSE PlanOne(g[s \ {Max(s)}], seq[Max(s)]))
                                   = (IF s = {} THEN PlanStart ELSE PlanOne(h[s \ {Max(s)}], seq[Max(s)]))
        <4>1. ASSUME NEW s \in Small(S, n), s # {}
              PROVE  h[s \ {Max(s)}] = g[s \ {Max(s)}]
          BY <2>5, <2>6, <4>1
        <4> HIDE DEF h
        <4> QED
          BY <4>1
      <3> QED
        BY <3>1
    <2> QED
      BY <2>2, <2>7 DEF IsPlanFold
  <1>2. Small(S, Cardinality(S)) = SUBSET S
    BY <1>0 DEF Small
  <1>3. Cardinality(S) \in Nat
    BY FS_CardinalityType
  <1>4. \E g : IsPlanFold(g, Small(S, Cardinality(S)), seq)
    BY <1>1, <1>3
  <1> QED
    BY <1>2, <1>4

(* A plan goes over the changes listed one by one. *)
LEMMA PlannedIs ==
    ASSUME NEW n \in Nat, NEW seq, DOMAIN seq = 1 .. n
    PROVE  /\ Planned(seq, 0) = PlanStart
           /\ \A k \in 1 .. n : Planned(seq, k) = PlanOne(Planned(seq, k - 1), seq[k])
           /\ planSync(seq) = Planned(seq, n).plan
  <1>1. IsFiniteSet(DOMAIN seq) /\ DOMAIN seq \subseteq Nat
    BY FS_Interval
  <1>2. IsPlanFold(PlanFold(seq), SUBSET DOMAIN seq, seq)
    <2>1. PICK g : IsPlanFold(g, SUBSET DOMAIN seq, seq)
      <3>1. PICK S : S = DOMAIN seq
        OBVIOUS
      <3>2. \E g : IsPlanFold(g, SUBSET S, seq)
        BY <1>1, <3>1, PlanFoldExists
      <3> QED
        BY <3>1, <3>2
    <2> QED
      BY <2>1 DEF PlanFold
  <1>3. PICK g : g = PlanFold(seq)
    OBVIOUS
  <1>4. \A s \in SUBSET (1 .. n) : g[s] = IF s = {} THEN PlanStart ELSE PlanOne(g[s \ {Max(s)}], seq[Max(s)])
    BY <1>2, <1>3 DEF IsPlanFold
  <1>5. g[1 .. 0] = PlanStart
    <2>1. 1 .. 0 = {}
      OBVIOUS
    <2> QED
      BY <1>4, <2>1
  <1>6. ASSUME NEW k \in 1 .. n
        PROVE  g[1 .. k] = PlanOne(g[1 .. k - 1], seq[k])
    <2>1. PICK s : s = 1 .. k
      OBVIOUS
    <2>2. s \in SUBSET (1 .. n) /\ s # {} /\ s \in SUBSET Int /\ IsFiniteSet(s)
      <3>1. s \in SUBSET (1 .. n)
        BY <2>1
      <3>2. k \in s /\ s \in SUBSET Int
        BY <2>1
      <3>3. IsFiniteSet(s)
        BY <2>1, FS_Interval
      <3> QED
        BY <3>1, <3>2, <3>3
    <2>3. Max(s) \in s /\ \A x \in s : Max(s) >= x
      BY ONLY <2>2, MaxIsLargest
    <2>4. PICK m \in s : m = Max(s) /\ \A x \in s : m >= x
      BY <2>3
    <2>5. m = k
      BY <2>1, <2>4
    <2>6. s \ {k} = 1 .. k - 1
      BY <2>1
    <2> QED
      BY <1>4, <2>1, <2>2, <2>4, <2>5, <2>6
  <1>7. planSync(seq) = PlanFold(seq)[DOMAIN seq].plan
    BY DEF planSync, FoldLeft, MapThenFoldSet, PlanFold, IsPlanFold, PlanStart
  <1> QED
    BY <1>3, <1>5, <1>6, <1>7 DEF Planned

(* A change as the queue, a screen or a run has it, and the server's records. *)
Value == Place \cup Holder \cup {Nowhere, Nobody, Unknown}
Version == [status : Waiting \cup {"none", "trying", "gone"}, kind : Kind \cup {"note"},
            items : SUBSET Item, to : Value, base : Value, seq : 0 .. MaxChange, key : Nat,
            force : BOOLEAN, attempts : 0 .. MaxAttempts, keepable : BOOLEAN,
            missing : SUBSET Item]

(* What a run has listed, and what it is to do about each. *)
Entries == [n : Change, q : Version]
Verdicts == [n : Change, q : Version, verdict : {"send", "skip", "conflict"}, keepable : BOOLEAN,
             missing : SUBSET Item]

(* A record of the server. *)
Server == [there : BOOLEAN, place : Values.move, holder : Values.hold]

(* Only a check names several records, and only it gets another key. *)
Proper(q) ==
    /\ q.kind # "check" => q.key = 1 /\ q.missing = {} /\ \E i \in Item : q.items = {i}
    /\ q.kind \in {"move", "hold"} => q.to \in Targets[q.kind]
    /\ q.status = "pending" => q.attempts < MaxAttempts

(* Versions of one change differ in what a run or a person makes of it. *)
Same(q, e) ==
    /\ q.kind = e.kind /\ q.seq = e.seq /\ q.to = e.to /\ q.base = e.base
    /\ q.kind # "check" => q.items = e.items

(* It waits, or has waited. *)
Queued(e) == e.status \notin {"none", "trying"}

(* q is a version of the change that is e in the queue. *)
VersionOf(q, e) == q \in Version /\ Proper(q) /\ Queued(e) /\ q.seq > 0 /\ Same(q, e)

(* What the queue has of a change, before it waits, while it does, and after. *)
EntryOK(e) ==
    /\ e \in Version
    /\ IF e.status # "none" THEN Proper(e) ELSE e = NoEntry
    /\ e.status \in Waiting => e.seq > 0
    /\ e.status = "trying" => e.seq = 0 /\ e.attempts = 0

(* What the second tab shows, if anything, is a version of the change. *)
ScreenOK(s, e) == s = NoEntry \/ (s.status \in Attention /\ VersionOf(s, e))

(* A list is about changes in the queue, as they were when it was read. *)
ListOK(todo, en) ==
    /\ todo \in Seq(Entries) /\ todo # <<>> /\ Len(todo) <= PlanMax
    /\ \A i \in 1 .. Len(todo) : VersionOf(todo[i].q, en[todo[i].n])

(* So is a plan, and only what is pending is in it. *)
TodoOK(todo, en) ==
    /\ todo \in Seq(Verdicts) /\ Len(todo) <= PlanMax
    /\ \A i \in 1 .. Len(todo) : /\ VersionOf(todo[i].q, en[todo[i].n])
                                 /\ todo[i].q.status = "pending"
                                 /\ todo[i].missing # {} => todo[i].q.kind = "check"

(* A run. *)
RunOK(r, en) ==
    \/ r = NoRun
    \/ r.phase = "plan" /\ r.stalled = {} /\ ListOK(r.todo, en)
    \/ r.phase = "send" /\ r.stalled \in SUBSET Item /\ TodoOK(r.todo, en) /\ r.todo # <<>>

(* The places in the queue are given out one after the other. *)
Placed(en) == {m \in Change : en[m].seq > 0}
InTurn(en) ==
    /\ \A n \in Change : en[n].seq <= Cardinality(Placed(en))
    /\ \A m, n \in Change : en[m].seq > 0 /\ en[m].seq = en[n].seq => m = n

(* What the keys tell of the times a change was made. *)
KeysTell(n, e, done, keys, how) ==
    /\ done \in Nat
    /\ \A k \in Nat : <<n, k>> \in keys => done > 0
    /\ done > 0 => e.status # "none"
    /\ done > 0 /\ e.kind # "check" => done = 1 /\ <<n, 1>> \in keys
    /\ how = "sent" => done > 0

(* The types the rest goes by. *)
SyncShape ==
    /\ DOMAIN entry = Change /\ DOMAIN screen = Change /\ DOMAIN run = Tab
    /\ inflight \subseteq Change
    /\ world \in [Item -> Server] /\ known \subseteq Place \cup Holder
    /\ stored \subseteq Change \X Nat /\ IsFiniteSet(stored)
    /\ DOMAIN applied = Change
    /\ outcome \in [Change -> {"none", "sent", "refused", "skipped", "discarded"}]

(* The queue, the screens, the runs and the keys agree about each change. *)
SyncInv ==
    /\ SyncShape
    /\ \A n \in Change : EntryOK(entry[n])
    /\ \A n \in inflight : entry[n].status # "none"
    /\ \A n \in Change : ScreenOK(screen[n], entry[n])
    /\ \A t \in Tab : RunOK(run[t], entry)
    /\ InTurn(entry)
    /\ \A n \in Change : KeysTell(n, entry[n], applied[n], stored, outcome[n])

-----------------------------------------------------------------------------
(* While the tabs lock and one person decides in one. *)

(* They are about a record both. *)
Shares(q, p) == subjectsOf(q) \cap subjectsOf(p) # {}

(* A turn lays its target into the field that q is about. *)
Lays(e, q) == e.verdict # "conflict" /\ e.q.kind = q.kind /\ e.q.items = q.items

(* What q finds there after the first k - 1 turns, as planned. *)
Finds(todo, k, q, w, v) ==
    \/ \E i \in 1 .. k - 1 : /\ Lays(todo[i], q) /\ v = todo[i].q.to
                             /\ \A j \in i + 1 .. k - 1 : ~Lays(todo[j], q)
    \/ /\ \A j \in 1 .. k - 1 : ~Lays(todo[j], q)
       /\ v = w[Record(q)][Field(q)]

(* The verdict is right about a change that finds v. *)
Right(e, v) ==
    /\ e.verdict = "skip" => e.q.kind = "hold" /\ v = e.q.to
    /\ e.verdict = "send" => e.q.force \/ v = e.q.base \/ (e.q.kind = "move" /\ v = e.q.to)

(* A run has them in the order of the queue. *)
InOrder(todo) == \A i, j \in 1 .. Len(todo) : i < j => todo[i].q.seq < todo[j].q.seq

(* The list still has what is pending as it is, and all that waits before it. *)
AsListed(todo, en) ==
    /\ \A i \in 1 .. Len(todo) : todo[i].q.status = "pending" => en[todo[i].n] = todo[i].q
    /\ \A i \in 1 .. Len(todo), m \in Change :
          en[m].status \in Waiting /\ en[m].seq < todo[i].q.seq => \E j \in 1 .. i - 1 : todo[j].n = m

(* What is planned about the record of a conflict is planned before it. *)
ConflictsBlock(todo) ==
    \A i, j \in 1 .. Len(todo) : i < j /\ todo[i].verdict = "conflict"
                                 => ~Shares(todo[i].q, todo[j].q)

(* What waits before a turn, about its record, has its turn before it or holds it up. *)
NoneBefore(todo, stalled, en) ==
    \A i \in 1 .. Len(todo), m \in Change :
       /\ en[m].status \in Waiting
       /\ en[m].seq < todo[i].q.seq /\ Shares(en[m], todo[i].q)
       => (\E j \in 1 .. i - 1 : todo[j].n = m) \/ subjectsOf(todo[i].q) \cap stalled # {}

(* The verdicts are right about what their changes will find, but for records set aside. *)
AsPlanned(todo, aside, w) ==
    \A i \in 1 .. Len(todo) :
       todo[i].q.kind \in {"move", "hold"} /\ todo[i].q.items \cap aside = {}
          => \A v : Finds(todo, i, todo[i].q, w, v) => Right(todo[i], v)

(* Only a hand-over is found done. *)
SkipsHolds(todo) == \A i \in 1 .. Len(todo) : todo[i].verdict = "skip" => todo[i].q.kind = "hold"

(* The turns that a run has left are right about the queue and the records. *)
TurnsRight(todo, stalled, en, w, wrong) ==
    /\ \A i \in 1 .. Len(todo) : en[todo[i].n] = todo[i].q
    /\ ConflictsBlock(todo)
    /\ SkipsHolds(todo)
    /\ NoneBefore(todo, stalled, en)
    /\ AsPlanned(todo, wrong \cup stalled, w)

(* One tab runs at a time. *)
OneSyncs == \A t, u \in Tab : run[t].phase # "idle" /\ run[u].phase # "idle" => t = u

(* The runs keep to the order of the queue, and know what they will find. *)
OrderInv ==
    Orderly =>
      /\ \A n \in Change : screen[n] = NoEntry
      /\ OneSyncs
      /\ \A t \in Tab :
           /\ InOrder(run[t].todo)
           /\ run[t].phase = "plan" => AsListed(run[t].todo, entry)
           /\ run[t].phase = "send" => TurnsRight(run[t].todo, run[t].stalled, entry, world, off)

(* Nothing in a queue yet. *)
LEMMA NoEntryIs ==
    /\ NoEntry \in Version /\ NoEntry.status = "none" /\ NoEntry.seq = 0 /\ NoEntry.attempts = 0
    /\ NoEntry.key = 1 /\ NoEntry.missing = {} /\ NoEntry.kind = "note" /\ NoEntry.items = {}
  <1>1. 0 \in 0 .. MaxChange /\ 0 \in 0 .. MaxAttempts
    BY BoundsAssumption
  <1> QED
    BY <1>1 DEF NoEntry, Version, Value, Waiting, Attention

(* The changes are few. *)
LEMMA ChangesFew == IsFiniteSet(Change) /\ Change \subseteq Nat /\ Cardinality(Change) = MaxChange
  <1>1. 1 \in Int /\ MaxChange \in Int /\ 1 <= MaxChange /\ MaxChange - 1 + 1 = MaxChange
    BY BoundsAssumption
  <1>2. IsFiniteSet(1 .. MaxChange) /\ Cardinality(1 .. MaxChange) = MaxChange
    BY <1>1, FS_Interval
  <1> QED
    BY <1>1, <1>2 DEF Change

(* What only its status changes in. *)
LEMMA OfStatus ==
    ASSUME NEW q \in Version, NEW how \in Waiting \cup {"none", "trying", "gone"}, NEW v,
           v = [q EXCEPT !.status = how]
    PROVE  /\ v \in Version /\ v.status = how /\ v.kind = q.kind /\ v.items = q.items /\ v.to = q.to
           /\ v.base = q.base /\ v.seq = q.seq /\ v.key = q.key /\ v.force = q.force
           /\ v.attempts = q.attempts /\ v.missing = q.missing /\ Same(v, q)
  BY DEF Version, Same

(* The next place in the queue is above all others, and there is one for everything. *)
LEMMA NextSeqIs ==
    ASSUME \A n \in Change : entry[n] \in Version
    PROVE  /\ NextSeq \in Nat \ {0}
           /\ \A n \in Change : entry[n].seq < NextSeq
           /\ NextSeq = 1 \/ \E n \in Change : NextSeq = entry[n].seq + 1
  <1> DEFINE f == [n \in Change |-> entry[n].seq]
  <1>1. \A n \in Change : f[n] \in Nat /\ f[n] = entry[n].seq
    BY DEF Version
  <1>2. PICK T : T = {f[n] : n \in Change}
    OBVIOUS
  <1>3. PICK S : S = {0} \cup {entry[n].seq : n \in Change}
    OBVIOUS
  <1>4. S = T \cup {0}
    BY <1>1, <1>2, <1>3
  <1>5. IsFiniteSet(T) /\ T \subseteq Nat
    <2>1. IsFiniteSet({f[n] : n \in Change})
      BY ONLY ChangesFew, ImageIsFinite
    <2> QED
      BY <1>1, <1>2, <2>1
  <1>6. IsFiniteSet(S)
    BY ONLY <1>4, <1>5, FS_AddElement
  <1>7. S \in SUBSET Int /\ S # {} /\ S \subseteq Nat /\ 0 \in S
    BY <1>4, <1>5
  <1>8. Max(S) \in S /\ \A x \in S : Max(S) >= x
    BY ONLY <1>6, <1>7, MaxIsLargest
  <1>9. PICK m \in S : m = Max(S) /\ \A x \in S : m >= x
    BY <1>8
  <1>10. NextSeq = m + 1 /\ m \in Nat
    BY <1>3, <1>7, <1>9 DEF NextSeq
  <1>11. m = 0 \/ \E n \in Change : m = entry[n].seq
    BY <1>3, <1>9
  <1>12. \A n \in Change : m >= entry[n].seq /\ entry[n].seq \in Nat
    <2>1. \A n \in Change : entry[n].seq \in S
      BY <1>3
    <2> QED
      BY <1>1, <1>9, <2>1
  <1> HIDE DEF f
  <1> QED
    BY <1>10, <1>11, <1>12

(* What a change takes for its base. *)
LEMMA BelievedIs ==
    ASSUME \A n \in Change : entry[n] \in Version, NEW q, q.kind \in Kind \cup {"note"}, NEW base \in Believed(q)
    PROVE  base \in Value
  <1> DEFINE earlier == {m \in Queue : entry[m].kind = q.kind /\ entry[m].items = q.items}
  <1> DEFINE last == CHOOSE m \in earlier : \A k \in earlier : entry[k].seq <= entry[m].seq
  <1>1. ASSUME earlier # {}
        PROVE  last \in Change
    <2>1. PICK E : E = earlier
      OBVIOUS
    <2>2. E \subseteq Change /\ E # {}
      BY <1>1, <2>1 DEF Queue
    <2> DEFINE f == [n \in E |-> entry[n].seq]
    <2>3. IsFiniteSet(E)
      BY ONLY <2>2, ChangesFew, FS_Subset
    <2>4. PICK T : T = {f[n] : n \in E}
      OBVIOUS
    <2>5. IsFiniteSet(T)
      BY ONLY <2>3, <2>4, ImageIsFinite
    <2>6. \A n \in E : f[n] \in Nat /\ f[n] = entry[n].seq
      BY <2>2 DEF Version
    <2>7. T \in SUBSET Int /\ T # {}
      BY <2>2, <2>4, <2>6
    <2>8. Max(T) \in T /\ \A x \in T : Max(T) >= x
      BY ONLY <2>5, <2>7, MaxIsLargest
    <2>9. PICK m \in E : f[m] = Max(T)
      BY <2>4, <2>8
    <2>10. \A k \in E : f[m] >= f[k]
      BY <2>4, <2>8, <2>9
    <2>11. \A k \in E : entry[k].seq <= entry[m].seq
      BY <2>6, <2>10
    <2>12. last \in E
      BY <2>1, <2>11
    <2> QED
      BY <2>2, <2>12
  <1>2. CASE q.kind \in {"note", "check"}
    BY <1>2 DEF Believed, Value
  <1>3. CASE q.kind \notin {"note", "check"} /\ earlier # {} /\ entry[last].status = "pending"
    <2>1. base = entry[last].to
      BY <1>3 DEF Believed
    <2>2. entry[last] \in Version
      BY <1>1, <1>3
    <2> QED
      BY <2>1, <2>2 DEF Version
  <1>4. CASE q.kind \notin {"note", "check"} /\ ~(earlier # {} /\ entry[last].status = "pending")
    <2>1. base \in Values[q.kind]
      BY <1>4 DEF Believed
    <2>2. q.kind = "move" \/ q.kind = "hold"
      BY <1>4, BoundsAssumption
    <2>3. CASE q.kind = "move"
      BY <2>1, <2>3 DEF Values, Value
    <2>4. CASE q.kind = "hold"
      BY <2>1, <2>4 DEF Values, Value
    <2> QED
      BY <2>2, <2>3, <2>4
  <1> QED
    BY <1>2, <1>3, <1>4

(* A move or a hand-over is about one record. *)
LEMMA OneRecord ==
    ASSUME NEW q, Proper(q), q.kind \in {"move", "hold"}
    PROVE  q.to \in Targets[q.kind] /\ \E r \in Item : q.items = {r} /\ Record(q) = r
  BY DEF Proper, Record

(* What a change makes of the records. *)
LEMMA WithIs ==
    ASSUME NEW q, Proper(q), NEW w \in [Item -> Server], NEW v, v = With(q, w)
    PROVE  /\ v \in [Item -> Server]
           /\ \A i \in Item : v[i].there = w[i].there
           /\ q.kind \notin {"move", "hold"} => v = w
           /\ q.kind = "move" =>
                \A i \in Item : /\ v[i].holder = w[i].holder
                                /\ v[i].place = IF i = Record(q) THEN q.to ELSE w[i].place
           /\ q.kind = "hold" =>
                \A i \in Item : /\ v[i].place = w[i].place
                                /\ v[i].holder = IF i = Record(q) THEN q.to ELSE w[i].holder
  <1>1. CASE q.kind \notin {"move", "hold"}
    BY <1>1 DEF With
  <1>2. CASE q.kind = "move"
    <2>1. PICK r \in Item : Record(q) = r /\ q.to \in Targets["move"]
      BY <1>2, OneRecord
    <2>2. q.to \in Values.move
      BY <2>1 DEF Targets, Values
    <2>3. v = [w EXCEPT ![r] = [w[r] EXCEPT !.place = q.to]]
      BY <1>2, <2>1 DEF With, Field
    <2>4. PICK new : new = [w[r] EXCEPT !.place = q.to]
      OBVIOUS
    <2>5. w[r] \in Server
      BY <2>1
    <2>6. new \in Server /\ new.place = q.to /\ new.holder = w[r].holder /\ new.there = w[r].there
      BY <2>2, <2>4, <2>5 DEF Server
    <2>7. \A i \in Item : v[i] = IF i = r THEN new ELSE w[i]
      BY <2>3, <2>4
    <2>8. v \in [Item -> Server]
      BY <2>3, <2>4, <2>6
    <2> QED
      BY <1>2, <2>1, <2>6, <2>7, <2>8
  <1>3. CASE q.kind = "hold"
    <2>1. PICK r \in Item : Record(q) = r /\ q.to \in Targets["hold"]
      BY <1>3, OneRecord
    <2>2. q.to \in Values.hold
      BY <2>1 DEF Targets, Values
    <2>3. v = [w EXCEPT ![r] = [w[r] EXCEPT !.holder = q.to]]
      BY <1>3, <2>1 DEF With, Field
    <2>4. PICK new : new = [w[r] EXCEPT !.holder = q.to]
      OBVIOUS
    <2>5. w[r] \in Server
      BY <2>1
    <2>6. new \in Server /\ new.holder = q.to /\ new.place = w[r].place /\ new.there = w[r].there
      BY <2>2, <2>4, <2>5 DEF Server
    <2>7. \A i \in Item : v[i] = IF i = r THEN new ELSE w[i]
      BY <2>3, <2>4
    <2>8. v \in [Item -> Server]
      BY <2>3, <2>4, <2>6
    <2> QED
      BY <1>3, <2>1, <2>6, <2>7, <2>8
  <1> QED
    BY <1>1, <1>2, <1>3

(* The server answers a request, and the keys still tell. *)
LEMMA ServeKeeps ==
    ASSUME SyncShape, \A m \in Change : KeysTell(m, entry[m], applied[m], stored, outcome[m]),
           NEW n \in Change, NEW q \in Version, Proper(q), Serve(n, q),
           entry[n].status # "none", q.kind = entry[n].kind
    PROVE  /\ world' \in [Item -> Server]
           /\ stored' \subseteq Change \X Nat /\ IsFiniteSet(stored')
           /\ DOMAIN applied' = Change
           /\ \A m \in Change : KeysTell(m, entry[m], applied'[m], stored', outcome[m])
           /\ applied'[n] > 0
  <1>1. /\ world \in [Item -> Server] /\ stored \subseteq Change \X Nat /\ IsFiniteSet(stored)
        /\ DOMAIN applied = Change
    BY DEF SyncShape
  <1>2. q.key \in Nat
    BY DEF Version
  <1>3. CASE Answered(n, q) /\ UNCHANGED <<world, stored, past, applied>>
    <2>1. applied[n] > 0
      BY <1>2, <1>3 DEF Answered, KeysTell
    <2>2. world' = world /\ stored' = stored /\ applied' = applied
      BY <1>3
    <2> QED
      BY <1>1, <2>1, <2>2
  <1>4. CASE /\ ~Answered(n, q) /\ Becomes(With(q, world))
             /\ stored' = stored \cup {<<n, q.key>>}
             /\ applied' = [applied EXCEPT ![n] = @ + 1]
    <2>1. world' \in [Item -> Server]
      <3>1. PICK v : v = With(q, world)
        OBVIOUS
      <3>2. v \in [Item -> Server]
        BY ONLY <1>1, <3>1, Proper(q), WithIs
      <3> QED
        BY <1>4, <3>1, <3>2 DEF Becomes
    <2>2. stored' \subseteq Change \X Nat
      BY <1>1, <1>2, <1>4
    <2>3. IsFiniteSet(stored')
      <3>1. PICK S : S = stored
        OBVIOUS
      <3>2. PICK x : x = <<n, q.key>>
        OBVIOUS
      <3>3. IsFiniteSet(S \cup {x})
        BY ONLY <1>1, <3>1, FS_AddElement
      <3> QED
        BY <1>4, <3>1, <3>2, <3>3
    <2>4. DOMAIN applied' = Change /\ \A m \in Change \ {n} : applied'[m] = applied[m]
      BY <1>1, <1>4
    <2>5. applied[n] \in Nat
      BY DEF KeysTell
    <2>6. applied'[n] = applied[n] + 1
      BY <1>1, <1>4
    <2>7. KeysTell(n, entry[n], applied'[n], stored', outcome[n])
      <3>1. q.kind # "check" => q.key = 1 /\ ~(applied[n] > 0)
        BY <1>4 DEF Proper, KeysTell, Answered
      <3>2. applied'[n] > 0 /\ applied'[n] \in Nat
        BY <2>5, <2>6
      <3>3. q.kind # "check" => applied'[n] = 1 /\ <<n, 1>> \in stored'
        BY <1>4, <2>5, <2>6, <3>1
      <3> QED
        BY <3>2, <3>3 DEF KeysTell
    <2>8. ASSUME NEW m \in Change \ {n}
          PROVE  KeysTell(m, entry[m], applied'[m], stored', outcome[m])
      <3>1. KeysTell(m, entry[m], applied[m], stored, outcome[m])
        OBVIOUS
      <3>2. applied'[m] = applied[m]
        BY <2>4
      <3>3. \A k \in Nat : <<m, k>> \in stored' <=> <<m, k>> \in stored
        BY <1>4, <2>8
      <3> QED
        BY <3>1, <3>2, <3>3 DEF KeysTell
    <2> QED
      BY <2>1, <2>2, <2>3, <2>4, <2>5, <2>6, <2>7, <2>8
  <1> QED
    BY <1>3, <1>4 DEF Serve

-----------------------------------------------------------------------------
(* What becomes of an entry leaves its versions versions. *)
Keeps(e, f) ==
    /\ Queued(e) => Queued(f) /\ Same(e, f)
    /\ e.status # "none" => f.status # "none" /\ f.kind = e.kind

(* A step that does so to every entry. *)
QueueKept ==
    /\ DOMAIN entry' = Change
    /\ \A m \in Change : EntryOK(entry'[m]) /\ Keeps(entry[m], entry'[m])
    /\ InTurn(entry')

(* A step that leaves the queue alone. *)
LEMMA QueueStays ==
    ASSUME SyncInv, entry' = entry
    PROVE  QueueKept
  BY DEF SyncInv, SyncShape, QueueKept, Keeps, Same

(* What was a version of an entry still is. *)
LEMMA VersionStays ==
    ASSUME NEW e, NEW f, Keeps(e, f)
    PROVE  \A q : VersionOf(q, e) => VersionOf(q, f)
  BY DEF Keeps, VersionOf, Same

(* A run is about the same changes whatever becomes of them. *)
LEMMA RunStays ==
    ASSUME NEW en, NEW em, \A m \in Change : Keeps(en[m], em[m]), NEW r, RunOK(r, en)
    PROVE  RunOK(r, em)
  <1>1. ASSUME NEW m \in Change, NEW q, VersionOf(q, en[m])
        PROVE  VersionOf(q, em[m])
    BY <1>1, VersionStays
  <1>2. CASE r = NoRun
    BY <1>2 DEF RunOK
  <1>3. CASE r.phase = "plan" /\ r.stalled = {} /\ ListOK(r.todo, en)
    <2>1. PICK todo : todo = r.todo
      OBVIOUS
    <2>2. todo \in Seq(Entries) /\ \A i \in 1 .. Len(todo) : VersionOf(todo[i].q, en[todo[i].n])
      BY <1>3, <2>1 DEF ListOK
    <2>3. \A i \in 1 .. Len(todo) : todo[i] \in Entries
      BY <2>2
    <2>4. ASSUME NEW i \in 1 .. Len(todo)
          PROVE  VersionOf(todo[i].q, em[todo[i].n])
      <3>1. PICK m : m = todo[i].n
        OBVIOUS
      <3>2. PICK q : q = todo[i].q
        OBVIOUS
      <3>3. m \in Change
        BY <2>3, <3>1 DEF Entries
      <3>4. VersionOf(q, en[m])
        BY <2>2, <3>1, <3>2
      <3> QED
        BY <1>1, <3>1, <3>2, <3>3, <3>4
    <2>5. ListOK(r.todo, em)
      BY <1>3, <2>1, <2>4 DEF ListOK
    <2> QED
      BY <1>3, <2>5 DEF RunOK
  <1>4. CASE r.phase = "send" /\ r.stalled \in SUBSET Item /\ TodoOK(r.todo, en) /\ r.todo # <<>>
    <2>1. PICK todo : todo = r.todo
      OBVIOUS
    <2>2. todo \in Seq(Verdicts) /\ \A i \in 1 .. Len(todo) : VersionOf(todo[i].q, en[todo[i].n])
      BY <1>4, <2>1 DEF TodoOK
    <2>3. \A i \in 1 .. Len(todo) : todo[i] \in Verdicts
      BY <2>2
    <2>4. ASSUME NEW i \in 1 .. Len(todo)
          PROVE  VersionOf(todo[i].q, em[todo[i].n])
      <3>1. PICK m : m = todo[i].n
        OBVIOUS
      <3>2. PICK q : q = todo[i].q
        OBVIOUS
      <3>3. m \in Change
        BY <2>3, <3>1 DEF Verdicts
      <3>4. VersionOf(q, en[m])
        BY <2>2, <3>1, <3>2
      <3> QED
        BY <1>1, <3>1, <3>2, <3>3, <3>4
    <2>5. TodoOK(r.todo, em)
      BY <1>4, <2>1, <2>4 DEF TodoOK
    <2> QED
      BY <1>4, <2>5 DEF RunOK
  <1> QED
    BY <1>2, <1>3, <1>4 DEF RunOK

(* The keys tell the same of what a change has become. *)
LEMMA KeysStay ==
    ASSUME NEW n, NEW e, NEW f, NEW done, NEW keys, NEW how, NEW what,
           KeysTell(n, e, done, keys, how), Keeps(e, f), what = "sent" => how = "sent" \/ done > 0
    PROVE  KeysTell(n, f, done, keys, what)
  BY DEF KeysTell, Keeps

(* All that goes by the entries goes on by them. *)
LEMMA QueueKeptIs ==
    ASSUME SyncInv, QueueKept
    PROVE  /\ \A n \in inflight : entry'[n].status # "none"
           /\ \A n \in Change : ScreenOK(screen[n], entry'[n])
           /\ \A t \in Tab : RunOK(run[t], entry')
           /\ \A n \in Change : KeysTell(n, entry'[n], applied[n], stored, outcome[n])
  <1>1. \A m \in Change : Keeps(entry[m], entry'[m])
    BY DEF QueueKept
  <1>2. \A n \in inflight : entry'[n].status # "none"
    BY <1>1 DEF SyncInv, SyncShape, Keeps
  <1>3. ASSUME NEW n \in Change
        PROVE  ScreenOK(screen[n], entry'[n])
    <2>1. PICK e : e = entry[n]
      OBVIOUS
    <2>2. PICK f : f = entry'[n]
      OBVIOUS
    <2>3. Keeps(e, f) /\ ScreenOK(screen[n], e)
      BY <1>1, <2>1, <2>2 DEF SyncInv
    <2>4. ScreenOK(screen[n], f)
      BY <2>3, VersionStays DEF ScreenOK
    <2> QED
      BY <2>2, <2>4
  <1>4. ASSUME NEW t \in Tab
        PROVE  RunOK(run[t], entry')
    <2>1. PICK en : en = entry
      OBVIOUS
    <2>2. PICK em : em = entry'
      OBVIOUS
    <2>3. PICK r : r = run[t]
      OBVIOUS
    <2>4. RunOK(r, en) /\ \A m \in Change : Keeps(en[m], em[m])
      BY <1>1, <2>1, <2>2, <2>3 DEF SyncInv
    <2>5. RunOK(r, em)
      BY ONLY <2>4, RunStays
    <2> QED
      BY <2>2, <2>3, <2>5
  <1>5. ASSUME NEW n \in Change
        PROVE  KeysTell(n, entry'[n], applied[n], stored, outcome[n])
    <2>1. KeysTell(n, entry[n], applied[n], stored, outcome[n])
      BY DEF SyncInv
    <2>2. Keeps(entry[n], entry'[n])
      BY <1>1
    <2> QED
      BY <2>1, <2>2, KeysStay
  <1> QED
    BY <1>2, <1>3, <1>4, <1>5

(* An entry that is put again, as a version of the same change. *)
LEMMA AlterKeeps ==
    ASSUME SyncInv, NEW n \in Change, NEW v, entry' = [entry EXCEPT ![n] = v],
           EntryOK(v), Queued(v), Same(v, entry[n]), entry[n].status # "none"
    PROVE  QueueKept
  <1>1. DOMAIN entry' = Change /\ \A m \in Change : entry'[m] = IF m = n THEN v ELSE entry[m]
    BY DEF SyncInv, SyncShape
  <1>2. \A m \in Change : EntryOK(entry[m])
    BY DEF SyncInv
  <1>3. ASSUME NEW m \in Change
        PROVE  EntryOK(entry'[m]) /\ Keeps(entry[m], entry'[m])
    <2>1. CASE m = n
      <3>1. EntryOK(v) /\ Keeps(entry[n], v)
        BY DEF Keeps, Same, Queued
      <3> QED
        BY <1>1, <2>1, <3>1
    <2>2. CASE m # n
      <3>1. EntryOK(entry[m]) /\ Keeps(entry[m], entry[m])
        BY <1>2 DEF Keeps, Same
      <3> QED
        BY <1>1, <2>2, <3>1
    <2> QED
      BY <2>1, <2>2
  <1>4. \A m \in Change : entry'[m].seq = entry[m].seq
    BY <1>1 DEF Same
  <1>5. InTurn(entry')
    <2>1. Placed(entry') = Placed(entry)
      BY <1>4 DEF Placed
    <2> QED
      BY <1>4, <2>1 DEF SyncInv, InTurn
  <1> QED
    BY <1>1, <1>3, <1>5 DEF QueueKept

(* A change is put in the queue behind all others. *)
LEMMA QueuedKeeps ==
    ASSUME SyncInv, NEW n \in Change, ~Queued(entry[n]),
           NEW q \in Version, Proper(q), q.attempts = 0, q.kind \in Kind \cup {"note"},
           entry[n].status = "none" \/ q.kind = entry[n].kind, queueChange(n, q)
    PROVE  QueueKept
  <1>1. /\ DOMAIN entry = Change /\ \A m \in Change : EntryOK(entry[m])
        /\ InTurn(entry)
    BY DEF SyncInv, SyncShape
  <1>2. \A m \in Change : entry[m] \in Version /\ entry[m].seq \in Nat
    BY <1>1 DEF EntryOK, Version
  <1>3. PICK base \in Believed(q) : entry' = [entry EXCEPT ![n] =
                                      [q EXCEPT !.status = "pending", !.seq = NextSeq, !.base = base]]
    BY DEF queueChange
  <1>4. base \in Value
    BY ONLY <1>2, q.kind \in Kind \cup {"note"}, <1>3, BelievedIs
  <1>5. PICK s : s = NextSeq
    OBVIOUS
  <1>6. /\ s \in Nat \ {0} /\ \A m \in Change : entry[m].seq < s
        /\ s = 1 \/ \E m \in Change : s = entry[m].seq + 1
    BY ONLY <1>2, <1>5, NextSeqIs
  <1>7. PICK S : S = Placed(entry)
    OBVIOUS
  <1>8. entry[n].seq = 0
    <2>1. entry[n].status = "none" \/ entry[n].status = "trying"
      BY DEF Queued
    <2> QED
      BY <1>1, <2>1, NoEntryIs DEF EntryOK
  <1>9. IsFiniteSet(S) /\ n \notin S /\ S \subseteq Change /\ S \cup {n} \subseteq Change
    <2>1. n \notin S /\ S \subseteq Change
      BY <1>2, <1>7, <1>8 DEF Placed
    <2>2. IsFiniteSet(S)
      BY ONLY <2>1, ChangesFew, FS_Subset
    <2> QED
      BY <2>1, <2>2
  <1>10. Cardinality(S) \in Nat /\ Cardinality(S \cup {n}) = Cardinality(S) + 1
    BY ONLY <1>9, FS_AddElement, FS_CardinalityType
  <1>11. Cardinality(S \cup {n}) <= MaxChange
    BY ONLY <1>9, ChangesFew, FS_Subset
  <1>12. s <= Cardinality(S) + 1
    <2>1. \A m \in Change : entry[m].seq <= Cardinality(S)
      BY <1>1, <1>7 DEF InTurn
    <2> QED
      BY <1>2, <1>6, <1>10, <2>1
  <1>13. s \in 0 .. MaxChange
    BY <1>6, <1>10, <1>11, <1>12, BoundsAssumption
  <1>14. PICK v : v = [q EXCEPT !.status = "pending", !.seq = s, !.base = base]
    OBVIOUS
  <1>15. v \in Version
    BY <1>4, <1>13, <1>14 DEF Version, Waiting
  <1>16. /\ v.status = "pending" /\ v.seq = s /\ v.kind = q.kind /\ v.items = q.items /\ v.to = q.to
         /\ v.key = q.key /\ v.missing = q.missing /\ v.attempts = 0
    BY <1>14 DEF Version
  <1>17. EntryOK(v)
    <2>1. Proper(v)
      BY <1>16, BoundsAssumption DEF Proper
    <2> QED
      BY <1>6, <1>15, <1>16, <2>1 DEF EntryOK
  <1>18. DOMAIN entry' = Change /\ \A m \in Change : entry'[m] = IF m = n THEN v ELSE entry[m]
    BY <1>1, <1>3, <1>5, <1>14
  <1>19. ASSUME NEW m \in Change
         PROVE  EntryOK(entry'[m]) /\ Keeps(entry[m], entry'[m])
    <2>1. CASE m = n
      <3>1. Keeps(entry[n], v)
        BY <1>16 DEF Keeps
      <3> QED
        BY <1>17, <1>18, <2>1, <3>1
    <2>2. CASE m # n
      <3>1. EntryOK(entry[m]) /\ Keeps(entry[m], entry[m])
        BY <1>1 DEF Keeps, Same
      <3> QED
        BY <1>18, <2>2, <3>1
    <2> QED
      BY <2>1, <2>2
  <1>20. \A m \in Change : entry'[m].seq = IF m = n THEN s ELSE entry[m].seq
    BY <1>16, <1>18
  <1>21. Placed(entry') = S \cup {n}
    BY <1>6, <1>7, <1>20 DEF Placed
  <1>22. ASSUME NEW m \in Change
         PROVE  entry'[m].seq <= Cardinality(Placed(entry'))
    <2>1. entry[m].seq <= Cardinality(S)
      BY <1>1, <1>7 DEF InTurn
    <2> QED
      BY <1>2, <1>6, <1>10, <1>12, <1>20, <1>21, <2>1
  <1>23. ASSUME NEW m \in Change, NEW k \in Change, entry'[m].seq > 0, entry'[m].seq = entry'[k].seq
         PROVE  m = k
    <2>1. entry[m].seq < s /\ entry[k].seq < s /\ entry[m].seq \in Nat /\ entry[k].seq \in Nat /\ s \in Nat
      BY <1>2, <1>6
    <2>2. CASE m = n \/ k = n
      BY <1>20, <1>23, <2>1, <2>2
    <2>3. CASE m # n /\ k # n
      BY <1>1, <1>20, <1>23, <2>3 DEF InTurn
    <2> QED
      BY <2>2, <2>3
  <1>24. InTurn(entry')
    BY <1>22, <1>23 DEF InTurn
  <1> QED
    BY <1>18, <1>19, <1>24 DEF QueueKept

(* What a run has left once it went on. *)
LEMMA GoesIs ==
    ASSUME SyncInv, NEW t \in Tab, NEW todo, NEW stalled, Goes(t, todo, stalled)
    PROVE  /\ DOMAIN run' = Tab
           /\ \A u \in Tab \ {t} : run'[u] = run[u]
           /\ todo = <<>> => run'[t] = NoRun
           /\ todo # <<>> => run'[t] = [phase |-> "send", todo |-> todo, stalled |-> stalled]
  BY DEF Goes, SyncInv, SyncShape

(* A run goes on with turns that are about what is in the queue. *)
LEMMA RunGoes ==
    ASSUME SyncInv, QueueKept, NEW t \in Tab, NEW todo, NEW stalled \in SUBSET Item, NEW en, en = entry,
           TodoOK(todo, en), Goes(t, todo, stalled)
    PROVE  DOMAIN run' = Tab /\ \A u \in Tab : RunOK(run'[u], entry')
  <1>1. /\ DOMAIN run' = Tab
        /\ \A u \in Tab \ {t} : run'[u] = run[u]
        /\ todo = <<>> => run'[t] = NoRun
        /\ todo # <<>> => run'[t] = [phase |-> "send", todo |-> todo, stalled |-> stalled]
    BY GoesIs
  <1>2. PICK em : em = entry'
    OBVIOUS
  <1>3. \A m \in Change : Keeps(en[m], em[m])
    BY <1>2 DEF QueueKept
  <1>4. PICK r : r = run'[t]
    OBVIOUS
  <1>5. RunOK(r, en)
    <2>1. CASE todo = <<>>
      BY <1>1, <1>4, <2>1 DEF RunOK
    <2>2. CASE todo # <<>>
      <3>1. r.phase = "send" /\ r.todo = todo /\ r.stalled = stalled
        BY <1>1, <1>4, <2>2
      <3> QED
        BY <2>2, <3>1 DEF RunOK
    <2> QED
      BY <2>1, <2>2
  <1>6. RunOK(r, em)
    BY ONLY <1>3, <1>5, RunStays
  <1>7. ASSUME NEW u \in Tab
        PROVE  RunOK(run'[u], entry')
    <2>1. CASE u = t
      BY <1>2, <1>4, <1>6, <2>1
    <2>2. CASE u # t
      BY <1>1, <2>2, QueueKeptIs
    <2> QED
      BY <2>1, <2>2
  <1> QED
    BY <1>1, <1>7

(* A run stops. *)
LEMMA NothingLeft == \A en : TodoOK(<<>>, en)
  <1>1. <<>> \in Seq(Verdicts) /\ Len(<<>>) = 0 /\ Len(<<>>) <= PlanMax /\ 1 .. Len(<<>>) = {}
    BY BoundsAssumption
  <1> QED
    BY <1>1 DEF TodoOK

(* The turn a run is at, and those after it. *)
LEMMA CurrentIs ==
    ASSUME SyncInv, NEW t \in Tab, Sending(t), NEW en, en = entry
    PROVE  /\ Current(t) \in Verdicts /\ Current(t).n \in Change /\ Current(t).q \in Version
           /\ Proper(Current(t).q) /\ Current(t).q.status = "pending"
           /\ VersionOf(Current(t).q, en[Current(t).n])
           /\ Current(t).missing # {} => Current(t).q.kind = "check"
           /\ TodoOK(Tail(run[t].todo), en)
           /\ run[t].stalled \in SUBSET Item
           /\ subjectsOf(Current(t).q) \in SUBSET Item
  <1>1. run[t].stalled \in SUBSET Item /\ TodoOK(run[t].todo, en) /\ run[t].todo # <<>>
    <2>1. RunOK(run[t], en) /\ run[t].phase = "send"
      BY DEF SyncInv, Sending
    <2>2. run[t] # NoRun
      BY <2>1 DEF NoRun
    <2> QED
      BY <2>1, <2>2 DEF RunOK
  <1>2. PICK todo : todo = run[t].todo
    OBVIOUS
  <1>3. todo \in Seq(Verdicts) /\ todo # <<>> /\ Len(todo) <= PlanMax
    BY <1>1, <1>2 DEF TodoOK
  <1>4. \A i \in 1 .. Len(todo) : /\ VersionOf(todo[i].q, en[todo[i].n])
                                  /\ todo[i].q.status = "pending"
                                  /\ todo[i].missing # {} => todo[i].q.kind = "check"
    BY <1>1, <1>2 DEF TodoOK
  <1>5. PICK rest : rest = Tail(todo)
    OBVIOUS
  <1>6. rest \in Seq(Verdicts) /\ Len(rest) = Len(todo) - 1 /\ Len(todo) \in Nat \ {0}
    BY <1>3, <1>5
  <1>7. \A i \in 1 .. Len(rest) : rest[i] = todo[i + 1] /\ i + 1 \in 1 .. Len(todo)
    BY <1>3, <1>5, <1>6
  <1>8. TodoOK(rest, en)
    <2>1. Len(rest) <= PlanMax
      BY <1>3, <1>6, BoundsAssumption
    <2>2. \A i \in 1 .. Len(rest) : /\ VersionOf(rest[i].q, en[rest[i].n])
                                    /\ rest[i].q.status = "pending"
                                    /\ rest[i].missing # {} => rest[i].q.kind = "check"
      BY <1>4, <1>7
    <2> QED
      BY <1>6, <2>1, <2>2 DEF TodoOK
  <1>9. PICK c : c = Current(t)
    OBVIOUS
  <1>10. c = todo[1] /\ 1 \in 1 .. Len(todo)
    BY <1>2, <1>3, <1>6, <1>9 DEF Current
  <1>11. c \in Verdicts /\ VersionOf(c.q, en[c.n]) /\ c.q.status = "pending" /\ (c.missing # {} => c.q.kind = "check")
    BY <1>3, <1>4, <1>10
  <1>12. c.n \in Change /\ c.q \in Version /\ Proper(c.q)
    BY <1>11 DEF Verdicts, VersionOf
  <1>13. subjectsOf(c.q) \in SUBSET Item
    BY <1>12 DEF subjectsOf, Version
  <1> QED
    BY <1>1, <1>2, <1>5, <1>8, <1>9, <1>11, <1>12, <1>13

(* What a plan has come to. *)
PlanSoFar == [world : [Item -> Server], blocked : SUBSET Item, plan : Seq(Verdicts)]

(* The verdict d on its change, which finds the records as in w. *)
JudgedBy(d, w) ==
    /\ d.missing # {} => d.q.kind = "check"
    /\ d.verdict = "skip" => d.q.kind = "hold" /\ w[Record(d.q)].holder = d.q.to
    /\ d.verdict = "send" /\ d.q.kind \in {"move", "hold"} => d.q.force \/ ~Changed(d.q, w)

(* How a plan goes over a change. *)
HoldsBack(acc, e, new) ==
    /\ e.q.status # "pending"
    /\ new.world = acc.world /\ new.plan = acc.plan /\ new.blocked = acc.blocked \cup subjectsOf(e.q)
LeftOut(acc, e, new) ==
    e.q.status = "pending" /\ subjectsOf(e.q) \cap acc.blocked # {} /\ new = acc
TakenIn(acc, e, new, d) ==
    /\ e.q.status = "pending" /\ subjectsOf(e.q) \cap acc.blocked = {}
    /\ d \in Verdicts /\ d.n = e.n /\ d.q = e.q /\ JudgedBy(d, acc.world)
    /\ new.plan = Append(acc.plan, d)
    /\ d.verdict = "conflict" => /\ new.world = acc.world
                                 /\ new.blocked = acc.blocked \cup subjectsOf(e.q)
    /\ d.verdict # "conflict" => new.world = With(e.q, acc.world) /\ new.blocked = acc.blocked

(* A verdict. *)
LEMMA EvaluateIs ==
    ASSUME NEW q \in Version, NEW w, NEW v, v = evaluate(q, w)
    PROVE  /\ v.verdict \in {"send", "skip", "conflict"} /\ v.keepable \in BOOLEAN
           /\ v.missing \in SUBSET Item /\ (v.missing # {} => q.kind = "check")
           /\ v.verdict = "skip" => q.kind = "hold" /\ w[Record(q)].holder = q.to
           /\ v.verdict = "send" /\ q.kind \in {"move", "hold"} => q.force \/ ~Changed(q, w)
  <1>1. q.items \in SUBSET Item
    BY DEF Version
  <1>2. PICK missing : missing = {i \in q.items : ~w[i].there}
    OBVIOUS
  <1>3. missing \in SUBSET Item
    BY <1>1, <1>2
  <1>4. CASE missing # {} /\ q.kind = "check"
    <2>1. v = Conflict(TRUE, missing)
      BY <1>2, <1>4 DEF evaluate
    <2> QED
      BY <1>3, <1>4, <2>1 DEF Conflict
  <1>5. CASE missing # {} /\ q.kind # "check"
    <2>1. v = Conflict(FALSE, {})
      BY <1>2, <1>5 DEF evaluate
    <2> QED
      BY <2>1 DEF Conflict
  <1>6. CASE missing = {} /\ q.kind \in {"note", "check"}
    <2>1. v = Verdict("send")
      BY <1>2, <1>6 DEF evaluate
    <2> QED
      BY <1>6, <2>1 DEF Verdict
  <1>7. CASE missing = {} /\ q.kind \notin {"note", "check"}
    <2>1. \/ v = Conflict(FALSE, {}) \/ v = Conflict(TRUE, {})
          \/ v = Verdict("skip") /\ q.kind = "hold" /\ w[Record(q)].holder = q.to
          \/ v = Verdict("send") /\ (q.force \/ ~Changed(q, w))
      <3>1. /\ {i \in q.items : ~w[i].there} = {} /\ ~(q.kind \in {"note", "check"})
        BY <1>2, <1>7
      <3>2. CASE q.to \notin known \cup {Nobody}
        BY <3>1, <3>2 DEF evaluate
      <3>3. CASE q.to \in known \cup {Nobody} /\ q.kind = "hold" /\ w[Record(q)].holder = q.to
        BY <3>1, <3>3 DEF evaluate
      <3>4. CASE /\ q.to \in known \cup {Nobody} /\ ~(q.kind = "hold" /\ w[Record(q)].holder = q.to)
                 /\ ~q.force /\ Changed(q, w)
        BY <3>1, <3>4 DEF evaluate
      <3>5. CASE /\ q.to \in known \cup {Nobody} /\ ~(q.kind = "hold" /\ w[Record(q)].holder = q.to)
                 /\ ~(~q.force /\ Changed(q, w))
        BY <3>1, <3>5 DEF evaluate
      <3> QED
        BY <3>2, <3>3, <3>4, <3>5
    <2>2. CASE v = Conflict(FALSE, {}) \/ v = Conflict(TRUE, {})
      <3>1. v.verdict = "conflict" /\ v.keepable \in BOOLEAN /\ v.missing = {}
        <4>1. CASE v = Conflict(FALSE, {})
          BY <4>1 DEF Conflict
        <4>2. CASE v = Conflict(TRUE, {})
          BY <4>2 DEF Conflict
        <4> QED
          BY <2>2, <4>1, <4>2
      <3> QED
        BY <3>1
    <2>3. CASE v = Verdict("skip") /\ q.kind = "hold" /\ w[Record(q)].holder = q.to
      BY <2>3 DEF Verdict
    <2>4. CASE v = Verdict("send") /\ (q.force \/ ~Changed(q, w))
      BY <2>4 DEF Verdict
    <2> QED
      BY <2>1, <2>2, <2>3, <2>4
  <1> QED
    BY <1>4, <1>5, <1>6, <1>7

(* A plan goes over one change more. *)
LEMMA PlanOneIs ==
    ASSUME NEW acc \in PlanSoFar, NEW e \in Entries, Proper(e.q), NEW new, new = PlanOne(acc, e)
    PROVE  /\ new \in PlanSoFar
           /\ HoldsBack(acc, e, new) \/ LeftOut(acc, e, new) \/ \E d \in Verdicts : TakenIn(acc, e, new, d)
  <1>1. /\ acc.world \in [Item -> Server] /\ acc.blocked \in SUBSET Item /\ acc.plan \in Seq(Verdicts)
        /\ e.n \in Change /\ e.q \in Version
    BY DEF PlanSoFar, Entries
  <1>2. PICK subject \in SUBSET Item : subject = subjectsOf(e.q)
    BY <1>1 DEF subjectsOf, Version
  <1>3. PICK v : v = evaluate(e.q, acc.world)
    OBVIOUS
  <1>4. CASE e.q.status # "pending"
    <2>1. new = [acc EXCEPT !.blocked = acc.blocked \cup subject]
      BY <1>2, <1>4 DEF PlanOne
    <2>2. /\ new \in PlanSoFar /\ new.world = acc.world /\ new.plan = acc.plan
          /\ new.blocked = acc.blocked \cup subject
      BY <1>1, <2>1 DEF PlanSoFar
    <2> QED
      BY <1>2, <1>4, <2>2 DEF HoldsBack
  <1>5. CASE e.q.status = "pending" /\ subject \cap acc.blocked # {}
    <2>1. new = acc
      BY <1>2, <1>5 DEF PlanOne
    <2> QED
      BY <1>2, <1>5, <2>1 DEF LeftOut
  <1>6. CASE e.q.status = "pending" /\ subject \cap acc.blocked = {}
    <2>1. PICK d : d = Judged(e, v)
      OBVIOUS
    <2>2. /\ d.n = e.n /\ d.q = e.q /\ d.verdict = v.verdict /\ d.keepable = v.keepable
          /\ d.missing = v.missing
      BY <2>1 DEF Judged
    <2>3. d \in Verdicts /\ JudgedBy(d, acc.world)
      <3>1. /\ v.verdict \in {"send", "skip", "conflict"} /\ v.keepable \in BOOLEAN
            /\ v.missing \in SUBSET Item /\ (v.missing # {} => e.q.kind = "check")
            /\ v.verdict = "skip" => e.q.kind = "hold" /\ acc.world[Record(e.q)].holder = e.q.to
            /\ v.verdict = "send" /\ e.q.kind \in {"move", "hold"} => e.q.force \/ ~Changed(e.q, acc.world)
        <4>1. PICK q \in Version : q = e.q
          BY <1>1
        <4>2. PICK w : w = acc.world
          OBVIOUS
        <4>3. v = evaluate(q, w)
          BY <1>3, <4>1, <4>2
        <4> HIDE <1>3
        <4> QED
          BY <4>1, <4>2, <4>3, EvaluateIs
      <3>2. d \in Verdicts
        BY <1>1, <2>1, <3>1 DEF Judged, Verdicts
      <3> QED
        BY <2>2, <3>1, <3>2 DEF JudgedBy
    <2>4. PICK plan : plan = Append(acc.plan, d)
      OBVIOUS
    <2>5. plan \in Seq(Verdicts)
      BY <1>1, <2>3, <2>4
    <2>6. CASE v.verdict = "conflict"
      <3>1. new = [acc EXCEPT !.blocked = acc.blocked \cup subject, !.plan = plan]
        BY <1>2, <1>3, <1>6, <2>1, <2>4, <2>6 DEF PlanOne
      <3>2. /\ new \in PlanSoFar /\ new.world = acc.world /\ new.plan = plan
            /\ new.blocked = acc.blocked \cup subject
        BY <1>1, <2>5, <3>1 DEF PlanSoFar
      <3>3. TakenIn(acc, e, new, d)
        BY <1>2, <1>6, <2>2, <2>3, <2>4, <2>6, <3>2 DEF TakenIn
      <3> QED
        BY <2>3, <3>2, <3>3
    <2>7. CASE v.verdict # "conflict"
      <3>1. PICK w : w = With(e.q, acc.world)
        OBVIOUS
      <3>2. w \in [Item -> Server]
        <4>1. PICK q : q = e.q
          OBVIOUS
        <4>2. PICK old \in [Item -> Server] : old = acc.world
          BY <1>1
        <4>3. Proper(q) /\ w = With(q, old)
          BY <3>1, <4>1, <4>2
        <4> QED
          BY ONLY <4>2, <4>3, WithIs
      <3>3. new = [acc EXCEPT !.world = w, !.plan = plan]
        BY <1>2, <1>3, <1>6, <2>1, <2>4, <2>7, <3>1 DEF PlanOne
      <3>4. /\ new \in PlanSoFar /\ new.world = w /\ new.plan = plan /\ new.blocked = acc.blocked
        BY <1>1, <2>5, <3>2, <3>3 DEF PlanSoFar
      <3>5. TakenIn(acc, e, new, d)
        BY <1>2, <1>6, <2>2, <2>3, <2>4, <2>7, <3>1, <3>4 DEF TakenIn
      <3> QED
        BY <2>3, <3>4, <3>5
    <2> QED
      BY <2>6, <2>7
  <1> QED
    BY <1>2, <1>4, <1>5, <1>6

(* A plan is about versions of what is in the queue, and no longer than the list. *)
Planning(acc, en, k) ==
    /\ acc \in PlanSoFar /\ Len(acc.plan) <= k
    /\ \A i \in 1 .. Len(acc.plan) : /\ VersionOf(acc.plan[i].q, en[acc.plan[i].n])
                                     /\ acc.plan[i].q.status = "pending"
                                     /\ acc.plan[i].missing # {} => acc.plan[i].q.kind = "check"

(* It stays so for one change more. *)
LEMMA PlanningGoesOn ==
    ASSUME NEW en, NEW k \in Nat, NEW acc, Planning(acc, en, k), NEW e \in Entries,
           VersionOf(e.q, en[e.n]), NEW new, new = PlanOne(acc, e)
    PROVE  Planning(new, en, k + 1)
  <1>1. acc \in PlanSoFar /\ acc.plan \in Seq(Verdicts) /\ Len(acc.plan) <= k /\ Len(acc.plan) \in Nat
    BY DEF Planning, PlanSoFar
  <1>2. Proper(e.q)
    BY DEF VersionOf
  <1>3. /\ new \in PlanSoFar
        /\ HoldsBack(acc, e, new) \/ LeftOut(acc, e, new) \/ \E d \in Verdicts : TakenIn(acc, e, new, d)
    BY ONLY <1>1, <1>2, e \in Entries, new = PlanOne(acc, e), PlanOneIs
  <1>4. CASE HoldsBack(acc, e, new) \/ LeftOut(acc, e, new)
    <2>1. new.plan = acc.plan
      BY <1>4 DEF HoldsBack, LeftOut
    <2>2. Len(new.plan) <= k + 1
      BY <1>1, <2>1
    <2> QED
      BY <1>3, <2>1, <2>2 DEF Planning
  <1>5. ASSUME NEW d \in Verdicts, TakenIn(acc, e, new, d)
        PROVE  Planning(new, en, k + 1)
    <2>1. PICK p : p = acc.plan
      OBVIOUS
    <2>2. PICK pp : pp = new.plan
      OBVIOUS
    <2>3. /\ pp = Append(p, d) /\ p \in Seq(Verdicts) /\ Len(p) <= k /\ Len(p) \in Nat
          /\ d.n = e.n /\ d.q = e.q /\ e.q.status = "pending" /\ (d.missing # {} => d.q.kind = "check")
      BY <1>1, <1>5, <2>1, <2>2 DEF TakenIn, JudgedBy
    <2>4. Len(pp) = Len(p) + 1
      BY <2>3
    <2>5. \A i \in 1 .. Len(pp) : pp[i] = IF i <= Len(p) THEN p[i] ELSE d
      BY <2>3, <2>4
    <2>6. ASSUME NEW i \in 1 .. Len(pp)
          PROVE  /\ VersionOf(pp[i].q, en[pp[i].n])
                 /\ pp[i].q.status = "pending"
                 /\ pp[i].missing # {} => pp[i].q.kind = "check"
      <3>1. CASE i <= Len(p)
        <4>1. i \in 1 .. Len(p) /\ pp[i] = p[i]
          BY <2>3, <2>4, <2>5, <3>1
        <4> QED
          BY <2>1, <4>1 DEF Planning
      <3>2. CASE ~(i <= Len(p))
        <4>1. pp[i] = d
          BY <2>5, <3>2
        <4> QED
          BY <2>3, <4>1
      <3> QED
        BY <3>1, <3>2
    <2>7. Len(pp) <= k + 1
      BY <2>3, <2>4
    <2> QED
      BY <1>3, <2>2, <2>6, <2>7 DEF Planning
  <1> QED
    BY <1>3, <1>4, <1>5

(* A plan of what is listed. *)
LEMMA PlanIs ==
    ASSUME world \in [Item -> Server], NEW todo, NEW en, ListOK(todo, en)
    PROVE  TodoOK(planSync(todo), en)
  <1>1. todo \in Seq(Entries) /\ Len(todo) <= PlanMax /\ \A i \in 1 .. Len(todo) : VersionOf(todo[i].q, en[todo[i].n])
    BY DEF ListOK
  <1>2. PICK n \in Nat : n = Len(todo)
    BY <1>1
  <1>3. DOMAIN todo = 1 .. n /\ \A i \in 1 .. n : todo[i] \in Entries
    BY <1>1, <1>2
  <1>4. /\ Planned(todo, 0) = PlanStart
        /\ \A k \in 1 .. n : Planned(todo, k) = PlanOne(Planned(todo, k - 1), todo[k])
        /\ planSync(todo) = Planned(todo, n).plan
    BY ONLY <1>2, <1>3, PlannedIs
  <1> DEFINE T == {k \in 0 .. n : Planning(Planned(todo, k), en, k)}
  <1>5. 0 \in T
    <2>1. PICK start : start = PlanStart
      OBVIOUS
    <2>2. start = [world |-> world, blocked |-> {}, plan |-> <<>>]
      BY <2>1 DEF PlanStart
    <2>3. start \in PlanSoFar
      BY <2>2 DEF PlanSoFar
    <2>4. Len(start.plan) = 0 /\ 1 .. Len(start.plan) = {}
      BY <2>2
    <2>5. Planning(start, en, 0)
      BY <2>3, <2>4 DEF Planning
    <2>6. 0 \in 0 .. n
      BY <1>2
    <2> QED
      BY <1>4, <2>1, <2>5, <2>6
  <1>6. ASSUME NEW k \in 1 .. n, k - 1 \in T
        PROVE  k \in T
    <2>1. PICK acc : acc = Planned(todo, k - 1)
      OBVIOUS
    <2>2. PICK new : new = Planned(todo, k)
      OBVIOUS
    <2>3. PICK e \in Entries : e = todo[k]
      BY <1>3
    <2>4. Planning(acc, en, k - 1) /\ new = PlanOne(acc, e) /\ VersionOf(e.q, en[e.n])
      BY <1>1, <1>2, <1>4, <1>6, <2>1, <2>2, <2>3
    <2>5. PICK j \in Nat : j = k - 1
      BY <1>2
    <2>6. Planning(new, en, j + 1)
      BY ONLY <2>3, <2>4, <2>5, PlanningGoesOn
    <2>7. j + 1 = k /\ k \in 0 .. n
      BY <1>2, <2>5
    <2> QED
      BY <2>2, <2>6, <2>7
  <1>7. \A k \in 0 .. n : k \in T
    <2> HIDE DEF T
    <2> QED
      BY ONLY <1>2, <1>5, <1>6, OneAfterOther
  <1>8. Planning(Planned(todo, n), en, n)
    <2>1. n \in 0 .. n
      BY <1>2
    <2> QED
      BY <1>7, <2>1
  <1>9. PICK acc : acc = Planned(todo, n)
    OBVIOUS
  <1>10. acc \in PlanSoFar /\ acc.plan \in Seq(Verdicts) /\ Len(acc.plan) \in Nat /\ Len(acc.plan) <= PlanMax
    <2>1. acc \in PlanSoFar /\ Len(acc.plan) <= n
      BY <1>8, <1>9 DEF Planning
    <2>2. acc.plan \in Seq(Verdicts) /\ Len(acc.plan) \in Nat
      BY <2>1 DEF PlanSoFar
    <2> QED
      BY <1>1, <1>2, <2>1, <2>2, BoundsAssumption
  <1>11. TodoOK(acc.plan, en)
    BY <1>8, <1>9, <1>10 DEF Planning, TodoOK
  <1> QED
    BY <1>4, <1>9, <1>11

(* What SyncInv says, for citing. *)
LEMMA SyncSays ==
    ASSUME SyncInv
    PROVE  /\ DOMAIN entry = Change /\ DOMAIN screen = Change /\ DOMAIN run = Tab
           /\ inflight \subseteq Change
           /\ world \in [Item -> Server] /\ known \subseteq Place \cup Holder
           /\ stored \subseteq Change \X Nat /\ IsFiniteSet(stored)
           /\ DOMAIN applied = Change
           /\ outcome \in [Change -> {"none", "sent", "refused", "skipped", "discarded"}]
           /\ \A n \in Change : /\ EntryOK(entry[n]) /\ entry[n] \in Version
                                /\ ScreenOK(screen[n], entry[n])
                                /\ KeysTell(n, entry[n], applied[n], stored, outcome[n])
           /\ \A n \in inflight : entry[n].status # "none"
           /\ \A t \in Tab : RunOK(run[t], entry)
           /\ InTurn(entry)
  BY DEF SyncInv, SyncShape, EntryOK

(* The parts of the invariant, after a step. *)
Outcomes == {"none", "sent", "refused", "skipped", "discarded"}
ServerKeeps ==
    /\ world' \in [Item -> Server] /\ known' \subseteq Place \cup Holder
    /\ stored' \subseteq Change \X Nat /\ IsFiniteSet(stored') /\ DOMAIN applied' = Change
    /\ \A n \in Change : KeysTell(n, entry[n], applied'[n], stored', outcome[n])
OutcomeKeeps ==
    /\ outcome' \in [Change -> Outcomes]
    /\ \A n \in Change : outcome'[n] = "sent" => outcome[n] = "sent" \/ applied'[n] > 0
ScreensKeep == DOMAIN screen' = Change /\ \A n \in Change : ScreenOK(screen'[n], entry'[n])
RunsKeep == DOMAIN run' = Tab /\ \A t \in Tab : RunOK(run'[t], entry')
FlightKeeps == inflight' \subseteq Change /\ \A n \in inflight' : entry'[n].status # "none"

(* A step that keeps each part keeps the whole. *)
LEMMA PartsKeep ==
    ASSUME SyncInv, QueueKept, ServerKeeps, OutcomeKeeps, ScreensKeep, RunsKeep, FlightKeeps
    PROVE  SyncInv'
  <1>1. SyncShape'
    BY DEF QueueKept, ServerKeeps, OutcomeKeeps, ScreensKeep, RunsKeep, FlightKeeps, SyncShape, Outcomes
  <1>2. \A n \in Change : EntryOK(entry'[n])
    BY DEF QueueKept
  <1>3. ASSUME NEW n \in Change
        PROVE  KeysTell(n, entry'[n], applied'[n], stored', outcome'[n])
    <2>1. KeysTell(n, entry[n], applied'[n], stored', outcome[n]) /\ Keeps(entry[n], entry'[n])
      BY DEF ServerKeeps, QueueKept
    <2>2. outcome'[n] = "sent" => outcome[n] = "sent" \/ applied'[n] > 0
      BY DEF OutcomeKeeps
    <2> QED
      BY <2>1, <2>2, KeysStay
  <1>4. InTurn(entry')
    BY DEF QueueKept
  <1> QED
    BY <1>1, <1>2, <1>3, <1>4 DEF SyncInv, ScreensKeep, RunsKeep, FlightKeeps

(* Nothing happens to a part. *)
LEMMA ServerIsKept ==
    ASSUME SyncInv, UNCHANGED <<world, known, stored, applied>>
    PROVE  ServerKeeps
  BY SyncSays DEF ServerKeeps
LEMMA OutcomeIsKept ==
    ASSUME SyncInv, outcome' = outcome
    PROVE  OutcomeKeeps
  BY SyncSays DEF OutcomeKeeps, Outcomes
LEMMA ScreensAreKept ==
    ASSUME SyncInv, QueueKept, screen' = screen
    PROVE  ScreensKeep
  BY SyncSays, QueueKeptIs DEF ScreensKeep
LEMMA RunsAreKept ==
    ASSUME SyncInv, QueueKept, run' = run
    PROVE  RunsKeep
  BY SyncSays, QueueKeptIs DEF RunsKeep
LEMMA FlightIsKept ==
    ASSUME SyncInv, QueueKept, inflight' \subseteq inflight
    PROVE  FlightKeeps
  BY SyncSays, QueueKeptIs DEF FlightKeeps

(* A change leaves the queue. *)
LEMMA LeavingIsKept ==
    ASSUME SyncInv, NEW n \in Change, NEW how \in Outcomes, outcome' = [outcome EXCEPT ![n] = how],
           how = "sent" => applied'[n] > 0
    PROVE  OutcomeKeeps
  <1>1. outcome \in [Change -> Outcomes]
    BY SyncSays DEF Outcomes
  <1>2. outcome' \in [Change -> Outcomes]
    BY <1>1
  <1>3. \A m \in Change : outcome'[m] = IF m = n THEN how ELSE outcome[m]
    BY <1>1
  <1> QED
    BY <1>2, <1>3 DEF OutcomeKeeps

(* The server answers a request for it. *)
LEMMA ServingKeeps ==
    ASSUME SyncInv, NEW n \in Change, NEW q \in Version, Proper(q), Serve(n, q),
           entry[n].status # "none", q.kind = entry[n].kind, known' = known
    PROVE  ServerKeeps /\ applied'[n] > 0
  <1>1. SyncShape /\ \A m \in Change : KeysTell(m, entry[m], applied[m], stored, outcome[m])
    BY DEF SyncInv
  <1>2. /\ world' \in [Item -> Server]
        /\ stored' \subseteq Change \X Nat /\ IsFiniteSet(stored')
        /\ DOMAIN applied' = Change
        /\ \A m \in Change : KeysTell(m, entry[m], applied'[m], stored', outcome[m])
        /\ applied'[n] > 0
    BY <1>1, ServeKeeps
  <1> QED
    BY <1>2, SyncSays DEF ServerKeeps

(* A change begins to wait, or to be sent directly. *)
LEMMA WriteKeeps ==
    ASSUME SyncInv, NEW n \in Change, Write(n)
    PROVE  SyncInv'
  <1>1. PICK k \in Kind, is \in (SUBSET Item) \ {{}} : \E to \in Targets[k] :
           /\ k = "check" \/ \E i \in Item : is = {i}
           /\ \/ queueChange(n, New(k, is, to)) /\ UNCHANGED inflight
              \/ /\ entry' = [entry EXCEPT ![n] = [New(k, is, to) EXCEPT !.status = "trying"]]
                 /\ inflight' = inflight \cup {n}
    BY DEF Write
  <1>12. PICK to \in Targets[k] :
           /\ k = "check" \/ \E i \in Item : is = {i}
           /\ \/ queueChange(n, New(k, is, to)) /\ UNCHANGED inflight
              \/ /\ entry' = [entry EXCEPT ![n] = [New(k, is, to) EXCEPT !.status = "trying"]]
                 /\ inflight' = inflight \cup {n}
    BY <1>1
  <1>4. PICK q : q = New(k, is, to)
    OBVIOUS
  <1>2. ~Made(n) /\ UNCHANGED <<screen, run, outcome, server>>
    BY DEF Write
  <1>3. entry[n] = NoEntry /\ entry[n].status = "none"
    <2>1. EntryOK(entry[n])
      BY SyncSays
    <2> QED
      BY <1>2, <2>1 DEF EntryOK, Made
  <1>5. q.kind = k /\ q.items = is /\ q.to = to /\ q.status = "none" /\ q.attempts = 0 /\ q.seq = 0
        /\ q.key = 1 /\ q.missing = {}
    BY <1>4, NoEntryIs DEF NoEntry, New
  <1>6. to \in Value
    <2>1. k = "move" \/ k = "hold" \/ k = "note" \/ k = "check"
      BY BoundsAssumption
    <2>2. to \in Targets[k]
      OBVIOUS
    <2> QED
      BY <2>1, <2>2 DEF Targets, Value
  <1>7. q \in Version
    BY <1>4, <1>6, NoEntryIs DEF NoEntry, New, Version
  <1>8. Proper(q)
    BY <1>12, <1>5 DEF Proper
  <1>9. QueueKept /\ inflight' \subseteq Change /\ \A m \in inflight' : entry'[m].status # "none"
    <2>1. CASE queueChange(n, q) /\ UNCHANGED inflight
      <3>1. QueueKept
        <4>1. ~Queued(entry[n]) /\ q.kind \in Kind \cup {"note"}
          BY <1>3, <1>5 DEF Queued
        <4> QED
          BY <1>3, <1>5, <1>7, <1>8, <2>1, <4>1, QueuedKeeps
      <3> QED
        BY <2>1, <3>1, QueueKeptIs, SyncSays
    <2>2. CASE /\ entry' = [entry EXCEPT ![n] = [q EXCEPT !.status = "trying"]]
               /\ inflight' = inflight \cup {n}
      <3>1. PICK v : v = [q EXCEPT !.status = "trying"]
        OBVIOUS
      <3>2. /\ v \in Version /\ v.status = "trying" /\ v.kind = q.kind /\ v.items = q.items /\ v.to = q.to
            /\ v.seq = 0 /\ v.key = 1 /\ v.attempts = 0 /\ v.missing = {}
        BY <1>5, <1>7, <3>1, OfStatus
      <3>3. EntryOK(v)
        <4>1. Proper(v)
          BY <1>5, <1>8, <3>2 DEF Proper
        <4> QED
          BY <3>2, <4>1 DEF EntryOK, Waiting, Attention
      <3>4. DOMAIN entry' = Change /\ \A m \in Change : entry'[m] = IF m = n THEN v ELSE entry[m]
        BY <2>2, <3>1, SyncSays
      <3>5. ASSUME NEW m \in Change
            PROVE  EntryOK(entry'[m]) /\ Keeps(entry[m], entry'[m])
        <4>1. CASE m = n
          <5>1. Keeps(entry[n], v)
            BY <1>3 DEF Keeps, Queued
          <5> QED
            BY <3>3, <3>4, <4>1, <5>1
        <4>2. CASE m # n
          <5>1. EntryOK(entry[m]) /\ Keeps(entry[m], entry[m])
            BY SyncSays DEF Keeps, Same
          <5> QED
            BY <3>4, <4>2, <5>1
        <4> QED
          BY <4>1, <4>2
      <3>6. \A m \in Change : entry'[m].seq = entry[m].seq
        BY <1>3, <3>2, <3>4, NoEntryIs
      <3>7. InTurn(entry')
        <4>1. Placed(entry') = Placed(entry)
          BY <3>6 DEF Placed
        <4> QED
          BY <3>6, <4>1, SyncSays DEF InTurn
      <3>8. QueueKept
        BY <3>4, <3>5, <3>7 DEF QueueKept
      <3>9. \A m \in inflight' : entry'[m].status # "none"
        BY <2>2, <3>2, <3>4, SyncSays
      <3> QED
        BY <2>2, <3>8, <3>9, SyncSays
    <2> QED
      BY <1>12, <1>4, <2>1, <2>2
  <1>10. QueueKept /\ FlightKeeps
    BY <1>9 DEF FlightKeeps
  <1>11. ScreensKeep /\ RunsKeep /\ ServerKeeps /\ OutcomeKeeps
    BY <1>2, <1>10, ScreensAreKept, RunsAreKept, ServerIsKept, OutcomeIsKept DEF server
  <1> QED
    BY <1>10, <1>11, PartsKeep

(* An entry leaves the queue, or the person's screen. *)
LEMMA LeavesKeeps ==
    ASSUME SyncInv, NEW n \in Change, entry[n].status # "none", NEW how, Leaves(n, how)
    PROVE  QueueKept
  <1>1. entry[n] \in Version /\ EntryOK(entry[n])
    BY SyncSays
  <1>2. PICK v : v = [entry[n] EXCEPT !.status = "gone"]
    OBVIOUS
  <1>3. PICK e \in Version : e = entry[n]
    BY <1>1
  <1>4. /\ v \in Version /\ v.status = "gone" /\ v.kind = e.kind /\ v.items = e.items /\ v.to = e.to
        /\ v.base = e.base /\ v.seq = e.seq /\ v.key = e.key /\ v.force = e.force
        /\ v.attempts = e.attempts /\ v.missing = e.missing /\ Same(v, e)
    <2>1. v = [e EXCEPT !.status = "gone"]
      BY <1>2, <1>3
    <2> QED
      BY ONLY <1>3, <2>1, OfStatus
  <1>5. Proper(e)
    BY <1>1, <1>3 DEF EntryOK
  <1>6. EntryOK(v) /\ Queued(v)
    <2>1. Proper(v)
      BY <1>4, <1>5 DEF Proper
    <2> QED
      BY <1>4, <2>1 DEF EntryOK, Queued, Waiting, Attention
  <1>7. entry' = [entry EXCEPT ![n] = v]
    BY <1>2 DEF Leaves
  <1> QED
    BY ONLY SyncInv, n \in Change, entry[n].status # "none", <1>3, <1>4, <1>6, <1>7, AlterKeeps

(* The direct request arrives, or is refused. *)
LEMMA ArriveKeeps ==
    ASSUME SyncInv, NEW n \in Change, Arrive(n)
    PROVE  SyncInv'
  <1>1. n \in inflight /\ inflight' = inflight \ {n} /\ UNCHANGED <<screen, run, known, others>>
    BY DEF Arrive
  <1>2. entry[n].status # "none" /\ entry[n] \in Version /\ EntryOK(entry[n])
    BY <1>1, SyncSays
  <1>3. Proper(entry[n])
    BY <1>2 DEF EntryOK
  <1>4. CASE entry[n].key = 1 /\ Serve(n, entry[n]) /\ (UNCHANGED <<entry, outcome>> \/ Leaves(n, "sent"))
    <2>1. ServerKeeps /\ applied'[n] > 0
      BY <1>1, <1>2, <1>3, <1>4, ServingKeeps
    <2>4. QueueKept /\ OutcomeKeeps
      <3>1. CASE UNCHANGED <<entry, outcome>>
        BY <3>1, QueueStays, OutcomeIsKept
      <3>2. CASE Leaves(n, "sent")
        <4>1. QueueKept
          BY <1>2, <3>2, LeavesKeeps
        <4>2. OutcomeKeeps
          BY <2>1, <3>2, LeavingIsKept DEF Leaves, Outcomes
        <4> QED
          BY <4>1, <4>2
      <3> QED
        BY <1>4, <3>1, <3>2
    <2> QED
      BY <1>1, <2>1, <2>4, ScreensAreKept, RunsAreKept, FlightIsKept, PartsKeep
  <1>5. CASE Leaves(n, "refused") /\ UNCHANGED <<world, stored, past, applied, off>>
    <2>1. QueueKept
      BY <1>2, <1>5, LeavesKeeps
    <2>2. OutcomeKeeps
      BY <1>5, LeavingIsKept DEF Leaves, Outcomes
    <2>3. ServerKeeps
      BY <1>1, <1>5, ServerIsKept
    <2> QED
      BY <1>1, <2>1, <2>2, <2>3, ScreensAreKept, RunsAreKept, FlightIsKept, PartsKeep
  <1>6. CASE UNCHANGED <<entry, outcome, world, stored, past, applied, off>>
    <2>1. QueueKept
      BY <1>6, QueueStays
    <2> QED
      BY <1>1, <1>6, <2>1, ServerIsKept, OutcomeIsKept, ScreensAreKept, RunsAreKept, FlightIsKept, PartsKeep
  <1> QED
    BY <1>4, <1>5, <1>6 DEF Arrive

(* No answer: it is queued. *)
LEMMA TimeOutKeeps ==
    ASSUME SyncInv, NEW n \in Change, TimeOut(n)
    PROVE  SyncInv'
  <1>1. entry[n].status = "trying" /\ queueChange(n, entry[n])
        /\ UNCHANGED <<screen, run, inflight, outcome, world, known, stored, applied>>
    BY DEF TimeOut, server
  <1>2. entry[n] \in Version /\ EntryOK(entry[n]) /\ entry[n].attempts = 0
    BY <1>1, SyncSays DEF EntryOK
  <1>3. Proper(entry[n]) /\ ~Queued(entry[n]) /\ entry[n].kind \in Kind \cup {"note"}
    BY <1>1, <1>2 DEF EntryOK, Queued, Version
  <1>4. QueueKept
    BY <1>1, <1>2, <1>3, QueuedKeeps
  <1> QED
    BY <1>1, <1>4, ServerIsKept, OutcomeIsKept, ScreensAreKept, RunsAreKept, FlightIsKept, PartsKeep

(* The second tab reads the queue. *)
LEMMA LookKeeps ==
    ASSUME SyncInv, NEW n \in Change, Look(n)
    PROVE  SyncInv'
  <1>1. entry[n].status \in Attention /\ screen' = [screen EXCEPT ![n] = entry[n]]
        /\ UNCHANGED <<entry, run, inflight, outcome, world, known, stored, applied>>
    BY DEF Look, server
  <1>2. QueueKept
    BY <1>1, QueueStays
  <1>3. ScreenOK(entry[n], entry[n])
    <2>1. EntryOK(entry[n])
      BY SyncSays
    <2> QED
      BY <1>1, <2>1 DEF EntryOK, ScreenOK, VersionOf, Queued, Same, Attention, Waiting, Version
  <1>4. ScreensKeep
    BY <1>1, <1>3, SyncSays DEF ScreensKeep
  <1> QED
    BY <1>1, <1>2, <1>4, ServerIsKept, OutcomeIsKept, RunsAreKept, FlightIsKept, PartsKeep

(* What a person is shown is a version of the change that waits for a decision. *)
LEMMA ShownIs ==
    ASSUME SyncInv, NEW n \in Change, NEW q, q = entry[n] \/ q = screen[n], Shown(n, q)
    PROVE  /\ VersionOf(q, entry[n]) /\ q.status \in Attention
           /\ DOMAIN screen' = Change
           /\ \A m \in Change : screen'[m] = screen[m] \/ screen'[m] = NoEntry
           /\ entry[n].status # "none"
  <1>1. q.status \in Attention
    BY DEF Shown
  <1>2. VersionOf(q, entry[n])
    <2>1. CASE q = entry[n]
      <3>1. EntryOK(q)
        BY <2>1, SyncSays
      <3> QED
        BY <1>1, <2>1, <3>1 DEF EntryOK, VersionOf, Queued, Same, Attention, Waiting, Version
    <2>2. CASE q = screen[n]
      <3>1. ScreenOK(q, entry[n])
        BY <2>2, SyncSays
      <3>2. q # NoEntry
        BY <1>1, NoEntryIs DEF Attention
      <3> QED
        BY <3>1, <3>2 DEF ScreenOK
    <2> QED
      BY <2>1, <2>2
  <1>3. DOMAIN screen' = Change /\ \A m \in Change : screen'[m] = screen[m] \/ screen'[m] = NoEntry
    BY SyncSays DEF Shown
  <1> QED
    BY <1>1, <1>2, <1>3 DEF VersionOf, Queued

(* A screen may forget what it shows. *)
LEMMA ScreensForget ==
    ASSUME SyncInv, QueueKept, DOMAIN screen' = Change,
           \A m \in Change : screen'[m] = screen[m] \/ screen'[m] = NoEntry
    PROVE  ScreensKeep
  BY QueueKeptIs DEF ScreensKeep, ScreenOK

(* A number for a request of its own. *)
LEMMA NewIdIs ==
    ASSUME SyncInv
    PROVE  newId \in Nat
  <1> DEFINE f == [n \in Change |-> entry[n].key]
  <1> DEFINE g == [s \in stored |-> s[2]]
  <1>1. PICK F : F = {f[n] : n \in Change}
    OBVIOUS
  <1>2. PICK G : G = {g[s] : s \in stored}
    OBVIOUS
  <1>3. PICK S : S = {entry[n].key : n \in Change} \cup {s[2] : s \in stored}
    OBVIOUS
  <1>4. \A n \in Change : f[n] = entry[n].key /\ f[n] \in Nat
    BY SyncSays DEF Version
  <1>5. \A s \in stored : g[s] = s[2] /\ g[s] \in Nat
    BY SyncSays
  <1>6. S = F \cup G
    BY <1>1, <1>2, <1>3, <1>4, <1>5
  <1>7. IsFiniteSet(F)
    BY ONLY <1>1, ChangesFew, ImageIsFinite
  <1>8. IsFiniteSet(G)
    <2>1. PICK st : st = stored
      OBVIOUS
    <2>2. PICK h : h = g
      OBVIOUS
    <2>3. IsFiniteSet({h[s] : s \in st})
      <3>1. IsFiniteSet(st)
        BY <2>1, SyncSays
      <3> QED
        BY ONLY <3>1, ImageIsFinite
    <2> QED
      BY <1>2, <2>1, <2>2, <2>3
  <1>9. IsFiniteSet(S)
    BY ONLY <1>6, <1>7, <1>8, FS_Union
  <1>10. S \in SUBSET Int /\ S \subseteq Nat
    BY <1>1, <1>2, <1>4, <1>5, <1>6
  <1>11. S # {}
    <2>1. 1 \in Change
      BY BoundsAssumption DEF Change
    <2> QED
      BY <1>3, <2>1
  <1>12. Max(S) \in S
    BY ONLY <1>9, <1>10, <1>11, MaxIsLargest
  <1> HIDE DEF f, g
  <1> QED
    BY <1>3, <1>10, <1>12 DEF newId

(* The person keeps the change. *)
LEMMA KeepMineKeeps ==
    ASSUME SyncInv, NEW n \in Change, keepMine(n)
    PROVE  SyncInv'
  <1>1. PICK q \in {entry[n], screen[n]} :
          /\ Shown(n, q)
          /\ entry' = [entry EXCEPT ![n] =
                [q EXCEPT !.status = "pending", !.force = TRUE, !.attempts = 0, !.keepable = TRUE,
                          !.items = q.items \ q.missing, !.missing = {},
                          !.key = IF q.missing = {} THEN q.key ELSE newId]]
    BY DEF keepMine
  <1>2. UNCHANGED <<run, inflight, outcome, world, known, stored, applied>>
    BY DEF keepMine, server
  <1>3. /\ VersionOf(q, entry[n]) /\ q.status \in Attention
        /\ DOMAIN screen' = Change
        /\ \A m \in Change : screen'[m] = screen[m] \/ screen'[m] = NoEntry
        /\ entry[n].status # "none"
    BY <1>1, ShownIs
  <1>4. PICK key : key = IF q.missing = {} THEN q.key ELSE newId
    OBVIOUS
  <1>5. PICK items : items = q.items \ q.missing
    OBVIOUS
  <1>6. PICK v : v = [q EXCEPT !.status = "pending", !.force = TRUE, !.attempts = 0, !.keepable = TRUE,
                               !.items = items, !.missing = {}, !.key = key]
    OBVIOUS
  <1>7. q \in Version /\ Proper(q) /\ q.seq > 0 /\ Same(q, entry[n])
    BY <1>3 DEF VersionOf
  <1>8. key \in Nat /\ items \in SUBSET Item
    BY <1>4, <1>5, <1>7, NewIdIs DEF Version
  <1>9. v \in Version
    <2>1. 0 \in 0 .. MaxAttempts
      BY BoundsAssumption
    <2> QED
      BY <1>6, <1>7, <1>8, <2>1 DEF Version, Waiting
  <1>10. /\ v.status = "pending" /\ v.kind = q.kind /\ v.items = items /\ v.to = q.to /\ v.base = q.base
         /\ v.seq = q.seq /\ v.key = key /\ v.attempts = 0 /\ v.missing = {}
    BY <1>6, <1>7 DEF Version
  <1>11. q.kind # "check" => key = 1 /\ items = q.items
    BY <1>4, <1>5, <1>7 DEF Proper
  <1>12. EntryOK(v) /\ Queued(v) /\ Same(v, entry[n])
    <2>1. Proper(v)
      BY <1>7, <1>10, <1>11, BoundsAssumption DEF Proper
    <2>2. Same(v, entry[n])
      BY <1>7, <1>10, <1>11 DEF Same
    <2> QED
      BY <1>7, <1>9, <1>10, <2>1, <2>2 DEF EntryOK, Queued
  <1>13. entry' = [entry EXCEPT ![n] = v]
    BY <1>1, <1>4, <1>5, <1>6
  <1>14. QueueKept
    BY ONLY SyncInv, n \in Change, <1>3, <1>12, <1>13, AlterKeeps
  <1>15. ScreensKeep
    BY <1>3, <1>14, ScreensForget
  <1> QED
    BY <1>2, <1>14, <1>15, ServerIsKept, OutcomeIsKept, RunsAreKept, FlightIsKept, PartsKeep

(* The person lets the change go. *)
LEMMA KeepServerKeeps ==
    ASSUME SyncInv, NEW n \in Change, keepServer(n)
    PROVE  SyncInv'
  <1>1. PICK q \in {entry[n], screen[n]} : Shown(n, q)
    BY DEF keepServer
  <1>2. Leaves(n, "discarded") /\ UNCHANGED <<run, inflight, world, known, stored, applied>>
    BY DEF keepServer, server
  <1>3. /\ DOMAIN screen' = Change
        /\ \A m \in Change : screen'[m] = screen[m] \/ screen'[m] = NoEntry
        /\ entry[n].status # "none"
    BY <1>1, ShownIs
  <1>4. QueueKept
    BY <1>2, <1>3, LeavesKeeps
  <1>5. OutcomeKeeps
    BY <1>2, LeavingIsKept DEF Leaves, Outcomes
  <1>6. ScreensKeep
    BY <1>3, <1>4, ScreensForget
  <1> QED
    BY <1>2, <1>4, <1>5, <1>6, ServerIsKept, RunsAreKept, FlightIsKept, PartsKeep

(* A run lists the first of the queue, in its order. *)
LEMMA ListIs ==
    ASSUME SyncInv, NEW t \in Tab, List(t)
    PROVE  \E todo \in Seq(Entries) :
             /\ DOMAIN run' = Tab /\ \A u \in Tab \ {t} : run'[u] = run[u]
             /\ run'[t].phase = "plan" /\ run'[t].stalled = {} /\ run'[t].todo = todo
             /\ Len(todo) \in 1 .. PlanMax
             /\ \A i \in 1 .. Len(todo) : todo[i].n \in Queue /\ todo[i].q = entry[todo[i].n]
             /\ \A i, j \in 1 .. Len(todo) : i < j => todo[i].q.seq < todo[j].q.seq
             /\ \A m \in Queue : \/ \E i \in 1 .. Len(todo) : todo[i].n = m
                                 \/ \A i \in 1 .. Len(todo) : todo[i].q.seq < entry[m].seq
  <1>1. PICK s \in BySeq :
          run' = [run EXCEPT ![t] = [NoRun EXCEPT
                   !.phase = "plan",
                   !.todo = [i \in DOMAIN planBatch(s) |->
                               [n |-> planBatch(s)[i], q |-> entry[planBatch(s)[i]]]]]]
    BY DEF List
  <1>2. Queue \subseteq Change /\ Queue # {}
    BY DEF Queue, List
  <1>3. PICK c : c = Cardinality(Queue)
    OBVIOUS
  <1>4. c \in Nat \ {0}
    <2>1. PICK Q : Q = Queue
      OBVIOUS
    <2>2. IsFiniteSet(Q)
      BY ONLY <1>2, <2>1, ChangesFew, FS_Subset
    <2>3. Cardinality(Q) \in Nat /\ Cardinality(Q) # 0
      BY ONLY <1>2, <2>1, <2>2, FS_CardinalityType, FS_EmptySet
    <2> QED
      BY <1>3, <2>1, <2>3
  <1>5. /\ s \in [1 .. c -> Queue]
        /\ \A m \in Queue : \E i \in 1 .. c : s[i] = m
        /\ \A i, j \in 1 .. c : i < j => entry[s[i]].seq < entry[s[j]].seq
    <2>1. s \in Bijection(1 .. c, Queue) /\ \A i, j \in DOMAIN s : i < j => entry[s[i]].seq < entry[s[j]].seq
      BY <1>3 DEF BySeq
    <2>2. s \in [1 .. c -> Queue] /\ \A m \in Queue : \E i \in 1 .. c : s[i] = m
      BY <2>1 DEF Bijection, Injection, Surjection
    <2> QED
      BY <2>1, <2>2
  <1>6. s \in Seq(Change) /\ Len(s) = c
    BY <1>2, <1>4, <1>5
  <1>7. PICK k : k = Min({PlanMax, Len(s)})
    OBVIOUS
  <1>8. k \in 1 .. PlanMax /\ k <= c
    <2>1. PICK S : S = {PlanMax, c}
      OBVIOUS
    <2>2. S \in SUBSET Nat /\ S # {} /\ PlanMax \in S /\ c \in S
      BY <1>4, <2>1, BoundsAssumption
    <2>4. Min(S) \in S /\ \A x \in S : Min(S) <= x
      BY ONLY <2>2, MinIsLeast
    <2>5. k = Min(S)
      BY <1>6, <1>7, <2>1
    <2>6. k \in S /\ k <= PlanMax /\ k <= c
      BY <2>2, <2>4, <2>5
    <2> QED
      BY <1>4, <2>1, <2>6, BoundsAssumption
  <1>9. PICK batch : batch = planBatch(s)
    OBVIOUS
  <1>10. DOMAIN batch = 1 .. k /\ \A i \in 1 .. k : batch[i] = s[i]
    <2>1. batch = SubSeq(s, 1, k)
      BY <1>7, <1>9 DEF planBatch
    <2>2. k \in Nat /\ k <= Len(s)
      BY <1>6, <1>8, BoundsAssumption
    <2> QED
      BY <1>6, <2>1, <2>2
  <1>11. PICK todo : todo = [i \in 1 .. k |-> [n |-> s[i], q |-> entry[s[i]]]]
    OBVIOUS
  <1>12. \A i \in 1 .. k : i \in 1 .. c /\ s[i] \in Queue /\ s[i] \in Change
    BY <1>2, <1>4, <1>5, <1>8, BoundsAssumption
  <1>13. \A i \in 1 .. k : todo[i] \in Entries /\ todo[i].n = s[i] /\ todo[i].q = entry[s[i]]
    <2>1. \A m \in Change : entry[m] \in Version
      BY SyncSays
    <2> QED
      BY <1>11, <1>12, <2>1 DEF Entries
  <1>14. k \in Nat
    BY <1>8, BoundsAssumption
  <1>15. todo \in Seq(Entries) /\ Len(todo) = k
    BY <1>11, <1>13, <1>14
  <1>16. [i \in DOMAIN planBatch(s) |-> [n |-> planBatch(s)[i], q |-> entry[planBatch(s)[i]]]] = todo
    BY <1>9, <1>10, <1>11
  <1>17. run' = [run EXCEPT ![t] = [NoRun EXCEPT !.phase = "plan", !.todo = todo]]
    BY <1>1, <1>16
  <1>18. PICK r : r = [NoRun EXCEPT !.phase = "plan", !.todo = todo]
    OBVIOUS
  <1>19. r.phase = "plan" /\ r.stalled = {} /\ r.todo = todo
    BY <1>18 DEF NoRun
  <1>20. /\ DOMAIN run' = Tab /\ \A u \in Tab \ {t} : run'[u] = run[u]
         /\ run'[t].phase = "plan" /\ run'[t].stalled = {} /\ run'[t].todo = todo
    BY <1>17, <1>18, <1>19, SyncSays
  <1>21. \A i \in 1 .. k : todo[i].n \in Queue /\ todo[i].q = entry[todo[i].n]
    BY <1>12, <1>13
  <1>22. \A i, j \in 1 .. k : i < j => todo[i].q.seq < todo[j].q.seq
    BY <1>5, <1>12, <1>13
  <1>23. ASSUME NEW m \in Queue, ~\E i \in 1 .. k : todo[i].n = m, NEW i \in 1 .. k
         PROVE  todo[i].q.seq < entry[m].seq
    <2>1. PICK j \in 1 .. c : s[j] = m
      BY <1>5
    <2>2. j \notin 1 .. k
      BY <1>13, <1>23, <2>1
    <2>3. i < j
      BY <1>4, <1>8, <2>2, BoundsAssumption
    <2> QED
      BY <1>5, <1>12, <1>13, <2>1, <2>3
  <1> QED
    BY <1>8, <1>15, <1>20, <1>21, <1>22, <1>23

(* A run begins. *)
LEMMA ListKeeps ==
    ASSUME SyncInv, NEW t \in Tab, List(t)
    PROVE  SyncInv'
  <1>1. PICK todo \in Seq(Entries) :
             /\ DOMAIN run' = Tab /\ \A u \in Tab \ {t} : run'[u] = run[u]
             /\ run'[t].phase = "plan" /\ run'[t].stalled = {} /\ run'[t].todo = todo
             /\ Len(todo) \in 1 .. PlanMax
             /\ \A i \in 1 .. Len(todo) : todo[i].n \in Queue /\ todo[i].q = entry[todo[i].n]
    BY ListIs
  <1>2. UNCHANGED <<entry, screen, inflight, outcome, world, known, stored, applied>>
    BY DEF List, server
  <1>3. QueueKept
    BY <1>2, QueueStays
  <1>4. \A n \in Queue : VersionOf(entry[n], entry[n])
    <2>1. \A n \in Queue : EntryOK(entry[n]) /\ entry[n].status \in Waiting
      BY SyncSays DEF Queue
    <2> QED
      BY <2>1 DEF EntryOK, VersionOf, Queued, Same, Waiting, Attention, Version
  <1>5. PICK en : en = entry
    OBVIOUS
  <1>6. ListOK(todo, en)
    <2>1. todo # <<>> /\ Len(todo) <= PlanMax
      BY <1>1, BoundsAssumption
    <2>2. \A i \in 1 .. Len(todo) : VersionOf(todo[i].q, en[todo[i].n])
      BY <1>1, <1>4, <1>5
    <2> QED
      BY <2>1, <2>2 DEF ListOK
  <1>7. RunsKeep
    <2>1. RunOK(run'[t], entry')
      BY <1>1, <1>2, <1>5, <1>6 DEF RunOK
    <2>2. \A u \in Tab \ {t} : RunOK(run'[u], entry')
      BY <1>1, <1>3, QueueKeptIs
    <2> QED
      BY <1>1, <2>1, <2>2 DEF RunsKeep
  <1> QED
    BY <1>2, <1>3, <1>7, ServerIsKept, OutcomeIsKept, ScreensAreKept, FlightIsKept, PartsKeep

(* What was listed is planned. *)
LEMMA PlanKeeps ==
    ASSUME SyncInv, NEW t \in Tab, Plan(t)
    PROVE  SyncInv'
  <1>1. run[t].phase = "plan" /\ UNCHANGED <<entry, screen, inflight, outcome, world, known, stored, applied>>
    BY DEF Plan
  <1>2. QueueKept
    BY <1>1, QueueStays
  <1>3. PICK todo : todo = run[t].todo
    OBVIOUS
  <1>4. PICK en : en = entry
    OBVIOUS
  <1>5. PICK plan : plan = planSync(todo)
    OBVIOUS
  <1>6. ListOK(todo, en)
    <2>1. RunOK(run[t], en)
      BY <1>4, SyncSays
    <2> QED
      BY <1>1, <1>3, <2>1 DEF RunOK, NoRun
  <1>7. TodoOK(plan, en)
    <2>1. world \in [Item -> Server]
      BY SyncSays
    <2> QED
      BY ONLY <1>5, <1>6, <2>1, PlanIs
  <1>8. Goes(t, plan, {}) /\ {} \in SUBSET Item
    BY <1>3, <1>5 DEF Plan
  <1>9. RunsKeep
    BY <1>2, <1>4, <1>7, <1>8, RunGoes DEF RunsKeep
  <1> QED
    BY <1>1, <1>2, <1>9, ServerIsKept, OutcomeIsKept, ScreensAreKept, FlightIsKept, PartsKeep

(* A run that goes on, stalls on a turn, or stops. *)
LEMMA TurnEnds ==
    ASSUME SyncInv, QueueKept, NEW t \in Tab,
           (Sending(t) /\ (GoesOn(t) \/ StallsOn(t))) \/ Goes(t, <<>>, {})
    PROVE  RunsKeep
  <1>1. PICK en : en = entry
    OBVIOUS
  <1>2. CASE Goes(t, <<>>, {})
    <2>1. {} \in SUBSET Item /\ TodoOK(<<>>, en)
      BY NothingLeft
    <2> QED
      BY <1>1, <1>2, <2>1, RunGoes DEF RunsKeep
  <1>3. CASE Sending(t) /\ (GoesOn(t) \/ StallsOn(t))
    <2>1. /\ TodoOK(Tail(run[t].todo), en) /\ run[t].stalled \in SUBSET Item
          /\ subjectsOf(Current(t).q) \in SUBSET Item
      BY <1>1, <1>3, CurrentIs
    <2>2. PICK rest : rest = Tail(run[t].todo)
      OBVIOUS
    <2>3. PICK st \in SUBSET Item : Goes(t, rest, st)
      <3>1. CASE GoesOn(t)
        BY <2>1, <2>2, <3>1 DEF GoesOn
      <3>2. CASE StallsOn(t)
        <4>1. run[t].stalled \cup subjectsOf(Current(t).q) \in SUBSET Item
          BY <2>1
        <4> QED
          BY <2>2, <3>2, <4>1 DEF StallsOn
      <3> QED
        BY <1>3, <3>1, <3>2
    <2>4. TodoOK(rest, en)
      BY <2>1, <2>2
    <2> QED
      BY <1>1, <2>3, <2>4, RunGoes DEF RunsKeep
  <1> QED
    BY <1>2, <1>3

(* A turn is passed over, or a run stops. *)
LEMMA QuietTurnKeeps ==
    ASSUME SyncInv, NEW t \in Tab, (Sending(t) /\ PassOver(t)) \/ Stop(t)
    PROVE  SyncInv'
  <1>1. UNCHANGED <<entry, screen, inflight, outcome, world, known, stored, applied>>
    BY DEF PassOver, Stop, server
  <1>2. QueueKept
    BY <1>1, QueueStays
  <1>3. RunsKeep
    BY <1>2, TurnEnds DEF PassOver, Stop
  <1> QED
    BY <1>1, <1>2, <1>3, ServerIsKept, OutcomeIsKept, ScreensAreKept, FlightIsKept, PartsKeep

(* A version of what a turn is about is put. *)
LEMMA PutKeeps ==
    ASSUME SyncInv, NEW t \in Tab, Sending(t), NEW v \in Version, updateQueued(t, v),
           Proper(v), Same(v, Current(t).q), v.status \in Waiting
    PROVE  QueueKept
  <1>1. PICK n \in Change : n = Current(t).n
    BY CurrentIs
  <1>2. PICK q : q = Current(t).q
    OBVIOUS
  <1>3. VersionOf(q, entry[n])
    <2>1. PICK en : en = entry
      OBVIOUS
    <2>2. VersionOf(Current(t).q, en[Current(t).n])
      BY <2>1, CurrentIs
    <2> QED
      BY <1>1, <1>2, <2>1, <2>2
  <1>4. entry' = [entry EXCEPT ![n] = v]
    BY <1>1 DEF updateQueued
  <1>5. Same(v, entry[n]) /\ v.seq > 0 /\ entry[n].status # "none"
    BY <1>2, <1>3 DEF VersionOf, Same, Queued
  <1>6. EntryOK(v) /\ Queued(v)
    BY <1>5 DEF EntryOK, Queued, Waiting, Attention
  <1> QED
    BY ONLY SyncInv, <1>1, <1>4, <1>5, <1>6, AlterKeeps

(* The person is asked. *)
LEMMA AskKeeps ==
    ASSUME SyncInv, NEW t \in Tab, Sending(t), Ask(t)
    PROVE  SyncInv'
  <1>1. PICK c \in Verdicts : c = Current(t)
    BY CurrentIs
  <1>2. PICK v : v = [c.q EXCEPT !.status = "conflict", !.keepable = c.keepable, !.missing = c.missing]
    OBVIOUS
  <1>3. updateQueued(t, v) /\ GoesOn(t) /\ UNCHANGED <<screen, inflight, outcome, world, known, stored, applied>>
    BY <1>1, <1>2 DEF Ask, server
  <1>4. c.q \in Version /\ Proper(c.q) /\ (c.missing # {} => c.q.kind = "check")
    BY <1>1, CurrentIs
  <1>5. v \in Version
    BY <1>1, <1>2, <1>4 DEF Verdicts, Version, Waiting, Attention
  <1>6. /\ v.status = "conflict" /\ v.kind = c.q.kind /\ v.items = c.q.items /\ v.to = c.q.to
        /\ v.base = c.q.base /\ v.seq = c.q.seq /\ v.key = c.q.key /\ v.missing = c.missing
    BY <1>2, <1>4 DEF Version
  <1>7. Proper(v)
    BY <1>4, <1>6 DEF Proper
  <1>8. Same(v, Current(t).q) /\ v.status \in Waiting
    BY <1>1, <1>6 DEF Same, Waiting, Attention
  <1>9. QueueKept
    BY <1>3, <1>5, <1>7, <1>8, PutKeeps
  <1>10. RunsKeep
    BY <1>3, <1>9, TurnEnds
  <1> QED
    BY <1>3, <1>9, <1>10, ServerIsKept, OutcomeIsKept, ScreensAreKept, FlightIsKept, PartsKeep

(* A request fails, or is refused. *)
LEMMA RefusedKeeps ==
    ASSUME SyncInv, NEW t \in Tab, Sending(t), Refused(t)
    PROVE  SyncInv'
  <1>1. PICK c \in Verdicts : c = Current(t)
    BY CurrentIs
  <1>2. PICK q : q = [c.q EXCEPT !.attempts = c.q.attempts + 1]
    OBVIOUS
  <1>3. StallsOn(t) /\ UNCHANGED <<screen, inflight, outcome, world, known, stored, applied>>
    BY DEF Refused, server
  <1>4. c.q \in Version /\ Proper(c.q) /\ c.q.status = "pending"
    BY <1>1, CurrentIs
  <1>5. c.q.attempts \in Nat /\ c.q.attempts < MaxAttempts /\ MaxAttempts \in Nat
    BY <1>4, BoundsAssumption DEF Proper, Version
  <1>6. q \in Version
    <2>1. c.q.attempts + 1 \in 0 .. MaxAttempts
      BY <1>5
    <2> QED
      BY <1>2, <1>4, <2>1 DEF Version
  <1>7. /\ q.status = "pending" /\ q.kind = c.q.kind /\ q.items = c.q.items /\ q.to = c.q.to
        /\ q.base = c.q.base /\ q.seq = c.q.seq /\ q.key = c.q.key /\ q.missing = c.q.missing
        /\ q.attempts = c.q.attempts + 1
    BY <1>2, <1>4 DEF Version
  <1>8. CASE ~GivesUp(q) /\ updateQueued(t, q)
    <2>1. Proper(q)
      BY <1>4, <1>5, <1>7, <1>8 DEF Proper, GivesUp
    <2>2. Same(q, Current(t).q) /\ q.status \in Waiting
      BY <1>1, <1>7 DEF Same, Waiting
    <2>3. QueueKept
      BY <1>6, <1>8, <2>1, <2>2, PutKeeps
    <2>4. RunsKeep
      BY <1>3, <2>3, TurnEnds
    <2> QED
      BY <1>3, <2>3, <2>4, ServerIsKept, OutcomeIsKept, ScreensAreKept, FlightIsKept, PartsKeep
  <1>9. CASE updateQueued(t, [q EXCEPT !.status = "rejected"])
    <2>1. PICK v : v = [q EXCEPT !.status = "rejected"]
      OBVIOUS
    <2>2. /\ v \in Version /\ v.status = "rejected" /\ v.kind = q.kind /\ v.items = q.items /\ v.to = q.to
          /\ v.base = q.base /\ v.seq = q.seq /\ v.key = q.key /\ v.missing = q.missing
      <3>1. "rejected" \in Waiting
        BY DEF Waiting, Attention
      <3> QED
        BY <1>6, <2>1, <3>1, OfStatus
    <2>3. Proper(v)
      BY <1>4, <1>7, <2>2 DEF Proper
    <2>4. Same(v, Current(t).q) /\ v.status \in Waiting
      BY <1>1, <1>7, <2>2 DEF Same, Waiting, Attention
    <2>5. QueueKept
      BY <1>9, <2>1, <2>2, <2>3, <2>4, PutKeeps
    <2>6. RunsKeep
      BY <1>3, <2>5, TurnEnds
    <2> QED
      BY <1>3, <2>5, <2>6, ServerIsKept, OutcomeIsKept, ScreensAreKept, FlightIsKept, PartsKeep
  <1> QED
    BY <1>1, <1>2, <1>8, <1>9 DEF Refused

(* What a turn is about is in the queue. *)
LEMMA CurrentWaits ==
    ASSUME SyncInv, NEW t \in Tab, Sending(t), NEW n, n = Current(t).n, NEW q, q = Current(t).q
    PROVE  n \in Change /\ q \in Version /\ Proper(q) /\ entry[n].status # "none" /\ q.kind = entry[n].kind
  <1>1. PICK en : en = entry
    OBVIOUS
  <1>2. n \in Change /\ q \in Version /\ Proper(q) /\ VersionOf(q, en[n])
    BY <1>1, CurrentIs
  <1> QED
    BY <1>1, <1>2 DEF VersionOf, Queued, Same

(* Nothing is to be done. *)
LEMMA SkipKeeps ==
    ASSUME SyncInv, NEW t \in Tab, Sending(t), Skip(t)
    PROVE  SyncInv'
  <1>1. PICK n : n = Current(t).n
    OBVIOUS
  <1>2. Leaves(n, "skipped") /\ GoesOn(t) /\ UNCHANGED <<screen, inflight, world, known, stored, applied>>
    BY <1>1 DEF Skip, server
  <1>3. n \in Change /\ entry[n].status # "none"
    BY <1>1, CurrentWaits
  <1>4. QueueKept
    BY <1>2, <1>3, LeavesKeeps
  <1>5. OutcomeKeeps
    BY <1>2, <1>3, LeavingIsKept DEF Leaves, Outcomes
  <1>6. RunsKeep
    BY <1>2, <1>4, TurnEnds
  <1> QED
    BY <1>2, <1>4, <1>5, <1>6, ServerIsKept, ScreensAreKept, FlightIsKept, PartsKeep

(* It is sent, and the answer arrives or is lost. *)
LEMMA SendKeeps ==
    ASSUME SyncInv, NEW t \in Tab, Sending(t), Send(t) \/ LoseAnswer(t)
    PROVE  SyncInv'
  <1>1. PICK n : n = Current(t).n
    OBVIOUS
  <1>2. PICK q : q = Current(t).q
    OBVIOUS
  <1>3. Serve(n, q) /\ UNCHANGED <<screen, inflight, known>>
    BY <1>1, <1>2 DEF Send, LoseAnswer
  <1>4. n \in Change /\ q \in Version /\ Proper(q) /\ entry[n].status # "none" /\ q.kind = entry[n].kind
    BY <1>1, <1>2, CurrentWaits
  <1>5. ServerKeeps /\ applied'[n] > 0
    BY <1>3, <1>4, ServingKeeps
  <1>6. CASE Send(t)
    <2>1. Leaves(n, "sent") /\ GoesOn(t)
      BY <1>1, <1>6 DEF Send
    <2>2. QueueKept
      BY <1>4, <2>1, LeavesKeeps
    <2>3. OutcomeKeeps
      BY <1>4, <1>5, <2>1, LeavingIsKept DEF Leaves, Outcomes
    <2>4. RunsKeep
      BY <2>1, <2>2, TurnEnds
    <2> QED
      BY <1>3, <1>5, <2>2, <2>3, <2>4, ScreensAreKept, FlightIsKept, PartsKeep
  <1>7. CASE LoseAnswer(t)
    <2>1. Goes(t, <<>>, {}) /\ UNCHANGED <<entry, outcome>>
      BY <1>7 DEF LoseAnswer
    <2>2. QueueKept
      BY <2>1, QueueStays
    <2>3. RunsKeep
      BY <2>1, <2>2, TurnEnds
    <2> QED
      BY <1>3, <1>5, <2>1, <2>2, <2>3, OutcomeIsKept, ScreensAreKept, FlightIsKept, PartsKeep
  <1> QED
    BY <1>6, <1>7

(* Other people change records. *)
LEMMA OthersKeep ==
    ASSUME SyncInv, ChangeElsewhere \/ DeleteRecord \/ DeleteTarget
    PROVE  SyncInv'
  <1>1. world \in [Item -> Server] /\ known \subseteq Place \cup Holder
    BY SyncSays
  <1>2. /\ world' \in [Item -> Server] /\ known' \subseteq Place \cup Holder
        /\ UNCHANGED <<entry, screen, run, inflight, stored, applied, outcome>>
    <2>1. CASE ChangeElsewhere
      <3>1. PICK i \in Item, f \in {"place", "holder"},
                 v \in (known \cap Place) \cup (known \cap Holder) \cup {Nobody} :
               /\ (v \in Place) = (f = "place")
               /\ Other([world EXCEPT ![i][f] = v], {i})
               /\ UNCHANGED known
        BY <2>1 DEF ChangeElsewhere
      <3>2. world' = [world EXCEPT ![i] = [world[i] EXCEPT ![f] = v]]
            /\ UNCHANGED <<entry, screen, run, inflight, stored, applied, outcome>>
        BY <3>1 DEF Other, Becomes
      <3>3. CASE f = "place"
        <4>1. v \in Values.move
          BY <3>1, <3>3 DEF Values
        <4>2. [world[i] EXCEPT !.place = v] \in Server
          BY <1>1, <4>1 DEF Server
        <4>3. world' = [world EXCEPT ![i] = [world[i] EXCEPT !.place = v]]
          BY <3>2, <3>3
        <4>4. world' \in [Item -> Server]
          BY <1>1, <4>2, <4>3
        <4> QED
          BY <1>1, <3>1, <3>2, <4>4
      <3>4. CASE f = "holder"
        <4>1. v \in Values.hold
          BY <3>1, <3>4 DEF Values
        <4>2. [world[i] EXCEPT !.holder = v] \in Server
          BY <1>1, <4>1 DEF Server
        <4>3. world' = [world EXCEPT ![i] = [world[i] EXCEPT !.holder = v]]
          BY <3>2, <3>4
        <4>4. world' \in [Item -> Server]
          BY <1>1, <4>2, <4>3
        <4> QED
          BY <1>1, <3>1, <3>2, <4>4
      <3> QED
        BY <3>3, <3>4
    <2>2. CASE DeleteRecord
      <3>1. PICK i \in Item : Other([world EXCEPT ![i].there = FALSE], {i}) /\ UNCHANGED known
        BY <2>2 DEF DeleteRecord
      <3>2. [world[i] EXCEPT !.there = FALSE] \in Server
        BY <1>1 DEF Server
      <3>3. world' = [world EXCEPT ![i] = [world[i] EXCEPT !.there = FALSE]]
            /\ UNCHANGED <<entry, screen, run, inflight, stored, applied, outcome>>
        BY <3>1 DEF Other, Becomes
      <3>4. world' \in [Item -> Server]
        BY <1>1, <3>2, <3>3
      <3> QED
        BY <1>1, <3>1, <3>3, <3>4
    <2>3. CASE DeleteTarget
      <3>1. PICK v \in known :
               /\ known' = known \ {v}
               /\ Other([i \in Item |-> [world[i] EXCEPT
                            !.place = IF world[i].place = v THEN Nowhere ELSE world[i].place,
                            !.holder = IF world[i].holder = v THEN Unknown ELSE world[i].holder]], Item)
        BY <2>3 DEF DeleteTarget
      <3>2. world' = [i \in Item |-> [world[i] EXCEPT
                            !.place = IF world[i].place = v THEN Nowhere ELSE world[i].place,
                            !.holder = IF world[i].holder = v THEN Unknown ELSE world[i].holder]]
            /\ UNCHANGED <<entry, screen, run, inflight, stored, applied, outcome>>
        BY <3>1 DEF Other, Becomes
      <3>3. ASSUME NEW i \in Item
            PROVE  [world[i] EXCEPT
                            !.place = IF world[i].place = v THEN Nowhere ELSE world[i].place,
                            !.holder = IF world[i].holder = v THEN Unknown ELSE world[i].holder] \in Server
        <4>1. PICK p : p = IF world[i].place = v THEN Nowhere ELSE world[i].place
          OBVIOUS
        <4>2. PICK h : h = IF world[i].holder = v THEN Unknown ELSE world[i].holder
          OBVIOUS
        <4>3. world[i] \in Server
          BY <1>1
        <4>4. p \in Values.move /\ h \in Values.hold
          BY <4>1, <4>2, <4>3 DEF Server, Values
        <4>5. [world[i] EXCEPT !.place = p, !.holder = h] \in Server
          BY <4>3, <4>4 DEF Server
        <4> QED
          BY <4>1, <4>2, <4>5
      <3>4. world' \in [Item -> Server]
        BY <3>2, <3>3
      <3> QED
        BY <1>1, <3>1, <3>2, <3>4
    <2> QED
      BY <2>1, <2>2, <2>3
  <1>3. QueueKept
    BY <1>2, QueueStays
  <1>4. ServerKeeps
    BY <1>2, SyncSays DEF ServerKeeps
  <1> QED
    BY <1>2, <1>3, <1>4, OutcomeIsKept, ScreensAreKept, RunsAreKept, FlightIsKept, PartsKeep

(* Nothing is queued, and nothing runs. *)
LEMMA SyncStarts == Init => SyncInv
  <1> SUFFICES ASSUME Init
               PROVE  SyncInv
    OBVIOUS
  <1>1. /\ entry = [n \in Change |-> NoEntry] /\ screen = entry /\ run = [t \in Tab |-> NoRun]
        /\ inflight = {} /\ known = Place \cup Holder /\ stored = {}
        /\ applied = [n \in Change |-> 0] /\ outcome = [n \in Change |-> "none"]
        /\ world = [i \in Item |-> [there |-> TRUE, place |-> Nowhere, holder |-> Nobody]]
    BY DEF Init
  <1>2. world \in [Item -> Server]
    BY <1>1 DEF Server, Values
  <1>3. SyncShape
    BY <1>1, <1>2, FS_EmptySet DEF SyncShape
  <1>4. \A n \in Change : EntryOK(entry[n])
    BY <1>1, NoEntryIs DEF EntryOK, Waiting, Attention
  <1>5. \A n \in Change : ScreenOK(screen[n], entry[n])
    BY <1>1 DEF ScreenOK
  <1>6. \A t \in Tab : RunOK(run[t], entry)
    BY <1>1 DEF RunOK
  <1>7. InTurn(entry)
    <2>1. \A n \in Change : entry[n].seq = 0
      BY <1>1, NoEntryIs
    <2>2. Placed(entry) = {}
      BY <2>1 DEF Placed
    <2>3. Cardinality(Placed(entry)) = 0
      BY <2>2, FS_EmptySet
    <2> QED
      BY <2>1, <2>3 DEF InTurn
  <1>8. \A n \in Change : KeysTell(n, entry[n], applied[n], stored, outcome[n])
    BY <1>1 DEF KeysTell
  <1> QED
    BY <1>1, <1>3, <1>4, <1>5, <1>6, <1>7, <1>8 DEF SyncInv

(* Whatever the device, a person or the others do. *)
LEMMA SyncStep == SyncInv /\ [Next]_vars => SyncInv'
  <1> SUFFICES ASSUME SyncInv, [Next]_vars
               PROVE  SyncInv'
    OBVIOUS
  <1>1. ASSUME NEW n \in Change, Write(n) \/ Arrive(n) \/ TimeOut(n) \/ StaysListed(n) \/ keepServer(n)
        PROVE  SyncInv'
    BY <1>1, WriteKeeps, ArriveKeeps, TimeOutKeeps, LookKeeps, KeepMineKeeps, KeepServerKeeps DEF StaysListed
  <1>2. ASSUME NEW t \in Tab, GoesAhead(t) \/ Stops(t)
        PROVE  SyncInv'
    BY <1>2, ListKeeps, PlanKeeps, QuietTurnKeeps, AskKeeps, SkipKeeps, SendKeeps, RefusedKeeps
       DEF GoesAhead, Stops, Turn
  <1>3. CASE ChangeElsewhere \/ DeleteRecord \/ DeleteTarget
    BY <1>3, OthersKeep
  <1>4. CASE UNCHANGED vars
    <2>1. UNCHANGED <<entry, screen, run, inflight, outcome, world, known, stored, applied>>
      BY <1>4 DEF vars
    <2>2. QueueKept
      BY <2>1, QueueStays
    <2> QED
      BY <2>1, <2>2, ServerIsKept, OutcomeIsKept, ScreensAreKept, RunsAreKept, FlightIsKept, PartsKeep
  <1> QED
    BY <1>1, <1>2, <1>3, <1>4 DEF Next

(* store.ts, sync.ts, transport.ts: what the queue, the screens and the runs hold are
   versions of the changes made, and the keys tell what was made of them. *)
THEOREM SyncInvariant == Spec => []SyncInv
  BY SyncStarts, SyncStep, PTL DEF Spec

(* The types the runs check. *)
LEMMA SyncTypes == SyncInv => TypeOK
  <1> SUFFICES ASSUME SyncInv
               PROVE  TypeOK
    OBVIOUS
  <1>1. ASSUME NEW n \in Change
        PROVE  /\ entry[n].status \in Waiting \cup {"none", "trying", "gone"}
               /\ entry[n].seq \in 0 .. MaxChange
               /\ entry[n].attempts \in 0 .. MaxAttempts
               /\ entry[n].items \in SUBSET Item
               /\ screen[n].status \in Attention \cup {"none"}
    <2>1. entry[n] \in Version /\ ScreenOK(screen[n], entry[n])
      BY SyncSays
    <2> QED
      BY <2>1, NoEntryIs DEF Version, ScreenOK
  <1>2. ASSUME NEW t \in Tab
        PROVE  run[t].phase \in {"idle", "plan", "send"} /\ Len(run[t].todo) <= PlanMax
    <2>1. RunOK(run[t], entry)
      BY SyncSays
    <2>2. CASE run[t] = NoRun
      <3>1. run[t].phase = "idle" /\ Len(run[t].todo) = 0
        BY <2>2 DEF NoRun
      <3> QED
        BY <3>1, BoundsAssumption
    <2>3. CASE run[t] # NoRun
      BY <2>1, <2>3 DEF RunOK, ListOK, TodoOK
    <2> QED
      BY <2>2, <2>3
  <1>3. ASSUME NEW i \in Item
        PROVE  world[i].place \in Values["move"] /\ world[i].holder \in Values["hold"]
    <2>1. world[i] \in Server
      BY SyncSays
    <2> QED
      BY <2>1 DEF Server
  <1> QED
    BY <1>1, <1>2, <1>3, SyncSays DEF TypeOK

(* Entries, screens, runs and records are of their kinds: the places in the queue and the
   attempts stay within their bounds, and no plan is longer than a request takes. *)
THEOREM SyncTypeCorrect == Spec => []TypeOK
  BY SyncInvariant, SyncTypes, PTL

(* What is sent was made, and made once. *)
LEMMA SyncOnce == SyncInv => AppliedExactlyOnce
  <1> SUFFICES ASSUME SyncInv, NEW n \in Change
               PROVE  (outcome[n] = "sent" => applied[n] > 0) /\ (entry[n].kind # "check" => applied[n] <= 1)
    BY DEF AppliedExactlyOnce
  <1>1. KeysTell(n, entry[n], applied[n], stored, outcome[n])
    BY SyncSays
  <1> QED
    BY <1>1 DEF KeysTell

(* What is said to be sent was made, and made once, however requests, retries, tabs and
   people mix. *)
THEOREM AppliedOnce == Spec => []AppliedExactlyOnce
  BY SyncInvariant, SyncOnce, PTL

-----------------------------------------------------------------------------
(* The order of the queue. *)

(* What a change is about, apart from a check, is one record. *)
LEMMA OneSubject ==
    ASSUME NEW q, Proper(q), NEW S, subjectsOf(q) \cap S # {}
    PROVE  subjectsOf(q) \subseteq S
  <1>1. q.kind # "check" /\ subjectsOf(q) = q.items
    BY DEF subjectsOf
  <1>2. PICK i \in Item : q.items = {i}
    BY <1>1 DEF Proper
  <1> QED
    BY <1>1, <1>2

(* What holds up a change holds up those it shares its record with. *)
LEMMA SharedSubject ==
    ASSUME NEW q, Proper(q), NEW p, Shares(q, p), NEW S, subjectsOf(q) \cap S # {}
    PROVE  subjectsOf(p) \cap S # {}
  <1>1. subjectsOf(q) \subseteq S
    BY OneSubject
  <1> QED
    BY <1>1 DEF Shares

(* Versions of a change are about the same record. *)
LEMMA SameSubject ==
    ASSUME NEW q, NEW e, Same(q, e)
    PROVE  subjectsOf(q) = subjectsOf(e)
  BY DEF Same, subjectsOf

(* What a change makes of the field another is about. *)
LEMMA LaidInto ==
    ASSUME NEW d, Proper(d), NEW q, Proper(q), q.kind \in {"move", "hold"},
           NEW w \in [Item -> Server], NEW v, v = With(d, w)
    PROVE  v[Record(q)][Field(q)]
              = IF d.kind = q.kind /\ d.items = q.items THEN d.to ELSE w[Record(q)][Field(q)]
  <1>1. PICK r \in Item : q.items = {r} /\ Record(q) = r
    BY OneRecord
  <1>2. PICK f : f = Field(q)
    OBVIOUS
  <1>3. f = IF q.kind = "move" THEN "place" ELSE "holder"
    BY <1>2 DEF Field
  <1>4. CASE d.kind \notin {"move", "hold"}
    <2>1. v = w
      BY <1>4, WithIs
    <2> QED
      BY <1>4, <2>1
  <1>5. CASE d.kind = "move"
    <2>1. PICK s \in Item : d.items = {s} /\ Record(d) = s
      BY <1>5, OneRecord
    <2>2. v[r].holder = w[r].holder /\ v[r].place = IF r = s THEN d.to ELSE w[r].place
      BY <1>5, <2>1, WithIs
    <2>3. CASE q.kind = "move"
      <3>1. f = "place" /\ (d.kind = q.kind /\ d.items = q.items <=> r = s)
        BY <1>1, <1>3, <1>5, <2>1, <2>3
      <3>2. v[r][f] = IF r = s THEN d.to ELSE w[r][f]
        BY <2>2, <3>1
      <3> QED
        BY <1>1, <1>2, <3>1, <3>2
    <2>4. CASE q.kind = "hold"
      <3>1. f = "holder" /\ d.kind # q.kind
        BY <1>3, <1>5, <2>4
      <3>2. v[r][f] = w[r][f]
        BY <2>2, <3>1
      <3> QED
        BY <1>1, <1>2, <3>1, <3>2
    <2> QED
      BY <2>3, <2>4
  <1>6. CASE d.kind = "hold"
    <2>1. PICK s \in Item : d.items = {s} /\ Record(d) = s
      BY <1>6, OneRecord
    <2>2. v[r].place = w[r].place /\ v[r].holder = IF r = s THEN d.to ELSE w[r].holder
      BY <1>6, <2>1, WithIs
    <2>3. CASE q.kind = "hold"
      <3>1. f = "holder" /\ (d.kind = q.kind /\ d.items = q.items <=> r = s)
        BY <1>1, <1>3, <1>6, <2>1, <2>3
      <3>2. v[r][f] = IF r = s THEN d.to ELSE w[r][f]
        BY <2>2, <3>1
      <3> QED
        BY <1>1, <1>2, <3>1, <3>2
    <2>4. CASE q.kind = "move"
      <3>1. f = "place" /\ d.kind # q.kind
        BY <1>3, <1>6, <2>4
      <3>2. v[r][f] = w[r][f]
        BY <2>2, <3>1
      <3> QED
        BY <1>1, <1>2, <3>1, <3>2
    <2> QED
      BY <2>3, <2>4
  <1> QED
    BY <1>4, <1>5, <1>6

(* The turn a run is at finds what is there. *)
LEMMA FindsNow ==
    ASSUME NEW todo, NEW q, NEW w, NEW v, v = w[Record(q)][Field(q)]
    PROVE  Finds(todo, 1, q, w, v)
  <1>1. \A j \in 1 .. 1 - 1 : FALSE
    OBVIOUS
  <1> QED
    BY <1>1 DEF Finds

(* What a turn finds depends on those before it. *)
LEMMA FindsBefore ==
    ASSUME NEW p, NEW pp, NEW i \in Nat, \A j \in 1 .. i - 1 : pp[j] = p[j],
           NEW q, NEW w, NEW v, Finds(pp, i, q, w, v)
    PROVE  Finds(p, i, q, w, v)
  <1>1. CASE \E j \in 1 .. i - 1 : /\ Lays(pp[j], q) /\ v = pp[j].q.to
                                   /\ \A x \in j + 1 .. i - 1 : ~Lays(pp[x], q)
    <2>1. PICK j \in 1 .. i - 1 : /\ Lays(pp[j], q) /\ v = pp[j].q.to
                                  /\ \A x \in j + 1 .. i - 1 : ~Lays(pp[x], q)
      BY <1>1
    <2>2. Lays(p[j], q) /\ v = p[j].q.to
      BY <2>1
    <2>3. \A x \in j + 1 .. i - 1 : x \in 1 .. i - 1
      OBVIOUS
    <2>4. \A x \in j + 1 .. i - 1 : ~Lays(p[x], q)
      BY <2>1, <2>3
    <2> QED
      BY <2>2, <2>4 DEF Finds
  <1>2. CASE (\A j \in 1 .. i - 1 : ~Lays(pp[j], q)) /\ v = w[Record(q)][Field(q)]
    <2>1. \A j \in 1 .. i - 1 : ~Lays(p[j], q)
      BY <1>2
    <2> QED
      BY <1>2, <2>1 DEF Finds
  <1> QED
    BY <1>1, <1>2 DEF Finds

(* What a turn finds once the first is done, it found before. *)
LEMMA FindsAfter ==
    ASSUME NEW todo, NEW rest, NEW i \in Nat \ {0}, \A j \in 1 .. i - 1 : rest[j] = todo[j + 1],
           NEW q, NEW w, NEW new, NEW v, Finds(rest, i, q, new, v),
           Lays(todo[1], q) => new[Record(q)][Field(q)] = todo[1].q.to,
           ~Lays(todo[1], q) => new[Record(q)][Field(q)] = w[Record(q)][Field(q)]
    PROVE  Finds(todo, i + 1, q, w, v)
  <1>1. \A x \in 2 .. i : x - 1 \in 1 .. i - 1 /\ rest[x - 1] = todo[x]
    OBVIOUS
  <1>2. CASE \E j \in 1 .. i - 1 : /\ Lays(rest[j], q) /\ v = rest[j].q.to
                                   /\ \A x \in j + 1 .. i - 1 : ~Lays(rest[x], q)
    <2>1. PICK j \in 1 .. i - 1 : /\ Lays(rest[j], q) /\ v = rest[j].q.to
                                  /\ \A x \in j + 1 .. i - 1 : ~Lays(rest[x], q)
      BY <1>2
    <2>2. j + 1 \in 1 .. i + 1 - 1 /\ Lays(todo[j + 1], q) /\ v = todo[j + 1].q.to
      BY <2>1
    <2>3. ASSUME NEW x \in j + 1 + 1 .. i + 1 - 1
          PROVE  ~Lays(todo[x], q)
      <3>1. x - 1 \in j + 1 .. i - 1 /\ x \in 2 .. i
        OBVIOUS
      <3> QED
        BY <1>1, <2>1, <3>1
    <2> QED
      BY <2>2, <2>3 DEF Finds
  <1>3. CASE (\A j \in 1 .. i - 1 : ~Lays(rest[j], q)) /\ v = new[Record(q)][Field(q)]
    <2>1. \A x \in 2 .. i + 1 - 1 : ~Lays(todo[x], q)
      <3>1. \A x \in 2 .. i + 1 - 1 : x \in 2 .. i
        OBVIOUS
      <3> QED
        BY <1>1, <1>3, <3>1
    <2>2. CASE Lays(todo[1], q)
      <3>1. 1 \in 1 .. i + 1 - 1 /\ v = todo[1].q.to
        BY <1>3, <2>2
      <3>2. \A x \in 1 + 1 .. i + 1 - 1 : ~Lays(todo[x], q)
        BY <2>1
      <3> QED
        BY <2>2, <3>1, <3>2 DEF Finds
    <2>3. CASE ~Lays(todo[1], q)
      <3>1. \A x \in 1 .. i + 1 - 1 : x = 1 \/ x \in 2 .. i + 1 - 1
        OBVIOUS
      <3>2. \A x \in 1 .. i + 1 - 1 : ~Lays(todo[x], q)
        BY <2>1, <2>3, <3>1
      <3> QED
        BY <1>3, <2>3, <3>2 DEF Finds
    <2> QED
      BY <2>2, <2>3
  <1> QED
    BY <1>2, <1>3 DEF Finds

(* Records that change are set aside. *)
LEMMA AsideOrSame ==
    ASSUME NEW todo, \A i \in 1 .. Len(todo) : Proper(todo[i].q),
           NEW aside, NEW more, aside \subseteq more, NEW w, NEW new,
           \A r \in Item : r \in more \/ new[r] = w[r], AsPlanned(todo, aside, w)
    PROVE  AsPlanned(todo, more, new)
  <1> SUFFICES ASSUME NEW i \in 1 .. Len(todo), todo[i].q.kind \in {"move", "hold"},
                      todo[i].q.items \cap more = {}, NEW v, Finds(todo, i, todo[i].q, new, v)
               PROVE  Right(todo[i], v)
    BY DEF AsPlanned
  <1>1. PICK q : q = todo[i].q
    OBVIOUS
  <1>2. PICK r \in Item : q.items = {r} /\ Record(q) = r
    BY <1>1, OneRecord
  <1>3. new[r] = w[r]
    BY <1>1, <1>2
  <1>4. Finds(todo, i, q, w, v)
    <2>1. Finds(todo, i, q, new, v)
      BY <1>1
    <2> QED
      BY <1>2, <1>3, <2>1 DEF Finds
  <1>5. todo[i].q.items \cap aside = {}
    OBVIOUS
  <1> QED
    BY <1>1, <1>4, <1>5 DEF AsPlanned

(* What a plan p takes in comes from the first k changes listed, in their order. *)
FromList(p, todo, k) ==
    \A i \in 1 .. Len(p) : \E j \in 1 .. k : /\ p[i].n = todo[j].n /\ p[i].q = todo[j].q
                                            /\ todo[j].q.status = "pending"

(* What it leaves out is blocked. *)
LeavesOut(p, blocked, todo, k) ==
    \A j \in 1 .. k : (\E i \in 1 .. Len(p) : p[i].n = todo[j].n) \/ subjectsOf(todo[j].q) \subseteq blocked

(* Nothing in it overtakes what was listed before it. *)
KeepsTurns(p, todo, k) ==
    \A i \in 1 .. Len(p), j \in 1 .. k :
       todo[j].q.seq < p[i].q.seq /\ Shares(todo[j].q, p[i].q) => \E x \in 1 .. i - 1 : p[x].n = todo[j].n

(* What conflicts is blocked. *)
HoldsUp(p, blocked) ==
    \A i \in 1 .. Len(p) : p[i].verdict = "conflict" => subjectsOf(p[i].q) \subseteq blocked

(* The records as they will be after it, when they are as in w before. *)
ComesTo(p, w, after) ==
    \A q, v : Proper(q) /\ q.kind \in {"move", "hold"} /\ Finds(p, Len(p) + 1, q, w, v)
              => v = after[Record(q)][Field(q)]

(* The turns of a plan that has come to the k-th change of its list. *)
TurnsKept(p, blocked, todo, k) ==
    /\ FromList(p, todo, k) /\ InOrder(p)
    /\ LeavesOut(p, blocked, todo, k)
    /\ KeepsTurns(p, todo, k)
    /\ HoldsUp(p, blocked)
    /\ ConflictsBlock(p) /\ SkipsHolds(p)

(* The k-th change taken in behind a plan, over what was blocked and what is then. *)
Joins(d, p, pp, blocked, more, todo, k) ==
    /\ p \in Seq(Verdicts) /\ d \in Verdicts /\ pp = Append(p, d)
    /\ d.n = todo[k].n /\ d.q = todo[k].q /\ d.q.status = "pending"
    /\ blocked \subseteq more /\ subjectsOf(d.q) \cap blocked = {}
    /\ d.verdict = "conflict" => subjectsOf(d.q) \subseteq more
    /\ d.verdict = "skip" => d.q.kind = "hold"

(* A change judged on records as in now, which are as in after once it is in the plan. *)
Brings(d, p, pp, now, after) ==
    /\ p \in Seq(Verdicts) /\ d \in Verdicts /\ pp = Append(p, d)
    /\ now \in [Item -> Server] /\ Proper(d.q) /\ JudgedBy(d, now)
    /\ after = IF d.verdict = "conflict" THEN now ELSE With(d.q, now)

(* A plan that has come to it, of records that were as in w. *)
Followed(acc, todo, k, w) ==
    /\ acc \in PlanSoFar
    /\ TurnsKept(acc.plan, acc.blocked, todo, k)
    /\ AsPlanned(acc.plan, {}, w)
    /\ ComesTo(acc.plan, w, acc.world)

(* A list in its order. *)
Listed(todo) ==
    /\ todo \in Seq(Entries) /\ InOrder(todo)
    /\ \A i \in 1 .. Len(todo) : Proper(todo[i].q) /\ todo[i].q.seq \in Nat

(* A plan that takes a change in. *)
LEMMA GrownBy ==
    ASSUME NEW p \in Seq(Verdicts), NEW d \in Verdicts, NEW pp, pp = Append(p, d)
    PROVE  /\ Len(p) \in Nat /\ Len(pp) = Len(p) + 1 /\ pp \in Seq(Verdicts)
           /\ pp[Len(p) + 1] = d
           /\ \A i \in 1 .. Len(p) : pp[i] = p[i]
           /\ \A i \in 1 .. Len(pp) : i \in 1 .. Len(p) \/ i = Len(p) + 1
  <1>1. Len(p) \in Nat /\ Len(pp) = Len(p) + 1 /\ pp \in Seq(Verdicts)
    OBVIOUS
  <1>2. pp[Len(p) + 1] = d
    OBVIOUS
  <1>3. \A i \in 1 .. Len(p) : pp[i] = p[i]
    OBVIOUS
  <1>4. \A i \in 1 .. Len(pp) : i \in 1 .. Len(p) \/ i = Len(p) + 1
    BY <1>1
  <1> QED
    BY <1>1, <1>2, <1>3, <1>4

(* Nothing of the plan comes behind the change listed next. *)
LEMMA BeforeNext ==
    ASSUME NEW todo, Listed(todo), NEW k \in 1 .. Len(todo), NEW p, FromList(p, todo, k - 1),
           NEW i \in 1 .. Len(p)
    PROVE  p[i].q.seq \in Nat /\ p[i].q.seq < todo[k].q.seq
  <1>1. PICK j \in 1 .. k - 1 : p[i].q = todo[j].q
    BY DEF FromList
  <1>2. j \in 1 .. Len(todo) /\ j < k
    BY DEF Listed
  <1> QED
    BY <1>1, <1>2 DEF Listed, InOrder

(* A change is held, or left out: the plan stays, and more is blocked. *)
LEMMA FollowedOut ==
    ASSUME NEW todo, Listed(todo), NEW k \in 1 .. Len(todo), NEW w, NEW acc, Followed(acc, todo, k - 1, w),
           NEW new \in PlanSoFar, new.plan = acc.plan, new.world = acc.world,
           acc.blocked \subseteq new.blocked, subjectsOf(todo[k].q) \subseteq new.blocked
    PROVE  Followed(new, todo, k, w)
  <1>1. PICK p : p = acc.plan
    OBVIOUS
  <1>2. new.plan = p
    BY <1>1
  <1>3. k \in Nat /\ \A j \in 1 .. k : j \in 1 .. k - 1 \/ j = k
    BY DEF Listed
  <1>4. FromList(p, todo, k)
    <2>1. \A j \in 1 .. k - 1 : j \in 1 .. k
      BY <1>3
    <2> QED
      BY <1>1, <2>1 DEF Followed, TurnsKept, FromList
  <1>5. LeavesOut(p, new.blocked, todo, k)
    <2>1. LeavesOut(p, acc.blocked, todo, k - 1)
      BY <1>1 DEF Followed, TurnsKept
    <2> QED
      BY <1>3, <2>1 DEF LeavesOut
  <1>6. KeepsTurns(p, todo, k)
    <2>1. KeepsTurns(p, todo, k - 1) /\ FromList(p, todo, k - 1)
      BY <1>1 DEF Followed, TurnsKept
    <2>2. ASSUME NEW i \in 1 .. Len(p), todo[k].q.seq < p[i].q.seq
          PROVE  FALSE
      <3>1. p[i].q.seq \in Nat /\ p[i].q.seq < todo[k].q.seq
        BY <2>1, BeforeNext
      <3>2. todo[k].q.seq \in Nat
        BY DEF Listed
      <3> QED
        BY <2>2, <3>1, <3>2
    <2> QED
      BY <1>3, <2>1, <2>2 DEF KeepsTurns
  <1>7. HoldsUp(p, new.blocked)
    <2>1. HoldsUp(p, acc.blocked)
      BY <1>1 DEF Followed, TurnsKept
    <2> QED
      BY <2>1 DEF HoldsUp
  <1> QED
    BY <1>1, <1>2, <1>4, <1>5, <1>6, <1>7 DEF Followed, TurnsKept

(* The last turn laid, or what was found before it. *)
LEMMA FindsLast ==
    ASSUME NEW pp, NEW m \in Nat \ {0}, NEW q, NEW w, NEW v, Finds(pp, m + 1, q, w, v)
    PROVE  /\ Lays(pp[m], q) => v = pp[m].q.to
           /\ ~Lays(pp[m], q) => Finds(pp, m, q, w, v)
  <1>1. m + 1 - 1 = m /\ m \in 1 .. m /\ \A i \in 1 .. m : i \in 1 .. m - 1 \/ i = m
    OBVIOUS
  <1>2. \/ \E i \in 1 .. m : Lays(pp[i], q) /\ v = pp[i].q.to /\ \A j \in i + 1 .. m : ~Lays(pp[j], q)
        \/ (\A j \in 1 .. m : ~Lays(pp[j], q)) /\ v = w[Record(q)][Field(q)]
    BY <1>1 DEF Finds
  <1>3. CASE \E i \in 1 .. m : Lays(pp[i], q) /\ v = pp[i].q.to /\ \A j \in i + 1 .. m : ~Lays(pp[j], q)
    <2>1. PICK i \in 1 .. m : Lays(pp[i], q) /\ v = pp[i].q.to /\ \A j \in i + 1 .. m : ~Lays(pp[j], q)
      BY <1>3
    <2>2. CASE i = m
      BY <2>1, <2>2
    <2>3. CASE i # m
      <3>1. i \in 1 .. m - 1 /\ m \in i + 1 .. m /\ \A j \in i + 1 .. m - 1 : j \in i + 1 .. m
        BY <2>3
      <3>2. ~Lays(pp[m], q)
        BY <2>1, <3>1
      <3>3. \A j \in i + 1 .. m - 1 : ~Lays(pp[j], q)
        BY <2>1, <3>1
      <3> QED
        BY <2>1, <3>1, <3>2, <3>3 DEF Finds
    <2> QED
      BY <2>2, <2>3
  <1>4. CASE (\A j \in 1 .. m : ~Lays(pp[j], q)) /\ v = w[Record(q)][Field(q)]
    <2>1. \A j \in 1 .. m - 1 : j \in 1 .. m
      OBVIOUS
    <2>2. \A j \in 1 .. m - 1 : ~Lays(pp[j], q)
      BY <1>4, <2>1
    <2> QED
      BY <1>1, <1>4, <2>2 DEF Finds
  <1> QED
    BY <1>2, <1>3, <1>4

(* A change is taken in: what it finds it was judged by, and after it the records are as
   it leaves them. *)
LEMMA FindsTaken ==
    ASSUME NEW p, NEW d, NEW pp, NEW w, NEW now, NEW after, Brings(d, p, pp, now, after),
           ComesTo(p, w, now), AsPlanned(p, {}, w)
    PROVE  AsPlanned(pp, {}, w) /\ ComesTo(pp, w, after)
  <1> SUFFICES ASSUME p \in Seq(Verdicts), d \in Verdicts, pp = Append(p, d),
                      now \in [Item -> Server], Proper(d.q), JudgedBy(d, now),
                      after = IF d.verdict = "conflict" THEN now ELSE With(d.q, now)
               PROVE  AsPlanned(pp, {}, w) /\ ComesTo(pp, w, after)
    BY DEF Brings
  <1>1. /\ Len(p) \in Nat /\ Len(pp) = Len(p) + 1 /\ pp[Len(p) + 1] = d
        /\ \A i \in 1 .. Len(p) : pp[i] = p[i]
        /\ \A i \in 1 .. Len(pp) : i \in 1 .. Len(p) \/ i = Len(p) + 1
    BY ONLY p \in Seq(Verdicts), d \in Verdicts, pp = Append(p, d), GrownBy
  <1>2. ASSUME NEW i \in 1 .. Len(pp), pp[i].q.kind \in {"move", "hold"}, NEW v, Finds(pp, i, pp[i].q, w, v)
        PROVE  Right(pp[i], v)
    <2>1. i \in Nat /\ \A j \in 1 .. i - 1 : j \in 1 .. Len(p)
      BY <1>1
    <2>2. PICK q : q = pp[i].q
      OBVIOUS
    <2>3. Finds(p, i, q, w, v)
      <3>1. \A j \in 1 .. i - 1 : pp[j] = p[j]
        BY <1>1, <2>1
      <3>2. Finds(pp, i, q, w, v)
        BY <1>2, <2>2
      <3> QED
        BY ONLY <2>1, <3>1, <3>2, FindsBefore
    <2>4. CASE i \in 1 .. Len(p)
      <3>1. pp[i] = p[i] /\ p[i].q.items \cap {} = {}
        BY <1>1, <2>4
      <3> QED
        BY <1>2, <2>2, <2>3, <2>4, <3>1 DEF AsPlanned
    <2>5. CASE i = Len(p) + 1
      <3>1. pp[i] = d /\ q = d.q
        BY <1>1, <2>2, <2>5
      <3>2. v = now[Record(q)][Field(q)]
        BY <1>2, <2>2, <2>3, <2>5, <3>1 DEF ComesTo
      <3>3. d.verdict = "skip" => q.kind = "hold" /\ now[Record(q)].holder = q.to
        BY <3>1 DEF JudgedBy
      <3>4. d.verdict = "send" => q.force \/ ~Changed(q, now)
        BY <1>2, <2>2, <3>1 DEF JudgedBy
      <3>5. d.verdict = "skip" => q.kind = "hold" /\ v = q.to
        BY <3>2, <3>3 DEF Field
      <3>6. d.verdict = "send" => q.force \/ v = q.base \/ (q.kind = "move" /\ v = q.to)
        BY <3>2, <3>4 DEF Changed
      <3> QED
        BY <3>1, <3>5, <3>6 DEF Right
    <2> QED
      BY <1>1, <2>4, <2>5
  <1>3. ASSUME NEW q, NEW v, Proper(q), q.kind \in {"move", "hold"}, Finds(pp, Len(pp) + 1, q, w, v)
        PROVE  v = after[Record(q)][Field(q)]
    <2>1. PICK n \in Nat : n = Len(p)
      BY <1>1
    <2>2. PICK m \in Nat \ {0} : m = n + 1
      OBVIOUS
    <2>3. pp[m] = d /\ Finds(pp, m + 1, q, w, v)
      BY <1>1, <1>3, <2>1, <2>2
    <2>4. /\ Lays(d, q) => v = d.q.to
          /\ ~Lays(d, q) => Finds(pp, m, q, w, v)
      <3>1. /\ Lays(pp[m], q) => v = pp[m].q.to
            /\ ~Lays(pp[m], q) => Finds(pp, m, q, w, v)
        BY ONLY <2>2, <2>3, FindsLast
      <3> QED
        BY <2>3, <3>1
    <2>5. CASE Lays(d, q)
      <3>1. v = d.q.to
        BY <2>5, <2>4
      <3>2. d.verdict # "conflict" /\ d.q.kind = q.kind /\ d.q.items = q.items
        BY <2>5 DEF Lays
      <3>3. after = With(d.q, now)
        BY <3>2
      <3>4. after[Record(q)][Field(q)] = d.q.to
        <4>1. PICK e : e = d.q
          OBVIOUS
        <4>2. Proper(e) /\ after = With(e, now) /\ e.kind = q.kind /\ e.items = q.items
          BY <3>2, <3>3, <4>1
        <4> QED
          BY <1>3, <4>1, <4>2, LaidInto
      <3> QED
        BY <3>1, <3>4
    <2>6. CASE ~Lays(d, q)
      <3>1. Finds(p, n + 1, q, w, v)
        <4>1. Finds(pp, m, q, w, v)
          BY <2>6, <2>4
        <4>2. \A j \in 1 .. m - 1 : pp[j] = p[j]
          BY <1>1, <2>1, <2>2
        <4>3. m \in Nat
          OBVIOUS
        <4>4. Finds(p, m, q, w, v)
          BY ONLY <4>1, <4>2, <4>3, FindsBefore
        <4> QED
          BY <2>2, <4>4
      <3>2. v = now[Record(q)][Field(q)]
        BY <1>3, <2>1, <3>1 DEF ComesTo
      <3>3. after[Record(q)][Field(q)] = now[Record(q)][Field(q)]
        <4>1. CASE d.verdict = "conflict"
          BY <4>1
        <4>2. CASE d.verdict # "conflict"
          <5>1. PICK e : e = d.q
            OBVIOUS
          <5>2. Proper(e) /\ after = With(e, now) /\ ~(e.kind = q.kind /\ e.items = q.items)
            BY <2>6, <4>2, <5>1 DEF Lays
          <5> QED
            BY <1>3, <5>2, LaidInto
        <4> QED
          BY <4>1, <4>2
      <3> QED
        BY <3>2, <3>3
    <2> QED
      BY <2>5, <2>6
  <1>4. AsPlanned(pp, {}, w)
    BY <1>2 DEF AsPlanned
  <1>5. ComesTo(pp, w, after)
    BY <1>3 DEF ComesTo
  <1> QED
    BY <1>4, <1>5

(* A change is taken in behind all that the plan has, and shares with nothing held up. *)
LEMMA TurnsTaken ==
    ASSUME NEW todo, Listed(todo), NEW k \in 1 .. Len(todo),
           NEW p, NEW d, NEW pp, NEW blocked, NEW more, Joins(d, p, pp, blocked, more, todo, k),
           NEW h, h = k - 1, TurnsKept(p, blocked, todo, h)
    PROVE  TurnsKept(pp, more, todo, k)
  <1> SUFFICES ASSUME p \in Seq(Verdicts), d \in Verdicts, pp = Append(p, d),
                      d.n = todo[k].n, d.q = todo[k].q, d.q.status = "pending",
                      blocked \subseteq more, subjectsOf(d.q) \cap blocked = {},
                      d.verdict = "conflict" => subjectsOf(d.q) \subseteq more,
                      d.verdict = "skip" => d.q.kind = "hold",
                      FromList(p, todo, k - 1), InOrder(p), LeavesOut(p, blocked, todo, k - 1),
                      KeepsTurns(p, todo, k - 1), HoldsUp(p, blocked), ConflictsBlock(p), SkipsHolds(p)
               PROVE  /\ FromList(pp, todo, k) /\ InOrder(pp) /\ LeavesOut(pp, more, todo, k)
                      /\ KeepsTurns(pp, todo, k) /\ HoldsUp(pp, more) /\ ConflictsBlock(pp) /\ SkipsHolds(pp)
    BY DEF TurnsKept, Joins
  <1>1. /\ Len(p) \in Nat /\ Len(pp) = Len(p) + 1 /\ pp[Len(p) + 1] = d
        /\ \A i \in 1 .. Len(p) : pp[i] = p[i]
        /\ \A i \in 1 .. Len(pp) : i \in 1 .. Len(p) \/ i = Len(p) + 1
    BY ONLY p \in Seq(Verdicts), d \in Verdicts, pp = Append(p, d), GrownBy
  <1>2. PICK n \in Nat : n = Len(p)
    BY <1>1
  <1>3. /\ pp[n + 1] = d /\ \A i \in 1 .. n : pp[i] = p[i] /\ i \in 1 .. Len(p)
        /\ \A i \in 1 .. Len(pp) : i \in 1 .. n \/ i = n + 1
        /\ n + 1 \in 1 .. Len(pp) /\ \A i \in 1 .. n : i \in 1 .. Len(pp)
    BY <1>1, <1>2
  <1>4. k \in Nat /\ k \in 1 .. k /\ \A j \in 1 .. k : j \in 1 .. k - 1 \/ j = k
    BY DEF Listed
  <1>5. \A j \in 1 .. k - 1 : j \in 1 .. k
    BY <1>4
  <1>6. \A i \in 1 .. n : p[i].q.seq \in Nat /\ p[i].q.seq < d.q.seq
    BY <1>3, BeforeNext
  <1>7. FromList(pp, todo, k)
    BY <1>3, <1>4, <1>5 DEF FromList
  <1>8. InOrder(pp)
    <2> SUFFICES ASSUME NEW i \in 1 .. Len(pp), NEW j \in 1 .. Len(pp), i < j
                 PROVE  pp[i].q.seq < pp[j].q.seq
      BY DEF InOrder
    <2>1. i \in 1 .. n
      BY <1>1, <1>2
    <2>2. CASE j \in 1 .. n
      BY <1>3, <2>1, <2>2 DEF InOrder
    <2>3. CASE j = n + 1
      BY <1>3, <1>6, <2>1, <2>3
    <2> QED
      BY <1>3, <2>2, <2>3
  <1>9. LeavesOut(pp, more, todo, k)
    <2> SUFFICES ASSUME NEW j \in 1 .. k, ~(subjectsOf(todo[j].q) \subseteq more)
                 PROVE  \E i \in 1 .. Len(pp) : pp[i].n = todo[j].n
      BY DEF LeavesOut
    <2>1. CASE j = k
      BY <1>3, <2>1
    <2>2. CASE j \in 1 .. k - 1
      <3>1. PICK i \in 1 .. Len(p) : p[i].n = todo[j].n
        BY <2>2 DEF LeavesOut
      <3> QED
        BY <1>2, <1>3, <3>1
    <2> QED
      BY <1>4, <2>1, <2>2
  <1>10. KeepsTurns(pp, todo, k)
    <2> SUFFICES ASSUME NEW i \in 1 .. Len(pp), NEW j \in 1 .. k,
                        todo[j].q.seq < pp[i].q.seq, Shares(todo[j].q, pp[i].q)
                 PROVE  \E x \in 1 .. i - 1 : pp[x].n = todo[j].n
      BY DEF KeepsTurns
    <2>1. todo[k].q.seq \in Nat /\ j \in 1 .. Len(todo)
      BY DEF Listed
    <2>2. CASE i \in 1 .. n
      <3>1. pp[i] = p[i] /\ p[i].q.seq \in Nat /\ p[i].q.seq < todo[k].q.seq
        BY <1>3, <1>6, <2>2
      <3>2. j # k
        BY <2>1, <3>1
      <3>3. j \in 1 .. k - 1 /\ i \in 1 .. Len(p)
        BY <1>2, <1>4, <2>2, <3>2
      <3>4. PICK x \in 1 .. i - 1 : p[x].n = todo[j].n
        BY <3>1, <3>3 DEF KeepsTurns
      <3>5. x \in 1 .. n
        BY <1>2, <2>2
      <3> QED
        BY <1>3, <3>4, <3>5
    <2>3. CASE i = n + 1
      <3>1. pp[i] = d /\ i - 1 = n
        BY <1>2, <1>3, <2>3
      <3>2. j # k
        BY <2>1, <3>1
      <3>3. j \in 1 .. k - 1
        BY <1>4, <3>2
      <3>4. CASE \E x \in 1 .. Len(p) : p[x].n = todo[j].n
        BY <1>2, <1>3, <3>1, <3>4
      <3>5. CASE subjectsOf(todo[j].q) \subseteq blocked
        <4>1. subjectsOf(todo[j].q) \cap subjectsOf(d.q) # {}
          BY <3>1 DEF Shares
        <4> QED
          BY <3>5, <4>1
      <3> QED
        BY <3>3, <3>4, <3>5 DEF LeavesOut
    <2> QED
      BY <1>3, <2>2, <2>3
  <1>11. HoldsUp(pp, more)
    <2> SUFFICES ASSUME NEW i \in 1 .. Len(pp), pp[i].verdict = "conflict"
                 PROVE  subjectsOf(pp[i].q) \subseteq more
      BY DEF HoldsUp
    <2>1. CASE i \in 1 .. n
      <3>1. subjectsOf(p[i].q) \subseteq blocked
        BY <1>3, <2>1 DEF HoldsUp
      <3> QED
        BY <1>3, <2>1, <3>1
    <2>2. CASE i = n + 1
      BY <1>3, <2>2
    <2> QED
      BY <1>3, <2>1, <2>2
  <1>12. ConflictsBlock(pp)
    <2> SUFFICES ASSUME NEW i \in 1 .. Len(pp), NEW j \in 1 .. Len(pp), i < j,
                        pp[i].verdict = "conflict", Shares(pp[i].q, pp[j].q)
                 PROVE  FALSE
      BY DEF ConflictsBlock
    <2>1. i \in 1 .. n
      BY <1>1, <1>2
    <2>2. CASE j \in 1 .. n
      BY <1>3, <2>1, <2>2 DEF ConflictsBlock
    <2>3. CASE j = n + 1
      <3>1. subjectsOf(p[i].q) \subseteq blocked
        BY <1>3, <2>1 DEF HoldsUp
      <3>2. subjectsOf(p[i].q) \cap subjectsOf(d.q) # {}
        BY <1>3, <2>1, <2>3 DEF Shares
      <3> QED
        BY <3>1, <3>2
    <2> QED
      BY <1>3, <2>2, <2>3
  <1>13. SkipsHolds(pp)
    BY <1>3 DEF SkipsHolds
  <1> QED
    BY <1>7, <1>8, <1>9, <1>10, <1>11, <1>12, <1>13

(* The plan goes on with the change listed next. *)
LEMMA FollowedOn ==
    ASSUME NEW todo, Listed(todo), NEW k \in 1 .. Len(todo), NEW w, NEW acc, Followed(acc, todo, k - 1, w),
           NEW new, new = PlanOne(acc, todo[k])
    PROVE  Followed(new, todo, k, w)
  <1>1. PICK e \in Entries : e = todo[k]
    BY DEF Listed
  <1>2. Proper(e.q) /\ acc \in PlanSoFar
    BY <1>1 DEF Listed, Followed
  <1>3. /\ new \in PlanSoFar
        /\ HoldsBack(acc, e, new) \/ LeftOut(acc, e, new) \/ \E d \in Verdicts : TakenIn(acc, e, new, d)
    <2>1. new = PlanOne(acc, e)
      BY <1>1
    <2> QED
      BY ONLY <1>1, <1>2, <2>1, PlanOneIs
  <1>4. CASE HoldsBack(acc, e, new)
    <2>1. /\ new.plan = acc.plan /\ new.world = acc.world
          /\ acc.blocked \subseteq new.blocked /\ subjectsOf(e.q) \subseteq new.blocked
      BY <1>4 DEF HoldsBack
    <2> QED
      BY <1>1, <1>3, <2>1, FollowedOut
  <1>5. CASE LeftOut(acc, e, new)
    <2>1. new = acc /\ subjectsOf(e.q) \cap acc.blocked # {}
      BY <1>5 DEF LeftOut
    <2>2. subjectsOf(e.q) \subseteq acc.blocked
      <3>1. PICK q : q = e.q
        OBVIOUS
      <3>2. PICK S : S = acc.blocked
        OBVIOUS
      <3>3. subjectsOf(q) \subseteq S
        BY <1>2, <2>1, <3>1, <3>2, OneSubject
      <3> QED
        BY <3>1, <3>2, <3>3
    <2> QED
      BY <1>1, <1>3, <2>1, <2>2, FollowedOut
  <1>6. ASSUME NEW d \in Verdicts, TakenIn(acc, e, new, d)
        PROVE  Followed(new, todo, k, w)
    <2>1. PICK p \in Seq(Verdicts) : p = acc.plan
      BY <1>2 DEF PlanSoFar
    <2>2. PICK now \in [Item -> Server] : now = acc.world
      BY <1>2 DEF PlanSoFar
    <2>3. PICK blocked : blocked = acc.blocked
      OBVIOUS
    <2>4. PICK pp : pp = Append(p, d)
      OBVIOUS
    <2>5. PICK more : more = new.blocked
      OBVIOUS
    <2>6. PICK after : after = new.world
      OBVIOUS
    <2>7. /\ d.n = todo[k].n /\ d.q = todo[k].q /\ d.q.status = "pending" /\ subjectsOf(d.q) \cap blocked = {}
          /\ JudgedBy(d, now) /\ new.plan = pp /\ Proper(d.q)
      BY <1>1, <1>2, <1>6, <2>1, <2>2, <2>3, <2>4 DEF TakenIn
    <2>8. blocked \subseteq more /\ (d.verdict = "conflict" => subjectsOf(d.q) \subseteq more)
      BY <1>1, <1>6, <2>3, <2>5, <2>7 DEF TakenIn
    <2>9. after = IF d.verdict = "conflict" THEN now ELSE With(d.q, now)
      BY <1>1, <1>6, <2>2, <2>6, <2>7 DEF TakenIn
    <2>10. d.verdict = "skip" => d.q.kind = "hold"
      BY <2>7 DEF JudgedBy
    <2>11. TurnsKept(p, blocked, todo, k - 1)
      BY <2>1, <2>3 DEF Followed
    <2>12. AsPlanned(p, {}, w) /\ ComesTo(p, w, now)
      BY <2>1, <2>2 DEF Followed
    <2>13. TurnsKept(pp, more, todo, k)
      <3>1. Joins(d, p, pp, blocked, more, todo, k)
        BY <1>6, <2>1, <2>4, <2>7, <2>8, <2>10 DEF Joins
      <3>2. PICK h : h = k - 1
        OBVIOUS
      <3>3. TurnsKept(p, blocked, todo, h)
        BY <2>11, <3>2
      <3> QED
        BY ONLY Listed(todo), k \in 1 .. Len(todo), <3>1, <3>2, <3>3, TurnsTaken
    <2>14. AsPlanned(pp, {}, w) /\ ComesTo(pp, w, after)
      <3>1. Brings(d, p, pp, now, after)
        BY <1>6, <2>1, <2>2, <2>4, <2>7, <2>9 DEF Brings
      <3> QED
        BY ONLY <2>12, <3>1, FindsTaken
    <2> QED
      BY <1>3, <2>5, <2>6, <2>7, <2>13, <2>14 DEF Followed
  <1> QED
    BY <1>3, <1>4, <1>5, <1>6

(* Nothing is planned at first. *)
LEMMA FollowedAtFirst ==
    ASSUME NEW w \in [Item -> Server], NEW todo, NEW start, start = [world |-> w, blocked |-> {}, plan |-> <<>>]
    PROVE  Followed(start, todo, 0, w)
  <1>1. start \in PlanSoFar /\ start.world = w /\ start.blocked = {}
    BY DEF PlanSoFar
  <1>2. PICK p : p = start.plan
    OBVIOUS
  <1>3. Len(p) = 0 /\ 1 .. Len(p) = {} /\ 1 .. 0 = {}
    BY <1>2
  <1>4. FromList(p, todo, 0) /\ LeavesOut(p, {}, todo, 0) /\ KeepsTurns(p, todo, 0) /\ HoldsUp(p, {})
    BY <1>3 DEF FromList, LeavesOut, KeepsTurns, HoldsUp
  <1>5. InOrder(p) /\ ConflictsBlock(p) /\ SkipsHolds(p) /\ AsPlanned(p, {}, w)
    BY <1>3 DEF InOrder, ConflictsBlock, SkipsHolds, AsPlanned
  <1>6. ComesTo(p, w, w)
    <2>1. 1 .. Len(p) + 1 - 1 = {}
      BY <1>3
    <2> QED
      BY <2>1 DEF ComesTo, Finds
  <1> QED
    BY <1>1, <1>2, <1>4, <1>5, <1>6 DEF Followed, TurnsKept

(* The plan follows the list, over the records as they are. *)
LEMMA PlanFollows ==
    ASSUME world \in [Item -> Server], NEW w, w = world, NEW todo, Listed(todo)
    PROVE  \E acc : Followed(acc, todo, Len(todo), w) /\ acc.plan = planSync(todo)
  <1>1. PICK n \in Nat : n = Len(todo)
    BY DEF Listed
  <1>2. DOMAIN todo = 1 .. n
    BY <1>1 DEF Listed
  <1>3. /\ Planned(todo, 0) = PlanStart
        /\ \A k \in 1 .. n : Planned(todo, k) = PlanOne(Planned(todo, k - 1), todo[k])
        /\ planSync(todo) = Planned(todo, n).plan
    BY ONLY <1>1, <1>2, PlannedIs
  <1> DEFINE T == {k \in 0 .. n : Followed(Planned(todo, k), todo, k, w)}
  <1>4. 0 \in T
    <2>1. PICK start : start = Planned(todo, 0)
      OBVIOUS
    <2>2. start = [world |-> w, blocked |-> {}, plan |-> <<>>]
      BY <1>3, <2>1 DEF PlanStart
    <2>3. Followed(start, todo, 0, w)
      <3>1. w \in [Item -> Server]
        OBVIOUS
      <3> QED
        BY ONLY <2>2, <3>1, FollowedAtFirst
    <2>4. 0 \in 0 .. n
      BY <1>1
    <2> QED
      BY <2>1, <2>3, <2>4
  <1>5. ASSUME NEW k \in 1 .. n, k - 1 \in T
        PROVE  k \in T
    <2>1. PICK acc : acc = Planned(todo, k - 1)
      OBVIOUS
    <2>2. PICK new : new = Planned(todo, k)
      OBVIOUS
    <2>3. Followed(acc, todo, k - 1, w) /\ new = PlanOne(acc, todo[k]) /\ k \in 1 .. Len(todo)
      BY <1>1, <1>3, <1>5, <2>1, <2>2
    <2>4. Followed(new, todo, k, w)
      BY ONLY Listed(todo), <2>3, FollowedOn
    <2>5. k \in 0 .. n
      BY <1>1
    <2> QED
      BY <2>2, <2>4, <2>5
  <1>6. \A k \in 0 .. n : k \in T
    <2> HIDE DEF T
    <2> QED
      BY ONLY <1>1, <1>4, <1>5, OneAfterOther
  <1>7. Followed(Planned(todo, n), todo, n, w)
    <2>1. n \in 0 .. n
      BY <1>1
    <2> QED
      BY <1>6, <2>1
  <1> QED
    BY <1>1, <1>3, <1>7

(* A run takes over the plan of what it listed. *)
LEMMA PlanIsRight ==
    ASSUME world \in [Item -> Server], NEW w, w = world, NEW todo, NEW en, ListOK(todo, en),
           InOrder(todo), AsListed(todo, en), NEW plan, plan = planSync(todo)
    PROVE  /\ InOrder(plan) /\ ConflictsBlock(plan) /\ SkipsHolds(plan) /\ AsPlanned(plan, {}, w)
           /\ \A i \in 1 .. Len(plan) : en[plan[i].n] = plan[i].q
           /\ NoneBefore(plan, {}, en)
  <1>1. /\ todo \in Seq(Entries) /\ Len(todo) \in Nat
        /\ \A i \in 1 .. Len(todo) : VersionOf(todo[i].q, en[todo[i].n])
    BY DEF ListOK
  <1>2. \A i \in 1 .. Len(todo) : Proper(todo[i].q) /\ todo[i].q.seq \in Nat /\ Same(todo[i].q, en[todo[i].n])
    BY <1>1 DEF VersionOf, Version
  <1>3. Listed(todo)
    BY <1>1, <1>2 DEF Listed
  <1>4. PICK acc : Followed(acc, todo, Len(todo), w) /\ acc.plan = plan
    <2>1. \E acc : Followed(acc, todo, Len(todo), w) /\ acc.plan = planSync(todo)
      BY ONLY world \in [Item -> Server], w = world, <1>3, PlanFollows
    <2> QED
      BY <2>1
  <1>5. /\ FromList(plan, todo, Len(todo)) /\ KeepsTurns(plan, todo, Len(todo))
        /\ InOrder(plan) /\ ConflictsBlock(plan) /\ SkipsHolds(plan) /\ AsPlanned(plan, {}, w)
    BY <1>4 DEF Followed, TurnsKept
  <1>6. \A i \in 1 .. Len(plan) : en[plan[i].n] = plan[i].q
    BY <1>5 DEF FromList, AsListed
  <1>7. ASSUME NEW i \in 1 .. Len(plan), NEW m \in Change, en[m].status \in Waiting,
               en[m].seq < plan[i].q.seq, Shares(en[m], plan[i].q)
        PROVE  \E x \in 1 .. i - 1 : plan[x].n = m
    <2>1. PICK k \in 1 .. Len(todo) : plan[i].q = todo[k].q
      BY <1>5 DEF FromList
    <2>2. PICK j \in 1 .. k - 1 : todo[j].n = m
      BY <1>7, <2>1 DEF AsListed
    <2>3. j \in 1 .. Len(todo)
      BY <1>1, <2>1
    <2>4. Same(todo[j].q, en[m])
      BY <1>2, <2>2, <2>3
    <2>5. subjectsOf(todo[j].q) = subjectsOf(en[m]) /\ todo[j].q.seq = en[m].seq
      <3>1. PICK q : q = todo[j].q
        OBVIOUS
      <3>2. PICK e : e = en[m]
        OBVIOUS
      <3>3. Same(q, e)
        BY <2>4, <3>1, <3>2
      <3>4. subjectsOf(q) = subjectsOf(e) /\ q.seq = e.seq
        BY ONLY <3>3, SameSubject DEF Same
      <3> QED
        BY <3>1, <3>2, <3>4
    <2>6. todo[j].q.seq < plan[i].q.seq /\ Shares(todo[j].q, plan[i].q)
      BY <1>7, <2>5 DEF Shares
    <2> QED
      BY <1>5, <2>2, <2>3, <2>6 DEF KeepsTurns
  <1>8. NoneBefore(plan, {}, en)
    BY <1>7 DEF NoneBefore
  <1> QED
    BY <1>5, <1>6, <1>8

(* What a step makes of the first of the changes to be done: it no longer waits, or what
   it is about is held up. *)
Behind(c, st, em) ==
    em[c.n].status \in Waiting
       => /\ subjectsOf(em[c.n]) = subjectsOf(c.q)
          /\ c.verdict = "conflict" \/ subjectsOf(c.q) \subseteq st

(* And of the records: what it lays is there for those that nothing is wrong about. *)
Laid(c, aside, w, new) ==
    \A q : Proper(q) /\ q.kind \in {"move", "hold"} /\ q.items \cap aside = {}
           => new[Record(q)][Field(q)] = IF Lays(c, q) THEN c.q.to ELSE w[Record(q)][Field(q)]

(* A turn is over. *)
LEMMA TurnDone ==
    ASSUME NEW todo \in Seq(Verdicts), todo # <<>>, InOrder(todo),
           \A i \in 1 .. Len(todo) : Proper(todo[i].q) /\ todo[i].q.seq \in Nat,
           NEW stalled, NEW en, NEW w, NEW wrong, TurnsRight(todo, stalled, en, w, wrong),
           NEW rest, rest = Tail(todo), NEW st, stalled \subseteq st, NEW more, wrong \subseteq more,
           NEW c, c = Head(todo), NEW em, \A m \in Change \ {c.n} : em[m] = en[m], Behind(c, st, em),
           NEW new, Laid(c, more \cup st, w, new)
    PROVE  InOrder(rest) /\ TurnsRight(rest, st, em, new, more)
  <1>1. /\ Len(todo) \in Nat \ {0} /\ Len(rest) = Len(todo) - 1 /\ c = todo[1] /\ 1 \in 1 .. Len(todo)
        /\ rest \in Seq(Verdicts)
    OBVIOUS
  <1>2. \A i \in 1 .. Len(rest) : rest[i] = todo[i + 1] /\ i + 1 \in 1 .. Len(todo) /\ 1 < i + 1
    BY <1>1
  <1>3. /\ \A i \in 1 .. Len(todo) : en[todo[i].n] = todo[i].q
        /\ ConflictsBlock(todo) /\ SkipsHolds(todo)
        /\ NoneBefore(todo, stalled, en) /\ AsPlanned(todo, wrong \cup stalled, w)
    BY DEF TurnsRight
  <1>4. InOrder(rest)
    <2> SUFFICES ASSUME NEW i \in 1 .. Len(rest), NEW j \in 1 .. Len(rest), i < j
                 PROVE  rest[i].q.seq < rest[j].q.seq
      BY DEF InOrder
    <2>1. i + 1 < j + 1
      OBVIOUS
    <2> QED
      BY <1>2, <2>1 DEF InOrder
  <1>5. ASSUME NEW i \in 1 .. Len(rest)
        PROVE  rest[i].n \in Change /\ rest[i].n # c.n /\ em[rest[i].n] = rest[i].q
    <2>1. rest[i].n \in Change
      <3>1. rest[i] \in Verdicts
        BY <1>1
      <3> QED
        BY <3>1 DEF Verdicts
    <2>2. c.q.seq < rest[i].q.seq /\ c.q.seq \in Nat /\ rest[i].q.seq \in Nat
      BY <1>1, <1>2 DEF InOrder
    <2>3. en[c.n] = c.q /\ en[rest[i].n] = rest[i].q
      BY <1>1, <1>2, <1>3
    <2>4. rest[i].n # c.n
      BY <2>2, <2>3
    <2> QED
      BY <2>1, <2>3, <2>4
  <1>6. ConflictsBlock(rest)
    <2> SUFFICES ASSUME NEW i \in 1 .. Len(rest), NEW j \in 1 .. Len(rest), i < j,
                        rest[i].verdict = "conflict"
                 PROVE  ~Shares(rest[i].q, rest[j].q)
      BY DEF ConflictsBlock
    <2>1. i + 1 < j + 1
      OBVIOUS
    <2> QED
      BY <1>2, <1>3, <2>1 DEF ConflictsBlock
  <1>7. SkipsHolds(rest)
    BY <1>2, <1>3 DEF SkipsHolds
  <1>8. NoneBefore(rest, st, em)
    <2> SUFFICES ASSUME NEW i \in 1 .. Len(rest), NEW m \in Change, em[m].status \in Waiting,
                        em[m].seq < rest[i].q.seq, Shares(em[m], rest[i].q),
                        subjectsOf(rest[i].q) \cap st = {}
                 PROVE  \E j \in 1 .. i - 1 : rest[j].n = m
      BY DEF NoneBefore
    <2>1. CASE m = c.n
      <3>1. subjectsOf(em[m]) = subjectsOf(c.q) /\ (c.verdict = "conflict" \/ subjectsOf(c.q) \subseteq st)
        BY <2>1 DEF Behind
      <3>2. Shares(c.q, rest[i].q)
        BY <3>1 DEF Shares
      <3>3. CASE c.verdict = "conflict"
        BY <1>1, <1>2, <1>3, <3>2, <3>3 DEF ConflictsBlock
      <3>4. CASE subjectsOf(c.q) \subseteq st
        BY <3>2, <3>4 DEF Shares
      <3> QED
        BY <3>1, <3>3, <3>4
    <2>2. CASE m # c.n
      <3>1. em[m] = en[m]
        BY <2>2
      <3>2. PICK k \in 1 .. Len(todo) : k = i + 1
        BY <1>2
      <3>3. rest[i] = todo[k] /\ subjectsOf(todo[k].q) \cap stalled = {}
        BY <1>2, <3>2
      <3>4. en[m].status \in Waiting /\ en[m].seq < todo[k].q.seq /\ Shares(en[m], todo[k].q)
        BY <3>1, <3>3
      <3>5. PICK j \in 1 .. k - 1 : todo[j].n = m
        BY <1>3, <3>3, <3>4 DEF NoneBefore
      <3>6. j # 1
        BY <1>1, <2>2, <3>5
      <3>7. j - 1 \in 1 .. i - 1 /\ j - 1 \in 1 .. Len(rest) /\ j - 1 + 1 = j
        BY <3>2, <3>5, <3>6
      <3>8. rest[j - 1] = todo[j]
        BY <1>2, <3>7
      <3> QED
        BY <3>5, <3>7, <3>8
    <2> QED
      BY <2>1, <2>2
  <1>9. AsPlanned(rest, more \cup st, new)
    <2> SUFFICES ASSUME NEW i \in 1 .. Len(rest), rest[i].q.kind \in {"move", "hold"},
                        rest[i].q.items \cap (more \cup st) = {}, NEW v, Finds(rest, i, rest[i].q, new, v)
                 PROVE  Right(rest[i], v)
      BY DEF AsPlanned
    <2>1. PICK q : q = rest[i].q
      OBVIOUS
    <2>2. rest[i] = todo[i + 1] /\ i + 1 \in 1 .. Len(todo) /\ Proper(q)
      BY <1>2, <2>1
    <2>3. new[Record(q)][Field(q)] = IF Lays(todo[1], q) THEN todo[1].q.to ELSE w[Record(q)][Field(q)]
      BY <1>1, <2>1, <2>2 DEF Laid
    <2>4. Finds(todo, i + 1, q, w, v)
      <3>1. i \in Nat \ {0} /\ \A j \in 1 .. i - 1 : rest[j] = todo[j + 1]
        <4>1. \A j \in 1 .. i - 1 : j \in 1 .. Len(rest)
          BY <1>1
        <4> QED
          BY <1>2, <4>1
      <3>2. Finds(rest, i, q, new, v)
        BY <2>1
      <3>3. /\ Lays(todo[1], q) => new[Record(q)][Field(q)] = todo[1].q.to
            /\ ~Lays(todo[1], q) => new[Record(q)][Field(q)] = w[Record(q)][Field(q)]
        BY <2>3
      <3> QED
        BY ONLY <3>1, <3>2, <3>3, FindsAfter
    <2>5. todo[i + 1].q.items \cap (wrong \cup stalled) = {}
      BY <2>2
    <2>6. Right(todo[i + 1], v)
      BY <1>3, <2>1, <2>2, <2>4, <2>5 DEF AsPlanned
    <2> QED
      BY <2>2, <2>6
  <1> QED
    BY <1>4, <1>5, <1>6, <1>7, <1>8, <1>9 DEF TurnsRight

-----------------------------------------------------------------------------
(* What a device or a person does to the queue leaves alone what is to be sent, and puts
   what is new behind it. *)
Calm(en, em) ==
    \A m \in Change :
       /\ em[m].seq \in Nat
       /\ en[m].status = "pending" => em[m] = en[m]
       /\ en[m].status = "gone" => em[m].status = "gone"
       /\ em[m].status \in Waiting
            => \/ /\ en[m].status \in Waiting /\ em[m].seq = en[m].seq
                  /\ subjectsOf(em[m]) = subjectsOf(en[m])
               \/ \A k \in Change : en[k].seq < em[m].seq

(* A list stays as it was listed. *)
LEMMA CalmList ==
    ASSUME NEW todo, NEW en, ListOK(todo, en), AsListed(todo, en), NEW em, Calm(en, em)
    PROVE  AsListed(todo, em)
  <1>1. /\ todo \in Seq(Entries) /\ \A i \in 1 .. Len(todo) : VersionOf(todo[i].q, en[todo[i].n])
    BY DEF ListOK
  <1>2. \A i \in 1 .. Len(todo) : todo[i] \in Entries
    BY <1>1
  <1>3. \A i \in 1 .. Len(todo) : todo[i].n \in Change
    BY <1>2 DEF Entries
  <1>4. \A i \in 1 .. Len(todo) : todo[i].q.seq = en[todo[i].n].seq /\ todo[i].q.seq \in Nat
    BY <1>1 DEF VersionOf, Same, Version
  <1>5. ASSUME NEW i \in 1 .. Len(todo), todo[i].q.status = "pending"
        PROVE  em[todo[i].n] = todo[i].q
    BY <1>3, <1>5 DEF AsListed, Calm
  <1>6. ASSUME NEW i \in 1 .. Len(todo), NEW m \in Change, em[m].status \in Waiting, em[m].seq < todo[i].q.seq
        PROVE  \E j \in 1 .. i - 1 : todo[j].n = m
    <2>1. CASE en[m].status \in Waiting /\ em[m].seq = en[m].seq
      BY <1>6, <2>1 DEF AsListed
    <2>2. CASE \A k \in Change : en[k].seq < em[m].seq
      <3>1. todo[i].q.seq < em[m].seq
        BY <1>3, <1>4, <2>2
      <3>2. em[m].seq < todo[i].q.seq /\ todo[i].q.seq \in Nat /\ em[m].seq \in Nat
        BY <1>4, <1>6 DEF Calm
      <3> QED
        BY <3>1, <3>2
    <2> QED
      BY <1>6, <2>1, <2>2 DEF Calm
  <1> QED
    BY <1>5, <1>6 DEF AsListed

(* And what is left to send stays right. *)
LEMMA CalmTurns ==
    ASSUME NEW todo, NEW en, TodoOK(todo, en), NEW stalled, NEW w, NEW wrong,
           TurnsRight(todo, stalled, en, w, wrong), NEW em, Calm(en, em),
           NEW more, wrong \subseteq more, NEW new, \A r \in Item : r \in more \/ new[r] = w[r]
    PROVE  TurnsRight(todo, stalled, em, new, more)
  <1>1. /\ todo \in Seq(Verdicts)
        /\ \A i \in 1 .. Len(todo) : VersionOf(todo[i].q, en[todo[i].n]) /\ todo[i].q.status = "pending"
    BY DEF TodoOK
  <1>2. \A i \in 1 .. Len(todo) : todo[i] \in Verdicts
    BY <1>1
  <1>3. \A i \in 1 .. Len(todo) : todo[i].n \in Change
    BY <1>2 DEF Verdicts
  <1>4. \A i \in 1 .. Len(todo) : Proper(todo[i].q) /\ todo[i].q.seq \in Nat
    BY <1>1 DEF VersionOf, Version
  <1>5. /\ \A i \in 1 .. Len(todo) : en[todo[i].n] = todo[i].q
        /\ ConflictsBlock(todo) /\ SkipsHolds(todo)
        /\ NoneBefore(todo, stalled, en) /\ AsPlanned(todo, wrong \cup stalled, w)
    BY DEF TurnsRight
  <1>6. \A i \in 1 .. Len(todo) : em[todo[i].n] = todo[i].q
    BY <1>1, <1>3, <1>5 DEF Calm
  <1>7. NoneBefore(todo, stalled, em)
    <2> SUFFICES ASSUME NEW i \in 1 .. Len(todo), NEW m \in Change, em[m].status \in Waiting,
                        em[m].seq < todo[i].q.seq, Shares(em[m], todo[i].q),
                        subjectsOf(todo[i].q) \cap stalled = {}
                 PROVE  \E j \in 1 .. i - 1 : todo[j].n = m
      BY DEF NoneBefore
    <2>1. CASE /\ en[m].status \in Waiting /\ em[m].seq = en[m].seq
               /\ subjectsOf(em[m]) = subjectsOf(en[m])
      <3>1. Shares(en[m], todo[i].q)
        BY <2>1 DEF Shares
      <3> QED
        BY <1>5, <2>1, <3>1 DEF NoneBefore
    <2>2. CASE \A k \in Change : en[k].seq < em[m].seq
      <3>1. todo[i].q.seq < em[m].seq
        BY <1>3, <1>5, <2>2
      <3>2. todo[i].q.seq \in Nat /\ em[m].seq \in Nat
        BY <1>4 DEF Calm
      <3> QED
        BY <3>1, <3>2
    <2> QED
      BY <2>1, <2>2 DEF Calm
  <1>8. AsPlanned(todo, more \cup stalled, new)
    <2>1. PICK aside : aside = wrong \cup stalled
      OBVIOUS
    <2>2. PICK far : far = more \cup stalled
      OBVIOUS
    <2>3. aside \subseteq far /\ (\A r \in Item : r \in far \/ new[r] = w[r]) /\ AsPlanned(todo, aside, w)
      BY <1>5, <2>1, <2>2
    <2>4. \A i \in 1 .. Len(todo) : Proper(todo[i].q)
      BY <1>4
    <2>5. AsPlanned(todo, far, new)
      BY ONLY <2>3, <2>4, AsideOrSame
    <2> QED
      BY <2>2, <2>5
  <1> QED
    BY <1>5, <1>6, <1>7, <1>8 DEF TurnsRight

(* What OrderInv says, for citing. *)
LEMMA OrderSays ==
    ASSUME OrderInv, Orderly
    PROVE  /\ \A n \in Change : screen[n] = NoEntry
           /\ OneSyncs
           /\ \A t \in Tab :
                /\ InOrder(run[t].todo)
                /\ run[t].phase = "plan" => AsListed(run[t].todo, entry)
                /\ run[t].phase = "send" => TurnsRight(run[t].todo, run[t].stalled, entry, world, off)
  BY DEF OrderInv

(* A step of the device or of people leaves the runs in order. *)
LEMMA QuietOrder ==
    ASSUME SyncInv, OrderInv, Orderly, Calm(entry, entry'), run' = run,
           \A n \in Change : screen'[n] = NoEntry,
           off \subseteq off', \A r \in Item : r \in off' \/ world'[r] = world[r]
    PROVE  OrderInv'
  <1>1. PICK en : en = entry
    OBVIOUS
  <1>2. PICK em : em = entry'
    OBVIOUS
  <1>3. PICK w : w = world
    OBVIOUS
  <1>4. PICK new : new = world'
    OBVIOUS
  <1>5. PICK wrong : wrong = off
    OBVIOUS
  <1>6. PICK more : more = off'
    OBVIOUS
  <1>7. Calm(en, em) /\ wrong \subseteq more /\ \A r \in Item : r \in more \/ new[r] = w[r]
    BY <1>1, <1>2, <1>3, <1>4, <1>5, <1>6
  <1>8. OneSyncs'
    BY OrderSays DEF OneSyncs
  <1>9. ASSUME NEW t \in Tab
        PROVE  /\ InOrder(run'[t].todo)
               /\ run'[t].phase = "plan" => AsListed(run'[t].todo, em)
               /\ run'[t].phase = "send" => TurnsRight(run'[t].todo, run'[t].stalled, em, new, more)
    <2>1. PICK r : r = run[t]
      OBVIOUS
    <2>2. RunOK(r, en) /\ run'[t] = r
      BY <1>1, <2>1, SyncSays
    <2>3. /\ InOrder(r.todo)
          /\ r.phase = "plan" => AsListed(r.todo, en)
          /\ r.phase = "send" => TurnsRight(r.todo, r.stalled, en, w, wrong)
      BY <1>1, <1>3, <1>5, <2>1, OrderSays
    <2>4. ASSUME r.phase = "plan"
          PROVE  AsListed(r.todo, em)
      <3>1. ListOK(r.todo, en)
        BY <2>2, <2>4 DEF RunOK, NoRun
      <3> QED
        BY ONLY <1>7, <2>3, <2>4, <3>1, CalmList
    <2>5. ASSUME r.phase = "send"
          PROVE  TurnsRight(r.todo, r.stalled, em, new, more)
      <3>1. TodoOK(r.todo, en)
        BY <2>2, <2>5 DEF RunOK, NoRun
      <3> QED
        BY ONLY <1>7, <2>3, <2>5, <3>1, CalmTurns
    <2> QED
      BY <2>2, <2>3, <2>4, <2>5
  <1> QED
    BY <1>2, <1>4, <1>6, <1>8, <1>9 DEF OrderInv

(* The queue stays. *)
LEMMA CalmStays ==
    ASSUME SyncInv, entry' = entry
    PROVE  Calm(entry, entry')
  <1>1. \A m \in Change : entry[m].seq \in Nat
    BY SyncSays DEF Version
  <1> QED
    BY <1>1 DEF Calm

(* What was not yet in the queue is put behind all that is. *)
LEMMA CalmQueued ==
    ASSUME SyncInv, NEW n \in Change, entry[n].status \in {"none", "trying"}, NEW q \in Version, queueChange(n, q)
    PROVE  Calm(entry, entry')
  <1>1. \A m \in Change : entry[m] \in Version /\ entry[m].seq \in Nat
    BY SyncSays DEF Version
  <1>2. PICK s : s = NextSeq
    OBVIOUS
  <1>3. s \in Nat /\ \A m \in Change : entry[m].seq < s
    <2>1. \A m \in Change : entry[m] \in Version
      BY <1>1
    <2> QED
      BY ONLY <1>2, <2>1, NextSeqIs
  <1>4. PICK base \in Believed(q) : entry' = [entry EXCEPT ![n] =
                                      [q EXCEPT !.status = "pending", !.seq = NextSeq, !.base = base]]
    BY DEF queueChange
  <1>5. PICK v : v = [q EXCEPT !.status = "pending", !.seq = s, !.base = base]
    OBVIOUS
  <1>6. v.seq = s
    BY <1>5 DEF Version
  <1>7. \A m \in Change : entry'[m] = IF m = n THEN v ELSE entry[m]
    BY <1>2, <1>4, <1>5, SyncSays
  <1> QED
    BY <1>1, <1>3, <1>6, <1>7 DEF Calm

(* What a person decides about, or is sent directly, waits no longer, or where it did. *)
LEMMA CalmPut ==
    ASSUME SyncInv, NEW n \in Change, NEW v, entry' = [entry EXCEPT ![n] = v], v.seq \in Nat,
           entry[n].status # "pending", entry[n].status = "gone" => v.status = "gone",
           v.status \in Waiting => /\ entry[n].status \in Waiting /\ v.seq = entry[n].seq
                                   /\ subjectsOf(v) = subjectsOf(entry[n])
    PROVE  Calm(entry, entry')
  <1>1. \A m \in Change : entry[m].seq \in Nat
    BY SyncSays DEF Version
  <1>2. \A m \in Change : entry'[m] = IF m = n THEN v ELSE entry[m]
    BY SyncSays
  <1>3. ASSUME NEW m \in Change
        PROVE  /\ entry'[m].seq \in Nat
               /\ entry[m].status = "pending" => entry'[m] = entry[m]
               /\ entry[m].status = "gone" => entry'[m].status = "gone"
               /\ entry'[m].status \in Waiting
                    => /\ entry[m].status \in Waiting /\ entry'[m].seq = entry[m].seq
                       /\ subjectsOf(entry'[m]) = subjectsOf(entry[m])
    <2>1. CASE m = n
      <3>1. entry'[m] = v
        BY <1>2, <2>1
      <3> QED
        BY <2>1, <3>1
    <2>2. CASE m # n
      <3>1. entry'[m] = entry[m]
        BY <1>2, <2>2
      <3> QED
        BY <1>1, <3>1
    <2> QED
      BY <2>1, <2>2
  <1> QED
    BY <1>3 DEF Calm

(* It leaves the queue, or the screen it was made on. *)
LEMMA CalmLeaves ==
    ASSUME SyncInv, NEW n \in Change, NEW how, Leaves(n, how), entry[n].status # "pending"
    PROVE  Calm(entry, entry')
  <1>1. entry[n] \in Version
    BY SyncSays
  <1>2. PICK v : v = [entry[n] EXCEPT !.status = "gone"]
    OBVIOUS
  <1>3. v.status = "gone" /\ v.seq = entry[n].seq /\ v.seq \in Nat
    BY <1>1, <1>2 DEF Version
  <1>4. entry' = [entry EXCEPT ![n] = v]
    BY <1>2 DEF Leaves
  <1>5. v.status \notin Waiting
    BY <1>3 DEF Waiting, Attention
  <1> QED
    BY ONLY SyncInv, n \in Change, entry[n].status # "pending", <1>3, <1>4, <1>5, CalmPut

(* A change does nothing to the records it is not about. *)
LEMMA WithElse ==
    ASSUME NEW q, Proper(q), NEW w \in [Item -> Server], NEW v, v = With(q, w)
    PROVE  \A r \in Item : r \in q.items \/ v[r] = w[r]
  <1>1. CASE q.kind \notin {"move", "hold"}
    BY <1>1 DEF With
  <1>2. CASE q.kind \in {"move", "hold"}
    <2>1. PICK s \in Item : q.items = {s} /\ Record(q) = s
      BY <1>2, OneRecord
    <2>2. v = [w EXCEPT ![s] = [w[s] EXCEPT ![Field(q)] = q.to]]
      BY <1>2, <2>1 DEF With
    <2> QED
      BY <2>1, <2>2
  <1> QED
    BY <1>1, <1>2

(* The server answers a request: only the records it is about change. *)
LEMMA ServeElse ==
    ASSUME SyncInv, NEW n, NEW q, Proper(q), Serve(n, q)
    PROVE  \A r \in Item : r \in q.items \/ world'[r] = world[r]
  <1>1. CASE UNCHANGED world
    BY <1>1
  <1>2. CASE Becomes(With(q, world))
    <2>1. PICK w \in [Item -> Server] : w = world
      BY SyncSays
    <2>2. PICK v : v = With(q, w)
      OBVIOUS
    <2>3. \A r \in Item : r \in q.items \/ v[r] = w[r]
      BY <2>2, WithElse
    <2>4. world' = v
      BY <1>2, <2>1, <2>2 DEF Becomes
    <2> QED
      BY <2>1, <2>3, <2>4
  <1> QED
    BY <1>1, <1>2 DEF Serve

(* A change is made. *)
LEMMA WriteOrder ==
    ASSUME SyncInv, OrderInv, Orderly, NEW n \in Change, Write(n)
    PROVE  Calm(entry, entry') /\ OrderInv'
  <1>1. entry[n].status = "none" /\ UNCHANGED <<screen, run, off, world>>
    BY DEF Write, Made, server
  <1>2. Calm(entry, entry')
    <2>1. PICK k \in Kind, is \in (SUBSET Item) \ {{}} : \E to \in Targets[k] :
             \/ queueChange(n, New(k, is, to))
             \/ entry' = [entry EXCEPT ![n] = [New(k, is, to) EXCEPT !.status = "trying"]]
      BY DEF Write
    <2>2. PICK to \in Targets[k] :
             \/ queueChange(n, New(k, is, to))
             \/ entry' = [entry EXCEPT ![n] = [New(k, is, to) EXCEPT !.status = "trying"]]
      BY <2>1
    <2>3. PICK q : q = New(k, is, to)
      OBVIOUS
    <2>4. q \in Version /\ q.seq = 0
      <3>1. to \in Value
        <4>1. k = "move" \/ k = "hold" \/ k = "note" \/ k = "check"
          BY BoundsAssumption
        <4> QED
          BY <4>1 DEF Targets, Value
      <3> QED
        BY <2>3, <3>1, NoEntryIs DEF New, NoEntry, Version
    <2>5. CASE queueChange(n, q)
      BY <1>1, <2>4, <2>5, CalmQueued
    <2>6. CASE entry' = [entry EXCEPT ![n] = [q EXCEPT !.status = "trying"]]
      <3>1. PICK v : v = [q EXCEPT !.status = "trying"]
        OBVIOUS
      <3>2. v.status = "trying" /\ v.seq \in Nat
        BY <2>4, <3>1 DEF Version
      <3>3. v.status \notin Waiting
        BY <3>2 DEF Waiting, Attention
      <3> QED
        BY <1>1, <2>6, <3>1, <3>2, <3>3, CalmPut
    <2> QED
      BY <2>2, <2>3, <2>5, <2>6
  <1> QED
    BY <1>1, <1>2, OrderSays, QuietOrder

(* A direct request arrives. *)
LEMMA ArriveOrder ==
    ASSUME SyncInv, OrderInv, Orderly, NEW n \in Change, Arrive(n)
    PROVE  Calm(entry, entry') /\ OrderInv'
  <1>1. UNCHANGED <<screen, run>> /\ n \in inflight
    BY DEF Arrive
  <1>2. Proper(entry[n])
    BY <1>1, SyncSays DEF EntryOK
  <1>3. Calm(entry, entry')
    <2>1. CASE entry' = entry
      BY <2>1, CalmStays
    <2>2. ASSUME NEW how, entry[n].status = "trying", Leaves(n, how)
          PROVE  Calm(entry, entry')
      BY <2>2, CalmLeaves
    <2> QED
      BY <2>1, <2>2 DEF Arrive
  <1>4. off \subseteq off' /\ \A r \in Item : r \in off' \/ world'[r] = world[r]
    <2>1. CASE Serve(n, entry[n]) /\ off' = off \cup entry[n].items
      <3>1. PICK q : q = entry[n]
        OBVIOUS
      <3>2. \A r \in Item : r \in q.items \/ world'[r] = world[r]
        BY <1>2, <2>1, <3>1, ServeElse
      <3> QED
        BY <2>1, <3>1, <3>2
    <2>2. CASE UNCHANGED <<world, off>>
      BY <2>2
    <2> QED
      BY <2>1, <2>2 DEF Arrive
  <1> QED
    BY <1>1, <1>3, <1>4, OrderSays, QuietOrder

(* It is queued. *)
LEMMA TimeOutOrder ==
    ASSUME SyncInv, OrderInv, Orderly, NEW n \in Change, TimeOut(n)
    PROVE  Calm(entry, entry') /\ OrderInv'
  <1>1. entry[n].status = "trying" /\ queueChange(n, entry[n]) /\ UNCHANGED <<screen, run, off, world>>
    BY DEF TimeOut, server
  <1>2. entry[n] \in Version
    BY SyncSays
  <1>3. Calm(entry, entry')
    BY <1>1, <1>2, CalmQueued
  <1> QED
    BY <1>1, <1>3, OrderSays, QuietOrder

(* One person decides, about the queue as it is. *)
LEMMA ShownNow ==
    ASSUME SyncInv, OrderInv, Orderly, NEW n \in Change, NEW q \in {entry[n], screen[n]}, Shown(n, q)
    PROVE  q = entry[n] /\ q.status \in Attention /\ screen' = screen
  <1>1. screen[n] = NoEntry /\ NoEntry.status \notin Attention
    BY OrderSays, NoEntryIs DEF Attention
  <1> QED
    BY <1>1 DEF Shown

(* A person sends it after all. *)
LEMMA KeepMineOrder ==
    ASSUME SyncInv, OrderInv, Orderly, NEW n \in Change, keepMine(n)
    PROVE  Calm(entry, entry') /\ OrderInv'
  <1>1. PICK q \in {entry[n], screen[n]} :
          /\ Shown(n, q)
          /\ entry' = [entry EXCEPT ![n] =
                [q EXCEPT !.status = "pending", !.force = TRUE, !.attempts = 0, !.keepable = TRUE,
                          !.items = q.items \ q.missing, !.missing = {},
                          !.key = IF q.missing = {} THEN q.key ELSE newId]]
    BY DEF keepMine
  <1>2. UNCHANGED <<run, world, off>>
    BY DEF keepMine, server
  <1>3. q = entry[n] /\ q.status \in Attention /\ screen' = screen
    BY <1>1, ShownNow
  <1>4. q \in Version /\ Proper(q)
    BY <1>3, SyncSays DEF EntryOK, Attention
  <1>5. PICK key : key = IF q.missing = {} THEN q.key ELSE newId
    OBVIOUS
  <1>6. PICK items : items = q.items \ q.missing
    OBVIOUS
  <1>7. PICK v : v = [q EXCEPT !.status = "pending", !.force = TRUE, !.attempts = 0, !.keepable = TRUE,
                               !.items = items, !.missing = {}, !.key = key]
    OBVIOUS
  <1>8. v.seq = q.seq /\ v.kind = q.kind /\ v.items = items /\ v.seq \in Nat
    BY <1>4, <1>7 DEF Version
  <1>9. subjectsOf(v) = subjectsOf(q)
    <2>1. q.kind # "check" => items = q.items
      BY <1>4, <1>6 DEF Proper
    <2> QED
      BY <1>8, <2>1 DEF subjectsOf
  <1>10. entry' = [entry EXCEPT ![n] = v]
    BY <1>1, <1>5, <1>6, <1>7
  <1>11. entry[n].status \in Waiting /\ entry[n].status # "pending" /\ entry[n].status # "gone"
    BY <1>3 DEF Waiting, Attention
  <1>12. Calm(entry, entry')
    BY <1>3, <1>8, <1>9, <1>10, <1>11, CalmPut
  <1> QED
    BY <1>2, <1>3, <1>12, OrderSays, QuietOrder

(* Or discards it. *)
LEMMA KeepServerOrder ==
    ASSUME SyncInv, OrderInv, Orderly, NEW n \in Change, keepServer(n)
    PROVE  Calm(entry, entry') /\ OrderInv'
  <1>1. PICK q \in {entry[n], screen[n]} : Shown(n, q)
    BY DEF keepServer
  <1>2. Leaves(n, "discarded") /\ UNCHANGED <<run, world, off>>
    BY DEF keepServer, server
  <1>3. entry[n].status \in Attention /\ screen' = screen
    BY <1>1, ShownNow
  <1>4. Calm(entry, entry')
    <2>1. entry[n].status # "pending"
      BY <1>3 DEF Attention
    <2> QED
      BY <1>2, <2>1, CalmLeaves
  <1> QED
    BY <1>2, <1>3, <1>4, OrderSays, QuietOrder

(* Other people change records, which are set aside. *)
LEMMA OthersOrder ==
    ASSUME SyncInv, OrderInv, Orderly, ChangeElsewhere \/ DeleteRecord \/ DeleteTarget
    PROVE  Calm(entry, entry') /\ OrderInv'
  <1>1. /\ UNCHANGED <<entry, screen, run>> /\ off \subseteq off'
        /\ \A r \in Item : r \in off' \/ world'[r] = world[r]
    <2>1. CASE ChangeElsewhere
      <3>1. PICK i \in Item, f \in {"place", "holder"},
                 v \in (known \cap Place) \cup (known \cap Holder) \cup {Nobody} :
               Other([world EXCEPT ![i][f] = v], {i})
        BY <2>1 DEF ChangeElsewhere
      <3>2. world' = [world EXCEPT ![i] = [world[i] EXCEPT ![f] = v]] /\ off' = off \cup {i}
            /\ UNCHANGED <<entry, screen, run>>
        BY <3>1 DEF Other, Becomes
      <3> QED
        BY <3>2, SyncSays
    <2>2. CASE DeleteRecord
      <3>1. PICK i \in Item : Other([world EXCEPT ![i].there = FALSE], {i})
        BY <2>2 DEF DeleteRecord
      <3>2. world' = [world EXCEPT ![i] = [world[i] EXCEPT !.there = FALSE]] /\ off' = off \cup {i}
            /\ UNCHANGED <<entry, screen, run>>
        BY <3>1 DEF Other, Becomes
      <3> QED
        BY <3>2, SyncSays
    <2>3. CASE DeleteTarget
      BY <2>3 DEF DeleteTarget, Other
    <2> QED
      BY <2>1, <2>2, <2>3
  <1>2. Calm(entry, entry')
    BY <1>1, CalmStays
  <1> QED
    BY <1>1, <1>2, OrderSays, QuietOrder

(* While one run is on, the others have nothing. *)
LEMMA OthersIdle ==
    ASSUME SyncInv, OrderInv, Orderly, NEW t \in Tab, run[t].phase # "idle"
    PROVE  \A u \in Tab \ {t} : run[u].phase = "idle" /\ run[u].todo = <<>>
  <1> SUFFICES ASSUME NEW u \in Tab \ {t}
               PROVE  run[u].phase = "idle" /\ run[u].todo = <<>>
    OBVIOUS
  <1>1. run[u].phase = "idle"
    BY OrderSays DEF OneSyncs
  <1>2. RunOK(run[u], entry)
    BY SyncSays
  <1>3. run[u] = NoRun
    BY <1>1, <1>2 DEF RunOK
  <1> QED
    BY <1>1, <1>3 DEF NoRun

(* The one run that is on goes on. *)
LEMMA RunOrder ==
    ASSUME SyncInv, OrderInv, Orderly, NEW t \in Tab, run[t].phase # "idle",
           NEW todo, NEW st, Goes(t, todo, st), screen' = screen,
           todo # <<>> => InOrder(todo) /\ TurnsRight(todo, st, entry', world', off')
    PROVE  OrderInv'
  <1>1. /\ DOMAIN run' = Tab
        /\ \A u \in Tab \ {t} : run'[u] = run[u]
        /\ todo = <<>> => run'[t] = NoRun
        /\ todo # <<>> => run'[t] = [phase |-> "send", todo |-> todo, stalled |-> st]
    BY GoesIs
  <1>2. \A u \in Tab \ {t} : run'[u].phase = "idle" /\ run'[u].todo = <<>>
    BY <1>1, OthersIdle
  <1>3. \A n \in Change : screen'[n] = NoEntry
    BY OrderSays
  <1>4. OneSyncs'
    BY <1>2 DEF OneSyncs
  <1>5. InOrder(<<>>)
    <2>1. 1 .. Len(<<>>) = {}
      OBVIOUS
    <2> QED
      BY <2>1 DEF InOrder
  <1>6. ASSUME NEW u \in Tab
        PROVE  /\ InOrder(run'[u].todo)
               /\ run'[u].phase = "plan" => AsListed(run'[u].todo, entry')
               /\ run'[u].phase = "send" => TurnsRight(run'[u].todo, run'[u].stalled, entry', world', off')
    <2>1. CASE u # t
      BY <1>2, <1>5, <2>1
    <2>2. CASE u = t /\ todo = <<>>
      BY <1>1, <1>5, <2>2 DEF NoRun
    <2>3. CASE u = t /\ todo # <<>>
      <3>1. run'[u].phase = "send" /\ run'[u].todo = todo /\ run'[u].stalled = st
        BY <1>1, <2>3
      <3> QED
        BY <2>3, <3>1
    <2> QED
      BY <2>1, <2>2, <2>3
  <1> QED
    BY <1>3, <1>4, <1>6 DEF OrderInv

(* A run begins, with the first of the queue in its order. *)
LEMMA ListOrder ==
    ASSUME SyncInv, OrderInv, Orderly, NEW t \in Tab, List(t)
    PROVE  OrderInv'
  <1>1. PICK todo \in Seq(Entries) :
             /\ DOMAIN run' = Tab /\ \A u \in Tab \ {t} : run'[u] = run[u]
             /\ run'[t].phase = "plan" /\ run'[t].stalled = {} /\ run'[t].todo = todo
             /\ Len(todo) \in 1 .. PlanMax
             /\ \A i \in 1 .. Len(todo) : todo[i].n \in Queue /\ todo[i].q = entry[todo[i].n]
             /\ \A i, j \in 1 .. Len(todo) : i < j => todo[i].q.seq < todo[j].q.seq
             /\ \A m \in Queue : \/ \E i \in 1 .. Len(todo) : todo[i].n = m
                                 \/ \A i \in 1 .. Len(todo) : todo[i].q.seq < entry[m].seq
    BY ListIs
  <1>2. UNCHANGED <<entry, screen, world, off>>
    BY DEF List, server
  <1>3. \A u \in Tab : run[u].phase = "idle"
    BY DEF List, Orderly
  <1>4. \A u \in Tab \ {t} : run'[u].phase = "idle"
    BY <1>1, <1>3
  <1>5. OneSyncs'
    BY <1>4 DEF OneSyncs
  <1>6. InOrder(todo)
    BY <1>1 DEF InOrder
  <1>7. \A i \in 1 .. Len(todo) : todo[i].q.seq \in Nat
    <2>1. \A n \in Change : entry[n].seq \in Nat
      BY SyncSays DEF Version
    <2>2. \A i \in 1 .. Len(todo) : todo[i].n \in Change /\ todo[i].q = entry[todo[i].n]
      BY <1>1 DEF Queue
    <2> QED
      BY <2>1, <2>2
  <1>8. AsListed(todo, entry)
    <2>1. \A i \in 1 .. Len(todo) : entry[todo[i].n] = todo[i].q
      BY <1>1
    <2>2. ASSUME NEW i \in 1 .. Len(todo), NEW m \in Change, entry[m].status \in Waiting,
                 entry[m].seq < todo[i].q.seq
          PROVE  \E j \in 1 .. i - 1 : todo[j].n = m
      <3>1. m \in Queue /\ entry[m].seq \in Nat /\ todo[i].q.seq \in Nat
        BY <1>7, <2>2, SyncSays DEF Queue, Version
      <3>2. ~(todo[i].q.seq < entry[m].seq)
        BY <2>2, <3>1
      <3>3. PICK j \in 1 .. Len(todo) : todo[j].n = m
        BY <1>1, <3>1, <3>2
      <3>4. todo[j].q.seq = entry[m].seq
        BY <2>1, <3>3
      <3>5. j < i
        <4>1. CASE i < j
          <5>1. todo[i].q.seq < todo[j].q.seq
            BY <1>6, <4>1 DEF InOrder
          <5> QED
            BY <3>2, <3>4, <5>1
        <4>2. CASE i = j
          BY <2>2, <3>1, <3>4, <4>2
        <4> QED
          BY <4>1, <4>2
      <3> QED
        BY <3>3, <3>5
    <2> QED
      BY <2>1, <2>2 DEF AsListed
  <1>9. ASSUME NEW u \in Tab
        PROVE  /\ InOrder(run'[u].todo)
               /\ run'[u].phase = "plan" => AsListed(run'[u].todo, entry')
               /\ run'[u].phase = "send" => TurnsRight(run'[u].todo, run'[u].stalled, entry', world', off')
    <2>1. CASE u = t
      BY <1>1, <1>2, <1>6, <1>8, <2>1
    <2>2. CASE u # t
      BY <1>1, <1>4, <2>2, OrderSays
    <2> QED
      BY <2>1, <2>2
  <1>10. \A n \in Change : screen'[n] = NoEntry
    BY <1>2, OrderSays
  <1> QED
    BY <1>5, <1>9, <1>10 DEF OrderInv

(* It is planned. *)
LEMMA PlanOrder ==
    ASSUME SyncInv, OrderInv, Orderly, NEW t \in Tab, Plan(t)
    PROVE  OrderInv'
  <1>1. run[t].phase = "plan" /\ off' = {} /\ UNCHANGED <<entry, screen, world>>
    BY DEF Plan
  <1>2. PICK todo : todo = run[t].todo
    OBVIOUS
  <1>3. PICK en : en = entry
    OBVIOUS
  <1>4. PICK w : w = world
    OBVIOUS
  <1>5. PICK plan : plan = planSync(todo)
    OBVIOUS
  <1>6. ListOK(todo, en) /\ InOrder(todo) /\ AsListed(todo, en)
    <2>1. RunOK(run[t], en)
      BY <1>3, SyncSays
    <2>2. ListOK(todo, en)
      BY <1>1, <1>2, <2>1 DEF RunOK, NoRun
    <2> QED
      BY <1>1, <1>2, <1>3, <2>2, OrderSays
  <1>7. /\ InOrder(plan) /\ ConflictsBlock(plan) /\ SkipsHolds(plan) /\ AsPlanned(plan, {}, w)
        /\ \A i \in 1 .. Len(plan) : en[plan[i].n] = plan[i].q
        /\ NoneBefore(plan, {}, en)
    <2>1. world \in [Item -> Server]
      BY SyncSays
    <2> QED
      BY ONLY <1>4, <1>5, <1>6, <2>1, PlanIsRight
  <1>8. TurnsRight(plan, {}, en, w, {})
    <2>1. {} \cup {} = {}
      OBVIOUS
    <2> QED
      BY <1>7, <2>1 DEF TurnsRight
  <1>9. Goes(t, plan, {})
    BY <1>2, <1>5 DEF Plan
  <1>10. TurnsRight(plan, {}, entry', world', off')
    BY <1>1, <1>3, <1>4, <1>8
  <1> QED
    BY <1>1, <1>7, <1>9, <1>10, RunOrder

(* A run stops. *)
LEMMA StopOrder ==
    ASSUME SyncInv, OrderInv, Orderly, NEW t \in Tab, run[t].phase # "idle", Goes(t, <<>>, {}), screen' = screen
    PROVE  OrderInv'
  BY RunOrder

(* The turn a run is at: it is as it is in the queue, and right about what is there. *)
LEMMA TurnNow ==
    ASSUME SyncInv, OrderInv, Orderly, NEW t \in Tab, Sending(t), NEW c, c = Current(t)
    PROVE  /\ c \in Verdicts /\ c.n \in Change /\ c.q \in Version /\ Proper(c.q)
           /\ c.q.status = "pending" /\ entry[c.n] = c.q
           /\ c.verdict = "skip" => c.q.kind = "hold"
           /\ \A m \in Change : entry[m].status \in Waiting /\ entry[m].seq < c.q.seq /\ Shares(entry[m], c.q)
                                => subjectsOf(c.q) \cap run[t].stalled # {}
           /\ c.q.kind \in {"move", "hold"} /\ c.q.items \cap (off \cup run[t].stalled) = {}
                => Right(c, world[Record(c.q)][Field(c.q)])
  <1>1. PICK todo : todo = run[t].todo
    OBVIOUS
  <1>2. PICK stalled : stalled = run[t].stalled
    OBVIOUS
  <1>3. c \in Verdicts /\ c.n \in Change /\ c.q \in Version /\ Proper(c.q) /\ c.q.status = "pending"
    BY CurrentIs
  <1>4. todo \in Seq(Verdicts) /\ todo # <<>>
    <2>1. RunOK(run[t], entry) /\ run[t].phase = "send"
      BY SyncSays DEF Sending
    <2> QED
      BY <1>1, <2>1 DEF RunOK, NoRun, TodoOK
  <1>5. c = todo[1] /\ 1 \in 1 .. Len(todo)
    BY <1>1, <1>4 DEF Current
  <1>6. TurnsRight(todo, stalled, entry, world, off)
    BY <1>1, <1>2, OrderSays DEF Sending
  <1>7. entry[c.n] = c.q /\ (c.verdict = "skip" => c.q.kind = "hold")
    BY <1>5, <1>6 DEF TurnsRight, SkipsHolds
  <1>8. ASSUME NEW m \in Change, entry[m].status \in Waiting, entry[m].seq < c.q.seq, Shares(entry[m], c.q)
        PROVE  subjectsOf(c.q) \cap stalled # {}
    <2>1. NoneBefore(todo, stalled, entry) /\ 1 .. 1 - 1 = {}
      BY <1>6 DEF TurnsRight
    <2> QED
      BY <1>5, <1>8, <2>1 DEF NoneBefore
  <1>9. ASSUME c.q.kind \in {"move", "hold"}, c.q.items \cap (off \cup stalled) = {}
        PROVE  Right(c, world[Record(c.q)][Field(c.q)])
    <2>1. PICK w : w = world
      OBVIOUS
    <2>2. PICK q : q = c.q
      OBVIOUS
    <2>3. PICK v : v = w[Record(q)][Field(q)]
      OBVIOUS
    <2>4. Finds(todo, 1, q, w, v)
      BY ONLY <2>3, FindsNow
    <2>5. AsPlanned(todo, off \cup stalled, w)
      BY <1>6, <2>1 DEF TurnsRight
    <2> QED
      BY <1>5, <1>9, <2>1, <2>2, <2>3, <2>4, <2>5 DEF AsPlanned
  <1> QED
    BY <1>2, <1>3, <1>7, <1>8, <1>9

(* A turn is over, and those that are left are right. *)
LEMMA TurnOrder ==
    ASSUME SyncInv, OrderInv, Orderly, NEW t \in Tab, Sending(t), NEW c, c = Current(t),
           NEW st, Goes(t, Tail(run[t].todo), st), run[t].stalled \subseteq st, screen' = screen,
           \A m \in Change \ {c.n} : entry'[m] = entry[m], Behind(c, st, entry'),
           off \subseteq off', Laid(c, off' \cup st, world, world')
    PROVE  OrderInv'
  <1>1. PICK todo : todo = run[t].todo
    OBVIOUS
  <1>2. PICK stalled : stalled = run[t].stalled
    OBVIOUS
  <1>3. PICK en : en = entry
    OBVIOUS
  <1>4. PICK em : em = entry'
    OBVIOUS
  <1>5. PICK w : w = world
    OBVIOUS
  <1>6. PICK new : new = world'
    OBVIOUS
  <1>7. PICK wrong : wrong = off
    OBVIOUS
  <1>8. PICK more : more = off'
    OBVIOUS
  <1>9. PICK rest : rest = Tail(todo)
    OBVIOUS
  <1>10. /\ todo \in Seq(Verdicts) /\ todo # <<>>
         /\ \A i \in 1 .. Len(todo) : Proper(todo[i].q) /\ todo[i].q.seq \in Nat
    <2>1. RunOK(run[t], en) /\ run[t].phase = "send"
      BY <1>3, SyncSays DEF Sending
    <2>2. TodoOK(todo, en) /\ todo # <<>>
      BY <1>1, <2>1 DEF RunOK, NoRun
    <2>3. \A i \in 1 .. Len(todo) : VersionOf(todo[i].q, en[todo[i].n])
      BY <2>2 DEF TodoOK
    <2> QED
      BY <2>2, <2>3 DEF TodoOK, VersionOf, Version
  <1>11. InOrder(todo) /\ TurnsRight(todo, stalled, en, w, wrong)
    BY <1>1, <1>2, <1>3, <1>5, <1>7, OrderSays DEF Sending
  <1>12. /\ c = Head(todo) /\ stalled \subseteq st /\ wrong \subseteq more
         /\ \A m \in Change \ {c.n} : em[m] = en[m]
         /\ Behind(c, st, em) /\ Laid(c, more \cup st, w, new)
    BY <1>1, <1>2, <1>3, <1>4, <1>5, <1>6, <1>7, <1>8 DEF Current
  <1>13. InOrder(rest) /\ TurnsRight(rest, st, em, new, more)
    BY ONLY <1>9, <1>10, <1>11, <1>12, TurnDone
  <1>14. Goes(t, rest, st) /\ run[t].phase # "idle"
    BY <1>1, <1>9 DEF Sending
  <1> QED
    BY <1>4, <1>6, <1>8, <1>13, <1>14, RunOrder

(* What is held up lays nothing where something is counted on. *)
LEMMA LaidHeld ==
    ASSUME NEW c, Proper(c.q), NEW st, subjectsOf(c.q) \subseteq st, NEW more, NEW w
    PROVE  Laid(c, more \cup st, w, w)
  <1> SUFFICES ASSUME NEW q, Proper(q), q.kind \in {"move", "hold"}, q.items \cap (more \cup st) = {}, Lays(c, q)
               PROVE  FALSE
    BY DEF Laid
  <1>1. PICK r \in Item : q.items = {r}
    BY OneRecord
  <1>2. subjectsOf(c.q) = {r}
    BY <1>1 DEF Lays, subjectsOf
  <1> QED
    BY <1>1, <1>2

(* The change is done by the server, or had been. *)
LEMMA LaidServed ==
    ASSUME SyncInv, NEW c, c.verdict = "send", Proper(c.q), Serve(c.n, c.q), NEW st,
           off' = IF Answered(c.n, c.q) THEN off \cup c.q.items ELSE off
    PROVE  Laid(c, off' \cup st, world, world')
  <1>1. CASE Answered(c.n, c.q)
    <2>1. world' = world /\ off' = off \cup c.q.items
      BY <1>1 DEF Serve
    <2> SUFFICES ASSUME NEW q, Proper(q), q.kind \in {"move", "hold"}, q.items \cap (off' \cup st) = {}, Lays(c, q)
                 PROVE  FALSE
      BY <2>1 DEF Laid
    <2>2. PICK r \in Item : q.items = {r}
      BY OneRecord
    <2>3. c.q.items = {r}
      BY <2>2 DEF Lays
    <2> QED
      BY <2>1, <2>2, <2>3
  <1>2. CASE ~Answered(c.n, c.q)
    <2>1. PICK w \in [Item -> Server] : w = world
      BY SyncSays
    <2>2. PICK d : d = c.q
      OBVIOUS
    <2>3. PICK v : v = With(d, w)
      OBVIOUS
    <2>4. world' = v
      BY <1>2, <2>1, <2>2, <2>3 DEF Serve, Becomes
    <2>5. ASSUME NEW q, Proper(q), q.kind \in {"move", "hold"}
          PROVE  v[Record(q)][Field(q)] = IF Lays(c, q) THEN c.q.to ELSE w[Record(q)][Field(q)]
      <3>1. v[Record(q)][Field(q)]
               = IF d.kind = q.kind /\ d.items = q.items THEN d.to ELSE w[Record(q)][Field(q)]
        BY <2>2, <2>3, <2>5, LaidInto
      <3>2. Lays(c, q) <=> d.kind = q.kind /\ d.items = q.items
        BY <2>2 DEF Lays
      <3> QED
        BY <2>2, <3>1, <3>2
    <2> QED
      BY <2>1, <2>4, <2>5 DEF Laid
  <1> QED
    BY <1>1, <1>2

(* A turn is passed over. *)
LEMMA PassOverOrder ==
    ASSUME SyncInv, OrderInv, Orderly, NEW t \in Tab, Sending(t), PassOver(t)
    PROVE  OrderInv'
  <1>1. PICK c : c = Current(t)
    OBVIOUS
  <1>2. PICK st : st = run[t].stalled
    OBVIOUS
  <1>3. Stalled(t) /\ Goes(t, Tail(run[t].todo), st) /\ UNCHANGED <<entry, screen, world, off>>
    BY <1>2 DEF PassOver, GoesOn, server
  <1>4. Proper(c.q) /\ entry[c.n] = c.q
    BY <1>1, TurnNow
  <1>5. subjectsOf(c.q) \subseteq st
    <2>1. PICK q : q = c.q
      OBVIOUS
    <2>2. Proper(q) /\ subjectsOf(q) \cap st # {}
      BY <1>1, <1>2, <1>3, <1>4, <2>1 DEF Stalled
    <2> QED
      BY <2>1, <2>2, OneSubject
  <1>6. Behind(c, st, entry')
    BY <1>3, <1>4, <1>5 DEF Behind
  <1>7. Laid(c, off' \cup st, world, world')
    <2>1. PICK w : w = world
      OBVIOUS
    <2>2. PICK more : more = off'
      OBVIOUS
    <2>3. Laid(c, more \cup st, w, w)
      BY <1>4, <1>5, LaidHeld
    <2> QED
      BY <1>3, <2>1, <2>2, <2>3
  <1>8. run[t].stalled \subseteq st /\ off \subseteq off'
    BY <1>2, <1>3
  <1> QED
    BY <1>1, <1>2, <1>3, <1>6, <1>7, <1>8, TurnOrder

(* The person is asked about it. *)
LEMMA AskOrder ==
    ASSUME SyncInv, OrderInv, Orderly, NEW t \in Tab, Sending(t), Ask(t)
    PROVE  OrderInv'
  <1>1. PICK c : c = Current(t)
    OBVIOUS
  <1>2. PICK st : st = run[t].stalled
    OBVIOUS
  <1>3. PICK v : v = [c.q EXCEPT !.status = "conflict", !.keepable = c.keepable, !.missing = c.missing]
    OBVIOUS
  <1>4. /\ c.verdict = "conflict" /\ Goes(t, Tail(run[t].todo), st) /\ UNCHANGED <<screen, world, off>>
        /\ entry' = [entry EXCEPT ![c.n] = v]
    BY <1>1, <1>2, <1>3 DEF Ask, Handles, updateQueued, GoesOn, server
  <1>5. c.n \in Change /\ c.q \in Version
    BY <1>1, TurnNow
  <1>6. \A m \in Change : entry'[m] = IF m = c.n THEN v ELSE entry[m]
    BY <1>4, <1>5, SyncSays
  <1>7. v.kind = c.q.kind /\ v.items = c.q.items
    BY <1>3, <1>5 DEF Version
  <1>8. Behind(c, st, entry')
    <2>1. subjectsOf(v) = subjectsOf(c.q)
      BY <1>7 DEF subjectsOf
    <2> QED
      BY <1>4, <1>5, <1>6, <2>1 DEF Behind
  <1>9. Laid(c, off' \cup st, world, world')
    BY <1>4 DEF Laid, Lays
  <1>10. run[t].stalled \subseteq st /\ off \subseteq off'
    BY <1>2, <1>4
  <1>11. Goes(t, Tail(run[t].todo), st) /\ screen' = screen /\ \A m \in Change \ {c.n} : entry'[m] = entry[m]
    BY <1>4, <1>6
  <1> QED
    BY ONLY SyncInv, OrderInv, Orderly, t \in Tab, Sending(t), <1>1, <1>8, <1>9, <1>10, <1>11, TurnOrder

(* What leaves the queue is behind nothing. *)
LEMMA GoneBehind ==
    ASSUME SyncInv, NEW c, c.n \in Change, NEW how, Leaves(c.n, how), NEW st
    PROVE  /\ Behind(c, st, entry') /\ \A m \in Change \ {c.n} : entry'[m] = entry[m]
           /\ entry'[c.n].status = "gone"
           /\ outcome'[c.n] = how /\ \A m \in Change \ {c.n} : outcome'[m] = outcome[m]
  <1>1. entry[c.n] \in Version
    BY SyncSays
  <1>2. PICK v : v = [entry[c.n] EXCEPT !.status = "gone"]
    OBVIOUS
  <1>3. v.status = "gone"
    BY <1>1, <1>2 DEF Version
  <1>4. \A m \in Change : entry'[m] = IF m = c.n THEN v ELSE entry[m]
    BY <1>2, SyncSays DEF Leaves
  <1>5. \A m \in Change : outcome'[m] = IF m = c.n THEN how ELSE outcome[m]
    BY SyncSays DEF Leaves
  <1>6. "gone" \notin Waiting
    BY DEF Waiting, Attention
  <1> QED
    BY <1>3, <1>4, <1>5, <1>6 DEF Behind

(* There was nothing to do. *)
LEMMA SkipOrder ==
    ASSUME SyncInv, OrderInv, Orderly, NEW t \in Tab, Sending(t), Skip(t)
    PROVE  OrderInv'
  <1>1. PICK c : c = Current(t)
    OBVIOUS
  <1>2. PICK st : st = run[t].stalled
    OBVIOUS
  <1>3. /\ c.verdict = "skip" /\ Leaves(c.n, "skipped") /\ Goes(t, Tail(run[t].todo), st)
        /\ UNCHANGED <<screen, world, off>>
    BY <1>1, <1>2 DEF Skip, Handles, GoesOn, server
  <1>4. /\ c.n \in Change /\ c.q.kind = "hold"
        /\ c.q.items \cap (off \cup st) = {} => Right(c, world[Record(c.q)][Field(c.q)])
    BY <1>1, <1>2, <1>3, TurnNow
  <1>5. Behind(c, st, entry') /\ \A m \in Change \ {c.n} : entry'[m] = entry[m]
    BY <1>3, <1>4, GoneBehind
  <1>6. Laid(c, off' \cup st, world, world')
    <2>1. PICK w : w = world
      OBVIOUS
    <2>2. ASSUME NEW q, Lays(c, q), q.items \cap (off \cup st) = {}
          PROVE  w[Record(q)][Field(q)] = c.q.to
      <3>1. c.q.items = q.items /\ c.q.kind = q.kind
        BY <2>2 DEF Lays
      <3>2. Record(q) = Record(c.q) /\ Field(q) = Field(c.q)
        BY <3>1 DEF Record, Field
      <3>3. Right(c, world[Record(c.q)][Field(c.q)])
        BY <1>4, <2>2, <3>1
      <3>4. world[Record(c.q)][Field(c.q)] = c.q.to
        BY <1>3, <3>3 DEF Right
      <3> QED
        BY <2>1, <3>2, <3>4
    <2>3. Laid(c, off \cup st, w, w)
      BY <2>2 DEF Laid
    <2> QED
      BY <1>3, <2>1, <2>3
  <1>7. run[t].stalled \subseteq st /\ off \subseteq off'
    BY <1>2, <1>3
  <1> QED
    BY <1>1, <1>2, <1>3, <1>5, <1>6, <1>7, TurnOrder

(* It was sent, and answered. *)
LEMMA SendOrder ==
    ASSUME SyncInv, OrderInv, Orderly, NEW t \in Tab, Sending(t), Send(t)
    PROVE  OrderInv'
  <1>1. PICK c : c = Current(t)
    OBVIOUS
  <1>2. PICK st : st = run[t].stalled
    OBVIOUS
  <1>3. /\ c.verdict = "send" /\ Serve(c.n, c.q) /\ Leaves(c.n, "sent") /\ Goes(t, Tail(run[t].todo), st)
        /\ off' = (IF Answered(c.n, c.q) THEN off \cup c.q.items ELSE off) /\ screen' = screen
    BY <1>1, <1>2 DEF Send, Handles, Misled, GoesOn
  <1>4. c.n \in Change /\ Proper(c.q)
    BY <1>1, TurnNow
  <1>5. Behind(c, st, entry') /\ \A m \in Change \ {c.n} : entry'[m] = entry[m]
    BY <1>3, <1>4, GoneBehind
  <1>6. Laid(c, off' \cup st, world, world')
    BY <1>3, <1>4, LaidServed
  <1>7. run[t].stalled \subseteq st /\ off \subseteq off'
    BY <1>2, <1>3
  <1> QED
    BY <1>1, <1>2, <1>3, <1>5, <1>6, <1>7, TurnOrder

(* It failed: those after it that are about the same wait. *)
LEMMA RefusedOrder ==
    ASSUME SyncInv, OrderInv, Orderly, NEW t \in Tab, Sending(t), Refused(t)
    PROVE  OrderInv'
  <1>1. PICK c : c = Current(t)
    OBVIOUS
  <1>2. PICK st : st = run[t].stalled \cup subjectsOf(c.q)
    OBVIOUS
  <1>3. PICK q : q = [c.q EXCEPT !.attempts = c.q.attempts + 1]
    OBVIOUS
  <1>4. Goes(t, Tail(run[t].todo), st) /\ UNCHANGED <<screen, world, off>>
    BY <1>1, <1>2 DEF Refused, StallsOn, server
  <1>5. c.n \in Change /\ c.q \in Version /\ Proper(c.q)
    BY <1>1, TurnNow
  <1>6. PICK v : /\ entry' = [entry EXCEPT ![c.n] = v]
                 /\ v.kind = c.q.kind /\ v.items = c.q.items
    <2>1. q.kind = c.q.kind /\ q.items = c.q.items
      BY <1>3, <1>5 DEF Version
    <2>2. CASE updateQueued(t, q)
      BY <1>1, <2>1, <2>2 DEF updateQueued
    <2>3. CASE updateQueued(t, [q EXCEPT !.status = "rejected"])
      <3>1. PICK v : v = [q EXCEPT !.status = "rejected"]
        OBVIOUS
      <3>2. v.kind = c.q.kind /\ v.items = c.q.items
        BY <1>3, <1>5, <3>1 DEF Version
      <3>3. entry' = [entry EXCEPT ![c.n] = v]
        BY <1>1, <2>3, <3>1 DEF updateQueued
      <3> QED
        BY <3>2, <3>3
    <2> QED
      BY <1>1, <1>3, <2>2, <2>3 DEF Refused
  <1>7. \A m \in Change : entry'[m] = IF m = c.n THEN v ELSE entry[m]
    BY <1>5, <1>6, SyncSays
  <1>8. Behind(c, st, entry')
    <2>1. subjectsOf(v) = subjectsOf(c.q) /\ subjectsOf(c.q) \subseteq st
      BY <1>2, <1>6 DEF subjectsOf
    <2> QED
      BY <1>5, <1>7, <2>1 DEF Behind
  <1>9. Laid(c, off' \cup st, world, world')
    <2>1. PICK w : w = world
      OBVIOUS
    <2>2. PICK more : more = off'
      OBVIOUS
    <2>3. Laid(c, more \cup st, w, w)
      <3>1. subjectsOf(c.q) \subseteq st
        BY <1>2
      <3> QED
        BY <1>5, <3>1, LaidHeld
    <2> QED
      BY <1>4, <2>1, <2>2, <2>3
  <1>10. run[t].stalled \subseteq st /\ off \subseteq off'
    BY <1>2, <1>4
  <1> QED
    BY <1>1, <1>4, <1>7, <1>8, <1>9, <1>10, TurnOrder

(* Nothing runs at first. *)
LEMMA OrderStarts == Init => OrderInv
  <1> SUFFICES ASSUME Init
               PROVE  OrderInv
    OBVIOUS
  <1>1. (\A n \in Change : screen[n] = NoEntry) /\ \A t \in Tab : run[t] = NoRun
    BY DEF Init
  <1>2. OneSyncs
    BY <1>1 DEF OneSyncs, NoRun
  <1>3. InOrder(<<>>)
    <2>1. 1 .. Len(<<>>) = {}
      OBVIOUS
    <2> QED
      BY <2>1 DEF InOrder
  <1>4. ASSUME NEW t \in Tab
        PROVE  InOrder(run[t].todo) /\ run[t].phase = "idle"
    BY <1>1, <1>3 DEF NoRun
  <1> QED
    BY <1>1, <1>2, <1>4 DEF OrderInv

(* What the device and people do to the queue, and that the runs stay in order. *)
LEMMA PeopleOrder ==
    ASSUME SyncInv, OrderInv, Orderly, NEW n \in Change,
           Write(n) \/ Arrive(n) \/ TimeOut(n) \/ StaysListed(n) \/ keepServer(n)
    PROVE  Calm(entry, entry') /\ OrderInv'
  <1>1. StaysListed(n) => keepMine(n)
    BY DEF StaysListed, Orderly
  <1> QED
    BY <1>1, WriteOrder, ArriveOrder, TimeOutOrder, KeepMineOrder, KeepServerOrder

(* A step of a run keeps the runs in order. *)
LEMMA RunsOrder ==
    ASSUME SyncInv, OrderInv, Orderly, NEW t \in Tab, GoesAhead(t) \/ Stops(t)
    PROVE  OrderInv'
  <1>1. CASE List(t)
    BY <1>1, ListOrder
  <1>2. CASE Plan(t)
    BY <1>2, PlanOrder
  <1>3. CASE Turn(t)
    BY <1>3, PassOverOrder, AskOrder, SkipOrder, SendOrder, RefusedOrder DEF Turn
  <1>4. CASE Stops(t)
    <2>1. run[t].phase # "idle" /\ Goes(t, <<>>, {}) /\ screen' = screen
      BY <1>4 DEF Stops, Stop, LoseAnswer, Sending
    <2> QED
      BY <2>1, StopOrder
  <1> QED
    BY <1>1, <1>2, <1>3, <1>4 DEF GoesAhead

(* Nothing happens. *)
LEMMA StutterOrder ==
    ASSUME SyncInv, OrderInv, Orderly, UNCHANGED vars
    PROVE  Calm(entry, entry') /\ OrderInv'
  <1>1. UNCHANGED <<entry, screen, run, world, off>>
    BY DEF vars
  <1>2. Calm(entry, entry')
    BY <1>1, CalmStays
  <1>3. \A n \in Change : screen'[n] = NoEntry
    BY <1>1, OrderSays
  <1> QED
    BY <1>1, <1>2, <1>3, QuietOrder

(* Whatever the device, a person or the others do. *)
LEMMA OrderStep == SyncInv /\ OrderInv /\ [Next]_vars => OrderInv'
  <1> SUFFICES ASSUME SyncInv, OrderInv, [Next]_vars, Orderly
               PROVE  OrderInv'
    BY DEF OrderInv
  <1>1. ASSUME NEW n \in Change, Write(n) \/ Arrive(n) \/ TimeOut(n) \/ StaysListed(n) \/ keepServer(n)
        PROVE  OrderInv'
    BY <1>1, PeopleOrder
  <1>2. ASSUME NEW t \in Tab, GoesAhead(t) \/ Stops(t)
        PROVE  OrderInv'
    BY <1>2, RunsOrder
  <1>3. CASE ChangeElsewhere \/ DeleteRecord \/ DeleteTarget
    BY <1>3, OthersOrder
  <1>4. CASE UNCHANGED vars
    BY <1>4, StutterOrder
  <1> QED
    BY <1>1, <1>2, <1>3, <1>4 DEF Next

(* sync.ts, plan.ts: where the tabs lock and one person decides in one, a run has what it
   listed in the order of the queue, and each verdict it is still to act on is right about
   what the changes before it will have left, or is set aside. *)
THEOREM OrderInvariant == Spec => []OrderInv
  BY SyncInvariant, OrderStarts, OrderStep, PTL DEF Spec

-----------------------------------------------------------------------------
(* The queue is worked off in its order and once. *)

(* What QueueSound says of a step. *)
StepSound == NoOvertaking /\ GoneIsGone /\ SkippedIsThere /\ NoSilentOverride

(* A step in which nothing leaves the queue but what a person discards, and nothing is
   sent but what was sent before. *)
LEMMA QuietSound ==
    ASSUME SyncInv, GoneIsGone,
           \A n \in Queue : outcome'[n] = outcome[n] \/ outcome'[n] = "discarded",
           \A n \in Queue \ inflight : applied'[n] = applied[n]
    PROVE  StepSound
  <1>1. NoOvertaking
    BY DEF NoOvertaking
  <1>2. SkippedIsThere
    BY DEF SkippedIsThere
  <1>3. NoSilentOverride
    <2>1. \A n \in Queue : applied[n] \in Nat
      BY SyncSays DEF Queue, KeysTell
    <2> QED
      BY <2>1 DEF NoSilentOverride
  <1> QED
    BY <1>1, <1>2, <1>3 DEF StepSound

(* What is gone stays gone. *)
LEMMA CalmGone ==
    ASSUME Calm(entry, entry')
    PROVE  GoneIsGone
  BY DEF Calm, GoneIsGone

(* A request makes its own change only. *)
LEMMA ServeOwn ==
    ASSUME SyncInv, NEW n \in Change, NEW q, Serve(n, q)
    PROVE  \A m \in Change \ {n} : applied'[m] = applied[m]
  BY SyncSays DEF Serve

(* The device and people. *)
LEMMA PeopleSound ==
    ASSUME SyncInv, OrderInv, Orderly, NEW n \in Change,
           Write(n) \/ Arrive(n) \/ TimeOut(n) \/ StaysListed(n) \/ keepServer(n)
    PROVE  StepSound
  <1>1. GoneIsGone
    BY PeopleOrder, CalmGone
  <1>2. CASE UNCHANGED <<outcome, applied>>
    BY <1>1, <1>2, QuietSound
  <1>3. CASE Arrive(n)
    <2>1. n \in inflight
      BY <1>3 DEF Arrive
    <2>2. \A m \in Queue \ inflight : applied'[m] = applied[m]
      <3>1. CASE Serve(n, entry[n])
        BY <2>1, <3>1, ServeOwn DEF Queue
      <3>2. CASE applied' = applied
        BY <3>2
      <3> QED
        BY <1>3, <3>1, <3>2 DEF Arrive
    <2>3. \A m \in Queue : outcome'[m] = outcome[m]
      <3>1. CASE UNCHANGED outcome
        BY <3>1
      <3>2. ASSUME NEW how, entry[n].status = "trying", Leaves(n, how)
            PROVE  \A m \in Queue : outcome'[m] = outcome[m]
        <4>1. n \notin Queue
          BY <3>2 DEF Queue, Waiting, Attention
        <4>2. \A m \in Change \ {n} : outcome'[m] = outcome[m]
          BY <3>2, SyncSays DEF Leaves
        <4> QED
          BY <4>1, <4>2 DEF Queue
      <3> QED
        BY <1>3, <3>1, <3>2 DEF Arrive
    <2> QED
      BY <1>1, <2>2, <2>3, QuietSound
  <1>4. CASE keepServer(n)
    <2>1. applied' = applied /\ Leaves(n, "discarded")
      BY <1>4 DEF keepServer, server
    <2>2. \A m \in Queue : outcome'[m] = outcome[m] \/ outcome'[m] = "discarded"
      BY <2>1, SyncSays DEF Leaves, Queue
    <2> QED
      BY <1>1, <2>1, <2>2, QuietSound
  <1>5. Write(n) \/ TimeOut(n) \/ StaysListed(n) => UNCHANGED <<outcome, applied>>
    BY DEF Write, TimeOut, StaysListed, Look, keepMine, server
  <1> QED
    BY <1>2, <1>3, <1>4, <1>5

(* Other people. *)
LEMMA OthersSound ==
    ASSUME SyncInv, OrderInv, Orderly, ChangeElsewhere \/ DeleteRecord \/ DeleteTarget
    PROVE  StepSound
  <1>1. GoneIsGone
    BY OthersOrder, CalmGone
  <1>2. UNCHANGED <<applied, outcome>>
    BY DEF ChangeElsewhere, DeleteRecord, DeleteTarget, Other
  <1> QED
    BY <1>1, <1>2, QuietSound

(* What a turn puts, puts what waits. *)
LEMMA PutSound ==
    ASSUME SyncInv, OrderInv, Orderly, NEW t \in Tab, Sending(t), NEW q, updateQueued(t, q),
           UNCHANGED <<applied, outcome>>
    PROVE  StepSound
  <1>1. PICK c : c = Current(t)
    OBVIOUS
  <1>2. c.n \in Change /\ entry[c.n].status = "pending"
    BY <1>1, TurnNow
  <1>3. \A m \in Change : entry'[m] = IF m = c.n THEN q ELSE entry[m]
    BY <1>1, <1>2, SyncSays DEF updateQueued
  <1>4. GoneIsGone
    BY <1>2, <1>3 DEF GoneIsGone
  <1> QED
    BY <1>4, QuietSound

(* What is at its turn and not held up has nothing before it. *)
LEMMA TurnOvertakes ==
    ASSUME SyncInv, OrderInv, Orderly, NEW t \in Tab, Sending(t), NEW c, c = Current(t), ~Stalled(t),
           \A n \in Change \ {c.n} : outcome'[n] = outcome[n]
    PROVE  NoOvertaking
  <1> SUFFICES ASSUME NEW m \in Queue, NEW n \in Queue, entry[m].seq < entry[n].seq,
                      subjectsOf(entry[m]) \cap subjectsOf(entry[n]) # {}, outcome'[n] # outcome[n]
               PROVE  FALSE
    BY DEF NoOvertaking
  <1>1. n = c.n /\ m \in Change /\ entry[m].status \in Waiting
    BY DEF Queue
  <1>2. entry[n] = c.q
    BY <1>1, TurnNow
  <1>3. Shares(entry[m], c.q)
    BY <1>2 DEF Shares
  <1>4. subjectsOf(c.q) \cap run[t].stalled # {}
    BY <1>1, <1>2, <1>3, TurnNow
  <1> QED
    BY <1>4 DEF Stalled

(* It acts on what is so. *)
LEMMA TurnFinds ==
    ASSUME SyncInv, OrderInv, Orderly, NEW t \in Tab, Sending(t), NEW c, c = Current(t), ~Stalled(t),
           c.q.kind \in {"move", "hold"}, c.q.items \cap off = {}
    PROVE  Right(c, world[Record(c.q)][Field(c.q)])
  <1>1. c.q.items \cap run[t].stalled = {}
    BY DEF Stalled, subjectsOf
  <1>2. c.q.items \cap (off \cup run[t].stalled) = {}
    BY <1>1
  <1> QED
    BY <1>2, TurnNow

(* A turn finds nothing to do. *)
LEMMA SkipSound ==
    ASSUME SyncInv, OrderInv, Orderly, NEW t \in Tab, Sending(t), Skip(t)
    PROVE  StepSound
  <1>1. PICK c : c = Current(t)
    OBVIOUS
  <1>2. ~Stalled(t) /\ c.verdict = "skip" /\ Leaves(c.n, "skipped") /\ applied' = applied
    BY <1>1 DEF Skip, Handles, server
  <1>3. c.n \in Change /\ entry[c.n] = c.q /\ c.q.kind = "hold"
    BY <1>1, <1>2, TurnNow
  <1>4. /\ \A m \in Change \ {c.n} : entry'[m] = entry[m] /\ outcome'[m] = outcome[m]
        /\ entry'[c.n].status = "gone"
    BY <1>2, <1>3, GoneBehind
  <1>5. NoOvertaking
    BY <1>1, <1>2, <1>4, TurnOvertakes
  <1>6. GoneIsGone
    BY <1>4 DEF GoneIsGone
  <1>7. SkippedIsThere
    <2> SUFFICES ASSUME NEW n \in Queue, outcome[n] # "skipped", outcome'[n] = "skipped",
                        entry[n].items \cap off = {}
                 PROVE  world[Record(entry[n])].holder = entry[n].to
      BY DEF SkippedIsThere
    <2>1. n = c.n
      BY <1>4 DEF Queue
    <2>2. Right(c, world[Record(c.q)][Field(c.q)])
      BY <1>1, <1>2, <1>3, <2>1, TurnFinds
    <2>3. Field(c.q) = "holder"
      BY <1>3 DEF Field
    <2>4. world[Record(c.q)]["holder"] = c.q.to
      BY <1>2, <2>2, <2>3 DEF Right
    <2> QED
      BY <1>3, <2>1, <2>4
  <1>8. NoSilentOverride
    <2>1. \A n \in Queue : applied[n] \in Nat
      BY SyncSays DEF Queue, KeysTell
    <2> QED
      BY <1>2, <2>1 DEF NoSilentOverride
  <1> QED
    BY <1>5, <1>6, <1>7, <1>8 DEF StepSound

(* A request is made, whether its answer is noted or not. *)
LEMMA SendSound ==
    ASSUME SyncInv, OrderInv, Orderly, NEW t \in Tab, Sending(t), Send(t) \/ LoseAnswer(t)
    PROVE  StepSound
  <1>1. PICK c : c = Current(t)
    OBVIOUS
  <1>2. /\ ~Stalled(t) /\ c.verdict = "send" /\ Serve(c.n, c.q)
        /\ Leaves(c.n, "sent") \/ UNCHANGED <<entry, outcome>>
    BY <1>1 DEF Send, LoseAnswer, Handles
  <1>3. c.n \in Change /\ entry[c.n] = c.q
    BY <1>1, TurnNow
  <1>4. /\ \A m \in Change \ {c.n} : entry'[m] = entry[m] /\ outcome'[m] = outcome[m]
        /\ entry'[c.n].status = "gone" \/ entry'[c.n] = entry[c.n]
        /\ outcome'[c.n] = "sent" \/ outcome'[c.n] = outcome[c.n]
    BY <1>2, <1>3, GoneBehind
  <1>5. NoOvertaking
    BY <1>1, <1>2, <1>4, TurnOvertakes
  <1>6. GoneIsGone
    BY <1>4 DEF GoneIsGone
  <1>7. SkippedIsThere
    BY <1>4 DEF SkippedIsThere, Queue
  <1>8. NoSilentOverride
    <2> SUFFICES ASSUME NEW n \in Queue \ inflight, applied'[n] > applied[n],
                        entry[n].kind \in {"move", "hold"}, ~entry[n].force, entry[n].items \cap off = {}
                 PROVE  ~Changed(entry[n], world)
      BY DEF NoSilentOverride
    <2>1. n \in Change /\ applied[n] \in Nat
      BY SyncSays DEF Queue, KeysTell
    <2>2. n = c.n
      BY <1>2, <1>3, <2>1, ServeOwn
    <2>3. Right(c, world[Record(c.q)][Field(c.q)])
      BY <1>1, <1>2, <1>3, <2>2, TurnFinds
    <2>4. PICK v : v = world[Record(c.q)][Field(c.q)]
      OBVIOUS
    <2>5. v = c.q.base \/ (c.q.kind = "move" /\ v = c.q.to)
      BY <1>2, <1>3, <2>2, <2>3, <2>4 DEF Right
    <2> QED
      BY <1>3, <2>2, <2>4, <2>5 DEF Changed
  <1> QED
    BY <1>5, <1>6, <1>7, <1>8 DEF StepSound

(* A run. *)
LEMMA RunsSound ==
    ASSUME SyncInv, OrderInv, Orderly, NEW t \in Tab, GoesAhead(t) \/ Stops(t)
    PROVE  StepSound
  <1>1. CASE UNCHANGED <<entry, applied, outcome>>
    <2>1. GoneIsGone
      BY <1>1 DEF GoneIsGone
    <2> QED
      BY <1>1, <2>1, QuietSound
  <1>2. List(t) \/ Plan(t) \/ PassOver(t) \/ Stop(t) => UNCHANGED <<entry, applied, outcome>>
    BY DEF List, Plan, PassOver, Stop, server
  <1>3. CASE Sending(t) /\ (Ask(t) \/ Refused(t))
    <2>1. UNCHANGED <<applied, outcome>> /\ \E q : updateQueued(t, q)
      BY <1>3 DEF Ask, Refused, server
    <2> QED
      BY <1>3, <2>1, PutSound
  <1>4. CASE Sending(t) /\ (Skip(t) \/ Send(t) \/ LoseAnswer(t))
    BY <1>4, SkipSound, SendSound
  <1> QED
    BY <1>1, <1>2, <1>3, <1>4 DEF GoesAhead, Stops, Turn

(* Whoever takes it. *)
LEMMA SoundStep == SyncInv /\ OrderInv /\ [Next]_vars => (Orderly => StepSound)
  <1> SUFFICES ASSUME SyncInv, OrderInv, [Next]_vars, Orderly
               PROVE  StepSound
    OBVIOUS
  <1>1. ASSUME NEW n \in Change, Write(n) \/ Arrive(n) \/ TimeOut(n) \/ StaysListed(n) \/ keepServer(n)
        PROVE  StepSound
    BY <1>1, PeopleSound
  <1>2. ASSUME NEW t \in Tab, GoesAhead(t) \/ Stops(t)
        PROVE  StepSound
    BY <1>2, RunsSound
  <1>3. CASE ChangeElsewhere \/ DeleteRecord \/ DeleteTarget
    BY <1>3, OthersSound
  <1>4. CASE UNCHANGED vars
    <2>1. UNCHANGED <<entry, applied, outcome>>
      BY <1>4 DEF vars
    <2>2. GoneIsGone
      BY <2>1 DEF GoneIsGone
    <2> QED
      BY <2>1, <2>2, QuietSound
  <1> QED
    BY <1>1, <1>2, <1>3, <1>4 DEF Next

(* plan.ts:11-19, store.ts:234-237: where the tabs lock and one person decides in one, no
   change overtakes an earlier one to its record, what left the queue stays out of it, a
   skipped change was there already, and what others changed meanwhile is replaced by
   force only. *)
THEOREM QueueStaysSound == Spec => QueueSound
  <1>1. SyncInv /\ OrderInv /\ [Next]_vars
           => [Orderly => NoOvertaking /\ GoneIsGone /\ SkippedIsThere /\ NoSilentOverride]_vars
    BY SoundStep DEF StepSound
  <1> QED
    BY <1>1, SyncInvariant, OrderInvariant, PTL DEF Spec, QueueSound

=============================================================================
