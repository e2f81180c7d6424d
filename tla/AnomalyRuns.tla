------------------------------ MODULE AnomalyRuns ------------------------------
(* The anomalies of operations intelligence (ops-intel/engine.ts, reconcile.ts): runs of
   the rules gather facts, load the rows on file and reconcile the two, while people
   resolve anomalies, the problem comes and goes, and an administrator switches its rule
   on and off.  A run holds an advisory lock, and nothing else: what it decides rests on
   what it gathered and loaded before.

   One problem, (rule, key), is modelled: a condition, which lasts, or one of a sticky
   rule, whose events happen.  A row's id is its place in the sequence of rows, which is
   the order of first_seen_at while the servers' clocks agree. *)
EXTENDS Integers, Sequences, FiniteSetsExt

CONSTANTS
    Engine,      \* servers that run the rules
    MaxTimes,    \* bound: times the condition begins, or events that happen
    MaxRows      \* bound: no run starts when there are as many

ASSUME AnomalyAssumption == MaxTimes \in Nat \ {0} /\ MaxRows \in Nat \ {0}

VARIABLES
    sticky,      \* which kind of problem this is
    there,       \* the condition is there
    times,       \* the times it began, or at which events happened
    ruleOn,
    anomalies,   \* its rows in ops_anomalies
    opsRun,      \* [Engine -> its run]
    caughtUp     \* history: a run that nothing crossed was the last thing to happen

opsVars == <<sticky, there, times, ruleOn, anomalies, opsRun, caughtUp>>

NoAnomaly == [state |-> "none", quiet |-> FALSE, from |-> 0, first |-> 0, at |-> 0,
              occurrences |-> 0, why |-> "none"]
NotRunning == [pc |-> "idle", on |-> FALSE, ran |-> FALSE, found |-> FALSE, at |-> 0, prev |-> 0,
               was |-> NoAnomaly, calm |-> FALSE]

OpsInit ==
    /\ sticky \in BOOLEAN
    /\ there = FALSE /\ times = {} /\ ruleOn = TRUE
    /\ anomalies = <<>>
    /\ opsRun = [e \in Engine |-> NotRunning]
    /\ caughtUp = FALSE

Newest == Max(times \cup {0})
Row(i) == IF i = 0 THEN NoAnomaly ELSE anomalies[i]
LastRow == Row(Len(anomalies))

(* Something happens that a run under way has not seen. *)
Crosses ==
    /\ opsRun' = [e \in Engine |-> [opsRun[e] EXCEPT !.calm = FALSE]]
    /\ caughtUp' = FALSE

-----------------------------------------------------------------------------
(* The problem, the rule and the people *)

ConditionBegins ==
    /\ ~sticky /\ ~there /\ Newest < MaxTimes
    /\ there' = TRUE /\ times' = times \cup {Newest + 1}
    /\ Crosses
    /\ UNCHANGED <<sticky, ruleOn, anomalies>>

ConditionEnds ==
    /\ there /\ there' = FALSE
    /\ Crosses
    /\ UNCHANGED <<sticky, times, ruleOn, anomalies>>

(* An event; devices may report it late. *)
EventHappens ==
    /\ sticky
    /\ \E t \in 1 .. MaxTimes \ times : times' = times \cup {t}
    /\ Crosses
    /\ UNCHANGED <<sticky, there, ruleOn, anomalies>>

SwitchRule ==
    /\ ruleOn' = ~ruleOn
    /\ Crosses
    /\ UNCHANGED <<sticky, there, times, anomalies>>

(* A dismissed event is over; a dismissed condition is quiet until it goes away. *)
resolveAnomaly(resolution) ==
    /\ LastRow.state = "open"
    /\ anomalies' = [anomalies EXCEPT ![Len(anomalies)] =
           [@ EXCEPT !.state = resolution, !.quiet = resolution = "dismissed" /\ ~sticky]]
    /\ Crosses
    /\ UNCHANGED <<sticky, there, times, ruleOn>>

-----------------------------------------------------------------------------
(* A run *)

(* Mutant: runs go side by side. *)
RunLockFreeAnyway == TRUE

(* pg_try_advisory_lock *)
RunLockFree == \A e \in Engine : opsRun[e].pc = "idle"

runLocked(e) ==
    /\ opsRun[e].pc = "idle" /\ RunLockFree /\ Len(anomalies) < MaxRows
    /\ opsRun' = [opsRun EXCEPT ![e] = [NotRunning EXCEPT !.pc = "started", !.on = ruleOn,
                                                          !.calm = TRUE]]
    /\ UNCHANGED <<sticky, there, times, ruleOn, anomalies, caughtUp>>

(* The facts of a rule that is on; a gathering that fails stops only its rules.  Of a
   sticky rule, the newest event, unless it is too long ago by now. *)
Gather(e) ==
    /\ opsRun[e].pc = "started"
    /\ \E ran \in {opsRun[e].on, FALSE} :
       \E found \in {there \/ (sticky /\ times # {}), there} :
         opsRun' = [opsRun EXCEPT ![e] = [@ EXCEPT !.pc = "gathered", !.ran = ran,
                       !.found = ran /\ found, !.at = IF ran /\ found THEN Newest ELSE 0]]
    /\ UNCHANGED <<sticky, there, times, ruleOn, anomalies, caughtUp>>

(* The open row, the latest one of a problem found, or one that is quiet. *)
Existing(found) == {i \in 1 .. Len(anomalies) :
                      found \/ anomalies[i].state = "open" \/ anomalies[i].quiet}
LatestOf(is) ==
    IF \E i \in is : anomalies[i].state = "open"
    THEN CHOOSE i \in is : anomalies[i].state = "open" ELSE Max(is \cup {0})

loadExisting(e) ==
    LET prev == LatestOf(Existing(opsRun[e].found)) IN
    /\ opsRun[e].pc = "gathered"
    /\ opsRun' = [opsRun EXCEPT ![e] = [@ EXCEPT !.pc = "loaded", !.prev = prev, !.was = Row(prev)]]
    /\ UNCHANGED <<sticky, there, times, ruleOn, anomalies, caughtUp>>

(* reconcile() says what to do to which row; apply() does it, if the row still is as the
   statement asks.  A row is touched for its last_seen_at only, here the time it saw. *)
newer(r) == sticky /\ r.at > r.was.at
Open(r) == r.was.state = "open"

Inserts(r) ==
    r.found /\ ~Open(r) /\ (r.prev = 0 \/ IF sticky THEN newer(r) ELSE ~r.was.quiet)
Refreshes(r) == r.found /\ Open(r) /\ (sticky => newer(r))
Touches(r) == r.found /\ ~sticky /\ r.was.quiet
Clears(r) == Open(r) /\ (~r.on \/ (r.ran /\ ~r.found /\ ~sticky))
MarksCleared(r) == r.ran /\ ~r.found /\ ~sticky /\ r.was.quiet

Changed(r, row) ==
    CASE Refreshes(r) /\ row.state = "open" ->
             [row EXCEPT !.at = r.at, !.occurrences = r.was.occurrences + (IF sticky THEN 1 ELSE 0)]
      [] Touches(r) -> [row EXCEPT !.at = r.at]
      [] Clears(r) /\ row.state = "open" ->
             [row EXCEPT !.state = "cleared", !.why = IF r.on THEN "not_found" ELSE "rule_disabled"]
      [] MarksCleared(r) -> [row EXCEPT !.quiet = FALSE]
      [] OTHER -> row

(* At most one row of a problem is open: ON CONFLICT DO NOTHING. *)
Inserted(r) ==
    IF LastRow.state = "open" THEN anomalies
    ELSE Append(anomalies, [NoAnomaly EXCEPT !.state = "open", !.from = r.prev, !.first = r.at,
                               !.at = r.at, !.occurrences = 1])

apply(e) ==
    LET r == opsRun[e] IN
    /\ r.pc = "loaded"
    /\ anomalies' = IF Inserts(r) THEN Inserted(r)
                    ELSE [i \in DOMAIN anomalies |->
                            IF i = r.prev THEN Changed(r, anomalies[i]) ELSE anomalies[i]]
    /\ opsRun' = [opsRun EXCEPT ![e] = NotRunning]
    /\ caughtUp' = (r.calm /\ (r.on => r.ran) /\ (sticky => r.found \/ ~r.on))
    /\ UNCHANGED <<sticky, there, times, ruleOn>>

(* The server stops or a statement fails; the lock goes with the connection. *)
RunDies(e) ==
    /\ opsRun[e].pc # "idle" /\ opsRun' = [opsRun EXCEPT ![e] = NotRunning]
    /\ UNCHANGED <<sticky, there, times, ruleOn, anomalies, caughtUp>>

OpsNext ==
    \/ ConditionBegins \/ ConditionEnds \/ EventHappens \/ SwitchRule
    \/ \E resolution \in {"fixed", "dismissed"} : resolveAnomaly(resolution)
    \/ \E e \in Engine : runLocked(e) \/ Gather(e) \/ loadExisting(e) \/ apply(e) \/ RunDies(e)

OpsSpec == OpsInit /\ [][OpsNext]_opsVars

-----------------------------------------------------------------------------
(* Properties *)

AnomalyTypeOK ==
    /\ {sticky, there, ruleOn, caughtUp} \subseteq BOOLEAN /\ times \subseteq 1 .. MaxTimes
    /\ \A i \in DOMAIN anomalies :
         /\ anomalies[i].state \in {"open", "fixed", "dismissed", "cleared"}
         /\ anomalies[i].first \in times /\ anomalies[i].at \in times
         /\ anomalies[i].quiet => anomalies[i].state = "dismissed"
    /\ \A e \in Engine : opsRun[e].pc \in {"idle", "started", "gathered", "loaded"}

(* The rows of a problem are one history: each follows the one before it, whatever people
   resolved while runs were under way, and only the last may be open. *)
OneHistory ==
    \A i \in DOMAIN anomalies :
      anomalies[i].from = i - 1 /\ (anomalies[i].state = "open" => i = Len(anomalies))

(* A condition somebody dismissed, or a run found gone, is not reported again until it
   came back.  A run may have gathered its facts before it did, and look at the rows
   after: the lock keeps the row of the comeback from being there yet. *)
ReportedOnce ==
    ~sticky => \A i \in 1 .. Len(anomalies) - 1 :
      anomalies[i].state = "dismissed" \/ anomalies[i].why = "not_found"
        => anomalies[i].at < anomalies[i + 1].first

(* How often each row says its problem occurred. *)
Occurrences == [i \in DOMAIN anomalies |-> anomalies[i].occurrences]

(* An event is reported, or counted into an open row, once. *)
EventsCountOnce ==
    sticky =>
      /\ \A i \in 1 .. Len(anomalies) - 1 : anomalies[i].at < anomalies[i + 1].first
      /\ MapThenSumSet(LAMBDA i : Occurrences[i], DOMAIN anomalies) <= Cardinality(times)

(* After a run that nothing crossed, a condition is on file as open exactly when it is
   there and its rule on, unless it is quiet because somebody dismissed it and it has
   been there since; and the newest event is on file. *)
CatchesUp ==
    caughtUp =>
      /\ LastRow.state = "open" => ruleOn
      /\ (ruleOn /\ ~sticky) => (there <=> LastRow.state = "open" \/ LastRow.quiet)
      /\ (ruleOn /\ sticky) => LastRow.at = Newest

(* All of these, under the run lock. *)
AnomaliesSound == AnomalyTypeOK /\ OneHistory /\ ReportedOnce /\ EventsCountOnce /\ CatchesUp
=============================================================================
