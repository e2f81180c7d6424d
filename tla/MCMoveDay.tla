------------------------------- MODULE MCMoveDay -------------------------------
(* Systems of a day's move on small instances, one in each behaviour: the webhooks, the
   stock, the lines of a job, the shifts of a worker, and the anomalies found.  They share
   no state, so a behaviour runs the system it starts with, and the others stay as they
   begin. *)
EXTENDS MCWebhookDelivery, StockLedger, JobLines, CrewCheckin, AnomalyRuns

CONSTANTS k1, b1, b2, t1, j1, j2

VARIABLE system

(* The two that work at once are alike in every system, and so are the two lines;
   only one system runs, so its names may serve the others. *)
TwoWorkers == TwoReplicas
TwoLines == {b1, b2}
OneCrew == {k1}
OneTruck == {t1}
ThreePlaces == {<<1, 1>>, <<1, 2>>, <<2, 1>>}
TwoJobs == {j1, j2}
OneJob == {j1}
Alike == Replicas \cup Permutations(TwoLines)

Webhooks == system = "webhooks"

DayInit ==
    /\ system \in {"webhooks", "stock", "lines", "shifts", "anomalies"}
    /\ Init /\ StockInit /\ JobInit /\ CrewInit /\ OpsInit
    /\ Webhooks \/ \A e \in Endpoint : endpoint[e].state = "new"
    /\ system = "shifts" \/ shift = <<>>
    /\ system = "anomalies" \/ sticky

DayNext ==
    \/ Webhooks /\ Next /\ UNCHANGED <<system, stockVars, jobVars, crewVars, opsVars>>
    \/ system = "stock" /\ StockNext /\ UNCHANGED <<system, vars, jobVars, crewVars, opsVars>>
    \/ system = "lines" /\ JobNext /\ UNCHANGED <<system, vars, stockVars, crewVars, opsVars>>
    \/ system = "shifts" /\ CrewNext /\ UNCHANGED <<system, vars, stockVars, jobVars, opsVars>>
    \/ system = "anomalies" /\ OpsNext /\ UNCHANGED <<system, vars, stockVars, jobVars, crewVars>>

DaySpec == DayInit /\ [][DayNext]_<<system, vars, stockVars, jobVars, crewVars, opsVars>>
=============================================================================
