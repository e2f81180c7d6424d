------------------------------- MODULE MCWorkers -------------------------------
(* Systems with a worker that must come to an end of its work on small instances, one in
   each behaviour: the webhooks and the teardown guides.  They share no state, so a
   behaviour runs the system it starts with, and the other stays as it begins; what is
   fair is fair for the system that runs. *)
EXTENDS MCWebhookDelivery, TeardownJobs

CONSTANTS s1, s2, pe1

VARIABLE system

TwoServers == {s1, s2}
OnePerson == {pe1}

Webhooks == system = "webhooks"
Guides == system = "guides"

WorkerInit ==
    /\ system \in {"webhooks", "guides"}
    /\ Init /\ TeardownInit
    /\ Webhooks \/ \A e \in Endpoint : endpoint[e].state = "new"

WorkerNext ==
    \/ Webhooks /\ Next /\ UNCHANGED <<system, teardownVars>>
    \/ Guides /\ TeardownNext /\ UNCHANGED <<system, vars>>

WorkerSpec ==
    /\ WorkerInit /\ [][WorkerNext]_<<system, vars, teardownVars>>
    /\ Webhooks => Fairness
    /\ TeardownFairness
=============================================================================
