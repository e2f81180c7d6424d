-------------------------- MODULE MCWebhookDelivery --------------------------
(* WebhookDelivery on small instances. *)
EXTENDS WebhookDelivery, TLC

CONSTANTS e1, r1, r2

OneEndpoint == {e1}
OneReplica == {r1}
TwoReplicas == {r1, r2}
Replicas == Permutations(TwoReplicas)
=============================================================================
