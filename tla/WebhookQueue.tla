----------------------------- MODULE WebhookQueue -----------------------------
(***************************************************************************)
(* What the delivery worker promises (docs/event-backbone.md:259-280): a   *)
(* delivery is open until it is settled, only an open one is sent, never   *)
(* by two senders at once, and what is settled stays so.                   *)
(***************************************************************************)
EXTENDS Naturals

CONSTANT Delivery

VARIABLES
    life,     \* [Delivery -> "absent", "open" or "settled"]
    senders   \* [Delivery -> how many are sending it]

Init ==
    /\ life = [d \in Delivery |-> "absent"]
    /\ senders = [d \in Delivery |-> 0]

(* One delivery's part in a step. *)
Stay(d) == UNCHANGED <<life[d], senders[d]>>

Create(d) ==              \* queued, or made with its lease by a ping or a resend
    /\ life[d] = "absent" /\ senders[d] = 0
    /\ life'[d] = "open" /\ senders'[d] \in {0, 1}

Begin(d) ==
    /\ life[d] = "open" /\ senders[d] = 0
    /\ life'[d] = "open" /\ senders'[d] = 1

Record(d) ==              \* the sender stores what came of it
    /\ life[d] = "open" /\ senders[d] = 1
    /\ life'[d] \in {"open", "settled"} /\ senders'[d] = 0

Lose(d) ==                \* the sender is gone without a word
    /\ senders[d] = 1
    /\ life'[d] = life[d] /\ senders'[d] = 0

Cancel(d) ==              \* sent again by hand instead
    /\ life[d] = "open" /\ senders[d] = 0
    /\ life'[d] = "settled" /\ senders'[d] = 0

Forget(d) ==              \* pruned, or its endpoint deleted under a sender
    /\ life'[d] = "absent"
    /\ senders'[d] = senders[d]

Next == \A d \in Delivery :
    Stay(d) \/ Create(d) \/ Begin(d) \/ Record(d) \/ Lose(d) \/ Cancel(d) \/ Forget(d)

Spec == Init /\ [][Next]_<<life, senders>>
=============================================================================
