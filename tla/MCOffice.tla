------------------------------- MODULE MCOffice --------------------------------
(* Systems an office works with, on small instances, one in each behaviour: requests with
   idempotency keys, the milestone mails, a claim, and an inspection.  They share no state, so a behaviour
   runs the system it starts with, and the others stay as they begin. *)
EXTENDS MCIdempotencyKeys, PortalNotifier, ClaimReview, InspectionSignoff

CONSTANTS g1, x1, c1, c2, d1

VARIABLE system

(* Two requests and two servers are alike, and so are two changes and two milestones;
   only one system runs, so its names may serve the others. *)
TwoNotifiers == TwoRequests
TwoMilestones == TwoFingerprints
OneFollower == {g1}
OneThing == {x1}
TwoStaff == {c1, c2}
OneChief == {c1}
TwoAskers == TwoRequests
OneScratch == {d1}
BothNearOne == <<<<1, d1>>, <<2, d1>>>>
Alike == Permutations(TwoRequests) \cup Permutations(TwoFingerprints)

OfficeInit ==
    /\ system \in {"requests", "mails", "claims", "inspections"}
    /\ Init /\ PortalInit /\ ClaimInit /\ InspectionInit

OfficeNext ==
    \/ system = "requests" /\ Next /\ UNCHANGED <<system, pvars, claimVars, inspVars>>
    \/ system = "mails" /\ PortalNext /\ UNCHANGED <<system, vars, claimVars, inspVars>>
    \/ system = "claims" /\ ClaimNext /\ UNCHANGED <<system, vars, pvars, inspVars>>
    \/ system = "inspections" /\ InspectionNext /\ UNCHANGED <<system, vars, pvars, claimVars>>

OfficeSpec == OfficeInit /\ [][OfficeNext]_<<system, vars, pvars, claimVars, inspVars>>
=============================================================================
