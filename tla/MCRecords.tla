------------------------------- MODULE MCRecords -------------------------------
(* Systems that keep a record of what happened on small instances, one in each
   behaviour: the audit log and its verifier, a transfer of custody, and the sightings of
   readers.  They share no state, so a behaviour runs the system it starts with, and the
   others stay as they begin. *)
EXTENDS MCAuditChain, CustodyTransfer, TrackingIngest, TLC

CONSTANTS h1, h2, l1, z1, z2

VARIABLE system

(* The keys that sign checkpoints are alike, a transfer's two headers are, and those
   who finish it.  Two zones would be, but the item starts in the first. *)
TwoAlike == {h1, h2}
OneLine == {l1}
TwoZones == {z1, z2}
Alike == Permutations(TwoAlike) \cup Permutations(TwoKeys)

RecordInit ==
    /\ system \in {"audit", "custody", "sightings"}
    /\ Init /\ CustodyInit /\ IngestInit
    /\ filed = z1

RecordNext ==
    \/ system = "audit" /\ Next /\ UNCHANGED <<system, custodyVars, ivars>>
    \/ system = "custody" /\ CustodyNext /\ UNCHANGED <<system, vars, ivars>>
    \/ system = "sightings" /\ IngestNext /\ UNCHANGED <<system, vars, custodyVars>>

RecordSpec == RecordInit /\ [][RecordNext]_<<system, vars, custodyVars, ivars>>
=============================================================================
