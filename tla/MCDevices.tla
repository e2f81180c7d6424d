------------------------------- MODULE MCDevices -------------------------------
(* Systems that live on what devices send on small instances, one in each behaviour: the
   offline queue of two tabs, a bulk capture, the crossings of geofences, and a Bluetooth
   tag.  They share no state, so a behaviour runs the system it starts with, and the others
   stay as they begin. *)
EXTENDS MCOfflineSync, CaptureSession, GeofenceCrossings, TagPresence

CONSTANTS ph1, ph2

VARIABLE system

(* The places or areas are alike, and so are the tabs or readers; only one system runs,
   so its names may serve the other. *)
TwoAreas == TwoPlaces
TwoReaders == TwoTabs
TwoPhotos == {ph1, ph2}
OneAndTwo == (ph1 :> 1) @@ (ph2 :> 2)
Alike == Permutations(TwoPlaces) \cup Permutations(TwoTabs)

DeviceInit ==
    /\ system \in {"offline", "capture", "gps", "tags"}
    /\ Init /\ CaptureInit /\ GeoInit /\ TagInit
    /\ system = "gps" \/ geofence.region = {"yard"}
    /\ system = "tags" \/ place = NoZone

DeviceNext ==
    \/ system = "offline" /\ Next /\ UNCHANGED <<system, captureVars, geoVars, tagVars>>
    \/ system = "capture" /\ CaptureNext /\ UNCHANGED <<system, vars, geoVars, tagVars>>
    \/ system = "gps" /\ GeoNext /\ UNCHANGED <<system, vars, captureVars, tagVars>>
    \/ system = "tags" /\ TagNext /\ UNCHANGED <<system, vars, captureVars, geoVars>>

DeviceSpec == DeviceInit /\ [][DeviceNext]_<<system, vars, captureVars, geoVars, tagVars>>
=============================================================================
