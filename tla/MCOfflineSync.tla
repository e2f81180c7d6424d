----------------------------- MODULE MCOfflineSync -----------------------------
(* OfflineSync on small instances. *)
EXTENDS OfflineSync, TLC

CONSTANTS i1, i2, p1, p2, h1, t1, t2

OneItem == {i1}
TwoPlaces == {p1, p2}
OneHolder == {h1}
NoHolder == {}
OneTab == {t1}
TwoTabs == {t1, t2}
PlacesAlike == Permutations(TwoPlaces)
=============================================================================
