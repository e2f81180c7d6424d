--------------------------- MODULE MCIdempotencyKeys ---------------------------
(* IdempotencyKeys on small instances. *)
EXTENDS IdempotencyKeys, TLC

CONSTANTS q1, q2, q3, move, note

TwoRequests == {q1, q2}
ThreeRequests == {q1, q2, q3}
OneFingerprint == {move}
TwoFingerprints == {move, note}
Symmetry == Permutations(ThreeRequests) \cup Permutations(TwoFingerprints)
=============================================================================
