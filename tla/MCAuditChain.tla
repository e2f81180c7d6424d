---------------------------- MODULE MCAuditChain ----------------------------
(* Instances of AuditChain for TLC. *)
EXTENDS AuditChain

CONSTANTS s1, s2, p1, v1, k1, k2

TwoSessions == {s1, s2}
OneSession == {s1}
OnePoller == {p1}
OneVerifier == {v1}
OneKey == {k1}
TwoKeys == {k1, k2}
Nobody == {}

=============================================================================
