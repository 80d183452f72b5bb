------------------------------ MODULE MCAudit ------------------------------
(* Gate sets and zone modes for the runs of RiskAuthority.                 *)
EXTENDS RiskAuthorityAudit

AllGates == {"kill", "breaker", "window"}
BreakerOnly == {"breaker"}
OneZone == {"aware"}
BothZones == {"aware", "naive"}
=============================================================================
