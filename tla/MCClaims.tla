------------------------------ MODULE MCClaims ------------------------------
(* Gate sets and zone modes for the runs of RiskAuthorityClaims.           *)
EXTENDS RiskAuthorityClaims

BreakerOnly == {"breaker"}
KillAndBreaker == {"kill", "breaker"}
OneZone == {"aware"}
=============================================================================
