----------------------------- MODULE MCReports -----------------------------
(* Zone modes for the runs of LossReports.                                 *)
EXTENDS LossReports

OneZone == {"aware"}
BothZones == {"aware", "naive"}
=============================================================================
