---------------------------- MODULE MCDashboard -----------------------------
(* Small instances of Dashboard for TLC.                                   *)
EXTENDS Dashboard

TwoMetrics == <<"latency", "packet_loss">>
=============================================================================
