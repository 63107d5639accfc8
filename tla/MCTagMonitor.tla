----------------------------- MODULE MCTagMonitor -----------------------------
(* Instances of TagMonitor for TLC.                                            *)
EXTENDS TagMonitor
=============================================================================
