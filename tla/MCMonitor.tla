------------------------------ MODULE MCMonitor ------------------------------
(* The small instance of Monitor that TLC checks: one object of each kind.    *)
EXTENDS Monitor
=============================================================================
