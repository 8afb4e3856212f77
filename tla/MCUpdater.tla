------------------------------ MODULE MCUpdater ------------------------------
(* The small instance of Updater that TLC checks: three releases are enough   *)
(* for an update on top of one that was rolled back or interrupted.           *)
EXTENDS Updater
=============================================================================
