---------------------------- MODULE MCTerminalHub ----------------------------
(* The small instances of TerminalHub that TLC checks. *)
EXTENDS TerminalHub
=============================================================================
