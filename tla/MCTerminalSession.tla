------------------------- MODULE MCTerminalSession --------------------------
(* The small instance of TerminalSession that TLC checks: two connections,    *)
(* which are enough for a takeover.                                           *)
EXTENDS TerminalSession
=============================================================================
