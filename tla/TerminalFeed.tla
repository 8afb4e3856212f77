---------------------------- MODULE TerminalFeed ----------------------------
(***************************************************************************)
(* What one persistent shell promises the browsers that watch it, without  *)
(* goroutines, channels, locks or sockets.  The shell's output is a log of *)
(* chunks 1, 2, 3, ...; a browser that joins is owed the tail of the log   *)
(* that the scrollback still holds, then every later chunk in order, until *)
(* another browser joins or the browser is let go.  TerminalSession is     *)
(* shown to implement this module.                                         *)
(***************************************************************************)
EXTENDS Naturals, Sequences

CONSTANTS Conns,        \* browser connections, each joins at most once
          NoConn,       \* "nobody is watching"
          Scrollback    \* how many of the last chunks are replayed

VARIABLES length,       \* how many chunks the shell has written
          live,         \* the connection that receives new output, or NoConn
          joined,       \* the connections that have joined
          owed,         \* chunks promised to a connection and not yet shown
          shown,        \* chunks a connection has shown, in order
          broken        \* connections that failed: nothing more is owed

vars == <<length, live, joined, owed, shown, broken>>

\* The chunks a..b of the log.
Chunks(a, b) == [i \in 1..(IF a > b THEN 0 ELSE b - a + 1) |-> a + i - 1]

\* The tail of the log that the scrollback still holds.
Tailing(n) == Chunks(IF n > Scrollback THEN n - Scrollback + 1 ELSE 1, n)

Init ==
    /\ length = 0
    /\ live = NoConn
    /\ joined = {}
    /\ owed = [c \in Conns |-> <<>>]
    /\ shown = [c \in Conns |-> <<>>]
    /\ broken = {}

\* The shell writes one more chunk: the live connection is owed it, or is let go.
Emit ==
    /\ length' = length + 1
    /\ \/ /\ live \in Conns \ broken
          /\ owed' = [owed EXCEPT ![live] = Append(@, length + 1)]
          /\ UNCHANGED live
       \/ /\ live \in broken \cup {NoConn}
          /\ UNCHANGED <<owed, live>>
       \/ /\ live' = NoConn
          /\ UNCHANGED owed
    /\ UNCHANGED <<joined, shown, broken>>

\* A connection joins; whoever was live stops receiving new output.
Join(c) ==
    /\ c \notin joined
    /\ joined' = joined \cup {c}
    /\ owed' = [owed EXCEPT ![c] = Tailing(length)]
    /\ live' \in {c, NoConn}
    /\ UNCHANGED <<length, shown, broken>>

\* The next k chunks owed to a connection appear on its screen.
Show(c, k) ==
    /\ k \in 1..Len(owed[c])
    /\ shown' = [shown EXCEPT ![c] = @ \o SubSeq(owed[c], 1, k)]
    /\ owed' = [owed EXCEPT ![c] = SubSeq(@, k + 1, Len(@))]
    /\ UNCHANGED <<length, live, joined, broken>>

\* The live connection is let go; it may still be shown what it is owed.
LetGo ==
    /\ live # NoConn
    /\ live' = NoConn
    /\ UNCHANGED <<length, joined, owed, shown, broken>>

\* A connection fails: what it was owed is lost with it.
Break(c) ==
    /\ c \in joined
    /\ broken' = broken \cup {c}
    /\ owed' = [owed EXCEPT ![c] = <<>>]
    /\ UNCHANGED <<length, live, joined, shown>>

Next ==
    \/ Emit
    \/ LetGo
    \/ \E c \in Conns :
          \/ Join(c)
          \/ Break(c)
          \/ \E k \in 1..Len(owed[c]) : Show(c, k)

Spec == Init /\ [][Next]_vars
=============================================================================
