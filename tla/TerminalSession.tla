--------------------------- MODULE TerminalSession ---------------------------
(***************************************************************************)
(* One persistent shell of the panel (terminal.HubSession) and the browser *)
(* connections that attach to it.  Four kinds of goroutines meet here: the *)
(* shell's pump, and per connection the WebSocket handler (terminalSocket),*)
(* its output streamer (streamTerminalOutput) and its authorisation        *)
(* monitor.  A connection makes one channel, so a channel is named by its  *)
(* connection.  A critical section of HubSession.mu is one step.           *)
(*                                                                         *)
(* A chunk of output is its position in the shell's output.  `ended` is an *)
(* auxiliary variable: it records why a channel was closed and no action   *)
(* reads it.                                                               *)
(***************************************************************************)
EXTENDS Integers, Sequences

CONSTANTS Conns,        \* browser connections, each one WebSocket
          NoConn,       \* the nil channel
          Scrollback,   \* scrollbackBytes, counted in chunks
          BufCap,       \* attachBuffer, the capacity of a channel
          MaxOut        \* bound: chunks the shell writes in a behaviour

ASSUME ConnsAssumption == NoConn \notin Conns
ASSUME SizesAssumption ==
    /\ Scrollback \in Nat \ {0}
    /\ BufCap \in Nat
    /\ MaxOut \in Nat

VARIABLES
    shell,      \* the pty: running, ended (process gone), closed (Close called)
    pump,       \* the step the pump goroutine is at
    scrollback, \* HubSession.scrollback
    stored,     \* how many chunks have been stored
    attached,   \* HubSession.attached
    replaced,   \* HubSession.replaced
    exited,     \* HubSession.exited is closed
    open,       \* the channels that are made and not closed
    buf,        \* the chunks buffered in each channel
    main,       \* the step each connection's handler is at
    stream,     \* the step each connection's streamer is at
    replay,     \* the scrollback copy a handler has still to send
    sock,       \* each connection's socket
    code,       \* the close code the browser received, if any
    screen,     \* the chunks the browser received
    ended       \* auxiliary: why each channel was closed

shellVars == <<shell, pump, scrollback, stored, exited>>
lockVars == <<attached, replaced, open, ended>>
connVars == <<main, stream, replay, sock, code, screen>>
vars == <<shellVars, lockVars, connVars, buf>>

PumpStates == {"read", "exit", "onExit", "gone"}
MainStates == {"idle", "replay", "reading", "leaving", "hangup", "done"}
StreamStates == {"off", "drain", "verdict", "failed", "done"}
Codes == {"none", "closed", "replaced", "detached", "policy", "notFound"}
Causes == {"no", "takeover", "slow", "exit", "left"}

Init ==
    /\ shell = "running"
    /\ pump = "read"
    /\ scrollback = <<>>
    /\ stored = 0
    /\ attached = NoConn
    /\ replaced = NoConn
    /\ exited = FALSE
    /\ open = {}
    /\ buf = [c \in Conns |-> <<>>]
    /\ main = [c \in Conns |-> "idle"]
    /\ stream = [c \in Conns |-> "off"]
    /\ replay = [c \in Conns |-> <<>>]
    /\ sock = [c \in Conns |-> "none"]
    /\ code = [c \in Conns |-> "none"]
    /\ screen = [c \in Conns |-> <<>>]
    /\ ended = [c \in Conns |-> "no"]

-----------------------------------------------------------------------------
(* The shell and its pump.                                                 *)

\* The process ends by itself.
ShellExits ==
    /\ shell = "running"
    /\ shell' = "ended"
    /\ UNCHANGED <<pump, scrollback, stored, exited, lockVars, connVars, buf>>

\* Hub.Close found the session: the pty is closed and the process killed.
CloseShell ==
    /\ pump # "gone"
    /\ shell # "closed"
    /\ shell' = "closed"
    /\ UNCHANGED <<pump, scrollback, stored, exited, lockVars, connVars, buf>>

\* Mutant: the pump blocks on a full channel and never comes back to Read.
ReadErrorBlocked ==
    /\ attached # NoConn => Len(buf[attached]) < BufCap
    /\ pump = "read"
    /\ shell # "running"
    /\ shell' = "closed"
    /\ pump' = "exit"
    /\ UNCHANGED <<scrollback, stored, exited, lockVars, connVars, buf>>

\* Read returns only an error: the pump closes the pty and reaps the process.
ReadError ==
    /\ pump = "read"
    /\ shell # "running"
    /\ shell' = "closed"
    /\ pump' = "exit"
    /\ UNCHANGED <<scrollback, stored, exited, lockVars, connVars, buf>>

\* Mutant: the scrollback is never cut.
RememberAll(s, k) == Append(s, k)

\* The last Scrollback chunks of s followed by the chunk k.
Remember(s, k) ==
    LET t == Append(s, k)
    IN  IF Len(t) > Scrollback THEN Tail(t) ELSE t

\* Read returns a chunk, which goes to the scrollback; an error that comes with
\* it ends the loop after the chunk, and the pty is closed.
ReadChunk ==
    /\ pump = "read"
    /\ shell # "closed"
    /\ stored < MaxOut
    /\ scrollback' = Remember(scrollback, stored + 1)
    /\ stored' = stored + 1
    /\ \/ UNCHANGED <<pump, shell>>
       \/ shell = "ended" /\ pump' = "exit" /\ shell' = "closed"

\* Mutant: a full channel skips the chunk and keeps the browser.
StoreSkips ==
    /\ ReadChunk
    /\ buf' = IF attached # NoConn /\ Len(buf[attached]) < BufCap
              THEN [buf EXCEPT ![attached] = Append(@, stored + 1)] ELSE buf
    /\ UNCHANGED <<exited, lockVars, connVars>>

\* The pump reads a chunk and, in one critical section, remembers it and passes
\* it on, or drops a browser whose channel is full.  The read belongs to the
\* step: nothing but the pump sees the chunk before the critical section.
Store ==
    /\ ReadChunk
    /\ \/ /\ attached = NoConn
          /\ UNCHANGED <<attached, open, ended, buf>>
       \/ /\ attached # NoConn
          /\ Len(buf[attached]) < BufCap
          /\ buf' = [buf EXCEPT ![attached] = Append(@, stored + 1)]
          /\ UNCHANGED <<attached, open, ended>>
       \/ /\ attached # NoConn
          /\ Len(buf[attached]) >= BufCap
          /\ open' = open \ {attached}
          /\ ended' = [ended EXCEPT ![attached] = "slow"]
          /\ attached' = NoConn
          /\ UNCHANGED buf
    /\ UNCHANGED <<exited, replaced, connVars>>

\* The final critical section: announce the exit, then close the channel.
Exit ==
    /\ pump = "exit"
    /\ exited' = TRUE
    /\ open' = open \ {attached}
    /\ ended' = [c \in Conns |-> IF c = attached THEN "exit" ELSE ended[c]]
    /\ attached' = NoConn
    /\ pump' = "onExit"
    /\ UNCHANGED <<shell, scrollback, stored, replaced, connVars, buf>>

\* onExit removes the session from the hub.
OnExit ==
    /\ pump = "onExit"
    /\ pump' = "gone"
    /\ UNCHANGED <<shell, scrollback, stored, exited, lockVars, connVars, buf>>

-----------------------------------------------------------------------------
(* The handler of one connection.                                          *)

\* Hub.Get no longer finds the session.
NotFound(c) ==
    /\ main[c] = "idle"
    /\ pump = "gone"
    /\ main' = [main EXCEPT ![c] = "done"]
    /\ sock' = [sock EXCEPT ![c] = "closed"]
    /\ code' = [code EXCEPT ![c] = "notFound"]
    /\ UNCHANGED <<shellVars, lockVars, stream, replay, screen, buf>>

\* Attach: take over from whoever is attached and copy the scrollback; if the
\* shell has exited the new channel is closed at once.  Hub.Get ran before, while
\* the session was still in the hub: any time until now.
Attach(c) ==
    /\ main[c] = "idle"
    /\ sock' = [sock EXCEPT ![c] = "open"]
    /\ main' = [main EXCEPT ![c] = "replay"]
    /\ replay' = [replay EXCEPT ![c] = scrollback]
    /\ attached' = IF exited THEN NoConn ELSE c
    /\ replaced' = IF attached # NoConn THEN attached ELSE replaced
    /\ open' = (open \ {attached}) \cup (IF exited THEN {} ELSE {c})
    /\ ended' = [d \in Conns |-> IF d = attached THEN "takeover"
                                 ELSE IF d = c /\ exited THEN "exit"
                                 ELSE ended[d]]
    /\ UNCHANGED <<shellVars, stream, code, screen, buf>>

\* The scrollback is sent and the streamer starts; an empty one is not sent.
SendReplay(c) ==
    /\ main[c] = "replay"
    /\ sock[c] = "open" \/ replay[c] = <<>>
    /\ screen' = [screen EXCEPT ![c] = replay[c]]
    /\ replay' = [replay EXCEPT ![c] = <<>>]
    /\ main' = [main EXCEPT ![c] = "reading"]
    /\ stream' = [stream EXCEPT ![c] = "drain"]
    /\ UNCHANGED <<shellVars, lockVars, sock, code, buf>>

\* Sending the scrollback fails: the handler returns without a streamer.
ReplayFails(c) ==
    /\ main[c] = "replay"
    /\ sock[c] = "closed"
    /\ replay[c] # <<>>
    /\ main' = [main EXCEPT ![c] = "leaving"]
    /\ UNCHANGED <<shellVars, lockVars, stream, replay, sock, code, screen, buf>>

\* The browser sees the first close code sent while its socket is open.  A close
\* message that gives up after its second is a Disconnect before it.
Tell(c, k) == IF sock[c] = "open" /\ code[c] = "none"
              THEN [code EXCEPT ![c] = k] ELSE code

\* ReadMessage fails, or the message is refused, with or without a close code.
StopReading(c) ==
    /\ main[c] = "reading"
    /\ main' = [main EXCEPT ![c] = "leaving"]
    /\ \/ code' = code
       \/ sock[c] = "open" /\ code' = Tell(c, "policy")
    /\ UNCHANGED <<shellVars, lockVars, stream, replay, sock, screen, buf>>

\* Mutant: detach closes the channel without asking whether it is still attached.
DetachAlways(c) ==
    /\ main[c] = "leaving"
    /\ main' = [main EXCEPT ![c] = "hangup"]
    /\ open' = open \ {c}
    /\ ended' = [ended EXCEPT ![c] = "left"]
    /\ attached' = NoConn
    /\ UNCHANGED <<shellVars, replaced, stream, replay, sock, code, screen, buf>>

\* The deferred detach: close the channel unless somebody already did.
Detach(c) ==
    /\ main[c] = "leaving"
    /\ main' = [main EXCEPT ![c] = "hangup"]
    /\ \/ /\ attached = c
          /\ open' = open \ {c}
          /\ ended' = [ended EXCEPT ![c] = "left"]
          /\ attached' = NoConn
       \/ /\ attached # c
          /\ UNCHANGED <<open, ended, attached>>
    /\ UNCHANGED <<shellVars, replaced, stream, replay, sock, code, screen, buf>>

\* The WebSocket library closes the socket when the handler has returned.
HangUp(c) ==
    /\ main[c] = "hangup"
    /\ main' = [main EXCEPT ![c] = "done"]
    /\ sock' = [sock EXCEPT ![c] = "closed"]
    /\ UNCHANGED <<shellVars, lockVars, stream, replay, code, screen, buf>>

-----------------------------------------------------------------------------
(* The streamer, the monitor and the network of one connection.            *)

\* The streamer takes a chunk from its channel and writes it to the socket; the
\* write fails on a closed socket and after a close code was sent.
Forward(c) ==
    /\ stream[c] = "drain"
    /\ buf[c] # <<>>
    /\ buf' = [buf EXCEPT ![c] = Tail(@)]
    /\ \/ /\ sock[c] = "open"
          /\ code[c] = "none"
          /\ screen' = [screen EXCEPT ![c] = Append(@, Head(buf[c]))]
          /\ UNCHANGED stream
       \/ /\ sock[c] = "closed" \/ code[c] # "none"
          /\ stream' = [stream EXCEPT ![c] = "failed"]
          /\ UNCHANGED screen
    /\ UNCHANGED <<shellVars, lockVars, main, replay, sock, code>>

\* Mutant: the streamer leaves when the shell exits, before its channel is empty.
SayClosedEarly(c) ==
    /\ stream[c] = "drain"
    /\ exited
    /\ stream' = [stream EXCEPT ![c] = "done"]
    /\ code' = Tell(c, "closed")
    /\ sock' = [sock EXCEPT ![c] = "closed"]
    /\ UNCHANGED <<shellVars, lockVars, main, replay, screen, buf>>

\* The channel is closed and empty; the shell has exited.
SayClosed(c) ==
    /\ stream[c] = "drain"
    /\ buf[c] = <<>>
    /\ c \notin open
    /\ exited
    /\ stream' = [stream EXCEPT ![c] = "done"]
    /\ code' = Tell(c, "closed")
    /\ sock' = [sock EXCEPT ![c] = "closed"]
    /\ UNCHANGED <<shellVars, lockVars, main, replay, screen, buf>>

\* The channel is closed and empty; the shell runs: WasReplaced will tell.
NotExited(c) ==
    /\ stream[c] = "drain"
    /\ buf[c] = <<>>
    /\ c \notin open
    /\ ~exited
    /\ stream' = [stream EXCEPT ![c] = "verdict"]
    /\ UNCHANGED <<shellVars, lockVars, main, replay, sock, code, screen, buf>>

\* Mutant: any takeover in the past counts.
WasReplacedEver(c) == replaced # NoConn

\* The last channel a takeover closed is this one.
WasReplaced(c) == replaced = c

\* Mutant: the close code is sent but the connection is not closed.
SayDetachedOnly(c) ==
    /\ stream[c] = "verdict"
    /\ stream' = [stream EXCEPT ![c] = "done"]
    /\ code' = Tell(c, IF WasReplaced(c) THEN "replaced" ELSE "detached")
    /\ UNCHANGED <<shellVars, lockVars, main, replay, sock, screen, buf>>

\* 4001 if the channel was replaced, 4000 otherwise; then the socket is closed.
SayDetached(c) ==
    /\ stream[c] = "verdict"
    /\ stream' = [stream EXCEPT ![c] = "done"]
    /\ code' = Tell(c, IF WasReplaced(c) THEN "replaced" ELSE "detached")
    /\ sock' = [sock EXCEPT ![c] = "closed"]
    /\ UNCHANGED <<shellVars, lockVars, main, replay, screen, buf>>

\* monitorTerminalAuthorization finds the web session revoked.
Revoke(c) ==
    /\ main[c] \in {"replay", "reading", "leaving"}
    /\ sock[c] = "open"
    /\ code' = Tell(c, "policy")
    /\ sock' = [sock EXCEPT ![c] = "closed"]
    /\ UNCHANGED <<shellVars, lockVars, main, stream, replay, screen, buf>>

\* The browser leaves or the network fails.
Disconnect(c) ==
    /\ sock[c] = "open"
    /\ sock' = [sock EXCEPT ![c] = "closed"]
    /\ UNCHANGED <<shellVars, lockVars, main, stream, replay, code, screen, buf>>

-----------------------------------------------------------------------------
Pump == Store \/ ReadError \/ Exit \/ OnExit

Handler(c) == \/ NotFound(c) \/ Attach(c) \/ SendReplay(c) \/ ReplayFails(c)
              \/ StopReading(c) \/ Detach(c) \/ HangUp(c)

Streamer(c) == Forward(c) \/ SayClosed(c) \/ NotExited(c) \/ SayDetached(c)

Next ==
    \/ ShellExits
    \/ CloseShell
    \/ Pump
    \/ \E c \in Conns : Handler(c) \/ Streamer(c) \/ Revoke(c) \/ Disconnect(c)

Spec == Init /\ [][Next]_vars

\* The pump runs on: a Read of a pty that has ended or was closed returns.
PumpFairness ==
    /\ WF_vars(ReadError)
    /\ WF_vars(Exit)
    /\ WF_vars(OnExit)

\* The panel's own goroutines run on: ReadMessage and WriteMessage fail on a closed
\* socket, WriteMessage after a close code too, and WriteControl gives up after a
\* second.  That a write on an open socket returns is no part of it: WriteMessage has
\* no deadline.  A handler may read for ever while its socket is open.
ConnFairness(c) ==
    /\ WF_vars((sock[c] = "closed" \/ replay[c] = <<>>) /\ (SendReplay(c) \/ ReplayFails(c)))
    /\ WF_vars(sock[c] = "closed" /\ StopReading(c))
    /\ WF_vars(Detach(c) \/ HangUp(c))
    /\ WF_vars((sock[c] = "closed" \/ code[c] # "none") /\ Forward(c))
    /\ WF_vars(SayClosed(c) \/ NotExited(c) \/ SayDetached(c))

\* The browser goes on reading, so writes to it return.
BrowserReads(c) == WF_vars(SendReplay(c)) /\ WF_vars(Forward(c))

\* Every web session expires, at a time set when it began, and the monitor, which
\* looks at it every 30 s, closes the socket whatever is being written to it.
SessionExpires(c) == WF_vars(Revoke(c))

-----------------------------------------------------------------------------
(* Properties.                                                             *)

\* The control state stays in range.
ShapeOK ==
    /\ shell \in {"running", "ended", "closed"}
    /\ pump \in PumpStates
    /\ attached \in Conns \cup {NoConn}
    /\ replaced \in Conns \cup {NoConn}
    /\ exited \in BOOLEAN
    /\ open \in SUBSET Conns
    /\ main \in [Conns -> MainStates]
    /\ stream \in [Conns -> StreamStates]
    /\ sock \in [Conns -> {"none", "open", "closed"}]
    /\ code \in [Conns -> Codes]
    /\ ended \in [Conns -> Causes]

\* Chunks are positions of the output, and every store of them keeps to its size.
ChunksOK ==
    /\ stored \in 0..MaxOut
    /\ scrollback \in Seq(1..MaxOut)
    /\ Len(scrollback) <= Scrollback
    /\ buf \in [Conns -> Seq(1..MaxOut)]
    /\ \A c \in Conns : Len(buf[c]) <= BufCap
    /\ replay \in [Conns -> Seq(1..MaxOut)]
    /\ screen \in [Conns -> Seq(1..MaxOut)]

\* Type invariant.
TypeOK == ShapeOK /\ ChunksOK

\* The attached channel is the open one.  So no critical section closes a
\* channel twice or sends on a closed one (either panics in Go), and no channel
\* is forgotten while its streamer still waits on it (hub.go Attach, detach,
\* pump).
AttachedOpen == open = {attached} \ {NoConn}

\* What connection c has seen, followed by what it will be sent.
Promised(c) == screen[c] \o replay[c] \o (IF stream[c] = "failed" THEN <<>> ELSE buf[c])

IsRun(s) == \A i \in 1..(Len(s) - 1) : s[i + 1] = s[i] + 1

EndsAt(s, n) == IF s = <<>> THEN n = 0 ELSE s[Len(s)] = n

\* A browser sees one unbroken piece of the shell's output: no chunk missing,
\* repeated or out of order between the scrollback replay and the live stream,
\* and while it is attached everything stored so far reaches it (the copy and
\* the registration in Attach share one critical section with pump).
NoGap ==
    \A c \in Conns :
        /\ IsRun(screen[c])
        /\ IsRun(Promised(c))
        /\ attached = c /\ stream[c] # "failed" => EndsAt(Promised(c), stored)

\* The close code a browser acts on is true: 4001 only if another browser took
\* the session over, and a connection the shell's exit ended is never told to
\* reconnect (close(exited) precedes close(attached), streamTerminalOutput
\* looks at Exited first).
CodeIsTrue ==
    \A c \in Conns :
        /\ code[c] = "replaced" => ended[c] = "takeover"
        /\ ended[c] = "exit" => code[c] \notin {"replaced", "detached"}

\* "WasReplaced reports whether the attachment ended because another browser took over
\* the session" (hub.go:105): a browser whose session was taken over is not told that it
\* was detached, for then it would reconnect and take the session back.
TakeoverIsTold == \A c \in Conns : ended[c] = "takeover" => code[c] # "detached"

\* What CodeIsTrue rests on: a channel is open until a cause is recorded, the
\* exit is announced before it ends a channel, and the channel remembered as
\* replaced was taken over.
Endings ==
    /\ exited <=> pump \in {"onExit", "gone"}
    /\ exited => attached = NoConn
    /\ replaced # NoConn => ended[replaced] = "takeover"
    /\ \A c \in Conns :
        /\ main[c] = "idle" => stream[c] = "off" /\ ended[c] = "no"
        /\ c \in open => main[c] \in {"replay", "reading", "leaving"} /\ ended[c] = "no"
        /\ stream[c] # "off" \/ main[c] \in {"replay", "reading", "leaving", "hangup"}
               => c \in open \/ ended[c] # "no"
        /\ ended[c] = "exit" => exited
        /\ stream[c] = "verdict" => ended[c] \notin {"no", "exit"}
        /\ code[c] \in {"closed", "replaced", "detached"} => ended[c] # "no"

\* A browser that is told the terminal is closed, and was attached when the
\* shell exited, has been shown the output to its end.
LastOutputShown ==
    \A c \in Conns :
        ended[c] = "exit" /\ code[c] = "closed" => EndsAt(screen[c], stored)

\* The inductive invariant of the safety theorems.
IInv == TypeOK /\ AttachedOpen /\ Endings /\ CodeIsTrue

\* The connections that attached, those whose streamer failed, and what is on its
\* way to the others.
Joined == {c \in Conns : main[c] \in MainStates \ {"idle"} /\ code[c] # "notFound"}
Broken == {c \in Conns : stream[c] = "failed"}
Owed == [c \in Conns |-> IF stream[c] = "failed" THEN <<>> ELSE replay[c] \o buf[c]]

\* The connection's promise as TerminalFeed states it.
Feed == INSTANCE TerminalFeed WITH
    length <- stored,
    live   <- attached,
    joined <- Joined,
    owed   <- Owed,
    shown  <- screen,
    broken <- Broken

\* The pump, the handlers, the streamers and the network together implement the
\* feed: one log, replayed from the scrollback, followed by one live viewer.
ImplementsFeed == Feed!Spec

\* A shell that ends or is closed leaves the hub, whatever the browsers do: a
\* slow or dead browser never holds the pump up, so Close, which waits for
\* Exited, returns.  Only the pump is assumed to run.
ShellLeavesHub == PumpFairness => (shell # "running" ~> pump = "gone")

\* Nothing of the connection is left: its handler and its streamer have returned and
\* its socket is closed.
Gone(c) == main[c] = "done" /\ stream[c] \in {"off", "failed", "done"} /\ sock[c] = "closed"

\* No goroutine or socket outlives its connection.  Once the socket is closed, by
\* whomever, handler and streamer return and leave the session.  A connection whose
\* channel was closed ends at once if its browser reads; one that does not read blocks
\* its streamer, and with it the close code, until its web session expires at the latest
\* (terminalSocket, streamTerminalOutput, monitorTerminalAuthorization).
ConnectionEnds ==
    \A c \in Conns : ConnFairness(c) =>
        /\ sock[c] = "closed" ~> Gone(c)
        /\ BrowserReads(c) \/ SessionExpires(c) => (ended[c] # "no" ~> Gone(c))
=============================================================================
