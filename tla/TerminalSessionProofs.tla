------------------------ MODULE TerminalSessionProofs ------------------------
(***************************************************************************)
(* Machine-checked proofs about TerminalSession, for every set of browser  *)
(* connections and every size of the scrollback and the channels: the      *)
(* exit code, what each browser is shown of the output, and the step by    *)
(* step refinement of TerminalFeed.                                        *)
(***************************************************************************)
EXTENDS TerminalSession, SequenceTheorems, TLAPS

USE ConnsAssumption, SizesAssumption

\* Remembering a chunk keeps the scrollback a bounded sequence of chunks.
LEMMA RememberType ==
  ASSUME NEW s \in Seq(1..MaxOut), Len(s) <= Scrollback, NEW k \in 1..MaxOut
  PROVE  /\ Remember(s, k) \in Seq(1..MaxOut)
         /\ Len(Remember(s, k)) <= Scrollback
<1>1. Append(s, k) \in Seq(1..MaxOut) /\ Len(Append(s, k)) = Len(s) + 1
  BY AppendProperties
<1>2. Append(s, k) # <<>>
  BY AppendProperties
<1>3. /\ Tail(Append(s, k)) \in Seq(1..MaxOut)
      /\ Len(Tail(Append(s, k))) = Len(s)
  BY <1>1, <1>2, HeadTailProperties, LenProperties
<1>4. Len(s) \in Nat
  BY LenProperties
<1>5. CASE Len(Append(s, k)) > Scrollback
  <2>1. Remember(s, k) = Tail(Append(s, k))
    BY <1>5, Zenon DEF Remember
  <2> QED BY <2>1, <1>3, Zenon
<1>6. CASE ~(Len(Append(s, k)) > Scrollback)
  <2>1. Remember(s, k) = Append(s, k)
    BY <1>6, Zenon DEF Remember
  <2>2. Len(Append(s, k)) <= Scrollback
    BY <1>1, <1>4, <1>6
  <2> QED BY <2>1, <2>2, <1>1, Zenon
<1> QED BY <1>5, <1>6

\* A channel with room takes one more chunk.
LEMMA AppendFits ==
  ASSUME NEW s \in Seq(1..MaxOut), Len(s) < BufCap, NEW k \in 1..MaxOut
  PROVE  Append(s, k) \in Seq(1..MaxOut) /\ Len(Append(s, k)) <= BufCap
<1>1. Append(s, k) \in Seq(1..MaxOut) /\ Len(Append(s, k)) = Len(s) + 1
  BY AppendProperties
<1>2. Len(s) \in Nat
  BY LenProperties
<1>3. Len(s) + 1 <= BufCap
  BY <1>2
<1> QED BY <1>1, <1>3, Zenon

\* Taking the head of a channel leaves a shorter one.
LEMMA TakeFits ==
  ASSUME NEW s \in Seq(1..MaxOut), s # <<>>, Len(s) <= BufCap
  PROVE  /\ Head(s) \in 1..MaxOut
         /\ Tail(s) \in Seq(1..MaxOut)
         /\ Len(Tail(s)) <= BufCap
<1>1. Head(s) \in 1..MaxOut /\ Tail(s) \in Seq(1..MaxOut) /\ Len(Tail(s)) = Len(s) - 1
  BY HeadTailProperties
<1>2. Len(s) \in Nat
  BY LenProperties
<1>3. Len(s) - 1 <= BufCap
  BY <1>2
<1> QED BY <1>1, <1>3, Zenon

\* Storing a chunk keeps the chunk stores in their sizes.
LEMMA StoreChunks == ASSUME TypeOK, Store PROVE ChunksOK'
<1>1. stored + 1 \in 1..MaxOut /\ stored' = stored + 1
  BY DEF Store, ReadChunk, TypeOK, ChunksOK
<1>2. scrollback' = Remember(scrollback, stored + 1)
  BY DEF Store, ReadChunk
<1>3. scrollback \in Seq(1..MaxOut) /\ Len(scrollback) <= Scrollback
  BY DEF TypeOK, ChunksOK
<1>4. scrollback' \in Seq(1..MaxOut) /\ Len(scrollback') <= Scrollback
  BY <1>1, <1>2, <1>3, RememberType
<1>5. /\ buf' \in [Conns -> Seq(1..MaxOut)]
      /\ \A c \in Conns : Len(buf'[c]) <= BufCap
  <2>1. /\ buf \in [Conns -> Seq(1..MaxOut)]
        /\ \A c \in Conns : Len(buf[c]) <= BufCap
    BY DEF TypeOK, ChunksOK
  <2>2. CASE buf' = buf
    BY <2>1, <2>2, Zenon
  <2>3. CASE /\ attached # NoConn
             /\ Len(buf[attached]) < BufCap
             /\ buf' = [buf EXCEPT ![attached] = Append(@, stored + 1)]
    <3>1. attached \in Conns
      BY <2>3 DEF TypeOK, ShapeOK
    <3>2. /\ Append(buf[attached], stored + 1) \in Seq(1..MaxOut)
          /\ Len(Append(buf[attached], stored + 1)) <= BufCap
      BY <2>1, <2>3, <3>1, <1>1, AppendFits
    <3> HIDE DEF ChunksOK
    <3> QED BY <2>1, <2>3, <3>1, <3>2, Zenon
  <2> QED BY <2>2, <2>3 DEF Store
<1>6. replay' = replay /\ screen' = screen
  BY DEF Store, connVars
<1>7. replay \in [Conns -> Seq(1..MaxOut)] /\ screen \in [Conns -> Seq(1..MaxOut)]
  BY DEF TypeOK, ChunksOK
<1>8. stored' \in 0..MaxOut
  BY <1>1
<1> QED BY <1>4, <1>5, <1>6, <1>7, <1>8, Zenon DEF ChunksOK

\* A streamer taking a chunk from its channel keeps them in their sizes.
LEMMA ForwardChunks == ASSUME TypeOK, NEW c \in Conns, Forward(c) PROVE ChunksOK'
<1>1. /\ buf[c] \in Seq(1..MaxOut) /\ Len(buf[c]) <= BufCap
      /\ screen[c] \in Seq(1..MaxOut)
  BY DEF TypeOK, ChunksOK
<1>2. buf[c] # <<>>
  BY DEF Forward
<1>3. /\ Head(buf[c]) \in 1..MaxOut
      /\ Tail(buf[c]) \in Seq(1..MaxOut)
      /\ Len(Tail(buf[c])) <= BufCap
  BY <1>1, <1>2, TakeFits
<1>4. Append(screen[c], Head(buf[c])) \in Seq(1..MaxOut)
  BY <1>1, <1>3, AppendProperties
<1>5. /\ buf' = [buf EXCEPT ![c] = Tail(buf[c])]
      /\ \/ screen' = [screen EXCEPT ![c] = Append(screen[c], Head(buf[c]))]
         \/ screen' = screen
      /\ stored' = stored /\ scrollback' = scrollback /\ replay' = replay
  BY DEF Forward, shellVars
<1>6. /\ buf \in [Conns -> Seq(1..MaxOut)]
      /\ \A d \in Conns : Len(buf[d]) <= BufCap
      /\ screen \in [Conns -> Seq(1..MaxOut)]
      /\ replay \in [Conns -> Seq(1..MaxOut)]
      /\ stored \in 0..MaxOut /\ scrollback \in Seq(1..MaxOut)
      /\ Len(scrollback) <= Scrollback
  BY DEF TypeOK, ChunksOK
<1>7. /\ buf' \in [Conns -> Seq(1..MaxOut)]
      /\ \A d \in Conns : Len(buf'[d]) <= BufCap
  BY <1>3, <1>5, <1>6, Zenon
<1>8. screen' \in [Conns -> Seq(1..MaxOut)]
  BY <1>4, <1>5, <1>6, Zenon
<1> QED BY <1>5, <1>6, <1>7, <1>8, Zenon DEF ChunksOK

\* The handler's steps that copy the scrollback keep them in their sizes.
LEMMA ReplayChunks ==
  ASSUME TypeOK, NEW c \in Conns, Attach(c) \/ SendReplay(c)
  PROVE  ChunksOK'
<1>1. ChunksOK
  BY DEF TypeOK
<1>2. /\ stored' = stored /\ scrollback' = scrollback /\ buf' = buf
  BY DEF Attach, SendReplay, shellVars
<1>3. <<>> \in Seq(1..MaxOut)
  BY EmptySeq
<1>4. \/ replay' = [replay EXCEPT ![c] = scrollback] /\ screen' = screen
      \/ /\ replay' = [replay EXCEPT ![c] = <<>>]
         /\ screen' = [screen EXCEPT ![c] = replay[c]]
  BY DEF Attach, SendReplay
<1>5. /\ replay' \in [Conns -> Seq(1..MaxOut)]
      /\ screen' \in [Conns -> Seq(1..MaxOut)]
  BY <1>1, <1>3, <1>4, Zenon DEF ChunksOK
<1> QED BY <1>1, <1>2, <1>5, Zenon DEF ChunksOK

\* Initially every variable is in its range.
LEMMA InitTypeOK == Init => TypeOK
<1> SUFFICES ASSUME Init PROVE TypeOK
  OBVIOUS
<1>1. <<>> \in Seq(1..MaxOut) /\ Len(<<>>) = 0
  BY EmptySeq
<1>2. /\ scrollback \in Seq(1..MaxOut)
      /\ buf \in [Conns -> Seq(1..MaxOut)]
      /\ replay \in [Conns -> Seq(1..MaxOut)]
      /\ screen \in [Conns -> Seq(1..MaxOut)]
      /\ \A c \in Conns : buf[c] = <<>>
  BY <1>1, Zenon DEF Init
<1>3. 0 <= BufCap /\ 0 <= Scrollback /\ 0 \in 0..MaxOut
  OBVIOUS
<1>4. /\ \A c \in Conns : Len(buf[c]) <= BufCap
      /\ Len(scrollback) <= Scrollback /\ stored \in 0..MaxOut
  BY <1>1, <1>2, <1>3, Zenon DEF Init
<1>5. ShapeOK
  BY DEF Init, ShapeOK, PumpStates, MainStates, StreamStates, Codes, Causes
<1> QED BY <1>2, <1>4, <1>5, Zenon DEF TypeOK, ChunksOK

\* No other step touches the stores of chunks.
LEMMA OtherChunks ==
  ASSUME TypeOK, UNCHANGED <<stored, scrollback, buf, replay, screen>>
  PROVE  ChunksOK'
<1>1. ChunksOK
  BY DEF TypeOK
<1> QED BY <1>1 DEF ChunksOK

\* Every step keeps the control state in its range.
LEMMA NextShapeOK == ShapeOK /\ [Next]_vars => ShapeOK'
<1> SUFFICES ASSUME ShapeOK, [Next]_vars PROVE ShapeOK'
  OBVIOUS
<1> USE DEF ShapeOK, PumpStates, MainStates, StreamStates, Codes, Causes, Tell
<1>1. CASE ShellExits \/ CloseShell
  BY <1>1 DEF ShellExits, CloseShell, lockVars, connVars
<1>2. CASE Pump
  <2>1. CASE Store
    BY <2>1 DEF Store, ReadChunk, connVars
  <2>2. CASE ReadError \/ OnExit
    BY <2>2 DEF ReadError, OnExit, lockVars, connVars
  <2>3. CASE Exit
    BY <2>3 DEF Exit, connVars
  <2> QED BY <1>2, <2>1, <2>2, <2>3 DEF Pump
<1>3. ASSUME NEW c \in Conns, Handler(c) PROVE ShapeOK'
  <2>1. CASE NotFound(c) \/ SendReplay(c) \/ ReplayFails(c)
    BY <2>1 DEF NotFound, SendReplay, ReplayFails, shellVars, lockVars
  <2>2. CASE Attach(c)
    BY <2>2 DEF Attach, shellVars
  <2>3. CASE StopReading(c) \/ HangUp(c)
    BY <2>3 DEF StopReading, HangUp, shellVars, lockVars
  <2>4. CASE Detach(c)
    BY <2>4 DEF Detach, shellVars
  <2> QED BY <1>3, <2>1, <2>2, <2>3, <2>4 DEF Handler
<1>4. ASSUME NEW c \in Conns, Streamer(c) PROVE ShapeOK'
  BY <1>4 DEF Streamer, Forward, SayClosed, NotExited, SayDetached, shellVars, lockVars
<1>5. ASSUME NEW c \in Conns, Revoke(c) \/ Disconnect(c) PROVE ShapeOK'
  BY <1>5 DEF Revoke, Disconnect, shellVars, lockVars
<1>6. CASE UNCHANGED vars
  BY <1>6 DEF vars, shellVars, lockVars, connVars
<1> QED BY <1>1, <1>2, <1>3, <1>4, <1>5, <1>6 DEF Next

\* Every step keeps the stores of chunks in their sizes.
LEMMA NextChunksOK == TypeOK /\ [Next]_vars => ChunksOK'
<1> SUFFICES ASSUME TypeOK, [Next]_vars PROVE ChunksOK'
  OBVIOUS
<1> DEFINE Same == UNCHANGED <<stored, scrollback, buf, replay, screen>>
<1>1. ASSUME ShellExits \/ CloseShell \/ ReadError \/ Exit \/ OnExit PROVE Same
  BY <1>1 DEF ShellExits, CloseShell, ReadError, Exit, OnExit, connVars
<1>2. ASSUME NEW c \in Conns,
             \/ NotFound(c) \/ ReplayFails(c) \/ StopReading(c) \/ Detach(c)
             \/ HangUp(c) \/ SayClosed(c) \/ NotExited(c) \/ SayDetached(c)
             \/ Revoke(c) \/ Disconnect(c)
      PROVE  Same
  BY <1>2 DEF NotFound, ReplayFails, StopReading, Detach, HangUp, SayClosed,
              NotExited, SayDetached, Revoke, Disconnect, shellVars
<1>3. ASSUME UNCHANGED vars PROVE Same
  BY <1>3 DEF vars, shellVars, connVars
<1>4. Same => ChunksOK'
  BY OtherChunks
<1> HIDE DEF Same
<1> QED BY <1>1, <1>2, <1>3, <1>4, StoreChunks, ForwardChunks, ReplayChunks
        DEF Next, Pump, Handler, Streamer

-----------------------------------------------------------------------------
(* The safety properties: the attached channel is the open one, and the    *)
(* close codes are true.                                                   *)

SafeInv == AttachedOpen /\ Endings /\ CodeIsTrue

\* Each step of the shell and its pump keeps the safety invariant.
LEMMA PumpSafe ==
  ASSUME ShapeOK, SafeInv, ShellExits \/ CloseShell \/ Pump
  PROVE  SafeInv'
<1> USE DEF SafeInv, AttachedOpen, Endings, CodeIsTrue, ShapeOK
<1>1. CASE ShellExits \/ CloseShell
  BY <1>1 DEF ShellExits, CloseShell, lockVars, connVars
<1>2. CASE Store
  <2>1. /\ ~exited /\ ~exited' /\ replaced' = replaced /\ UNCHANGED connVars
        /\ pump' \in {"read", "exit"}
    BY <1>2 DEF Store, ReadChunk
  <2>2. CASE UNCHANGED <<attached, open, ended>>
    BY <2>1, <2>2 DEF connVars
  <2>3. CASE /\ attached # NoConn
             /\ open' = open \ {attached}
             /\ ended' = [ended EXCEPT ![attached] = "slow"]
             /\ attached' = NoConn
    <3>1. ended[attached] = "no" /\ attached \in Conns /\ main[attached] # "idle"
      BY <2>3
    <3> QED BY <2>1, <2>3, <3>1 DEF connVars
  <2> QED BY <1>2, <2>2, <2>3 DEF Store
<1>3. CASE ReadError \/ OnExit
  BY <1>3 DEF ReadError, OnExit, lockVars, connVars
<1>4. CASE Exit
  <2>1. \A c \in Conns : c = attached => ended[c] = "no" /\ main[c] # "idle"
                                       /\ stream[c] # "verdict"
    OBVIOUS
  <2>2. \A c \in Conns : ended'[c] = IF c = attached THEN "exit" ELSE ended[c]
    BY <1>4 DEF Exit
  <2>3. /\ exited' /\ ~exited /\ pump' = "onExit" /\ attached' = NoConn
        /\ open' = {} /\ UNCHANGED <<replaced, connVars>>
    BY <1>4 DEF Exit
  <2>4. \A c \in Conns : c = attached => code[c] \notin {"replaced", "detached"}
    BY <2>1
  <2> QED BY <2>1, <2>2, <2>3, <2>4 DEF connVars
<1> QED BY <1>1, <1>2, <1>3, <1>4 DEF Pump

\* Attach keeps the safety invariant: the newcomer's channel is fresh, and the
\* channel it takes over was open.
LEMMA AttachSafe ==
  ASSUME ShapeOK, SafeInv, NEW c \in Conns, Attach(c)
  PROVE  SafeInv'
<1> USE DEF SafeInv, AttachedOpen, Endings, CodeIsTrue, ShapeOK
<1>1. /\ ended[c] = "no" /\ c \notin open /\ c # attached /\ stream[c] = "off"
      /\ main' = [main EXCEPT ![c] = "replay"]
      /\ UNCHANGED <<stream, code, exited, pump>>
  BY DEF Attach, shellVars
<1>2. \A d \in Conns : d = attached => ended[d] = "no"
  OBVIOUS
<1>3. CASE exited
  <2>0. attached = NoConn /\ open = {}
    BY <1>3
  <2>1. /\ attached = NoConn /\ open' = {} /\ attached' = NoConn
        /\ replaced' = replaced /\ ended' = [ended EXCEPT ![c] = "exit"]
    <3>1. open' = {} /\ attached' = NoConn /\ replaced' = replaced
      BY <1>3, <2>0 DEF Attach
    <3>2. ended' = [d \in Conns |-> IF d = attached THEN "takeover"
                                   ELSE IF d = c /\ exited THEN "exit" ELSE ended[d]]
      BY DEF Attach
    <3>3. \A d \in Conns : d # attached
      BY <2>0
    <3>4. ended' = [ended EXCEPT ![c] = "exit"]
      BY <1>3, <3>2, <3>3
    <3> QED BY <2>0, <3>1, <3>4
  <2> QED BY <1>1, <1>3, <2>1
<1>4. CASE ~exited
  <2>1. /\ attached' = c /\ open' = {c}
        /\ replaced' = IF attached # NoConn THEN attached ELSE replaced
        /\ \A d \in Conns :
              ended'[d] = IF d = attached THEN "takeover" ELSE ended[d]
    BY <1>4 DEF Attach
  <2> QED BY <1>1, <1>2, <1>4, <2>1
<1> QED BY <1>3, <1>4

\* The handler's other steps keep the safety invariant.
LEMMA HandlerSafe ==
  ASSUME ShapeOK, SafeInv, NEW c \in Conns, Handler(c)
  PROVE  SafeInv'
<1> USE DEF SafeInv, AttachedOpen, Endings, CodeIsTrue, ShapeOK
<1>1. CASE NotFound(c)
  BY <1>1 DEF NotFound, shellVars, lockVars
<1>2. CASE SendReplay(c)
  BY <1>2 DEF SendReplay, shellVars, lockVars
<1>3. CASE ReplayFails(c)
  BY <1>3 DEF ReplayFails, shellVars, lockVars
<1>4. CASE StopReading(c)
  BY <1>4 DEF StopReading, Tell, shellVars, lockVars
<1>5. CASE Detach(c)
  BY <1>5 DEF Detach, shellVars
<1>6. CASE HangUp(c)
  BY <1>6 DEF HangUp, shellVars, lockVars
<1> QED BY <1>1, <1>2, <1>3, <1>4, <1>5, <1>6, AttachSafe DEF Handler

\* The streamer's and the network's steps keep the safety invariant.
LEMMA StreamerSafe ==
  ASSUME ShapeOK, SafeInv, NEW c \in Conns, Streamer(c) \/ Revoke(c) \/ Disconnect(c)
  PROVE  SafeInv'
<1> USE DEF SafeInv, AttachedOpen, Endings, CodeIsTrue, ShapeOK
<1>1. CASE Forward(c)
  BY <1>1 DEF Forward, shellVars, lockVars
<1>2. CASE SayClosed(c)
  BY <1>2 DEF SayClosed, Tell, shellVars, lockVars
<1>3. CASE NotExited(c)
  BY <1>3 DEF NotExited, shellVars, lockVars
<1>4. CASE SayDetached(c)
  BY <1>4 DEF SayDetached, WasReplaced, Tell, shellVars, lockVars
<1>5. CASE Revoke(c) \/ Disconnect(c)
  BY <1>5 DEF Revoke, Disconnect, Tell, shellVars, lockVars
<1> QED BY <1>1, <1>2, <1>3, <1>4, <1>5 DEF Streamer

\* The inductive invariant holds in every reachable state.
THEOREM Invariance == Spec => []IInv
<1>1. Init => IInv
  <2>1. Init => SafeInv
    BY DEF Init, SafeInv, AttachedOpen, Endings, CodeIsTrue
  <2> QED BY <2>1, InitTypeOK DEF IInv, SafeInv
<1>2. IInv /\ [Next]_vars => IInv'
  <2> SUFFICES ASSUME IInv, [Next]_vars PROVE IInv'
    OBVIOUS
  <2>1. TypeOK /\ ShapeOK /\ SafeInv
    BY DEF IInv, SafeInv, TypeOK
  <2>2. TypeOK'
    BY <2>1, NextShapeOK, NextChunksOK DEF TypeOK
  <2>3. SafeInv'
    <3>1. CASE UNCHANGED vars
      BY <2>1, <3>1 DEF vars, shellVars, lockVars, connVars, SafeInv, AttachedOpen,
                        Endings, CodeIsTrue
    <3> QED BY <2>1, <3>1, PumpSafe, HandlerSafe, StreamerSafe DEF Next
  <2> QED BY <2>2, <2>3 DEF IInv, SafeInv
<1> QED BY <1>1, <1>2, PTL DEF Spec

\* Type correctness of every reachable state: chunks stay positions of the
\* output, buffers and the scrollback stay within their sizes.
THEOREM TypeCorrect == Spec => []TypeOK
  BY Invariance, PTL DEF IInv

\* No channel is closed twice, sent to after it was closed, or left open with
\* nobody to close it (Attach, detach, pump).
THEOREM ChannelSafety == Spec => []AttachedOpen
  BY Invariance, PTL DEF IInv

\* The close code a browser acts on is true (streamTerminalOutput, WasReplaced).
THEOREM CloseCodeTruth == Spec => []CodeIsTrue
  BY Invariance, PTL DEF IInv

-----------------------------------------------------------------------------
(* Facts about sequences that the proofs below rest on.                    *)

\* Moving the head of the second part to the end of the first changes nothing.
LEMMA MoveHead ==
  ASSUME NEW S, NEW s \in Seq(S), NEW t \in Seq(S), t # <<>>
  PROVE  Append(s, Head(t)) \o Tail(t) = s \o t
<1>1. Head(t) \in S /\ Tail(t) \in Seq(S)
  BY HeadTailProperties
<1>2. <<Head(t)>> \in Seq(S) /\ Append(s, Head(t)) = s \o <<Head(t)>>
  BY <1>1, AppendIsConcat
<1>3. Len(t) \in Nat \ {0}
  BY EmptySeq
<1>4. t = <<Head(t)>> \o Tail(t)
  <2>1. t = SubSeq(t, 1, Len(t)) /\ Tail(t) = SubSeq(t, 2, Len(t))
    BY SubSeqFull, TailIsSubSeq
  <2>2. 1 \in 1..Len(t) /\ Len(t) \in 1..Len(t)
    BY <1>3
  <2>3. SubSeq(t, 1, Len(t)) = <<t[1]>> \o SubSeq(t, 1 + 1, Len(t))
    BY <2>2, SubSeqRecursiveFirst
  <2>4. Head(t) = t[1] /\ 1 + 1 = 2
    BY <1>3
  <2> QED
    BY <2>1, <2>3, <2>4
<1> QED
  BY <1>1, <1>2, <1>4, ConcatAssociative

\* The two parts of a concatenation, cut out of it again.
LEMMA CutConcat ==
  ASSUME NEW S, NEW s \in Seq(S), NEW t \in Seq(S)
  PROVE  /\ SubSeq(s \o t, 1, Len(s)) = s
         /\ SubSeq(s \o t, Len(s) + 1, Len(s \o t)) = t
<1> DEFINE u == s \o t
<1>1. /\ u \in Seq(S) /\ Len(u) = Len(s) + Len(t) /\ Len(s) \in Nat /\ Len(t) \in Nat
      /\ \A i \in 1..Len(s) : u[i] = s[i]
      /\ \A i \in 1..Len(t) : u[Len(s) + i] = t[i]
  BY ConcatProperties, LenProperties
<1>2. \A i \in 1..Len(u) : u[i] \in S
  BY <1>1, ElementOfSeq
<1> HIDE DEF u
<1>3. SubSeq(u, 1, Len(s)) = s
  <2>1. \A i \in 1..Len(s) : u[i] \in S
    BY <1>1, <1>2
  <2>2. /\ SubSeq(u, 1, Len(s)) \in Seq(S)
        /\ Len(SubSeq(u, 1, Len(s))) = IF 1 <= Len(s) THEN Len(s) - 1 + 1 ELSE 0
        /\ \A i \in 1..(Len(s) - 1 + 1) : SubSeq(u, 1, Len(s))[i] = u[1 + i - 1]
    BY <1>1, <2>1, SubSeqProperties
  <2>3. /\ Len(SubSeq(u, 1, Len(s))) = Len(s)
        /\ \A i \in 1..Len(s) : SubSeq(u, 1, Len(s))[i] = s[i]
    BY <1>1, <2>2
  <2> QED
    BY <2>2, <2>3, SeqEqual
<1>4. SubSeq(u, Len(s) + 1, Len(u)) = t
  <2> DEFINE v == SubSeq(u, Len(s) + 1, Len(u))
  <2>1. \A i \in (Len(s) + 1)..Len(u) : u[i] \in S
    BY <1>1, <1>2
  <2>2. /\ v \in Seq(S)
        /\ Len(v) = IF Len(s) + 1 <= Len(u) THEN Len(u) - (Len(s) + 1) + 1 ELSE 0
        /\ \A i \in 1..(Len(u) - (Len(s) + 1) + 1) : v[i] = u[Len(s) + 1 + i - 1]
    BY <1>1, <2>1, SubSeqProperties
  <2> HIDE DEF v
  <2>3. Len(v) = Len(t)
    BY <1>1, <2>2
  <2>4. ASSUME NEW i \in 1..Len(t) PROVE v[i] = t[i]
    <3>1. v[i] = u[Len(s) + 1 + i - 1] /\ Len(s) + 1 + i - 1 = Len(s) + i
      BY <1>1, <2>2
    <3> QED
      BY <1>1, <3>1
  <2>5. v = t
    BY <2>2, <2>3, <2>4, SeqEqual
  <2> QED
    BY <2>5 DEF v
<1> QED
  BY <1>3, <1>4 DEF u

-----------------------------------------------------------------------------
(* What the browsers see.                                                  *)

\* s is the end of the output that the scrollback has room for, when n chunks
\* have been stored.
Holds(s, n) ==
    /\ Len(s) = IF n > Scrollback THEN Scrollback ELSE n
    /\ \A i \in 1..Len(s) : s[i] = n - Len(s) + i

\* Where the chunks of a connection can be: none before it attaches; the copy
\* of the scrollback until the streamer starts; and none are left in the channel
\* of a browser that was told the terminal is closed.
Placed ==
    \A c \in Conns :
        /\ main[c] = "idle" => code[c] = "none" /\ buf[c] = <<>>
        /\ main[c] = "replay" => stream[c] = "off"
        /\ stream[c] = "off" => screen[c] = <<>>
        /\ main[c] = "idle" \/ stream[c] # "off" => replay[c] = <<>>
        /\ code[c] = "closed" => stream[c] = "done" /\ buf[c] = <<>>
        /\ code[c] = "notFound" => main[c] = "done" /\ stream[c] = "off"

\* What a connection was promised is a run, and reaches the end of the output
\* as long as the connection is attached, and for good if the exit ended it.
Unbroken(c) ==
    /\ IsRun(Promised(c))
    /\ (attached = c \/ ended[c] = "exit") /\ stream[c] # "failed"
           => EndsAt(Promised(c), stored)

\* The inductive invariant of what the browsers see.
SeenInv == IInv /\ Holds(scrollback, stored) /\ Placed /\ \A c \in Conns : Unbroken(c)

\* A sequence of chunks with one more at its end.
LEMMA NextAppended ==
  ASSUME NEW s \in Seq(1..MaxOut), NEW n \in 0..MaxOut, n + 1 <= MaxOut
  PROVE  /\ Append(s, n + 1) \in Seq(1..MaxOut) /\ Append(s, n + 1) # <<>>
         /\ Len(Append(s, n + 1)) = Len(s) + 1
         /\ \A i \in 1..Len(s) : Append(s, n + 1)[i] = s[i]
         /\ Append(s, n + 1)[Len(s) + 1] = n + 1
<1> DEFINE k == n + 1
<1>1. k \in 1..MaxOut
  OBVIOUS
<1> HIDE DEF k
<1>2. /\ Append(s, k) \in Seq(1..MaxOut) /\ Append(s, k) # <<>>
      /\ Len(Append(s, k)) = Len(s) + 1
      /\ \A i \in 1..Len(s) : Append(s, k)[i] = s[i]
      /\ Append(s, k)[Len(s) + 1] = k
  BY <1>1, AppendProperties
<1> QED
  BY <1>2, Zenon DEF k

\* What is appended to the second of two parts is appended to both.
LEMMA AppendConcat ==
  ASSUME NEW s \in Seq(1..MaxOut), NEW t \in Seq(1..MaxOut), NEW k \in 1..MaxOut
  PROVE  Append(s \o t, k) = s \o Append(t, k)
<1>1. <<k>> \in Seq(1..MaxOut) /\ s \o t \in Seq(1..MaxOut)
  BY ConcatProperties
<1>2. Append(s \o t, k) = (s \o t) \o <<k>>
  BY <1>1, AppendIsConcat
<1>3. Append(t, k) = t \o <<k>>
  BY AppendIsConcat
<1>4. (s \o t) \o <<k>> = s \o (t \o <<k>>)
  BY <1>1, ConcatAssociative
<1> QED
  BY <1>2, <1>3, <1>4, Zenon

\* The next chunk makes a longer run of a run that reached the end.
LEMMA RunGrows ==
  ASSUME NEW s \in Seq(1..MaxOut), NEW n \in 0..MaxOut, n + 1 <= MaxOut,
         IsRun(s), EndsAt(s, n)
  PROVE  IsRun(Append(s, n + 1)) /\ EndsAt(Append(s, n + 1), n + 1)
<1> DEFINE t == Append(s, n + 1)
<1>1. /\ t \in Seq(1..MaxOut) /\ t # <<>> /\ Len(t) = Len(s) + 1
      /\ \A i \in 1..Len(s) : t[i] = s[i]
      /\ t[Len(s) + 1] = n + 1
  BY NextAppended
<1>2. Len(s) \in Nat /\ (s # <<>> => Len(s) # 0)
  BY EmptySeq, LenProperties
<1> HIDE DEF t
<1>3. EndsAt(t, n + 1)
  BY <1>1 DEF EndsAt
<1>4. ASSUME NEW i \in 1..(Len(t) - 1) PROVE t[i + 1] = t[i] + 1
  <2>1. i \in 1..Len(s) /\ t[i] = s[i]
    BY <1>1, <1>2
  <2>2. CASE i = Len(s)
    <3>1. s # <<>>
      BY <2>1, <2>2, EmptySeq
    <3>2. s[i] = n
      BY <2>2, <3>1 DEF EndsAt
    <3> QED
      BY <1>1, <2>1, <2>2, <3>2
  <2>3. CASE i < Len(s)
    <3>1. i \in 1..(Len(s) - 1) /\ i + 1 \in 1..Len(s)
      BY <1>2, <2>1, <2>3
    <3>2. s[i + 1] = s[i] + 1
      BY <3>1 DEF IsRun
    <3> QED
      BY <1>1, <2>1, <3>1, <3>2
  <2> QED
    BY <1>2, <2>1, <2>2, <2>3
<1> QED
  BY <1>3, <1>4 DEF IsRun, t

\* The beginning of a run is a run.
LEMMA RunBegins ==
  ASSUME NEW s \in Seq(1..MaxOut), NEW t \in Seq(1..MaxOut), IsRun(s \o t)
  PROVE  IsRun(s)
<1>1. /\ Len(s) \in Nat /\ Len(t) \in Nat /\ Len(s \o t) = Len(s) + Len(t)
      /\ \A i \in 1..Len(s) : (s \o t)[i] = s[i]
  BY ConcatProperties, LenProperties
<1>2. ASSUME NEW i \in 1..(Len(s) - 1) PROVE s[i + 1] = s[i] + 1
  <2>1. i \in 1..(Len(s \o t) - 1) /\ i \in 1..Len(s) /\ i + 1 \in 1..Len(s)
    BY <1>1
  <2>2. (s \o t)[i + 1] = (s \o t)[i] + 1
    BY <2>1 DEF IsRun
  <2> QED
    BY <1>1, <2>1, <2>2
<1> QED
  BY <1>2 DEF IsRun

\* What the scrollback holds is a run that reaches the end of the output.
LEMMA HoldsRun ==
  ASSUME NEW s \in Seq(1..MaxOut), NEW n \in 0..MaxOut, Holds(s, n)
  PROVE  IsRun(s) /\ EndsAt(s, n)
<1>1. Len(s) \in Nat /\ (s # <<>> => Len(s) # 0) /\ Len(<<>>) = 0
  BY EmptySeq, LenProperties
<1>2. ASSUME NEW i \in 1..(Len(s) - 1) PROVE s[i + 1] = s[i] + 1
  <2>1. i \in 1..Len(s) /\ i + 1 \in 1..Len(s)
    BY <1>1
  <2> QED
    BY <1>1, <2>1 DEF Holds
<1>3. ASSUME s = <<>> PROVE EndsAt(s, n)
  <2>1. 0 = IF n > Scrollback THEN Scrollback ELSE n
    BY <1>1, <1>3 DEF Holds
  <2>2. n = 0
    BY <2>1
  <2> QED
    BY <1>3, <2>2, Zenon DEF EndsAt
<1>4. ASSUME s # <<>> PROVE EndsAt(s, n)
  <2>1. Len(s) \in 1..Len(s)
    BY <1>1, <1>4
  <2>2. s[Len(s)] = n - Len(s) + Len(s)
    BY <2>1 DEF Holds
  <2>3. s[Len(s)] = n
    BY <1>1, <2>2
  <2> QED
    BY <1>4, <2>3, Zenon DEF EndsAt
<1>5. EndsAt(s, n)
  BY <1>3, <1>4
<1> QED
  BY <1>2, <1>5 DEF IsRun

\* Remembering the next chunk keeps the end of the output.
LEMMA RememberHolds ==
  ASSUME NEW s \in Seq(1..MaxOut), NEW n \in 0..MaxOut, n + 1 <= MaxOut, Holds(s, n)
  PROVE  Holds(Remember(s, n + 1), n + 1)
<1> DEFINE t == Append(s, n + 1)
<1>1. /\ t \in Seq(1..MaxOut) /\ t # <<>> /\ Len(t) = Len(s) + 1
      /\ \A i \in 1..Len(s) : t[i] = s[i]
      /\ t[Len(s) + 1] = n + 1
  BY NextAppended
<1>2. Len(s) \in Nat
  BY LenProperties
<1>3. /\ Len(Tail(t)) = Len(t) - 1
      /\ \A i \in 1..Len(Tail(t)) : Tail(t)[i] = t[i + 1]
  BY <1>1, HeadTailProperties
<1>4. Remember(s, n + 1) = IF Len(t) > Scrollback THEN Tail(t) ELSE t
  BY DEF Remember
<1> HIDE DEF t
<1>5. ASSUME NEW i \in 1..Len(t) PROVE t[i] = n - Len(s) + i
  <2>1. CASE i \in 1..Len(s)
    BY <1>1, <2>1 DEF Holds
  <2>2. CASE i \notin 1..Len(s)
    <3>1. i = Len(s) + 1
      BY <1>1, <1>2, <2>2
    <3>2. t[i] = n + 1 /\ n + 1 = n - Len(s) + i
      BY <1>1, <1>2, <3>1
    <3> QED
      BY <3>2
  <2> QED
    BY <2>1, <2>2
<1>6. CASE Len(t) > Scrollback
  <2>1. Len(s) = Scrollback /\ n >= Scrollback
    BY <1>1, <1>2, <1>6 DEF Holds
  <2>2. Len(Tail(t)) = Scrollback /\ n + 1 > Scrollback
    BY <1>1, <1>3, <2>1
  <2>3. ASSUME NEW i \in 1..Len(Tail(t))
        PROVE  Tail(t)[i] = (n + 1) - Len(Tail(t)) + i
    <3>1. i + 1 \in 1..Len(t) /\ i \in Nat
      BY <1>1, <2>1, <2>2
    <3>2. Tail(t)[i] = t[i + 1]
      BY <1>3
    <3>3. t[i + 1] = n - Len(s) + (i + 1)
      BY <1>5, <3>1
    <3>4. n - Scrollback + (i + 1) = (n + 1) - Scrollback + i
      BY <3>1
    <3> QED
      BY <2>1, <2>2, <3>2, <3>3, <3>4, Zenon
  <2> QED
    BY <1>4, <1>6, <2>2, <2>3 DEF Holds
<1>7. CASE ~(Len(t) > Scrollback)
  <2>1. Len(t) = n + 1 /\ ~(n + 1 > Scrollback)
    BY <1>1, <1>2, <1>7 DEF Holds
  <2>2. ASSUME NEW i \in 1..Len(t) PROVE t[i] = (n + 1) - Len(t) + i
    BY <1>1, <1>2, <1>5, <2>1
  <2> QED
    BY <1>4, <1>7, <2>1, <2>2 DEF Holds
<1> QED
  BY <1>6, <1>7

\* The first element, as a sequence.
LEMMA FirstOf ==
  ASSUME NEW s \in Seq(1..MaxOut), s # <<>>
  PROVE  SubSeq(s, 1, 1) = <<Head(s)>>
<1>1. Len(s) \in Nat \ {0} /\ Head(s) = s[1] /\ s[1] \in 1..MaxOut
  <2>1. Len(s) \in Nat \ {0}
    BY EmptySeq
  <2>2. s[1] \in 1..MaxOut
    BY <2>1, LenProperties
  <2> QED
    BY <2>1, <2>2
<1>2. \A i \in 1..1 : s[i] \in 1..MaxOut
  BY <1>1
<1>3. /\ SubSeq(s, 1, 1) \in Seq(1..MaxOut)
      /\ Len(SubSeq(s, 1, 1)) = 1
      /\ SubSeq(s, 1, 1)[1] = s[1]
  BY <1>2, SubSeqProperties
<1>4. /\ <<s[1]>> \in Seq(1..MaxOut) /\ Len(<<s[1]>>) = 1 /\ <<s[1]>>[1] = s[1]
  BY <1>1
<1>5. \A i \in 1..1 : SubSeq(s, 1, 1)[i] = <<s[1]>>[i]
  BY <1>3, <1>4
<1>6. SubSeq(s, 1, 1) = <<s[1]>>
  BY <1>3, <1>4, <1>5, SeqEqual
<1> QED
  BY <1>1, <1>6

\* A step that promises a connection nothing new, and neither attaches it nor
\* ends it by an exit, keeps what it sees unbroken.
LEMMA Frame ==
  ASSUME NEW d \in Conns, Unbroken(d), stored' = stored, Promised(d)' = Promised(d),
         stream'[d] = "failed" <=> stream[d] = "failed",
         attached' = d \/ ended'[d] = "exit" => attached = d \/ ended[d] = "exit"
  PROVE  Unbroken(d)'
<1>1. IsRun(Promised(d)) => IsRun(Promised(d))'
  BY DEF IsRun
<1>2. EndsAt(Promised(d), stored) => EndsAt(Promised(d), stored)'
  BY DEF EndsAt
<1> QED
  BY <1>1, <1>2, Zenon DEF Unbroken

\* The chunks of a connection are sequences of chunks.
LEMMA SeenTypes ==
  ASSUME TypeOK, NEW c \in Conns
  PROVE  /\ screen[c] \in Seq(1..MaxOut) /\ replay[c] \in Seq(1..MaxOut)
         /\ buf[c] \in Seq(1..MaxOut) /\ scrollback \in Seq(1..MaxOut)
         /\ <<>> \in Seq(1..MaxOut) /\ Promised(c) \in Seq(1..MaxOut)
<1>1. /\ screen[c] \in Seq(1..MaxOut) /\ replay[c] \in Seq(1..MaxOut)
      /\ buf[c] \in Seq(1..MaxOut) /\ scrollback \in Seq(1..MaxOut)
      /\ <<>> \in Seq(1..MaxOut)
  BY EmptySeq DEF TypeOK, ChunksOK
<1>2. screen[c] \o replay[c] \in Seq(1..MaxOut)
  BY <1>1, ConcatProperties
<1> DEFINE b == IF stream[c] = "failed" THEN <<>> ELSE buf[c]
<1>3. b \in Seq(1..MaxOut)
  BY <1>1, Zenon
<1>4. Promised(c) = (screen[c] \o replay[c]) \o b
  BY DEF Promised
<1> HIDE DEF b
<1> QED
  BY <1>1, <1>2, <1>3, <1>4, ConcatProperties

\* The steps that move no chunk.
Quiet ==
    \/ ShellExits \/ CloseShell \/ ReadError \/ Exit \/ OnExit
    \/ \E c \in Conns :
          \/ NotFound(c) \/ ReplayFails(c) \/ StopReading(c) \/ Detach(c) \/ HangUp(c)
          \/ SayClosed(c) \/ NotExited(c) \/ SayDetached(c) \/ Revoke(c) \/ Disconnect(c)
    \/ UNCHANGED vars

\* They leave every promise as it is.
LEMMA QuietUnbroken ==
  ASSUME SeenInv, Quiet
  PROVE  Holds(scrollback, stored)' /\ \A d \in Conns : Unbroken(d)'
<1>1. ShapeOK /\ Holds(scrollback, stored) /\ \A d \in Conns : Unbroken(d)
  BY DEF SeenInv, IInv, TypeOK
<1>2. UNCHANGED <<stored, scrollback, screen, replay, buf>>
  BY DEF Quiet, ShellExits, CloseShell, ReadError, Exit, OnExit, NotFound, ReplayFails,
         StopReading, Detach, HangUp, SayClosed, NotExited, SayDetached, Revoke,
         Disconnect, vars, shellVars, connVars
<1>3. ASSUME NEW d \in Conns PROVE Unbroken(d)'
  <2>1. stream'[d] = "failed" <=> stream[d] = "failed"
    BY <1>1 DEF ShapeOK, Quiet, ShellExits, CloseShell, ReadError, Exit, OnExit,
           NotFound, ReplayFails, StopReading, Detach, HangUp, SayClosed, NotExited,
           SayDetached, Revoke, Disconnect, vars, shellVars, connVars
  <2>2. attached' = d \/ ended'[d] = "exit" => attached = d \/ ended[d] = "exit"
    BY <1>1 DEF ShapeOK, Quiet, ShellExits, CloseShell, ReadError, Exit, OnExit,
           NotFound, ReplayFails, StopReading, Detach, HangUp, SayClosed, NotExited,
           SayDetached, Revoke, Disconnect, vars, shellVars, connVars, lockVars
  <2>3. Promised(d)' = Promised(d)
    BY <1>2, <2>1, Zenon DEF Promised
  <2> QED
    BY <1>1, <1>2, <2>1, <2>2, <2>3, Frame
<1>4. Holds(scrollback, stored)'
  BY <1>1, <1>2 DEF Holds
<1> QED
  BY <1>3, <1>4

\* They keep the chunks in their places.
LEMMA QuietPlaced == ASSUME SeenInv, Quiet PROVE Placed'
<1>1. ShapeOK /\ Placed
  BY DEF SeenInv, IInv, TypeOK
<1> USE DEF ShapeOK, Placed
<1>2. CASE \/ ShellExits \/ CloseShell \/ ReadError \/ Exit \/ OnExit \/ UNCHANGED vars
  BY <1>1, <1>2 DEF ShellExits, CloseShell, ReadError, Exit, OnExit, vars, connVars
<1>3. ASSUME NEW c \in Conns,
             \/ NotFound(c) \/ ReplayFails(c) \/ Detach(c) \/ HangUp(c) \/ NotExited(c)
             \/ Disconnect(c)
      PROVE  Placed'
  <2>1. CASE NotFound(c)
    BY <1>1, <2>1 DEF NotFound, SeenInv, IInv, Endings
  <2>2. CASE ReplayFails(c) \/ Disconnect(c) \/ NotExited(c)
    BY <1>1, <2>2 DEF ReplayFails, Disconnect, NotExited
  <2>3. CASE Detach(c) \/ HangUp(c)
    BY <1>1, <2>3 DEF Detach, HangUp
  <2> QED
    BY <1>3, <2>1, <2>2, <2>3
<1>4. ASSUME NEW c \in Conns, StopReading(c) \/ SayClosed(c) \/ SayDetached(c) \/ Revoke(c)
      PROVE  Placed'
  <2>1. main[c] # "idle"
    BY <1>4 DEF SeenInv, IInv, Endings, StopReading, SayClosed, SayDetached, Revoke
  <2>2. CASE StopReading(c) \/ Revoke(c)
    <3>1. \/ code' = code
          \/ code[c] = "none" /\ code' = [code EXCEPT ![c] = "policy"]
      BY <2>2 DEF StopReading, Revoke, Tell
    <3> QED
      BY <1>1, <2>1, <2>2, <3>1 DEF StopReading, Revoke
  <2>3. CASE SayClosed(c)
    <3>1. code' = code \/ code' = [code EXCEPT ![c] = "closed"]
      BY <2>3 DEF SayClosed, Tell
    <3> QED
      BY <1>1, <2>1, <2>3, <3>1 DEF SayClosed
  <2>4. CASE SayDetached(c)
    <3>1. \/ code' = code
          \/ code' = [code EXCEPT ![c] = "replaced"]
          \/ code' = [code EXCEPT ![c] = "detached"]
      BY <2>4 DEF SayDetached, Tell
    <3>2. /\ stream[c] = "verdict" /\ stream' = [stream EXCEPT ![c] = "done"]
          /\ UNCHANGED <<main, replay, screen, buf>>
      BY <2>4 DEF SayDetached
    <3> QED
      BY <1>1, <2>1, <3>1, <3>2
  <2> QED
    BY <1>4, <2>2, <2>3, <2>4
<1> QED
  BY <1>2, <1>3, <1>4 DEF Quiet

\* A connection that attaches is promised the scrollback, and nobody else more.
LEMMA AttachSeen ==
  ASSUME SeenInv, NEW c \in Conns, Attach(c)
  PROVE  Placed' /\ Holds(scrollback, stored)' /\ \A d \in Conns : Unbroken(d)'
<1>1. ShapeOK /\ Placed /\ main[c] = "idle" /\ stream[c] = "off" /\ TypeOK
  BY DEF SeenInv, IInv, TypeOK, Endings, Attach
<1>2. /\ UNCHANGED <<stored, scrollback, stream, code, screen, buf>>
      /\ main' = [main EXCEPT ![c] = "replay"]
      /\ replay' = [replay EXCEPT ![c] = scrollback]
      /\ attached' \in {c, NoConn}
      /\ \A d \in Conns : d # c /\ ended'[d] = "exit" => ended[d] = "exit"
  BY DEF Attach, shellVars
<1>3. replay \in [Conns -> Seq(1..MaxOut)]
  BY <1>1 DEF TypeOK, ChunksOK
<1>4. Placed'
  BY <1>1, <1>2, <1>3 DEF ShapeOK, Placed
<1>5. Holds(scrollback, stored)'
  BY <1>2 DEF Holds, SeenInv
<1>6. ASSUME NEW d \in Conns, d # c PROVE Unbroken(d)'
  <2>1. Promised(d)' = Promised(d)
    BY <1>2, <1>3, <1>6 DEF Promised
  <2>2. attached' # d /\ Unbroken(d)
    BY <1>2, <1>6 DEF SeenInv
  <2> QED
    BY <1>2, <1>6, <2>1, <2>2, Frame
<1>7. Unbroken(c)'
  <2>1. screen[c] = <<>> /\ buf[c] = <<>> /\ scrollback \in Seq(1..MaxOut)
    BY <1>1, SeenTypes DEF Placed
  <2>2. Promised(c)' = <<>> \o scrollback \o <<>>
    <3>1. screen'[c] = <<>> /\ replay'[c] = scrollback /\ buf'[c] = <<>>
      BY <1>2, <1>3, <2>1
    <3> QED
      BY <3>1 DEF Promised
  <2>3. <<>> \o scrollback \o <<>> = scrollback
    BY <2>1, ConcatEmptySeq
  <2>4. IsRun(scrollback) /\ EndsAt(scrollback, stored)
    BY <1>1, <2>1, HoldsRun DEF SeenInv, TypeOK, ChunksOK
  <2>5. Promised(c)' = scrollback /\ stored' = stored
    BY <1>2, <2>2, <2>3
  <2>6. IsRun(Promised(c))'
    BY <2>4, <2>5 DEF IsRun
  <2>7. EndsAt(Promised(c), stored)'
    BY <2>4, <2>5 DEF EndsAt
  <2> QED
    BY <2>6, <2>7 DEF Unbroken
<1> QED
  BY <1>4, <1>5, <1>6, <1>7

\* The copy of the scrollback and the head of a channel move to the screen as
\* they were promised; a failure keeps the beginning of the promise.
LEMMA MoveSeen ==
  ASSUME SeenInv, NEW c \in Conns, SendReplay(c) \/ Forward(c)
  PROVE  Placed' /\ Holds(scrollback, stored)' /\ \A d \in Conns : Unbroken(d)'
<1>1. ShapeOK /\ ChunksOK /\ Placed /\ TypeOK
  BY DEF SeenInv, IInv, TypeOK
<1>2. /\ UNCHANGED <<stored, scrollback, code, attached, ended>>
      /\ \A d \in Conns \ {c} :
            /\ main'[d] = main[d] /\ stream'[d] = stream[d] /\ screen'[d] = screen[d]
            /\ replay'[d] = replay[d] /\ buf'[d] = buf[d]
  BY <1>1 DEF ShapeOK, ChunksOK, SendReplay, Forward, shellVars, lockVars
<1>3. Holds(scrollback, stored)'
  BY <1>2 DEF Holds, SeenInv
<1>4. ASSUME NEW d \in Conns, d # c PROVE Unbroken(d)'
  <2>1. Promised(d)' = Promised(d) /\ (stream'[d] = "failed" <=> stream[d] = "failed")
    BY <1>2, <1>4 DEF Promised
  <2>2. Unbroken(d)
    BY DEF SeenInv
  <2> QED
    BY <1>2, <2>1, <2>2, Frame
<1>5. /\ screen[c] \in Seq(1..MaxOut) /\ replay[c] \in Seq(1..MaxOut)
      /\ buf[c] \in Seq(1..MaxOut) /\ <<>> \in Seq(1..MaxOut) /\ Unbroken(c)
  BY <1>1, SeenTypes DEF SeenInv
<1>6. CASE SendReplay(c)
  <2>1. /\ main[c] = "replay" /\ stream[c] = "off" /\ screen[c] = <<>>
        /\ screen'[c] = replay[c] /\ replay'[c] = <<>> /\ stream'[c] = "drain"
        /\ main'[c] = "reading" /\ buf'[c] = buf[c]
    BY <1>1, <1>6 DEF SendReplay, Placed, ShapeOK, ChunksOK
  <2>2. Placed'
    BY <1>1, <1>2, <2>1 DEF Placed
  <2>3. Promised(c)' = Promised(c)
    <3>1. /\ Promised(c)' = replay[c] \o <<>> \o buf[c]
          /\ Promised(c) = <<>> \o replay[c] \o buf[c]
      BY <2>1 DEF Promised
    <3> QED
      BY <1>5, <3>1, ConcatEmptySeq
  <2>4. Unbroken(c)'
    BY <1>2, <1>5, <2>1, <2>3, Frame
  <2> QED
    BY <1>3, <1>4, <2>2, <2>4
<1>7. CASE Forward(c)
  <2>1. /\ stream[c] = "drain" /\ replay[c] = <<>> /\ buf[c] # <<>> /\ replay'[c] = <<>>
        /\ buf'[c] = Tail(buf[c]) /\ code[c] # "closed" /\ main'[c] = main[c]
        /\ main[c] \notin {"idle", "replay"}
    BY <1>1, <1>7 DEF Forward, Placed, ShapeOK, ChunksOK, SeenInv, IInv, Endings
  <2>2. Promised(c) = screen[c] \o buf[c]
    <3>1. Promised(c) = screen[c] \o <<>> \o buf[c]
      BY <2>1 DEF Promised
    <3> QED
      BY <1>5, <3>1, ConcatEmptySeq
  <2>3. CASE /\ stream'[c] = "drain"
             /\ screen'[c] = Append(screen[c], Head(buf[c]))
    <3>1. Head(buf[c]) \in 1..MaxOut /\ Tail(buf[c]) \in Seq(1..MaxOut)
      BY <1>5, <2>1, HeadTailProperties
    <3>2. Append(screen[c], Head(buf[c])) \in Seq(1..MaxOut)
      BY <1>5, <3>1, AppendProperties
    <3>3. Promised(c)' = Append(screen[c], Head(buf[c])) \o <<>> \o Tail(buf[c])
      BY <2>1, <2>3 DEF Promised
    <3>4. Promised(c)' = Append(screen[c], Head(buf[c])) \o Tail(buf[c])
      BY <3>2, <3>3, ConcatEmptySeq
    <3>5. Promised(c)' = Promised(c)
      BY <1>5, <2>1, <2>2, <3>4, MoveHead
    <3>6. Unbroken(c)'
      BY <1>2, <1>5, <2>1, <2>3, <3>5, Frame
    <3>7. Placed'
      BY <1>1, <1>2, <2>1, <2>3 DEF Placed
    <3> QED
      BY <1>3, <1>4, <3>6, <3>7
  <2>4. CASE stream'[c] = "failed" /\ screen'[c] = screen[c]
    <3>1. Promised(c)' = screen[c] \o <<>> \o <<>>
      BY <2>1, <2>4 DEF Promised
    <3>2. Promised(c)' = screen[c]
      BY <1>5, <3>1, ConcatEmptySeq
    <3>3. IsRun(screen[c])
      BY <1>5, <2>2, RunBegins DEF Unbroken
    <3>4. IsRun(Promised(c))'
      BY <3>2, <3>3 DEF IsRun
    <3>5. Unbroken(c)'
      BY <2>4, <3>4 DEF Unbroken
    <3>6. Placed'
      BY <1>1, <1>2, <2>1, <2>4 DEF Placed
    <3> QED
      BY <1>3, <1>4, <3>5, <3>6
  <2>5. \/ stream'[c] = "drain" /\ screen'[c] = Append(screen[c], Head(buf[c]))
        \/ stream'[c] = "failed" /\ screen'[c] = screen[c]
    BY <1>1, <1>7, <2>1 DEF Forward, ShapeOK, ChunksOK
  <2> QED
    BY <2>3, <2>4, <2>5
<1> QED
  BY <1>6, <1>7

\* A chunk that is stored is promised to the attached connection, which so far
\* was promised everything up to it.
LEMMA StoreSeen ==
  ASSUME SeenInv, Store
  PROVE  Placed' /\ Holds(scrollback, stored)' /\ \A d \in Conns : Unbroken(d)'
<1>1. ShapeOK /\ ChunksOK /\ Placed /\ TypeOK /\ AttachedOpen /\ Endings
  BY DEF SeenInv, IInv, TypeOK
<1>2. /\ stored' = stored + 1 /\ stored \in 0..MaxOut /\ stored + 1 <= MaxOut
      /\ stored + 1 \in 1..MaxOut
      /\ scrollback' = Remember(scrollback, stored + 1)
      /\ UNCHANGED <<main, stream, replay, code, screen>> /\ ~exited
  BY <1>1 DEF Store, ReadChunk, connVars, ChunksOK, Endings
<1>3. Holds(scrollback, stored)'
  <2>1. Holds(scrollback, stored) /\ scrollback \in Seq(1..MaxOut)
    BY <1>1 DEF SeenInv, ChunksOK
  <2>2. Holds(Remember(scrollback, stored + 1), stored + 1)
    BY <1>2, <2>1, RememberHolds
  <2> QED
    BY <1>2, <2>2 DEF Holds
<1>4. \A d \in Conns : ended'[d] # "exit"
  BY <1>1, <1>2 DEF Store, ShapeOK, Endings
<1>5. ASSUME NEW d \in Conns, attached' # d, buf'[d] = buf[d]
      PROVE  Unbroken(d)'
  <2>1. Promised(d)' = Promised(d)
    BY <1>2, <1>5 DEF Promised
  <2>2. IsRun(Promised(d))
    BY DEF SeenInv, Unbroken
  <2>3. IsRun(Promised(d))'
    BY <2>1, <2>2 DEF IsRun
  <2> QED
    BY <1>4, <1>5, <2>3 DEF Unbroken
<1>6. CASE attached' = NoConn
  <2>1. buf' = buf /\ \A d \in Conns : attached' # d
    BY <1>6 DEF Store
  <2>2. Placed'
    BY <1>1, <1>2, <2>1 DEF Placed
  <2> QED
    BY <1>3, <1>5, <2>1, <2>2
<1>7. CASE attached' # NoConn
  <2>0. attached \in Conns
    BY <1>1, <1>7 DEF Store, ShapeOK
  <2>1. PICK c \in Conns : c = attached
    BY <2>0
  <2>2. main[c] # "idle" /\ code[c] # "closed"
    BY <1>1, <2>1 DEF AttachedOpen, Endings
  <2>3. /\ attached' = c
        /\ buf'[c] = Append(buf[c], stored + 1)
        /\ \A d \in Conns : d # c => buf'[d] = buf[d]
    BY <1>1, <1>7, <2>1 DEF Store, ChunksOK
  <2>4. Placed'
    BY <1>1, <1>2, <2>2, <2>3 DEF Placed
  <2>5. ASSUME NEW d \in Conns, d # c PROVE Unbroken(d)'
    BY <1>5, <2>1, <2>3, <2>5
  <2>6. Unbroken(c)'
    <3>1. Unbroken(c) /\ attached = c
      BY <2>1 DEF SeenInv
    <3>2. CASE stream[c] = "failed"
      <4>1. Promised(c)' = Promised(c)
        BY <1>2, <3>2 DEF Promised
      <4>2. IsRun(Promised(c))'
        BY <3>1, <4>1 DEF IsRun, Unbroken
      <4> QED
        BY <1>2, <3>2, <4>2 DEF Unbroken
    <3>3. CASE stream[c] # "failed"
      <4>1. /\ screen[c] \o replay[c] \in Seq(1..MaxOut) /\ buf[c] \in Seq(1..MaxOut)
            /\ Promised(c) \in Seq(1..MaxOut)
        BY <1>1, <2>1, SeenTypes, ConcatProperties
      <4>2. Promised(c)' = screen[c] \o replay[c] \o Append(buf[c], stored + 1)
        BY <1>2, <2>3, <3>3 DEF Promised
      <4>3. Promised(c) = screen[c] \o replay[c] \o buf[c]
        BY <3>3 DEF Promised
      <4>4. Promised(c)' = Append(Promised(c), stored + 1)
        <5> DEFINE t == screen[c] \o replay[c]
        <5>1. t \in Seq(1..MaxOut)
          BY <4>1
        <5>2. Promised(c)' = t \o Append(buf[c], stored + 1) /\ Promised(c) = t \o buf[c]
          BY <4>2, <4>3
        <5> DEFINE k == stored + 1
        <5>3. k \in 1..MaxOut
          BY <1>2
        <5> HIDE DEF t, k
        <5>4. Append(t \o buf[c], k) = t \o Append(buf[c], k)
          BY <4>1, <5>1, <5>3, AppendConcat
        <5> QED
          BY <5>2, <5>4, Zenon DEF k
      <4>5. IsRun(Promised(c)) /\ EndsAt(Promised(c), stored)
        BY <3>1, <3>3 DEF Unbroken
      <4>6. /\ IsRun(Append(Promised(c), stored + 1))
            /\ EndsAt(Append(Promised(c), stored + 1), stored + 1)
        BY <1>2, <4>1, <4>5, RunGrows
      <4>7. IsRun(Promised(c))'
        BY <4>4, <4>6 DEF IsRun
      <4>8. EndsAt(Promised(c), stored)'
        BY <1>2, <4>4, <4>6 DEF EndsAt
      <4> QED
        BY <4>7, <4>8 DEF Unbroken
    <3> QED
      BY <3>2, <3>3
  <2> QED
    BY <1>3, <2>4, <2>5, <2>6
<1> QED
  BY <1>6, <1>7

\* The invariant of what the browsers see holds in every reachable state.
THEOREM SeenInvariance == Spec => []SeenInv
<1>1. Init => Holds(scrollback, stored) /\ Placed /\ \A c \in Conns : Unbroken(c)
  <2> SUFFICES ASSUME Init
               PROVE  Holds(scrollback, stored) /\ Placed /\ \A c \in Conns : Unbroken(c)
    OBVIOUS
  <2>1. scrollback = <<>> /\ stored = 0 /\ Len(<<>>) = 0 /\ <<>> \in Seq(1..MaxOut)
    BY EmptySeq DEF Init
  <2>2. Holds(scrollback, stored)
    BY <2>1 DEF Holds
  <2>3. Placed
    BY DEF Init, Placed
  <2>4. ASSUME NEW c \in Conns PROVE Unbroken(c)
    <3>1. Promised(c) = <<>> \o <<>> \o <<>>
      BY DEF Init, Promised
    <3>2. Promised(c) = <<>>
      BY <2>1, <3>1, ConcatEmptySeq
    <3> QED
      BY <2>1, <3>2 DEF Unbroken, IsRun, EndsAt
  <2> QED
    BY <2>2, <2>3, <2>4
<1>2. SeenInv /\ IInv' /\ [Next]_vars => SeenInv'
  <2> SUFFICES ASSUME SeenInv, IInv', [Next]_vars PROVE SeenInv'
    OBVIOUS
  <2>1. CASE Quiet
    BY <2>1, QuietUnbroken, QuietPlaced DEF SeenInv
  <2>2. CASE Store
    BY <2>2, StoreSeen DEF SeenInv
  <2>3. ASSUME NEW c \in Conns, Attach(c) \/ SendReplay(c) \/ Forward(c)
        PROVE  SeenInv'
    BY <2>3, AttachSeen, MoveSeen DEF SeenInv
  <2> QED
    BY <2>1, <2>2, <2>3 DEF Next, Pump, Handler, Streamer, Quiet
<1> QED
  BY <1>1, <1>2, Invariance, PTL DEF Spec, SeenInv

\* A browser sees one unbroken piece of the shell's output, and while it is
\* attached everything stored so far reaches it (Attach, pump, streamTerminalOutput).
THEOREM OutputHasNoGap == Spec => []NoGap
<1>1. SeenInv => NoGap
  <2> SUFFICES ASSUME SeenInv, NEW c \in Conns
               PROVE  /\ IsRun(screen[c]) /\ IsRun(Promised(c))
                      /\ attached = c /\ stream[c] # "failed" => EndsAt(Promised(c), stored)
    BY DEF NoGap
  <2>1. TypeOK /\ Unbroken(c)
    BY DEF SeenInv, IInv
  <2>2. /\ screen[c] \in Seq(1..MaxOut) /\ replay[c] \in Seq(1..MaxOut)
        /\ screen[c] \o replay[c] \in Seq(1..MaxOut)
        /\ buf[c] \in Seq(1..MaxOut) /\ <<>> \in Seq(1..MaxOut)
    BY <2>1, SeenTypes, ConcatProperties
  <2>3. PICK b \in Seq(1..MaxOut) : Promised(c) = (screen[c] \o replay[c]) \o b
    BY <2>2 DEF Promised
  <2>4. IsRun((screen[c] \o replay[c]) \o b)
    BY <2>1, <2>3 DEF Unbroken
  <2>5. IsRun(screen[c] \o replay[c])
    BY <2>2, <2>4, RunBegins
  <2>6. IsRun(screen[c])
    BY <2>2, <2>5, RunBegins
  <2> QED
    BY <2>1, <2>6 DEF Unbroken
<1> QED
  BY <1>1, SeenInvariance, PTL

\* A browser that is told the terminal is closed has been shown the output to
\* its end (streamTerminalOutput).
THEOREM LastOutputIsShown == Spec => []LastOutputShown
<1>1. SeenInv => LastOutputShown
  <2> SUFFICES ASSUME SeenInv, NEW c \in Conns, ended[c] = "exit", code[c] = "closed"
               PROVE  EndsAt(screen[c], stored)
    BY DEF LastOutputShown
  <2>1. TypeOK /\ Unbroken(c) /\ stream[c] = "done" /\ buf[c] = <<>> /\ replay[c] = <<>>
    BY DEF SeenInv, IInv, Placed
  <2>2. screen[c] \in Seq(1..MaxOut)
    BY <2>1, SeenTypes
  <2>3. Promised(c) = screen[c] \o <<>> \o <<>>
    BY <2>1 DEF Promised
  <2>4. Promised(c) = screen[c]
    BY <2>2, <2>3, ConcatEmptySeq
  <2> QED
    BY <2>1, <2>4 DEF Unbroken
<1> QED
  BY <1>1, SeenInvariance, PTL

-----------------------------------------------------------------------------
(* The session implements TerminalFeed.                                    *)

\* The scrollback is the tail of the log that a newcomer is owed.
LEMMA HoldsTailing ==
  ASSUME NEW s \in Seq(1..MaxOut), NEW n \in 0..MaxOut, Holds(s, n)
  PROVE  s = Feed!Tailing(n)
<1> DEFINE a == IF n > Scrollback THEN n - Scrollback + 1 ELSE 1
           len == IF a > n THEN 0 ELSE n - a + 1
<1>1. Feed!Tailing(n) = [i \in 1..len |-> a + i - 1]
  BY DEF Feed!Tailing, Feed!Chunks
<1>2. Len(s) = len
  BY DEF Holds
<1>3. ASSUME NEW i \in 1..len PROVE s[i] = a + i - 1
  <2>1. s[i] = n - Len(s) + i
    BY <1>2 DEF Holds
  <2>2. n - len + i = a + i - 1
    OBVIOUS
  <2> QED
    BY <1>2, <2>1, <2>2
<1> HIDE DEF a, len
<1>4. s \in [1..len -> 1..MaxOut]
  BY <1>2, LenProperties
<1> QED
  BY <1>1, <1>3, <1>4

\* A step that moves no chunk is a step of the feed only if it lets the live
\* connection go.
LEMMA QuietFeed == ASSUME SeenInv, Quiet PROVE [Feed!Next]_(Feed!vars)
<1>1. ShapeOK /\ Placed /\ Endings
  BY DEF SeenInv, IInv, TypeOK
<1>2. UNCHANGED <<stored, screen, replay, buf>>
  BY DEF Quiet, ShellExits, CloseShell, ReadError, Exit, OnExit, NotFound, ReplayFails,
         StopReading, Detach, HangUp, SayClosed, NotExited, SayDetached, Revoke,
         Disconnect, vars, shellVars, connVars
<1>3. attached' \in {attached, NoConn}
  BY DEF Quiet, ShellExits, CloseShell, ReadError, Exit, OnExit, NotFound, ReplayFails,
         StopReading, Detach, HangUp, SayClosed, NotExited, SayDetached, Revoke,
         Disconnect, vars, lockVars
<1>4. ASSUME NEW d \in Conns PROVE stream'[d] = "failed" <=> stream[d] = "failed"
  BY <1>1 DEF ShapeOK, Quiet, ShellExits, CloseShell, ReadError, Exit, OnExit,
         NotFound, ReplayFails, StopReading, Detach, HangUp, SayClosed, NotExited,
         SayDetached, Revoke, Disconnect, vars, shellVars, connVars
<1>5. ASSUME NEW d \in Conns PROVE (d \in Joined)' <=> d \in Joined
  <2>1. CASE ShellExits \/ CloseShell \/ ReadError \/ Exit \/ OnExit \/ UNCHANGED vars
    BY <2>1 DEF ShellExits, CloseShell, ReadError, Exit, OnExit, vars, connVars, Joined
  <2>2. ASSUME NEW c \in Conns, NotFound(c) PROVE (d \in Joined)' <=> d \in Joined
    BY <1>1, <2>2 DEF NotFound, ShapeOK, Placed, Joined
  <2>3. ASSUME NEW c \in Conns, ReplayFails(c) \/ Detach(c) \/ HangUp(c) \/ NotExited(c)
                                \/ Disconnect(c)
        PROVE  (d \in Joined)' <=> d \in Joined
    BY <1>1, <2>3 DEF ReplayFails, Detach, HangUp, NotExited, Disconnect, ShapeOK,
                     MainStates, Joined
  <2>4. ASSUME NEW c \in Conns,
               StopReading(c) \/ SayClosed(c) \/ SayDetached(c) \/ Revoke(c)
        PROVE  (d \in Joined)' <=> d \in Joined
    <3>1. \/ code' = code
          \/ code[c] = "none" /\ code' = [code EXCEPT ![c] = "policy"]
          \/ code[c] = "none" /\ code' = [code EXCEPT ![c] = "closed"]
          \/ code[c] = "none" /\ code' = [code EXCEPT ![c] = "replaced"]
          \/ code[c] = "none" /\ code' = [code EXCEPT ![c] = "detached"]
      <4>1. CASE StopReading(c) \/ Revoke(c) \/ SayClosed(c)
        BY <4>1 DEF StopReading, SayClosed, Revoke, Tell
      <4>2. CASE SayDetached(c)
        BY <4>2 DEF SayDetached, Tell
      <4> QED
        BY <2>4, <4>1, <4>2
    <3>2. \/ main' = main
          \/ main[c] = "reading" /\ main' = [main EXCEPT ![c] = "leaving"]
      BY <2>4 DEF StopReading, SayClosed, SayDetached, Revoke
    <3> QED
      BY <1>1, <3>1, <3>2 DEF ShapeOK, MainStates, Joined
  <2> QED
    BY <2>1, <2>2, <2>3, <2>4 DEF Quiet
<1>6. UNCHANGED <<stored, Joined, Owed, screen, Broken>>
  <2>1. Joined' = Joined
    BY <1>5 DEF Joined
  <2>2. Broken' = Broken /\ Owed' = Owed
    BY <1>2, <1>4 DEF Broken, Owed
  <2> QED
    BY <1>2, <2>1, <2>2
<1>7. CASE attached' = attached
  BY <1>6, <1>7 DEF Feed!vars
<1>8. CASE attached # NoConn /\ attached' = NoConn
  BY <1>6, <1>8 DEF Feed!Next, Feed!LetGo
<1> QED
  BY <1>3, <1>7, <1>8

\* A connection that attaches joins the feed.
LEMMA AttachFeed ==
  ASSUME SeenInv, NEW c \in Conns, Attach(c)
  PROVE  Feed!Next
<1>1. ShapeOK /\ ChunksOK /\ TypeOK /\ main[c] = "idle" /\ code[c] = "none" /\ buf[c] = <<>>
      /\ stream[c] = "off" /\ Holds(scrollback, stored)
  BY DEF SeenInv, IInv, TypeOK, Placed, Endings, Attach
<1>2. /\ UNCHANGED <<stored, stream, code, screen, buf>>
      /\ main' = [main EXCEPT ![c] = "replay"]
      /\ replay' = [replay EXCEPT ![c] = scrollback]
      /\ attached' \in {c, NoConn}
  BY DEF Attach, shellVars
<1>3. scrollback = Feed!Tailing(stored)
  BY <1>1, HoldsTailing DEF ChunksOK
<1>4. c \notin Joined /\ Joined' = Joined \cup {c}
  BY <1>1, <1>2 DEF Joined, ShapeOK, MainStates
<1>5. Owed' = [Owed EXCEPT ![c] = Feed!Tailing(stored)]
  <2>1. Owed'[c] = scrollback
    <3>1. Owed'[c] = scrollback \o <<>>
      BY <1>1, <1>2 DEF Owed, ChunksOK
    <3> QED
      BY <1>1, <3>1, SeenTypes, ConcatEmptySeq
  <2>2. \A d \in Conns \ {c} : Owed'[d] = Owed[d]
    BY <1>1, <1>2 DEF Owed, ChunksOK
  <2> QED
    BY <1>3, <2>1, <2>2 DEF Owed
<1>6. Broken' = Broken
  BY <1>2 DEF Broken
<1> QED
  BY <1>2, <1>4, <1>5, <1>6 DEF Feed!Next, Feed!Join

\* What a connection is owed appears on its screen: the copy of the scrollback as
\* a whole, unless it is empty.
LEMMA SendReplayFeed ==
  ASSUME SeenInv, NEW c \in Conns, SendReplay(c)
  PROVE  [Feed!Next]_(Feed!vars)
<1>1. /\ ShapeOK /\ ChunksOK /\ TypeOK /\ stream[c] = "off" /\ screen[c] = <<>>
      /\ main[c] = "replay"
  BY DEF SeenInv, IInv, TypeOK, Placed, SendReplay
<1>2. /\ UNCHANGED <<stored, attached, code, buf>>
      /\ screen' = [screen EXCEPT ![c] = replay[c]]
      /\ replay' = [replay EXCEPT ![c] = <<>>]
      /\ main' = [main EXCEPT ![c] = "reading"]
      /\ stream' = [stream EXCEPT ![c] = "drain"]
  BY DEF SendReplay, shellVars, lockVars
<1>3. UNCHANGED <<Joined, Broken>>
  BY <1>1, <1>2 DEF Joined, Broken, ShapeOK, MainStates
<1>4. /\ replay[c] \in Seq(1..MaxOut) /\ buf[c] \in Seq(1..MaxOut)
  BY <1>1, SeenTypes
<1>5. /\ Owed[c] = replay[c] \o buf[c]
      /\ Owed'[c] = <<>> \o buf[c]
      /\ \A d \in Conns \ {c} : Owed'[d] = Owed[d]
  BY <1>1, <1>2 DEF Owed, ShapeOK, ChunksOK
<1>6. Owed'[c] = buf[c]
  BY <1>4, <1>5, ConcatEmptySeq
<1>7. CASE replay[c] = <<>>
  <2>1. screen' = screen
    BY <1>1, <1>2, <1>7 DEF ChunksOK
  <2>2. Owed[c] = buf[c]
    BY <1>4, <1>5, <1>7, ConcatEmptySeq
  <2>3. Owed' = Owed
    BY <1>5, <1>6, <2>2 DEF Owed
  <2> QED
    BY <1>2, <1>3, <2>1, <2>3 DEF Feed!vars
<1>8. CASE replay[c] # <<>>
  <2> DEFINE k == Len(replay[c])
  <2>1. k \in Nat \ {0} /\ Len(buf[c]) \in Nat /\ Len(Owed[c]) = k + Len(buf[c])
    BY <1>4, <1>5, <1>8, EmptySeq, LenProperties, ConcatProperties
  <2>2. SubSeq(Owed[c], 1, k) = replay[c] /\ SubSeq(Owed[c], k + 1, Len(Owed[c])) = buf[c]
    <3>1. /\ SubSeq(replay[c] \o buf[c], 1, Len(replay[c])) = replay[c]
          /\ SubSeq(replay[c] \o buf[c], Len(replay[c]) + 1, Len(replay[c] \o buf[c])) = buf[c]
      BY <1>4, CutConcat
    <3> QED
      BY <1>5, <3>1, Zenon
  <2> HIDE DEF k
  <2>3. k \in 1..Len(Owed[c])
    BY <2>1
  <2>4. screen' = [screen EXCEPT ![c] = @ \o SubSeq(Owed[c], 1, k)]
    <3>1. screen[c] \o replay[c] = replay[c]
      BY <1>1, <1>4, ConcatEmptySeq
    <3> QED
      BY <1>1, <1>2, <2>2, <3>1 DEF ChunksOK
  <2>5. Owed' = [Owed EXCEPT ![c] = SubSeq(@, k + 1, Len(@))]
    BY <1>5, <1>6, <2>2 DEF Owed
  <2>6. Feed!Show(c, k)
    BY <1>2, <1>3, <2>3, <2>4, <2>5 DEF Feed!Show
  <2> QED
    BY <2>3, <2>6 DEF Feed!Next
<1> QED
  BY <1>7, <1>8

\* The head of a channel appears on the screen, or the streamer fails.
LEMMA ForwardFeed ==
  ASSUME SeenInv, NEW c \in Conns, Forward(c)
  PROVE  Feed!Next
<1>1. /\ ShapeOK /\ ChunksOK /\ TypeOK /\ stream[c] = "drain" /\ replay[c] = <<>>
      /\ buf[c] # <<>> /\ main[c] # "idle"
  BY DEF SeenInv, IInv, TypeOK, Placed, Endings, Forward
<1>2. /\ UNCHANGED <<stored, attached, main, code, replay>>
      /\ buf' = [buf EXCEPT ![c] = Tail(buf[c])]
  BY DEF Forward, shellVars, lockVars
<1>3. Joined' = Joined
  BY <1>2 DEF Joined
<1>4. screen[c] \in Seq(1..MaxOut) /\ buf[c] \in Seq(1..MaxOut)
  BY <1>1, SeenTypes
<1>5. Owed[c] = buf[c] /\ Owed = [Owed EXCEPT ![c] = buf[c]]
  <2>1. Owed[c] = <<>> \o buf[c]
    BY <1>1 DEF Owed
  <2>2. Owed[c] = buf[c]
    BY <1>4, <2>1, ConcatEmptySeq
  <2> QED
    BY <2>2 DEF Owed
<1>6. Head(buf[c]) \in 1..MaxOut /\ Tail(buf[c]) \in Seq(1..MaxOut)
  BY <1>1, <1>4, HeadTailProperties
<1>7. CASE /\ screen' = [screen EXCEPT ![c] = Append(screen[c], Head(buf[c]))]
           /\ stream' = stream
  <2>1. Broken' = Broken
    BY <1>7 DEF Broken
  <2>2. /\ Owed'[c] = <<>> \o Tail(buf[c])
        /\ \A d \in Conns \ {c} : Owed'[d] = Owed[d]
    BY <1>1, <1>2, <1>7 DEF Owed, ChunksOK
  <2>3. Owed'[c] = Tail(buf[c])
    BY <1>6, <2>2, ConcatEmptySeq
  <2>4. /\ Len(buf[c]) \in Nat \ {0}
        /\ Tail(buf[c]) = SubSeq(buf[c], 1 + 1, Len(buf[c]))
    BY <1>1, <1>4, EmptySeq, TailIsSubSeq
  <2>5. SubSeq(buf[c], 1, 1) = <<Head(buf[c])>>
    BY <1>4, <2>4, FirstOf
  <2>6. Append(screen[c], Head(buf[c])) = screen[c] \o SubSeq(buf[c], 1, 1)
    BY <1>4, <1>6, <2>5, AppendIsConcat
  <2>7. 1 \in 1..Len(Owed[c])
    BY <1>5, <2>4
  <2>8. Feed!Show(c, 1)
    <3>1. screen' = [screen EXCEPT ![c] = @ \o SubSeq(Owed[c], 1, 1)]
      BY <1>5, <1>7, <2>6, Zenon
    <3>2. Owed' = [Owed EXCEPT ![c] = SubSeq(@, 1 + 1, Len(@))]
      BY <1>5, <2>2, <2>3, <2>4 DEF Owed
    <3> QED
      BY <1>2, <1>3, <2>1, <2>7, <3>1, <3>2 DEF Feed!Show
  <2> QED
    BY <2>7, <2>8 DEF Feed!Next
<1>8. CASE /\ screen' = screen
           /\ stream' = [stream EXCEPT ![c] = "failed"]
           /\ c \in Joined
  <2>1. Broken' = Broken \cup {c}
    BY <1>1, <1>8 DEF Broken, ShapeOK
  <2>2. Owed' = [Owed EXCEPT ![c] = <<>>]
    BY <1>1, <1>2, <1>8 DEF Owed, ShapeOK, ChunksOK
  <2> QED
    BY <1>2, <1>3, <1>8, <2>1, <2>2 DEF Feed!Next, Feed!Break
<1>9. c \in Joined
  BY <1>1 DEF SeenInv, Placed, Joined, ShapeOK
<1> QED
  BY <1>7, <1>8, <1>9 DEF Forward

\* A chunk that is stored is owed to the live connection, or lets it go.
LEMMA StoreFeed ==
  ASSUME SeenInv, Store
  PROVE  Feed!Next
<1>1. ShapeOK /\ ChunksOK /\ TypeOK /\ stored \in 0..MaxOut
  BY DEF SeenInv, IInv, TypeOK, ChunksOK
<1>2. /\ stored' = stored + 1 /\ stored + 1 \in 1..MaxOut
      /\ UNCHANGED <<main, stream, replay, code, screen>>
  BY <1>1 DEF Store, ReadChunk, connVars, ChunksOK
<1>3. UNCHANGED <<Joined, Broken, screen>>
  BY <1>2 DEF Joined, Broken
<1>4. CASE UNCHANGED <<attached, buf>> /\ attached = NoConn
  <2>1. Owed' = Owed
    BY <1>2, <1>4 DEF Owed
  <2> QED
    BY <1>2, <1>3, <1>4, <2>1 DEF Feed!Next, Feed!Emit
<1>5. CASE attached' = NoConn /\ UNCHANGED buf
  <2>1. Owed' = Owed
    BY <1>2, <1>5 DEF Owed
  <2> QED
    BY <1>2, <1>3, <1>5, <2>1 DEF Feed!Next, Feed!Emit
<1>6. CASE /\ attached # NoConn /\ attached' = attached
           /\ buf' = [buf EXCEPT ![attached] = Append(@, stored + 1)]
  <2>1. PICK c \in Conns : c = attached
    BY <1>1, <1>6 DEF ShapeOK
  <2>2. /\ buf'[c] = Append(buf[c], stored + 1)
        /\ \A d \in Conns \ {c} : buf'[d] = buf[d]
    BY <1>1, <1>6, <2>1 DEF ChunksOK
  <2>3. CASE stream[c] = "failed"
    <3>1. Owed' = Owed
      BY <1>2, <2>2, <2>3 DEF Owed
    <3>2. attached \in Broken
      BY <2>1, <2>3 DEF Broken
    <3> QED
      BY <1>2, <1>3, <1>6, <3>1, <3>2 DEF Feed!Next, Feed!Emit
  <2>4. CASE stream[c] # "failed"
    <3>1. attached \in Conns \ Broken
      BY <2>1, <2>4 DEF Broken
    <3>2. /\ Owed[c] = replay[c] \o buf[c]
          /\ Owed'[c] = replay[c] \o Append(buf[c], stored + 1)
          /\ \A d \in Conns \ {c} : Owed'[d] = Owed[d]
      BY <1>2, <2>2, <2>4 DEF Owed
    <3>3. replay[c] \in Seq(1..MaxOut) /\ buf[c] \in Seq(1..MaxOut)
      BY <1>1, SeenTypes
    <3> DEFINE k == stored + 1
    <3>4. k \in 1..MaxOut
      BY <1>2
    <3> HIDE DEF k
    <3>5. Append(replay[c] \o buf[c], k) = replay[c] \o Append(buf[c], k)
      BY <3>3, <3>4, AppendConcat
    <3>6. Owed'[c] = Append(Owed[c], stored + 1)
      BY <3>2, <3>5, Zenon DEF k
    <3>7. Owed' = [Owed EXCEPT ![attached] = Append(@, stored + 1)]
      BY <2>1, <3>2, <3>6 DEF Owed
    <3> QED
      BY <1>2, <1>3, <1>6, <3>1, <3>7 DEF Feed!Next, Feed!Emit
  <2> QED
    BY <2>3, <2>4
<1> QED
  BY <1>4, <1>5, <1>6 DEF Store

\* The pump, the handlers, the streamers and the network together implement the
\* feed: every step is a step of it or changes nothing it speaks of.
THEOREM FeedImplemented == Spec => ImplementsFeed
<1>1. Init => Feed!Init
  <2> SUFFICES ASSUME Init PROVE Feed!Init
    OBVIOUS
  <2>1. Joined = {} /\ Broken = {}
    BY DEF Init, Joined, Broken
  <2>2. <<>> \o <<>> = <<>>
    BY EmptySeq, ConcatEmptySeq
  <2>3. Owed = [c \in Conns |-> <<>>]
    BY <2>2 DEF Init, Owed
  <2> QED
    BY <2>1, <2>3 DEF Init, Feed!Init
<1>2. SeenInv /\ [Next]_vars => [Feed!Next]_(Feed!vars)
  <2> SUFFICES ASSUME SeenInv, [Next]_vars PROVE [Feed!Next]_(Feed!vars)
    OBVIOUS
  <2>1. CASE Quiet
    BY <2>1, QuietFeed
  <2>2. CASE Store
    BY <2>2, StoreFeed
  <2>3. ASSUME NEW c \in Conns, Attach(c) \/ SendReplay(c) \/ Forward(c)
        PROVE  [Feed!Next]_(Feed!vars)
    BY <2>3, AttachFeed, SendReplayFeed, ForwardFeed
  <2> QED
    BY <2>1, <2>2, <2>3 DEF Next, Pump, Handler, Streamer, Quiet
<1> QED
  BY <1>1, <1>2, SeenInvariance, PTL DEF Spec, ImplementsFeed, Feed!Spec
=============================================================================
