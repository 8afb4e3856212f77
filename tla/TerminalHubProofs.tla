-------------------------- MODULE TerminalHubProofs --------------------------
(***************************************************************************)
(* Machine-checked proofs about TerminalHub, for every set of users, every *)
(* finite set of shells and create handlers, and every limit.  The safety  *)
(* properties are the conjuncts of one inductive invariant, IInv: the type *)
(* invariant needs ShellsBorn (Reap takes the owners of listed shells for  *)
(* users), and the others need both.                                       *)
(***************************************************************************)
EXTENDS TerminalHub, FiniteSetTheorems, TLAPS

USE NamesAssumption

LEMMA InitTypeOK == Init => TypeOK /\ ShellsBorn
  BY DEF Init, TypeOK, Handlers, ShellsBorn, Exited

\* A handler that has started its shell is a handler.
LEMMA StartedHandlers ==
    ASSUME NEW H, H = Handlers({"idle", "counted", "started"}, Users \cup {Nobody}),
           creator \in [Creators -> H], NEW p \in Creators, NEW s \in Shells,
           creator' = [creator EXCEPT ![p].at = "started", ![p].shell = s]
    PROVE  creator' \in [Creators -> H]
<1>1. ASSUME NEW h \in H PROVE [h EXCEPT !.at = "started", !.shell = s] \in H
  BY <1>1 DEF Handlers
<1>2. creator' = [creator EXCEPT ![p] = [creator[p] EXCEPT !.at = "started", !.shell = s]]
  OBVIOUS
<1>3. [creator[p] EXCEPT !.at = "started", !.shell = s] \in H
  BY <1>1
<1> QED BY <1>2, <1>3

\* Every step keeps every variable in its range.
LEMMA NextTypeOK == TypeOK /\ ShellsBorn /\ [Next]_vars => TypeOK'
<1> SUFFICES ASSUME TypeOK, ShellsBorn, [Next]_vars PROVE TypeOK'
  OBVIOUS
<1> USE DEF TypeOK, Handlers
<1>1. ASSUME NEW p \in Creators, Create(p) PROVE TypeOK'
  <2>1. ASSUME NEW u \in Users, Count(p, u) PROVE TypeOK'
    BY <2>1 DEF Count, shellVars, reapVars
  <2>2. ASSUME NEW s \in Shells, Start(p, s) PROVE TypeOK'
    <3>1. /\ pty' \in [Shells -> {"unborn", "running", "closed"}]
          /\ owner' \in [Shells -> Users \cup {Nobody}]
      BY <2>2 DEF Start
    <3>2. /\ creator' = [creator EXCEPT ![p].at = "started", ![p].shell = s]
          /\ creator[p].at = "counted"
      BY <2>2 DEF Start
    <3>3. creator' \in [Creators -> Handlers({"idle", "counted", "started"}, Users \cup {Nobody})]
      BY <3>2, StartedHandlers DEF TypeOK
    <3>4. \A c \in Creators : /\ creator'[c].at # "idle" => creator'[c].user \in Users
                              /\ creator'[c].at = "started" => creator'[c].shell \in Shells
      <4>1. creator[p].user \in Users
        BY <3>2
      <4>2. \A c \in Creators : /\ creator[c].at # "idle" => creator[c].user \in Users
                                /\ creator[c].at = "started" => creator[c].shell \in Shells
        OBVIOUS
      <4> QED BY <3>2, <4>1, <4>2
    <3> QED BY <2>2, <3>1, <3>3, <3>4 DEF Start, reapVars
  <2>3. CASE StartFails(p)
    BY <2>3 DEF StartFails, Answer, shellVars, reapVars
  <2>4. CASE NoId(p)
    BY <2>4 DEF NoId, Answer, reapVars
  <2>5. CASE Insert(p)
    BY <2>5 DEF Insert, Answer, reapVars
  <2> QED BY <1>1, <2>1, <2>2, <2>3, <2>4, <2>5 DEF Create
<1>2. ASSUME NEW q \in Closers, Close(q) PROVE TypeOK'
  <2>1. ASSUME NEW u \in Users, NEW s \in Shells, FindToClose(q, u, s) PROVE TypeOK'
    BY <2>1 DEF FindToClose, shellVars, reapVars
  <2>2. CASE ClosePty(q)
    BY <2>2 DEF ClosePty, reapVars
  <2>3. CASE Closed(q)
    BY <2>3 DEF Closed, Answer, shellVars, reapVars
  <2> QED BY <1>2, <2>1, <2>2, <2>3 DEF Close
<1>3. ASSUME NEW s \in Shells, Pump(s) \/ ProcessEnds(s) PROVE TypeOK'
  BY <1>3 DEF Pump, PumpExits, Remove, AuditEnd, ProcessEnds, reapVars
<1>4. CASE Reap
  <2>1. CASE Tick
    BY <2>1 DEF Tick, shellVars, ShellsBorn
  <2>2. CASE ReapClosed \/ ReapReturn
    BY <2>2 DEF ReapClosed, ReapReturn, shellVars
  <2>3. ASSUME NEW u \in Users, Spare(u) \/ Condemn(u) PROVE TypeOK'
    BY <2>3 DEF Spare, Condemn, Listed, shellVars
  <2>4. ASSUME NEW s \in Shells, ReapClose(s) PROVE TypeOK'
    BY <2>4 DEF ReapClose, shellVars
  <2> QED BY <1>4, <2>1, <2>2, <2>3, <2>4 DEF Reap
<1>5. ASSUME NEW u \in Users, Decide(u) PROVE TypeOK'
  BY <1>5 DEF Decide, shellVars, reapVars
<1>6. CASE UNCHANGED vars
  BY <1>6 DEF vars, shellVars, reapVars
<1> QED BY <1>1, <1>2, <1>3, <1>4, <1>5, <1>6 DEF Next

\* Every step keeps listed and held shells started, for the right user.
LEMMA NextShellsBorn == TypeOK /\ ShellsBorn /\ [Next]_vars => ShellsBorn'
<1> SUFFICES ASSUME TypeOK, ShellsBorn, [Next]_vars PROVE ShellsBorn'
  OBVIOUS
<1> USE DEF TypeOK, Handlers, ShellsBorn, Exited
<1>1. ASSUME NEW p \in Creators, Create(p) PROVE ShellsBorn'
  <2>1. ASSUME NEW u \in Users, Count(p, u) PROVE ShellsBorn'
    BY <2>1 DEF Count, shellVars, reapVars
  <2>2. ASSUME NEW s \in Shells, Start(p, s) PROVE ShellsBorn'
    BY <2>2 DEF Start, reapVars
  <2>3. CASE StartFails(p)
    BY <2>3 DEF StartFails, Answer, shellVars, reapVars
  <2>4. CASE NoId(p)
    BY <2>4 DEF NoId, Answer, reapVars
  <2>5. CASE Insert(p)
    BY <2>5 DEF Insert, Answer, reapVars
  <2> QED BY <1>1, <2>1, <2>2, <2>3, <2>4, <2>5 DEF Create
<1>2. ASSUME NEW q \in Closers, Close(q) PROVE ShellsBorn'
  <2>1. ASSUME NEW u \in Users, NEW s \in Shells, FindToClose(q, u, s)
        PROVE ShellsBorn'
    BY <2>1 DEF FindToClose, Get, shellVars, reapVars
  <2>2. CASE ClosePty(q)
    BY <2>2 DEF ClosePty, reapVars
  <2>3. CASE Closed(q)
    BY <2>3 DEF Closed, Answer, shellVars, reapVars
  <2> QED BY <1>2, <2>1, <2>2, <2>3 DEF Close
<1>3. ASSUME NEW s \in Shells, Pump(s) \/ ProcessEnds(s) PROVE ShellsBorn'
  BY <1>3 DEF Pump, PumpExits, Remove, AuditEnd, ProcessEnds, reapVars
<1>4. CASE Reap
  BY <1>4 DEF Reap, Tick, Spare, Condemn, ReapClose, ReapClosed, ReapReturn, shellVars
<1>5. ASSUME NEW u \in Users, Decide(u) PROVE ShellsBorn'
  BY <1>5 DEF Decide, shellVars, reapVars
<1>6. CASE UNCHANGED vars
  BY <1>6 DEF vars, shellVars, reapVars
<1> QED BY <1>1, <1>2, <1>3, <1>4, <1>5, <1>6 DEF Next

\* Every step keeps each running shell listed or held by its create handler.
LEMMA NextNoOrphan == TypeOK /\ ShellsBorn /\ NoOrphan /\ [Next]_vars => NoOrphan'
<1> SUFFICES ASSUME TypeOK, ShellsBorn, NoOrphan, [Next]_vars PROVE NoOrphan'
  OBVIOUS
<1> USE DEF TypeOK, Handlers, ShellsBorn, NoOrphan, Exited
<1>1. ASSUME NEW p \in Creators, Create(p) PROVE NoOrphan'
  <2>1. ASSUME NEW u \in Users, Count(p, u) PROVE NoOrphan'
    BY <2>1 DEF Count, shellVars, reapVars
  <2>2. ASSUME NEW s \in Shells, Start(p, s) PROVE NoOrphan'
    BY <2>2 DEF Start, reapVars
  <2>3. CASE StartFails(p)
    BY <2>3 DEF StartFails, Answer, shellVars, reapVars
  <2>4. CASE NoId(p)
    BY <2>4 DEF NoId, Answer, reapVars
  <2>5. CASE Insert(p)
    BY <2>5 DEF Insert, Answer, reapVars
  <2> QED BY <1>1, <2>1, <2>2, <2>3, <2>4, <2>5 DEF Create
<1>2. ASSUME NEW q \in Closers, Close(q) PROVE NoOrphan'
  BY <1>2 DEF Close, FindToClose, ClosePty, Closed, shellVars, reapVars
<1>3. ASSUME NEW s \in Shells, Pump(s) \/ ProcessEnds(s) PROVE NoOrphan'
  BY <1>3 DEF Pump, PumpExits, Remove, AuditEnd, ProcessEnds, reapVars
<1>4. CASE Reap
  BY <1>4 DEF Reap, Tick, Spare, Condemn, ReapClose, ReapClosed, ReapReturn, shellVars
<1>5. ASSUME NEW u \in Users, Decide(u) PROVE NoOrphan'
  BY <1>5 DEF Decide, shellVars, reapVars
<1>6. CASE UNCHANGED vars
  BY <1>6 DEF vars, shellVars, reapVars
<1> QED BY <1>1, <1>2, <1>3, <1>4, <1>5, <1>6 DEF Next

\* Every step keeps the shells close handlers hold their users' own.
LEMMA NextOwnShellClosed ==
  TypeOK /\ ShellsBorn /\ OwnShellClosed /\ [Next]_vars => OwnShellClosed'
<1> SUFFICES ASSUME TypeOK, ShellsBorn, OwnShellClosed, [Next]_vars
             PROVE OwnShellClosed'
  OBVIOUS
<1> USE DEF TypeOK, Handlers, ShellsBorn, OwnShellClosed
<1>1. ASSUME NEW p \in Creators, Create(p) PROVE OwnShellClosed'
  BY <1>1 DEF Create, Count, Start, StartFails, NoId, Insert, shellVars, reapVars
<1>2. ASSUME NEW q \in Closers, Close(q) PROVE OwnShellClosed'
  BY <1>2 DEF Close, FindToClose, Get, ClosePty, Closed, Answer, shellVars, reapVars
<1>3. ASSUME NEW s \in Shells, Pump(s) \/ ProcessEnds(s) PROVE OwnShellClosed'
  BY <1>3 DEF Pump, PumpExits, Remove, AuditEnd, ProcessEnds, reapVars
<1>4. CASE Reap
  BY <1>4 DEF Reap, Tick, Spare, Condemn, ReapClose, ReapClosed, ReapReturn, shellVars
<1>5. ASSUME NEW u \in Users, Decide(u) PROVE OwnShellClosed'
  BY <1>5 DEF Decide, shellVars, reapVars
<1>6. CASE UNCHANGED vars
  BY <1>6 DEF vars, shellVars, reapVars
<1> QED BY <1>1, <1>2, <1>3, <1>4, <1>5, <1>6 DEF Next

\* One more element adds at most one to a cardinality.
LEMMA AddOne ==
  ASSUME NEW S, IsFiniteSet(S), NEW x
  PROVE  /\ Cardinality(S \cup {x}) \in Nat
         /\ Cardinality(S \cup {x}) <= Cardinality(S) + 1
<1>1. Cardinality(S) \in Nat
  BY FS_CardinalityType
<1>2. Cardinality(S \cup {x}) = IF x \in S THEN Cardinality(S) ELSE Cardinality(S) + 1
  BY FS_AddElement
<1> QED BY <1>1, <1>2

\* The sets the limit counts are finite.
LEMMA CountsFinite ==
  ASSUME TypeOK, NEW u \in Users
  PROVE  /\ IsFiniteSet(Listed(u)) /\ Cardinality(Listed(u)) \in Nat
         /\ IsFiniteSet(Starting(u)) /\ Cardinality(Starting(u)) \in Nat
         /\ Cardinality(Starting(u)) <= Cardinality(Creators)
         /\ Cardinality(Creators) \in Nat
<1>1. Listed(u) \subseteq Shells
  BY DEF Listed, TypeOK
<1>2. Starting(u) \subseteq Creators
  BY DEF Starting
<1> QED BY <1>1, <1>2, SizesAssumption, FS_Subset, FS_CardinalityType

\* Fewer listed shells and fewer starting handlers keep the bound.
LEMMA FewerKeepsLimit ==
  ASSUME TypeOK, TypeOK', LimitWithRacers, NEW u \in Users,
         Listed(u)' \subseteq Listed(u), Starting(u)' \subseteq Starting(u)
  PROVE  (Cardinality(Listed(u)) + Cardinality(Starting(u))
            <= MaxSessions - 1 + Cardinality(Creators))'
<1>1. IsFiniteSet(Listed(u)) /\ IsFiniteSet(Starting(u))
  BY CountsFinite
<1>2. Cardinality(Listed(u)') <= Cardinality(Listed(u))
  BY <1>1, FS_Subset
<1>3. Cardinality(Starting(u)') <= Cardinality(Starting(u))
  BY <1>1, FS_Subset
<1>4. /\ Cardinality(Listed(u)) \in Nat /\ Cardinality(Starting(u)) \in Nat
      /\ Cardinality(Creators) \in Nat
  BY CountsFinite
<1>5. Cardinality(Listed(u)') \in Nat /\ Cardinality(Starting(u)') \in Nat
  BY <1>1, FS_Subset, FS_CardinalityType
<1>6. Cardinality(Listed(u)) + Cardinality(Starting(u))
        <= MaxSessions - 1 + Cardinality(Creators)
  BY DEF LimitWithRacers
<1> QED BY <1>2, <1>3, <1>4, <1>5, <1>6, SizesAssumption

\* Create counts with the lock held: at that moment fewer than MaxSessions are
\* listed, and at most every create handler is under way.
LEMMA CountKeepsLimit ==
  ASSUME TypeOK, TypeOK', LimitWithRacers, NEW p \in Creators, NEW v \in Users,
         Count(p, v), NEW u \in Users
  PROVE  (Cardinality(Listed(u)) + Cardinality(Starting(u))
            <= MaxSessions - 1 + Cardinality(Creators))'
<1>1. Listed(u)' = Listed(u)
  BY DEF Count, shellVars, Listed
<1>2. CASE u = v
  <2>1. Cardinality(Listed(u)) <= MaxSessions - 1 /\ Cardinality(Listed(u)) \in Nat
    BY <1>2, CountsFinite, SizesAssumption DEF Count
  <2>2. Starting(u)' \subseteq Creators
    BY DEF Starting
  <2>3. Cardinality(Starting(u)') <= Cardinality(Creators)
    BY <2>2, SizesAssumption, FS_Subset
  <2>4. Cardinality(Starting(u)') \in Nat /\ Cardinality(Creators) \in Nat
    BY <2>2, SizesAssumption, FS_Subset, FS_CardinalityType
  <2>5. Cardinality(Listed(u)') = Cardinality(Listed(u))
    BY <1>1
  <2> QED BY <2>1, <2>3, <2>4, <2>5, SizesAssumption
<1>3. CASE u # v
  <2>1. Starting(u)' \subseteq Starting(u)
    BY <1>3 DEF Count, Starting, TypeOK, Handlers
  <2> QED BY <1>1, <2>1, FewerKeepsLimit
<1> QED BY <1>2, <1>3

\* Insert moves its handler's shell from the starting to the listed ones.
LEMMA InsertKeepsLimit ==
  ASSUME TypeOK, TypeOK', ShellsBorn, LimitWithRacers, NEW p \in Creators,
         Insert(p), NEW u \in Users
  PROVE  (Cardinality(Listed(u)) + Cardinality(Starting(u))
            <= MaxSessions - 1 + Cardinality(Creators))'
<1> DEFINE s == creator[p].shell
<1>1. /\ s \in Shells /\ owner[s] = creator[p].user /\ owner' = owner
      /\ sessions' = sessions \cup {s}
  BY DEF Insert, ShellsBorn, TypeOK
<1>2. creator' = [creator EXCEPT ![p] = [at |-> "idle", user |-> Nobody, shell |-> NoShell]]
  BY DEF Insert, Answer
<1>3. CASE u = creator[p].user
  <2>1. Listed(u)' = Listed(u) \cup {s}
    BY <1>1, <1>3 DEF Listed
  <2>0. p \in Starting(u)
    BY <1>3 DEF Starting, Insert
  <2>2. Starting(u)' = Starting(u) \ {p}
    <3>1. creator'[p].at = "idle"
      BY <1>2 DEF TypeOK
    <3>2. \A r \in Creators \ {p} : creator'[r] = creator[r]
      BY <1>2 DEF TypeOK
    <3> QED BY <3>1, <3>2 DEF Starting
  <2>3. /\ IsFiniteSet(Listed(u)) /\ Cardinality(Listed(u)) \in Nat
        /\ IsFiniteSet(Starting(u)) /\ Cardinality(Starting(u)) \in Nat
        /\ Cardinality(Creators) \in Nat
    BY CountsFinite
  <2>4. /\ Cardinality(Listed(u)') \in Nat
        /\ Cardinality(Listed(u)') <= Cardinality(Listed(u)) + 1
    BY <2>1, <2>3, AddOne
  <2>5. Cardinality(Starting(u)') = Cardinality(Starting(u)) - 1
    BY <2>0, <2>2, <2>3, FS_RemoveElement
  <2>6. Cardinality(Listed(u)) + Cardinality(Starting(u))
          <= MaxSessions - 1 + Cardinality(Creators)
    BY DEF LimitWithRacers
  <2> QED BY <2>3, <2>4, <2>5, <2>6, SizesAssumption
<1>4. CASE u # creator[p].user
  <2>1. Listed(u)' \subseteq Listed(u)
    BY <1>1, <1>4 DEF Listed
  <2>2. Starting(u)' \subseteq Starting(u)
    BY <1>2 DEF Starting, TypeOK, Handlers
  <2> QED BY <2>1, <2>2, FewerKeepsLimit
<1> QED BY <1>3, <1>4

\* Every step keeps the limit with racers.
LEMMA NextLimit ==
  TypeOK /\ TypeOK' /\ ShellsBorn /\ LimitWithRacers /\ [Next]_vars
    => LimitWithRacers'
<1> SUFFICES ASSUME TypeOK, TypeOK', ShellsBorn, LimitWithRacers, [Next]_vars,
                    NEW u \in Users
             PROVE  (Cardinality(Listed(u)) + Cardinality(Starting(u))
                       <= MaxSessions - 1 + Cardinality(Creators))'
  BY DEF LimitWithRacers
<1> DEFINE Fewer == Listed(u)' \subseteq Listed(u) /\ Starting(u)' \subseteq Starting(u)
<1>1. ASSUME NEW p \in Creators, NEW v \in Users, Count(p, v)
      PROVE  (Cardinality(Listed(u)) + Cardinality(Starting(u))
                <= MaxSessions - 1 + Cardinality(Creators))'
  BY <1>1, CountKeepsLimit
<1>2. ASSUME NEW p \in Creators, Insert(p)
      PROVE  (Cardinality(Listed(u)) + Cardinality(Starting(u))
                <= MaxSessions - 1 + Cardinality(Creators))'
  BY <1>2, InsertKeepsLimit
<1>3. ASSUME NEW p \in Creators, NEW s \in Shells, Start(p, s) PROVE Fewer
  BY <1>3 DEF Start, Listed, Starting, TypeOK, Handlers, ShellsBorn
<1>4. ASSUME NEW p \in Creators, StartFails(p) \/ NoId(p) PROVE Fewer
  BY <1>4 DEF StartFails, NoId, Answer, Listed, Starting, TypeOK, Handlers, shellVars
<1>5. ASSUME NEW q \in Closers, Close(q) PROVE Fewer
  BY <1>5 DEF Close, FindToClose, ClosePty, Closed, Listed, Starting, shellVars
<1>6. ASSUME NEW s \in Shells, Pump(s) \/ ProcessEnds(s) PROVE Fewer
  BY <1>6 DEF Pump, PumpExits, Remove, AuditEnd, ProcessEnds, Listed, Starting
<1>7. ASSUME Reap PROVE Fewer
  BY <1>7 DEF Reap, Tick, Spare, Condemn, ReapClose, ReapClosed, ReapReturn,
              shellVars, Listed, Starting
<1>8. ASSUME NEW v \in Users, Decide(v) PROVE Fewer
  BY <1>8 DEF Decide, shellVars, Listed, Starting
<1>9. ASSUME UNCHANGED vars PROVE Fewer
  BY <1>9 DEF vars, shellVars, Listed, Starting
<1>10. Fewer => (Cardinality(Listed(u)) + Cardinality(Starting(u))
                   <= MaxSessions - 1 + Cardinality(Creators))'
  BY FewerKeepsLimit
<1> HIDE DEF Fewer
<1> QED BY <1>1, <1>2, <1>3, <1>4, <1>5, <1>6, <1>7, <1>8, <1>9, <1>10
        DEF Next, Create

\* Initially nobody owns a shell and no handler is under way.
LEMMA InitLimit == Init => LimitWithRacers
<1> SUFFICES ASSUME Init, NEW u \in Users
             PROVE  Cardinality(Listed(u)) + Cardinality(Starting(u))
                      <= MaxSessions - 1 + Cardinality(Creators)
  BY DEF LimitWithRacers
<1>1. Listed(u) = {} /\ Starting(u) = {}
  BY DEF Init, Listed, Starting
<1>2. Cardinality(Creators) \in Nat
  BY SizesAssumption, FS_CardinalityType
<1> QED BY <1>1, <1>2, SizesAssumption, FS_EmptySet

\* The inductive invariant holds in every reachable state.
THEOREM Invariance == Spec => []IInv
<1>1. Init => IInv
  BY InitTypeOK, InitLimit DEF IInv, Init, NoOrphan, OwnShellClosed
<1>2. IInv /\ [Next]_vars => IInv'
  BY NextTypeOK, NextShellsBorn, NextNoOrphan, NextOwnShellClosed, NextLimit DEF IInv
<1> QED BY <1>1, <1>2, PTL DEF Spec

\* Type correctness of every reachable state of the hub.
THEOREM TypeCorrect == Spec => []TypeOK
  BY Invariance, PTL DEF IInv

\* No running shell is ever lost to the hub (Create, the pump's callback).
THEOREM NoShellOrphaned == Spec => []NoOrphan
  BY Invariance, PTL DEF IInv

\* A handler only ever closes a shell of its own user (Hub.Get, Hub.Close).
THEOREM OnlyOwnShellsClosed == Spec => []OwnShellClosed
  BY Invariance, PTL DEF IInv

\* However many shells and users there are, a user exceeds the limit by less
\* than the number of concurrent create handlers (Hub.Create).
THEOREM LimitHoldsUpToRacers == Spec => []LimitWithRacers
  BY Invariance, PTL DEF IInv

\* With one create handler at a time the documented limit holds exactly.
THEOREM SequentialLimit ==
  ASSUME Cardinality(Creators) <= 1
  PROVE  Spec => []SessionLimit
<1>1. IInv => SessionLimit
  <2> SUFFICES ASSUME IInv, NEW u \in Users
               PROVE  Cardinality(Listed(u)) <= MaxSessions
    BY DEF SessionLimit
  <2>1. /\ Cardinality(Listed(u)) \in Nat /\ Cardinality(Starting(u)) \in Nat
        /\ Cardinality(Creators) \in Nat
    BY CountsFinite DEF IInv
  <2>2. Cardinality(Listed(u)) + Cardinality(Starting(u))
          <= MaxSessions - 1 + Cardinality(Creators)
    BY DEF IInv, LimitWithRacers
  <2> QED BY <2>1, <2>2, SizesAssumption
<1> QED BY <1>1, Invariance, PTL
=============================================================================
