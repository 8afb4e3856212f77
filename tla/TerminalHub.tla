----------------------------- MODULE TerminalHub -----------------------------
(***************************************************************************)
(* The registry of persistent shells (terminal.Hub): the create and close  *)
(* handlers, the pump of each shell as far as the hub sees it, and the     *)
(* reaper that closes the shells of users who lost the right to have one.  *)
(* What a browser sees of one shell is in TerminalSession; here a shell is *)
(* its pty and its pump.  A critical section of Hub.mu is one step.        *)
(***************************************************************************)
EXTENDS Integers, FiniteSets

CONSTANTS Users,        \* panel users
          Shells,       \* session ids; a behaviour starts at most this many
          Creators,     \* concurrent POST /terminal/sessions handlers
          Closers,      \* concurrent DELETE /terminal/sessions/:id handlers
          Nobody,       \* no user
          NoShell,      \* no shell
          MaxSessions   \* MaxHubSessionsPerUser

ASSUME NamesAssumption == Nobody \notin Users /\ NoShell \notin Shells
ASSUME SizesAssumption ==
    /\ MaxSessions \in Nat \ {0}
    /\ IsFiniteSet(Shells)
    /\ IsFiniteSet(Creators)

VARIABLES
    sessions,   \* the ids in Hub.sessions
    owner,      \* HubSession.userID
    pty,        \* unborn, running, closed (Close called or the process is gone)
    pump,       \* off, reading, exited (channel closed), removed, audited
    creator,    \* per create handler: its step, its user and its shell
    closer,     \* per close handler: its step, its user and its shell
    reaper,     \* the step of Reap: idle, users, closing, waiting
    suspects,   \* the users Reap has still to check
    doomed,     \* the shells CloseUser has still to close
    victim,     \* the shell Hub.Close of the reaper is at
    allowed     \* the users the database allows a terminal

shellVars == <<sessions, owner, pty, pump>>
reapVars == <<reaper, suspects, doomed, victim>>
vars == <<shellVars, creator, closer, reapVars, allowed>>

Init ==
    /\ sessions = {}
    /\ owner = [s \in Shells |-> Nobody]
    /\ pty = [s \in Shells |-> "unborn"]
    /\ pump = [s \in Shells |-> "off"]
    /\ creator = [p \in Creators |-> [at |-> "idle", user |-> Nobody, shell |-> NoShell]]
    /\ closer = [q \in Closers |-> [at |-> "idle", user |-> Nobody, shell |-> NoShell]]
    /\ reaper = "idle"
    /\ suspects = {}
    /\ doomed = {}
    /\ victim = NoShell
    /\ allowed \in SUBSET Users

\* Hub.List: the listed shells of a user.
Listed(u) == {s \in sessions : owner[s] = u}

\* The create handlers that passed the limit check and have not inserted yet.
Starting(u) == {p \in Creators : creator[p].at \in {"counted", "started"}
                                 /\ creator[p].user = u}

Exited(s) == pump[s] \in {"exited", "removed", "audited"}

\* The handler is finished and free for the next request.
Answer(handler, h) ==
    [handler EXCEPT ![h] = [at |-> "idle", user |-> Nobody, shell |-> NoShell]]

-----------------------------------------------------------------------------
(* Hub.Create.                                                             *)

\* Mutant: the limit is compared with > instead of >=.
CountOffByOne(p, u) ==
    /\ creator[p].at = "idle"
    /\ u \in allowed
    /\ Cardinality(Listed(u)) <= MaxSessions
    /\ creator' = [creator EXCEPT ![p] = [at |-> "counted", user |-> u, shell |-> NoShell]]
    /\ UNCHANGED <<shellVars, closer, reapVars, allowed>>

\* An authorised request counts the user's shells and finds room; the lock is
\* released.  A user at the limit is refused, which changes nothing.
Count(p, u) ==
    /\ creator[p].at = "idle"
    /\ u \in allowed
    /\ Cardinality(Listed(u)) < MaxSessions
    /\ creator' = [creator EXCEPT ![p] = [at |-> "counted", user |-> u, shell |-> NoShell]]
    /\ UNCHANGED <<shellVars, closer, reapVars, allowed>>

\* Mutant: the started shell is not kept in the handler's item.
StartUnkept(p, s) ==
    /\ creator[p].at = "counted"
    /\ pty[s] = "unborn"
    /\ pty' = [pty EXCEPT ![s] = "running"]
    /\ owner' = [owner EXCEPT ![s] = creator[p].user]
    /\ creator' = [creator EXCEPT ![p].at = "started"]
    /\ UNCHANGED <<sessions, pump, closer, reapVars, allowed>>

\* The controller starts a shell.
Start(p, s) ==
    /\ creator[p].at = "counted"
    /\ pty[s] = "unborn"
    /\ pty' = [pty EXCEPT ![s] = "running"]
    /\ owner' = [owner EXCEPT ![s] = creator[p].user]
    /\ creator' = [creator EXCEPT ![p].at = "started", ![p].shell = s]
    /\ UNCHANGED <<sessions, pump, closer, reapVars, allowed>>

\* The controller fails to start a shell.
StartFails(p) ==
    /\ creator[p].at = "counted"
    /\ creator' = Answer(creator, p)
    /\ UNCHANGED <<shellVars, closer, reapVars, allowed>>

\* Mutant: when no id can be drawn the new shell is abandoned, not closed.
AbandonStarted(p) ==
    /\ creator[p].at = "started"
    /\ creator' = Answer(creator, p)
    /\ UNCHANGED <<shellVars, closer, reapVars, allowed>>

\* No random id can be drawn: the new shell is closed and never listed.
NoId(p) ==
    /\ creator[p].at = "started"
    /\ pty' = [pty EXCEPT ![creator[p].shell] = "closed"]
    /\ creator' = Answer(creator, p)
    /\ UNCHANGED <<sessions, owner, pump, closer, reapVars, allowed>>

\* The shell is inserted and its pump started.
Insert(p) ==
    /\ creator[p].at = "started"
    /\ sessions' = sessions \cup {creator[p].shell}
    /\ pump' = [pump EXCEPT ![creator[p].shell] = "reading"]
    /\ creator' = Answer(creator, p)
    /\ UNCHANGED <<owner, pty, closer, reapVars, allowed>>

-----------------------------------------------------------------------------
(* The shell and its pump.                                                 *)

\* The shell process ends by itself.
ProcessEnds(s) ==
    /\ pty[s] = "running"
    /\ pty' = [pty EXCEPT ![s] = "closed"]
    /\ UNCHANGED <<sessions, owner, pump, creator, closer, reapVars, allowed>>

\* The pump's Read fails; it reaps the process and closes `exited`.
PumpExits(s) ==
    /\ pump[s] = "reading"
    /\ pty[s] = "closed"
    /\ pump' = [pump EXCEPT ![s] = "exited"]
    /\ UNCHANGED <<sessions, owner, pty, creator, closer, reapVars, allowed>>

\* Mutant: the pump's callback forgets to delete the session.
RemoveNothing(s) ==
    /\ pump[s] = "exited"
    /\ pump' = [pump EXCEPT ![s] = "removed"]
    /\ UNCHANGED <<sessions, owner, pty, creator, closer, reapVars, allowed>>

\* onExit deletes the session from the hub...
Remove(s) ==
    /\ pump[s] = "exited"
    /\ pump' = [pump EXCEPT ![s] = "removed"]
    /\ sessions' = sessions \ {s}
    /\ UNCHANGED <<owner, pty, creator, closer, reapVars, allowed>>

\* ... and then audits the end of the session (Hub.OnExit).
AuditEnd(s) ==
    /\ pump[s] = "removed"
    /\ pump' = [pump EXCEPT ![s] = "audited"]
    /\ UNCHANGED <<sessions, owner, pty, creator, closer, reapVars, allowed>>

-----------------------------------------------------------------------------
(* Hub.Close, called by a handler.                                         *)

\* Hub.Get: the session exists and belongs to the user.
Get(u, s) == s \in sessions /\ owner[s] = u

\* Hub.Get succeeds; when it fails the handler answers 404, which changes nothing.
FindToClose(q, u, s) ==
    /\ closer[q].at = "idle"
    /\ u \in allowed
    /\ Get(u, s)
    /\ closer' = [closer EXCEPT ![q] = [at |-> "found", user |-> u, shell |-> s]]
    /\ UNCHANGED <<shellVars, creator, reapVars, allowed>>

\* The pty is closed and the process killed; closing again does nothing.
ClosePty(q) ==
    /\ closer[q].at = "found"
    /\ pty' = [pty EXCEPT ![closer[q].shell] = "closed"]
    /\ closer' = [closer EXCEPT ![q].at = "waiting"]
    /\ UNCHANGED <<sessions, owner, pump, creator, reapVars, allowed>>

\* The receive on `exited` returns and the handler answers.
Closed(q) ==
    /\ closer[q].at = "waiting"
    /\ Exited(closer[q].shell)
    /\ closer' = Answer(closer, q)
    /\ UNCHANGED <<shellVars, creator, reapVars, allowed>>

-----------------------------------------------------------------------------
(* Hub.Reap and Hub.CloseUser.                                             *)

\* The ticker fires: Hub.Users.
Tick ==
    /\ reaper = "idle"
    /\ reaper' = "users"
    /\ suspects' = {owner[s] : s \in sessions}
    /\ UNCHANGED <<shellVars, creator, closer, doomed, victim, allowed>>

\* terminalUserAllowed says yes: the user is allowed, or the database failed.
Spare(u) ==
    /\ reaper = "users"
    /\ u \in suspects
    /\ suspects' = suspects \ {u}
    /\ UNCHANGED <<shellVars, creator, closer, reaper, doomed, victim, allowed>>

\* terminalUserAllowed says no: CloseUser lists the user's shells.
Condemn(u) ==
    /\ reaper = "users"
    /\ u \in suspects \ allowed
    /\ suspects' = suspects \ {u}
    /\ doomed' = Listed(u)
    /\ reaper' = "closing"
    /\ UNCHANGED <<shellVars, creator, closer, victim, allowed>>

\* Hub.Close of one listed shell: closed if it is still in the hub.
ReapClose(s) ==
    /\ reaper = "closing"
    /\ s \in doomed
    /\ doomed' = doomed \ {s}
    /\ \/ /\ s \in sessions
          /\ pty' = [pty EXCEPT ![s] = "closed"]
          /\ victim' = s
          /\ reaper' = "waiting"
       \/ /\ s \notin sessions
          /\ UNCHANGED <<pty, victim, reaper>>
    /\ UNCHANGED <<sessions, owner, pump, creator, closer, suspects, allowed>>

\* Mutant: Close waits for the end of the callback, which may be long past.
ReapClosedLate ==
    /\ reaper = "waiting"
    /\ pump[victim] = "removed"
    /\ victim' = NoShell
    /\ reaper' = "closing"
    /\ UNCHANGED <<shellVars, creator, closer, suspects, doomed, allowed>>

\* The receive on `exited` returns to CloseUser.
ReapClosed ==
    /\ reaper = "waiting"
    /\ Exited(victim)
    /\ victim' = NoShell
    /\ reaper' = "closing"
    /\ UNCHANGED <<shellVars, creator, closer, suspects, doomed, allowed>>

\* CloseUser returns, and Reap once every user was checked.
ReapReturn ==
    /\ \/ reaper = "closing" /\ doomed = {} /\ reaper' = "users"
       \/ reaper = "users" /\ suspects = {} /\ reaper' = "idle"
    /\ UNCHANGED <<shellVars, creator, closer, suspects, doomed, victim, allowed>>

\* An administrator disables, demotes, deletes or readmits a user.
Decide(u) ==
    /\ allowed' \in {allowed \cup {u}, allowed \ {u}}
    /\ allowed' # allowed
    /\ UNCHANGED <<shellVars, creator, closer, reapVars>>

-----------------------------------------------------------------------------
Create(p) ==
    \/ \E u \in Users : Count(p, u)
    \/ \E s \in Shells : Start(p, s)
    \/ StartFails(p) \/ NoId(p) \/ Insert(p)

Pump(s) == PumpExits(s) \/ Remove(s) \/ AuditEnd(s)

Close(q) ==
    \/ \E u \in Users, s \in Shells : FindToClose(q, u, s)
    \/ ClosePty(q) \/ Closed(q)

Reap ==
    \/ Tick \/ ReapClosed \/ ReapReturn
    \/ \E u \in Users : Spare(u) \/ Condemn(u)
    \/ \E s \in Shells : ReapClose(s)

Next ==
    \/ \E p \in Creators : Create(p)
    \/ \E q \in Closers : Close(q)
    \/ \E s \in Shells : Pump(s) \/ ProcessEnds(s)
    \/ Reap
    \/ \E u \in Users : Decide(u)

Spec == Init /\ [][Next]_vars

\* Pumps, started handlers and the reaper run on; a request need never come.
\* The database does not fail on every check of a user.
Fairness ==
    /\ \A s \in Shells : WF_vars(Pump(s))
    /\ \A p \in Creators : WF_vars(StartFails(p) \/ Insert(p))
    /\ \A q \in Closers : WF_vars(ClosePty(q) \/ Closed(q))
    /\ WF_vars(Reap)
    /\ \A u \in Users : SF_vars(Condemn(u))

FairSpec == Spec /\ Fairness

-----------------------------------------------------------------------------
(* Properties.                                                             *)

Handlers(at, users) == [at : at, user : users, shell : Shells \cup {NoShell}]

\* Type invariant; a handler past its first step knows its user and its shell.
TypeOK ==
    /\ sessions \in SUBSET Shells
    /\ owner \in [Shells -> Users \cup {Nobody}]
    /\ pty \in [Shells -> {"unborn", "running", "closed"}]
    /\ pump \in [Shells -> {"off", "reading", "exited", "removed", "audited"}]
    /\ creator \in [Creators -> Handlers({"idle", "counted", "started"}, Users \cup {Nobody})]
    /\ closer \in [Closers -> Handlers({"idle", "found", "waiting"}, Users \cup {Nobody})]
    /\ reaper \in {"idle", "users", "closing", "waiting"}
    /\ suspects \in SUBSET Users
    /\ doomed \in SUBSET Shells
    /\ victim \in Shells \cup {NoShell}
    /\ allowed \in SUBSET Users
    /\ \A p \in Creators : /\ creator[p].at # "idle" => creator[p].user \in Users
                           /\ creator[p].at = "started" => creator[p].shell \in Shells
    /\ \A q \in Closers : closer[q].at # "idle" => closer[q].shell \in Shells
    /\ reaper = "waiting" => victim \in Shells

\* A running shell is never lost: it is listed, or a create handler still holds
\* it.  So every shell can be found, closed and reaped (Create, pump).
NoOrphan ==
    \A s \in Shells :
        pty[s] = "running" =>
            s \in sessions \/ \E p \in Creators : creator[p].at = "started"
                                                  /\ creator[p].shell = s

\* The limit that does hold: a user exceeds it by less than the number of
\* create handlers that run at once, because Create counts, unlocks, starts and
\* only then inserts (hub.go Create).
LimitWithRacers ==
    \A u \in Users :
        Cardinality(Listed(u)) + Cardinality(Starting(u))
            <= MaxSessions - 1 + Cardinality(Creators)

\* A handler closes only shells of its own user: Hub.Get compares the user, and
\* the shell found is still that user's when it is closed after the unlock.
OwnShellClosed ==
    \A q \in Closers :
        closer[q].at # "idle" => owner[closer[q].shell] = closer[q].user

\* What the above rest on: a listed or held shell was started, for the user its
\* handler acts for, and an exited one is closed.
ShellsBorn ==
    /\ \A s \in sessions : pty[s] # "unborn" /\ owner[s] \in Users
    /\ \A s \in Shells : Exited(s) => pty[s] = "closed"
    /\ \A p \in Creators : creator[p].at = "started" =>
            /\ pty[creator[p].shell] # "unborn"
            /\ owner[creator[p].shell] = creator[p].user
    /\ \A q \in Closers : closer[q].at # "idle" => pty[closer[q].shell] # "unborn"

\* The inductive invariant of the safety theorems.
IInv == TypeOK /\ ShellsBorn /\ NoOrphan /\ OwnShellClosed /\ LimitWithRacers

\* Hub.Close and Hub.CloseUser return: the wait on `exited` ends, whoever else
\* closes the shell at the same time.
CloseReturns ==
    /\ \A q \in Closers : closer[q].at = "found" ~> closer[q].at = "idle"
    /\ reaper = "waiting" ~> reaper = "idle"

\* A user who is disallowed for good ends up with no shell, in spite of create
\* requests authorised before and of failing database checks (Reap).
DisallowedLoseShells ==
    \A u \in Users : <>[](u \notin allowed) => <>[](Listed(u) = {})

\* "MaxHubSessionsPerUser bounds how many persistent shells one panel user may
\* keep open" (hub.go:14).
SessionLimit == \A u \in Users : Cardinality(Listed(u)) <= MaxSessions
=============================================================================
