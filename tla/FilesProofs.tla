------------------------------ MODULE FilesProofs ------------------------------
(***************************************************************************)
(* Machine-checked proofs about Files, for every set of helpers, paths and *)
(* contents and every bound: every file is whole, and what was answered as *)
(* made is durable.  Both rest on what the files hold being synced before  *)
(* the rename (Synced), on the stamps growing (Ordered), and on a change   *)
(* being in the tree until it is committed (Pending).  A token update that *)
(* has not replaced its file keeps the lines it read (LinesKept).          *)
(***************************************************************************)
EXTENDS Files, TLAPS

-----------------------------------------------------------------------------
(* The inductive invariant.                                                *)

\* What a request is, whatever the directories hold.
Replaces(h) == req[h].op \in {"write", "token"}

RequestOK(h) ==
    /\ req[h].pc \in {"temp", "fill", "sync", "rename"} => Replaces(h)
    /\ req[h].pc = "rename" => req[h].safe
    /\ req[h].pc = "chown" => req[h].op = "mkdir"
    /\ req[h].stamp # 0 => req[h].pc \in {"chown", "syncdir", "done"}
    /\ req[h].op = "token" => req[h].path = Secrets
    /\ req[h].pc \in {"chown", "syncdir"} => req[h].stamp # 0
    /\ req[h].answer = "ok" => req[h].pc = "done" /\ req[h].stamp # 0
    /\ req[h].stamp <= clock /\ req[h].seen <= clock

RequestsOK == \A h \in Helpers : RequestOK(h)

\* Request h wrote content c to path p.
Wrote(h, p, c) ==
    req[h].path = p /\ Replaces(h) /\ req[h].content = c /\ req[h].stamp # 0

\* Every entry is safe, and every file holds what was written to it.
Synced(t) ==
    \A p \in Paths :
        /\ t[p].safe
        /\ t[p].stamp <= clock
        /\ t[p].kind = "file" =>
              t[p].content = Start \/ \E h \in Helpers : Wrote(h, p, t[p].content)

\* The lines that a token update writes back are those of the file it read.
LinesKept ==
    \A h \in Helpers : Replacing(h) /\ req[h].seen = tree[Secrets].stamp
        => req[h].content.text = tree[Secrets].content.text

\* The journal is behind the tree, or it has the same entry.
Ordered ==
    \A p \in Paths :
        disk[p].stamp < tree[p].stamp \/ disk[p] = tree[p]

\* The change of h, or a later one of the same path, is in t.
Holds(h, t) ==
    LET e == t[req[h].path]
    IN  e.stamp > req[h].stamp \/ (e.stamp = req[h].stamp /\ Done(h, e))

Pending ==
    \A h \in Helpers : req[h].pc \in {"chown", "syncdir"} => Holds(h, tree)

IInv ==
    /\ TypeOK
    /\ RequestsOK
    /\ Synced(tree)
    /\ Synced(disk)
    /\ Ordered
    /\ Pending
    /\ LinesKept
    /\ AnsweredIsDurable

-----------------------------------------------------------------------------
(* What a step does to the requests and to the directories.                *)

Changed == {"chown", "syncdir"}

\* A request that has changed an entry keeps what it asked for.
KeepsAsk ==
    \A h \in Helpers : req[h].stamp # 0 =>
        /\ req'[h].path = req[h].path
        /\ req'[h].op = req[h].op
        /\ req'[h].content = req[h].content
        /\ req'[h].stamp = req[h].stamp

\* A token update goes on with what it read, or has just read it.
KeepsLines ==
    \A h \in Helpers : Replacing(h)' =>
        \/ Replacing(h) /\ req'[h].content = req[h].content /\ req'[h].seen = req[h].seen
        \/ tree' = tree /\ req'[h].content.text = tree[Secrets].content.text

\* Nobody's change becomes due, and nobody is answered ok but for a change in the tree.
NothingDue ==
    \A h \in Helpers :
        /\ req'[h].pc \in Changed => req[h].pc \in Changed
        /\ req'[h].answer = "ok" => req[h].answer = "ok" \/ req[h].pc \in Changed

NothingAnswered ==
    \A h \in Helpers : req'[h].answer = "ok" => req[h].answer = "ok"

Quietly == UNCHANGED <<tree, disk, clock>> /\ NothingDue /\ NothingAnswered

Commits == UNCHANGED <<tree, clock>> /\ disk' = tree /\ NothingDue

\* Request h makes e the entry of its path.
Changes(h, e) ==
    /\ tree' = [tree EXCEPT ![req[h].path] = e]
    /\ disk' = disk
    /\ clock' = clock + 1
    /\ e \in Entry /\ e.safe /\ e.stamp = clock + 1
    /\ e.kind = "file" => /\ Replaces(h) /\ e.content = req[h].content
                          /\ req'[h].stamp = clock + 1
    /\ req[h].pc # "new"
    /\ req'[h].path = req[h].path /\ req'[h].op = req[h].op
    /\ req'[h].content = req[h].content
    /\ req'[h].pc \in Changed => req'[h].stamp = clock + 1 /\ Done(h, e)
    /\ \A g \in Helpers \ {h} : req'[g] = req[g]
    /\ NothingAnswered

Loses ==
    /\ tree' = [p \in Paths |-> Survivor(disk[p])]
    /\ disk' = tree'
    /\ clock' = clock
    /\ \A h \in Helpers : req'[h].pc \notin Changed /\ ~Replacing(h)'
    /\ NothingAnswered

Effect ==
    \/ Quietly
    \/ Commits
    \/ \E h \in Helpers, e \in Entry : Changes(h, e)
    \/ Loses

\* What an action owes to the invariant.
Good == TypeOK' /\ RequestsOK' /\ KeepsAsk /\ KeepsLines /\ Effect

-----------------------------------------------------------------------------
(* The types, once and for all.                                            *)

LEMMA EntryFields ==
    ASSUME NEW e \in Entry
    PROVE  /\ e.kind \in {"absent", "dir", "file"}
           /\ e.safe \in BOOLEAN
           /\ e.stamp \in Nat
BY DEF Entry

LEMMA RequestFields ==
    ASSUME TypeOK, NEW h \in Helpers
    PROVE  /\ req[h].pc \in Steps /\ req[h].op \in Ops /\ req[h].path \in Paths
           /\ req[h].content \in Contents /\ req[h].safe \in BOOLEAN
           /\ req[h].stamp \in Nat /\ req[h].seen \in Nat
           /\ req[h].answer \in {"none", "ok", "failed"}
BY DEF TypeOK

LEMMA TypedInit == Init => TypeOK
BY PathsAssumption, ContentsAssumption, BoundsAssumption
   DEF Init, TypeOK, Entry, File, Absent, NoContent, Steps, Ops

LEMMA InitIInv == Init => IInv
<1> SUFFICES ASSUME Init PROVE IInv
  OBVIOUS
<1>1. TypeOK
  BY TypedInit
<1>2. RequestsOK
  <2> SUFFICES ASSUME NEW h \in Helpers PROVE RequestOK(h)
    BY DEF RequestsOK
  <2>1. /\ req[h].pc = "new" /\ req[h].op = "write" /\ req[h].stamp = 0
        /\ req[h].seen = 0 /\ req[h].answer = "none" /\ clock = 0
    BY DEF Init
  <2> QED
    BY <2>1 DEF RequestOK, Replaces
<1>3. Synced(tree) /\ Synced(disk) /\ Ordered
  BY PathsAssumption, ContentsAssumption
     DEF Init, Synced, Ordered, File, Absent, Contents
<1>4. Pending /\ LinesKept /\ AnsweredIsDurable
  BY DEF Init, Pending, LinesKept, Replacing, AnsweredIsDurable
<1> QED
  BY <1>1, <1>2, <1>3, <1>4 DEF IInv

-----------------------------------------------------------------------------
(* Every effect keeps the invariant.                                       *)

LEMMA StampsAreNat ==
    ASSUME TypeOK
    PROVE  \A p \in Paths : tree[p].stamp \in Nat /\ disk[p].stamp \in Nat
BY DEF TypeOK, Entry

\* The author of a file stays its author.
LEMMA AuthorsStay ==
    ASSUME KeepsAsk, NEW p, NEW c, \E h \in Helpers : Wrote(h, p, c)
    PROVE  \E h \in Helpers : Wrote(h, p, c)'
BY DEF KeepsAsk, Wrote, Replaces

\* What holds of a request goes on to hold of a directory that is kept or copied.
LEMMA HoldsStays ==
    ASSUME KeepsAsk, NEW h \in Helpers, req[h].stamp # 0
    PROVE  /\ tree' = tree /\ Holds(h, tree) => Holds(h, tree)'
           /\ disk' = disk /\ Holds(h, disk) => Holds(h, disk)'
           /\ disk' = tree /\ Holds(h, tree) => Holds(h, disk)'
<1>1. /\ req'[h].path = req[h].path /\ req'[h].op = req[h].op
      /\ req'[h].content = req[h].content /\ req'[h].stamp = req[h].stamp
  BY DEF KeepsAsk
<1> QED
  BY <1>1 DEF Holds, Done

\* What the invariant says of a request that changed an entry.
LEMMA Facts ==
    ASSUME IInv, NEW h \in Helpers
    PROVE  /\ req[h].pc \in Changed => req[h].stamp # 0 /\ Holds(h, tree)
           /\ req[h].answer = "ok" => /\ req[h].stamp # 0
                                      /\ Holds(h, disk) /\ Holds(h, tree)
<1>1. req[h].pc \in Changed => req[h].stamp # 0 /\ Holds(h, tree)
  BY DEF IInv, RequestsOK, RequestOK, Pending, Changed
<1>2. req[h].answer = "ok" => req[h].stamp # 0 /\ Holds(h, disk)
  BY DEF IInv, RequestsOK, RequestOK, AnsweredIsDurable, Holds
<1>3. /\ tree[req[h].path].stamp \in Nat /\ disk[req[h].path].stamp \in Nat
      /\ req[h].stamp \in Nat /\ req[h].path \in Paths
  BY RequestFields, StampsAreNat DEF IInv
<1>4. \/ disk[req[h].path].stamp < tree[req[h].path].stamp
      \/ disk[req[h].path] = tree[req[h].path]
  BY <1>3 DEF IInv, Ordered
<1> QED
  BY <1>1, <1>2, <1>3, <1>4 DEF Holds

LEMMA AnsweredByHolds ==
    (\A h \in Helpers : req'[h].answer = "ok" => Holds(h, disk)') => AnsweredIsDurable'
BY DEF AnsweredIsDurable, Holds

LEMMA PendingByHolds ==
    (\A h \in Helpers : req'[h].pc \in Changed => Holds(h, tree)') => Pending'
BY DEF Pending, Changed

LEMMA LinesStay ==
    ASSUME IInv, KeepsLines, tree' = tree
    PROVE  LinesKept'
BY DEF IInv, LinesKept, KeepsLines

LEMMA QuietKeeps ==
    ASSUME IInv, Good, Quietly
    PROVE  IInv'
<1>1. Synced(tree)' /\ Synced(disk)'
  <2>1. \A p, c : (\E h \in Helpers : Wrote(h, p, c)) => \E h \in Helpers : Wrote(h, p, c)'
    BY AuthorsStay DEF Good
  <2> QED
    BY <2>1 DEF IInv, Synced, Quietly
<1>2. Ordered'
  <2>1. Ordered /\ tree' = tree /\ disk' = disk
    BY DEF IInv, Quietly
  <2> QED
    BY <2>1 DEF Ordered
<1>3. Pending'
  BY Facts, HoldsStays, PendingByHolds DEF Quietly, NothingDue, Good
<1>4. AnsweredIsDurable'
  BY Facts, HoldsStays, AnsweredByHolds DEF Quietly, NothingAnswered, Good
<1>5. LinesKept'
  BY LinesStay DEF Quietly, Good
<1> QED
  BY <1>1, <1>2, <1>3, <1>4, <1>5 DEF IInv, Good

LEMMA CommitKeeps ==
    ASSUME IInv, Good, Commits
    PROVE  IInv'
<1>1. Synced(tree)' /\ Synced(disk)'
  <2>1. \A p, c : (\E h \in Helpers : Wrote(h, p, c)) => \E h \in Helpers : Wrote(h, p, c)'
    BY AuthorsStay DEF Good
  <2> QED
    BY <2>1 DEF IInv, Synced, Commits
<1>2. Ordered'
  <2>1. tree' = disk'
    BY DEF Commits
  <2> QED
    BY <2>1 DEF Ordered
<1>3. Pending'
  BY Facts, HoldsStays, PendingByHolds DEF Commits, NothingDue, Good
<1>4. AnsweredIsDurable'
  BY Facts, HoldsStays, AnsweredByHolds DEF Commits, NothingDue, Good
<1>5. LinesKept'
  BY LinesStay DEF Commits, Good
<1> QED
  BY <1>1, <1>2, <1>3, <1>4, <1>5 DEF IInv, Good

LEMMA LossKeeps ==
    ASSUME IInv, Good, Loses
    PROVE  IInv'
<1>1. \A p \in Paths : Survivor(disk[p]) = disk[p]
  BY DEF IInv, Synced, Survivor
<1>2. tree' = disk /\ disk' = disk
  BY <1>1 DEF Loses, IInv, TypeOK
<1>3. Synced(tree)' /\ Synced(disk)'
  <2>1. \A p, c : (\E h \in Helpers : Wrote(h, p, c)) => \E h \in Helpers : Wrote(h, p, c)'
    BY AuthorsStay DEF Good
  <2> QED
    BY <2>1, <1>2 DEF IInv, Synced, Loses
<1>4. Ordered'
  BY <1>2 DEF Ordered
<1>5. Pending'
  BY PendingByHolds DEF Loses
<1>6. AnsweredIsDurable'
  BY <1>2, Facts, HoldsStays, AnsweredByHolds DEF Loses, NothingAnswered, Good
<1>7. LinesKept'
  BY DEF LinesKept, Loses
<1> QED
  BY <1>3, <1>4, <1>5, <1>6, <1>7 DEF IInv, Good

LEMMA ChangeKeeps ==
    ASSUME IInv, Good, NEW h \in Helpers, NEW e \in Entry, Changes(h, e)
    PROVE  IInv'
<1> DEFINE p == req[h].path
<1>1. /\ clock \in Nat /\ p \in Paths /\ req[h].content \in Contents
      /\ tree \in [Paths -> Entry]
      /\ \A g \in Helpers : req[g].stamp \in Nat /\ req[g].stamp <= clock
                           /\ req[g].path \in Paths
  BY RequestFields DEF IInv, TypeOK, RequestsOK, RequestOK
<1>2. tree'[p] = e /\ \A q \in Paths \ {p} : tree'[q] = tree[q]
  BY <1>1 DEF Changes
<1>3. \A q, c : (\E g \in Helpers : Wrote(g, q, c)) => \E g \in Helpers : Wrote(g, q, c)'
  BY AuthorsStay DEF Good
<1>4. \A q \in Paths : tree[q].stamp \in Nat /\ disk[q].stamp \in Nat
  BY StampsAreNat DEF IInv
<1>5. Synced(disk)'
  BY <1>1, <1>3, <1>4 DEF IInv, Synced, Changes
<1>6. Synced(tree)'
  <2>1. ASSUME NEW q \in Paths \ {p}
        PROVE  /\ tree'[q].safe
               /\ tree'[q].stamp <= clock'
               /\ tree'[q].kind = "file" =>
                     tree'[q].content = Start
                     \/ \E g \in Helpers : Wrote(g, q, tree[q].content)'
    BY <1>1, <1>2, <1>3, <1>4 DEF IInv, Synced, Changes
  <2>2. e.kind = "file" => \E g \in Helpers : Wrote(g, p, e.content)'
    BY <1>1 DEF Changes, Wrote, Replaces
  <2> QED
    BY <1>1, <1>2, <2>1, <2>2 DEF Synced, Changes, IInv
<1>7. Ordered'
  <2> SUFFICES ASSUME NEW q \in Paths
               PROVE  disk'[q].stamp < tree'[q].stamp \/ disk'[q] = tree'[q]
    BY DEF Ordered
  <2>1. CASE q = p
    <3>1. disk[q].stamp <= clock
      BY DEF IInv, Synced
    <3> QED
      BY <1>1, <1>2, <1>4, <2>1, <3>1 DEF Changes
  <2>2. CASE q # p
    BY <1>2, <2>2 DEF Changes, IInv, Ordered
  <2> QED
    BY <2>1, <2>2
<1>8. Pending'
  <2> SUFFICES ASSUME NEW g \in Helpers, req'[g].pc \in Changed
               PROVE  Holds(g, tree)'
    BY PendingByHolds
  <2>1. CASE g = h
    BY <1>1, <1>2, <2>1 DEF Changes, Holds, Done
  <2>2. CASE g # h
    <3>1. req'[g] = req[g] /\ Holds(g, tree)
      BY <2>2, Facts DEF Changes
    <3>2. CASE req[g].path = p
      BY <1>1, <1>2, <3>1, <3>2 DEF Changes, Holds
    <3>3. CASE req[g].path # p
      BY <1>1, <1>2, <3>1, <3>3 DEF Holds, Done
    <3> QED
      BY <3>2, <3>3
  <2> QED
    BY <2>1, <2>2
<1>9. AnsweredIsDurable'
  BY Facts, HoldsStays, AnsweredByHolds DEF Changes, NothingAnswered, Good
<1>10. LinesKept'
  <2> SUFFICES ASSUME NEW g \in Helpers, Replacing(g)',
                      req'[g].seen = tree'[Secrets].stamp
               PROVE  req'[g].content.text = tree'[Secrets].content.text
    BY DEF LinesKept
  <2>1. CASE /\ tree' = tree
             /\ req'[g].content.text = tree[Secrets].content.text
    BY <2>1
  <2>2. CASE /\ Replacing(g)
             /\ req'[g].content = req[g].content /\ req'[g].seen = req[g].seen
    <3>1. Secrets # p
      <4>1. req[g].seen <= clock /\ req[g].seen \in Nat
        BY RequestFields DEF IInv, RequestsOK, RequestOK
      <4> QED
        BY <1>1, <1>2, <2>2, <4>1 DEF Changes
    <3> QED
      BY <1>2, <2>2, <3>1, PathsAssumption DEF IInv, LinesKept
  <2> QED
    BY <2>1, <2>2 DEF Good, KeepsLines
<1> QED
  BY <1>5, <1>6, <1>7, <1>8, <1>9, <1>10 DEF IInv, Good

LEMMA EffectKeeps == ASSUME IInv, Good PROVE IInv'
BY QuietKeeps, CommitKeeps, LossKeeps, ChangeKeeps DEF Good, Effect

-----------------------------------------------------------------------------
(* Every action is good.                                                    *)

LEMMA FaultTyped ==
    ASSUME TypeOK, Fault
    PROVE  faults' \in 0..MaxFaults
BY BoundsAssumption DEF TypeOK, Fault

\* The type of the requests.
Asks == [Helpers -> [pc : Steps, op : Ops, path : Paths, content : Contents,
                     safe : BOOLEAN, stamp : Nat, seen : Nat,
                     answer : {"none", "ok", "failed"}]]

LEMMA ReturnTyped ==
    ASSUME TypeOK, NEW h \in Helpers, NEW a \in {"ok", "failed"}, Return(h, a)
    PROVE  req' \in Asks
<1> DEFINE b == IF req[h].answer = "none" THEN a ELSE req[h].answer
<1>1. b \in {"none", "ok", "failed"}
  BY DEF TypeOK
<1>2. req' = [req EXCEPT ![h].pc = "done", ![h].answer = b]
  BY DEF TypeOK, Return
<1> HIDE DEF b
<1>3. "done" \in Steps
  BY DEF Steps
<1>4. [req[h] EXCEPT !.pc = "done", !.answer = b]
         \in [pc : Steps, op : Ops, path : Paths, content : Contents,
              safe : BOOLEAN, stamp : Nat, seen : Nat, answer : {"none", "ok", "failed"}]
  BY <1>1, <1>3 DEF TypeOK
<1>5. req' = [req EXCEPT ![h] = [req[h] EXCEPT !.pc = "done", !.answer = b]]
  BY <1>2 DEF TypeOK
<1> QED
  BY <1>4, <1>5 DEF TypeOK, Asks

LEMMA GoTyped ==
    ASSUME TypeOK, NEW h \in Helpers, NEW pc \in Steps, Go(h, pc)
    PROVE  req' \in Asks
BY DEF TypeOK, Go, Asks

\* A request that fails asks for nothing more.
LEMMA FailedGood ==
    ASSUME IInv, NEW h \in Helpers, req[h].pc # "new",
           Return(h, "failed"), UNCHANGED clock
    PROVE  RequestsOK'
<1>1. /\ req'[h].pc = "done" /\ req'[h].op = req[h].op /\ req'[h].path = req[h].path
      /\ req'[h].content = req[h].content /\ req'[h].safe = req[h].safe
      /\ req'[h].stamp = req[h].stamp /\ req'[h].seen = req[h].seen
      /\ req'[h].answer = "ok" => req[h].answer = "ok"
      /\ \A g \in Helpers \ {h} : req'[g] = req[g]
  BY DEF IInv, TypeOK, Return
<1>2. RequestOK(h)'
  BY <1>1 DEF IInv, RequestsOK, RequestOK, Replaces
<1> QED
  BY <1>1, <1>2 DEF IInv, RequestsOK, RequestOK, Replaces

\* A request that ends replaces nothing.
LEMMA EndKeepsLines ==
    ASSUME IInv, NEW h \in Helpers, NEW a, Return(h, a)
    PROVE  KeepsLines
BY DEF IInv, TypeOK, Return, KeepsLines, Replacing

LEMMA FailedReturnGood ==
    ASSUME IInv, NEW h \in Helpers, req[h].pc # "new", Return(h, "failed"),
           UNCHANGED <<tree, temps, clock, journal, bounds>>
    PROVE  Good
<1>1. TypeOK'
  BY ReturnTyped DEF IInv, TypeOK, Asks, journal, bounds
<1>2. RequestsOK'
  BY FailedGood
<1>3. KeepsAsk /\ Quietly
  BY DEF KeepsAsk, Quietly, NothingDue, NothingAnswered, Changed, IInv, TypeOK,
         Return, journal
<1> QED
  BY <1>1, <1>2, <1>3, EndKeepsLines DEF Good, Effect

LEMMA TimedOutGood ==
    ASSUME IInv, NEW h \in Helpers, TimedOut(h)
    PROVE  Good
<1>1. TypeOK'
  BY FaultTyped, ReturnTyped, GoTyped
     DEF IInv, TypeOK, Asks, Steps, Contents, TimedOut, journal
<1>2. RequestsOK'
  BY RequestFields
     DEF IInv, RequestsOK, RequestOK, Replaces, Contents, TypeOK, TimedOut, Fault,
         journal
<1>3. KeepsAsk
  BY DEF KeepsAsk, IInv, RequestsOK, RequestOK, TypeOK, TimedOut, Fault, journal
<1>4. Quietly
  BY DEF Quietly, NothingDue, NothingAnswered, Changed, IInv, TypeOK, RequestsOK,
         RequestOK, TimedOut, Fault, journal
<1>5. KeepsLines
  BY DEF KeepsLines, Replacing, IInv, RequestsOK, RequestOK, Replaces, TypeOK, TimedOut,
         Fault, journal
<1> QED
  BY <1>1, <1>2, <1>3, <1>4, <1>5 DEF Good, Effect

LEMMA CheckWriteGood ==
    ASSUME IInv, NEW h \in Helpers, CheckWrite(h)
    PROVE  Good
<1>1. TypeOK'
  BY ReturnTyped, GoTyped DEF IInv, TypeOK, Asks, Steps, CheckWrite, journal, bounds
<1>2. RequestsOK'
  <2>1. CASE Return(h, "failed")
    BY <2>1, FailedGood DEF CheckWrite
  <2>2. CASE ~Return(h, "failed")
    <3>1. RequestOK(h) /\ \A g \in Helpers \ {h} : RequestOK(g)
      BY DEF IInv, RequestsOK
    <3>2. /\ \E pc \in {"temp"} : req' = [req EXCEPT ![h].pc = pc]
          /\ clock' = clock
      BY <2>2 DEF CheckWrite, Go
    <3>3. RequestOK(h)'
      BY <2>2, <3>1, <3>2 DEF RequestOK, Replaces, IInv, TypeOK, CheckWrite
    <3>4. \A g \in Helpers \ {h} : RequestOK(g)'
      BY <3>1, <3>2 DEF RequestOK, Replaces, IInv, TypeOK
    <3> QED
      BY <3>3, <3>4 DEF RequestsOK
  <2> QED
    BY <2>1, <2>2
<1>3. KeepsAsk
  BY DEF KeepsAsk, IInv, RequestsOK, RequestOK, TypeOK, CheckWrite, Go, Return
<1>4. Quietly
  BY DEF Quietly, NothingDue, NothingAnswered, Changed, IInv, TypeOK, RequestsOK,
         RequestOK,
         CheckWrite, Go, Return, journal, bounds
<1>5. KeepsLines
  BY DEF KeepsLines, Replacing, IInv, RequestsOK, RequestOK, Replaces, TypeOK,
         CheckWrite, Go, Return
<1> QED
  BY <1>1, <1>2, <1>3, <1>4, <1>5 DEF Good, Effect

\* What a file holds is a content, and a replacement of its token is one.
LEMMA FileContents ==
    ASSUME IInv, NEW p \in Paths, tree[p].kind = "file"
    PROVE  tree[p].content \in Contents
BY ContentsAssumption, RequestFields DEF IInv, Synced, Wrote

LEMMA ReplacedTyped ==
    ASSUME NEW c \in Contents, NEW t \in Tokens
    PROVE  Replaced(c, t) \in Contents /\ Replaced(c, t).text = c.text
BY DEF Replaced, Contents

LEMMA CheckTokenGood ==
    ASSUME IInv, NEW h \in Helpers, CheckToken(h)
    PROVE  Good
<1>1. CASE Return(h, "failed")
  BY <1>1, FailedReturnGood DEF CheckToken
<1>2. CASE ~Return(h, "failed")
  <2> DEFINE e == tree[Secrets]
             c == Replaced(e.content, req[h].content.token)
             r == [req[h] EXCEPT !.pc = "temp", !.seen = e.stamp, !.content = c]
  <2>1. /\ req[h].op = "token" /\ req[h].path = Secrets /\ req[h].stamp = 0
        /\ req[h].answer # "ok" /\ Secrets \in Paths /\ req[h].pc = "check"
    BY RequestFields DEF IInv, RequestsOK, RequestOK, CheckToken
  <2>2. /\ e.kind = "file" /\ e.stamp \in Nat /\ e.stamp <= clock
        /\ req' = [req EXCEPT ![h].pc = "temp", ![h].seen = e.stamp,
                              ![h].content = Replaced(e.content, @.token)]
        /\ UNCHANGED <<tree, temps, journal, clock, bounds>>
    BY <1>2, <2>1, StampsAreNat DEF CheckToken, IInv, Synced
  <2>3. c \in Contents /\ c.text = e.content.text
    BY <2>1, <2>2, FileContents, ReplacedTyped, RequestFields DEF IInv, Contents
  <2>4. r \in [pc : Steps, op : Ops, path : Paths, content : Contents, safe : BOOLEAN,
               stamp : Nat, seen : Nat, answer : {"none", "ok", "failed"}]
    <3> HIDE DEF c
    <3> QED
      BY <2>2, <2>3 DEF IInv, TypeOK, Steps
  <2>5. req' = [req EXCEPT ![h] = r]
    BY <2>2 DEF IInv, TypeOK
  <2>6. /\ req'[h] = r /\ r.pc = "temp" /\ r.seen = e.stamp /\ r.content = c
        /\ r.op = req[h].op /\ r.path = req[h].path /\ r.safe = req[h].safe
        /\ r.stamp = req[h].stamp /\ r.answer = req[h].answer
        /\ \A g \in Helpers \ {h} : req'[g] = req[g]
    BY <2>5, <2>4 DEF IInv, TypeOK
  <2> HIDE DEF c, r
  <2>7. TypeOK'
    <3>1. req' \in Asks
      BY <2>4, <2>5 DEF IInv, TypeOK, Asks
    <3> QED
      BY <2>2, <3>1 DEF IInv, TypeOK, Asks, journal, bounds
  <2>8. RequestsOK'
    <3>1. RequestOK(h)'
      <4>1. clock' = clock /\ clock \in Nat
        BY <2>2 DEF IInv, TypeOK
      <4>2. /\ req'[h].op = "token" /\ req'[h].path = Secrets /\ req'[h].pc = "temp"
            /\ req'[h].stamp = 0 /\ req'[h].seen <= clock' /\ 0 <= clock'
            /\ req'[h].answer # "ok"
        BY <2>1, <2>2, <2>6, <4>1
      <4> QED
        BY <4>1, <4>2 DEF RequestOK, Replaces
    <3>2. ASSUME NEW g \in Helpers \ {h} PROVE RequestOK(g)'
      <4>1. RequestOK(g) /\ req'[g] = req[g] /\ clock' = clock
        BY <2>2, <2>6 DEF IInv, RequestsOK
      <4> QED
        BY <4>1 DEF RequestOK, Replaces
    <3> QED
      BY <3>1, <3>2 DEF RequestsOK
  <2>9. KeepsAsk
    BY <2>1, <2>6 DEF KeepsAsk
  <2>10. KeepsLines
    BY <2>2, <2>3, <2>6 DEF KeepsLines, Replacing
  <2>11. Quietly
    BY <2>1, <2>2, <2>6 DEF Quietly, NothingDue, NothingAnswered, Changed, journal
  <2> QED
    BY <2>7, <2>8, <2>9, <2>10, <2>11 DEF Good, Effect
<1> QED
  BY <1>1, <1>2

LEMMA CreateTempGood ==
    ASSUME IInv, NEW h \in Helpers, CreateTemp(h)
    PROVE  Good
<1>1. TypeOK'
  BY FaultTyped, ReturnTyped, GoTyped
     DEF IInv, TypeOK, Asks, Steps, Contents, CreateTemp, journal, bounds
<1>2. RequestsOK'
  BY RequestFields
     DEF IInv, RequestsOK, RequestOK, Replaces, Contents, TypeOK, CreateTemp, Return, Go,
         journal, bounds
<1>3. KeepsAsk
  BY DEF KeepsAsk, IInv, RequestsOK, RequestOK, TypeOK, CreateTemp, Return, Go, journal,
         bounds
<1>4. Quietly
  BY DEF Quietly, NothingDue, NothingAnswered, Changed, IInv, TypeOK, RequestsOK,
         RequestOK, CreateTemp, Return, Go, journal, bounds
<1>5. KeepsLines
  BY DEF KeepsLines, Replacing, IInv, RequestsOK, RequestOK, Replaces, TypeOK,
         CreateTemp, Return, Go, journal, bounds
<1> QED
  BY <1>1, <1>2, <1>3, <1>4, <1>5 DEF Good, Effect

LEMMA FillGood ==
    ASSUME IInv, NEW h \in Helpers, Fill(h)
    PROVE  Good
<1>1. TypeOK'
  BY FaultTyped, ReturnTyped, GoTyped
     DEF IInv, TypeOK, Asks, Steps, Contents, Fill, journal, bounds
<1>2. RequestsOK'
  BY RequestFields
     DEF IInv, RequestsOK, RequestOK, Replaces, Contents, TypeOK, Fill, Go, journal,
         bounds
<1>3. KeepsAsk
  BY DEF KeepsAsk, IInv, RequestsOK, RequestOK, TypeOK, Fill, Go, journal, bounds
<1>4. Quietly
  BY DEF Quietly, NothingDue, NothingAnswered, Changed, IInv, TypeOK, RequestsOK,
         RequestOK, Fill, Go, journal, bounds
<1>5. KeepsLines
  BY DEF KeepsLines, Replacing, IInv, RequestsOK, RequestOK, Replaces, TypeOK, Fill, Go,
         journal, bounds
<1> QED
  BY <1>1, <1>2, <1>3, <1>4, <1>5 DEF Good, Effect

LEMMA ChownGood ==
    ASSUME IInv, NEW h \in Helpers, Chown(h)
    PROVE  Good
<1>1. TypeOK'
  BY ReturnTyped, GoTyped DEF IInv, TypeOK, Asks, Steps, Chown, journal, bounds
<1>2. RequestsOK'
  <2>1. CASE Return(h, "failed")
    BY <2>1, FailedGood DEF Chown
  <2>2. CASE ~Return(h, "failed")
    <3>1. RequestOK(h) /\ \A g \in Helpers \ {h} : RequestOK(g)
      BY DEF IInv, RequestsOK
    <3>2. /\ \E pc \in {"syncdir"} : req' = [req EXCEPT ![h].pc = pc]
          /\ clock' = clock
      BY <2>2 DEF Chown, Go
    <3>3. RequestOK(h)'
      BY <2>2, <3>1, <3>2 DEF RequestOK, Replaces, IInv, TypeOK, Chown
    <3>4. \A g \in Helpers \ {h} : RequestOK(g)'
      BY <3>1, <3>2 DEF RequestOK, Replaces, IInv, TypeOK
    <3> QED
      BY <3>3, <3>4 DEF RequestsOK
  <2> QED
    BY <2>1, <2>2
<1>3. KeepsAsk
  BY DEF KeepsAsk, IInv, RequestsOK, RequestOK, TypeOK, Chown, Go, Return
<1>4. Quietly
  BY DEF Quietly, NothingDue, NothingAnswered, Changed, IInv, TypeOK, RequestsOK,
         RequestOK,
         Chown, Go, Return, journal, bounds
<1>5. KeepsLines
  BY DEF KeepsLines, Replacing, IInv, RequestsOK, RequestOK, Replaces, TypeOK, Chown, Go,
         Return
<1> QED
  BY <1>1, <1>2, <1>3, <1>4, <1>5 DEF Good, Effect

LEMMA FailsGood ==
    ASSUME IInv, NEW h \in Helpers, Fails(h)
    PROVE  Good
<1>1. TypeOK'
  BY FaultTyped, ReturnTyped, GoTyped
     DEF IInv, TypeOK, Asks, Steps, Contents, Fails, journal
<1>2. RequestsOK'
  BY RequestFields
     DEF IInv, RequestsOK, RequestOK, Replaces, Contents, TypeOK, Fails, Return, Fault,
         journal
<1>3. KeepsAsk
  BY DEF KeepsAsk, IInv, RequestsOK, RequestOK, TypeOK, Fails, Return, Fault, journal
<1>4. Quietly
  BY DEF Quietly, NothingDue, NothingAnswered, Changed, IInv, TypeOK, RequestsOK,
         RequestOK, Fails, Return, Fault, journal
<1>5. KeepsLines
  BY DEF KeepsLines, Replacing, IInv, RequestsOK, RequestOK, Replaces, TypeOK, Fails,
         Return, Fault, journal
<1> QED
  BY <1>1, <1>2, <1>3, <1>4, <1>5 DEF Good, Effect

LEMMA KilledGood ==
    ASSUME IInv, NEW h \in Helpers, Killed(h)
    PROVE  Good
<1>1. TypeOK'
  BY FaultTyped, ReturnTyped, GoTyped
     DEF IInv, TypeOK, Asks, Steps, Contents, Killed, journal
<1>2. RequestsOK'
  BY RequestFields
     DEF IInv, RequestsOK, RequestOK, Replaces, Contents, TypeOK, Killed, Return, Fault,
         journal
<1>3. KeepsAsk
  BY DEF KeepsAsk, IInv, RequestsOK, RequestOK, TypeOK, Killed, Return, Fault, journal
<1>4. Quietly
  BY DEF Quietly, NothingDue, NothingAnswered, Changed, IInv, TypeOK, RequestsOK,
         RequestOK, Killed, Return, Fault, journal
<1>5. KeepsLines
  BY DEF KeepsLines, Replacing, IInv, RequestsOK, RequestOK, Replaces, TypeOK, Killed,
         Return, Fault, journal
<1> QED
  BY <1>1, <1>2, <1>3, <1>4, <1>5 DEF Good, Effect

LEMMA ReceiveGood ==
    ASSUME IInv, NEW h \in Helpers, NEW op \in Ops, NEW p \in Paths, NEW c \in Contents,
           Receive(h, op, p, c), op = "token" => p = Secrets
    PROVE  Good
<1>1. TypeOK'
  <2>1. "check" \in Steps
    BY DEF Steps
  <2>2. req' \in Asks
    <3>1. req' = [req EXCEPT ![h].pc = "check", ![h].op = op, ![h].path = p,
                             ![h].content = c]
      BY DEF Receive
    <3>2. [req[h] EXCEPT !.pc = "check", !.op = op, !.path = p, !.content = c]
             \in [pc : Steps, op : Ops, path : Paths, content : Contents,
                  safe : BOOLEAN, stamp : Nat, seen : Nat, answer : {"none", "ok", "failed"}]
      BY <2>1 DEF IInv, TypeOK
    <3>3. req' = [req EXCEPT ![h] = [req[h] EXCEPT !.pc = "check", !.op = op, !.path = p,
                                                   !.content = c]]
      BY <3>1 DEF IInv, TypeOK
    <3> QED
      BY <3>2, <3>3 DEF IInv, TypeOK, Asks
  <2> QED
    BY <2>2 DEF IInv, TypeOK, Asks, Receive, journal, bounds
<1>2. RequestsOK'
  BY RequestFields DEF IInv, RequestsOK, RequestOK, Replaces, TypeOK, Receive
<1>3. KeepsAsk
  BY DEF KeepsAsk, IInv, RequestsOK, RequestOK, TypeOK, Receive
<1>4. Quietly
  BY DEF Quietly, NothingDue, NothingAnswered, Changed, IInv, TypeOK, Receive,
         journal, bounds
<1>5. KeepsLines
  BY DEF KeepsLines, Replacing, IInv, RequestsOK, RequestOK, Replaces, TypeOK, Receive
<1> QED
  BY <1>1, <1>2, <1>3, <1>4, <1>5 DEF Good, Effect

LEMMA SyncGood ==
    ASSUME IInv, NEW h \in Helpers, Sync(h)
    PROVE  Good
<1>1. TypeOK'
  <2>1. "rename" \in Steps
    BY DEF Steps
  <2>2. req' = [req EXCEPT ![h].pc = "rename", ![h].safe = TRUE]
    BY DEF Sync
  <2>3. req' \in Asks
    <3>1. [req[h] EXCEPT !.pc = "rename", !.safe = TRUE]
             \in [pc : Steps, op : Ops, path : Paths, content : Contents,
                  safe : BOOLEAN, stamp : Nat, seen : Nat, answer : {"none", "ok", "failed"}]
      BY <2>1 DEF IInv, TypeOK
    <3>2. req' = [req EXCEPT ![h] = [req[h] EXCEPT !.pc = "rename", !.safe = TRUE]]
      BY <2>2 DEF IInv, TypeOK
    <3> QED
      BY <3>1, <3>2 DEF IInv, TypeOK, Asks
  <2> QED
    BY <2>3 DEF IInv, TypeOK, Asks, Sync, Committed, bounds
<1>2. RequestsOK'
  BY RequestFields DEF IInv, RequestsOK, RequestOK, Replaces, TypeOK, Sync
<1>3. KeepsAsk
  BY DEF KeepsAsk, IInv, RequestsOK, RequestOK, TypeOK, Sync
<1>4. Commits
  BY DEF Commits, NothingDue, Changed, IInv, TypeOK, Sync, Committed
<1>5. KeepsLines
  BY DEF KeepsLines, Replacing, IInv, RequestsOK, RequestOK, Replaces, TypeOK, Sync
<1> QED
  BY <1>1, <1>2, <1>3, <1>4, <1>5 DEF Good, Effect

LEMMA CommitGood ==
    ASSUME IInv, Commit
    PROVE  Good
<1>1. TypeOK'
  BY DEF IInv, TypeOK, Commit, Committed, bounds
<1>2. RequestsOK' /\ KeepsAsk /\ KeepsLines
  BY DEF KeepsLines, Replacing, IInv, RequestsOK, RequestOK, Replaces, KeepsAsk, Commit
<1>3. Commits
  BY DEF Commits, NothingDue, Commit, Committed
<1> QED
  BY <1>1, <1>2, <1>3 DEF Good, Effect

LEMMA SyncDirectoryGood ==
    ASSUME IInv, NEW h \in Helpers, SyncDirectory(h)
    PROVE  Good
<1>1. CASE Return(h, "failed") /\ UNCHANGED journal
  <2>1. TypeOK'
    BY <1>1, ReturnTyped DEF IInv, TypeOK, Asks, SyncDirectory, journal, bounds
  <2>2. RequestsOK'
    BY <1>1, FailedGood DEF SyncDirectory
  <2>3. KeepsAsk
    BY <1>1 DEF KeepsAsk, IInv, TypeOK, Return
  <2>4. Quietly
    BY <1>1 DEF Quietly, NothingDue, NothingAnswered, Changed, IInv, TypeOK, Return,
                SyncDirectory, journal
  <2> QED
    BY <1>1, <2>1, <2>2, <2>3, <2>4, EndKeepsLines DEF Good, Effect
<1>2. CASE Return(h, "ok") /\ Committed
  <2>1. TypeOK'
    BY <1>2, ReturnTyped DEF IInv, TypeOK, Asks, SyncDirectory, Committed, bounds
  <2>2. RequestsOK'
    BY <1>2, RequestFields
       DEF IInv, RequestsOK, RequestOK, Replaces, TypeOK, Return, SyncDirectory
  <2>3. KeepsAsk
    BY <1>2 DEF KeepsAsk, IInv, TypeOK, Return
  <2>4. Commits
    BY <1>2
       DEF Commits, NothingDue, Changed, IInv, TypeOK, Return, SyncDirectory, Committed
  <2> QED
    BY <1>2, <2>1, <2>2, <2>3, <2>4, EndKeepsLines DEF Good, Effect
<1> QED
  BY <1>1, <1>2 DEF SyncDirectory

LEMMA PowerLossGood ==
    ASSUME IInv, PowerLoss
    PROVE  Good
<1>1. \A p \in Paths : Survivor(disk[p]) \in Entry
  BY DEF IInv, TypeOK, Synced, Survivor
<1>2. \A h \in Helpers :
         /\ req'[h].pc \in {"new", "done"}
         /\ req'[h].op = req[h].op /\ req'[h].path = req[h].path
         /\ req'[h].content = req[h].content /\ req'[h].safe = req[h].safe
         /\ req'[h].stamp = req[h].stamp /\ req'[h].seen = req[h].seen
         /\ req'[h].answer = "ok" => req[h].answer = "ok"
         /\ req'[h].pc = "new" <=> req[h].pc = "new"
  BY DEF IInv, TypeOK, PowerLoss
<1>3. req' \in Asks
  <2> SUFFICES ASSUME NEW h \in Helpers
               PROVE  /\ req'[h] \in [pc : Steps, op : Ops, path : Paths,
                                      content : Contents, safe : BOOLEAN, stamp : Nat, seen : Nat, answer : {"none", "ok", "failed"}]
    BY DEF PowerLoss, Asks
  <2>1. CASE req[h].pc \in {"new", "done"}
    BY <2>1 DEF IInv, TypeOK, PowerLoss
  <2>2. CASE req[h].pc \notin {"new", "done"}
    BY <2>2 DEF IInv, TypeOK, PowerLoss, Steps
  <2> QED
    BY <2>1, <2>2
<1>4. TypeOK'
  <2>1. losses' \in 0..MaxLosses
    <3>1. losses \in 0..MaxLosses /\ losses < MaxLosses /\ losses' = losses + 1
      BY DEF IInv, TypeOK, PowerLoss
    <3> QED
      BY <3>1, BoundsAssumption
  <2>2. tree' \in [Paths -> Entry] /\ disk' \in [Paths -> Entry]
    BY <1>1 DEF PowerLoss
  <2> QED
    BY <1>3, <2>1, <2>2 DEF IInv, TypeOK, Asks, PowerLoss
<1>5. RequestsOK'
  <2> SUFFICES ASSUME NEW h \in Helpers PROVE RequestOK(h)'
    BY DEF RequestsOK
  <2>1. RequestOK(h) /\ clock' = clock
    BY DEF IInv, RequestsOK, PowerLoss
  <2>2. req[h].pc # "new" => req'[h].pc = "done"
    BY <1>2
  <2> QED
    BY <1>2, <2>1, <2>2 DEF RequestOK, Replaces
<1>6. KeepsAsk
  BY <1>2 DEF KeepsAsk
<1>7. Loses /\ KeepsLines
  BY <1>2 DEF Loses, KeepsLines, Replacing, NothingAnswered, Changed, PowerLoss
<1> QED
  BY <1>4, <1>5, <1>6, <1>7 DEF Good, Effect

-----------------------------------------------------------------------------
(* The actions that change an entry.                                       *)

LEMMA EntriesMade ==
    ASSUME NEW t \in Nat
    PROVE  /\ Absent(t) \in Entry /\ Dir(t) \in Entry
           /\ \A c \in Contents : File(c, TRUE, t) \in Entry
BY DEF Absent, Dir, File, Entry

\* A request changes its entry and goes on.
LEMMA ChangeGood ==
    ASSUME IInv, NEW h \in Helpers, NEW e \in Entry, NEW pc \in Changed,
           Change(h, e, pc), UNCHANGED <<journal, bounds>>,
           temps' \subseteq Helpers,
           e.safe, e.stamp = clock + 1, Done(h, e),
           req[h].pc \in {"check", "rename"},
           e.kind = "file" <=> Replaces(h),
           e.kind = "file" => e.content = req[h].content,
           pc = "chown" => req[h].op = "mkdir"
    PROVE  Good
<1>1. /\ clock \in Nat /\ req[h].stamp = 0 /\ req[h].answer # "ok"
      /\ req[h].path \in Paths
  BY RequestFields DEF IInv, TypeOK, RequestsOK, RequestOK
<1>2. /\ req'[h].pc = pc /\ req'[h].stamp = clock + 1 /\ clock' = clock + 1
      /\ req'[h].op = req[h].op /\ req'[h].path = req[h].path
      /\ req'[h].content = req[h].content /\ req'[h].safe = req[h].safe
      /\ req'[h].seen = req[h].seen /\ req'[h].answer = req[h].answer
      /\ \A g \in Helpers \ {h} : req'[g] = req[g]
  BY DEF IInv, TypeOK, Change
<1>3. TypeOK'
  <2>1. pc \in Steps /\ clock + 1 \in Nat
    BY <1>1 DEF Steps, Changed
  <2>2. req' \in Asks
    <3>1. req' = [req EXCEPT ![h].pc = pc, ![h].stamp = clock + 1]
      BY DEF Change
    <3>2. [req[h] EXCEPT !.pc = pc, !.stamp = clock + 1]
             \in [pc : Steps, op : Ops, path : Paths, content : Contents,
                  safe : BOOLEAN, stamp : Nat, seen : Nat, answer : {"none", "ok", "failed"}]
      BY <2>1 DEF IInv, TypeOK
    <3>3. req' = [req EXCEPT ![h] = [req[h] EXCEPT !.pc = pc, !.stamp = clock + 1]]
      BY <3>1 DEF IInv, TypeOK
    <3> QED
      BY <3>2, <3>3 DEF IInv, TypeOK, Asks
  <2> QED
    BY <1>1, <2>1, <2>2 DEF IInv, TypeOK, Asks, Change, journal, bounds
<1>4. RequestsOK'
  <2>1. RequestOK(h)'
    <3>1. RequestOK(h) /\ req[h].seen \in Nat
      BY RequestFields DEF IInv, RequestsOK
    <3> QED
      BY <1>1, <1>2, <3>1 DEF RequestOK, Replaces, Changed
  <2>2. ASSUME NEW g \in Helpers \ {h} PROVE RequestOK(g)'
    <3>1. /\ req'[g] = req[g] /\ RequestOK(g)
          /\ req[g].stamp \in Nat /\ req[g].seen \in Nat
      BY <1>2, RequestFields DEF IInv, RequestsOK
    <3> QED
      BY <1>1, <1>2, <3>1 DEF RequestOK, Replaces
  <2> QED
    BY <2>1, <2>2 DEF RequestsOK
<1>5. KeepsAsk
  BY <1>1, <1>2 DEF KeepsAsk
<1>6. Changes(h, e)
  BY <1>1, <1>2 DEF Changes, Change, NothingAnswered, Replaces, journal
<1>7. KeepsLines
  BY <1>2 DEF KeepsLines, Replacing, Changed
<1> QED
  BY <1>3, <1>4, <1>5, <1>6, <1>7 DEF Good, Effect

LEMMA RenameGood ==
    ASSUME IInv, NEW h \in Helpers, Rename(h)
    PROVE  Good
<1>1. CASE tree[req[h].path].kind = "dir"
  <2>1. Return(h, "failed") /\ UNCHANGED <<tree, clock, journal, bounds>>
    BY <1>1 DEF Rename
  <2>2. TypeOK'
    BY <2>1, ReturnTyped DEF IInv, TypeOK, Asks, Rename, journal, bounds
  <2>3. RequestsOK'
    BY <2>1, FailedGood DEF Rename
  <2>4. KeepsAsk /\ Quietly
    BY <2>1 DEF KeepsAsk, Quietly, NothingDue, NothingAnswered, Changed, IInv, TypeOK,
                Return, journal
  <2> QED
    BY <2>1, <2>2, <2>3, <2>4, EndKeepsLines DEF Good, Effect
<1>2. CASE tree[req[h].path].kind # "dir"
  <2> DEFINE e == File(req[h].content, TRUE, clock + 1)
  <2>1. /\ clock + 1 \in Nat /\ req[h].content \in Contents
        /\ req[h].safe = TRUE /\ Replaces(h)
    BY RequestFields DEF IInv, TypeOK, RequestsOK, RequestOK, Rename
  <2>2. /\ e \in Entry /\ e.safe /\ e.stamp = clock + 1 /\ e.kind = "file"
        /\ e.content = req[h].content
    BY <2>1, EntriesMade DEF File
  <2>3. Done(h, e)
    BY <2>1, <2>2 DEF Done, Replaces
  <2>4. /\ Change(h, e, "syncdir") /\ UNCHANGED <<journal, bounds>>
        /\ temps' \subseteq Helpers /\ req[h].pc = "rename"
    BY <1>2, <2>1 DEF Rename, IInv, TypeOK
  <2> HIDE DEF e
  <2> QED
    BY <2>1, <2>2, <2>3, <2>4, ChangeGood DEF Changed
<1> QED
  BY <1>1, <1>2

LEMMA MkdirGood ==
    ASSUME IInv, NEW h \in Helpers, Mkdir(h)
    PROVE  Good
<1>1. CASE Return(h, "failed") /\ UNCHANGED <<tree, clock>>
  BY <1>1, FailedReturnGood DEF Mkdir
<1>2. CASE Change(h, Dir(clock + 1), "chown")
  <2> DEFINE e == Dir(clock + 1)
  <2>1. clock + 1 \in Nat /\ req[h].op = "mkdir" /\ req[h].pc = "check"
    BY DEF IInv, TypeOK, Mkdir
  <2>2. e \in Entry /\ e.safe /\ e.stamp = clock + 1 /\ e.kind = "dir"
    BY <2>1, EntriesMade DEF Dir
  <2>3. Done(h, e)
    BY <2>1, <2>2 DEF Done
  <2>4. UNCHANGED <<journal, bounds>> /\ temps' \subseteq Helpers
    BY DEF Mkdir, IInv, TypeOK
  <2>5. Change(h, e, "chown")
    BY <1>2
  <2> HIDE DEF e
  <2> QED
    BY <2>1, <2>2, <2>3, <2>4, <2>5, ChangeGood DEF Changed, Replaces
<1> QED
  BY <1>1, <1>2 DEF Mkdir

LEMMA RemoveGood ==
    ASSUME IInv, NEW h \in Helpers, Remove(h)
    PROVE  Good
<1>1. CASE Return(h, "failed") /\ UNCHANGED <<tree, clock>>
  BY <1>1, FailedReturnGood DEF Remove
<1>2. CASE Change(h, Absent(clock + 1), "syncdir")
  <2> DEFINE e == Absent(clock + 1)
  <2>1. clock + 1 \in Nat /\ req[h].op = "delete" /\ req[h].pc = "check"
    BY DEF IInv, TypeOK, Remove
  <2>2. e \in Entry /\ e.safe /\ e.stamp = clock + 1 /\ e.kind = "absent"
    BY <2>1, EntriesMade DEF Absent
  <2>3. Done(h, e)
    BY <2>1, <2>2 DEF Done
  <2>4. UNCHANGED <<journal, bounds>> /\ temps' \subseteq Helpers
    BY DEF Remove, IInv, TypeOK
  <2>5. Change(h, e, "syncdir")
    BY <1>2
  <2> HIDE DEF e
  <2> QED
    BY <2>1, <2>2, <2>3, <2>4, <2>5, ChangeGood DEF Changed, Replaces
<1> QED
  BY <1>1, <1>2 DEF Remove

\* The directory that was made is removed; nobody is told that it was made.
LEMMA ChownFailsGood ==
    ASSUME IInv, NEW h \in Helpers, ChownFails(h)
    PROVE  Good
<1>1. /\ req[h].pc = "chown" /\ req[h].op = "mkdir"
      /\ req[h].path \in Paths /\ clock \in Nat
      /\ Return(h, "failed") /\ UNCHANGED <<temps, journal, losses>>
  BY RequestFields DEF IInv, TypeOK, RequestsOK, RequestOK, ChownFails
<1>2. faults' \in 0..MaxFaults
  BY FaultTyped DEF IInv, ChownFails
<1>3. req' \in Asks
  BY <1>1, ReturnTyped DEF IInv
<1>4. /\ req'[h].pc = "done" /\ req'[h].op = req[h].op /\ req'[h].path = req[h].path
      /\ req'[h].content = req[h].content /\ req'[h].stamp = req[h].stamp
      /\ req'[h].safe = req[h].safe /\ req'[h].seen = req[h].seen
      /\ req'[h].answer = "ok" => req[h].answer = "ok"
      /\ \A g \in Helpers \ {h} : req'[g] = req[g]
  BY <1>1 DEF IInv, TypeOK, Return
<1>5. KeepsAsk /\ KeepsLines
  BY <1>1, <1>4, EndKeepsLines DEF KeepsAsk
<1>6. CASE UNCHANGED <<tree, clock>>
  <2>1. TypeOK'
    BY <1>1, <1>2, <1>3, <1>6 DEF IInv, TypeOK, Asks, journal
  <2>2. RequestsOK'
    BY <1>1, <1>6, FailedGood
  <2>3. Quietly
    BY <1>1, <1>4, <1>6 DEF Quietly, NothingDue, NothingAnswered, Changed, journal
  <2> QED
    BY <1>5, <2>1, <2>2, <2>3 DEF Good, Effect
<1>7. CASE /\ tree' = [tree EXCEPT ![req[h].path] = Absent(clock + 1)]
           /\ clock' = clock + 1
  <2> DEFINE e == Absent(clock + 1)
  <2>1. e \in Entry /\ e.safe /\ e.stamp = clock + 1 /\ e.kind = "absent"
    <3>1. clock + 1 \in Nat
      BY <1>1
    <3> QED
      BY <3>1, EntriesMade DEF Absent
  <2>2. TypeOK'
    BY <1>1, <1>2, <1>3, <1>7, <2>1 DEF IInv, TypeOK, Asks, journal
  <2>3. RequestsOK'
    <3> SUFFICES ASSUME NEW g \in Helpers PROVE RequestOK(g)'
      BY DEF RequestsOK
    <3>1. RequestOK(g) /\ req[g].stamp \in Nat /\ req[g].seen \in Nat
      BY RequestFields DEF IInv, RequestsOK
    <3>2. CASE g = h
      BY <1>1, <1>4, <1>7, <3>1, <3>2 DEF RequestOK, Replaces
    <3>3. CASE g # h
      BY <1>1, <1>4, <1>7, <3>1, <3>3 DEF RequestOK, Replaces
    <3> QED
      BY <3>2, <3>3
  <2>4. Changes(h, e)
    BY <1>1, <1>4, <1>7, <2>1 DEF Changes, NothingAnswered, Changed, journal
  <2> QED
    BY <1>5, <2>1, <2>2, <2>3, <2>4 DEF Good, Effect
<1> QED
  BY <1>6, <1>7 DEF ChownFails

-----------------------------------------------------------------------------
(* The theorems.                                                           *)

LEMMA HandlersGood ==
    ASSUME IInv, NEW h \in Helpers, Handlers(h)
    PROVE  Good
<1>1. ASSUME NEW p \in Paths, NEW c \in Written,
             FileWrite(h, p, c) \/ FileUpload(h, Parent[p], p, c)
      PROVE  Good
  <2>1. Receive(h, "write", p, c)
    BY <1>1 DEF FileWrite, FileUpload
  <2> QED
    BY <2>1, ReceiveGood, ContentsAssumption DEF Ops
<1>2. ASSUME NEW p \in Paths, FileMkdir(h, p) \/ FileDelete(h, p)
      PROVE  Good
  <2>1. Receive(h, "mkdir", p, Start) \/ Receive(h, "delete", p, Start)
    BY <1>2 DEF FileMkdir, FileDelete
  <2> QED
    BY <2>1, ReceiveGood, ContentsAssumption DEF Ops
<1>3. ASSUME NEW t \in Tokens, UpdateTelegramToken(h, t)
      PROVE  Good
  <2> DEFINE c == [Start EXCEPT !.token = t]
  <2>1. Receive(h, "token", Secrets, c)
    BY <1>3 DEF UpdateTelegramToken
  <2>2. c \in Contents 
    BY ContentsAssumption DEF Contents
  <2>3. Secrets \in Paths
    BY PathsAssumption
  <2> HIDE DEF c
  <2> QED
    BY <2>1, <2>2, <2>3, ReceiveGood DEF Ops
<1>4. CASE TimedOut(h)
  BY <1>4, TimedOutGood
<1> QED
  BY <1>1, <1>2, <1>3, <1>4 DEF Handlers

LEMMA StutterGood == ASSUME IInv, UNCHANGED vars PROVE IInv'
<1> USE DEF vars
<1>1. TypeOK' /\ RequestsOK' /\ Ordered'
  BY DEF IInv, TypeOK, RequestsOK, RequestOK, Replaces, Ordered, journal, bounds
<1>2. Quietly /\ KeepsAsk /\ KeepsLines
  BY DEF KeepsLines, Replacing, Quietly, NothingDue, NothingAnswered, KeepsAsk, journal
<1> QED
  BY <1>1, <1>2, QuietKeeps DEF Good, Effect

LEMMA StepKeeps == ASSUME IInv, [Next]_vars PROVE IInv'
<1>1. ASSUME NEW h \in Helpers, Handlers(h) PROVE Good
  BY <1>1, HandlersGood
<1>2. ASSUME NEW h \in Helpers, Replace(h) PROVE Good
  BY <1>2, CheckWriteGood, CheckTokenGood, CreateTempGood, FillGood, SyncGood, RenameGood
     DEF Replace
<1>3. ASSUME NEW h \in Helpers, Helper(h) PROVE Good
  BY <1>2, <1>3, MkdirGood, ChownGood, ChownFailsGood, RemoveGood, SyncDirectoryGood,
     FailsGood, KilledGood DEF Helper
<1>4. Next => Good
  BY <1>1, <1>3, CommitGood, PowerLossGood DEF Next
<1> QED
  BY <1>4, EffectKeeps, StutterGood

THEOREM Invariance == Spec => []IInv
BY InitIInv, StepKeeps, PTL DEF Spec

\* The types: no failure, kill or power loss leaves an entry or a request that is none.
THEOREM TypeCorrect == Spec => []TypeOK
<1>1. IInv => TypeOK
  BY DEF IInv
<1> QED
  BY <1>1, Invariance, PTL

\* Every file is whole, and a token update keeps the other lines of the secrets file
\* unless it was changed after it was read, for any number of requests, faults and power
\* losses (write, replaceEnvironmentValue).
THEOREM FilesAreWhole == Spec => []WholeContents
<1>1. IInv => WholeContents
  BY DEF IInv, Synced, Wrote, Replaces, LinesKept, WholeContents
<1> QED
  BY <1>1, Invariance, PTL

\* What was answered as made outlives every power loss (syncDirectory after the change).
THEOREM AnswersAreDurable == Spec => []AnsweredIsDurable
<1>1. IInv => AnsweredIsDurable
  BY DEF IInv
<1> QED
  BY <1>1, Invariance, PTL

=============================================================================
