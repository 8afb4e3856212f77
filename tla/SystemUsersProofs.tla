--------------------------- MODULE SystemUsersProofs ---------------------------
(***************************************************************************)
(* Machine-checked proofs about SystemUsers, for every set of requests, *)
(* names and bodies and every bound: the types, that nobody's Linux        *)
(* account is taken but by a deletion aimed at it, and what a request that *)
(* fails leaves behind.                                                    *)
(*                                                                         *)
(* The first invariant, IInv, says which requests hold an account: those   *)
(* of a creation between useradd and the end of their compensation, and    *)
(* those answered `created` (Needs).  The second, ChangeInv, adds whose    *)
(* account it is (Mine), with which faults one that is left was paid for   *)
(* (Paid), why a home directory is there (Housed), which row a failed      *)
(* deletion took and who has the key of an account (HasKey).               *)
(***************************************************************************)
EXTENDS SystemUsers, TLAPS

Req == [pc : Steps, ask : Creates \cup Deletes \cup {NoAsk}, row : Rows \cup {NoRow},
        why : {"none", "undo", "rollback", "hash", "delete"},
        backup : BOOLEAN, answer : Answers]

Creating == {"count", "inspect", "useradd", "mkdir", "write", "insert"}
Removing == {"lookup", "terminate", "readkey", "unlink", "userdel", "putback"}
Holding == {"mkdir", "write", "insert", "lookup", "terminate", "readkey", "unlink", "userdel"}

Undoes(q) == q.why \in {"undo", "rollback", "hash"} /\ q.ask \in Creates /\ q.ask.system
Deletion(q) == q.ask \in Deletes /\ q.row \in Rows
Removes(q) == q.why = "delete" /\ Deletion(q) /\ q.row.link # Nobody

\* What a request is, wherever it is.
Fits(q) ==
    /\ q.pc = "new" => q.ask = NoAsk
    /\ q.pc \in Creating => q.ask \in Creates
    /\ q.pc \in {"inspect", "useradd", "mkdir", "write"} => q.ask.system
    /\ q.pc \in Removing => Undoes(q) \/ Removes(q)
    /\ q.pc \in {"remove", "restore"} => Deletion(q)
    /\ q.pc = "userdel" /\ q.why = "delete" => q.ask.system
    /\ q.pc # "done" => q.answer = "none"
    /\ q.answer = "created" => q.ask \in Creates

\* The request has made a Linux account and has not removed it.
Needs(q) ==
    q.ask \in Creates /\ q.ask.system /\ (q.pc \in Holding \/ q.answer = "created")

Aimed(n) == \E d \in Requests : AimedAt(d, n)
Kept(n, o) == maker[n] = o \/ Aimed(n)

IInv ==
    /\ TypeOK
    /\ \A r \in Requests : Fits(req[r])
    /\ \A r \in Requests : Needs(req[r]) => Kept(req[r].ask.sys, r)
    /\ \A f \in Founders : Kept(f, f)

-----------------------------------------------------------------------------
(* What a step does.                                                       *)

\* Request r becomes q.
Step(r, q) ==
    /\ q \in Req
    /\ req' = [req EXCEPT ![r] = q]
    /\ Fits(q)
    /\ Needs(q) => Needs(req[r]) \/ maker'[q.ask.sys] = r
    /\ req[r].pc # "new" => q.ask = req[r].ask /\ q.row = req[r].row

Moves(r) == \E q : Step(r, q)

\* No account changes its maker but one that a deletion was aimed at, or r's own.
Respects(r) ==
    \A n \in Names, o \in Ids \ {r} : maker[n] = o => maker'[n] = o \/ Aimed(n)

Keeps(r) == \A n \in Names : maker[n] = r => maker'[n] = r \/ Aimed(n)

RestTyped ==
    /\ rows \subseteq Rows
    /\ maker \in [Names -> Ids \cup {Nobody}]
    /\ home \subseteq Names
    /\ keys \subseteq Names
    /\ faults \in 0..MaxFaults
    /\ stops \in 0..MaxStops

LEMMA CreateFields ==
    ASSUME NEW q \in Creates
    PROVE  /\ q.kind = "create" /\ q.sys \in Names /\ q.name \in Names
           /\ q.system \in BOOLEAN /\ q.panel \in BOOLEAN /\ q.home \in BOOLEAN
BY AsksAssumption

LEMMA DeleteFields ==
    ASSUME NEW q \in Deletes
    PROVE  /\ q.kind = "delete" /\ q.name \in Names
           /\ q.system \in BOOLEAN /\ q.panel \in BOOLEAN /\ q.home \in BOOLEAN
           /\ q.keys \in BOOLEAN /\ q.terminate \in BOOLEAN
BY AsksAssumption

LEMMA RowFields ==
    ASSUME NEW u \in Rows
    PROVE  u.id \in Ids /\ u.name \in Names /\ u.link \in Names \cup {Nobody}
BY DEF Rows

LEMMA NobodyIsNobody == Nobody \notin Ids /\ Nobody \notin Names /\ Requests \cap Founders = {}
BY NamesAssumption DEF Ids

LEMMA KindsDiffer ==
    /\ \A q \in Creates : q.kind # "delete"
    /\ NoAsk.kind # "delete" /\ NoAsk \notin Creates /\ NoAsk \notin Deletes
<1>1. NoAsk.kind = "none"
  BY DEF NoAsk
<1> QED
  BY <1>1, CreateFields, DeleteFields

LEMMA InitIInv == Init => IInv
<1> SUFFICES ASSUME Init PROVE IInv
  OBVIOUS
<1>1. TypeOK
  BY NamesAssumption, BoundsAssumption
     DEF Init, TypeOK, Rows, Ids, Steps, Answers, NoAsk, NoRow
<1>2. ASSUME NEW r \in Requests PROVE Fits(req[r]) /\ ~Needs(req[r])
  <2>1. req[r].pc = "new" /\ req[r].ask = NoAsk /\ req[r].answer = "none"
    BY DEF Init
  <2> QED
    BY <2>1, KindsDiffer DEF Fits, Needs, Creating, Removing
<1>3. \A f \in Founders : Kept(f, f)
  BY NamesAssumption DEF Init, Kept
<1> QED
  BY <1>1, <1>2, <1>3 DEF IInv

\* Any step of one request keeps the invariant, if it leaves the others' accounts alone
\* and its own as long as it needs it.
LEMMA MoveKeeps ==
    ASSUME IInv, NEW r \in Requests, Moves(r), RestTyped', Respects(r),
           Keeps(r) \/ ~Needs(req'[r])
    PROVE  IInv'
<1> PICK q : Step(r, q)
  BY DEF Moves
<1>1. /\ req'[r] = q
      /\ \A g \in Requests \ {r} : req'[g] = req[g]
      /\ req' \in [Requests -> Req]
  BY DEF Step, IInv, TypeOK, Req
<1>2. TypeOK'
  BY <1>1 DEF TypeOK, RestTyped, Req
<1>3. \A g \in Requests : Fits(req'[g])
  BY <1>1 DEF Step, IInv
<1>4. ASSUME NEW n, Aimed(n) PROVE Aimed(n)'
  <2>1. PICK d \in Requests : AimedAt(d, n)
    BY <1>4 DEF Aimed
  <2>2. req[d].pc # "new"
    BY <2>1, KindsDiffer DEF AimedAt, IInv, Fits
  <2>3. AimedAt(d, n)'
    BY <1>1, <2>1, <2>2 DEF Step, AimedAt
  <2> QED
    BY <2>3 DEF Aimed
<1>5. ASSUME NEW n \in Names, NEW o \in Ids \ {r}, Kept(n, o) PROVE Kept(n, o)'
  BY <1>4, <1>5 DEF Kept, Respects
<1>6. \A f \in Founders : Kept(f, f)'
  BY <1>5, NamesAssumption DEF IInv, Ids
<1>7. ASSUME NEW g \in Requests, Needs(req'[g])
      PROVE  maker'[req'[g].ask.sys] = g \/ Aimed(req[g].ask.sys)'
  <2>1. CASE g # r
    <3>1. req'[g] = req[g] /\ Needs(req[g])
      BY <1>1, <1>7, <2>1
    <3> DEFINE n == req[g].ask.sys
    <3>2. n \in Names
      BY <3>1, CreateFields DEF Needs
    <3>3. maker[n] = g \/ Aimed(n)
      BY <3>1 DEF IInv, Kept
    <3>4. g \in Ids \ {r}
      BY <2>1 DEF Ids
    <3>5. maker'[n] = g \/ Aimed(n)
      BY <3>2, <3>3, <3>4 DEF Respects
    <3> HIDE DEF n
    <3>6. n = req'[g].ask.sys
      BY <3>1 DEF n
    <3>7. Aimed(n) => Aimed(req[g].ask.sys)'
      <4>1. SUFFICES ASSUME NEW d \in Requests, AimedAt(d, n)
                     PROVE  Aimed(req[g].ask.sys)'
        BY DEF Aimed
      <4>2. req[d].pc # "new"
        BY <4>1, KindsDiffer DEF AimedAt, IInv, Fits
      <4>3. req'[d].ask = req[d].ask /\ req'[d].row = req[d].row
        BY <1>1, <4>2 DEF Step
      <4> QED
        BY <3>6, <4>1, <4>3 DEF AimedAt, Aimed
    <3> QED
      BY <3>5, <3>6, <3>7
  <2>2. CASE g = r
    <3> DEFINE n == q.ask.sys
    <3>1. Needs(q) /\ n \in Names /\ req'[g].ask.sys = n
      BY <1>1, <1>7, <2>2, CreateFields DEF Needs
    <3>2. CASE Needs(req[r]) /\ maker'[n] # r
      <4>1. req[r].ask = q.ask
        BY <3>2, KindsDiffer DEF Step, IInv, Fits, Needs
      <4>2. maker[n] = r \/ Aimed(n)
        BY <3>2, <4>1 DEF IInv, Kept
      <4>3. Aimed(n)
        BY <1>1, <1>7, <2>2, <3>1, <3>2, <4>2 DEF Keeps
      <4>4. Aimed(n)'
        BY <1>4, <4>3
      <4> QED
        BY <2>2, <3>1, <4>4, <1>1 DEF Aimed, AimedAt
    <3>3. CASE ~Needs(req[r]) \/ maker'[n] = r
      BY <2>2, <3>1, <3>3 DEF Step
    <3> QED
      BY <3>2, <3>3
  <2> QED
    BY <2>1, <2>2
<1>8. (\A g \in Requests : Needs(req[g]) => Kept(req[g].ask.sys, g))'
  BY <1>7 DEF Kept
<1> QED
  BY <1>2, <1>3, <1>6, <1>8 DEF IInv

-----------------------------------------------------------------------------
(* How a request moves.                                                    *)

LEMMA ReqTyped ==
    ASSUME IInv, NEW r \in Requests
    PROVE  /\ req[r] \in Req /\ Fits(req[r]) /\ req \in [Requests -> Req]
           /\ req[r].pc \in Steps /\ req[r].backup \in BOOLEAN
           /\ req[r].why \in {"none", "undo", "rollback", "hash", "delete"}
           /\ req[r].answer \in Answers
BY DEF IInv, TypeOK, Req

\* A request gets a new pc, a reason and an answer.
Becomes(r, pc, w, b, a) ==
    req' = [req EXCEPT ![r] = [req[r] EXCEPT !.pc = pc, !.why = w, !.backup = b, !.answer = a]]

\* It may: what Fits and Needs ask of the result.
Allowed(r, pc, w, b, a) ==
    /\ pc \in Steps \ {"new"} /\ b \in BOOLEAN /\ a \in Answers
    /\ w \in {"none", "undo", "rollback", "hash", "delete"}
    /\ pc \in Creating => req[r].ask \in Creates
    /\ pc \in {"inspect", "useradd", "mkdir", "write"} => req[r].ask.system
    /\ pc \in Removing =>
          \/ w \in {"undo", "rollback", "hash"} /\ req[r].ask \in Creates /\ req[r].ask.system
          \/ w = "delete" /\ Deletion(req[r]) /\ req[r].row.link # Nobody
    /\ pc \in {"remove", "restore"} => Deletion(req[r])
    /\ pc = "userdel" /\ w = "delete" => req[r].ask.system
    /\ pc # "done" => a = "none"
    /\ a = "created" => req[r].ask \in Creates
    /\ req[r].ask \in Creates /\ req[r].ask.system /\ (pc \in Holding \/ a = "created") =>
          Needs(req[r]) \/ maker'[req[r].ask.sys] = r

LEMMA BecomeMoves ==
    ASSUME IInv, NEW r \in Requests, NEW pc, NEW w, NEW b, NEW a,
           Becomes(r, pc, w, b, a), Allowed(r, pc, w, b, a)
    PROVE  Moves(r) /\ (pc \notin Holding /\ a # "created" => ~Needs(req'[r]))
<1> DEFINE q == [req[r] EXCEPT !.pc = pc, !.why = w, !.backup = b, !.answer = a]
<1>1. /\ q.pc = pc /\ q.why = w /\ q.answer = a /\ q.ask = req[r].ask /\ q.row = req[r].row
      /\ q \in Req
  BY ReqTyped DEF Req, Allowed
<1>2. req' = [req EXCEPT ![r] = q] /\ req'[r] = q
  BY ReqTyped DEF Becomes
<1> HIDE DEF q
<1>3. Fits(q)
  BY <1>1 DEF Fits, Undoes, Removes, Deletion, Allowed
<1>4. Needs(q) => Needs(req[r]) \/ maker'[q.ask.sys] = r
  BY <1>1 DEF Needs, Allowed
<1>5. pc \notin Holding /\ a # "created" => ~Needs(q)
  BY <1>1 DEF Needs
<1> QED
  BY <1>1, <1>2, <1>3, <1>4, <1>5 DEF Moves, Step

LEMMA AnswerMoves ==
    ASSUME IInv, NEW r \in Requests, req[r].pc # "new", NEW a \in Answers, Answer(r, a),
           a = "created" =>
              /\ req[r].ask \in Creates
              /\ req[r].ask.system => Needs(req[r]) \/ maker'[req[r].ask.sys] = r
    PROVE  Moves(r) /\ (a # "created" => ~Needs(req'[r]))
<1>1. Becomes(r, "done", req[r].why, req[r].backup, a)
  BY ReqTyped DEF Answer, Becomes, Req
<1>2. "done" \in Steps \ {"new"} /\ "done" \notin Creating \cup Removing \cup Holding
  BY DEF Steps, Creating, Removing, Holding
<1>3. Allowed(r, "done", req[r].why, req[r].backup, a)
  BY <1>2, ReqTyped DEF Allowed
<1> QED
  BY <1>1, <1>2, <1>3, BecomeMoves

LEMMA GoMoves ==
    ASSUME IInv, NEW r \in Requests, req[r].pc \notin {"new", "done"},
           NEW pc \in Steps \ {"new", "done"}, Go(r, pc),
           pc \in Creating => req[r].ask \in Creates,
           pc \in {"inspect", "useradd", "mkdir", "write"} => req[r].ask.system,
           pc \in Removing => Undoes(req[r]) \/ Removes(req[r]),
           pc \in {"remove", "restore"} => Deletion(req[r]),
           pc = "userdel" /\ req[r].why = "delete" => req[r].ask.system,
           req[r].ask \in Creates /\ req[r].ask.system /\ pc \in Holding =>
              Needs(req[r]) \/ maker'[req[r].ask.sys] = r
    PROVE  Moves(r) /\ (pc \notin Holding => ~Needs(req'[r]))
<1>1. req[r].answer = "none"
  BY ReqTyped DEF Fits
<1>2. Becomes(r, pc, req[r].why, req[r].backup, req[r].answer)
  BY ReqTyped DEF Go, Becomes, Req
<1>3. Allowed(r, pc, req[r].why, req[r].backup, req[r].answer)
  BY <1>1, ReqTyped DEF Allowed, Undoes, Removes
<1> QED
  BY <1>1, <1>2, <1>3, BecomeMoves

LEMMA CompensateMoves ==
    ASSUME IInv, NEW r \in Requests, req[r].pc \notin {"new", "done"},
           NEW w \in {"undo", "rollback", "hash", "delete"}, Compensate(r, w),
           \/ w # "delete" /\ req[r].ask \in Creates /\ req[r].ask.system /\ Needs(req[r])
           \/ w = "delete" /\ Deletion(req[r]) /\ req[r].row.link # Nobody
    PROVE  Moves(r)
<1>1. req[r].answer = "none"
  BY ReqTyped DEF Fits
<1>2. Becomes(r, "lookup", w, req[r].backup, req[r].answer)
  BY ReqTyped DEF Compensate, Becomes, Req
<1>3. "lookup" \in Steps \ {"new"} /\ "lookup" \notin Creating
  BY DEF Steps, Creating
<1>4. Deletion(req[r]) => req[r].ask \notin Creates
  BY CreateFields, DeleteFields DEF Deletion
<1>5. Allowed(r, "lookup", w, req[r].backup, req[r].answer)
  BY <1>1, <1>3, <1>4, ReqTyped DEF Allowed
<1> QED
  BY <1>2, <1>5, BecomeMoves

\* A step that leaves the accounts alone.
LEMMA QuietKeeps ==
    ASSUME IInv, NEW r \in Requests, Moves(r), RestTyped', UNCHANGED maker
    PROVE  IInv'
<1>1. Respects(r) /\ Keeps(r)
  BY DEF Respects, Keeps
<1> QED
  BY <1>1, MoveKeeps

LEMMA FaultTyped ==
    ASSUME IInv
    PROVE  RestTyped /\ (Fault => faults' \in 0..MaxFaults)
BY BoundsAssumption DEF IInv, TypeOK, RestTyped, Fault

-----------------------------------------------------------------------------
(* The outcomes of create and remove.                                      *)

\* What the invariant says of a request in remove.
LEMMA InRemove ==
    ASSUME IInv, NEW r \in Requests, req[r].pc \in Removing
    PROVE  /\ Undoes(req[r]) \/ Removes(req[r])
           /\ Undoes(req[r]) => req[r].why # "delete" /\ Removal(r).name = req[r].ask.sys
           /\ Removes(req[r]) => /\ req[r].why = "delete" /\ req[r].ask \notin Creates
                                 /\ Removal(r).name = req[r].row.link
                                 /\ Removal(r).system = req[r].ask.system
           /\ Removal(r).name \in Names
           /\ req[r].pc # "new" /\ req[r].pc # "done"
<1>1. Undoes(req[r]) \/ Removes(req[r])
  BY ReqTyped DEF Fits
<1>2. Undoes(req[r]) => req[r].why # "delete" /\ Removal(r).name = req[r].ask.sys
                        /\ req[r].ask.sys \in Names
  BY CreateFields DEF Undoes, Removal
<1>3. Removes(req[r]) => /\ req[r].why = "delete" /\ req[r].ask \notin Creates
                         /\ Removal(r).name = req[r].row.link
                         /\ Removal(r).system = req[r].ask.system
                         /\ req[r].row.link \in Names
  BY CreateFields, DeleteFields, RowFields DEF Removes, Deletion, Removal
<1>4. req[r].pc # "new" /\ req[r].pc # "done"
  BY DEF Removing
<1> QED
  BY <1>1, <1>2, <1>3, <1>4

LEMMA RemoveFailedMoves ==
    ASSUME IInv, NEW r \in Requests, req[r].pc \in Removing, RemoveFailed(r)
    PROVE  Moves(r) /\ ~Needs(req'[r])
<1>1. req[r].pc # "new" /\ req[r].pc # "done"
  BY InRemove
<1>2. CASE req[r].why = "delete" /\ Go(r, "restore")
  <2>1. Deletion(req[r]) /\ "restore" \in Steps \ {"new", "done"}
        /\ "restore" \notin Creating \cup Removing \cup Holding
    BY <1>2, InRemove DEF Removes, Steps, Creating, Removing, Holding
  <2> QED
    BY <1>1, <1>2, <2>1, GoMoves
<1>3. ASSUME NEW a \in Answers \ {"created"}, Answer(r, a)
      PROVE  Moves(r) /\ ~Needs(req'[r])
  BY <1>1, <1>3, AnswerMoves
<1>4. \/ req[r].why = "delete" /\ Go(r, "restore")
      \/ \E a \in Answers \ {"created"} : Answer(r, a)
  BY DEF RemoveFailed, Answers
<1> QED
  BY <1>2, <1>3, <1>4

LEMMA RemovedMoves ==
    ASSUME IInv, NEW r \in Requests, req[r].pc \in Removing, Removed(r)
    PROVE  Moves(r) /\ ~Needs(req'[r])
<1>1. req[r].pc # "new"
  BY InRemove
<1>2. \E a \in Answers \ {"created"} : Answer(r, a)
  BY DEF Removed, Answers
<1> QED
  BY <1>1, <1>2, AnswerMoves

LEMMA StaysInRemove ==
    ASSUME IInv, NEW r \in Requests, req[r].pc \in Removing \ {"putback"},
           NEW pc \in Removing, Go(r, pc),
           pc = "userdel" => Removal(r).system
    PROVE  Moves(r)
<1>1. /\ pc \in Steps \ {"new", "done"} /\ pc \notin Creating
      /\ pc \notin {"remove", "restore"}
      /\ pc \notin {"inspect", "useradd", "mkdir", "write"}
      /\ req[r].pc \in Holding
  BY DEF Removing, Steps, Creating, Holding
<1>2. pc = "userdel" /\ req[r].why = "delete" => req[r].ask.system
  BY InRemove
<1>3. Undoes(req[r]) \/ Removes(req[r])
  BY InRemove
<1>4. req[r].ask \in Creates /\ req[r].ask.system => Needs(req[r])
  BY <1>1 DEF Needs
<1>5. req[r].pc \notin {"new", "done"}
  BY InRemove
<1> QED
  BY <1>1, <1>2, <1>3, <1>4, <1>5, GoMoves

LEMMA AfterKeysMoves ==
    ASSUME IInv, NEW r \in Requests, req[r].pc \in Removing \ {"putback"}, AfterKeys(r)
    PROVE  Moves(r)
<1>1. CASE Removal(r).system /\ Go(r, "userdel")
  BY <1>1, StaysInRemove DEF Removing
<1>2. CASE Removed(r)
  BY <1>2, RemovedMoves
<1> QED
  BY <1>1, <1>2 DEF AfterKeys

LEMMA UserdelErrorMoves ==
    ASSUME IInv, NEW r \in Requests, req[r].pc = "userdel", UserdelError(r)
    PROVE  Moves(r) /\ ~Needs(req'[r])
<1>1. CASE RemoveFailed(r)
  BY <1>1, RemoveFailedMoves DEF Removing
<1>2. CASE Go(r, "putback")
  <2>1. /\ "putback" \in Steps \ {"new", "done"}
        /\ "putback" \notin Creating \cup Holding
    BY DEF Steps, Creating, Holding
  <2>2. Undoes(req[r]) \/ Removes(req[r])
    BY InRemove DEF Removing
  <2> QED
    BY <1>2, <2>1, <2>2, GoMoves
<1> QED
  BY <1>1, <1>2 DEF UserdelError

\* create has made its account, or needs none.
LEMMA CreatedMoves ==
    ASSUME IInv, NEW r \in Requests, req[r].pc \in {"useradd", "write"}, Created(r),
           Needs(req[r]) \/ maker'[req[r].ask.sys] = r
    PROVE  Moves(r)
<1>1. req[r].ask \in Creates
  BY ReqTyped DEF Fits, Creating
<1>2. CASE Go(r, "insert")
  <2>1. "insert" \in Steps \ {"new", "done"} /\ "insert" \notin Removing
    BY DEF Steps, Removing
  <2> QED
    BY <1>1, <1>2, <2>1, GoMoves
<1>3. CASE Answer(r, "created")
  <2>1. "created" \in Answers
    BY DEF Answers
  <2> QED
    BY <1>1, <1>3, <2>1, AnswerMoves
<1> QED
  BY <1>2, <1>3 DEF Created

\* A creation that holds an account gives it back.
LEMMA GivesBack ==
    ASSUME IInv, NEW r \in Requests, req[r].pc \in {"mkdir", "write", "insert"},
           NEW w \in {"undo", "rollback", "hash"}, Compensate(r, w),
           req[r].pc = "insert" => req[r].ask.system
    PROVE  Moves(r)
<1>1. req[r].ask \in Creates /\ req[r].ask.system
  BY ReqTyped DEF Fits, Creating
<1>2. Needs(req[r])
  BY <1>1 DEF Needs, Holding
<1> QED
  BY <1>1, <1>2, CompensateMoves

-----------------------------------------------------------------------------
(* The steps of a creation.                                                *)

LEMMA ReceiveCreateKeeps ==
    ASSUME IInv, NEW r \in Requests, NEW c \in Creates, ReceiveCreate(r, c)
    PROVE  IInv'
<1> DEFINE q == IF c.system /\ Exists(c.sys)
                THEN [req[r] EXCEPT !.ask = c, !.pc = "done",
                                    !.answer = "system_username_exists"]
                ELSE [req[r] EXCEPT !.ask = c, !.pc = "count"]
<1>1. req' = [req EXCEPT ![r] = q]
  BY ReqTyped DEF ReceiveCreate, Req
<1>2. /\ q.ask = c /\ q.row = req[r].row /\ q.why = req[r].why
      /\ \/ q.pc = "count" /\ q.answer = req[r].answer
         \/ q.pc = "done" /\ q.answer = "system_username_exists"
      /\ q \in Req
  <2>1. {"done", "count"} \subseteq Steps /\ "system_username_exists" \in Answers
    BY DEF Steps, Answers
  <2>2. CASE c.system /\ Exists(c.sys)
    BY <2>1, <2>2, ReqTyped DEF Req
  <2>3. CASE ~(c.system /\ Exists(c.sys))
    BY <2>1, <2>3, ReqTyped DEF Req
  <2> QED
    BY <2>2, <2>3
<1> HIDE DEF q
<1>3. req[r].answer = "none" /\ req[r].pc = "new"
  BY ReqTyped DEF Fits, ReceiveCreate
<1>4. Fits(q) /\ ~Needs(q)
  BY <1>2, <1>3 DEF Fits, Needs, Creating, Removing, Holding
<1>5. Moves(r)
  BY <1>1, <1>2, <1>3, <1>4 DEF Moves, Step
<1> QED
  BY <1>5, FaultTyped, QuietKeeps DEF ReceiveCreate, RestTyped, host

LEMMA CountUsersKeeps ==
    ASSUME IInv, NEW r \in Requests, CountUsers(r)
    PROVE  IInv'
<1>1. /\ req[r].pc = "count" /\ req[r].ask \in Creates
      /\ "username_exists" \in Answers /\ "username_exists" # "created"
      /\ {"inspect", "insert"} \subseteq Steps \ {"new", "done"}
      /\ "inspect" \notin Removing \cup Holding /\ "insert" \notin Removing
  BY ReqTyped DEF CountUsers, Fits, Creating, Answers, Steps, Removing, Holding
<1>2. CASE Answer(r, "username_exists")
  BY <1>1, <1>2, AnswerMoves, FaultTyped, QuietKeeps DEF CountUsers, RestTyped, host
<1>3. CASE req[r].ask.system /\ Go(r, "inspect")
  <2>1. Moves(r)
    BY <1>1, <1>3, GoMoves
  <2> QED
    BY <2>1, FaultTyped, QuietKeeps DEF CountUsers, RestTyped, host
<1>4. CASE ~req[r].ask.system /\ Go(r, "insert")
  <2>1. Moves(r)
    BY <1>1, <1>4, GoMoves
  <2> QED
    BY <2>1, FaultTyped, QuietKeeps DEF CountUsers, RestTyped, host
<1> QED
  BY <1>2, <1>3, <1>4 DEF CountUsers

LEMMA InspectKeeps ==
    ASSUME IInv, NEW r \in Requests, Inspect(r)
    PROVE  IInv'
<1>1. /\ req[r].pc = "inspect" /\ req[r].ask \in Creates /\ req[r].ask.system
      /\ "system_user_create_failed" \in Answers
      /\ "useradd" \in Steps \ {"new", "done"} /\ "useradd" \notin Removing \cup Holding
  BY ReqTyped DEF Inspect, Fits, Creating, Answers, Steps, Removing, Holding
<1>2. Moves(r)
  <2>1. CASE Answer(r, "system_user_create_failed")
    BY <1>1, <2>1, AnswerMoves
  <2>2. CASE Go(r, "useradd")
    BY <1>1, <2>2, GoMoves
  <2> QED
    BY <2>1, <2>2 DEF Inspect
<1> QED
  BY <1>2, FaultTyped, QuietKeeps DEF Inspect, RestTyped, host

LEMMA UseraddKeeps ==
    ASSUME IInv, NEW r \in Requests, Useradd(r)
    PROVE  IInv'
<1> DEFINE n == req[r].ask.sys
<1>1. /\ req[r].pc = "useradd" /\ req[r].ask \in Creates /\ req[r].ask.system /\ n \in Names
      /\ "system_user_create_failed" \in Answers
      /\ "mkdir" \in Steps \ {"new", "done"} /\ "mkdir" \notin Removing
  BY ReqTyped, CreateFields DEF Useradd, Fits, Creating, Answers, Steps, Removing
<1>2. CASE Exists(n)
  <2>1. Answer(r, "system_user_create_failed") /\ UNCHANGED <<rows, host, faults, stops>>
    BY <1>2 DEF Useradd
  <2>2. Moves(r)
    BY <1>1, <2>1, AnswerMoves
  <2> QED
    BY <2>1, <2>2, FaultTyped, QuietKeeps DEF RestTyped, host
<1>3. CASE ~Exists(n)
  <2>1. /\ maker' = [maker EXCEPT ![n] = r] /\ maker[n] = Nobody
        /\ home' \subseteq home \cup {n} /\ UNCHANGED <<rows, keys, faults, stops>>
        /\ Go(r, "mkdir") \/ Created(r)
    BY <1>3 DEF Useradd, Exists
  <2>2. maker \in [Names -> Ids \cup {Nobody}] /\ maker'[n] = r /\ r \in Ids
    BY <1>1, <2>1, FaultTyped DEF RestTyped, Ids
  <2>3. Moves(r)
    <3>1. CASE Go(r, "mkdir")
      BY <1>1, <2>2, <3>1, GoMoves
    <3>2. CASE Created(r)
      BY <1>1, <2>2, <3>2, CreatedMoves
    <3> QED
      BY <2>1, <3>1, <3>2
  <2>4. Respects(r) /\ Keeps(r)
    BY <1>1, <2>1, <2>2, NobodyIsNobody DEF Respects, Keeps
  <2>5. RestTyped'
    BY <1>1, <2>1, <2>2, FaultTyped DEF RestTyped
  <2> QED
    BY <2>3, <2>4, <2>5, MoveKeeps
<1> QED
  BY <1>2, <1>3

LEMMA UseraddFailsKeeps ==
    ASSUME IInv, NEW r \in Requests, UseraddFails(r)
    PROVE  IInv'
<1> DEFINE n == req[r].ask.sys
<1>1. /\ req[r].pc = "useradd" /\ req[r].ask \in Creates /\ n \in Names
      /\ "system_user_create_failed" \in Answers
  BY ReqTyped, CreateFields DEF UseraddFails, Fits, Creating, Answers
<1>2. Moves(r)
  BY <1>1, AnswerMoves DEF UseraddFails
<1>3. CASE UNCHANGED <<maker, home>>
  BY <1>2, <1>3, FaultTyped, QuietKeeps DEF UseraddFails, RestTyped, host
<1>4. CASE ~UNCHANGED <<maker, home>>
  <2>1. /\ maker' = [maker EXCEPT ![n] = r] /\ maker[n] = Nobody
        /\ home' \subseteq home \cup {n} /\ UNCHANGED <<rows, keys, stops>> /\ Fault
    BY <1>4 DEF UseraddFails, Exists
  <2>2. maker \in [Names -> Ids \cup {Nobody}] /\ r \in Ids
    BY FaultTyped DEF RestTyped, Ids
  <2>3. Respects(r) /\ Keeps(r)
    BY <1>1, <2>1, <2>2, NobodyIsNobody DEF Respects, Keeps
  <2>4. RestTyped'
    BY <1>1, <2>1, <2>2, FaultTyped DEF RestTyped
  <2> QED
    BY <1>2, <2>3, <2>4, MoveKeeps
<1> QED
  BY <1>3, <1>4

LEMMA MakeSSHKeeps ==
    ASSUME IInv, NEW r \in Requests, MakeSSH(r) \/ MakeSSHFails(r)
    PROVE  IInv'
<1>1. /\ req[r].pc = "mkdir" /\ req[r].ask \in Creates /\ req[r].ask.system
      /\ req[r].ask.sys \in Names
      /\ "write" \in Steps \ {"new", "done"} /\ "write" \notin Removing
  BY ReqTyped, CreateFields DEF MakeSSH, MakeSSHFails, Fits, Creating, Steps, Removing
<1>2. Needs(req[r])
  BY <1>1 DEF Needs, Holding
<1>3. Moves(r)
  <2>1. CASE Go(r, "write")
    BY <1>1, <1>2, <2>1, GoMoves
  <2>2. CASE Compensate(r, "undo")
    BY <1>1, <2>2, GivesBack
  <2> QED
    BY <2>1, <2>2 DEF MakeSSH, MakeSSHFails
<1>4. /\ UNCHANGED <<rows, maker, keys, stops>> /\ home' \subseteq home \cup {req[r].ask.sys}
      /\ UNCHANGED faults \/ Fault
  BY DEF MakeSSH, MakeSSHFails
<1>5. RestTyped'
  BY <1>1, <1>4, FaultTyped DEF RestTyped
<1> QED
  BY <1>3, <1>4, <1>5, QuietKeeps

LEMMA WriteKeyKeeps ==
    ASSUME IInv, NEW r \in Requests, WriteKey(r) \/ WriteKeyFails(r)
    PROVE  IInv'
<1>1. /\ req[r].pc = "write" /\ req[r].ask \in Creates /\ req[r].ask.system
      /\ req[r].ask.sys \in Names
  BY ReqTyped, CreateFields DEF WriteKey, WriteKeyFails, Fits, Creating
<1>2. Needs(req[r])
  BY <1>1 DEF Needs, Holding
<1>3. Moves(r)
  <2>1. CASE Created(r)
    BY <1>1, <1>2, <2>1, CreatedMoves
  <2>2. CASE Compensate(r, "undo")
    BY <1>1, <2>2, GivesBack
  <2> QED
    BY <2>1, <2>2 DEF WriteKey, WriteKeyFails
<1>4. /\ UNCHANGED <<rows, maker, home, stops>> /\ keys' \subseteq keys \cup {req[r].ask.sys}
      /\ UNCHANGED faults \/ Fault
  BY DEF WriteKey, WriteKeyFails
<1>5. RestTyped'
  BY <1>1, <1>4, FaultTyped DEF RestTyped
<1> QED
  BY <1>3, <1>4, <1>5, QuietKeeps

LEMMA InsertRefusedMoves ==
    ASSUME IInv, NEW r \in Requests, req[r].pc = "insert", InsertRefused(r)
    PROVE  Moves(r)
<1>1. "username_exists" \in Answers
  BY DEF Answers
<1>2. CASE req[r].ask.system /\ Compensate(r, "rollback")
  BY <1>2, GivesBack
<1>3. CASE Answer(r, "username_exists")
  BY <1>1, <1>3, AnswerMoves
<1> QED
  BY <1>2, <1>3 DEF InsertRefused

LEMMA InsertKeeps ==
    ASSUME IInv, NEW r \in Requests, Insert(r)
    PROVE  IInv'
<1> DEFINE q == req[r].ask
<1>1. /\ req[r].pc = "insert" /\ q \in Creates /\ q.sys \in Names /\ q.name \in Names
      /\ "created" \in Answers
  BY ReqTyped, CreateFields DEF Insert, Fits, Creating, Answers
<1>2. UNCHANGED <<host, faults, stops>>
  BY DEF Insert
<1>3. CASE InsertRefused(r) /\ UNCHANGED rows
  BY <1>1, <1>2, <1>3, InsertRefusedMoves, FaultTyped, QuietKeeps DEF RestTyped, host
<1>4. CASE Answer(r, "created") /\ \E link \in {q.sys, Nobody} :
              rows' = rows \cup {[id |-> r, name |-> q.name, link |-> link]}
  <2>1. q.system => Needs(req[r])
    BY <1>1 DEF Needs, Holding
  <2>2. Moves(r)
    BY <1>1, <1>4, <2>1, AnswerMoves
  <2>3. rows' \subseteq Rows
    BY <1>1, <1>4, FaultTyped DEF RestTyped, Rows, Ids
  <2> QED
    BY <1>2, <2>2, <2>3, FaultTyped, QuietKeeps DEF RestTyped, host
<1> QED
  BY <1>3, <1>4 DEF Insert

LEMMA InsertFailsKeeps ==
    ASSUME IInv, NEW r \in Requests, InsertFails(r) \/ HashFails(r)
    PROVE  IInv'
<1>1. req[r].pc = "insert" /\ "error" \in Answers
  BY DEF InsertFails, HashFails, Answers
<1>2. Moves(r)
  <2>1. CASE InsertRefused(r)
    BY <1>1, <2>1, InsertRefusedMoves
  <2>2. CASE req[r].ask.system /\ Compensate(r, "hash")
    BY <1>1, <2>2, GivesBack
  <2>3. CASE Answer(r, "error")
    BY <1>1, <2>3, AnswerMoves
  <2> QED
    BY <2>1, <2>2, <2>3 DEF InsertFails, HashFails
<1> QED
  BY <1>2, FaultTyped, QuietKeeps DEF InsertFails, HashFails, RestTyped, host

-----------------------------------------------------------------------------
(* The steps of remove.                                                    *)

LEMMA LookupKeeps ==
    ASSUME IInv, NEW r \in Requests, Lookup(r) \/ Terminate(r) \/ ReadKey(r)
    PROVE  IInv'
<1>1. req[r].pc \in Removing \ {"putback"}
  BY DEF Lookup, Terminate, ReadKey, Removing
<1>2. UNCHANGED <<rows, host, faults, stops>>
  BY DEF Lookup, Terminate, ReadKey
<1>3. CASE RemoveFailed(r)
  BY <1>1, <1>2, <1>3, RemoveFailedMoves, FaultTyped, QuietKeeps DEF RestTyped, host
<1>4. CASE AfterKeys(r)
  BY <1>1, <1>2, <1>4, AfterKeysMoves, FaultTyped, QuietKeeps DEF RestTyped, host
<1>5. CASE Go(r, "terminate") \/ Go(r, "readkey")
  <2>1. Moves(r)
    BY <1>1, <1>5, StaysInRemove DEF Removing
  <2> QED
    BY <1>2, <2>1, FaultTyped, QuietKeeps DEF RestTyped, host
<1>6. CASE req' = [req EXCEPT ![r].pc = "unlink", ![r].backup = TRUE]
  <2>1. req[r].answer = "none"
    BY <1>1, ReqTyped, InRemove DEF Fits
  <2>2. Becomes(r, "unlink", req[r].why, TRUE, req[r].answer)
    BY <1>6, ReqTyped DEF Becomes, Req
  <2>3. /\ "unlink" \in Steps \ {"new"} /\ "unlink" \notin Creating
        /\ req[r].pc \in Holding
    BY <1>1 DEF Steps, Creating, Removing, Holding
  <2>4. req[r].ask \in Creates /\ req[r].ask.system => Needs(req[r])
    BY <2>3 DEF Needs
  <2>5. Allowed(r, "unlink", req[r].why, TRUE, req[r].answer)
    BY <1>1, <2>1, <2>3, <2>4, ReqTyped, InRemove DEF Allowed, Undoes, Removes
  <2>6. Moves(r)
    BY <2>2, <2>5, BecomeMoves
  <2> QED
    BY <1>2, <2>6, FaultTyped, QuietKeeps DEF RestTyped, host
<1> QED
  BY <1>3, <1>4, <1>5, <1>6 DEF Lookup, Terminate, ReadKey

LEMMA UnlinkKeeps ==
    ASSUME IInv, NEW r \in Requests, Unlink(r) \/ CommandFails(r)
    PROVE  IInv'
<1>1. req[r].pc \in Removing \ {"putback"}
  BY DEF Unlink, CommandFails, Removing
<1>2. Moves(r)
  BY <1>1, AfterKeysMoves, RemoveFailedMoves DEF Unlink, CommandFails
<1>3. /\ UNCHANGED <<rows, maker, home, stops>> /\ keys' \subseteq keys
      /\ UNCHANGED faults \/ Fault
  BY DEF Unlink, CommandFails, host
<1> QED
  BY <1>2, <1>3, FaultTyped, QuietKeeps DEF RestTyped

\* The account is removed: it was aimed at, or it is the request's own.
LEMMA UserdelKeeps ==
    ASSUME IInv, NEW r \in Requests, Userdel(r) \/ UserdelFails(r)
    PROVE  IInv'
<1> DEFINE n == Removal(r).name
<1>1. req[r].pc = "userdel" /\ req[r].pc \in Removing /\ n \in Names
  BY InRemove DEF Userdel, UserdelFails, Removing
<1>2. /\ maker' \in {maker, [maker EXCEPT ![n] = Nobody]}
      /\ home' \subseteq home /\ keys' \subseteq keys /\ UNCHANGED <<rows, stops>>
      /\ UNCHANGED faults \/ Fault
  BY DEF Userdel, UserdelFails
<1>3. Moves(r) /\ ~Needs(req'[r])
  BY <1>1, RemovedMoves, UserdelErrorMoves DEF Userdel, UserdelFails
<1>4. ASSUME NEW o \in Ids \ {r}, maker[n] = o PROVE Aimed(n)
  <2>1. CASE Removes(req[r])
    <3>1. AimedAt(r, n)
      BY <1>1, <2>1, InRemove, ReqTyped, DeleteFields
         DEF AimedAt, Removes, Deletion, Fits
    <3> QED
      BY <3>1 DEF Aimed
  <2>2. CASE Undoes(req[r])
    <3>1. Needs(req[r]) /\ n = req[r].ask.sys
      BY <1>1, <2>2, InRemove DEF Needs, Undoes, Holding
    <3> QED
      BY <1>4, <3>1 DEF IInv, Kept
  <2> QED
    BY <1>1, <2>1, <2>2, InRemove
<1>5. Respects(r)
  BY <1>1, <1>2, <1>4, FaultTyped DEF Respects, RestTyped
<1>6. RestTyped'
  BY <1>1, <1>2, FaultTyped DEF RestTyped
<1> QED
  BY <1>3, <1>5, <1>6, MoveKeeps

LEMMA PutBackKeeps ==
    ASSUME IInv, NEW r \in Requests, PutBack(r) \/ PutBackFails(r)
    PROVE  IInv'
<1>1. req[r].pc \in Removing
  BY DEF PutBack, PutBackFails, Removing
<1>2. Moves(r)
  BY <1>1, RemoveFailedMoves DEF PutBack, PutBackFails
<1>3. /\ UNCHANGED <<rows, maker, home, stops>> /\ keys' \subseteq keys \cup home
      /\ UNCHANGED faults \/ Fault
  BY DEF PutBack, PutBackFails, host
<1> QED
  BY <1>2, <1>3, FaultTyped, QuietKeeps DEF RestTyped

-----------------------------------------------------------------------------
(* The steps of a deletion, and the stop.                                  *)

LEMMA ReceiveDeleteKeeps ==
    ASSUME IInv, NEW r \in Requests, NEW d \in Deletes, NEW u \in rows,
           ReceiveDelete(r, d, u)
    PROVE  IInv'
<1> DEFINE q == [req[r] EXCEPT !.ask = d, !.row = u, !.pc = "remove"]
<1>1. req' = [req EXCEPT ![r] = q]
  BY ReqTyped DEF ReceiveDelete, Req
<1>2. u \in Rows
  BY FaultTyped DEF RestTyped
<1>3. q.ask = d /\ q.row = u /\ q.why = req[r].why /\ q.pc = "remove"
      /\ q.answer = req[r].answer /\ q \in Req
  BY <1>2, ReqTyped DEF Req, Steps
<1> HIDE DEF q
<1>4. req[r].answer = "none" /\ req[r].pc = "new"
  BY ReqTyped DEF Fits, ReceiveDelete
<1>5. Fits(q) /\ ~Needs(q)
  BY <1>2, <1>3, <1>4 DEF Fits, Needs, Deletion, Creating, Removing, Holding
<1>6. Moves(r)
  BY <1>1, <1>3, <1>4, <1>5 DEF Moves, Step
<1> QED
  BY <1>6, FaultTyped, QuietKeeps DEF ReceiveDelete, RestTyped, host

LEMMA RemoveRowKeeps ==
    ASSUME IInv, NEW r \in Requests, RemoveRow(r)
    PROVE  IInv'
<1>1. /\ req[r].pc = "remove" /\ Deletion(req[r])
      /\ "deleted" \in Answers
  BY ReqTyped DEF RemoveRow, Fits, Answers
<1>2. Moves(r)
  <2>1. CASE req[r].row.link # Nobody /\ Compensate(r, "delete")
    BY <1>1, <2>1, CompensateMoves
  <2>2. CASE Answer(r, "deleted")
    BY <1>1, <2>2, AnswerMoves
  <2> QED
    BY <2>1, <2>2 DEF RemoveRow
<1>3. rows' \subseteq rows /\ UNCHANGED <<host, faults, stops>>
  BY DEF RemoveRow
<1> QED
  BY <1>2, <1>3, FaultTyped, QuietKeeps DEF RestTyped, host

LEMMA RestoreKeeps ==
    ASSUME IInv, NEW r \in Requests, Restore(r) \/ RestoreFails(r)
    PROVE  IInv'
<1>1. /\ req[r].pc = "restore" /\ Deletion(req[r])
      /\ "system_user_delete_failed_rollback_failed" \in Answers
      /\ "system_user_delete_failed" \in Answers
  BY ReqTyped DEF Restore, RestoreFails, Fits, Answers
<1>2. Moves(r)
  BY <1>1, AnswerMoves DEF Restore, RestoreFails
<1>3. /\ rows' \subseteq rows \cup {req[r].row} /\ UNCHANGED <<host, stops>>
      /\ UNCHANGED faults \/ Fault
  BY DEF Restore, RestoreFails
<1>4. RestTyped'
  BY <1>1, <1>3, FaultTyped DEF RestTyped, Deletion, host
<1> QED
  BY <1>2, <1>3, <1>4, QuietKeeps DEF host

LEMMA StopKeeps == ASSUME IInv, Stop PROVE IInv'
<1>1. ASSUME NEW r \in Requests
      PROVE  /\ req'[r].ask = req[r].ask /\ req'[r].row = req[r].row
             /\ \/ req'[r] = req[r] /\ req[r].pc \in {"new", "done"}
                \/ req'[r].pc = "done" /\ req'[r].answer = "stopped"
             /\ req'[r] \in Req
  <2>1. CASE req[r].pc \in {"new", "done"}
    BY <2>1, ReqTyped DEF Stop
  <2>2. CASE req[r].pc \notin {"new", "done"}
    <3>1. req'[r] = [req[r] EXCEPT !.pc = "done", !.answer = "stopped"]
      BY <2>2 DEF Stop
    <3>2. "done" \in Steps /\ "stopped" \in Answers
      BY DEF Steps, Answers
    <3> QED
      BY <3>1, <3>2, ReqTyped DEF Req
  <2> QED
    BY <2>1, <2>2
<1>2. /\ stops \in 0..MaxStops /\ stops < MaxStops /\ stops' = stops + 1
      /\ UNCHANGED <<rows, host, faults>>
  BY FaultTyped DEF Stop, RestTyped
<1>3. stops' \in 0..MaxStops
  BY <1>2, BoundsAssumption
<1>4. req' \in [Requests -> Req]
  BY <1>1 DEF Stop
<1>5. TypeOK'
  BY <1>2, <1>3, <1>4 DEF IInv, TypeOK, Req, host
<1>6. \A r \in Requests : Fits(req'[r]) /\ (Needs(req'[r]) => Needs(req[r]))
  BY <1>1 DEF IInv, Fits, Needs, Creating, Removing, Holding
<1>7. maker' = maker /\ \A d \in Requests, n \in Names : AimedAt(d, n)' <=> AimedAt(d, n)
  BY <1>1, <1>2 DEF AimedAt, host
<1>8. \A o : \A n \in Names : Kept(n, o) => Kept(n, o)'
  BY <1>7 DEF Kept, Aimed
<1>9. ASSUME NEW r \in Requests, Needs(req'[r])
      PROVE  maker'[req'[r].ask.sys] = r \/ Aimed(req[r].ask.sys)'
  <2>1. req'[r].ask = req[r].ask /\ Kept(req[r].ask.sys, r) /\ req[r].ask.sys \in Names
    BY <1>1, <1>6, <1>9, CreateFields DEF IInv, Needs
  <2> QED
    BY <1>7, <2>1 DEF Kept, Aimed, AimedAt
<1>10. (\A r \in Requests : Needs(req[r]) => Kept(req[r].ask.sys, r))'
  BY <1>9 DEF Kept
<1>11. \A f \in Founders : Kept(f, f)'
  BY <1>8, NamesAssumption DEF IInv
<1> QED
  BY <1>5, <1>6, <1>10, <1>11 DEF IInv

-----------------------------------------------------------------------------
(* The theorems.                                                           *)

LEMMA StutterKeeps == ASSUME IInv, UNCHANGED vars PROVE IInv'
BY DEF vars, host, IInv, TypeOK, Fits, Needs, Kept, Aimed, AimedAt, Undoes, Removes,
       Deletion

LEMMA StepKeeps == ASSUME IInv, [Next]_vars PROVE IInv'
<1>1. ASSUME NEW r \in Requests, Create(r) PROVE IInv'
  BY <1>1, ReceiveCreateKeeps, CountUsersKeeps, InsertKeeps, InsertFailsKeeps DEF Create
<1>2. ASSUME NEW r \in Requests, HelperCreate(r) PROVE IInv'
  BY <1>2, InspectKeeps, UseraddKeeps, UseraddFailsKeeps, MakeSSHKeeps, WriteKeyKeeps
     DEF HelperCreate
<1>3. ASSUME NEW r \in Requests, HelperRemove(r) PROVE IInv'
  BY <1>3, LookupKeeps, UnlinkKeeps, UserdelKeeps, PutBackKeeps DEF HelperRemove
<1>4. ASSUME NEW r \in Requests, Delete(r) PROVE IInv'
  BY <1>4, ReceiveDeleteKeeps, RemoveRowKeeps, RestoreKeeps DEF Delete
<1> QED
  BY <1>1, <1>2, <1>3, <1>4, StopKeeps, StutterKeeps DEF Next

THEOREM Invariance == Spec => []IInv
BY InitIInv, StepKeeps, PTL DEF Spec

\* The types: no fault, race or stop leaves a row, an account or a request that is none.
THEOREM TypeCorrect == Spec => []TypeOK
<1>1. IInv => TypeOK
  BY DEF IInv
<1> QED
  BY <1>1, Invariance, PTL

\* Nobody's Linux account is taken but by a deletion aimed at it, for any number of
\* requests, faults and stops: every compensation removes its own account (createUser,
\* create, remove).
THEOREM AccountsAreKept == Spec => []AccountsKept
<1>1. IInv => AccountsKept
  <2> SUFFICES ASSUME IInv PROVE AccountsKept
    OBVIOUS
  <2>1. \A f \in Founders : maker[f] = f \/ \E d \in Requests : AimedAt(d, f)
    BY DEF IInv, Kept, Aimed
  <2>2. ASSUME NEW r \in Requests, req[r].answer = "created", req[r].ask.system
        PROVE  maker[req[r].ask.sys] = r \/ \E d \in Requests : AimedAt(d, req[r].ask.sys)
    BY <2>2 DEF IInv, Fits, Needs, Kept, Aimed
  <2> QED
    BY <2>1, <2>2 DEF AccountsKept
<1> QED
  BY <1>1, Invariance, PTL

-----------------------------------------------------------------------------
(* What a failed request leaves behind: the invariant.                     *)

\* The steps of a creation before it has made its account.
Early == {"count", "inspect", "useradd"}

\* The helper's bookkeeping: which steps a request comes to, and when it has a backup.
Serves(q) ==
    /\ q.pc \in Creating \cup {"new", "remove"} => q.why = "none"
    /\ q.why # "delete" => ~q.backup
    /\ q.why = "delete" => q.ask \in Deletes
    /\ q.pc \in {"mkdir", "write"} => q.ask.ssh
    /\ q.pc \in {"terminate", "readkey", "unlink", "putback"} => q.why = "delete"
    /\ q.pc = "readkey" \/ q.backup => q.ask.keys
    /\ q.pc \in {"unlink", "putback"} => q.backup

\* A request makes the account it was asked for, at useradd.
Mine ==
    \A r \in Requests, n \in Names :
        maker[n] = r => /\ req[r].ask \in Creates /\ req[r].ask.system
                        /\ req[r].ask.sys = n /\ req[r].pc \notin Early

\* An account that outlives its failed creation was paid for with faults.
Paid(r) ==
    Made(r) =>
        /\ req[r].pc = "write" => req[r].ask.sys \in home
        /\ req[r].pc \in Removing /\ req[r].why \in {"undo", "hash"} => faults >= 1
        /\ req[r].answer \notin {"username_exists", "system_username_exists"}
        /\ req[r].answer \in {"system_user_create_failed", "error"} =>
              faults >= 1 /\ (req[r].why # "none" => faults >= 2)
        /\ req[r].answer = "panel_user_create_failed_rollback_failed" => faults >= 1

\* A home directory that goes with its account, but for the one installSSHKey makes.
Housed(n) ==
    \/ maker[n] \in Founders
    \/ \E r \in Requests : maker[n] = r /\ req[r].ask.home
    \/ Exists(n) /\ \E r \in Requests : AsksFor(r, n) /\ req[r].ask.ssh

HomeInv == faults = 0 => \A n \in home : Housed(n) \/ HomeLeft(n)

\* The first part of FailedDeleteLosesNothing.
RowInv ==
    \A d \in Requests :
        req[d].answer = "system_user_delete_failed" /\ req[d].ask.panel =>
            \/ req[d].row \in rows
            \/ \E e \in Requests \ {d} : TakesRow(e, req[d].row)

\* The account was given a key, by a creation that may still have to write its row.
Given(n) ==
    \/ maker[n] \in Founders
    \/ \E r \in Requests :
          /\ maker[n] = r /\ req[r].ask.ssh
          /\ req[r].pc = "insert" \/ req[r].answer = "created"

\* The deletion d removed the key of n, or will put it back.  When it is to put it
\* back because the account was gone, there is nothing it owes.
HasKey(d, n) ==
    /\ TakesKey(d, n)
    /\ \/ req[d].answer = "deleted"
       \/ req[d].backup /\ req[d].pc = "userdel"
       \/ req[d].backup /\ req[d].pc = "putback" /\ faults >= 1

KeyInv ==
    /\ \A n \in Names : Given(n) => n \in home
    /\ faults <= 1 /\ stops = 0 =>
          \A n \in Names : Given(n) => n \in keys \/ \E d \in Requests : HasKey(d, n)

\* The inductive invariant of what failed requests leave behind.
ChangeInv ==
    /\ IInv
    /\ \A r \in Requests : Serves(req[r])
    /\ Mine
    /\ \A r \in Requests : Paid(r)
    /\ HomeInv
    /\ RowInv
    /\ KeyInv

-----------------------------------------------------------------------------
(* What a failed request leaves behind: what every step keeps.             *)

\* Request r goes on to pc, with the fields that its steps change.
To(r, pc, why, backup, answer) ==
    /\ \A g \in Requests \ {r} : req'[g] = req[g]
    /\ req'[r].pc = pc /\ req'[r].why = why
    /\ req'[r].backup = backup /\ req'[r].answer = answer
    /\ req'[r].ask = req[r].ask /\ req'[r].row = req[r].row

LEMMA Outcomes ==
    ASSUME IInv, NEW r \in Requests
    PROVE  /\ \A a : Answer(r, a) => To(r, "done", req[r].why, req[r].backup, a)
           /\ \A pc : Go(r, pc) => To(r, pc, req[r].why, req[r].backup, req[r].answer)
           /\ \A w : Compensate(r, w) => To(r, "lookup", w, req[r].backup, req[r].answer)
BY ReqTyped DEF Answer, Go, Compensate, To, Req

\* Only request r moves; what it asks for stays.
One(r) ==
    /\ \A g \in Requests \ {r} : req'[g] = req[g]
    /\ req[r].pc # "new" => req'[r].ask = req[r].ask /\ req'[r].row = req[r].row
    /\ faults' \in {faults, faults + 1} /\ stops' = stops

\* What was asked for is remembered.
Persists ==
    \A g \in Requests :
        req[g].pc # "new" => req'[g].ask = req[g].ask /\ req'[g].row = req[g].row

LEMMA OnePersists ==
    ASSUME NEW r \in Requests, One(r)
    PROVE  Persists
BY DEF One, Persists

LEMMA Asked ==
    ASSUME IInv, NEW g \in Requests,
           req[g].ask \in Creates \cup Deletes \/ req[g].ask.kind \in {"create", "delete"}
    PROVE  req[g].pc # "new"
<1>1. NoAsk.kind = "none"
  BY DEF NoAsk
<1>2. req[g].pc = "new" => req[g].ask = NoAsk
  BY ReqTyped DEF Fits
<1> QED
  BY <1>1, <1>2, KindsDiffer

LEMMA AsksPersist ==
    ASSUME IInv, Persists, NEW n
    PROVE  /\ \A g \in Requests : AsksFor(g, n) => AsksFor(g, n)' /\ req'[g].ask = req[g].ask
           /\ \A g \in Requests : AimedAt(g, n) => AimedAt(g, n)' /\ req'[g].ask = req[g].ask
           /\ HomeLeft(n) => HomeLeft(n)'
<1>1. \A g \in Requests : AsksFor(g, n) => AsksFor(g, n)' /\ req'[g].ask = req[g].ask
  BY Asked DEF AsksFor, Persists
<1>2. \A g \in Requests : AimedAt(g, n) => AimedAt(g, n)' /\ req'[g].ask = req[g].ask
  BY Asked DEF AimedAt, Persists
<1>3. HomeLeft(n) => HomeLeft(n)'
  BY <1>1, <1>2 DEF HomeLeft
<1> QED
  BY <1>1, <1>2, <1>3

\* A request has at most the account it asked for, and none before useradd.
LEMMA Makes ==
    ASSUME ChangeInv, NEW r \in Requests
    PROVE  /\ Made(r) => /\ req[r].ask \in Creates /\ req[r].ask.system
                         /\ maker[req[r].ask.sys] = r /\ req[r].pc \notin Early
                         /\ req[r].pc # "new" /\ req[r].why # "delete"
           /\ req[r].ask \in Deletes => ~Made(r)
<1>1. Made(r) => /\ req[r].ask \in Creates /\ req[r].ask.system
                 /\ maker[req[r].ask.sys] = r /\ req[r].pc \notin Early
  BY DEF ChangeInv, Mine, Made
<1>2. req[r].ask \in Creates => req[r].ask \notin Deletes
  BY CreateFields, DeleteFields
<1>3. req[r].why = "delete" => req[r].ask \in Deletes
  BY DEF ChangeInv, Serves
<1>4. req[r].ask \in Creates => req[r].pc # "new"
  BY Asked DEF ChangeInv
<1> QED
  BY <1>1, <1>2, <1>3, <1>4

LEMMA MineKept ==
    ASSUME ChangeInv, NEW r \in Requests, One(r),
           \A n \in Names : \/ maker'[n] \in {maker[n], Nobody}
                            \/ /\ maker'[n] = r /\ req[r].ask \in Creates
                               /\ req[r].ask.system /\ req[r].ask.sys = n
                               /\ req'[r].pc \notin Early,
           req'[r].pc \in Early => ~Made(r)
    PROVE  Mine'
<1> SUFFICES ASSUME NEW g \in Requests, NEW n \in Names, maker'[n] = g
             PROVE  /\ req'[g].ask \in Creates /\ req'[g].ask.system
                    /\ req'[g].ask.sys = n /\ req'[g].pc \notin Early
  BY DEF Mine
<1>1. g # Nobody
  BY NobodyIsNobody DEF Ids
<1>2. CASE g # r
  BY <1>1, <1>2 DEF ChangeInv, Mine, One
<1>3. CASE g = r /\ maker[n] = r
  <2>1. Made(r)
    BY <1>3 DEF Made
  <2>2. req'[r].ask = req[r].ask
    BY <2>1, Makes DEF One
  <2> QED
    BY <1>3, <2>1, <2>2 DEF ChangeInv, Mine
<1>4. CASE g = r /\ maker[n] # r
  <2>1. /\ req[r].ask \in Creates /\ req[r].ask.system /\ req[r].ask.sys = n
        /\ req'[r].pc \notin Early
    BY <1>1, <1>4
  <2>2. req'[r].ask = req[r].ask
    BY <2>1, Asked DEF ChangeInv, One
  <2> QED
    BY <1>4, <2>1, <2>2
<1> QED
  BY <1>2, <1>3, <1>4

LEMMA PaidKept ==
    ASSUME ChangeInv, NEW r \in Requests, One(r),
           \A n \in Names : maker'[n] \in {maker[n], Nobody, r},
           \A n \in home : n \in home' \/ maker'[n] = Nobody,
           Paid(r)'
    PROVE  \A g \in Requests : Paid(g)'
<1> SUFFICES ASSUME NEW g \in Requests, g # r, Made(g)'
             PROVE  Paid(g)'
  BY DEF Paid
<1>1. faults \in Nat /\ g # Nobody
  BY FaultTyped, NobodyIsNobody DEF ChangeInv, RestTyped, Ids
<1>2. PICK n \in Names : maker'[n] = g
  BY DEF Made
<1>3. maker[n] = g /\ Made(g)
  BY <1>1, <1>2 DEF Made
<1>4. req[g].ask.sys = n
  BY <1>3 DEF ChangeInv, Mine
<1>5. req'[g] = req[g]
  BY DEF One
<1>6. Paid(g)
  BY DEF ChangeInv
<1>7. n \in home => n \in home'
  BY <1>1, <1>2
<1> QED
  BY <1>1, <1>3, <1>4, <1>5, <1>6, <1>7 DEF Paid, One

\* A home directory that stays under an account that stays is still accounted for.
LEMMA HousedKept ==
    ASSUME ChangeInv, Persists, NEW n \in Names, maker'[n] = maker[n],
           Housed(n) \/ HomeLeft(n)
    PROVE  Housed(n)' \/ HomeLeft(n)'
<1>1. HomeLeft(n) => HomeLeft(n)'
  BY AsksPersist DEF ChangeInv
<1>2. ASSUME NEW g \in Requests, maker[n] = g, req[g].ask.home PROVE Housed(n)'
  <2>1. Made(g)
    BY <1>2 DEF Made
  <2>2. req'[g].ask = req[g].ask
    BY <2>1, Makes DEF Persists
  <2> QED
    BY <1>2, <2>2 DEF Housed
<1>3. ASSUME Exists(n), NEW g \in Requests, AsksFor(g, n), req[g].ask.ssh PROVE Housed(n)'
  <2>1. AsksFor(g, n)' /\ req'[g].ask = req[g].ask
    BY <1>3, AsksPersist DEF ChangeInv
  <2> QED
    BY <1>3, <2>1 DEF Housed, Exists
<1>4. maker[n] \in Founders => Housed(n)'
  BY DEF Housed
<1> QED
  BY <1>1, <1>2, <1>3, <1>4 DEF Housed

LEMMA HomeKept ==
    ASSUME ChangeInv, NEW r \in Requests, One(r), home' \subseteq Names,
           faults' = 0 => \A n \in home' : \/ n \in home /\ maker'[n] = maker[n]
                                           \/ Housed(n)' \/ HomeLeft(n)'
    PROVE  HomeInv'
<1>1. faults \in Nat
  BY FaultTyped DEF ChangeInv, RestTyped
<1>2. ASSUME faults' = 0, NEW n \in home' PROVE Housed(n)' \/ HomeLeft(n)'
  <2>1. faults = 0
    BY <1>1, <1>2 DEF One
  <2>2. CASE n \in home /\ maker'[n] = maker[n]
    <3>1. Housed(n) \/ HomeLeft(n)
      BY <2>1, <2>2 DEF ChangeInv, HomeInv
    <3> QED
      BY <2>2, <3>1, HousedKept, OnePersists
  <2> QED
    BY <1>2, <2>2
<1> QED
  BY <1>2 DEF HomeInv

LEMMA RowsKept ==
    ASSUME ChangeInv, NEW r \in Requests, One(r), req[r].pc # "done",
           \A u \in rows : u \in rows' \/ TakesRow(r, u)',
           req'[r].answer = "system_user_delete_failed" /\ req'[r].ask.panel =>
               req'[r].row \in rows'
    PROVE  RowInv'
<1> SUFFICES ASSUME NEW d \in Requests, d # r,
                    req[d].answer = "system_user_delete_failed", req[d].ask.panel
             PROVE  req[d].row \in rows' \/ \E e \in Requests \ {d} : TakesRow(e, req[d].row)'
  BY DEF RowInv, One, TakesRow
<1>1. CASE req[d].row \in rows
  <2>1. req'[d].row = req[d].row
    BY DEF One
  <2>2. \/ req[d].row \in rows'
        \/ /\ req'[r].ask.kind = "delete" /\ req'[r].ask.panel
           /\ req'[r].row.id = req[d].row.id
    BY <1>1 DEF TakesRow
  <2> QED
    BY <2>1, <2>2 DEF TakesRow
<1>2. ASSUME NEW e \in Requests \ {d}, TakesRow(e, req[d].row)
      PROVE  TakesRow(e, req[d].row)'
  <2>1. req[e].pc # "new"
    BY <1>2, Asked DEF TakesRow, ChangeInv
  <2>2. req'[e].ask = req[e].ask /\ req'[e].row = req[e].row
    BY <2>1 DEF One
  <2>3. req'[d].row = req[d].row
    BY DEF One
  <2> QED
    BY <1>2, <2>2, <2>3 DEF TakesRow
<1> QED
  BY <1>1, <1>2 DEF ChangeInv, RowInv

\* An account keeps its key, or the deletion that took it.
LEMMA KeysKept ==
    ASSUME ChangeInv, NEW r \in Requests, One(r),
           \A n \in Names : Given(n)' =>
               \/ n \in home' /\ n \in keys'
               \/ /\ Given(n) /\ (n \in home => n \in home')
                  /\ faults' <= 1 =>
                        /\ n \in keys => n \in keys' \/ HasKey(r, n)'
                        /\ HasKey(r, n) => n \in keys' \/ HasKey(r, n)'
    PROVE  KeyInv'
<1>0. faults \in Nat /\ faults' \in Nat /\ stops' = stops /\ (faults' <= 1 => faults <= 1)
      /\ (faults >= 1 => faults' >= 1)
  BY FaultTyped DEF ChangeInv, RestTyped, One
<1>1. ASSUME NEW n \in Names, Given(n)' PROVE n \in home'
  BY <1>1 DEF ChangeInv, KeyInv
<1>2. ASSUME NEW d \in Requests, d # r, NEW n, HasKey(d, n) PROVE HasKey(d, n)'
  BY <1>0, <1>2 DEF One, HasKey, TakesKey
<1>3. ASSUME NEW n \in Names, Given(n)', faults' <= 1, stops' = 0
      PROVE  n \in keys' \/ \E d \in Requests : HasKey(d, n)'
  <2>1. CASE n \in keys'
    BY <2>1
  <2>2. CASE n \notin keys'
    <3>1. /\ Given(n)
          /\ n \in keys => HasKey(r, n)'
          /\ HasKey(r, n) => HasKey(r, n)'
      BY <1>3, <2>2
    <3>2. n \in keys \/ \E d \in Requests : HasKey(d, n)
      BY <1>0, <1>3, <3>1 DEF ChangeInv, KeyInv
    <3> QED
      BY <1>2, <3>1, <3>2
  <2> QED
    BY <2>1, <2>2
<1> QED
  BY <1>1, <1>3 DEF KeyInv

\* A step that keeps what it must keeps the invariant.
LEMMA OneKeeps ==
    ASSUME ChangeInv, NEW r \in Requests, IInv', One(r), Serves(req'[r]),
           Mine', Paid(r)', HomeInv', RowInv', KeyInv',
           \A n \in Names : maker'[n] \in {maker[n], Nobody, r},
           \A n \in home : n \in home' \/ maker'[n] = Nobody
    PROVE  ChangeInv'
<1>1. \A g \in Requests : Paid(g)'
  BY PaidKept
<1>2. \A g \in Requests : Serves(req'[g])
  BY DEF ChangeInv, One
<1> QED
  BY <1>1, <1>2 DEF ChangeInv

\* A step that leaves the host as it is.
LEMMA QuietChange ==
    ASSUME ChangeInv, NEW r \in Requests, IInv', One(r), Serves(req'[r]), UNCHANGED host,
           req[r].pc \notin {"userdel", "putback", "done"},
           Made(r) => /\ req'[r].pc \notin Early
                      /\ req'[r].pc = "insert" \/ req'[r].answer = "created"
                            => req[r].pc = "insert"
                      /\ Paid(r)',
           \A u \in rows : u \in rows' \/ TakesRow(r, u)',
           req'[r].answer = "system_user_delete_failed" /\ req'[r].ask.panel =>
               req'[r].row \in rows'
    PROVE  ChangeInv'
<1>1. maker' = maker /\ home' = home /\ keys' = keys
  BY DEF host
<1>2. Made(r)' <=> Made(r)
  BY <1>1 DEF Made
<1>3. Paid(r)'
  BY <1>2 DEF Paid
<1>4. Mine'
  BY <1>1, MineKept
<1>5. home' \subseteq Names
  BY <1>1, FaultTyped DEF ChangeInv, RestTyped
<1>6. HomeInv'
  BY <1>1, <1>5, HomeKept
<1>7. RowInv'
  BY RowsKept
<1>8. \A n : ~HasKey(r, n)
  <2>1. req[r].answer = "none"
    BY ReqTyped DEF ChangeInv, Fits
  <2> QED
    BY <2>1 DEF HasKey
<1>9. ASSUME NEW n \in Names, Given(n)' PROVE Given(n)
  <2>1. CASE maker[n] \in Founders
    BY <2>1 DEF Given
  <2>2. ASSUME NEW g \in Requests, maker[n] = g, req'[g].ask.ssh,
               req'[g].pc = "insert" \/ req'[g].answer = "created"
        PROVE  Given(n)
    <3>1. CASE g # r
      BY <2>2, <3>1 DEF One, Given
    <3>2. CASE g = r
      <4>1. Made(r)
        BY <2>2, <3>2 DEF Made
      <4>2. req'[r].ask = req[r].ask /\ req[r].pc = "insert"
        BY <2>2, <3>2, <4>1, Makes DEF One
      <4> QED
        BY <2>2, <3>2, <4>2 DEF Given
    <3> QED
      BY <3>1, <3>2
  <2> QED
    BY <1>1, <1>9, <2>1, <2>2 DEF Given
<1>10. KeyInv'
  BY <1>1, <1>8, <1>9, KeysKept
<1> QED
  BY <1>1, <1>3, <1>4, <1>6, <1>7, <1>10, OneKeeps

-----------------------------------------------------------------------------
(* What a failed request leaves behind: how a request moves on.            *)

\* The fields of r but where it is and what it answered are as they were.
Stays(r) ==
    /\ \A g \in Requests \ {r} : req'[g] = req[g]
    /\ req'[r].why = req[r].why /\ req'[r].backup = req[r].backup
    /\ req'[r].ask = req[r].ask /\ req'[r].row = req[r].row

LEMMA StaysOne ==
    ASSUME NEW r \in Requests, Stays(r), faults' \in {faults, faults + 1}, stops' = stops
    PROVE  One(r)
BY DEF Stays, One

LEMMA AnswerTo ==
    ASSUME IInv, NEW r \in Requests, NEW a, Answer(r, a)
    PROVE  Stays(r) /\ req'[r].pc = "done" /\ req'[r].answer = a
BY Outcomes DEF To, Stays

LEMMA GoTo ==
    ASSUME IInv, NEW r \in Requests, NEW pc, Go(r, pc)
    PROVE  Stays(r) /\ req'[r].pc = pc /\ req'[r].answer = req[r].answer
BY Outcomes DEF To, Stays

LEMMA InFlightAnswer ==
    ASSUME IInv, NEW r \in Requests, req[r].pc # "done"
    PROVE  req[r].answer = "none"
BY ReqTyped DEF Fits

\* A request that ends serves no more.
LEMMA DoneServes ==
    ASSUME ChangeInv, NEW r \in Requests, Stays(r), req'[r].pc \in {"done", "userdel", "restore"}
    PROVE  Serves(req'[r])
<1>1. Serves(req[r])
  BY DEF ChangeInv
<1> QED
  BY <1>1 DEF Serves, Stays, Creating

LEMMA RemoveFailedTo ==
    ASSUME ChangeInv, NEW r \in Requests, req[r].pc \in Removing, RemoveFailed(r)
    PROVE  /\ Stays(r) /\ Serves(req'[r])
           /\ req'[r].pc \in {"done", "restore"}
           /\ \/ /\ req[r].why \in {"undo", "hash"}
                 /\ req'[r].answer \in {"system_user_create_failed", "error"}
              \/ /\ req[r].why = "rollback"
                 /\ req'[r].answer = "panel_user_create_failed_rollback_failed"
              \/ /\ req[r].why = "delete"
                 /\ req'[r].answer \in {"none", "system_user_delete_failed"}
                 /\ req'[r].answer = "system_user_delete_failed" => ~req[r].ask.panel
<1>1. /\ IInv /\ req[r].answer = "none"
      /\ req[r].why \in {"undo", "rollback", "hash", "delete"}
  <2>1. req[r].pc # "done"
    BY DEF Removing
  <2> QED
    BY <2>1, InFlightAnswer, InRemove DEF ChangeInv, Undoes, Removes
<1>2. CASE req[r].why = "undo"
  <2>1. Answer(r, "system_user_create_failed")
    BY <1>2 DEF RemoveFailed
  <2> QED
    BY <1>1, <1>2, <2>1, AnswerTo, DoneServes
<1>3. CASE req[r].why = "rollback"
  <2>1. Answer(r, "panel_user_create_failed_rollback_failed")
    BY <1>3 DEF RemoveFailed
  <2> QED
    BY <1>1, <1>3, <2>1, AnswerTo, DoneServes
<1>4. CASE req[r].why = "hash"
  <2>1. Answer(r, "error")
    BY <1>4 DEF RemoveFailed
  <2> QED
    BY <1>1, <1>4, <2>1, AnswerTo, DoneServes
<1>5. CASE req[r].why = "delete" /\ req[r].ask.panel
  <2>1. Go(r, "restore")
    BY <1>5 DEF RemoveFailed
  <2> QED
    BY <1>1, <1>5, <2>1, GoTo, DoneServes
<1>6. CASE req[r].why = "delete" /\ ~req[r].ask.panel
  <2>1. Answer(r, "system_user_delete_failed")
    BY <1>6 DEF RemoveFailed
  <2> QED
    BY <1>1, <1>6, <2>1, AnswerTo, DoneServes
<1> QED
  BY <1>1, <1>2, <1>3, <1>4, <1>5, <1>6

LEMMA RemovedTo ==
    ASSUME ChangeInv, NEW r \in Requests, req[r].pc \in Removing, Removed(r)
    PROVE  /\ Stays(r) /\ Serves(req'[r]) /\ req'[r].pc = "done"
           /\ req'[r].answer \in {"system_user_create_failed", "username_exists", "error", "deleted"}
           /\ req[r].why = "delete" => req'[r].answer = "deleted"
<1>1. /\ IInv
      /\ req[r].why \in {"undo", "rollback", "hash", "delete"}
  BY InRemove DEF ChangeInv, Undoes, Removes
<1>2. PICK a : /\ Answer(r, a)
               /\ a \in {"system_user_create_failed", "username_exists", "error", "deleted"}
               /\ req[r].why = "delete" => a = "deleted"
  BY <1>1 DEF Removed
<1> QED
  BY <1>1, <1>2, AnswerTo, DoneServes

\* After the keys: only a deletion may be done without userdel.
LEMMA AfterKeysTo ==
    ASSUME ChangeInv, NEW r \in Requests, req[r].pc \in Removing, AfterKeys(r)
    PROVE  /\ Stays(r) /\ Serves(req'[r])
           /\ \/ req'[r].pc = "userdel" /\ req'[r].answer = "none"
              \/ req'[r].pc = "done" /\ req'[r].answer = "deleted" /\ req[r].why = "delete"
<1>1. IInv /\ req[r].answer = "none" /\ (~Removal(r).system => req[r].why = "delete")
  <2>1. req[r].pc # "done"
    BY DEF Removing
  <2> QED
    BY <2>1, InFlightAnswer DEF ChangeInv, Removal
<1>2. CASE Removal(r).system
  <2>1. Go(r, "userdel")
    BY <1>2 DEF AfterKeys
  <2> QED
    BY <1>1, <2>1, GoTo, DoneServes
<1>3. CASE ~Removal(r).system
  <2>1. Removed(r)
    BY <1>3 DEF AfterKeys
  <2> QED
    BY <1>1, <1>3, <2>1, RemovedTo
<1> QED
  BY <1>2, <1>3

LEMMA UserdelErrorTo ==
    ASSUME ChangeInv, NEW r \in Requests, req[r].pc = "userdel", UserdelError(r)
    PROVE  /\ Stays(r) /\ Serves(req'[r])
           /\ \/ req[r].backup /\ req'[r].pc = "putback" /\ req'[r].answer = "none"
              \/ ~req[r].backup /\ RemoveFailed(r)
<1>1. IInv /\ req[r].answer = "none" /\ Serves(req[r])
  BY InFlightAnswer DEF ChangeInv
<1>2. CASE req[r].backup
  <2>1. Go(r, "putback")
    BY <1>2 DEF UserdelError
  <2>2. Stays(r) /\ req'[r].pc = "putback" /\ req'[r].answer = "none"
    BY <1>1, <2>1, GoTo
  <2>3. Serves(req'[r])
    BY <1>1, <1>2, <2>2 DEF Serves, Stays, Creating
  <2> QED
    BY <1>2, <2>2, <2>3
<1>3. CASE ~req[r].backup
  <2>1. RemoveFailed(r)
    BY <1>3 DEF UserdelError
  <2> QED
    BY <1>3, <2>1, RemoveFailedTo DEF Removing
<1> QED
  BY <1>2, <1>3

LEMMA CreatedTo ==
    ASSUME ChangeInv, NEW r \in Requests, req[r].pc \in {"useradd", "write"}, Created(r)
    PROVE  /\ Stays(r) /\ Serves(req'[r])
           /\ \/ req'[r].pc = "insert" /\ req'[r].answer = "none"
              \/ req'[r].pc = "done" /\ req'[r].answer = "created"
<1>1. IInv /\ req[r].answer = "none" /\ Serves(req[r]) /\ req[r].why = "none"
  BY InFlightAnswer DEF ChangeInv, Serves, Creating
<1>2. CASE Go(r, "insert")
  <2>1. Stays(r) /\ req'[r].pc = "insert" /\ req'[r].answer = "none"
    BY <1>1, <1>2, GoTo
  <2>2. Serves(req'[r])
    BY <1>1, <2>1 DEF Serves, Stays, Creating
  <2> QED
    BY <2>1, <2>2
<1>3. CASE Answer(r, "created")
  BY <1>1, <1>3, AnswerTo, DoneServes
<1> QED
  BY <1>2, <1>3 DEF Created

LEMMA CompensateTo ==
    ASSUME ChangeInv, NEW r \in Requests, req[r].pc \in Creating \cup {"remove"},
           NEW w, Compensate(r, w), w = "delete" => req[r].ask \in Deletes
    PROVE  To(r, "lookup", w, FALSE, "none") /\ Serves(req'[r])
<1>1. /\ IInv /\ req[r].answer = "none" /\ Serves(req[r])
      /\ req[r].why = "none" /\ req[r].backup = FALSE
  <2>1. req[r].pc # "done"
    BY DEF Creating
  <2>2. IInv /\ Serves(req[r])
    BY DEF ChangeInv
  <2> QED
    BY <2>1, <2>2, InFlightAnswer, ReqTyped DEF Serves
<1>2. To(r, "lookup", w, FALSE, "none")
  BY <1>1, Outcomes
<1>3. Serves(req'[r])
  BY <1>2 DEF To, Serves, Creating
<1> QED
  BY <1>2, <1>3

LEMMA ToOne ==
    ASSUME NEW r \in Requests, NEW pc, NEW w, NEW b, NEW a, To(r, pc, w, b, a),
           faults' \in {faults, faults + 1}, stops' = stops
    PROVE  One(r)
BY DEF To, One

\* The row is refused: only a creation without an account is answered at once.
LEMMA InsertRefusedTo ==
    ASSUME ChangeInv, NEW r \in Requests, req[r].pc = "insert", InsertRefused(r)
    PROVE  /\ Serves(req'[r])
           /\ \/ To(r, "lookup", "rollback", FALSE, "none")
              \/ /\ Stays(r) /\ req'[r].pc = "done" /\ req'[r].answer = "username_exists"
                 /\ ~Made(r)
<1>1. CASE req[r].ask.system
  BY <1>1, CompensateTo DEF InsertRefused, Creating
<1>2. CASE ~req[r].ask.system
  BY <1>2, AnswerTo, DoneServes, Makes DEF InsertRefused, ChangeInv
<1> QED
  BY <1>1, <1>2

-----------------------------------------------------------------------------
(* What a failed request leaves behind: the steps of a creation.           *)

\* A step of a request that has no account and leaves everything but itself alone.
LEMMA EarlyChange ==
    ASSUME ChangeInv, NEW r \in Requests, IInv', One(r), Serves(req'[r]), ~Made(r),
           UNCHANGED <<rows, host>>, req[r].pc \notin {"userdel", "putback", "done"},
           req'[r].answer # "system_user_delete_failed"
    PROVE  ChangeInv'
BY QuietChange

LEMMA ReceiveCreateChange ==
    ASSUME ChangeInv, NEW r \in Requests, NEW c \in Creates, ReceiveCreate(r, c)
    PROVE  ChangeInv'
<1>1. IInv /\ IInv' /\ req[r].pc = "new" /\ Serves(req[r])
  BY ReceiveCreateKeeps DEF ChangeInv, ReceiveCreate
<1>2. \/ req' = [req EXCEPT ![r].ask = c, ![r].pc = "done",
                            ![r].answer = "system_username_exists"]
      \/ req' = [req EXCEPT ![r].ask = c, ![r].pc = "count"]
  BY DEF ReceiveCreate
<1>3. /\ \A g \in Requests \ {r} : req'[g] = req[g]
      /\ req'[r].why = req[r].why /\ req'[r].backup = req[r].backup
      /\ \/ req'[r].pc = "done" /\ req'[r].answer = "system_username_exists"
         \/ req'[r].pc = "count" /\ req'[r].answer = req[r].answer
  BY <1>1, <1>2, ReqTyped DEF Req
<1>4. Serves(req'[r])
  BY <1>1, <1>3 DEF Serves, Creating
<1>5. One(r)
  BY <1>1, <1>3 DEF One, ReceiveCreate
<1> QED
  BY <1>1, <1>3, <1>4, <1>5, Makes, EarlyChange, InFlightAnswer DEF ReceiveCreate

LEMMA CountUsersChange ==
    ASSUME ChangeInv, NEW r \in Requests, CountUsers(r)
    PROVE  ChangeInv'
<1>1. /\ IInv /\ IInv' /\ req[r].pc = "count" /\ Serves(req[r]) /\ req[r].why = "none"
      /\ req[r].answer = "none"
  BY CountUsersKeeps, InFlightAnswer DEF ChangeInv, CountUsers, Serves, Creating
<1>2. /\ Stays(r)
      /\ req'[r].pc \in {"done", "inspect", "insert"}
      /\ req'[r].answer \in {"username_exists", "none"}
  BY <1>1, AnswerTo, GoTo DEF CountUsers
<1>3. Serves(req'[r])
  BY <1>1, <1>2 DEF Serves, Stays, Creating
<1>4. One(r)
  BY <1>2, StaysOne DEF CountUsers
<1> QED
  BY <1>1, <1>2, <1>3, <1>4, Makes, EarlyChange DEF CountUsers, Early

LEMMA InspectChange ==
    ASSUME ChangeInv, NEW r \in Requests, Inspect(r)
    PROVE  ChangeInv'
<1>1. /\ IInv /\ IInv' /\ req[r].pc = "inspect" /\ Serves(req[r]) /\ req[r].why = "none"
      /\ req[r].answer = "none"
  BY InspectKeeps, InFlightAnswer DEF ChangeInv, Inspect, Serves, Creating
<1>2. /\ Stays(r)
      /\ req'[r].pc \in {"done", "useradd"}
      /\ req'[r].answer \in {"system_user_create_failed", "none"}
  BY <1>1, AnswerTo, GoTo DEF Inspect
<1>3. Serves(req'[r])
  BY <1>1, <1>2 DEF Serves, Stays, Creating
<1>4. One(r)
  BY <1>2, StaysOne DEF Inspect
<1> QED
  BY <1>1, <1>2, <1>3, <1>4, Makes, EarlyChange DEF Inspect, Early

\* useradd fails, or finds the account there.
LEMMA UseraddRefusedChange ==
    ASSUME ChangeInv, NEW r \in Requests,
           \/ UseraddFails(r) /\ UNCHANGED <<maker, home>>
           \/ Useradd(r) /\ Exists(req[r].ask.sys)
    PROVE  ChangeInv'
<1>1. /\ IInv /\ IInv' /\ req[r].pc = "useradd"
  BY UseraddKeeps, UseraddFailsKeeps DEF ChangeInv, Useradd, UseraddFails
<1>2. /\ Answer(r, "system_user_create_failed") /\ UNCHANGED <<rows, host, stops>>
      /\ faults' \in {faults, faults + 1}
  BY DEF Useradd, UseraddFails, Fault, host
<1>3. /\ Stays(r) /\ req'[r].pc = "done" /\ req'[r].answer = "system_user_create_failed"
      /\ Serves(req'[r]) /\ One(r)
  BY <1>1, <1>2, AnswerTo, DoneServes, StaysOne
<1> QED
  BY <1>1, <1>2, <1>3, Makes, EarlyChange DEF Early

LEMMA FaultPays ==
    ASSUME ChangeInv, Fault
    PROVE  faults \in Nat /\ faults' = faults + 1 /\ faults' >= 1
BY FaultTyped DEF ChangeInv, RestTyped, Fault

\* A creation takes no key.
LEMMA CreateHasNoKey ==
    ASSUME NEW r \in Requests, req[r].ask \in Creates
    PROVE  \A n : ~HasKey(r, n)
BY KindsDiffer DEF HasKey, TakesKey

\* An account that was given a key in this step, by the request that wrote it.
LEMMA GivenBefore ==
    ASSUME ChangeInv, NEW r \in Requests, One(r), NEW n \in Names, Given(n)',
           maker'[n] \in {maker[n], Nobody},
           maker[n] = r => req'[r].pc # "insert" /\ req'[r].answer # "created"
    PROVE  Given(n)
<1>1. maker'[n] = maker[n]
  BY NobodyIsNobody DEF Given, Ids
<1> QED
  BY <1>1 DEF Given, One

\* What a step of createUser or create knows.
LEMMA InCreate ==
    ASSUME ChangeInv, NEW r \in Requests, req[r].pc \in Creating
    PROVE  /\ IInv /\ Serves(req[r]) /\ req[r].why = "none" /\ req[r].answer = "none"
           /\ req[r].ask \in Creates /\ req[r].ask.sys \in Names
           /\ req[r].pc \in {"useradd", "mkdir", "write"} => req[r].ask.system
           /\ \A n : ~HasKey(r, n)
           /\ rows \subseteq Rows /\ home \subseteq Names /\ keys \subseteq Names
           /\ maker \in [Names -> Ids \cup {Nobody}]
<1>1. IInv /\ Serves(req[r]) /\ req[r].pc # "done"
  BY DEF ChangeInv, Creating
<1>2. req[r].ask \in Creates
  BY <1>1, ReqTyped DEF Fits
<1> QED
  BY <1>1, <1>2, ReqTyped, InFlightAnswer, CreateFields, CreateHasNoKey, FaultTyped
     DEF Serves, Fits, RestTyped

\* useradd fails after it wrote the account.
LEMMA UseraddHalfChange ==
    ASSUME ChangeInv, NEW r \in Requests, UseraddFails(r), ~UNCHANGED <<maker, home>>
    PROVE  ChangeInv'
<1> PICK n \in Names : n = req[r].ask.sys
  BY InCreate DEF UseraddFails, Creating
<1>1. /\ req[r].pc = "useradd" /\ maker[n] = Nobody /\ maker' = [maker EXCEPT ![n] = r]
      /\ home \subseteq home' /\ home' \subseteq home \cup {n}
      /\ Answer(r, "system_user_create_failed")
      /\ Fault /\ keys' = keys /\ rows' = rows /\ stops' = stops
  BY DEF UseraddFails, Exists
<1>2. /\ IInv /\ IInv' /\ req[r].why = "none"
      /\ req[r].ask \in Creates /\ req[r].ask.system /\ n \in Names
      /\ home \subseteq Names /\ maker \in [Names -> Ids \cup {Nobody}]
      /\ \A m : ~HasKey(r, m)
  BY <1>1, InCreate, UseraddFailsKeeps DEF Creating
<1>3. /\ Stays(r) /\ req'[r].pc = "done" /\ req'[r].answer = "system_user_create_failed"
      /\ req'[r].why = "none" /\ Serves(req'[r])
  BY <1>1, <1>2, AnswerTo, DoneServes DEF Stays
<1>4. One(r) /\ faults' >= 1
  BY <1>1, <1>3, FaultPays, StaysOne
<1>5. ~Made(r)
  BY <1>1, Makes DEF Early
<1>6. /\ maker'[n] = r /\ r # Nobody /\ r \notin Founders
      /\ \A m \in Names \ {n} : maker'[m] = maker[m] /\ maker[m] # r
  BY <1>1, <1>2, <1>5, NobodyIsNobody, NamesAssumption DEF Made, Ids
<1>7. Mine'
  BY <1>2, <1>3, <1>4, <1>6, MineKept DEF Early
<1>8. Paid(r)'
  BY <1>3, <1>4 DEF Paid, Removing
<1>9. HomeInv'
  BY <1>4, FaultPays, <1>1 DEF HomeInv
<1>10. RowInv'
  BY <1>1, <1>3, <1>4, RowsKept
<1>11. ~Given(n)'
  BY <1>3, <1>6 DEF Given, Stays
<1>12. KeyInv'
  <2>1. ASSUME NEW m \in Names, Given(m)' PROVE Given(m)
    BY <1>4, <1>6, <1>11, <2>1, GivenBefore
  <2>2. home \subseteq home'
    BY <1>1
  <2> QED
    BY <1>1, <1>2, <1>4, <2>1, <2>2, KeysKept
<1> QED
  <2>1. \A m \in Names : maker'[m] \in {maker[m], Nobody, r}
    BY <1>6
  <2>2. \A m \in home : m \in home'
    BY <1>1
  <2> QED
    BY <1>2, <1>3, <1>4, <1>7, <1>8, <1>9, <1>10, <1>12, <2>1, <2>2, OneKeeps

\* useradd makes the account.
LEMMA UseraddChange ==
    ASSUME ChangeInv, NEW r \in Requests, Useradd(r), ~Exists(req[r].ask.sys)
    PROVE  ChangeInv'
<1> PICK n \in Names : n = req[r].ask.sys
  BY InCreate DEF Useradd, Creating
<1>1. /\ req[r].pc = "useradd" /\ maker[n] = Nobody /\ maker' = [maker EXCEPT ![n] = r]
      /\ home' = IF req[r].ask.home THEN home \cup {n} ELSE home
      /\ IF req[r].ask.ssh THEN Go(r, "mkdir") ELSE Created(r)
      /\ keys' = keys /\ rows' = rows /\ faults' = faults /\ stops' = stops
  BY DEF Useradd, Exists
<1>2. /\ IInv /\ IInv' /\ Serves(req[r]) /\ req[r].why = "none" /\ req[r].answer = "none"
      /\ req[r].ask \in Creates /\ req[r].ask.system /\ n \in Names
      /\ home \subseteq Names /\ maker \in [Names -> Ids \cup {Nobody}]
      /\ \A m : ~HasKey(r, m)
  BY <1>1, InCreate, UseraddKeeps DEF Creating
<1>3. /\ Stays(r) /\ Serves(req'[r])
      /\ \/ req[r].ask.ssh /\ req'[r].pc = "mkdir" /\ req'[r].answer = "none"
         \/ ~req[r].ask.ssh /\ req'[r].pc = "insert" /\ req'[r].answer = "none"
         \/ ~req[r].ask.ssh /\ req'[r].pc = "done" /\ req'[r].answer = "created"
  <2>1. CASE req[r].ask.ssh
    <3>1. Stays(r) /\ req'[r].pc = "mkdir" /\ req'[r].answer = "none"
      BY <1>1, <1>2, <2>1, GoTo
    <3>2. Serves(req'[r])
      BY <1>2, <2>1, <3>1 DEF Serves, Stays, Creating
    <3> QED
      BY <2>1, <3>1, <3>2
  <2>2. CASE ~req[r].ask.ssh
    BY <1>1, <2>2, CreatedTo
  <2> QED
    BY <2>1, <2>2
<1>4. One(r)
  BY <1>1, <1>3, StaysOne
<1>5. ~Made(r)
  BY <1>1, Makes DEF Early
<1>6. /\ maker'[n] = r /\ r # Nobody /\ Nobody \notin Founders /\ r \notin Founders
      /\ \A m \in Names \ {n} : maker'[m] = maker[m] /\ maker[m] # r
  BY <1>1, <1>2, <1>5, NobodyIsNobody, NamesAssumption DEF Made, Ids
<1>7. Mine'
  <2>1. req'[r].pc \notin Early
    BY <1>3 DEF Early
  <2> QED
    BY <1>2, <1>4, <1>6, <2>1, MineKept
<1>8. Paid(r)'
  BY <1>3 DEF Paid, Removing
<1>9. HomeInv'
  <2>1. home' \subseteq Names
    BY <1>1, <1>2
  <2>2. CASE req[r].ask.home
    <3>1. Housed(n)'
      BY <1>3, <1>6, <2>2 DEF Housed, Stays
    <3> QED
      BY <1>1, <1>4, <1>6, <2>1, <3>1, HomeKept
  <2>3. CASE ~req[r].ask.home
    <3>1. n \in home /\ faults = 0 => HomeLeft(n)
      <4>1. ~Housed(n)
        BY <1>1, <1>6, NobodyIsNobody DEF Housed, Exists, Ids
      <4> QED
        BY <4>1 DEF ChangeInv, HomeInv
    <3>2. HomeLeft(n) => HomeLeft(n)'
      BY <1>2, <1>4, OnePersists, AsksPersist
    <3> QED
      BY <1>1, <1>4, <1>6, <2>1, <2>3, <3>1, <3>2, HomeKept
  <2> QED
    BY <2>2, <2>3
<1>10. RowInv'
  BY <1>1, <1>3, <1>4, RowsKept
<1>11. ~Given(n)'
  BY <1>3, <1>6 DEF Given, Stays
<1>12. KeyInv'
  <2>1. ASSUME NEW m \in Names, Given(m)' PROVE Given(m)
    BY <1>4, <1>6, <1>11, <2>1, GivenBefore
  <2>2. home \subseteq home'
    BY <1>1
  <2> QED
    BY <1>1, <1>2, <1>4, <2>1, <2>2, KeysKept
<1> QED
  <2>1. \A m \in Names : maker'[m] \in {maker[m], Nobody, r}
    BY <1>6
  <2>2. \A m \in home : m \in home'
    BY <1>1
  <2> QED
    BY <1>2, <1>3, <1>4, <1>7, <1>8, <1>9, <1>10, <1>12, <2>1, <2>2, OneKeeps

LEMMA MakeSSHChange ==
    ASSUME ChangeInv, NEW r \in Requests, MakeSSH(r) \/ MakeSSHFails(r)
    PROVE  ChangeInv'
<1> PICK n \in Names : n = req[r].ask.sys
  BY InCreate DEF MakeSSH, MakeSSHFails, Creating
<1>1. /\ req[r].pc = "mkdir" /\ UNCHANGED <<rows, maker, keys, stops>>
      /\ home' \in {home, home \cup {n}}
      /\ faults' \in {faults, faults + 1}
      /\ \/ Exists(n) /\ Go(r, "write") /\ home' = home \cup {n}
         \/ ~Exists(n) /\ Compensate(r, "undo") /\ home' = home
         \/ Fault /\ Compensate(r, "undo")
  BY DEF MakeSSH, MakeSSHFails, Fault
<1>2. /\ IInv /\ IInv' /\ Serves(req[r]) /\ req[r].why = "none" /\ req[r].answer = "none"
      /\ req[r].ask \in Creates /\ req[r].ask.system /\ req[r].ask.ssh
      /\ home \subseteq Names /\ \A m : ~HasKey(r, m)
  <2>1. req[r].pc \in Creating
    BY <1>1 DEF Creating
  <2>2. Serves(req[r]) /\ req[r].ask.system
    BY <1>1, <2>1, InCreate
  <2> QED
    BY <1>1, <2>1, <2>2, InCreate, MakeSSHKeeps DEF Serves
<1>3. /\ One(r) /\ Serves(req'[r]) /\ req'[r].ask = req[r].ask /\ req'[r].answer = "none"
      /\ \/ req'[r].pc = "write" /\ n \in home' /\ req'[r].why = "none"
         \/ req'[r].pc = "lookup" /\ ~Exists(n)
         \/ req'[r].pc = "lookup" /\ Fault
  <2>1. CASE Go(r, "write") /\ home' = home \cup {n}
    <3>1. Stays(r) /\ req'[r].pc = "write" /\ req'[r].answer = "none"
      BY <1>2, <2>1, GoTo
    <3>2. Serves(req'[r])
      BY <1>2, <3>1 DEF Serves, Stays, Creating
    <3> QED
      BY <1>1, <1>2, <2>1, <3>1, <3>2, StaysOne DEF Stays
  <2>2. CASE Compensate(r, "undo") /\ (~Exists(n) \/ Fault)
    <3>1. To(r, "lookup", "undo", FALSE, "none") /\ Serves(req'[r])
      BY <1>1, <2>2, CompensateTo DEF Creating
    <3> QED
      BY <1>1, <2>2, <3>1, ToOne DEF To
  <2> QED
    BY <1>1, <2>1, <2>2
<1>4. Made(r)' => Made(r) /\ Exists(n)
  BY <1>1, Makes, NobodyIsNobody DEF Made, Exists, Ids
<1>5. Mine'
  BY <1>1, <1>3, MineKept DEF Early
<1>6. Paid(r)'
  BY <1>3, <1>4, FaultPays DEF Paid, Removing
<1>7. HomeInv'
  <2>1. home' \subseteq Names
    BY <1>1, <1>2
  <2>2. faults' = 0 /\ n \in home' /\ n \notin home => Exists(n)
    BY <1>1, FaultPays
  <2>3. AsksFor(r, n)' /\ req'[r].ask.ssh
    BY <1>2, <1>3, CreateFields DEF AsksFor
  <2>4. faults' = 0 /\ n \in home' /\ n \notin home => Housed(n)'
    BY <1>1, <2>2, <2>3 DEF Housed, Exists
  <2> QED
    BY <1>1, <1>3, <2>1, <2>4, HomeKept
<1>8. RowInv'
  BY <1>1, <1>3, RowsKept
<1>9. KeyInv'
  <2>1. ASSUME NEW m \in Names, Given(m)' PROVE Given(m)
    BY <1>1, <1>3, <2>1, GivenBefore
  <2> QED
    BY <1>1, <1>2, <1>3, <2>1, KeysKept
<1> QED
  BY <1>1, <1>2, <1>3, <1>5, <1>6, <1>7, <1>8, <1>9, OneKeeps

LEMMA WriteKeyChange ==
    ASSUME ChangeInv, NEW r \in Requests, WriteKey(r) \/ WriteKeyFails(r)
    PROVE  ChangeInv'
<1> PICK n \in Names : n = req[r].ask.sys
  BY InCreate DEF WriteKey, WriteKeyFails, Creating
<1>1. /\ req[r].pc = "write" /\ UNCHANGED <<rows, maker, home, stops>>
      /\ faults' \in {faults, faults + 1} /\ keys \subseteq keys'
      /\ \/ n \in home /\ n \in keys' /\ Created(r)
         \/ n \notin home /\ Compensate(r, "undo")
         \/ Fault /\ Compensate(r, "undo")
  BY DEF WriteKey, WriteKeyFails, Fault
<1>2. /\ IInv /\ IInv' /\ req[r].ask \in Creates /\ home \subseteq Names
      /\ \A m : ~HasKey(r, m)
  BY <1>1, InCreate, WriteKeyKeeps DEF Creating
<1>3. /\ One(r) /\ Serves(req'[r]) /\ req'[r].pc \notin Early
      /\ req'[r].answer \in {"none", "created"}
      /\ \/ req'[r].pc \in {"insert", "done"} /\ n \in home /\ n \in keys'
         \/ /\ req'[r].pc = "lookup" /\ req'[r].answer = "none"
            /\ n \notin home \/ Fault
  <2>1. CASE Created(r) /\ n \in home /\ n \in keys'
    BY <1>1, <2>1, CreatedTo, StaysOne DEF Early
  <2>2. CASE Compensate(r, "undo") /\ (n \notin home \/ Fault)
    <3>1. To(r, "lookup", "undo", FALSE, "none") /\ Serves(req'[r])
      BY <1>1, <2>2, CompensateTo DEF Creating
    <3> QED
      BY <1>1, <2>2, <3>1, ToOne DEF To, Early
  <2> QED
    BY <1>1, <2>1, <2>2
<1>4. Made(r)' => Made(r) /\ n \in home
  BY <1>1 DEF Made, ChangeInv, Paid
<1>5. Mine'
  BY <1>1, <1>3, MineKept
<1>6. Paid(r)'
  BY <1>3, <1>4, FaultPays DEF Paid, Removing
<1>7. HomeInv'
  BY <1>1, <1>2, <1>3, HomeKept
<1>8. RowInv'
  BY <1>1, <1>3, RowsKept
<1>9. KeyInv'
  <2>1. ASSUME NEW m \in Names, Given(m)', m # n PROVE Given(m)
    <3>1. maker[m] # r
      BY <2>1 DEF ChangeInv, Mine
    <3> QED
      BY <1>1, <1>3, <2>1, <3>1, GivenBefore
  <2>2. ASSUME Given(n)', n \notin home \/ n \notin keys' PROVE Given(n)
    BY <1>1, <1>3, <2>2, GivenBefore
  <2> QED
    BY <1>1, <1>2, <1>3, <2>1, <2>2, KeysKept
<1> QED
  BY <1>1, <1>2, <1>3, <1>5, <1>6, <1>7, <1>8, <1>9, OneKeeps

\* The row, or its refusal.
LEMMA InsertChange ==
    ASSUME ChangeInv, NEW r \in Requests, Insert(r) \/ InsertFails(r) \/ HashFails(r)
    PROVE  ChangeInv'
<1>1. /\ req[r].pc = "insert" /\ UNCHANGED <<host, stops>>
      /\ faults' \in {faults, faults + 1} /\ rows \subseteq rows'
      /\ \/ Answer(r, "created") \/ InsertRefused(r)
         \/ Fault /\ req[r].ask.system /\ Compensate(r, "hash")
         \/ ~req[r].ask.system /\ Answer(r, "error")
  BY DEF Insert, InsertFails, HashFails, Fault
<1>2. IInv /\ IInv'
  BY InsertKeeps, InsertFailsKeeps DEF ChangeInv
<1>3. /\ One(r) /\ Serves(req'[r]) /\ req'[r].answer # "system_user_delete_failed"
      /\ Made(r) => \/ req'[r].pc = "done" /\ req'[r].answer = "created"
                    \/ /\ req'[r].pc = "lookup" /\ req'[r].answer = "none"
                       /\ req'[r].why = "rollback" \/ Fault
  <2>1. CASE Answer(r, "created")
    BY <1>1, <1>2, <2>1, AnswerTo, DoneServes, StaysOne
  <2>2. CASE InsertRefused(r)
    <3>1. CASE To(r, "lookup", "rollback", FALSE, "none")
      BY <1>1, <2>2, <3>1, InsertRefusedTo, ToOne DEF To
    <3>2. CASE /\ Stays(r) /\ req'[r].pc = "done" /\ req'[r].answer = "username_exists"
               /\ ~Made(r)
      BY <1>1, <2>2, <3>2, InsertRefusedTo, StaysOne
    <3> QED
      BY <1>1, <2>2, <3>1, <3>2, InsertRefusedTo
  <2>3. CASE Fault /\ Compensate(r, "hash")
    <3>1. To(r, "lookup", "hash", FALSE, "none") /\ Serves(req'[r])
      BY <1>1, <2>3, CompensateTo DEF Creating
    <3> QED
      BY <1>1, <2>3, <3>1, ToOne DEF To
  <2>4. CASE ~req[r].ask.system /\ Answer(r, "error")
    BY <1>1, <1>2, <2>4, AnswerTo, DoneServes, StaysOne, Makes
  <2> QED
    BY <1>1, <2>1, <2>2, <2>3, <2>4
<1>4. Made(r) => req'[r].pc \notin Early /\ Paid(r)'
  BY <1>3, FaultPays DEF Paid, Removing, Early
<1> QED
  BY <1>1, <1>2, <1>3, <1>4, QuietChange

-----------------------------------------------------------------------------
(* What a failed request leaves behind: the steps of remove.               *)

\* What a step of remove knows.
LEMMA InRemoval ==
    ASSUME ChangeInv, NEW r \in Requests, req[r].pc \in Removing
    PROVE  /\ IInv /\ Serves(req[r]) /\ req[r].pc # "done" /\ req[r].pc # "new"
           /\ req[r].answer = "none" /\ Removal(r).name \in Names
           /\ Removal(r).terminate => req[r].why = "delete"
           /\ Removal(r).keys => req[r].why = "delete" /\ req[r].ask.keys
           /\ Made(r) => maker[Removal(r).name] = r
           /\ req[r].why = "delete" => ~Made(r)
<1>1. IInv /\ Serves(req[r]) /\ req[r].pc # "done" /\ req[r].pc # "new"
  BY DEF ChangeInv, Removing
<1>2. req[r].answer = "none" /\ Removal(r).name \in Names
  BY <1>1, InFlightAnswer, InRemove
<1>3. req[r].why = "delete" => ~Made(r)
  BY Makes
<1>4. Made(r) => maker[Removal(r).name] = r
  BY <1>1, InRemove, Makes DEF Removes
<1>5. /\ Removal(r).terminate => req[r].why = "delete"
      /\ Removal(r).keys => req[r].why = "delete" /\ req[r].ask.keys
  BY DEF Removal
<1> QED
  BY <1>1, <1>2, <1>3, <1>4, <1>5

\* remove fails: a fault is paid for, or the request has no account.
LEMMA FailurePays ==
    ASSUME ChangeInv, NEW r \in Requests, req[r].pc \in Removing, RemoveFailed(r),
           Made(r)' => Made(r) /\ Fault
    PROVE  Paid(r)'
<1> SUFFICES ASSUME Made(r), Fault PROVE Paid(r)'
  BY DEF Paid
<1>1. req'[r].pc \notin Removing /\ req'[r].pc # "write"
  BY RemoveFailedTo DEF Removing
<1>2. req[r].why # "delete" /\ Paid(r)
  BY Makes DEF ChangeInv
<1>3. faults \in Nat /\ faults' = faults + 1
  BY FaultPays
<1>4. req[r].why \in {"undo", "hash"} => faults >= 1
  BY <1>2 DEF Paid
<1>5. CASE /\ req[r].why \in {"undo", "hash"}
           /\ req'[r].answer \in {"system_user_create_failed", "error"}
  BY <1>1, <1>3, <1>4, <1>5 DEF Paid
<1>6. CASE req'[r].answer = "panel_user_create_failed_rollback_failed"
  BY <1>1, <1>3, <1>6 DEF Paid
<1>7. \/ /\ req[r].why \in {"undo", "hash"}
         /\ req'[r].answer \in {"system_user_create_failed", "error"}
      \/ req'[r].answer = "panel_user_create_failed_rollback_failed"
  BY <1>2, RemoveFailedTo
<1> QED
  BY <1>5, <1>6, <1>7

LEMMA RemoveFailedChange ==
    ASSUME ChangeInv, NEW r \in Requests, IInv', req[r].pc \in Removing \ {"userdel", "putback"},
           RemoveFailed(r), UNCHANGED <<rows, host, stops>>,
           Fault \/ (~Made(r) /\ UNCHANGED faults)
    PROVE  ChangeInv'
<1>1. /\ One(r) /\ Serves(req'[r]) /\ req'[r].pc \in {"done", "restore"}
      /\ req'[r].answer = "system_user_delete_failed" => ~req'[r].ask.panel
      /\ req'[r].answer # "created"
  <2>1. Stays(r) /\ faults' \in {faults, faults + 1} /\ stops' = stops
    BY RemoveFailedTo DEF Fault
  <2>2. One(r) /\ req'[r].ask = req[r].ask
    BY <2>1, StaysOne DEF Stays
  <2> QED
    BY <2>2, RemoveFailedTo
<1>2. Made(r)' => Made(r)
  BY DEF Made, host
<1>3. Paid(r)'
  BY <1>2, FailurePays
<1>4. req'[r].pc \notin Early /\ req'[r].pc # "insert"
  BY <1>1 DEF Early
<1>5. req[r].pc # "done"
  BY DEF Removing
<1> QED
  BY <1>1, <1>3, <1>4, <1>5, QuietChange

\* remove goes on, or a deletion is done without userdel.
LEMMA GoesOnChange ==
    ASSUME ChangeInv, NEW r \in Requests, IInv', req[r].pc \in Removing \ {"userdel", "putback"},
           One(r), Serves(req'[r]), req'[r].why = req[r].why, UNCHANGED <<rows, host, faults>>,
           \/ req'[r].pc \in Removing /\ req'[r].answer = "none"
           \/ req'[r].answer = "deleted" /\ req[r].why = "delete"
    PROVE  ChangeInv'
<1>1. Made(r) => req'[r].pc \in Removing /\ req'[r].answer = "none"
  BY InRemoval
<1>2. Made(r) => Paid(r)'
  BY <1>1 DEF Paid, ChangeInv, Removing
<1>3. Made(r) => req'[r].pc \notin Early /\ req'[r].pc # "insert" /\ req'[r].answer # "created"
  BY <1>1 DEF Removing, Early
<1>4. req[r].pc # "done" /\ req'[r].answer # "system_user_delete_failed"
  BY DEF Removing
<1> QED
  BY <1>2, <1>3, <1>4, QuietChange

LEMMA LookupChange ==
    ASSUME ChangeInv, NEW r \in Requests, Lookup(r) \/ Terminate(r) \/ ReadKey(r)
    PROVE  ChangeInv'
<1>1. /\ req[r].pc \in {"lookup", "terminate", "readkey"}
      /\ UNCHANGED <<rows, host, faults, stops>>
      /\ \/ RemoveFailed(r) /\ (~Exists(Removal(r).name) \/ req[r].pc = "readkey")
         \/ Go(r, "terminate") /\ Removal(r).terminate
         \/ Go(r, "readkey") /\ Removal(r).keys
         \/ AfterKeys(r)
         \/ req[r].pc = "readkey" /\ req' = [req EXCEPT ![r].pc = "unlink", ![r].backup = TRUE]
  BY DEF Lookup, Terminate, ReadKey
<1>2. req[r].pc \in Removing \ {"userdel", "putback"} /\ IInv'
  BY <1>1, LookupKeeps DEF Removing, ChangeInv
<1>3. /\ IInv /\ Serves(req[r]) /\ req[r].answer = "none" /\ Removal(r).name \in Names
      /\ req[r].pc = "readkey" => req[r].why = "delete" /\ req[r].ask.keys
  BY <1>2, InRemoval DEF Serves
<1>4. CASE RemoveFailed(r) /\ (~Exists(Removal(r).name) \/ req[r].pc = "readkey")
  <2>1. ~Made(r)
    BY <1>2, <1>3, <1>4, InRemoval, NobodyIsNobody DEF Exists, Ids
  <2> QED
    BY <1>1, <1>2, <1>4, <2>1, RemoveFailedChange
<1>5. ASSUME NEW pc \in {"terminate", "readkey"}, Go(r, pc), req[r].why = "delete",
             pc = "readkey" => req[r].ask.keys
      PROVE  ChangeInv'
  <2>1. Stays(r) /\ req'[r].pc = pc /\ req'[r].answer = "none"
    BY <1>3, <1>5, GoTo
  <2>2. Serves(req'[r]) /\ req'[r].pc \in Removing
    BY <1>3, <1>5, <2>1 DEF Serves, Stays, Creating, Removing
  <2> QED
    BY <1>1, <1>2, <2>1, <2>2, StaysOne, GoesOnChange DEF Stays
<1>6. CASE AfterKeys(r)
  <2>1. /\ Stays(r) /\ Serves(req'[r])
        /\ \/ req'[r].pc \in Removing /\ req'[r].answer = "none"
           \/ req'[r].answer = "deleted" /\ req[r].why = "delete"
    BY <1>2, <1>6, AfterKeysTo DEF Removing
  <2> QED
    BY <1>1, <1>2, <2>1, StaysOne, GoesOnChange DEF Stays
<1>7. CASE req[r].pc = "readkey" /\ req' = [req EXCEPT ![r].pc = "unlink", ![r].backup = TRUE]
  <2>1. /\ \A g \in Requests \ {r} : req'[g] = req[g]
        /\ req'[r].pc = "unlink" /\ req'[r].backup = TRUE /\ req'[r].why = req[r].why
        /\ req'[r].ask = req[r].ask /\ req'[r].row = req[r].row /\ req'[r].answer = "none"
    BY <1>3, <1>7, ReqTyped DEF Req
  <2>2. Serves(req'[r]) /\ req'[r].pc \in Removing
    BY <1>3, <1>7, <2>1 DEF Serves, Creating, Removing
  <2>3. One(r)
    BY <1>1, <2>1 DEF One
  <2> QED
    BY <1>1, <1>2, <2>1, <2>2, <2>3, GoesOnChange
<1> QED
  BY <1>1, <1>2, <1>4, <1>5, <1>6, <1>7, InRemoval

LEMMA CommandFailsChange ==
    ASSUME ChangeInv, NEW r \in Requests, CommandFails(r)
    PROVE  ChangeInv'
<1>1. req[r].pc \in Removing \ {"userdel", "putback"} /\ IInv'
  BY UnlinkKeeps DEF CommandFails, Removing, ChangeInv
<1> QED
  BY <1>1, RemoveFailedChange DEF CommandFails

\* The key that a step of remove still owes is that of the account it removes.
LEMMA KeyOwed ==
    ASSUME ChangeInv, NEW r \in Requests, req[r].pc \in Removing, NEW m, HasKey(r, m)
    PROVE  /\ Removal(r).name = m /\ TakesKey(r, m) /\ req[r].backup
           /\ req[r].pc = "userdel" \/ (req[r].pc = "putback" /\ faults >= 1)
<1>1. IInv /\ req[r].answer = "none"
  BY InRemoval
<1>2. ~Undoes(req[r])
  BY KindsDiffer DEF HasKey, TakesKey, Undoes
<1> QED
  BY <1>1, <1>2, InRemove DEF HasKey, TakesKey

LEMMA UnlinkChange ==
    ASSUME ChangeInv, NEW r \in Requests, Unlink(r)
    PROVE  ChangeInv'
<1> PICK n \in Names : n = Removal(r).name
  BY InRemoval DEF Unlink, Removing
<1>1. /\ req[r].pc = "unlink" /\ req[r].pc \in Removing
      /\ UNCHANGED <<rows, maker, home, faults, stops>>
      /\ keys' = keys \ {n}
      /\ IF n \in keys THEN AfterKeys(r) ELSE RemoveFailed(r)
  BY DEF Unlink, Removing
<1>2. /\ IInv /\ IInv' /\ req[r].why = "delete" /\ req[r].backup /\ req[r].ask.keys
      /\ req[r].ask \in Deletes /\ req[r].row.link = n
      /\ ~Made(r) /\ home \subseteq Names /\ req[r].pc # "done"
  <2>1. IInv /\ Serves(req[r])
    BY DEF ChangeInv
  <2> QED
    BY <1>1, <2>1, InRemoval, InRemove, UnlinkKeeps, FaultTyped
       DEF Serves, Undoes, RestTyped
<1>3. /\ Stays(r) /\ Serves(req'[r]) /\ req'[r].pc \in {"userdel", "restore", "done"}
      /\ req'[r].answer = "system_user_delete_failed" => ~req'[r].ask.panel
      /\ req'[r].answer # "created"
      /\ n \in keys => req'[r].pc = "userdel" \/ req'[r].answer = "deleted"
  <2>1. CASE n \in keys
    BY <1>1, <2>1, AfterKeysTo
  <2>2. CASE n \notin keys
    <3>1. RemoveFailed(r)
      BY <1>1, <2>2
    <3>2. Stays(r) => req'[r].ask = req[r].ask
      BY DEF Stays
    <3> QED
      BY <1>1, <1>2, <2>2, <3>1, <3>2, RemoveFailedTo
  <2> QED
    BY <2>1, <2>2
<1>4. One(r)
  BY <1>1, <1>3, StaysOne
<1>5. Mine'
  BY <1>1, <1>2, <1>4, MineKept
<1>6. Paid(r)'
  BY <1>1, <1>2 DEF Paid, Made
<1>7. HomeInv'
  BY <1>1, <1>2, <1>4, HomeKept
<1>8. RowInv'
  BY <1>1, <1>2, <1>3, <1>4, RowsKept
<1>9. n \in keys => HasKey(r, n)'
  BY <1>2, <1>3, DeleteFields DEF HasKey, TakesKey, Stays
<1>10. \A m : ~HasKey(r, m)
  BY <1>1, KeyOwed
<1>11. KeyInv'
  <2>1. ASSUME NEW m \in Names, Given(m)' PROVE Given(m)
    BY <1>1, <1>2, <1>4, <2>1, GivenBefore DEF Made
  <2>2. \A m \in keys : m \in keys' \/ m = n
    BY <1>1
  <2> QED
    BY <1>1, <1>4, <1>9, <1>10, <2>1, <2>2, KeysKept
<1> QED
  BY <1>1, <1>2, <1>3, <1>4, <1>5, <1>6, <1>7, <1>8, <1>11, OneKeeps

\* restoreSSHKey, which puts the key back if the account is still there.
LEMMA PutBackChange ==
    ASSUME ChangeInv, NEW r \in Requests, PutBack(r) \/ PutBackFails(r)
    PROVE  ChangeInv'
<1> PICK n \in Names : n = Removal(r).name
  BY InRemoval DEF PutBack, PutBackFails, Removing
<1>1. /\ req[r].pc = "putback" /\ req[r].pc \in Removing
      /\ UNCHANGED <<rows, maker, home, stops>> /\ keys \subseteq keys'
      /\ faults' \in {faults, faults + 1} /\ RemoveFailed(r)
      /\ Fault \/ (n \in home => n \in keys')
  BY DEF PutBack, PutBackFails, Removing, Fault, host
<1>2. /\ IInv /\ IInv' /\ req[r].why = "delete" /\ ~Made(r)
      /\ home \subseteq Names /\ req[r].pc # "done"
  <2>1. IInv /\ Serves(req[r])
    BY DEF ChangeInv
  <2> QED
    BY <1>1, <2>1, InRemoval, PutBackKeeps, FaultTyped DEF Serves, RestTyped
<1>3. /\ Stays(r) /\ Serves(req'[r])
      /\ req'[r].answer = "system_user_delete_failed" => ~req'[r].ask.panel
  BY <1>1, <1>2, RemoveFailedTo DEF Stays
<1>4. One(r)
  BY <1>1, <1>3, StaysOne
<1>5. Mine'
  BY <1>1, <1>2, <1>4, MineKept
<1>6. Paid(r)'
  BY <1>1, <1>2 DEF Paid, Made
<1>7. HomeInv'
  BY <1>1, <1>2, <1>4, HomeKept
<1>8. RowInv'
  BY <1>1, <1>2, <1>3, <1>4, RowsKept
<1>9. KeyInv'
  <2>1. ASSUME NEW m \in Names, Given(m)' PROVE Given(m) /\ m \in home
    BY <1>1, <1>2, <1>4, <2>1, GivenBefore DEF Made, ChangeInv, KeyInv
  <2>2. ASSUME NEW m \in Names, HasKey(r, m) PROVE m = n /\ faults >= 1
    BY <1>1, <2>2, KeyOwed
  <2>3. Fault /\ faults >= 1 => ~(faults' <= 1)
    BY FaultPays
  <2> QED
    BY <1>1, <1>4, <2>1, <2>2, <2>3, KeysKept
<1> QED
  BY <1>1, <1>2, <1>3, <1>4, <1>5, <1>6, <1>7, <1>8, <1>9, OneKeeps

\* The account that a creation removes again is its own, or one that a deletion is
\* aimed at: if its home directory stays, it was asked to.
LEMMA HomeIsLeft ==
    ASSUME ChangeInv, NEW r \in Requests, req[r].pc = "userdel", faults = 0,
           ~Removal(r).home, NEW n \in home, n = Removal(r).name
    PROVE  HomeLeft(n)
<1>1. IInv /\ req[r].pc \in Removing
  BY DEF ChangeInv, Removing
<1>2. ~req[r].ask.home
  BY DEF Removal
<1>3. CASE Removes(req[r])
  <2>1. AimedAt(r, n)
    BY <1>1, <1>3, InRemove, ReqTyped, DeleteFields DEF AimedAt, Removes, Deletion, Fits
  <2> QED
    BY <1>2, <2>1 DEF HomeLeft
<1>4. CASE Undoes(req[r])
  <2>1. AsksFor(r, n) /\ Needs(req[r]) /\ n = req[r].ask.sys
    BY <1>1, <1>4, InRemove, CreateFields DEF AsksFor, Needs, Undoes, Holding
  <2>2. maker[n] = r \/ \E d \in Requests : AimedAt(d, n)
    BY <1>1, <2>1 DEF IInv, Kept, Aimed
  <2>3. CASE \E d \in Requests : AimedAt(d, n)
    BY <1>2, <2>1, <2>3 DEF HomeLeft
  <2>4. CASE maker[n] = r
    <3>1. Housed(n) \/ HomeLeft(n)
      BY DEF ChangeInv, HomeInv
    <3>2. Housed(n) => \E g \in Requests : AsksFor(g, n) /\ req[g].ask.ssh
      BY <1>2, <2>4, NobodyIsNobody DEF Housed
    <3> QED
      BY <1>2, <2>1, <3>1, <3>2 DEF HomeLeft
  <2> QED
    BY <2>2, <2>3, <2>4
<1> QED
  BY <1>1, <1>3, <1>4, InRemove

LEMMA UserdelChange ==
    ASSUME ChangeInv, NEW r \in Requests, Userdel(r)
    PROVE  ChangeInv'
<1> PICK n \in Names : n = Removal(r).name
  BY InRemoval DEF Userdel, Removing
<1>1. /\ req[r].pc = "userdel" /\ req[r].pc \in Removing
      /\ UNCHANGED <<rows, faults, stops>>
      /\ maker' = [maker EXCEPT ![n] = Nobody]
      /\ IF Exists(n) THEN Removed(r) ELSE UserdelError(r)
      /\ home' \subseteq home /\ home \subseteq home' \cup {n}
      /\ keys' \subseteq keys /\ keys \subseteq keys' \cup {n}
      /\ n \in home' => ~Exists(n) \/ ~Removal(r).home
  BY DEF Userdel, Removing
<1>2. /\ IInv /\ IInv' /\ home \subseteq Names /\ req[r].pc # "done"
      /\ maker \in [Names -> Ids \cup {Nobody}]
      /\ Made(r) => maker[n] = r
  BY <1>1, InRemoval, UserdelKeeps, FaultTyped DEF RestTyped
<1>3. /\ maker'[n] = Nobody /\ r # Nobody /\ Nobody \notin Founders /\ Nobody \notin Requests
      /\ \A m \in Names \ {n} : maker'[m] = maker[m]
  BY <1>1, <1>2, NobodyIsNobody DEF Ids
<1>4. /\ Stays(r) /\ Serves(req'[r]) /\ req'[r].pc \in {"putback", "restore", "done"}
      /\ req'[r].answer = "system_user_delete_failed" => ~req'[r].ask.panel
      /\ req'[r].answer # "created"
  <2>1. CASE Removed(r)
    BY <1>1, <2>1, RemovedTo
  <2>2. CASE UserdelError(r)
    <3>1. Stays(r) /\ Serves(req'[r])
      BY <1>1, <2>2, UserdelErrorTo
    <3>2. CASE req'[r].pc = "putback" /\ req'[r].answer = "none"
      BY <3>1, <3>2
    <3>3. CASE RemoveFailed(r)
      BY <1>1, <3>1, <3>3, RemoveFailedTo DEF Stays
    <3> QED
      BY <1>1, <2>2, <3>2, <3>3, UserdelErrorTo
  <2> QED
    BY <1>1, <2>1, <2>2
<1>5. One(r)
  BY <1>1, <1>4, StaysOne
<1>6. \A m \in Names : maker'[m] # r
  BY <1>2, <1>3 DEF ChangeInv, Mine, Made
<1>7. Mine'
  <2>1. \A m \in Names : maker'[m] \in {maker[m], Nobody}
    BY <1>3
  <2>2. req'[r].pc \notin Early
    BY <1>4 DEF Early
  <2> QED
    BY <1>5, <2>1, <2>2, MineKept
<1>8. Paid(r)'
  BY <1>6 DEF Paid, Made
<1>9. HomeInv'
  <2>1. ASSUME faults' = 0, n \in home'
        PROVE  (n \in home /\ maker'[n] = maker[n]) \/ HomeLeft(n)'
    <3>1. CASE ~Exists(n)
      BY <1>1, <1>3, <2>1, <3>1 DEF Exists
    <3>2. CASE ~Removal(r).home
      <4>1. HomeLeft(n)
        BY <1>1, <2>1, <3>2, HomeIsLeft
      <4> QED
        BY <1>2, <1>5, <4>1, OnePersists, AsksPersist
    <3> QED
      BY <1>1, <2>1, <3>1, <3>2
  <2>2. home' \subseteq Names
    BY <1>1, <1>2
  <2> QED
    BY <1>1, <1>3, <1>5, <2>1, <2>2, HomeKept
<1>10. RowInv'
  BY <1>1, <1>2, <1>4, <1>5, RowsKept
<1>11. KeyInv'
  <2>1. ASSUME NEW m \in Names, Given(m)' PROVE m # n /\ Given(m)
    <3>1. m # n
      BY <1>3, <2>1 DEF Given
    <3>2. maker'[m] = maker[m] /\ maker[m] # r
      BY <1>3, <1>6, <3>1
    <3> QED
      BY <1>5, <2>1, <3>1, <3>2, GivenBefore
  <2>2. ASSUME NEW m \in Names, HasKey(r, m) PROVE m = n
    BY <1>1, <2>2, KeyOwed
  <2> QED
    BY <1>1, <1>5, <2>1, <2>2, KeysKept
<1> QED
  <2>1. \A m \in Names : maker'[m] \in {maker[m], Nobody, r}
    BY <1>3
  <2>2. \A m \in home : m \in home' \/ maker'[m] = Nobody
    BY <1>1, <1>3
  <2> QED
    BY <1>2, <1>4, <1>5, <1>7, <1>8, <1>9, <1>10, <1>11, <2>1, <2>2, OneKeeps

LEMMA UserdelFailsChange ==
    ASSUME ChangeInv, NEW r \in Requests, UserdelFails(r)
    PROVE  ChangeInv'
<1> PICK n \in Names : n = Removal(r).name
  BY InRemoval DEF UserdelFails, Removing
<1>1. /\ req[r].pc = "userdel" /\ req[r].pc \in Removing /\ Fault
      /\ UNCHANGED <<rows, home, keys, stops>>
      /\ maker' \in {maker, [maker EXCEPT ![n] = Nobody]}
      /\ UserdelError(r)
  BY DEF UserdelFails, Removing
<1>2. /\ IInv /\ IInv' /\ home \subseteq Names /\ req[r].pc # "done"
      /\ maker \in [Names -> Ids \cup {Nobody}]
      /\ Serves(req[r])
  BY <1>1, InRemoval, UserdelKeeps, FaultTyped DEF RestTyped
<1>3. faults \in Nat /\ faults' = faults + 1
  BY <1>1, FaultPays
<1>4. \A m \in Names : maker'[m] \in {maker[m], Nobody}
  BY <1>1, <1>2
<1>5. /\ Stays(r) /\ Serves(req'[r]) /\ req'[r].pc \in {"putback", "restore", "done"}
      /\ req'[r].answer = "system_user_delete_failed" => ~req'[r].ask.panel
      /\ req'[r].answer # "created"
      /\ req[r].backup => req'[r].pc = "putback" /\ req'[r].backup
      /\ ~req[r].backup => RemoveFailed(r)
  <2>1. Stays(r) /\ Serves(req'[r])
    BY <1>1, UserdelErrorTo
  <2>2. CASE req[r].backup /\ req'[r].pc = "putback" /\ req'[r].answer = "none"
    BY <2>1, <2>2 DEF Stays
  <2>3. CASE ~req[r].backup /\ RemoveFailed(r)
    BY <1>1, <2>1, <2>3, RemoveFailedTo DEF Stays
  <2> QED
    BY <1>1, <2>2, <2>3, UserdelErrorTo
<1>6. One(r)
  BY <1>1, <1>3, <1>5, StaysOne
<1>7. Made(r)' => Made(r)
  BY <1>4, NobodyIsNobody DEF Made, Ids
<1>8. Mine'
  <2>1. req'[r].pc \notin Early
    BY <1>5 DEF Early
  <2> QED
    BY <1>4, <1>6, <2>1, MineKept
<1>9. Paid(r)'
  <2>1. CASE req[r].backup
    <3>1. ~Made(r)
      BY <1>1, <1>2, <2>1, InRemoval DEF Serves
    <3> QED
      BY <1>7, <3>1 DEF Paid
  <2>2. CASE ~req[r].backup
    BY <1>1, <1>5, <1>7, <2>2, FailurePays
  <2> QED
    BY <2>1, <2>2
<1>10. HomeInv'
  BY <1>3 DEF HomeInv
<1>11. RowInv'
  BY <1>1, <1>2, <1>5, <1>6, RowsKept
<1>12. KeyInv'
  <2>1. ASSUME NEW m \in Names, Given(m)' PROVE Given(m)
    BY <1>4, <1>5, <1>6, <2>1, GivenBefore
  <2>2. ASSUME NEW m \in Names, HasKey(r, m) PROVE HasKey(r, m)'
    BY <1>1, <1>3, <1>5, <2>2, KeyOwed DEF HasKey, TakesKey, Stays
  <2> QED
    BY <1>1, <1>6, <2>1, <2>2, KeysKept
<1> QED
  BY <1>1, <1>2, <1>4, <1>5, <1>6, <1>8, <1>9, <1>10, <1>11, <1>12, OneKeeps

-----------------------------------------------------------------------------
(* What a failed request leaves behind: the steps of deleteUser, the stop. *)

LEMMA ReceiveDeleteChange ==
    ASSUME ChangeInv, NEW r \in Requests, NEW d \in Deletes, NEW u \in rows,
           ReceiveDelete(r, d, u)
    PROVE  ChangeInv'
<1>1. /\ IInv /\ IInv' /\ req[r].pc = "new" /\ Serves(req[r])
      /\ req' = [req EXCEPT ![r].ask = d, ![r].row = u, ![r].pc = "remove"]
      /\ UNCHANGED <<rows, host, faults, stops>>
  BY ReceiveDeleteKeeps DEF ChangeInv, ReceiveDelete
<1>2. /\ \A g \in Requests \ {r} : req'[g] = req[g]
      /\ req'[r].why = req[r].why /\ req'[r].backup = req[r].backup
      /\ req'[r].pc = "remove" /\ req'[r].answer = req[r].answer
  BY <1>1, ReqTyped DEF Req
<1>3. Serves(req'[r])
  BY <1>1, <1>2 DEF Serves, Creating
<1>4. One(r)
  BY <1>1, <1>2 DEF One
<1> QED
  BY <1>1, <1>2, <1>3, <1>4, Makes, EarlyChange, InFlightAnswer

LEMMA RemoveRowChange ==
    ASSUME ChangeInv, NEW r \in Requests, RemoveRow(r)
    PROVE  ChangeInv'
<1>1. /\ IInv /\ IInv' /\ req[r].pc = "remove" /\ req[r].ask \in Deletes /\ ~Made(r)
      /\ UNCHANGED <<host, faults, stops>>
      /\ rows' = IF req[r].ask.panel THEN {v \in rows : v.id # req[r].row.id} ELSE rows
      /\ Compensate(r, "delete") \/ Answer(r, "deleted")
  <2>1. IInv /\ IInv'
    BY RemoveRowKeeps DEF ChangeInv
  <2>2. req[r].pc = "remove"
    BY DEF RemoveRow
  <2>3. req[r].ask \in Deletes
    BY <2>1, <2>2, ReqTyped DEF Fits, Deletion
  <2> QED
    BY <2>1, <2>2, <2>3, Makes DEF RemoveRow
<1>2. /\ One(r) /\ Serves(req'[r]) /\ req'[r].ask = req[r].ask /\ req'[r].row = req[r].row
      /\ req'[r].answer \in {"none", "deleted"}
  <2>1. CASE Compensate(r, "delete")
    BY <1>1, <2>1, CompensateTo, ToOne DEF To
  <2>2. CASE Answer(r, "deleted")
    BY <1>1, <2>2, AnswerTo, DoneServes, StaysOne DEF Stays
  <2> QED
    BY <1>1, <2>1, <2>2
<1>3. \A u \in rows : u \in rows' \/ TakesRow(r, u)'
  BY <1>1, <1>2, DeleteFields DEF TakesRow
<1> QED
  BY <1>1, <1>2, <1>3, QuietChange

LEMMA RestoreChange ==
    ASSUME ChangeInv, NEW r \in Requests, Restore(r) \/ RestoreFails(r)
    PROVE  ChangeInv'
<1>1. /\ IInv /\ IInv' /\ req[r].pc = "restore" /\ ~Made(r)
      /\ UNCHANGED <<host, stops>> /\ faults' \in {faults, faults + 1}
      /\ rows \subseteq rows'
      /\ \/ Answer(r, "system_user_delete_failed_rollback_failed")
         \/ Answer(r, "system_user_delete_failed") /\ req[r].row \in rows'
  <2>1. IInv /\ IInv'
    BY RestoreKeeps DEF ChangeInv
  <2>2. req[r].pc = "restore"
    BY DEF Restore, RestoreFails
  <2>3. req[r].ask \in Deletes
    BY <2>1, <2>2, ReqTyped DEF Fits, Deletion
  <2> QED
    BY <2>1, <2>2, <2>3, Makes DEF Restore, RestoreFails, Fault
<1>2. /\ One(r) /\ Serves(req'[r])
      /\ req'[r].answer = "system_user_delete_failed" => req'[r].row \in rows'
  BY <1>1, AnswerTo, DoneServes, StaysOne DEF Stays
<1> QED
  BY <1>1, <1>2, QuietChange

\* The panel stops: every request that runs is given up where it is.
LEMMA StopChange ==
    ASSUME ChangeInv, Stop
    PROVE  ChangeInv'
<1>1. /\ IInv /\ IInv' /\ rows' = rows /\ maker' = maker /\ home' = home /\ keys' = keys
      /\ faults' = faults /\ stops \in Nat /\ stops' = stops + 1
  <2>1. IInv /\ IInv' /\ stops \in 0..MaxStops
    BY StopKeeps, FaultTyped DEF ChangeInv, RestTyped
  <2>2. stops' = stops + 1 /\ UNCHANGED <<rows, host, faults>>
    BY DEF Stop
  <2>3. rows' = rows /\ maker' = maker /\ home' = home /\ keys' = keys /\ faults' = faults
    BY <2>2 DEF host
  <2>4. stops \in Nat
    BY <2>1, BoundsAssumption
  <2> QED
    BY <2>1, <2>2, <2>3, <2>4
<1>2. ASSUME NEW g \in Requests
      PROVE  /\ req'[g].ask = req[g].ask /\ req'[g].row = req[g].row
             /\ req'[g].why = req[g].why /\ req'[g].backup = req[g].backup
             /\ \/ req'[g] = req[g]
                \/ req'[g].pc = "done" /\ req'[g].answer = "stopped"
  BY <1>1, ReqTyped DEF Stop, Req
<1>3. \A g \in Requests : Serves(req'[g])
  BY <1>2 DEF ChangeInv, Serves, Creating
<1>4. Mine'
  BY <1>1, <1>2 DEF ChangeInv, Mine, Early
<1>5. ASSUME NEW g \in Requests PROVE Paid(g)'
  <2>1. Made(g)' <=> Made(g)
    BY <1>1 DEF Made
  <2> QED
    BY <1>1, <1>2, <2>1 DEF ChangeInv, Paid, Removing
<1>6. HomeInv'
  <2>1. Persists
    BY <1>2 DEF Persists
  <2>2. ASSUME faults = 0, NEW n \in home PROVE Housed(n)' \/ HomeLeft(n)'
    <3>1. n \in Names /\ (Housed(n) \/ HomeLeft(n))
      BY <1>1, <2>2, FaultTyped DEF RestTyped, ChangeInv, HomeInv
    <3> QED
      BY <1>1, <2>1, <3>1, HousedKept
  <2> QED
    BY <1>1, <2>2 DEF HomeInv
<1>7. RowInv'
  <2>1. \A d \in Requests : \A u : TakesRow(d, u) => TakesRow(d, u)'
    BY <1>2 DEF TakesRow
  <2>2. ASSUME NEW d \in Requests,
               req'[d].answer = "system_user_delete_failed", req'[d].ask.panel
        PROVE  req'[d].row \in rows \/ \E e \in Requests \ {d} : TakesRow(e, req[d].row)
    BY <1>2, <2>2 DEF ChangeInv, RowInv
  <2>3. \A d \in Requests, e \in Requests : TakesRow(e, req[d].row) => TakesRow(e, req[d].row)'
    BY <1>2 DEF TakesRow
  <2> QED
    BY <1>1, <2>2, <2>3 DEF RowInv
<1>8. KeyInv'
  <2>1. ASSUME NEW n \in Names, Given(n)' PROVE Given(n)
    BY <1>1, <1>2, <2>1 DEF Given
  <2> QED
    BY <1>1, <2>1 DEF ChangeInv, KeyInv
<1> QED
  BY <1>1, <1>3, <1>4, <1>5, <1>6, <1>7, <1>8 DEF ChangeInv

LEMMA StutterChange == ASSUME ChangeInv, UNCHANGED vars PROVE ChangeInv'
<1>1. /\ IInv' /\ rows' = rows /\ maker' = maker /\ home' = home /\ keys' = keys
      /\ req' = req /\ faults' = faults /\ stops' = stops
  BY StutterKeeps DEF ChangeInv, vars, host
<1>2. /\ Mine' /\ HomeInv' /\ RowInv'
      /\ \A r \in Requests : Serves(req'[r]) /\ Paid(r)'
  BY <1>1
     DEF ChangeInv, Mine, HomeInv, Housed, HomeLeft, AsksFor, AimedAt, Exists, RowInv,
              TakesRow, Paid, Made
<1>3. KeyInv'
  BY <1>1 DEF ChangeInv, KeyInv, Given, HasKey, TakesKey
<1> QED
  BY <1>1, <1>2, <1>3 DEF ChangeInv

LEMMA InitChange == Init => ChangeInv
<1> SUFFICES ASSUME Init PROVE ChangeInv
  OBVIOUS
<1>1. IInv
  BY InitIInv
<1>2. ASSUME NEW r \in Requests
      PROVE  /\ req[r].pc = "new" /\ req[r].why = "none" /\ req[r].backup = FALSE
             /\ req[r].answer = "none"
  BY DEF Init
<1>3. ASSUME NEW n \in Names
      PROVE  maker[n] \in Founders \cup {Nobody} /\ (maker[n] \in Founders <=> n \in Founders)
  BY NamesAssumption DEF Init
<1>4. \A r \in Requests : Serves(req[r])
  BY <1>2 DEF Serves, Creating
<1>5. \A r \in Requests : ~Made(r)
  BY <1>3, NobodyIsNobody DEF Made, Ids
<1>6. Mine /\ \A r \in Requests : Paid(r)
  BY <1>5 DEF Mine, Paid, Made
<1>7. HomeInv
  BY <1>3, NamesAssumption DEF HomeInv, Housed, Init
<1>8. RowInv
  BY <1>2 DEF RowInv
<1>9. ASSUME NEW n \in Names, Given(n) PROVE n \in Founders
  BY <1>3, <1>5, <1>9 DEF Given, Made
<1>10. KeyInv
  BY <1>9 DEF KeyInv, Init
<1> QED
  BY <1>1, <1>4, <1>6, <1>7, <1>8, <1>10 DEF ChangeInv

LEMMA StepChange == ASSUME ChangeInv, [Next]_vars PROVE ChangeInv'
<1>1. ASSUME NEW r \in Requests, Create(r) PROVE ChangeInv'
  BY <1>1, ReceiveCreateChange, CountUsersChange, InsertChange DEF Create
<1>2. ASSUME NEW r \in Requests, HelperCreate(r) PROVE ChangeInv'
  BY <1>2, InspectChange, UseraddRefusedChange, UseraddHalfChange, UseraddChange,
     MakeSSHChange, WriteKeyChange
     DEF HelperCreate
<1>3. ASSUME NEW r \in Requests, HelperRemove(r) PROVE ChangeInv'
  BY <1>3, LookupChange, UnlinkChange, CommandFailsChange, UserdelChange, UserdelFailsChange,
     PutBackChange
     DEF HelperRemove
<1>4. ASSUME NEW r \in Requests, Delete(r) PROVE ChangeInv'
  BY <1>4, ReceiveDeleteChange, RemoveRowChange, RestoreChange DEF Delete
<1> QED
  BY <1>1, <1>2, <1>3, <1>4, StopChange, StutterChange DEF Next

THEOREM ChangeInvariance == Spec => []ChangeInv
BY InitChange, StepChange, PTL DEF Spec

\* A creation that is refused leaves no Linux account behind, but for the faults that
\* its answer tells of, and no home directory but one that was asked to be left, for
\* any number of requests, faults and stops (createUser, create, remove).
THEOREM RefusedCreationsLeaveNothing == Spec => []FailedCreateLeavesNothing
<1>1. ChangeInv => FailedCreateLeavesNothing
  <2> SUFFICES ASSUME ChangeInv PROVE FailedCreateLeavesNothing
    OBVIOUS
  <2>1. faults \in Nat
    BY FaultTyped DEF ChangeInv, RestTyped
  <2>2. ASSUME NEW r \in Requests, Made(r)
        PROVE  /\ req[r].answer \notin {"username_exists", "system_username_exists"}
               /\ ~(/\ req[r].answer \in {"system_user_create_failed", "error"}
                    /\ faults <= 1 /\ (req[r].why = "none" => faults = 0))
               /\ ~(req[r].answer = "panel_user_create_failed_rollback_failed" /\ faults = 0)
    BY <2>1, <2>2 DEF ChangeInv, Paid
  <2>3. ASSUME faults = 0, NEW n \in home PROVE Exists(n) \/ HomeLeft(n)
    <3>1. Housed(n) \/ HomeLeft(n)
      BY <2>3 DEF ChangeInv, HomeInv
    <3>2. Housed(n) => Exists(n)
      BY NobodyIsNobody DEF Housed, Exists, Ids
    <3> QED
      BY <3>1, <3>2
  <2> QED
    BY <2>2, <2>3 DEF FailedCreateLeavesNothing
<1> QED
  BY <1>1, ChangeInvariance, PTL

\* A deletion that is answered as failed has put back the row that it took and, after
\* at most one fault, the key of an account that is still there, for any number of
\* requests (deleteUser, restorePanelUser, remove).
THEOREM FailedDeletionsLoseNothing == Spec => []FailedDeleteLosesNothing
<1>1. ChangeInv => FailedDeleteLosesNothing
  <2> SUFFICES ASSUME ChangeInv PROVE FailedDeleteLosesNothing
    OBVIOUS
  <2>1. \A n : WasGivenKey(n) => Given(n)
    BY DEF WasGivenKey, Given
  <2>2. ASSUME NEW d \in Requests, NEW n, HasKey(d, n)
        PROVE  TakesKey(d, n) /\ req[d].answer # "system_user_delete_failed"
    <3>1. req[d].pc # "done" => req[d].answer = "none"
      BY InFlightAnswer DEF ChangeInv
    <3> QED
      BY <2>2, <3>1 DEF HasKey
  <2>3. ASSUME faults <= 1, stops = 0, NEW n \in Names, WasGivenKey(n)
        PROVE  n \in keys \/ \E d \in Requests : HasKey(d, n)
    BY <2>1, <2>3 DEF ChangeInv, KeyInv
  <2>4. RowInv
    BY DEF ChangeInv
  <2> QED
    BY <2>2, <2>3, <2>4 DEF FailedDeleteLosesNothing, RowInv
<1> QED
  BY <1>1, ChangeInvariance, PTL
=============================================================================
