--------------------------- MODULE SessionsProofs ---------------------------
(***************************************************************************)
(* Proofs about Sessions: the guard lets no update be lost, for any number *)
(* of writers, writes and deaths of the process; a tracker that has opened *)
(* finds the whole schema; the rows of worktrees and snapshots agree with  *)
(* git, for any number of processes, agents and deaths; and changes follow *)
(* their commits.                                                          *)
(***************************************************************************)
EXTENDS Sessions, FiniteSetTheorems, TLAPS

-----------------------------------------------------------------------------
(* The guard *)

\* While nothing is written, an agent at work has seen the latest write, or the
\* guard can tell that it has not: another agent holds it, since a later time.
CanTell(a) ==
  session[a].working =>
    \/ session[a].seen = version
    \/ session[a].newer /\ guard \in Writers \ {a}

Session == [working : BOOLEAN, seen : Nat, newer : BOOLEAN]

GuardInv ==
  /\ setting.writers \subseteq Writers
  /\ session \in [Writers -> Session]
  /\ version \in Nat
  /\ call = [pc |-> call.pc, agent |-> call.agent, todo |-> call.todo]
  /\ call.pc # "idle" => call.agent \in Writers
  /\ \A cp \in checkpoints : cp.agent \in Writers
  /\ call.pc \in {"idle", "git", "complete"} => \A a \in Writers : CanTell(a)
  /\ call.pc = "git" => session[call.agent].working /\ session[call.agent].seen = version

LEMMA AwayType == Away \in Session
  BY DEF Away, Session

LEMMA GuardInit == Init => GuardInv
  <1> SUFFICES ASSUME Init PROVE GuardInv
    OBVIOUS
  <1>1. setting.writers \subseteq Writers
    BY SessionsAssumption DEF Init, WorktreesInit
  <1>2. session \in [Writers -> Session] /\ version \in Nat
    BY AwayType DEF Init, GuardsInit
  <1>3. call = NoCall /\ checkpoints = {}
    BY DEF Init
  <1>4. \A a \in Writers : CanTell(a)
    BY DEF Init, GuardsInit, CanTell, Away
  <1> QED BY <1>1, <1>2, <1>3, <1>4 DEF GuardInv, NoCall

gvars == <<setting, guvars, call, checkpoints>>

\* What the guard does not see leaves it alone.
LEMMA GuardQuiet ==
  ASSUME GuardInv, UNCHANGED gvars
  PROVE  GuardInv'
  BY DEF GuardInv, CanTell, gvars, guvars

LEMMA GuardRead ==
  ASSUME GuardInv, NEW a \in setting.writers, Read(a)
  PROVE  GuardInv'
  <1>1. /\ call.pc = "idle" /\ UNCHANGED <<setting, call, checkpoints, guard, version>>
        /\ session' = [session EXCEPT ![a] = [working |-> TRUE, seen |-> version, newer |-> FALSE]]
    BY DEF Read, Ready, ReadStream, wtvars
  <1>2. session' \in [Writers -> Session]
    BY <1>1 DEF GuardInv, Session
  <1>3. \A b \in Writers : CanTell(b)'
    BY <1>1 DEF GuardInv, CanTell
  <1> QED BY <1>1, <1>2, <1>3 DEF GuardInv

LEMMA GuardAbandon ==
  ASSUME GuardInv, NEW a \in setting.writers, Abandon(a)
  PROVE  GuardInv'
  <1>1. /\ call.pc = "idle" /\ UNCHANGED <<setting, call, checkpoints, guard, version>>
        /\ session' = [session EXCEPT ![a] = Away]
    BY DEF Abandon, Ready, GiveUp, wtvars
  <1>2. session' \in [Writers -> Session]
    BY <1>1, AwayType DEF GuardInv
  <1>3. \A b \in Writers : CanTell(b)'
    BY <1>1 DEF GuardInv, CanTell, Away
  <1> QED BY <1>1, <1>2, <1>3 DEF GuardInv

\* The validation passes only for an agent that has seen the latest write.
LEMMA GuardBegin ==
  ASSUME GuardInv, NEW a \in setting.writers, Begin(a)
  PROVE  GuardInv'
  <1>1. /\ call.pc = "idle" /\ UNCHANGED <<setting, guvars>>
        /\ call' = [NoCall EXCEPT !.pc = "git", !.agent = a]
        /\ checkpoints' = {[agent |-> a, before |-> branch, lost |-> lost]}
        /\ session[a].working /\ (guard = NoWriter \/ guard = a \/ ~ session[a].newer)
    BY DEF Begin, Ready, ValidateGuard, wtvars
  <1>2. call' = [pc |-> "git", agent |-> a, todo |-> <<>>]
    BY <1>1 DEF NoCall
  <1>3. a \in Writers
    BY DEF GuardInv
  <1>4. session[a].seen = version
    BY <1>1, <1>3, GuardsAssumption DEF GuardInv, CanTell
  <1>5. \A b \in Writers : CanTell(b)'
    BY <1>1 DEF GuardInv, CanTell, guvars
  <1>6. \A cp \in checkpoints' : cp.agent \in Writers
    BY <1>1, <1>3
  <1> QED BY <1>1, <1>2, <1>3, <1>4, <1>5, <1>6 DEF GuardInv, guvars

LEMMA GuardWriteGit ==
  ASSUME GuardInv, WriteGit
  PROVE  GuardInv'
  <1>1. PICK r \in Additions \cup Rewrites :
          call' = [call EXCEPT !.pc = IF r.todo = <<>> THEN "touch" ELSE "rows", !.todo = r.todo]
    BY DEF WriteGit
  <1>2. /\ call.pc = "git" /\ version' = version + 1
        /\ UNCHANGED <<setting, checkpoints, guard, session>>
    BY DEF WriteGit, wtvars
  <1>3. /\ call' = [pc |-> call'.pc, agent |-> call.agent, todo |-> call'.todo]
        /\ call'.pc \in {"touch", "rows"}
    BY <1>1 DEF GuardInv
  <1> QED BY <1>2, <1>3 DEF GuardInv

LEMMA GuardWriteRow ==
  ASSUME GuardInv, WriteRow
  PROVE  GuardInv'
  <1>1. /\ call.pc = "rows" /\ UNCHANGED <<setting, checkpoints, guvars>>
        /\ call' = [call EXCEPT !.todo = Tail(@), !.pc = IF Len(call.todo) = 1 THEN "touch" ELSE "rows"]
    BY DEF WriteRow, wtvars
  <1>2. /\ call' = [pc |-> call'.pc, agent |-> call.agent, todo |-> call'.todo]
        /\ call'.pc \in {"touch", "rows"}
    BY <1>1 DEF GuardInv
  <1> QED BY <1>1, <1>2 DEF GuardInv, guvars

\* After the touch no other agent at work passes the validation.
LEMMA GuardTouch ==
  ASSUME GuardInv, Touch
  PROVE  GuardInv'
  <1> DEFINE a == call.agent
  <1>1. /\ call.pc = "touch" /\ UNCHANGED <<setting, checkpoints, version>>
        /\ call' = [call EXCEPT !.pc = "complete"]
        /\ guard' = a
        /\ session' = [b \in Writers |-> IF b = a THEN Away ELSE [session[b] EXCEPT !.newer = TRUE]]
    BY DEF Touch, TouchGuard, wtvars
  <1>2. call' = [pc |-> "complete", agent |-> a, todo |-> call.todo] /\ a \in Writers
    BY <1>1 DEF GuardInv
  <1>3. \A b \in Writers : [session[b] EXCEPT !.newer = TRUE] \in Session
    BY DEF GuardInv, Session
  <1>4. session' \in [Writers -> Session]
    BY <1>1, <1>3, AwayType
  <1>5. ASSUME NEW b \in Writers PROVE CanTell(b)'
    <2>1. CASE b = a
      BY <1>1, <2>1 DEF CanTell, Away
    <2>2. CASE b # a
      <3>1. session'[b].newer
        BY <1>1, <2>2 DEF GuardInv, Session
      <3> QED BY <1>1, <1>2, <2>2, <3>1 DEF CanTell
    <2> QED BY <2>1, <2>2
  <1> QED BY <1>1, <1>2, <1>4, <1>5 DEF GuardInv

LEMMA GuardComplete ==
  ASSUME GuardInv, CompleteCheckpoint
  PROVE  GuardInv'
  <1>1. /\ call.pc = "complete" /\ call' = NoCall /\ checkpoints' \subseteq checkpoints
        /\ UNCHANGED <<setting, guvars>>
    BY DEF CompleteCheckpoint, wtvars
  <1> QED BY <1>1 DEF GuardInv, CanTell, guvars, NoCall

LEMMA GuardRecover ==
  ASSUME GuardInv, NEW cp \in checkpoints, RecoverCheckpoint(cp)
  PROVE  GuardInv'
  <1>1. /\ call.pc = "idle" /\ UNCHANGED <<setting, checkpoints, guvars>>
        /\ call' = [NoCall EXCEPT !.pc = "complete", !.agent = cp.agent]
    BY DEF RecoverCheckpoint, Ready, wtvars
  <1>2. call' = [pc |-> "complete", agent |-> cp.agent, todo |-> <<>>]
    BY <1>1 DEF NoCall
  <1> QED BY <1>1, <1>2 DEF GuardInv, CanTell, guvars

\* The agents of a process that dies have seen nothing any more.
LEMMA GuardCrash ==
  ASSUME GuardInv, NEW p \in setting.procs, Crash(p)
  PROVE  GuardInv'
  <1>1. call' = NoCall /\ session' = [a \in Writers |-> Away] /\ UNCHANGED <<setting, checkpoints, guard, version>>
    BY DEF Crash
  <1> QED BY <1>1, AwayType DEF GuardInv, CanTell, NoCall, Away

LEMMA WorktreesQuiet ==
  /\ \A p \in setting.procs : WorktreeCalls(p) \/ WorktreeSteps(p) => UNCHANGED setting
  /\ \A p \in setting.procs : SnapshotCalls(p) \/ RecordSnapshot(p) => UNCHANGED setting
  /\ Others => UNCHANGED setting
  <1>1. ASSUME NEW p \in setting.procs, WorktreeCalls(p) PROVE UNCHANGED setting
    BY <1>1 DEF WorktreeCalls, CreateWorktree, UpdateWorktreeStream, DeallocateWorktree,
                TemporaryWorktree, GcPrune, BeginCascade
  <1>2. ASSUME NEW p \in setting.procs, WorktreeSteps(p) PROVE UNCHANGED setting
    BY <1>2 DEF WorktreeSteps, InsertRow, UpdateRow, DeleteRow, PruneWorktrees, CleanTemporary, EndCleanup
  <1>3. ASSUME NEW p \in setting.procs, SnapshotCalls(p) \/ RecordSnapshot(p) PROVE UNCHANGED setting
    BY <1>3 DEF SnapshotCalls, Snapshot, Restore, DeleteSnapshot, RecordSnapshot, wtvars
  <1>4. ASSUME Others PROVE UNCHANGED setting
    BY <1>4 DEF Others, CommitWork, Die, Edit, DeletedByHand
  <1> QED BY <1>1, <1>2, <1>3, <1>4

LEMMA GuardStartupRecovery ==
  ASSUME GuardInv, NEW p \in setting.procs, StartupRecovery(p)
  PROVE  GuardInv'
  <1>1. checkpoints' \subseteq checkpoints /\ UNCHANGED <<setting, guvars, call>>
    BY DEF StartupRecovery, wtvars
  <1> QED BY <1>1 DEF GuardInv, CanTell, guvars

LEMMA GuardStep == GuardInv /\ [Next]_vars => GuardInv'
  <1> SUFFICES ASSUME GuardInv, [Next]_vars PROVE GuardInv'
    OBVIOUS
  <1>1. ASSUME NEW p \in setting.procs, Opening(p) \/ Rollback(p) \/ Close(p) PROVE GuardInv'
    BY <1>1, GuardQuiet DEF Opening, Rollback, Close, gvars, clvars, wtvars
  <1>2. ASSUME NEW p \in setting.procs,
               WorktreeCall(p) \/ WorktreeStep(p) \/ SnapshotCall(p) \/ SnapshotStep(p)
        PROVE GuardInv'
    BY <1>2, WorktreesQuiet, GuardQuiet
       DEF WorktreeCall, WorktreeStep, SnapshotCall, SnapshotStep, gvars, clvars
  <1>3. CASE Outside
    BY <1>3, WorktreesQuiet, GuardQuiet DEF Outside, gvars, clvars
  <1>4. CASE UNCHANGED vars
    BY <1>4, GuardQuiet DEF vars, gvars, clvars, wtvars
  <1>5. CASE Write
    BY <1>5, GuardWriteGit, GuardWriteRow, GuardTouch, GuardComplete DEF Write
  <1> QED
    BY <1>1, <1>2, <1>3, <1>4, <1>5, GuardStartupRecovery, GuardCrash, GuardRead, GuardAbandon,
       GuardBegin, GuardRecover DEF Next

\* Agents that read, validate, write and touch as OVERVIEW.md says lose no
\* update, however many they are and wherever their process dies.
THEOREM NoUpdateIsLost == Spec => []NoLostUpdate
  <1>1. GuardInv => NoLostUpdate
    BY DEF GuardInv, NoLostUpdate
  <1> QED BY <1>1, GuardInit, GuardStep, PTL DEF Spec

-----------------------------------------------------------------------------
(* Opening the database, while no release is rolled back *)

\* The first i objects of a list are there.
Has(db, list, i) == \A j \in 1 .. i : list[j] \in db

Opener == [pc : OpeningPcs, v : Nat, i : Nat]

\* What a process that is on its way to an open tracker relies on.
Reached(db, r) ==
  /\ r.pc \notin {"drop", "unrecord", "outdated"}
  /\ r.pc = "schema" => r.i \in 1 .. Len(Base) /\ Has(db, Base, r.i - 1)
  /\ r.pc \in {"version", "check", "create", "record", "recover", "open"} => Has(db, Base, Len(Base))
  /\ r.pc \in {"check", "create", "record"} =>
       r.v \in 1 .. Latest /\ \A u \in 1 .. r.v - 1 : Has(db, Up[u], Len(Up[u]))
  /\ r.pc \in {"check", "create"} => r.i \in 1 .. Len(Up[r.v]) /\ Has(db, Up[r.v], r.i - 1)
  /\ r.pc = "record" => Has(db, Up[r.v], Len(Up[r.v]))
  /\ r.pc \in {"recover", "open"} => db = WholeSchema

\* Versions are recorded behind what they stand for, and nothing is dropped.
OpeningInv ==
  /\ setting \in Settings /\ used \in [Bounds -> Nat]
  /\ opening \in [Procs -> Opener]
  /\ schema \subseteq WholeSchema
  /\ versions \subseteq 1 .. Latest
  /\ \A v \in versions, u \in 1 .. Latest : u <= v => Has(schema, Up[u], Len(Up[u]))
  /\ \A p \in Procs : Reached(schema, opening[p])

NoRollbacks == \A t \in Settings : t.rollbacks = 0

LEMMA UpFacts ==
  /\ Latest = 4 /\ DOMAIN Up = 1 .. Latest
  /\ \A v \in 1 .. Latest : 1 \in 1 .. Len(Up[v]) /\ Len(Up[v]) \in Nat /\ DOMAIN Up[v] = 1 .. Len(Up[v])
  /\ Len(Base) = 5 /\ DOMAIN Base = 1 .. Len(Base)
  <1>1. Latest = 4 /\ DOMAIN Up = 1 .. Latest /\ Len(Base) = 5 /\ DOMAIN Base = 1 .. Len(Base)
    BY DEF Latest, Up, Base
  <1>2. ASSUME NEW v \in 1 .. 4 PROVE 1 \in 1 .. Len(Up[v]) /\ Len(Up[v]) \in Nat /\ DOMAIN Up[v] = 1 .. Len(Up[v])
    BY v = 1 \/ v = 2 \/ v = 3 \/ v = 4 DEF Up
  <1> QED BY <1>1, <1>2

\* All objects there are.
LEMMA WholeFacts ==
  /\ \A i \in 1 .. Len(Base) : Base[i] \in WholeSchema
  /\ \A v \in 1 .. Latest : \A i \in 1 .. Len(Up[v]) : Up[v][i] \in WholeSchema
  /\ \A x \in WholeSchema :
       \/ \E i \in 1 .. Len(Base) : x = Base[i]
       \/ \E v \in 1 .. Latest : \E i \in 1 .. Len(Up[v]) : x = Up[v][i]
  <1>1. ToSet(Base) = {Base[i] : i \in 1 .. Len(Base)}
    BY UpFacts DEF ToSet
  <1>2. \A v \in 1 .. Latest : ToSet(Up[v]) = {Up[v][i] : i \in 1 .. Len(Up[v])}
    BY UpFacts DEF ToSet
  <1>3. WholeSchema = ToSet(Base) \cup UNION {ToSet(Up[v]) : v \in 1 .. Latest}
    BY UpFacts DEF WholeSchema
  <1>4. ASSUME NEW i \in 1 .. Len(Base) PROVE Base[i] \in WholeSchema
    BY <1>1, <1>3
  <1>5. ASSUME NEW v \in 1 .. Latest, NEW i \in 1 .. Len(Up[v]) PROVE Up[v][i] \in WholeSchema
    <2>1. Up[v][i] \in ToSet(Up[v])
      BY <1>2
    <2> QED BY <1>3, <2>1
  <1>6. ASSUME NEW x \in WholeSchema
        PROVE  \/ \E i \in 1 .. Len(Base) : x = Base[i]
               \/ \E v \in 1 .. Latest : \E i \in 1 .. Len(Up[v]) : x = Up[v][i]
    <2>1. CASE x \in ToSet(Base)
      BY <1>1, <2>1
    <2>2. CASE \E v \in 1 .. Latest : x \in ToSet(Up[v])
      BY <1>2, <2>2
    <2> QED BY <1>3, <2>1, <2>2
  <1> QED BY <1>4, <1>5, <1>6

LEMMA CompleteIsWhole ==
  ASSUME NEW db \in SUBSET WholeSchema, Has(db, Base, Len(Base)),
         \A v \in 1 .. Latest : Has(db, Up[v], Len(Up[v]))
  PROVE  db = WholeSchema
  BY WholeFacts DEF Has

LEMMA OpeningInit == NoRollbacks /\ Init => OpeningInv
  <1> SUFFICES ASSUME NoRollbacks, Init PROVE OpeningInv
    OBVIOUS
  <1>1. setting \in Settings /\ used \in [Bounds -> Nat]
    BY DEF Init, WorktreesInit
  <1>2. CASE setting.old
    <2>1. opening = [p \in Procs |-> Closed]
      BY <1>2 DEF Init, StartupInit
    <2>2. opening \in [Procs -> Opener] /\ \A p \in Procs : Reached(schema, opening[p])
      BY <2>1 DEF Closed, Opener, OpeningPcs, Reached
    <2>3. CASE schema = {} /\ versions = {}
      BY <1>1, <2>2, <2>3 DEF OpeningInv
    <2>4. CASE \E v \in 0 .. Latest : schema = SchemaAt(v) /\ versions = 1 .. v
      <3>1. PICK v \in 0 .. Latest : schema = SchemaAt(v) /\ versions = 1 .. v
        BY <2>4
      <3>2. Base[1] = "streams" /\ Base[2] = "others"
        BY DEF Base
      <3>3. schema = {"streams", "others"} \cup UNION {ToSet(Up[u]) : u \in 1 .. v}
        BY <3>1 DEF SchemaAt
      <3>4. schema \subseteq WholeSchema
        BY <3>2, <3>3, UpFacts, WholeFacts DEF ToSet
      <3>5. \A u \in 1 .. v : Has(schema, Up[u], Len(Up[u]))
        BY <3>3, UpFacts DEF ToSet, Has
      <3> QED BY <1>1, <2>2, <3>1, <3>4, <3>5, UpFacts DEF OpeningInv
    <2> QED BY <1>2, <2>3, <2>4 DEF Init, StartupInit
  <1>3. CASE ~ setting.old
    <2>1. /\ opening = [p \in Procs |-> [Closed EXCEPT !.pc = "open"]]
          /\ schema = WholeSchema /\ versions = 1 .. Latest
      BY <1>3 DEF Init
    <2>2. Has(schema, Base, Len(Base)) /\ \A v \in 1 .. Latest : Has(schema, Up[v], Len(Up[v]))
      BY <2>1, WholeFacts DEF Has
    <2>3. opening \in [Procs -> Opener] /\ \A p \in Procs : Reached(schema, opening[p])
      BY <2>1, <2>2 DEF Closed, Opener, OpeningPcs, Reached
    <2> QED BY <1>1, <2>1, <2>2, <2>3 DEF OpeningInv
  <1> QED BY <1>2, <1>3

\* While nothing is dropped, a process keeps what it relies on.
LEMMA GrowthKeeps ==
  ASSUME NEW db \in SUBSET WholeSchema, NEW more \in SUBSET WholeSchema, db \subseteq more,
         NEW r \in Opener, Reached(db, r)
  PROVE  Reached(more, r)
  BY UpFacts DEF Reached, Has

LEMMA MoveKeeps ==
  ASSUME OpeningInv, NEW p \in Procs, NEW r \in Opener, Move(p, r), Reached(schema', r),
         schema \subseteq schema', schema' \subseteq WholeSchema, versions' = versions,
         UNCHANGED setting, used' \in [Bounds -> Nat]
  PROVE  OpeningInv'
  <1>1. opening' \in [Procs -> Opener]
    BY DEF OpeningInv, Move
  <1>2. ASSUME NEW q \in Procs PROVE Reached(schema', opening'[q])
    <2>1. CASE q = p
      BY <2>1 DEF OpeningInv, Move
    <2>2. CASE q # p
      <3>1. opening'[q] = opening[q] /\ opening[q] \in Opener /\ Reached(schema, opening[q])
        BY <2>2 DEF OpeningInv, Move
      <3>2. schema \in SUBSET WholeSchema /\ schema' \in SUBSET WholeSchema
        BY DEF OpeningInv
      <3> QED BY <3>1, <3>2, GrowthKeeps
    <2> QED BY <2>1, <2>2
  <1>3. \A v \in versions, u \in 1 .. Latest : u <= v => Has(schema', Up[u], Len(Up[u]))
    BY DEF OpeningInv, Has
  <1> QED BY <1>1, <1>2, <1>3 DEF OpeningInv

LEMMA OpenerFacts ==
  ASSUME OpeningInv, NEW p \in Procs
  PROVE  opening[p] \in Opener /\ Reached(schema, opening[p]) /\ opening[p].v \in Nat
         /\ opening[p].i \in Nat /\ schema \subseteq WholeSchema
  BY DEF OpeningInv, Opener

LEMMA ClosedReached == Closed \in Opener /\ \A db : Reached(db, Closed)
  BY DEF Closed, Opener, OpeningPcs, Reached

LEMMA SchemaReached ==
  ASSUME NEW db, NEW v \in Nat, NEW i \in 1 .. Len(Base), Has(db, Base, i - 1)
  PROVE  /\ [pc |-> "schema", v |-> v, i |-> i] \in Opener
         /\ Reached(db, [pc |-> "schema", v |-> v, i |-> i])
  BY UpFacts DEF Opener, OpeningPcs, Reached

LEMMA CheckReached ==
  ASSUME NEW db, NEW v \in 1 .. Latest, NEW i \in 1 .. Len(Up[v]), NEW pc \in {"check", "create"},
         Has(db, Base, Len(Base)), \A u \in 1 .. v - 1 : Has(db, Up[u], Len(Up[u])),
         Has(db, Up[v], i - 1)
  PROVE  /\ [pc |-> pc, v |-> v, i |-> i] \in Opener
         /\ Reached(db, [pc |-> pc, v |-> v, i |-> i])
  <1>1. v \in Nat /\ i \in Nat
    BY UpFacts
  <1> QED BY <1>1 DEF Opener, OpeningPcs, Reached

LEMMA OpeningBegin ==
  ASSUME OpeningInv, NEW p \in Procs, BeginOpen(p), UNCHANGED wtvars
  PROVE  OpeningInv'
  <1> DEFINE r == [Closed EXCEPT !.pc = "schema", !.i = 1]
  <1>1. r = [pc |-> "schema", v |-> 0, i |-> 1]
    <2>1. [Closed EXCEPT !.pc = "schema"] = [pc |-> "schema", v |-> 0, i |-> 0]
      BY DEF Closed
    <2>2. \A c : c = [pc |-> "schema", v |-> 0, i |-> 0] => [c EXCEPT !.i = 1] = [pc |-> "schema", v |-> 0, i |-> 1]
      OBVIOUS
    <2> QED BY <2>1, <2>2
  <1>2. Move(p, r) /\ UNCHANGED <<schema, versions, setting, used>>
    BY DEF BeginOpen, wtvars
  <1> HIDE DEF r
  <1>3. 0 \in Nat /\ 1 \in 1 .. Len(Base) /\ Has(schema, Base, 1 - 1)
    BY UpFacts DEF Has
  <1>4. r \in Opener /\ Reached(schema, r)
    BY <1>1, <1>3, SchemaReached
  <1> QED BY <1>2, <1>4, MoveKeeps DEF OpeningInv

LEMMA OpeningSchema ==
  ASSUME OpeningInv, NEW p \in Procs, InitializeSchema(p), UNCHANGED wtvars
  PROVE  OpeningInv'
  <1> DEFINE i == opening[p].i
             r == IF i < Len(Base) THEN [opening[p] EXCEPT !.i = @ + 1]
                  ELSE [opening[p] EXCEPT !.pc = "version"]
  <1>1. /\ opening[p].pc = "schema" /\ Move(p, r) /\ UNCHANGED <<versions, setting, used>>
        /\ schema' = schema \cup {Base[i]}
                       \cup IF i = 1 /\ "streams" \notin schema THEN {"branch_point_commit"} ELSE {}
    BY DEF InitializeSchema, Is, wtvars
  <1>2. opening[p] \in Opener /\ i \in 1 .. Len(Base) /\ Has(schema, Base, i - 1)
        /\ schema \subseteq WholeSchema
    BY <1>1, OpenerFacts DEF Reached
  <1>3. schema \subseteq schema' /\ Has(schema', Base, i)
    BY <1>1, <1>2, UpFacts DEF Has
  <1>4. "branch_point_commit" \in WholeSchema
    <2>1. Up[1][1] = "branch_point_commit"
      BY DEF Up
    <2> QED BY <2>1, UpFacts, WholeFacts
  <1>5. schema' \subseteq WholeSchema
    BY <1>1, <1>2, <1>4, WholeFacts
  <1>6. r \in Opener /\ Reached(schema', r)
    <2>1. CASE i < Len(Base)
      <3>1. r = [pc |-> "schema", v |-> opening[p].v, i |-> i + 1]
        BY <1>1, <1>2, <2>1 DEF Opener
      <3>2. opening[p].v \in Nat /\ i + 1 \in 1 .. Len(Base) /\ Has(schema', Base, (i + 1) - 1)
        BY <1>2, <1>3, <2>1, UpFacts DEF Opener, Has
      <3> QED BY <3>1, <3>2, SchemaReached
    <2>2. CASE ~ (i < Len(Base))
      <3>1. r = [pc |-> "version", v |-> opening[p].v, i |-> i]
        BY <1>2, <2>2 DEF Opener
      <3>2. opening[p].v \in Nat /\ i \in Nat /\ i = Len(Base)
        BY <1>2, <2>2, UpFacts DEF Opener
      <3>3. [pc |-> "version", v |-> opening[p].v, i |-> i] \in Opener
        BY <3>2 DEF Opener, OpeningPcs
      <3>4. Reached(schema', [pc |-> "version", v |-> opening[p].v, i |-> i])
        BY <1>3, <3>2 DEF Reached
      <3> QED BY <3>1, <3>3, <3>4
    <2> QED BY <2>1, <2>2
  <1> QED BY <1>1, <1>3, <1>5, <1>6, MoveKeeps DEF OpeningInv

\* A migration begins when all before it are there.
LEMMA MigrationReached ==
  ASSUME NEW db \in SUBSET WholeSchema, NEW r \in Opener, NEW v \in 1 .. Latest + 1,
         Has(db, Base, Len(Base)), \A u \in 1 .. v - 1 : Has(db, Up[u], Len(Up[u]))
  PROVE  Migration(r, v) \in Opener /\ Reached(db, Migration(r, v))
  <1>1. CASE v > Latest
    <2>1. Migration(r, v) = [pc |-> "recover", v |-> 0, i |-> 0]
      BY <1>1 DEF Migration, Opener
    <2>2. db = WholeSchema
      <3>1. 1 .. Latest \subseteq 1 .. v - 1
        BY <1>1, UpFacts
      <3> QED BY <3>1, CompleteIsWhole
    <2>3. [pc |-> "recover", v |-> 0, i |-> 0] \in Opener
      BY DEF Opener, OpeningPcs
    <2>4. Reached(db, [pc |-> "recover", v |-> 0, i |-> 0])
      BY <2>2 DEF Reached
    <2> QED BY <2>1, <2>3, <2>4
  <1>2. CASE ~ (v > Latest)
    <2>1. Migration(r, v) = [pc |-> "check", v |-> v, i |-> 1]
      BY <1>2 DEF Migration, Opener
    <2>2. v \in 1 .. Latest /\ 1 \in 1 .. Len(Up[v])
      <3>1. v \in 1 .. Latest
        BY <1>2, UpFacts
      <3> QED BY <3>1, UpFacts
    <2>3. Has(db, Up[v], 1 - 1)
      BY DEF Has
    <2> QED BY <2>1, <2>2, <2>3, CheckReached
  <1> QED BY <1>1, <1>2

LEMMA CurrentVersionFacts ==
  ASSUME versions \subseteq 1 .. Latest
  PROVE  CurrentVersion \in 0 .. Latest /\ (CurrentVersion \in versions \/ CurrentVersion = 0)
  <1>1. versions \subseteq 1 .. 4 /\ Latest = 4
    BY UpFacts
  <1>2. \E x \in versions \cup {0} : \A y \in versions \cup {0} : x >= y
    <2>1. CASE 4 \in versions
      BY <1>1, <2>1
    <2>2. CASE 4 \notin versions /\ 3 \in versions
      BY <1>1, <2>2
    <2>3. CASE 4 \notin versions /\ 3 \notin versions /\ 2 \in versions
      BY <1>1, <2>3
    <2>4. CASE 4 \notin versions /\ 3 \notin versions /\ 2 \notin versions
      BY <1>1, <2>4
    <2> QED BY <2>1, <2>2, <2>3, <2>4
  <1>3. CurrentVersion \in versions \cup {0}
    BY <1>2 DEF CurrentVersion, Max
  <1> QED BY <1>1, <1>3

LEMMA OpeningVersion ==
  ASSUME OpeningInv, NEW p \in Procs, ReadVersion(p), UNCHANGED wtvars
  PROVE  OpeningInv'
  <1> DEFINE v == CurrentVersion + 1
             r == Migration(opening[p], v)
  <1>1. /\ opening[p].pc = "version" /\ Move(p, r)
        /\ UNCHANGED <<schema, versions, setting, used>>
    BY DEF ReadVersion, Is, wtvars
  <1>2. Has(schema, Base, Len(Base)) /\ opening[p] \in Opener /\ schema \in SUBSET WholeSchema
    BY <1>1, OpenerFacts DEF Reached
  <1>3. v \in 1 .. Latest + 1 /\ \A u \in 1 .. v - 1 : Has(schema, Up[u], Len(Up[u]))
    <2>1. CurrentVersion \in 0 .. Latest /\ (CurrentVersion \in versions \/ CurrentVersion = 0)
      BY CurrentVersionFacts DEF OpeningInv
    <2>2. v \in 1 .. Latest + 1 /\ v - 1 = CurrentVersion
      BY <2>1, UpFacts
    <2>3. ASSUME NEW u \in 1 .. v - 1 PROVE Has(schema, Up[u], Len(Up[u]))
      <3>1. CurrentVersion \in versions /\ u \in 1 .. Latest /\ u <= CurrentVersion
        BY <2>1, <2>2, UpFacts
      <3> QED BY <3>1 DEF OpeningInv
    <2> QED BY <2>2, <2>3
  <1>4. r \in Opener /\ Reached(schema, r)
    BY <1>2, <1>3, MigrationReached
  <1> QED BY <1>1, <1>2, <1>4, MoveKeeps DEF OpeningInv

\* An object that is there leads to the next one, or to the end of the migration.
LEMMA NextReached ==
  ASSUME NEW db \in SUBSET WholeSchema, NEW r \in Opener, r.pc \in {"check", "create"},
         Reached(db, r), Up[r.v][r.i] \in db
  PROVE  NextObject(r) \in Opener /\ Reached(db, NextObject(r))
  <1>1. /\ r.v \in 1 .. Latest /\ r.i \in 1 .. Len(Up[r.v]) /\ Has(db, Up[r.v], r.i)
        /\ Has(db, Base, Len(Base)) /\ \A u \in 1 .. r.v - 1 : Has(db, Up[u], Len(Up[u]))
    <2>1. /\ r.v \in 1 .. Latest /\ r.i \in 1 .. Len(Up[r.v]) /\ Has(db, Up[r.v], r.i - 1)
          /\ Has(db, Base, Len(Base)) /\ \A u \in 1 .. r.v - 1 : Has(db, Up[u], Len(Up[u]))
      BY DEF Reached
    <2>2. \A j \in 1 .. r.i : j = r.i \/ j \in 1 .. r.i - 1
      BY <2>1
    <2>3. Has(db, Up[r.v], r.i)
      BY <2>1, <2>2 DEF Has
    <2> QED BY <2>1, <2>3
  <1>2. CASE r.i < Len(Up[r.v])
    <2>1. NextObject(r) = [pc |-> "check", v |-> r.v, i |-> r.i + 1]
      BY <1>2 DEF NextObject, Opener
    <2>2. r.i + 1 \in 1 .. Len(Up[r.v]) /\ Has(db, Up[r.v], (r.i + 1) - 1)
      <3>1. Len(Up[r.v]) \in Nat /\ r.i \in Nat /\ (r.i + 1) - 1 = r.i
        BY <1>1, UpFacts
      <3> QED BY <1>1, <1>2, <3>1
    <2> QED BY <1>1, <2>1, <2>2, CheckReached
  <1>3. CASE ~ (r.i < Len(Up[r.v]))
    <2>1. NextObject(r) = [pc |-> "record", v |-> r.v, i |-> r.i]
      BY <1>3 DEF NextObject, Opener
    <2>2. r.i = Len(Up[r.v]) /\ r.v \in Nat /\ r.i \in Nat
      BY <1>1, <1>3, UpFacts
    <2>3. [pc |-> "record", v |-> r.v, i |-> r.i] \in Opener
      BY <2>2 DEF Opener, OpeningPcs
    <2>4. Reached(db, [pc |-> "record", v |-> r.v, i |-> r.i])
      BY <1>1, <2>2 DEF Reached
    <2> QED BY <2>1, <2>3, <2>4
  <1> QED BY <1>2, <1>3

LEMMA OpeningCheck ==
  ASSUME OpeningInv, NEW p \in Procs, CheckObject(p), UNCHANGED wtvars
  PROVE  OpeningInv'
  <1> DEFINE r == opening[p]
             n == IF Up[r.v][r.i] \in schema THEN NextObject(r) ELSE [r EXCEPT !.pc = "create"]
  <1>1. r.pc = "check" /\ Move(p, n) /\ UNCHANGED <<schema, versions, setting, used>>
    BY DEF CheckObject, Is, wtvars
  <1>2. r \in Opener /\ Reached(schema, r) /\ schema \in SUBSET WholeSchema
    BY OpenerFacts
  <1>3. n \in Opener /\ Reached(schema, n)
    <2>1. CASE Up[r.v][r.i] \in schema
      BY <1>1, <1>2, <2>1, NextReached
    <2>2. CASE Up[r.v][r.i] \notin schema
      <3>1. n = [pc |-> "create", v |-> r.v, i |-> r.i]
        BY <1>2, <2>2 DEF Opener
      <3>2. /\ r.v \in 1 .. Latest /\ r.i \in 1 .. Len(Up[r.v]) /\ Has(schema, Up[r.v], r.i - 1)
            /\ Has(schema, Base, Len(Base)) /\ \A u \in 1 .. r.v - 1 : Has(schema, Up[u], Len(Up[u]))
        BY <1>1, <1>2 DEF Reached
      <3>3. /\ [pc |-> "create", v |-> r.v, i |-> r.i] \in Opener
            /\ Reached(schema, [pc |-> "create", v |-> r.v, i |-> r.i])
        BY <3>2, CheckReached
      <3> QED BY <3>1, <3>3
    <2> QED BY <2>1, <2>2
  <1> QED BY <1>1, <1>2, <1>3, MoveKeeps DEF OpeningInv

LEMMA OpeningCreate ==
  ASSUME OpeningInv, NEW p \in Procs, CreateObject(p), UNCHANGED wtvars
  PROVE  OpeningInv'
  <1> DEFINE r == opening[p]
             object == Up[r.v][r.i]
  <1>1. r.pc = "create" /\ UNCHANGED <<versions, setting, used>>
    BY DEF CreateObject, Is, wtvars
  <1>2. r \in Opener /\ Reached(schema, r) /\ schema \in SUBSET WholeSchema
    BY OpenerFacts
  <1>3. CASE object \in schema
    <2>1. Move(p, Closed) /\ UNCHANGED schema
      BY <1>3 DEF CreateObject
    <2> QED BY <1>1, <1>2, <2>1, ClosedReached, MoveKeeps DEF OpeningInv
  <1>4. CASE object \notin schema
    <2>1. Move(p, NextObject(r)) /\ schema' = schema \cup {object}
      BY <1>4 DEF CreateObject
    <2>2. object \in WholeSchema
      BY <1>1, <1>2, WholeFacts DEF Reached
    <2>3. schema' \in SUBSET WholeSchema /\ schema \subseteq schema' /\ object \in schema'
      BY <1>2, <2>1, <2>2
    <2>4. NextObject(r) \in Opener /\ Reached(schema', NextObject(r))
      BY <1>1, <1>2, <2>3, GrowthKeeps, NextReached
    <2> QED BY <1>1, <2>1, <2>3, <2>4, MoveKeeps DEF OpeningInv
  <1> QED BY <1>3, <1>4

LEMMA OpeningRecord ==
  ASSUME OpeningInv, NEW p \in Procs, RecordMigration(p), UNCHANGED wtvars
  PROVE  OpeningInv'
  <1> DEFINE r == opening[p]
             n == Migration(r, r.v + 1)
  <1>1. /\ r.pc = "record" /\ versions' = versions \cup {r.v}
        /\ Move(p, n) /\ UNCHANGED <<schema, setting, used>>
    BY DEF RecordMigration, Is, wtvars
  <1>2. r \in Opener /\ schema \in SUBSET WholeSchema
    BY OpenerFacts
  <1>3. /\ r.v \in 1 .. Latest /\ Has(schema, Up[r.v], Len(Up[r.v]))
        /\ Has(schema, Base, Len(Base)) /\ \A u \in 1 .. r.v - 1 : Has(schema, Up[u], Len(Up[u]))
    BY <1>1, OpenerFacts DEF Reached
  <1>4. r.v + 1 \in 1 .. Latest + 1 /\ \A u \in 1 .. (r.v + 1) - 1 : u = r.v \/ u \in 1 .. r.v - 1
    BY <1>3, UpFacts
  <1>5. n \in Opener /\ Reached(schema, n)
    <2>1. \A u \in 1 .. (r.v + 1) - 1 : Has(schema, Up[u], Len(Up[u]))
      BY <1>3, <1>4
    <2> QED BY <1>2, <1>3, <1>4, <2>1, MigrationReached
  <1> HIDE DEF n
  <1>6. opening' \in [Procs -> Opener] /\ \A q \in Procs : Reached(schema', opening'[q])
    BY <1>1, <1>5 DEF OpeningInv, Move
  <1>7. versions' \subseteq 1 .. Latest
    BY <1>1, <1>3 DEF OpeningInv
  <1>8. ASSUME NEW v \in versions', NEW u \in 1 .. Latest, u <= v
        PROVE  Has(schema', Up[u], Len(Up[u]))
    <2>1. CASE v \in versions
      BY <1>1, <1>8, <2>1 DEF OpeningInv
    <2>2. CASE v = r.v
      <3>1. u = r.v \/ u \in 1 .. r.v - 1
        BY <1>3, <1>8, <2>2, UpFacts
      <3> QED BY <1>1, <1>3, <3>1
    <2> QED BY <1>1, <2>1, <2>2
  <1> QED BY <1>1, <1>6, <1>7, <1>8 DEF OpeningInv

LEMMA OpeningStepKeeps ==
  ASSUME OpeningInv, NEW p \in setting.procs, Opening(p)
  PROVE  OpeningInv'
  <1>1. p \in Procs
    BY WorktreesAssumption DEF OpeningInv
  <1>2. OpeningStep(p) /\ UNCHANGED wtvars
    BY <1>1 DEF Opening, RollbackStep, DropObject, UnrecordMigration, Is, OpeningInv, Reached
  <1> QED
    BY <1>1, <1>2, OpeningBegin, OpeningSchema, OpeningVersion, OpeningCheck, OpeningCreate, OpeningRecord
       DEF OpeningStep

LEMMA OpeningRecovery ==
  ASSUME OpeningInv, NEW p \in setting.procs, StartupRecovery(p)
  PROVE  OpeningInv'
  <1> DEFINE r == [Closed EXCEPT !.pc = "open"]
  <1>1. opening[p].pc = "recover" /\ Move(p, r) /\ UNCHANGED <<schema, versions, setting, used>>
    BY DEF StartupRecovery, Is, wtvars
  <1>2. p \in Procs
    BY WorktreesAssumption DEF OpeningInv
  <1>3. r = [pc |-> "open", v |-> 0, i |-> 0]
    BY DEF Closed
  <1> HIDE DEF r
  <1>4. r \in Opener /\ Reached(schema, r)
    BY <1>1, <1>2, <1>3, OpenerFacts DEF Opener, OpeningPcs, Reached
  <1> QED BY <1>1, <1>2, <1>4, MoveKeeps DEF OpeningInv

\* What is counted stays a number.
LEMMA CountType ==
  ASSUME OpeningInv, NEW b \in Bounds, MayUse(b)
  PROVE  used' \in [Bounds -> Nat]
  BY DEF OpeningInv, MayUse

LEMMA OpeningClosed ==
  ASSUME OpeningInv, NEW p \in setting.procs, Close(p) \/ Crash(p)
  PROVE  OpeningInv'
  <1>1. p \in Procs
    BY WorktreesAssumption DEF OpeningInv
  <1>2. UNCHANGED <<schema, versions, setting>>
    BY DEF Close, CloseTracker, Crash, wtvars
  <1>3. used' \in [Bounds -> Nat]
    BY CountType DEF Close, Crash, wtvars, Bounds, OpeningInv
  <1>4. CASE Move(p, Closed)
    BY <1>1, <1>2, <1>3, <1>4, ClosedReached, MoveKeeps DEF OpeningInv
  <1>5. CASE UNCHANGED opening
    BY <1>2, <1>3, <1>5 DEF OpeningInv
  <1> QED BY <1>4, <1>5 DEF Close, CloseTracker, Crash

\* Other steps leave the database's schema alone.
LEMMA OpeningQuiet ==
  ASSUME OpeningInv, UNCHANGED <<stvars, setting>>, used' \in [Bounds -> Nat]
  PROVE  OpeningInv'
  BY DEF OpeningInv, stvars

LEMMA CountQuiet ==
  ASSUME OpeningInv
  PROVE  /\ \A p \in setting.procs : WorktreeCalls(p) \/ WorktreeSteps(p) => used' \in [Bounds -> Nat]
         /\ \A p \in setting.procs : SnapshotCalls(p) \/ RecordSnapshot(p) => used' \in [Bounds -> Nat]
         /\ Others => used' \in [Bounds -> Nat]
  <1>1. used \in [Bounds -> Nat]
    BY DEF OpeningInv
  <1>2. {"snaps", "cascades", "deaths", "losses"} \subseteq Bounds
    BY DEF Bounds
  <1>3. ASSUME NEW p \in setting.procs, WorktreeCalls(p) PROVE used' \in [Bounds -> Nat]
    BY <1>1, <1>2, <1>3, CountType
       DEF WorktreeCalls, CreateWorktree, UpdateWorktreeStream, DeallocateWorktree,
           TemporaryWorktree, GcPrune, BeginCascade
  <1>4. ASSUME NEW p \in setting.procs, WorktreeSteps(p) PROVE used' \in [Bounds -> Nat]
    BY <1>1, <1>4
       DEF WorktreeSteps, InsertRow, UpdateRow, DeleteRow, PruneWorktrees, CleanTemporary, EndCleanup
  <1>5. ASSUME NEW p \in setting.procs, SnapshotCalls(p) \/ RecordSnapshot(p)
        PROVE used' \in [Bounds -> Nat]
    BY <1>1, <1>2, <1>5, CountType
       DEF SnapshotCalls, Snapshot, Restore, DeleteSnapshot, RecordSnapshot, wtvars
  <1>6. ASSUME Others PROVE used' \in [Bounds -> Nat]
    BY <1>1, <1>2, <1>6, CountType DEF Others, CommitWork, Die, Edit, DeletedByHand
  <1> QED BY <1>3, <1>4, <1>5, <1>6

LEMMA OpeningNext == NoRollbacks /\ OpeningInv /\ [Next]_vars => OpeningInv'
  <1> SUFFICES ASSUME NoRollbacks, OpeningInv, [Next]_vars PROVE OpeningInv'
    OBVIOUS
  <1>1. ASSUME NEW p \in setting.procs, Rollback(p) PROVE FALSE
    <2>1. used["rollbacks"] < setting["rollbacks"] /\ setting.rollbacks = 0
      BY <1>1 DEF Rollback, MayUse, NoRollbacks, OpeningInv
    <2>2. used["rollbacks"] \in Nat
      BY DEF OpeningInv, Bounds
    <2> QED BY <2>1, <2>2
  <1>2. ASSUME NEW p \in setting.procs,
               WorktreeCall(p) \/ WorktreeStep(p) \/ SnapshotCall(p) \/ SnapshotStep(p)
        PROVE OpeningInv'
    BY <1>2, WorktreesQuiet, CountQuiet, OpeningQuiet
       DEF WorktreeCall, WorktreeStep, SnapshotCall, SnapshotStep
  <1>3. CASE Outside
    BY <1>3, WorktreesQuiet, CountQuiet, OpeningQuiet DEF Outside
  <1>4. ASSUME UNCHANGED <<stvars, wtvars>> PROVE OpeningInv'
    BY <1>4, OpeningQuiet DEF wtvars, OpeningInv
  <1>5. ASSUME NEW a \in setting.writers, Read(a) \/ Abandon(a) \/ Begin(a) PROVE OpeningInv'
    BY <1>4, <1>5 DEF Read, Abandon, Begin
  <1>6. ASSUME NEW cp \in checkpoints, RecoverCheckpoint(cp) PROVE OpeningInv'
    BY <1>4, <1>6 DEF RecoverCheckpoint
  <1>7. CASE Write
    BY <1>4, <1>7 DEF Write, WriteGit, WriteRow, Touch, CompleteCheckpoint
  <1>8. CASE UNCHANGED vars
    BY <1>4, <1>8 DEF vars
  <1> QED
    BY <1>1, <1>2, <1>3, <1>5, <1>6, <1>7, <1>8, OpeningStepKeeps, OpeningRecovery, OpeningClosed
       DEF Next

\* However many trackers open one database, from whatever release it is and
\* wherever they die, one that has opened finds the whole schema, as long as
\* nobody calls rollbackMigration.
THEOREM OpenedIsWhole ==
  ASSUME NoRollbacks
  PROVE  Spec => []OpenedHasSchema
  <1>1. OpeningInv => OpenedHasSchema
    BY DEF OpeningInv, OpenedHasSchema, Reached, Open, Is
  <1>2. Init => OpeningInv
    BY OpeningInit
  <1>3. OpeningInv /\ [Next]_vars => OpeningInv'
    BY OpeningNext
  <1> QED BY <1>1, <1>2, <1>3, PTL DEF Spec

-----------------------------------------------------------------------------
(* The workspace: worktrees, those of cascades, and snapshots *)

\* An opener's place in the lists it works through, while migrations may also be
\* rolled back.
Placed(r) ==
  /\ r.pc = "schema" => r.i \in 1 .. Len(Base)
  /\ r.pc \in {"check", "create"} => r.v \in 1 .. Latest /\ r.i \in 1 .. Len(Up[r.v])
  /\ r.pc = "record" => r.v \in 1 .. Latest

StartInv ==
  /\ opening \in [Procs -> Opener]
  /\ schema \subseteq WholeSchema
  /\ versions \subseteq 1 .. Latest
  /\ \A p \in Procs : Placed(opening[p])

ProcRecord ==
  [pc : Pcs, agent : Agents \cup {None}, path : Paths \cup {None},
   stream : Streams \cup {None}, temps : SUBSET TempPaths, took : SUBSET Work]

RowRecord == [path : Paths \cup {None}, stream : Streams \cup {None}]

\* A call knows what its next step is about.
CallOk(r) ==
  /\ r.took \subseteq setting.work
  /\ r.pc \in {"insert", "update", "delete"} => r.agent \in Agents
  /\ r.pc \in {"insert", "delete", "record"} => r.path \in Paths
  /\ r.pc \notin {"cascade", "cleanup"} => r.temps = {}
  /\ r.pc = "record" => Len(stash) > 0

TreeTypes ==
  /\ setting \in Settings
  /\ used \in [Bounds -> Nat]
  /\ alive \subseteq setting.agents
  /\ row \in [Agents -> RowRecord]
  /\ \A a \in Agents : row[a] # NoRow => row[a].path \in Paths
  /\ tree \in [AllPaths -> Streams \cup {Main, Detached, None}]
  /\ dir \subseteq AllPaths /\ left \subseteq AllPaths
  /\ made \subseteq setting.work
  /\ work \in [AllPaths -> SUBSET made]

CallTypes ==
  /\ proc \in [Procs -> ProcRecord]
  /\ \A p \in Procs : CallOk(proc[p])

SnapTypes ==
  /\ stash \in Seq(SUBSET made)
  /\ snaps \subseteq Snap
  /\ \A s \in snaps : s.ref \in 1 .. Len(stash)

\* What a cascade has added is in its list, until it is cleaned up and pruned.
TempInv ==
  Intact => \A w \in TempPaths :
    /\ w \in dir => w \in left \/ \E p \in Procs : w \in proc[p].temps
    /\ tree[w] # None => w \in left \/ \E p \in Procs : w \in proc[p].temps \/ At(p, "cleanup")

\* The stash of every row, and of the row that comes next.
StashInv ==
  \A q \in Procs : setting.procs = {q} =>
    /\ \A s \in snaps : stash[s.ref] = s.took
    /\ At(q, "record") => stash[Len(stash)] = proc[q].took

Checkout(s, other) == IF s = None THEN other ELSE s

\* Rows and git agree but for what the call r is about.
TreesThere == \A w \in Paths : w \in dir <=> tree[w] # None
RowsDistinct ==
  \A a, c \in Agents : row[a] # NoRow /\ row[c] # NoRow /\ row[a].path = row[c].path => a = c
RowsLive(r) ==
  \A a \in Agents : row[a] # NoRow /\ ~ (r.pc = "delete" /\ r.agent = a) => tree[row[a].path] # None
RowsMatch(r) ==
  \A a \in Agents :
    row[a] # NoRow /\ ~ (r.pc \in {"update", "delete"} /\ r.agent = a) => RowTrue(a)
NoneForgotten(r) ==
  \A w \in Paths : w \in dir =>
    \/ \E a \in Agents : row[a].path = w
    \/ w \in left \/ tree[w] \in Archived
    \/ r.pc = "insert" /\ r.path = w
CallMatches(r) ==
  /\ r.pc = "insert" =>
       row[r.agent] = NoRow /\ r.path \in dir /\ tree[r.path] = Checkout(r.stream, Detached)
  /\ r.pc = "update" =>
       row[r.agent] # NoRow /\ tree[row[r.agent].path] = Checkout(r.stream, Main)
  /\ r.pc = "delete" =>
       /\ row[r.agent] # NoRow /\ row[r.agent].path = r.path
       /\ r.path \in dir => r.path \in left

Agreed(r) ==
  /\ TreesThere /\ RowsDistinct /\ RowsLive(r) /\ RowsMatch(r) /\ NoneForgotten(r)
  /\ CallMatches(r)

AgreedInv ==
  Intact /\ used.losses = 0 => \A q \in Procs : setting.procs = {q} => Agreed(proc[q])

-----------------------------------------------------------------------------
(* The opening of trackers, with rollbacks *)

LEMMA PlacedMove ==
  ASSUME StartInv, NEW p \in Procs, NEW r \in Opener, Placed(r), Move(p, r),
         schema' \subseteq WholeSchema, versions' \subseteq 1 .. Latest
  PROVE  StartInv'
  BY DEF StartInv, Move

LEMMA PlacedFacts ==
  ASSUME StartInv, NEW p \in Procs
  PROVE  /\ opening[p] \in Opener /\ Placed(opening[p])
         /\ opening[p].v \in Nat /\ opening[p].i \in Nat
         /\ schema \subseteq WholeSchema /\ versions \subseteq 1 .. Latest
  BY DEF StartInv, Opener

LEMMA ClosedPlaced == Closed \in Opener /\ Placed(Closed)
  BY DEF Closed, Opener, OpeningPcs, Placed

LEMMA StartInit == Init => StartInv
  <1> SUFFICES ASSUME Init PROVE StartInv
    OBVIOUS
  <1>1. CASE setting.old
    <2>1. opening = [p \in Procs |-> Closed]
      BY <1>1 DEF Init, StartupInit
    <2>2. CASE schema = {} /\ versions = {}
      BY <2>1, <2>2, ClosedPlaced DEF StartInv
    <2>3. ASSUME NEW v \in 0 .. Latest, schema = SchemaAt(v), versions = 1 .. v
          PROVE  StartInv
      <3>1. Base[1] = "streams" /\ Base[2] = "others"
        BY DEF Base
      <3>2. schema \subseteq WholeSchema
        BY <2>3, <3>1, UpFacts, WholeFacts DEF SchemaAt, ToSet
      <3> QED BY <2>1, <2>3, <3>2, ClosedPlaced, UpFacts DEF StartInv
    <2> QED BY <1>1, <2>2, <2>3 DEF Init, StartupInit
  <1>2. CASE ~ setting.old
    <2>1. /\ opening = [p \in Procs |-> [Closed EXCEPT !.pc = "open"]]
          /\ schema = WholeSchema /\ versions = 1 .. Latest
      BY <1>2 DEF Init
    <2> QED BY <2>1 DEF StartInv, Closed, Opener, OpeningPcs, Placed
  <1> QED BY <1>1, <1>2

LEMMA MigrationPlaced ==
  ASSUME NEW r \in Opener, NEW v \in 1 .. Latest + 1
  PROVE  Migration(r, v) \in Opener /\ Placed(Migration(r, v))
  <1>1. CASE v > Latest
    <2>1. Migration(r, v) = [pc |-> "recover", v |-> 0, i |-> 0]
      BY <1>1 DEF Migration, Opener
    <2> QED BY <2>1 DEF Opener, OpeningPcs, Placed
  <1>2. CASE ~ (v > Latest)
    <2>1. Migration(r, v) = [pc |-> "check", v |-> v, i |-> 1]
      BY <1>2 DEF Migration, Opener
    <2>2. v \in 1 .. Latest /\ v \in Nat
      BY <1>2, UpFacts
    <2>3. 1 \in 1 .. Len(Up[v])
      BY <2>2, UpFacts
    <2> QED BY <2>1, <2>2, <2>3 DEF Opener, OpeningPcs, Placed
  <1> QED BY <1>1, <1>2

LEMMA NextPlaced ==
  ASSUME NEW r \in Opener, Placed(r), r.pc \in {"check", "create"}
  PROVE  NextObject(r) \in Opener /\ Placed(NextObject(r))
  <1>1. r.v \in 1 .. Latest /\ r.i \in 1 .. Len(Up[r.v])
    BY DEF Placed
  <1>2. r.v \in Nat /\ r.i \in Nat /\ Len(Up[r.v]) \in Nat
    BY <1>1, UpFacts DEF Opener
  <1>3. CASE r.i < Len(Up[r.v])
    <2>1. NextObject(r) = [pc |-> "check", v |-> r.v, i |-> r.i + 1]
      BY <1>3 DEF NextObject, Opener
    <2>2. r.i + 1 \in 1 .. Len(Up[r.v])
      BY <1>1, <1>2, <1>3
    <2> QED BY <1>1, <1>2, <2>1, <2>2 DEF Opener, OpeningPcs, Placed
  <1>4. CASE ~ (r.i < Len(Up[r.v]))
    <2>1. NextObject(r) = [pc |-> "record", v |-> r.v, i |-> r.i]
      BY <1>4 DEF NextObject, Opener
    <2> QED BY <1>1, <1>2, <2>1 DEF Opener, OpeningPcs, Placed
  <1> QED BY <1>3, <1>4

LEMMA StartSchema ==
  ASSUME StartInv, NEW p \in Procs, InitializeSchema(p)
  PROVE  StartInv'
  <1> DEFINE i == opening[p].i
  <1>1. PICK r : r = IF i < Len(Base) THEN [opening[p] EXCEPT !.i = @ + 1]
                     ELSE [opening[p] EXCEPT !.pc = "version"]
    OBVIOUS
  <1>2. /\ opening[p].pc = "schema" /\ Move(p, r) /\ UNCHANGED versions
        /\ schema' = schema \cup {Base[i]}
                       \cup IF i = 1 /\ "streams" \notin schema THEN {"branch_point_commit"} ELSE {}
    BY <1>1 DEF InitializeSchema, Is
  <1>3. opening[p] \in Opener /\ i \in 1 .. Len(Base) /\ schema \subseteq WholeSchema
        /\ versions \subseteq 1 .. Latest
    BY <1>2, PlacedFacts DEF Placed
  <1>4. Up[1][1] = "branch_point_commit"
    BY DEF Up
  <1>5. schema' \subseteq WholeSchema
    BY <1>2, <1>3, <1>4, UpFacts, WholeFacts
  <1>6. CASE i < Len(Base)
    <2>1. r = [pc |-> "schema", v |-> opening[p].v, i |-> i + 1] /\ opening[p].v \in Nat
      BY <1>1, <1>2, <1>3, <1>6 DEF Opener
    <2>2. i + 1 \in 1 .. Len(Base) /\ i + 1 \in Nat
      BY <1>3, <1>6, UpFacts
    <2>3. r \in Opener /\ Placed(r)
      BY <2>1, <2>2 DEF Opener, OpeningPcs, Placed
    <2> QED BY <1>2, <1>3, <1>5, <2>3, PlacedMove
  <1>7. CASE ~ (i < Len(Base))
    <2>1. r = [pc |-> "version", v |-> opening[p].v, i |-> i] /\ opening[p].v \in Nat /\ i \in Nat
      BY <1>1, <1>3, <1>7 DEF Opener
    <2>2. r \in Opener /\ Placed(r)
      BY <2>1 DEF Opener, OpeningPcs, Placed
    <2> QED BY <1>2, <1>3, <1>5, <2>2, PlacedMove
  <1> QED BY <1>6, <1>7

LEMMA StartMigration ==
  ASSUME StartInv, NEW p \in Procs,
         BeginOpen(p) \/ ReadVersion(p) \/ CheckObject(p) \/ CreateObject(p) \/ RecordMigration(p)
  PROVE  StartInv'
  <1>1. /\ opening[p] \in Opener /\ Placed(opening[p])
        /\ schema \subseteq WholeSchema /\ versions \subseteq 1 .. Latest
    BY PlacedFacts
  <1>2. CASE BeginOpen(p)
    <2>1. PICK r : r = [Closed EXCEPT !.pc = "schema", !.i = 1]
      OBVIOUS
    <2>2. r = [pc |-> "schema", v |-> 0, i |-> 1]
      BY <2>1 DEF Closed
    <2>3. r \in Opener /\ Placed(r)
      BY <2>2, UpFacts DEF Opener, OpeningPcs, Placed
    <2> QED BY <1>1, <1>2, <2>1, <2>3, PlacedMove DEF BeginOpen
  <1>3. CASE ReadVersion(p)
    <2>1. CurrentVersion \in 0 .. Latest
      BY <1>1, CurrentVersionFacts
    <2>2. CurrentVersion + 1 \in 1 .. Latest + 1
      BY <2>1, UpFacts
    <2>3. PICK r : r = Migration(opening[p], CurrentVersion + 1)
      OBVIOUS
    <2>4. r \in Opener /\ Placed(r)
      BY <1>1, <2>2, <2>3, MigrationPlaced
    <2> QED BY <1>1, <1>3, <2>3, <2>4, PlacedMove DEF ReadVersion
  <1>4. CASE CheckObject(p)
    <2>1. PICK r : r = IF Up[opening[p].v][opening[p].i] \in schema THEN NextObject(opening[p])
                       ELSE [opening[p] EXCEPT !.pc = "create"]
      OBVIOUS
    <2>2. opening[p].pc = "check" /\ Move(p, r) /\ UNCHANGED <<schema, versions>>
      BY <1>4, <2>1 DEF CheckObject, Is
    <2>3. r \in Opener /\ Placed(r)
      <3>1. CASE Up[opening[p].v][opening[p].i] \in schema
        BY <1>1, <2>1, <2>2, <3>1, NextPlaced
      <3>2. CASE Up[opening[p].v][opening[p].i] \notin schema
        BY <1>1, <2>1, <2>2, <3>2 DEF Opener, OpeningPcs, Placed
      <3> QED BY <3>1, <3>2
    <2> QED BY <1>1, <2>2, <2>3, PlacedMove
  <1>5. CASE CreateObject(p)
    <2> DEFINE object == Up[opening[p].v][opening[p].i]
    <2>1. opening[p].pc = "create" /\ UNCHANGED versions
      BY <1>5 DEF CreateObject, Is
    <2>2. CASE object \in schema
      BY <1>1, <1>5, <2>1, <2>2, ClosedPlaced, PlacedMove DEF CreateObject
    <2>3. CASE object \notin schema
      <3>1. PICK r : r = NextObject(opening[p])
        OBVIOUS
      <3>2. Move(p, r) /\ schema' = schema \cup {object}
        BY <1>5, <2>3, <3>1 DEF CreateObject
      <3>3. r \in Opener /\ Placed(r)
        BY <1>1, <2>1, <3>1, NextPlaced
      <3>4. object \in WholeSchema
        BY <1>1, <2>1, WholeFacts DEF Placed
      <3> QED BY <1>1, <2>1, <3>2, <3>3, <3>4, PlacedMove
    <2> QED BY <2>2, <2>3
  <1>6. CASE RecordMigration(p)
    <2>1. PICK r : r = Migration(opening[p], opening[p].v + 1)
      OBVIOUS
    <2>2. /\ opening[p].pc = "record" /\ Move(p, r) /\ UNCHANGED schema
          /\ versions' = versions \cup {opening[p].v}
      BY <1>6, <2>1 DEF RecordMigration, Is
    <2>3. opening[p].v \in 1 .. Latest
      BY <1>1, <2>2 DEF Placed
    <2>4. opening[p].v + 1 \in 1 .. Latest + 1
      BY <2>3, UpFacts
    <2>5. r \in Opener /\ Placed(r)
      BY <1>1, <2>1, <2>4, MigrationPlaced
    <2>6. versions' \subseteq 1 .. Latest
      BY <1>1, <2>2, <2>3
    <2> QED BY <1>1, <2>2, <2>5, <2>6, PlacedMove
  <1> QED BY <1>2, <1>3, <1>4, <1>5, <1>6

\* Rolling back, closing and dying.
LEMMA StartBack ==
  ASSUME StartInv, NEW p \in Procs,
         \/ BeginRollback(p) \/ DropObject(p) \/ UnrecordMigration(p) \/ CloseTracker(p)
         \/ Move(p, Closed) /\ UNCHANGED <<schema, versions>>
         \/ Move(p, [Closed EXCEPT !.pc = "open"]) /\ UNCHANGED <<schema, versions>>
  PROVE  StartInv'
  <1>1. /\ opening[p] \in Opener /\ Placed(opening[p])
        /\ schema \subseteq WholeSchema /\ versions \subseteq 1 .. Latest
    BY PlacedFacts
  <1>2. CASE BeginRollback(p)
    <2>1. CurrentVersion \in Nat
      BY <1>1, CurrentVersionFacts, UpFacts
    <2>2. PICK r : r = [pc |-> IF Down[CurrentVersion] = <<>> THEN "unrecord" ELSE "drop",
                        v |-> CurrentVersion, i |-> 1]
      OBVIOUS
    <2>3. r \in Opener /\ Placed(r)
      BY <2>1, <2>2 DEF Opener, OpeningPcs, Placed
    <2> QED BY <1>1, <1>2, <2>2, <2>3, PlacedMove DEF BeginRollback
  <1>3. CASE DropObject(p)
    <2>1. PICK r : r = IF opening[p].i < Len(Down[opening[p].v]) THEN [opening[p] EXCEPT !.i = @ + 1]
                       ELSE [opening[p] EXCEPT !.pc = "unrecord"]
      OBVIOUS
    <2>2. /\ opening[p].pc = "drop" /\ Move(p, r) /\ UNCHANGED versions
          /\ schema' \subseteq schema
      BY <1>3, <2>1 DEF DropObject, Is
    <2>3. r \in Opener /\ Placed(r)
      BY <1>1, <2>1, <2>2 DEF Opener, OpeningPcs, Placed
    <2> QED BY <1>1, <2>2, <2>3, PlacedMove
  <1>4. CASE UnrecordMigration(p)
    <2>1. PICK r : r = [Closed EXCEPT !.pc = "outdated"]
      OBVIOUS
    <2>2. r \in Opener /\ Placed(r)
      BY <2>1 DEF Closed, Opener, OpeningPcs, Placed
    <2>3. versions' \subseteq versions /\ UNCHANGED schema /\ Move(p, r)
      BY <1>4, <2>1 DEF UnrecordMigration
    <2> QED BY <1>1, <2>2, <2>3, PlacedMove
  <1>5. ASSUME Move(p, Closed), UNCHANGED <<schema, versions>> PROVE StartInv'
    BY <1>1, <1>5, ClosedPlaced, PlacedMove
  <1>6. ASSUME Move(p, [Closed EXCEPT !.pc = "open"]), UNCHANGED <<schema, versions>> PROVE StartInv'
    <2>1. PICK r : r = [Closed EXCEPT !.pc = "open"]
      OBVIOUS
    <2>2. r \in Opener /\ Placed(r)
      BY <2>1 DEF Closed, Opener, OpeningPcs, Placed
    <2> QED BY <1>1, <1>6, <2>1, <2>2, PlacedMove
  <1> QED BY <1>2, <1>3, <1>4, <1>5, <1>6 DEF CloseTracker

LEMMA StartNext ==
  ASSUME StartInv, setting \in Settings, [Next]_vars
  PROVE  StartInv'
  <1>1. \A p \in setting.procs : p \in Procs
    BY WorktreesAssumption
  <1>2. ASSUME UNCHANGED stvars PROVE StartInv'
    BY <1>2 DEF StartInv, stvars
  <1>3. ASSUME NEW p \in setting.procs, Opening(p) PROVE StartInv'
    BY <1>1, <1>3, StartSchema, StartMigration, StartBack DEF Opening, OpeningStep, RollbackStep
  <1>4. ASSUME NEW p \in setting.procs, StartupRecovery(p) \/ Rollback(p) \/ Close(p) PROVE StartInv'
    BY <1>1, <1>4, StartBack DEF StartupRecovery, Rollback, Close
  <1>5. ASSUME NEW p \in setting.procs, Crash(p) PROVE StartInv'
    BY <1>1, <1>2, <1>5, StartBack DEF Crash, stvars
  <1>6. ASSUME NEW p \in setting.procs,
               WorktreeCall(p) \/ WorktreeStep(p) \/ SnapshotCall(p) \/ SnapshotStep(p)
        PROVE StartInv'
    BY <1>2, <1>6 DEF WorktreeCall, WorktreeStep, SnapshotCall, SnapshotStep
  <1>7. CASE Outside \/ Write \/ UNCHANGED vars
    BY <1>2, <1>7 DEF Outside, Write, WriteGit, WriteRow, Touch, CompleteCheckpoint, vars
  <1>8. ASSUME NEW a \in setting.writers, Read(a) \/ Abandon(a) \/ Begin(a) PROVE StartInv'
    BY <1>2, <1>8 DEF Read, Abandon, Begin
  <1>9. ASSUME NEW cp \in checkpoints, RecoverCheckpoint(cp) PROVE StartInv'
    BY <1>2, <1>9 DEF RecoverCheckpoint
  <1> QED BY <1>3, <1>4, <1>5, <1>6, <1>7, <1>8, <1>9 DEF Next

-----------------------------------------------------------------------------
(* What the rows, the worktrees, the calls and the snapshots are *)

Types == TreeTypes /\ CallTypes /\ SnapTypes

LEMMA SettingFacts ==
  ASSUME setting \in Settings
  PROVE  /\ setting.procs \subseteq Procs /\ setting.agents \subseteq Agents
         /\ setting.streams \subseteq Streams
         /\ setting.home \in {Main, Detached} /\ setting.work \subseteq Work
         /\ None \notin Streams /\ Main \notin Streams /\ Detached \notin Streams
         /\ Main # None /\ Detached # None /\ Main # Detached
         /\ Home \notin Paths \cup TempPaths /\ Paths \cap TempPaths = {}
  BY WorktreesAssumption

LEMMA IdleOk == Idle \in ProcRecord /\ CallOk(Idle)
  BY DEF Idle, ProcRecord, Pcs, CallOk

LEMMA GoTypes ==
  ASSUME CallTypes, NEW p \in Procs, NEW r \in ProcRecord, CallOk(r)', Go(p, r),
         UNCHANGED setting, Len(stash) > 0 => Len(stash') > 0
  PROVE  CallTypes'
  <1>1. proc' \in [Procs -> ProcRecord]
    BY DEF CallTypes, Go
  <1>2. ASSUME NEW q \in Procs PROVE CallOk(proc[q])'
    <2>1. CASE q = p
      BY <2>1 DEF CallTypes, Go
    <2>2. CASE q # p
      BY <2>2 DEF CallTypes, Go, CallOk
    <2> QED BY <2>1, <2>2
  <1> QED BY <1>1, <1>2 DEF CallTypes

LEMMA ReturnTypes ==
  ASSUME CallTypes, NEW p \in Procs, Return(p), UNCHANGED <<setting, stash>>
  PROVE  CallTypes'
  <1>1. CallOk(Idle)'
    BY DEF CallOk, Idle
  <1> QED BY <1>1, IdleOk, GoTypes DEF Return

LEMMA UseTypes ==
  ASSUME used \in [Bounds -> Nat], NEW b \in Bounds, MayUse(b)
  PROVE  used' \in [Bounds -> Nat]
  BY DEF MayUse

\* The snapshots, while no work is taken away.
LEMMA SnapQuiet ==
  ASSUME SnapTypes, UNCHANGED <<setting, stash, snaps>>, made \subseteq made'
  PROVE  SnapTypes'
  <1>1. stash' \in Seq(SUBSET made')
    <2>1. stash \in Seq(SUBSET made) /\ stash' = stash
      BY DEF SnapTypes
    <2>2. Len(stash) \in Nat /\ DOMAIN stash = 1 .. Len(stash)
      BY <2>1
    <2>3. \A i \in 1 .. Len(stash) : stash[i] \in SUBSET made'
      BY <2>1
    <2>4. stash = [i \in 1 .. Len(stash) |-> stash[i]]
      BY <2>1
    <2> QED BY <2>1, <2>2, <2>3, <2>4
  <1>2. snaps' \subseteq Snap'
    BY DEF SnapTypes, Snap
  <1> QED BY <1>1, <1>2 DEF SnapTypes

LEMMA InitTypes == Init => Types
  <1> SUFFICES ASSUME Init PROVE Types
    OBVIOUS
  <1>1. setting \in Settings
    BY DEF Init, WorktreesInit
  <1>2. TreeTypes
    <2>1. row \in [Agents -> RowRecord] /\ \A a \in Agents : row[a] = NoRow
      BY DEF Init, WorktreesInit, NoRow, RowRecord
    <2>2. used \in [Bounds -> Nat] /\ alive \subseteq setting.agents /\ made \subseteq setting.work
          /\ dir \subseteq AllPaths /\ left \subseteq AllPaths
      BY DEF Init, WorktreesInit, AllPaths
    <2>3. tree \in [AllPaths -> Streams \cup {Main, Detached, None}]
      BY <1>1, SettingFacts DEF Init, WorktreesInit
    <2>4. work \in [AllPaths -> SUBSET made]
      BY DEF Init, WorktreesInit
    <2> QED BY <1>1, <2>1, <2>2, <2>3, <2>4 DEF TreeTypes
  <1>3. CallTypes
    BY IdleOk DEF Init, WorktreesInit, CallTypes
  <1>4. SnapTypes
    BY DEF Init, SnapshotsInit, SnapTypes
  <1> QED BY <1>2, <1>3, <1>4 DEF Types

LEMMA CreateTypes ==
  ASSUME Types, UNCHANGED snvars, NEW p \in setting.procs, NEW a \in setting.agents, NEW w \in Paths,
         NEW b \in setting.streams \cup {Detached}, CreateWorktree(p, a, w, b)
  PROVE  Types'
  <1>1. p \in Procs /\ a \in Agents /\ b \in Streams \cup {Detached}
    BY SettingFacts DEF Types, TreeTypes
  <1>2. PICK r : r = [Idle EXCEPT !.pc = "insert", !.agent = a, !.path = w,
                                  !.stream = IF b = Detached THEN None ELSE b]
    OBVIOUS
  <1>3. r = [pc |-> "insert", agent |-> a, path |-> w, stream |-> IF b = Detached THEN None ELSE b,
             temps |-> {}, took |-> {}]
    BY <1>2 DEF Idle
  <1>4. r \in ProcRecord /\ CallOk(r)'
    BY <1>1, <1>3 DEF ProcRecord, Pcs, CallOk
  <1>5. CallTypes'
    BY <1>1, <1>2, <1>4, GoTypes DEF CreateWorktree, Types, snvars
  <1>6. SnapTypes'
    BY SnapQuiet DEF CreateWorktree, Types, snvars
  <1>7. w \in AllPaths
    BY DEF AllPaths
  <1>8. TreeTypes'
    BY <1>1, <1>7 DEF CreateWorktree, AddWorktree, Types, TreeTypes
  <1> QED BY <1>5, <1>6, <1>8 DEF Types

LEMMA UpdateTypes ==
  ASSUME Types, UNCHANGED snvars, NEW p \in setting.procs, NEW a \in setting.agents,
         NEW s \in setting.streams \cup {None}, UpdateWorktreeStream(p, a, s)
  PROVE  Types'
  <1>1. p \in Procs /\ a \in Agents /\ s \in Streams \cup {None}
    BY SettingFacts DEF Types, TreeTypes
  <1>2. PICK r : r = [Idle EXCEPT !.pc = "update", !.agent = a, !.stream = s]
    OBVIOUS
  <1>3. r = [pc |-> "update", agent |-> a, path |-> None, stream |-> s, temps |-> {}, took |-> {}]
    BY <1>2 DEF Idle
  <1>4. r \in ProcRecord /\ CallOk(r)'
    BY <1>1, <1>3 DEF ProcRecord, Pcs, CallOk
  <1>5. CallTypes'
    BY <1>1, <1>2, <1>4, GoTypes DEF UpdateWorktreeStream, Types, snvars
  <1>6. SnapTypes'
    BY SnapQuiet DEF UpdateWorktreeStream, Types, snvars
  <1>7. TreeTypes'
    BY <1>1 DEF UpdateWorktreeStream, Types, TreeTypes
  <1> QED BY <1>5, <1>6, <1>7 DEF Types

LEMMA DeallocateTypes ==
  ASSUME Types, UNCHANGED snvars, NEW p \in setting.procs, NEW a \in setting.agents,
         DeallocateWorktree(p, a)
  PROVE  Types'
  <1>1. p \in Procs /\ a \in Agents
    BY SettingFacts DEF Types, TreeTypes
  <1>2. PICK r : r = [Idle EXCEPT !.pc = "delete", !.agent = a, !.path = row[a].path]
    OBVIOUS
  <1>3. r = [pc |-> "delete", agent |-> a, path |-> row[a].path, stream |-> None,
             temps |-> {}, took |-> {}]
    BY <1>2 DEF Idle
  <1>4. row[a].path \in Paths /\ row[a].path \in AllPaths
    BY <1>1 DEF DeallocateWorktree, Types, TreeTypes, AllPaths
  <1>5. r \in ProcRecord /\ CallOk(r)'
    BY <1>1, <1>3, <1>4 DEF ProcRecord, Pcs, CallOk
  <1>6. CallTypes'
    BY <1>1, <1>2, <1>5, GoTypes DEF DeallocateWorktree, Types, snvars
  <1>7. SnapTypes'
    BY SnapQuiet DEF DeallocateWorktree, Types, snvars
  <1>8. TreeTypes'
    <2>1. UNCHANGED <<setting, alive, row, made, used>>
      BY DEF DeallocateWorktree
    <2>2. CASE RemoveWorktree(row[a].path) /\ UNCHANGED left
      BY <1>4, <2>1, <2>2 DEF RemoveWorktree, Types, TreeTypes
    <2>3. CASE UNCHANGED <<tree, dir, work>> /\ left' = left \cup {row[a].path}
      BY <1>4, <2>1, <2>3 DEF Types, TreeTypes
    <2> QED BY <2>2, <2>3 DEF DeallocateWorktree
  <1> QED BY <1>6, <1>7, <1>8 DEF Types

LEMMA TemporaryTypes ==
  ASSUME Types, UNCHANGED snvars, NEW p \in setting.procs, NEW s \in setting.streams,
         NEW w \in TempPaths, TemporaryWorktree(p, s, w)
  PROVE  Types'
  <1>1. p \in Procs /\ s \in Streams
    BY SettingFacts DEF Types, TreeTypes
  <1>2. PICK r : r = [proc[p] EXCEPT !.temps = @ \cup {w}]
    OBVIOUS
  <1>3. /\ proc[p].pc = "cascade" /\ Go(p, r) /\ AddWorktree(w, s)
        /\ UNCHANGED <<setting, alive, row, work, made, left, used>>
    BY <1>2 DEF TemporaryWorktree, At
  <1>4. proc[p] \in ProcRecord /\ CallOk(proc[p])
    BY <1>1 DEF Types, CallTypes
  <1>5. r \in ProcRecord /\ CallOk(r)'
    BY <1>2, <1>3, <1>4 DEF ProcRecord, CallOk
  <1>6. CallTypes'
    BY <1>1, <1>3, <1>5, GoTypes DEF Types, snvars
  <1>7. SnapTypes'
    BY <1>3, SnapQuiet DEF Types, snvars
  <1>8. TreeTypes'
    BY <1>1, <1>3 DEF AddWorktree, Types, TreeTypes, AllPaths
  <1> QED BY <1>6, <1>7, <1>8 DEF Types

LEMMA PrunedType ==
  ASSUME tree \in [AllPaths -> Streams \cup {Main, Detached, None}]
  PROVE  Pruned(tree, dir) \in [AllPaths -> Streams \cup {Main, Detached, None}]
  BY DEF Pruned

LEMMA CascadeTypes ==
  ASSUME Types, UNCHANGED snvars, NEW p \in setting.procs, GcPrune(p) \/ BeginCascade(p)
  PROVE  Types'
  <1>1. p \in Procs
    BY SettingFacts DEF Types, TreeTypes
  <1>2. CASE GcPrune(p)
    <2>1. TreeTypes'
      BY <1>2, PrunedType DEF GcPrune, Types, TreeTypes
    <2>2. CallTypes'
      BY <1>2 DEF GcPrune, Types, CallTypes, CallOk, snvars
    <2>3. SnapTypes'
      BY <1>2, SnapQuiet DEF GcPrune, Types, snvars
    <2> QED BY <2>1, <2>2, <2>3 DEF Types
  <1>3. CASE BeginCascade(p)
    <2>1. PICK r : r = [Idle EXCEPT !.pc = "cascade"]
      OBVIOUS
    <2>2. r \in ProcRecord /\ CallOk(r)'
      BY <2>1 DEF Idle, ProcRecord, Pcs, CallOk
    <2>3. CallTypes'
      BY <1>1, <1>3, <2>1, <2>2, GoTypes DEF BeginCascade, Types, snvars
    <2>4. used' \in [Bounds -> Nat]
      BY <1>3, UseTypes DEF BeginCascade, Types, TreeTypes, Bounds
    <2>5. TreeTypes'
      BY <1>3, <2>4 DEF BeginCascade, Types, TreeTypes
    <2>6. SnapTypes'
      BY <1>3, SnapQuiet DEF BeginCascade, Types, snvars
    <2> QED BY <2>3, <2>5, <2>6 DEF Types
  <1> QED BY <1>2, <1>3

LEMMA StepTypes ==
  ASSUME Types, UNCHANGED snvars, NEW p \in setting.procs, WorktreeSteps(p)
  PROVE  Types'
  <1>1. p \in Procs /\ proc[p] \in ProcRecord /\ CallOk(proc[p])
    BY SettingFacts DEF Types, TreeTypes, CallTypes
  <1>2. UNCHANGED <<setting, alive, made, used>>
    BY DEF WorktreeSteps, InsertRow, UpdateRow, DeleteRow, PruneWorktrees, CleanTemporary, EndCleanup
  <1>3. SnapTypes'
    BY <1>2, SnapQuiet DEF Types, snvars
  <1>4. CASE InsertRow(p)
    <2>1. CallTypes'
      BY <1>1, <1>4, ReturnTypes DEF InsertRow, Types, snvars
    <2>2. proc[p].agent \in Agents /\ proc[p].path \in Paths /\ proc[p].stream \in Streams \cup {None}
      BY <1>1, <1>4 DEF InsertRow, At, CallOk, ProcRecord
    <2>3. row' \in [Agents -> RowRecord] /\ \A a \in Agents : row'[a] # NoRow => row'[a].path \in Paths
      BY <1>4, <2>2 DEF InsertRow, Types, TreeTypes, RowRecord
    <2>4. TreeTypes'
      BY <1>2, <1>4, <2>3 DEF InsertRow, Types, TreeTypes
    <2> QED BY <1>3, <2>1, <2>4 DEF Types
  <1>5. CASE UpdateRow(p)
    <2>1. CallTypes'
      BY <1>1, <1>5, ReturnTypes DEF UpdateRow, Types, snvars
    <2>2. proc[p].agent \in Agents /\ proc[p].stream \in Streams \cup {None}
      BY <1>1, <1>5 DEF UpdateRow, At, CallOk, ProcRecord
    <2>3. row' \in [Agents -> RowRecord] /\ \A a \in Agents : row'[a] # NoRow => row'[a].path \in Paths
      <3>1. CASE row' = row
        BY <3>1 DEF Types, TreeTypes
      <3>2. CASE row[proc[p].agent] # NoRow /\ row' = [row EXCEPT ![proc[p].agent].stream = proc[p].stream]
        BY <2>2, <3>2 DEF Types, TreeTypes, RowRecord
      <3> QED BY <1>5, <3>1, <3>2 DEF UpdateRow
    <2>4. TreeTypes'
      BY <1>2, <1>5, <2>3 DEF UpdateRow, Types, TreeTypes
    <2> QED BY <1>3, <2>1, <2>4 DEF Types
  <1>6. CASE DeleteRow(p)
    <2>1. PICK r : r = [proc[p] EXCEPT !.pc = "prune"]
      OBVIOUS
    <2>2. /\ proc[p].pc = "delete" /\ Go(p, r) /\ row' = [row EXCEPT ![proc[p].agent] = NoRow]
          /\ UNCHANGED <<tree, dir, work, left>>
      BY <1>6, <2>1 DEF DeleteRow, At
    <2>3. r \in ProcRecord /\ CallOk(r)'
      BY <1>1, <1>2, <2>1, <2>2 DEF ProcRecord, Pcs, CallOk
    <2>4. CallTypes'
      BY <1>1, <1>2, <2>2, <2>3, GoTypes DEF Types, snvars
    <2>5. NoRow \in RowRecord
      BY DEF NoRow, RowRecord
    <2>6. TreeTypes'
      BY <1>2, <2>2, <2>5 DEF Types, TreeTypes
    <2> QED BY <1>3, <2>4, <2>6 DEF Types
  <1>7. CASE PruneWorktrees(p) \/ EndCleanup(p)
    <2>1. CallTypes'
      BY <1>1, <1>7, ReturnTypes DEF PruneWorktrees, EndCleanup, Types, snvars
    <2>2. TreeTypes'
      BY <1>7, PrunedType DEF PruneWorktrees, EndCleanup, Types, TreeTypes
    <2> QED BY <1>3, <2>1, <2>2 DEF Types
  <1>8. ASSUME NEW w \in TempPaths, CleanTemporary(p, w) PROVE Types'
    <2>1. PICK r : r = [proc[p] EXCEPT !.pc = "cleanup", !.temps = @ \ {w}]
      OBVIOUS
    <2>2. /\ proc[p].pc \in {"cascade", "cleanup"} /\ Go(p, r) /\ UNCHANGED row
          /\ \/ RemoveWorktree(w) /\ UNCHANGED left
             \/ dir' = dir \ {w} /\ UNCHANGED <<tree, work, left>>
             \/ left' = left \cup {w} /\ UNCHANGED <<tree, dir, work>>
      BY <1>8, <2>1 DEF CleanTemporary, At
    <2>3. r \in ProcRecord /\ CallOk(r)'
      BY <1>1, <1>2, <2>1, <2>2 DEF ProcRecord, Pcs, CallOk
    <2>4. CallTypes'
      BY <1>1, <1>2, <2>2, <2>3, GoTypes DEF Types, snvars
    <2>5. w \in AllPaths
      BY DEF AllPaths
    <2>6. TreeTypes'
      BY <1>2, <2>2, <2>5 DEF Types, TreeTypes, RemoveWorktree
    <2> QED BY <1>3, <2>4, <2>6 DEF Types
  <1> QED BY <1>4, <1>5, <1>6, <1>7, <1>8 DEF WorktreeSteps

LEMMA OthersTypes ==
  ASSUME Types, UNCHANGED snvars, Others
  PROVE  Types'
  <1>1. UNCHANGED <<setting, row, tree, left, proc>> /\ made \subseteq made'
    BY DEF Others, CommitWork, Die, Edit, DeletedByHand
  <1>2. SnapTypes'
    BY <1>1, SnapQuiet DEF Types, snvars
  <1>3. CallTypes'
    BY <1>1 DEF Types, CallTypes, CallOk, snvars
  <1>4. ASSUME NEW a \in setting.agents, CommitWork(a) PROVE TreeTypes'
    BY <1>1, <1>4 DEF CommitWork, Types, TreeTypes
  <1>5. ASSUME NEW a \in setting.agents, Die(a) PROVE TreeTypes'
    <2>1. used' \in [Bounds -> Nat]
      BY <1>5, UseTypes DEF Die, Types, TreeTypes, Bounds
    <2> QED BY <1>1, <1>5, <2>1 DEF Die, Types, TreeTypes
  <1>6. ASSUME NEW a \in setting.agents, NEW piece \in Work, Edit(a, piece) PROVE TreeTypes'
    <2>1. work' \in [AllPaths -> SUBSET made'] /\ made' \subseteq setting.work
      BY <1>6 DEF Edit, Types, TreeTypes
    <2> QED BY <1>1, <1>6, <2>1 DEF Edit, Types, TreeTypes
  <1>7. ASSUME NEW w \in Paths, DeletedByHand(w) PROVE TreeTypes'
    <2>1. used' \in [Bounds -> Nat]
      BY <1>7, UseTypes DEF DeletedByHand, Types, TreeTypes, Bounds
    <2> QED BY <1>1, <1>7, <2>1 DEF DeletedByHand, Types, TreeTypes
  <1> QED BY <1>2, <1>3, <1>4, <1>5, <1>6, <1>7 DEF Others, Types

LEMMA SnapshotTypes ==
  ASSUME Types, NEW p \in setting.procs, SnapshotCalls(p) \/ RecordSnapshot(p)
  PROVE  Types'
  <1>1. /\ p \in Procs /\ proc[p] \in ProcRecord /\ CallOk(proc[p])
        /\ setting.work \subseteq Work /\ stash \in Seq(SUBSET made)
    BY SettingFacts DEF Types, TreeTypes, CallTypes, SnapTypes
  <1>2. ASSUME NEW w \in Paths, Snapshot(p, w) PROVE Types'
    <2>1. PICK r : r = [Idle EXCEPT !.pc = "record", !.path = w, !.took = work[w]]
      OBVIOUS
    <2>2. r = [pc |-> "record", agent |-> None, path |-> w, stream |-> None, temps |-> {},
               took |-> work[w]]
      BY <2>1 DEF Idle
    <2>3. /\ stash' = Append(stash, work[w]) /\ work' = [work EXCEPT ![w] = {}] /\ MayUse("snaps")
          /\ Go(p, r) /\ UNCHANGED <<setting, alive, row, tree, dir, made, left, snaps>>
      BY <1>2, <2>1 DEF Snapshot
    <2>4. work[w] \in SUBSET made /\ made \subseteq setting.work
      BY DEF Types, TreeTypes, AllPaths
    <2>5. stash' \in Seq(SUBSET made) /\ Len(stash') = Len(stash) + 1 /\ Len(stash) \in Nat
      BY <1>1, <2>3, <2>4
    <2>6. r \in ProcRecord /\ CallOk(r)'
      BY <1>1, <2>2, <2>3, <2>4, <2>5 DEF ProcRecord, Pcs, CallOk
    <2>7. CallTypes'
      BY <1>1, <2>3, <2>5, <2>6, GoTypes DEF Types
    <2>8. used' \in [Bounds -> Nat]
      BY <2>3, UseTypes DEF Types, TreeTypes, Bounds
    <2>9. TreeTypes'
      BY <2>3, <2>8 DEF Types, TreeTypes
    <2>10. SnapTypes'
      <3>1. snaps' \subseteq Snap' /\ \A s \in snaps' : s.ref \in 1 .. Len(stash)
        BY <2>3 DEF Types, SnapTypes, Snap
      <3> QED BY <2>3, <2>5, <3>1 DEF SnapTypes
    <2> QED BY <2>7, <2>9, <2>10 DEF Types
  <1>3. ASSUME NEW s \in snaps, NEW w \in Paths, Restore(p, s, w) PROVE Types'
    <2>1. stash[s.ref] \in SUBSET made
      BY <1>1 DEF Types, SnapTypes
    <2>2. /\ work' = [work EXCEPT ![w] = @ \cup stash[s.ref]]
          /\ UNCHANGED <<setting, alive, row, tree, dir, made, left, proc, used, stash, snaps>>
      BY <1>3 DEF Restore, snvars
    <2>3. TreeTypes'
      BY <2>1, <2>2 DEF Types, TreeTypes
    <2>4. CallTypes'
      BY <2>2 DEF Types, CallTypes, CallOk
    <2>5. SnapTypes'
      BY <2>2, SnapQuiet DEF Types
    <2> QED BY <2>3, <2>4, <2>5 DEF Types
  <1>4. ASSUME NEW s \in snaps, DeleteSnapshot(p, s) PROVE Types'
    <2>1. UNCHANGED <<wtvars, stash>> /\ snaps' = snaps \ {s}
      BY <1>4 DEF DeleteSnapshot
    <2>2. TreeTypes'
      BY <2>1 DEF Types, TreeTypes, wtvars
    <2>3. CallTypes'
      BY <2>1 DEF Types, CallTypes, CallOk, wtvars
    <2>4. SnapTypes'
      BY <2>1 DEF Types, SnapTypes, Snap, wtvars
    <2> QED BY <2>2, <2>3, <2>4 DEF Types
  <1>5. CASE RecordSnapshot(p)
    <2>1. PICK new : new = [path |-> proc[p].path, ref |-> Len(stash), took |-> proc[p].took]
      OBVIOUS
    <2>2. /\ proc[p].pc = "record" /\ Return(p) /\ snaps' = snaps \cup {new}
          /\ UNCHANGED <<setting, alive, row, tree, dir, work, made, left, used, stash>>
      BY <1>5, <2>1 DEF RecordSnapshot, At
    <2>3. proc[p].path \in Paths /\ proc[p].took \subseteq setting.work
          /\ Len(stash) \in Nat /\ Len(stash) > 0
      BY <1>1, <2>2 DEF CallOk
    <2>4. new \in Snap /\ new.ref \in 1 .. Len(stash)
      BY <2>1, <2>3 DEF Snap
    <2>5. SnapTypes'
      BY <2>2, <2>4 DEF Types, SnapTypes, Snap
    <2>6. CallTypes'
      BY <1>1, <2>2, ReturnTypes DEF Types
    <2>7. TreeTypes'
      BY <2>2 DEF Types, TreeTypes
    <2> QED BY <2>5, <2>6, <2>7 DEF Types
  <1> QED BY <1>2, <1>3, <1>4, <1>5 DEF SnapshotCalls

LEMMA CrashTypes ==
  ASSUME Types, NEW p \in setting.procs, Crash(p)
  PROVE  Types'
  <1>1. p \in Procs
    BY SettingFacts DEF Types, TreeTypes
  <1>2. /\ Return(p) /\ MayUse("crashes")
        /\ UNCHANGED <<setting, alive, row, tree, dir, work, made, left, stash, snaps>>
    BY DEF Crash, snvars
  <1>3. used' \in [Bounds -> Nat]
    BY <1>2, UseTypes DEF Types, TreeTypes, Bounds
  <1>4. TreeTypes'
    BY <1>2, <1>3 DEF Types, TreeTypes
  <1>5. CallTypes'
    BY <1>1, <1>2, ReturnTypes DEF Types
  <1>6. SnapTypes'
    BY <1>2, SnapQuiet DEF Types
  <1> QED BY <1>4, <1>5, <1>6 DEF Types

\* Only what is counted changes.
LEMMA QuietTypes ==
  ASSUME Types, UNCHANGED <<setting, alive, row, tree, dir, work, made, left, proc, snvars>>,
         used' \in [Bounds -> Nat]
  PROVE  Types'
  <1>1. TreeTypes'
    BY DEF Types, TreeTypes
  <1>2. CallTypes'
    BY DEF Types, CallTypes, CallOk, snvars
  <1>3. SnapTypes'
    BY SnapQuiet DEF Types, snvars
  <1> QED BY <1>1, <1>2, <1>3 DEF Types

-----------------------------------------------------------------------------
(* The worktrees of cascades *)

LEMMA UseGrows ==
  ASSUME used \in [Bounds -> Nat], NEW b \in Bounds, MayUse(b)
  PROVE  /\ used'[b] > 0
         /\ used'.crashes = 0 => used.crashes = 0
         /\ used'.losses = 0 => used.losses = 0
  BY DEF MayUse, Bounds

\* Cascades that go on keep what they hold.
LEMMA TempKeeps ==
  ASSUME TempInv, Intact' => Intact, left \subseteq left',
         \A w \in TempPaths : (w \in dir' => w \in dir) /\ (tree'[w] # None => tree[w] # None),
         \A p \in Procs : proc[p].temps \subseteq proc'[p].temps
                          /\ (proc[p].pc = "cleanup" => proc'[p].pc = "cleanup")
  PROVE  TempInv'
  <1> SUFFICES ASSUME Intact', NEW w \in TempPaths
               PROVE  /\ w \in dir' => w \in left' \/ \E p \in Procs : w \in proc'[p].temps
                      /\ tree'[w] # None =>
                           w \in left' \/ \E p \in Procs : w \in proc'[p].temps \/ proc'[p].pc = "cleanup"
    BY DEF TempInv, At
  <1>1. /\ w \in dir => w \in left \/ \E p \in Procs : w \in proc[p].temps
        /\ tree[w] # None => w \in left \/ \E p \in Procs : w \in proc[p].temps \/ proc[p].pc = "cleanup"
    BY DEF TempInv, At
  <1> QED BY <1>1

\* A step of a call that is not a cascade.
LEMMA CallKeepsTemps ==
  ASSUME Types, NEW p \in Procs, NEW r, Go(p, r), proc[p].pc \notin {"cascade", "cleanup"}
  PROVE  \A q \in Procs : proc[q].temps \subseteq proc'[q].temps
                          /\ (proc[q].pc = "cleanup" => proc'[q].pc = "cleanup")
  <1>1. proc[p].temps = {} /\ proc \in [Procs -> ProcRecord]
    BY DEF Types, CallTypes, CallOk
  <1> QED BY <1>1 DEF Go

LEMMA TempCalls ==
  ASSUME Types, TempInv, NEW p \in setting.procs, WorktreeCalls(p)
  PROVE  TempInv'
  <1>1. /\ p \in Procs /\ Paths \cap TempPaths = {} /\ None \notin Streams
        /\ setting.streams \subseteq Streams /\ setting.agents \subseteq Agents
        /\ used \in [Bounds -> Nat] /\ tree \in [AllPaths -> Streams \cup {Main, Detached, None}]
    BY SettingFacts DEF Types, TreeTypes
  <1>2. ASSUME NEW a \in setting.agents, NEW w \in Paths, NEW b \in setting.streams \cup {Detached},
               CreateWorktree(p, a, w, b)
        PROVE  TempInv'
    <2>1. \A q \in Procs : proc[q].temps \subseteq proc'[q].temps
                           /\ (proc[q].pc = "cleanup" => proc'[q].pc = "cleanup")
      BY <1>1, <1>2, CallKeepsTemps DEF CreateWorktree, At
    <2>2. \A v \in TempPaths : (v \in dir' => v \in dir) /\ tree'[v] = tree[v]
      BY <1>1, <1>2 DEF CreateWorktree, AddWorktree, AllPaths
    <2> QED BY <1>2, <2>1, <2>2, TempKeeps DEF CreateWorktree, Intact
  <1>3. ASSUME NEW a \in setting.agents, NEW s \in setting.streams \cup {None},
               UpdateWorktreeStream(p, a, s)
        PROVE  TempInv'
    <2>1. \A q \in Procs : proc[q].temps \subseteq proc'[q].temps
                           /\ (proc[q].pc = "cleanup" => proc'[q].pc = "cleanup")
      BY <1>1, <1>3, CallKeepsTemps DEF UpdateWorktreeStream, At
    <2>2. row[a].path \in Paths
      BY <1>1, <1>3 DEF UpdateWorktreeStream, Types, TreeTypes
    <2>3. \A v \in TempPaths : tree'[v] = tree[v]
      BY <1>1, <1>3, <2>2 DEF UpdateWorktreeStream, AllPaths
    <2> QED BY <1>3, <2>1, <2>3, TempKeeps DEF UpdateWorktreeStream, Intact
  <1>4. ASSUME NEW a \in setting.agents, DeallocateWorktree(p, a) PROVE TempInv'
    <2>1. \A q \in Procs : proc[q].temps \subseteq proc'[q].temps
                           /\ (proc[q].pc = "cleanup" => proc'[q].pc = "cleanup")
      BY <1>1, <1>4, CallKeepsTemps DEF DeallocateWorktree, At
    <2>2. row[a].path \in Paths
      BY <1>1, <1>4 DEF DeallocateWorktree, Types, TreeTypes
    <2>3. \A v \in TempPaths : (v \in dir' => v \in dir) /\ tree'[v] = tree[v]
      BY <1>1, <1>4, <2>2 DEF DeallocateWorktree, RemoveWorktree, AllPaths
    <2>4. left \subseteq left' /\ UNCHANGED used
      BY <1>4 DEF DeallocateWorktree
    <2> QED BY <2>1, <2>3, <2>4, TempKeeps DEF Intact
  <1>5. ASSUME NEW s \in setting.streams, NEW w \in TempPaths, TemporaryWorktree(p, s, w)
        PROVE  TempInv'
    <2>1. PICK r : r = [proc[p] EXCEPT !.temps = @ \cup {w}]
      OBVIOUS
    <2>2. /\ proc[p].pc = "cascade" /\ Go(p, r) /\ tree' = [tree EXCEPT ![w] = s] /\ dir' = dir \cup {w}
          /\ UNCHANGED <<left, used>>
      BY <1>5, <2>1 DEF TemporaryWorktree, At, AddWorktree
    <2>3. proc \in [Procs -> ProcRecord] /\ proc[p] \in ProcRecord
      BY <1>1 DEF Types, CallTypes
    <2>4. r.temps = proc[p].temps \cup {w} /\ r.pc = proc[p].pc
      BY <2>1, <2>3 DEF ProcRecord
    <2>5. proc'[p] = r /\ \A q \in Procs : q # p => proc'[q] = proc[q]
      BY <1>1, <2>2, <2>3 DEF Go
    <2>6. /\ w \in proc'[p].temps
          /\ \A q \in Procs : proc[q].temps \subseteq proc'[q].temps
                              /\ (proc[q].pc = "cleanup" => proc'[q].pc = "cleanup")
      BY <2>4, <2>5
    <2>7. \A v \in TempPaths : v # w => (v \in dir' => v \in dir) /\ tree'[v] = tree[v]
      BY <1>1, <2>2 DEF AllPaths
    <2> QED BY <1>1, <2>2, <2>6, <2>7 DEF TempInv, Intact, At
  <1>6. CASE GcPrune(p)
    <2>1. \A v \in TempPaths : tree'[v] # None => tree[v] # None
      BY <1>1, <1>6 DEF GcPrune, Pruned, AllPaths
    <2> QED BY <1>6, <2>1, TempKeeps DEF GcPrune, Intact
  <1>7. CASE BeginCascade(p)
    <2>1. \A q \in Procs : proc[q].temps \subseteq proc'[q].temps
                           /\ (proc[q].pc = "cleanup" => proc'[q].pc = "cleanup")
      BY <1>1, <1>7, CallKeepsTemps DEF BeginCascade, At
    <2>2. Intact' => Intact
      BY <1>1, <1>7, UseGrows DEF BeginCascade, Intact, Bounds
    <2> QED BY <1>7, <2>1, <2>2, TempKeeps DEF BeginCascade
  <1> QED BY <1>2, <1>3, <1>4, <1>5, <1>6, <1>7 DEF WorktreeCalls

LEMMA TempSteps ==
  ASSUME Types, TempInv, NEW p \in setting.procs, WorktreeSteps(p)
  PROVE  TempInv'
  <1>1. /\ p \in Procs /\ proc \in [Procs -> ProcRecord] /\ proc[p] \in ProcRecord /\ CallOk(proc[p])
        /\ tree \in [AllPaths -> Streams \cup {Main, Detached, None}]
    BY SettingFacts DEF Types, TreeTypes, CallTypes
  <1>2. UNCHANGED used
    BY DEF WorktreeSteps, InsertRow, UpdateRow, DeleteRow, PruneWorktrees, CleanTemporary, EndCleanup
  <1>3. CASE InsertRow(p) \/ UpdateRow(p) \/ DeleteRow(p) \/ PruneWorktrees(p)
    <2>1. PICK r : Go(p, r)
      BY <1>3 DEF InsertRow, UpdateRow, DeleteRow, PruneWorktrees, Return
    <2>2. proc[p].pc \notin {"cascade", "cleanup"} /\ UNCHANGED <<dir, left>>
      BY <1>3 DEF InsertRow, UpdateRow, DeleteRow, PruneWorktrees, At
    <2>3. \A q \in Procs : proc[q].temps \subseteq proc'[q].temps
                           /\ (proc[q].pc = "cleanup" => proc'[q].pc = "cleanup")
      BY <1>1, <2>1, <2>2, CallKeepsTemps
    <2>4. \A v \in TempPaths : tree'[v] # None => tree[v] # None
      BY <1>1, <1>3 DEF InsertRow, UpdateRow, DeleteRow, PruneWorktrees, Pruned, AllPaths
    <2> QED BY <1>2, <2>2, <2>3, <2>4, TempKeeps DEF Intact
  <1>4. ASSUME NEW w \in TempPaths, CleanTemporary(p, w) PROVE TempInv'
    <2>1. PICK r : r = [proc[p] EXCEPT !.pc = "cleanup", !.temps = @ \ {w}]
      OBVIOUS
    <2>2. /\ Go(p, r)
          /\ \/ RemoveWorktree(w) /\ UNCHANGED left
             \/ dir' = dir \ {w} /\ UNCHANGED <<tree, work, left>>
             \/ left' = left \cup {w} /\ UNCHANGED <<tree, dir, work>>
      BY <1>4, <2>1 DEF CleanTemporary
    <2>3. r.pc = "cleanup" /\ r.temps = proc[p].temps \ {w}
      BY <1>1, <2>1 DEF ProcRecord
    <2>4. proc'[p] = r /\ \A q \in Procs : q # p => proc'[q] = proc[q]
      BY <1>1, <2>2 DEF Go
    <2>5. /\ left \subseteq left' /\ dir' \subseteq dir
          /\ w \notin dir' \/ w \in left'
      BY <2>2 DEF RemoveWorktree
    <2>6. \A v \in TempPaths : \A q \in Procs : v # w /\ v \in proc[q].temps => v \in proc'[q].temps
      BY <2>3, <2>4
    <2>7. ASSUME Intact', NEW v \in TempPaths
          PROVE  v \in dir' => v \in left' \/ \E q \in Procs : v \in proc'[q].temps
      <3>1. Intact /\ (v \in dir => v \in left \/ \E q \in Procs : v \in proc[q].temps)
        BY <1>2, <2>7 DEF TempInv, Intact
      <3> QED BY <2>5, <2>6, <3>1
    <2>8. \E q \in Procs : proc'[q].pc = "cleanup"
      BY <1>1, <2>3, <2>4
    <2> QED BY <2>7, <2>8 DEF TempInv, At
  <1>5. CASE EndCleanup(p)
    <2>1. /\ proc[p].temps = {} /\ tree' = Pruned(tree, dir) /\ UNCHANGED <<dir, left>>
          /\ \A q \in Procs : q # p => proc'[q] = proc[q]
      BY <1>1, <1>5 DEF EndCleanup, Return, Go
    <2>2. ASSUME Intact', NEW v \in TempPaths
          PROVE  v \in dir' => v \in left' \/ \E q \in Procs : v \in proc'[q].temps
      <3>1. Intact /\ (v \in dir => v \in left \/ \E q \in Procs : v \in proc[q].temps)
        BY <1>2, <2>2 DEF TempInv, Intact
      <3> QED BY <2>1, <3>1
    <2>3. \A v \in TempPaths : tree'[v] # None => v \in dir'
      BY <2>1 DEF Pruned, AllPaths
    <2> QED BY <2>2, <2>3 DEF TempInv
  <1> QED BY <1>3, <1>4, <1>5 DEF WorktreeSteps

LEMMA TempOthers ==
  ASSUME Types, TempInv, Others
  PROVE  TempInv'
  <1>1. /\ used \in [Bounds -> Nat] /\ dir' \subseteq dir /\ UNCHANGED <<tree, left, proc>>
    BY DEF Types, TreeTypes, Others, CommitWork, Die, Edit, DeletedByHand
  <1>2. Intact' => Intact
    BY <1>1, UseGrows DEF Others, CommitWork, Die, Edit, DeletedByHand, Intact, Bounds
  <1> QED BY <1>1, <1>2, TempKeeps

LEMMA TempSnapshots ==
  ASSUME Types, TempInv, NEW p \in setting.procs, SnapshotCalls(p) \/ RecordSnapshot(p)
  PROVE  TempInv'
  <1>1. p \in Procs /\ used \in [Bounds -> Nat]
    BY SettingFacts DEF Types, TreeTypes
  <1>2. UNCHANGED <<tree, dir, left>>
    BY DEF SnapshotCalls, Snapshot, Restore, DeleteSnapshot, RecordSnapshot, wtvars
  <1>3. Intact' => Intact
    BY <1>1, UseGrows DEF SnapshotCalls, Snapshot, Restore, DeleteSnapshot, RecordSnapshot, wtvars,
                          Intact, Bounds
  <1>4. \/ UNCHANGED proc
        \/ proc[p].pc \notin {"cascade", "cleanup"} /\ \E r : Go(p, r)
    BY DEF SnapshotCalls, Snapshot, Restore, DeleteSnapshot, RecordSnapshot, wtvars, At, Return
  <1>5. \A q \in Procs : proc[q].temps \subseteq proc'[q].temps
                         /\ (proc[q].pc = "cleanup" => proc'[q].pc = "cleanup")
    BY <1>1, <1>4, CallKeepsTemps
  <1> QED BY <1>2, <1>3, <1>5, TempKeeps

LEMMA TempCrash ==
  ASSUME Types, NEW p \in setting.procs, Crash(p)
  PROVE  ~ Intact'
  <1>1. used \in [Bounds -> Nat] /\ "crashes" \in Bounds /\ MayUse("crashes")
    BY DEF Types, TreeTypes, Crash, Bounds
  <1>2. used'["crashes"] > 0
    BY <1>1, UseGrows
  <1> QED BY <1>2 DEF Intact

-----------------------------------------------------------------------------
(* The snapshots *)

LEMMA StashSnapshots ==
  ASSUME Types, StashInv, NEW p \in setting.procs, SnapshotCalls(p) \/ RecordSnapshot(p)
  PROVE  StashInv'
  <1>1. UNCHANGED setting /\ p \in Procs /\ stash \in Seq(SUBSET made)
        /\ proc \in [Procs -> ProcRecord] /\ \A s \in snaps : s.ref \in 1 .. Len(stash)
    BY SettingFacts
       DEF Types, TreeTypes, CallTypes, SnapTypes, SnapshotCalls, Snapshot, Restore, DeleteSnapshot,
           RecordSnapshot, wtvars
  <1> SUFFICES ASSUME setting.procs = {p}
               PROVE  /\ \A s \in snaps' : stash'[s.ref] = s.took
                      /\ proc'[p].pc = "record" => stash'[Len(stash')] = proc'[p].took
    BY <1>1 DEF StashInv, At
  <1>2. /\ \A s \in snaps : stash[s.ref] = s.took
        /\ proc[p].pc = "record" => stash[Len(stash)] = proc[p].took
    BY <1>1 DEF StashInv, At
  <1>3. ASSUME NEW w \in Paths, Snapshot(p, w)
        PROVE  /\ \A s \in snaps' : stash'[s.ref] = s.took
               /\ proc'[p].pc = "record" => stash'[Len(stash')] = proc'[p].took
    <2>1. PICK r : r = [Idle EXCEPT !.pc = "record", !.path = w, !.took = work[w]]
      OBVIOUS
    <2>2. r.took = work[w]
      BY <2>1 DEF Idle
    <2>3. stash' = Append(stash, work[w]) /\ proc'[p] = r /\ UNCHANGED snaps
      BY <1>1, <1>3, <2>1 DEF Snapshot, Go
    <2>4. work[w] \in SUBSET made
      BY DEF Types, TreeTypes, AllPaths
    <2>5. /\ Len(stash') = Len(stash) + 1 /\ stash'[Len(stash')] = work[w]
          /\ \A i \in 1 .. Len(stash) : stash'[i] = stash[i]
      BY <1>1, <2>3, <2>4
    <2> QED BY <1>1, <1>2, <2>2, <2>3, <2>5
  <1>4. ASSUME NEW s \in snaps, (\E w \in Paths : Restore(p, s, w)) \/ DeleteSnapshot(p, s)
        PROVE  /\ \A t \in snaps' : stash'[t.ref] = t.took
               /\ proc'[p].pc = "record" => stash'[Len(stash')] = proc'[p].took
    BY <1>2, <1>4 DEF Restore, DeleteSnapshot, snvars, wtvars
  <1>5. CASE RecordSnapshot(p)
    <2>1. PICK new : new = [path |-> proc[p].path, ref |-> Len(stash), took |-> proc[p].took]
      OBVIOUS
    <2>2. /\ proc[p].pc = "record" /\ proc'[p] = Idle /\ snaps' = snaps \cup {new} /\ UNCHANGED stash
      BY <1>1, <1>5, <2>1 DEF RecordSnapshot, At, Return, Go
    <2>3. stash[new.ref] = new.took
      BY <1>2, <2>1, <2>2
    <2> QED BY <1>2, <2>2, <2>3 DEF Idle
  <1> QED BY <1>3, <1>4, <1>5 DEF SnapshotCalls

\* A call that is not a snapshot, of the only process there is.
LEMMA StashQuiet ==
  ASSUME StashInv, UNCHANGED <<setting, stash, snaps>>,
         \A q \in setting.procs : At(q, "record")' => At(q, "record") /\ proc'[q].took = proc[q].took
  PROVE  StashInv'
  BY DEF StashInv, At

LEMMA StashWorktrees ==
  ASSUME Types, StashInv, UNCHANGED snvars, NEW p \in setting.procs,
         WorktreeCalls(p) \/ WorktreeSteps(p)
  PROVE  StashInv'
  <1>1. p \in Procs /\ proc \in [Procs -> ProcRecord] /\ proc[p] \in ProcRecord /\ UNCHANGED setting
    BY SettingFacts, WorktreesQuiet DEF Types, TreeTypes, CallTypes
  <1>2. proc' = proc \/ \E r : Go(p, r) /\ r.pc # "record"
    <2> DEFINE NotRecord(r) == r.pc # "record"
    <2>1. /\ \A a, w, b : NotRecord([Idle EXCEPT !.pc = "insert", !.agent = a, !.path = w, !.stream = b])
          /\ \A a, b : NotRecord([Idle EXCEPT !.pc = "update", !.agent = a, !.stream = b])
          /\ \A a, w : NotRecord([Idle EXCEPT !.pc = "delete", !.agent = a, !.path = w])
          /\ NotRecord([Idle EXCEPT !.pc = "cascade"]) /\ NotRecord(Idle)
          /\ NotRecord([proc[p] EXCEPT !.pc = "prune"])
          /\ \A t : NotRecord([proc[p] EXCEPT !.pc = "cleanup", !.temps = t])
          /\ \A t : proc[p].pc = "cascade" => NotRecord([proc[p] EXCEPT !.temps = t])
      BY <1>1 DEF Idle, ProcRecord
    <2> HIDE DEF NotRecord
    <2>2. CASE WorktreeCalls(p)
      <3>1. proc' = proc \/ \E r : Go(p, r) /\ NotRecord(r)
        BY <2>1, <2>2 DEF WorktreeCalls, CreateWorktree, UpdateWorktreeStream, DeallocateWorktree,
                          TemporaryWorktree, GcPrune, BeginCascade, At
      <3> QED BY <3>1 DEF NotRecord
    <2>3. CASE WorktreeSteps(p)
      <3>1. proc' = proc \/ \E r : Go(p, r) /\ NotRecord(r)
        BY <2>1, <2>3 DEF WorktreeSteps, InsertRow, UpdateRow, DeleteRow, PruneWorktrees,
                          CleanTemporary, EndCleanup, Return
      <3> QED BY <3>1 DEF NotRecord
    <2> QED BY <2>2, <2>3
  <1>3. \A q \in Procs : At(q, "record")' => At(q, "record") /\ proc'[q] = proc[q]
    BY <1>1, <1>2 DEF At, Go
  <1>4. setting.procs \subseteq Procs
    BY SettingFacts DEF Types, TreeTypes
  <1> QED BY <1>1, <1>3, <1>4, StashQuiet DEF snvars

-----------------------------------------------------------------------------
(* Rows and git *)

LEMMA AgreedKeeps ==
  ASSUME Types, AgreedInv, UNCHANGED <<setting, row, left, proc>>,
         Intact' /\ used'.losses = 0 => Intact /\ used.losses = 0,
         Intact' /\ used'.losses = 0 =>
           \A w \in Paths : tree'[w] = tree[w] /\ (w \in dir' <=> w \in dir)
  PROVE  AgreedInv'
  <1> SUFFICES ASSUME Intact', used'.losses = 0, NEW q \in Procs, setting.procs = {q}
               PROVE  Agreed(proc[q])'
    BY DEF AgreedInv
  <1>1. Agreed(proc[q])
    BY DEF AgreedInv
  <1>2. /\ \A w \in Paths : tree'[w] = tree[w] /\ (w \in dir' <=> w \in dir)
        /\ \A a \in Agents : row[a] # NoRow => row[a].path \in Paths
        /\ proc[q].pc \in {"insert", "delete"} => proc[q].path \in Paths
        /\ proc[q].pc \in {"update", "delete"} => proc[q].agent \in Agents
    BY DEF Types, TreeTypes, CallTypes, CallOk
  <1>3. TreesThere' /\ RowsDistinct'
    BY <1>1, <1>2 DEF Agreed, TreesThere, RowsDistinct
  <1>4. RowsLive(proc[q])' /\ RowsMatch(proc[q])'
    BY <1>1, <1>2 DEF Agreed, RowsLive, RowsMatch, RowTrue
  <1>5. NoneForgotten(proc[q])'
    BY <1>1, <1>2 DEF Agreed, NoneForgotten
  <1>6. CallMatches(proc[q])'
    BY <1>1, <1>2 DEF Agreed, CallMatches
  <1> QED BY <1>3, <1>4, <1>5, <1>6 DEF Agreed

\* Nothing is called between the steps of a call, so the facts a step needs are those
\* of its own process.
LEMMA AgreedFacts ==
  ASSUME Types, NEW q \in Procs, setting.procs = {q}
  PROVE  /\ setting.agents \subseteq Agents /\ setting.streams \subseteq Streams
         /\ None \notin Streams /\ Main # None /\ Detached # None
         /\ row \in [Agents -> RowRecord]
         /\ \A a \in Agents : row[a] # NoRow => row[a].path \in Paths
         /\ tree \in [AllPaths -> Streams \cup {Main, Detached, None}] /\ Paths \subseteq AllPaths
         /\ proc \in [Procs -> ProcRecord] /\ proc[q] \in ProcRecord
         /\ proc[q].pc \in {"insert", "update", "delete"} => proc[q].agent \in Agents
         /\ proc[q].pc \in {"insert", "delete"} => proc[q].path \in Paths
         /\ Paths \cap TempPaths = {} /\ None \notin Paths
  <1>1. setting \in Settings /\ CallOk(proc[q])
    BY DEF Types, TreeTypes, CallTypes
  <1>2. /\ setting.agents \subseteq Agents /\ setting.streams \subseteq Streams
        /\ None \notin Streams /\ Main # None /\ Detached # None
        /\ Paths \cap TempPaths = {} /\ None \notin Paths
    <2>1. setting.agents \subseteq Agents /\ setting.streams \subseteq Streams
      BY <1>1, WorktreesAssumption
    <2>2. /\ None \notin Streams /\ Main # None /\ Detached # None
          /\ Paths \cap TempPaths = {} /\ None \notin Paths
      BY WorktreesAssumption
    <2> QED BY <2>1, <2>2
  <1>3. /\ proc[q].pc \in {"insert", "update", "delete"} => proc[q].agent \in Agents
        /\ proc[q].pc \in {"insert", "delete"} => proc[q].path \in Paths
    BY <1>1 DEF CallOk
  <1> QED BY <1>2, <1>3 DEF Types, TreeTypes, CallTypes, AllPaths

LEMMA AgreedCreate ==
  ASSUME Types, NEW q \in Procs, setting.procs = {q}, Agreed(proc[q]),
         NEW a \in setting.agents, NEW w \in Paths, NEW b \in setting.streams \cup {Detached},
         CreateWorktree(q, a, w, b)
  PROVE  Agreed(proc[q])'
  <1>1. PICK r : r = [Idle EXCEPT !.pc = "insert", !.agent = a, !.path = w,
                                  !.stream = IF b = Detached THEN None ELSE b]
    OBVIOUS
  <1>2. r.pc = "insert" /\ r.agent = a /\ r.path = w /\ r.stream = IF b = Detached THEN None ELSE b
    BY <1>1 DEF Idle
  <1>3. /\ proc[q].pc = "idle" /\ row[a] = NoRow /\ tree[w] = None /\ w \notin dir
        /\ tree' = [tree EXCEPT ![w] = b] /\ dir' = dir \cup {w} /\ UNCHANGED <<row, left>>
        /\ proc'[q] = r
    BY <1>1, AgreedFacts DEF CreateWorktree, At, Addable, AddWorktree, Go
  <1>4. /\ b # None /\ w \in AllPaths /\ tree'[w] = b
        /\ \A v \in Paths : v # w => tree'[v] = tree[v]
    BY <1>3, AgreedFacts
  <1>5. \A c \in Agents : row[c] # NoRow => row[c].path \in Paths /\ row[c].path # w
    BY <1>3, AgreedFacts DEF Agreed, RowsLive
  <1>6. TreesThere' /\ RowsDistinct'
    BY <1>3, <1>4 DEF Agreed, TreesThere, RowsDistinct
  <1>7. RowsLive(proc[q])' /\ RowsMatch(proc[q])'
    BY <1>2, <1>3, <1>4, <1>5 DEF Agreed, RowsLive, RowsMatch, RowTrue
  <1>8. NoneForgotten(proc[q])'
    BY <1>2, <1>3, <1>4 DEF Agreed, NoneForgotten
  <1>9. CallMatches(proc[q])'
    BY <1>2, <1>3, <1>4, AgreedFacts DEF CallMatches, Checkout
  <1> QED BY <1>6, <1>7, <1>8, <1>9 DEF Agreed

LEMMA AgreedInsert ==
  ASSUME Types, NEW q \in Procs, setting.procs = {q}, Agreed(proc[q]), InsertRow(q)
  PROVE  Agreed(proc[q])'
  <1> DEFINE r == proc[q]
  <1>1. /\ r.pc = "insert" /\ proc'[q] = Idle /\ UNCHANGED <<tree, dir, left>>
        /\ r.agent \in Agents /\ r.path \in Paths
    BY AgreedFacts DEF InsertRow, At, Return, Go
  <1>2. row[r.agent] = NoRow /\ r.path \in dir /\ tree[r.path] = Checkout(r.stream, Detached)
    BY <1>1 DEF Agreed, CallMatches
  <1>3. Idle.pc = "idle"
    BY DEF Idle
  <1>4. \A w \in Paths : w \in dir /\ w # r.path =>
          (\E a \in Agents : row[a].path = w) \/ w \in left \/ tree[w] \in Archived
    BY <1>1 DEF Agreed, NoneForgotten
  <1>5. CASE row' = row
    <2>1. (\E a \in Agents : row[a].path = r.path) \/ r.stream \in Archived
      <3>1. CASE ~ ((\E a \in Agents : row[a].path = r.path) \/ r.stream \in Archived)
        <4>1. PICK n : n = [path |-> r.path, stream |-> r.stream]
          OBVIOUS
        <4>2. row' = [row EXCEPT ![r.agent] = n]
          BY <1>2, <3>1, <4>1 DEF InsertRow
        <4>3. row'[r.agent].path = r.path
          BY <1>1, <4>1, <4>2, AgreedFacts
        <4> QED BY <1>1, <1>5, <3>1, <4>3
      <3> QED BY <3>1
    <2>2. r.stream \in Archived => tree[r.path] \in Archived
      BY <1>2, AgreedFacts, WorktreesAssumption DEF Checkout
    <2>3. NoneForgotten(proc[q])'
      BY <1>1, <1>3, <1>4, <1>5, <2>1, <2>2 DEF NoneForgotten
    <2>4. TreesThere' /\ RowsDistinct' /\ RowsLive(proc[q])' /\ RowsMatch(proc[q])'
      BY <1>1, <1>3, <1>5 DEF Agreed, TreesThere, RowsDistinct, RowsLive, RowsMatch, RowTrue
    <2> QED BY <1>1, <1>3, <2>3, <2>4 DEF Agreed, CallMatches
  <1>6. CASE row' # row
    <2>1. PICK n : n = [path |-> r.path, stream |-> r.stream]
      OBVIOUS
    <2>2. /\ \A a \in Agents : row[a].path # r.path
          /\ row' = [row EXCEPT ![r.agent] = n]
      BY <1>6, <2>1 DEF InsertRow
    <2>3. /\ row'[r.agent] = n /\ \A c \in Agents : c # r.agent => row'[c] = row[c]
      BY <1>1, <2>2, AgreedFacts
    <2>4. n.path = r.path /\ n.stream = r.stream
      BY <2>1
    <2>5. tree[r.path] # None /\ (r.stream # None => tree[r.path] = r.stream)
          /\ (r.stream = None => tree[r.path] = Detached)
      BY <1>1, <1>2, AgreedFacts DEF Checkout, Agreed, TreesThere
    <2>6. TreesThere' /\ RowsDistinct'
      BY <1>1, <2>2, <2>3, <2>4 DEF Agreed, TreesThere, RowsDistinct
    <2>7. RowsLive(proc[q])'
      BY <1>1, <1>3, <2>3, <2>4, <2>5 DEF Agreed, RowsLive
    <2>8. RowsMatch(proc[q])'
      BY <1>1, <1>3, <2>3, <2>4, <2>5 DEF Agreed, RowsMatch, RowTrue
    <2>9. NoneForgotten(proc[q])'
      <3>1. ASSUME NEW w \in Paths, NEW a \in Agents, row[a].path = w
            PROVE  \E c \in Agents : row'[c].path = w
        <4>1. CASE a = r.agent
          BY <1>2, <3>1, <4>1, AgreedFacts DEF NoRow
        <4>2. CASE a # r.agent
          BY <2>3, <3>1, <4>2
        <4> QED BY <4>1, <4>2
      <3> QED BY <1>1, <1>3, <1>4, <2>3, <2>4, <3>1 DEF NoneForgotten
    <2> QED BY <1>1, <1>3, <2>6, <2>7, <2>8, <2>9 DEF Agreed, CallMatches
  <1> QED BY <1>5, <1>6

LEMMA AgreedUpdate ==
  ASSUME Types, NEW q \in Procs, setting.procs = {q}, Agreed(proc[q]),
         NEW a \in setting.agents, NEW s \in setting.streams \cup {None},
         UpdateWorktreeStream(q, a, s)
  PROVE  Agreed(proc[q])'
  <1> DEFINE w == row[a].path
             b == Checkout(s, Main)
  <1>1. PICK r : r = [Idle EXCEPT !.pc = "update", !.agent = a, !.stream = s]
    OBVIOUS
  <1>2. r.pc = "update" /\ r.agent = a /\ r.stream = s
    BY <1>1 DEF Idle
  <1>3. /\ proc[q].pc = "idle" /\ row[a] # NoRow /\ w \in dir
        /\ tree' = [tree EXCEPT ![w] = b] /\ UNCHANGED <<row, dir, left>>
        /\ proc'[q] = r
    BY <1>1, AgreedFacts DEF UpdateWorktreeStream, At, Switchable, Go, Checkout
  <1>4. a \in Agents /\ w \in Paths /\ w \in AllPaths /\ b # None
    BY <1>3, AgreedFacts DEF Checkout
  <1>5. tree'[w] = b /\ \A v \in Paths : v # w => tree'[v] = tree[v]
    BY <1>3, <1>4, AgreedFacts
  <1> HIDE DEF b
  <1>6. \A c \in Agents : row[c] # NoRow /\ c # a => row[c].path \in Paths /\ row[c].path # w
    BY <1>3, <1>4, AgreedFacts DEF Agreed, RowsDistinct
  <1>7. TreesThere' /\ RowsDistinct'
    BY <1>3, <1>4, <1>5 DEF Agreed, TreesThere, RowsDistinct
  <1>8. RowsLive(proc[q])' /\ RowsMatch(proc[q])'
    BY <1>2, <1>3, <1>4, <1>5, <1>6 DEF Agreed, RowsLive, RowsMatch, RowTrue
  <1>9. NoneForgotten(proc[q])'
    BY <1>2, <1>3, <1>4, <1>5 DEF Agreed, NoneForgotten
  <1>10. CallMatches(proc[q])'
    BY <1>2, <1>3, <1>5 DEF CallMatches, b
  <1> QED BY <1>7, <1>8, <1>9, <1>10 DEF Agreed

LEMMA AgreedUpdateRow ==
  ASSUME Types, NEW q \in Procs, setting.procs = {q}, Agreed(proc[q]), UpdateRow(q)
  PROVE  Agreed(proc[q])'
  <1> DEFINE r == proc[q]
  <1>1. /\ r.pc = "update" /\ proc'[q] = Idle /\ UNCHANGED <<tree, dir, left>> /\ r.agent \in Agents
    BY AgreedFacts DEF UpdateRow, At, Return, Go
  <1>2. /\ row[r.agent] # NoRow /\ tree[row[r.agent].path] = Checkout(r.stream, Main)
        /\ row[r.agent].path \in Paths
    BY <1>1, AgreedFacts DEF Agreed, CallMatches
  <1>3. Idle.pc = "idle"
    BY DEF Idle
  <1>4. tree[row[r.agent].path] # None
    BY <1>1, <1>2 DEF Agreed, RowsLive
  <1>5. \/ row' = row /\ r.stream \in Archived
        \/ row' = [row EXCEPT ![r.agent].stream = r.stream]
    BY <1>2 DEF UpdateRow
  <1>6. /\ row'[r.agent].path = row[r.agent].path /\ row'[r.agent] # NoRow
        /\ \A c \in Agents : c # r.agent => row'[c] = row[c]
        /\ r.stream \in Archived \/ row'[r.agent].stream = r.stream
    <2>1. row[r.agent] \in RowRecord /\ row \in [Agents -> RowRecord]
      BY <1>1, AgreedFacts
    <2>2. CASE row' = row /\ r.stream \in Archived
      BY <1>2, <2>2
    <2>3. CASE row' = [row EXCEPT ![r.agent].stream = r.stream]
      <3>1. PICK n : n = [row[r.agent] EXCEPT !.stream = r.stream]
        OBVIOUS
      <3>2. n.path = row[r.agent].path /\ n.stream = r.stream
        BY <2>1, <3>1 DEF RowRecord
      <3>3. row'[r.agent] = n /\ \A c \in Agents : c # r.agent => row'[c] = row[c]
        BY <1>1, <2>1, <2>3, <3>1
      <3>4. n # NoRow
        BY <1>2, <3>2, AgreedFacts DEF NoRow
      <3> QED BY <3>2, <3>3, <3>4
    <2> QED BY <1>5, <2>2, <2>3
  <1>7. ASSUME NEW a \in Agents, a = r.agent PROVE RowTrue(a)'
    <2>1. tree'[row'[a].path] = Checkout(r.stream, Main)
      BY <1>1, <1>2, <1>6, <1>7
    <2>2. r.stream \in Archived => r.stream # None
      BY AgreedFacts, WorktreesAssumption
    <2> QED BY <1>6, <1>7, <2>1, <2>2 DEF RowTrue, Checkout
  <1>8. ASSUME NEW c \in Agents, c # r.agent, RowTrue(c) PROVE RowTrue(c)'
    BY <1>1, <1>6, <1>8 DEF RowTrue
  <1>9. RowsMatch(proc[q])'
    BY <1>1, <1>3, <1>6, <1>7, <1>8 DEF Agreed, RowsMatch
  <1>10. TreesThere' /\ RowsDistinct'
    BY <1>1, <1>2, <1>6 DEF Agreed, TreesThere, RowsDistinct
  <1>11. RowsLive(proc[q])'
    BY <1>1, <1>3, <1>4, <1>6 DEF Agreed, RowsLive
  <1>12. NoneForgotten(proc[q])'
    <2>1. \A a \in Agents : row'[a].path = row[a].path
      BY <1>6
    <2> QED BY <1>1, <1>3, <2>1 DEF Agreed, NoneForgotten
  <1> QED BY <1>1, <1>3, <1>9, <1>10, <1>11, <1>12 DEF Agreed, CallMatches

LEMMA AgreedDeallocate ==
  ASSUME Types, NEW q \in Procs, setting.procs = {q}, Agreed(proc[q]),
         NEW a \in setting.agents, DeallocateWorktree(q, a)
  PROVE  Agreed(proc[q])'
  <1> DEFINE w == row[a].path
  <1>1. PICK r : r = [Idle EXCEPT !.pc = "delete", !.agent = a, !.path = w]
    OBVIOUS
  <1>2. r.pc = "delete" /\ r.agent = a /\ r.path = w
    BY <1>1 DEF Idle
  <1>3. /\ proc[q].pc = "idle" /\ row[a] # NoRow /\ UNCHANGED row /\ proc'[q] = r
        /\ \/ RemoveWorktree(w) /\ UNCHANGED left
           \/ UNCHANGED <<tree, dir, work>> /\ left' = left \cup {w}
    BY <1>1, AgreedFacts DEF DeallocateWorktree, At, Go
  <1>4. a \in Agents /\ w \in Paths /\ w \in AllPaths
    BY <1>3, AgreedFacts
  <1>5. /\ \A v \in Paths : v # w => tree'[v] = tree[v] /\ (v \in dir' <=> v \in dir)
        /\ (tree'[w] = None /\ w \notin dir') \/ UNCHANGED <<tree, dir>>
        /\ w \in dir' => w \in left'
        /\ left \subseteq left'
    BY <1>3, <1>4, AgreedFacts DEF RemoveWorktree
  <1>6. \A c \in Agents : row[c] # NoRow /\ c # a => row[c].path \in Paths /\ row[c].path # w
    BY <1>3, <1>4, AgreedFacts DEF Agreed, RowsDistinct
  <1>7. TreesThere' /\ RowsDistinct'
    <2>1. TreesThere'
      BY <1>5 DEF Agreed, TreesThere
    <2> QED BY <1>3, <2>1 DEF Agreed, RowsDistinct
  <1>8. RowsLive(proc[q])' /\ RowsMatch(proc[q])'
    BY <1>2, <1>3, <1>4, <1>5, <1>6 DEF Agreed, RowsLive, RowsMatch, RowTrue
  <1>9. NoneForgotten(proc[q])'
    BY <1>2, <1>3, <1>4, <1>5 DEF Agreed, NoneForgotten
  <1>10. CallMatches(proc[q])'
    BY <1>2, <1>3, <1>5 DEF CallMatches
  <1> QED BY <1>7, <1>8, <1>9, <1>10 DEF Agreed

LEMMA AgreedDelete ==
  ASSUME Types, NEW q \in Procs, setting.procs = {q}, Agreed(proc[q]), DeleteRow(q)
  PROVE  Agreed(proc[q])'
  <1> DEFINE a == proc[q].agent
             w == proc[q].path
  <1>1. PICK r : r = [proc[q] EXCEPT !.pc = "prune"]
    OBVIOUS
  <1>2. /\ proc[q].pc = "delete" /\ proc'[q] = r /\ UNCHANGED <<tree, dir, left>>
        /\ row' = [row EXCEPT ![a] = NoRow]
    BY <1>1, AgreedFacts DEF DeleteRow, At, Go
  <1>3. r.pc = "prune"
    BY <1>1, AgreedFacts DEF ProcRecord
  <1>4. /\ a \in Agents /\ row[a] # NoRow /\ row[a].path = w /\ (w \in dir => w \in left)
        /\ row'[a] = NoRow /\ \A c \in Agents : c # a => row'[c] = row[c]
    BY <1>2, AgreedFacts DEF Agreed, CallMatches
  <1>5. TreesThere' /\ RowsDistinct'
    BY <1>2, <1>4 DEF Agreed, TreesThere, RowsDistinct
  <1>6. RowsLive(proc[q])' /\ RowsMatch(proc[q])'
    BY <1>2, <1>3, <1>4 DEF Agreed, RowsLive, RowsMatch, RowTrue
  <1>7. NoneForgotten(proc[q])'
    BY <1>2, <1>3, <1>4 DEF Agreed, NoneForgotten
  <1> QED BY <1>2, <1>3, <1>5, <1>6, <1>7 DEF Agreed, CallMatches

\* Steps that are about no row: cascades, snapshots, pruning.
LEMMA AgreedMoves ==
  ASSUME Types, NEW q \in Procs, setting.procs = {q}, Agreed(proc[q]),
         UNCHANGED row, left \subseteq left',
         \A w \in Paths : (w \in dir' <=> w \in dir) /\ (w \in dir => tree'[w] = tree[w])
                          /\ (w \notin dir => tree'[w] = None),
         proc[q].pc \notin {"insert", "update", "delete"},
         proc'[q].pc \notin {"insert", "update", "delete"}
  PROVE  Agreed(proc[q])'
  <1>1. \A w \in Paths : tree'[w] = tree[w] /\ (w \in dir' <=> w \in dir)
    BY DEF Agreed, TreesThere
  <1>2. TreesThere' /\ RowsDistinct'
    BY <1>1 DEF Agreed, TreesThere, RowsDistinct
  <1>3. RowsLive(proc[q])' /\ RowsMatch(proc[q])'
    BY <1>1, AgreedFacts DEF Agreed, RowsLive, RowsMatch, RowTrue
  <1>4. NoneForgotten(proc[q])'
    BY <1>1 DEF Agreed, NoneForgotten
  <1> QED BY <1>2, <1>3, <1>4 DEF Agreed, CallMatches

LEMMA AgreedOther ==
  ASSUME Types, NEW q \in Procs, setting.procs = {q}, Agreed(proc[q]),
         \/ \E s \in setting.streams, w \in TempPaths : TemporaryWorktree(q, s, w)
         \/ GcPrune(q) \/ BeginCascade(q) \/ PruneWorktrees(q) \/ EndCleanup(q)
         \/ \E w \in TempPaths : CleanTemporary(q, w)
  PROVE  Agreed(proc[q])'
  <1>1. Idle.pc = "idle" /\ \A v \in TempPaths : v \notin Paths
    BY AgreedFacts DEF Idle
  <1>2. \A w \in Paths : w \notin dir => tree[w] = None
    BY DEF Agreed, TreesThere
  <1>3. ASSUME NEW s \in setting.streams, NEW w \in TempPaths, TemporaryWorktree(q, s, w)
        PROVE  Agreed(proc[q])'
    <2>1. proc[q].pc = "cascade" /\ proc'[q].pc = "cascade" /\ UNCHANGED <<row, left>>
      BY <1>3, AgreedFacts DEF TemporaryWorktree, At, Go, ProcRecord
    <2>2. \A v \in Paths : (v \in dir' <=> v \in dir) /\ tree'[v] = tree[v]
      BY <1>1, <1>3, AgreedFacts DEF TemporaryWorktree, AddWorktree
    <2> QED BY <1>2, <2>1, <2>2, AgreedMoves
  <1>4. CASE GcPrune(q) \/ PruneWorktrees(q) \/ EndCleanup(q)
    <2>1. /\ UNCHANGED <<row, dir, left>> /\ tree' = Pruned(tree, dir)
          /\ proc[q].pc \in {"idle", "prune", "cascade", "cleanup"} /\ proc'[q].pc = "idle"
      BY <1>1, <1>4, AgreedFacts DEF GcPrune, PruneWorktrees, EndCleanup, At, Return, Go
    <2>2. \A v \in Paths : (v \in dir => tree'[v] = tree[v]) /\ (v \notin dir => tree'[v] = None)
      BY <2>1, AgreedFacts DEF Pruned
    <2> QED BY <2>1, <2>2, AgreedMoves
  <1>5. CASE BeginCascade(q)
    <2>1. /\ UNCHANGED <<row, tree, dir, left>> /\ proc[q].pc = "idle" /\ proc'[q].pc = "cascade"
      BY <1>5, AgreedFacts DEF BeginCascade, At, Go, Idle
    <2> QED BY <1>2, <2>1, AgreedMoves
  <1>6. ASSUME NEW w \in TempPaths, CleanTemporary(q, w) PROVE Agreed(proc[q])'
    <2>1. /\ UNCHANGED row /\ proc[q].pc \in {"cascade", "cleanup"} /\ proc'[q].pc = "cleanup"
          /\ left \subseteq left'
      <3>1. PICK r : r = [proc[q] EXCEPT !.pc = "cleanup", !.temps = @ \ {w}]
        OBVIOUS
      <3>2. r.pc = "cleanup"
        BY <3>1, AgreedFacts DEF ProcRecord
      <3>3. proc'[q] = r
        BY <1>6, <3>1, AgreedFacts DEF CleanTemporary, Go
      <3> QED BY <1>6, <3>2, <3>3 DEF CleanTemporary, At
    <2>2. \A v \in Paths : (v \in dir' <=> v \in dir) /\ tree'[v] = tree[v]
      BY <1>1, <1>6, AgreedFacts DEF CleanTemporary, RemoveWorktree
    <2> QED BY <1>2, <2>1, <2>2, AgreedMoves
  <1> QED BY <1>3, <1>4, <1>5, <1>6

LEMMA AgreedWorktrees ==
  ASSUME Types, AgreedInv, NEW p \in setting.procs, WorktreeCalls(p) \/ WorktreeSteps(p)
  PROVE  AgreedInv'
  <1>1. used \in [Bounds -> Nat] /\ UNCHANGED setting
    BY WorktreesQuiet DEF Types, TreeTypes
  <1>2. Intact' /\ used'.losses = 0 => Intact /\ used.losses = 0
    BY <1>1, UseGrows
       DEF WorktreeCalls, CreateWorktree, UpdateWorktreeStream, DeallocateWorktree, TemporaryWorktree,
           GcPrune, BeginCascade, WorktreeSteps, InsertRow, UpdateRow, DeleteRow, PruneWorktrees,
           CleanTemporary, EndCleanup, Intact, Bounds
  <1> SUFFICES ASSUME Intact, used.losses = 0, NEW q \in Procs, setting.procs = {q}
               PROVE  Agreed(proc[q])'
    BY <1>1, <1>2 DEF AgreedInv
  <1>3. p = q /\ Agreed(proc[q])
    BY DEF AgreedInv
  <1>4. CASE WorktreeCalls(p)
    BY <1>3, <1>4, AgreedCreate, AgreedUpdate, AgreedDeallocate, AgreedOther DEF WorktreeCalls
  <1>5. CASE WorktreeSteps(p)
    BY <1>3, <1>5, AgreedInsert, AgreedUpdateRow, AgreedDelete, AgreedOther DEF WorktreeSteps
  <1> QED BY <1>4, <1>5

LEMMA AgreedSnapshots ==
  ASSUME Types, AgreedInv, NEW p \in setting.procs, SnapshotCalls(p) \/ RecordSnapshot(p)
  PROVE  AgreedInv'
  <1>1. used \in [Bounds -> Nat]
    BY DEF Types, TreeTypes
  <1>2. Intact' /\ used'.losses = 0 => Intact /\ used.losses = 0
    BY <1>1, UseGrows DEF SnapshotCalls, Snapshot, Restore, DeleteSnapshot, RecordSnapshot, wtvars,
                          Intact, Bounds
  <1>3. UNCHANGED <<setting, row, tree, dir, left>>
    BY DEF SnapshotCalls, Snapshot, Restore, DeleteSnapshot, RecordSnapshot, wtvars
  <1> SUFFICES ASSUME Intact, used.losses = 0, NEW q \in Procs, setting.procs = {q}
               PROVE  Agreed(proc[q])'
    BY <1>2, <1>3 DEF AgreedInv
  <1>4. p = q /\ Agreed(proc[q])
    BY DEF AgreedInv
  <1>5. /\ proc[q].pc \in {"idle", "record"}
        /\ proc'[q].pc \in {"idle", "record"}
    <2>1. Idle.pc = "idle"
      BY DEF Idle
    <2>2. /\ proc[q].pc \in {"idle", "record"}
          /\ \/ proc' = proc \/ Go(q, Idle)
             \/ \E w, took : Go(q, [Idle EXCEPT !.pc = "record", !.path = w, !.took = took])
      BY <1>4 DEF SnapshotCalls, Snapshot, Restore, DeleteSnapshot, RecordSnapshot, wtvars, At, Return
    <2>3. ASSUME NEW r, Go(q, r) PROVE proc'[q] = r
      BY <2>3, AgreedFacts DEF Go
    <2>4. CASE proc' = proc
      BY <2>2, <2>4
    <2>5. CASE Go(q, Idle)
      BY <2>1, <2>2, <2>3, <2>5
    <2>6. ASSUME NEW w, NEW took, Go(q, [Idle EXCEPT !.pc = "record", !.path = w, !.took = took])
          PROVE  proc'[q].pc = "record"
      <3>1. PICK r : r = [Idle EXCEPT !.pc = "record", !.path = w, !.took = took]
        OBVIOUS
      <3>2. r.pc = "record"
        BY <3>1 DEF Idle
      <3> QED BY <2>3, <2>6, <3>1, <3>2
    <2> QED BY <2>2, <2>4, <2>5, <2>6
  <1>6. \A w \in Paths : w \notin dir => tree[w] = None
    BY <1>4 DEF Agreed, TreesThere
  <1> QED BY <1>3, <1>4, <1>5, <1>6, AgreedMoves

LEMMA AgreedOthers ==
  ASSUME Types, AgreedInv, Others
  PROVE  AgreedInv'
  <1>1. used \in [Bounds -> Nat] /\ UNCHANGED <<setting, row, tree, left, proc>>
    BY DEF Types, TreeTypes, Others, CommitWork, Die, Edit, DeletedByHand
  <1>2. Intact' /\ used'.losses = 0 => Intact /\ used.losses = 0
    BY <1>1, UseGrows DEF Others, CommitWork, Die, Edit, DeletedByHand, Intact, Bounds
  <1>3. used'.losses = 0 => UNCHANGED dir
    <2>1. ASSUME NEW w \in Paths, DeletedByHand(w) PROVE used'.losses # 0
      <3>1. used'["losses"] > 0
        BY <1>1, <2>1, UseGrows DEF DeletedByHand, Bounds
      <3> QED BY <3>1
    <2> QED BY <2>1 DEF Others, CommitWork, Die, Edit
  <1> QED BY <1>1, <1>2, <1>3, AgreedKeeps

-----------------------------------------------------------------------------

LEMMA SpaceInit == Init => Types /\ TempInv /\ StashInv /\ AgreedInv
  <1> SUFFICES ASSUME Init PROVE Types /\ TempInv /\ StashInv /\ AgreedInv
    OBVIOUS
  <1>1. Types
    BY InitTypes
  <1>2. setting \in Settings
    BY DEF Init, WorktreesInit
  <1>3. /\ tree = [w \in AllPaths |-> IF w = Home THEN setting.home ELSE None] /\ dir = {Home}
        /\ proc = [p \in Procs |-> Idle] /\ snaps = {}
        /\ \A a \in Agents : row[a] = NoRow
    BY DEF Init, WorktreesInit, SnapshotsInit
  <1>4. \A w \in Paths \cup TempPaths : w \notin dir /\ tree[w] = None
    BY <1>2, <1>3, SettingFacts DEF AllPaths
  <1>5. TempInv
    BY <1>4 DEF TempInv
  <1>6. StashInv
    BY <1>3 DEF StashInv, At, Idle
  <1>7. AgreedInv
    BY <1>3, <1>4 DEF AgreedInv, Agreed, TreesThere, RowsDistinct, RowsLive, RowsMatch, NoneForgotten,
                      CallMatches, Idle
  <1> QED BY <1>1, <1>5, <1>6, <1>7

\* What the workspace does not see leaves it alone.
LEMMA SpaceQuiet ==
  ASSUME Types, TempInv, StashInv, AgreedInv,
         UNCHANGED <<setting, alive, row, tree, dir, work, made, left, proc, snvars>>,
         UNCHANGED used \/ MayUse("rollbacks")
  PROVE  Types' /\ TempInv' /\ StashInv' /\ AgreedInv'
  <1>1. used \in [Bounds -> Nat] /\ "rollbacks" \in Bounds
    BY DEF Types, TreeTypes, Bounds
  <1>2. /\ used' \in [Bounds -> Nat]
        /\ used'.crashes = 0 => used.crashes = 0
        /\ used'.losses = 0 => used.losses = 0
    BY <1>1, UseTypes, UseGrows
  <1>3. Types'
    BY <1>2, QuietTypes
  <1>4. TempInv'
    BY <1>2, TempKeeps DEF Intact
  <1>5. StashInv'
    BY StashQuiet DEF snvars, At
  <1>6. AgreedInv'
    BY <1>2, AgreedKeeps DEF Intact
  <1> QED BY <1>3, <1>4, <1>5, <1>6

LEMMA SpaceCrash ==
  ASSUME Types, StashInv, NEW p \in setting.procs, Crash(p)
  PROVE  Types' /\ TempInv' /\ StashInv' /\ AgreedInv'
  <1>1. p \in Procs /\ proc \in [Procs -> ProcRecord] /\ setting.procs \subseteq Procs
    BY SettingFacts DEF Types, TreeTypes, CallTypes
  <1>2. UNCHANGED <<setting, stash, snaps>> /\ proc' = [proc EXCEPT ![p] = Idle]
    BY DEF Crash, snvars, Return, Go
  <1>3. StashInv'
    BY <1>1, <1>2, StashQuiet DEF At, Idle
  <1> QED BY <1>3, CrashTypes, TempCrash DEF TempInv, AgreedInv

LEMMA SpaceNext ==
  ASSUME Types, TempInv, StashInv, AgreedInv, [Next]_vars
  PROVE  Types' /\ TempInv' /\ StashInv' /\ AgreedInv'
  <1>1. ASSUME UNCHANGED <<wtvars, snvars>> PROVE Types' /\ TempInv' /\ StashInv' /\ AgreedInv'
    BY <1>1, SpaceQuiet DEF wtvars
  <1>2. ASSUME NEW p \in setting.procs, Opening(p) \/ StartupRecovery(p) \/ Close(p)
        PROVE  Types' /\ TempInv' /\ StashInv' /\ AgreedInv'
    BY <1>1, <1>2 DEF Opening, StartupRecovery, Close
  <1>3. ASSUME NEW p \in setting.procs, Rollback(p)
        PROVE  Types' /\ TempInv' /\ StashInv' /\ AgreedInv'
    BY <1>3, SpaceQuiet DEF Rollback
  <1>4. ASSUME NEW p \in setting.procs, WorktreeCall(p) \/ WorktreeStep(p)
        PROVE  Types' /\ TempInv' /\ StashInv' /\ AgreedInv'
    <2>1. (WorktreeCalls(p) \/ WorktreeSteps(p)) /\ UNCHANGED snvars
      BY <1>4 DEF WorktreeCall, WorktreeStep
    <2>2. Types'
      BY <2>1, CreateTypes, UpdateTypes, DeallocateTypes, TemporaryTypes, CascadeTypes, StepTypes
         DEF WorktreeCalls
    <2> QED BY <2>1, <2>2, TempCalls, TempSteps, StashWorktrees, AgreedWorktrees
  <1>5. ASSUME NEW p \in setting.procs, SnapshotCall(p) \/ SnapshotStep(p)
        PROVE  Types' /\ TempInv' /\ StashInv' /\ AgreedInv'
    BY <1>5, SnapshotTypes, TempSnapshots, StashSnapshots, AgreedSnapshots
       DEF SnapshotCall, SnapshotStep
  <1>6. CASE Outside
    <2>1. Others /\ UNCHANGED snvars
      BY <1>6 DEF Outside
    <2>2. StashInv'
      BY <2>1, StashQuiet DEF Others, CommitWork, Die, Edit, DeletedByHand, snvars, At
    <2> QED BY <2>1, <2>2, OthersTypes, TempOthers, AgreedOthers
  <1>7. CASE Write \/ UNCHANGED vars
    BY <1>1, <1>7 DEF Write, WriteGit, WriteRow, Touch, CompleteCheckpoint, vars
  <1>8. ASSUME NEW a \in setting.writers, Read(a) \/ Abandon(a) \/ Begin(a)
        PROVE  Types' /\ TempInv' /\ StashInv' /\ AgreedInv'
    BY <1>1, <1>8 DEF Read, Abandon, Begin
  <1>9. ASSUME NEW cp \in checkpoints, RecoverCheckpoint(cp)
        PROVE  Types' /\ TempInv' /\ StashInv' /\ AgreedInv'
    BY <1>1, <1>9 DEF RecoverCheckpoint
  <1> QED BY <1>2, <1>3, <1>4, <1>5, <1>6, <1>7, <1>8, <1>9, SpaceCrash DEF Next

\* Between calls, what rows and git agree about is what RowsTrue says.
LEMMA SpaceGives ==
  ASSUME StartInv, Types, TempInv, StashInv, AgreedInv
  PROVE  WorkspaceInv
  <1>1. WorkspaceTypeOK
    BY DEF StartInv, Types, TreeTypes, CallTypes, CallOk, SnapTypes, WorkspaceTypeOK, StartupTypeOK,
           WorktreesTypeOK, SnapshotsTypeOK, Opener, ProcRecord, RowRecord
  <1>2. RowsTrue
    <2> SUFFICES ASSUME Quiet, Intact, used.losses = 0, NEW q \in Procs, setting.procs = {q}
                 PROVE  /\ \A a \in Agents : row[a] # NoRow => RowTrue(a)
                        /\ \A w \in Paths : w \in dir =>
                             (\E a \in Agents : row[a].path = w) \/ w \in left \/ tree[w] \in Archived
      BY DEF RowsTrue, Alone
    <2>1. Agreed(proc[q]) /\ proc[q].pc = "idle"
      BY DEF AgreedInv, Quiet, At
    <2> QED BY <2>1 DEF Agreed, RowsMatch, NoneForgotten
  <1>3. TempGone
    BY DEF TempInv, TempGone
  <1>4. SnapshotHoldsWork
    BY DEF StashInv, SnapshotHoldsWork, Alone
  <1> QED BY <1>1, <1>2, <1>3, <1>4 DEF WorkspaceInv

\* Rows and git agree between the calls of a process that is alone with the repository
\* and does not die; no cascade of any number of processes leaves a worktree behind it
\* could remove; and every snapshot of a process that is alone names the stash that holds
\* its work, wherever that process dies.
THEOREM WorkspaceAgrees == Spec => []WorkspaceInv
  <1>1. Init => StartInv /\ Types /\ TempInv /\ StashInv /\ AgreedInv
    BY StartInit, SpaceInit
  <1>2. StartInv /\ Types /\ TempInv /\ StashInv /\ AgreedInv /\ [Next]_vars
          => (StartInv /\ Types /\ TempInv /\ StashInv /\ AgreedInv)'
    BY StartNext, SpaceNext DEF Types, TreeTypes
  <1>3. StartInv /\ Types /\ TempInv /\ StashInv /\ AgreedInv => WorkspaceInv
    BY SpaceGives
  <1> QED BY <1>1, <1>2, <1>3, PTL DEF Spec

-----------------------------------------------------------------------------
(* Rows and the updates of rows *)

Row == [status : Statuses, current : Commit \cup {NoCommit},
        history : Seq(Commit), into : ChangeIds \cup {NoCommit}]

\* A row that says of change c what it may say.
RowOf(c, r) ==
  /\ r \in Row
  /\ \A k \in ToSet(r.history) : k.id = c
  /\ r.status = "active" => r.history # <<>> /\ r.current = Head(r.history)
  /\ r.status \in {"squashed", "dropped"} => r.current = NoCommit
  /\ r.status = "squashed" <=> r.into # NoCommit
  /\ r.status = "none" => r.history = <<>>

Update == [op : {"create", "rewrite", "merged", "squashed", "dropped"}, id : ChangeIds,
           commit : Commit \cup {NoCommit}, into : ChangeIds \cup {NoCommit}]

\* An update that its row is ready for.
Fits(r, u) ==
  /\ u \in Update
  /\ u.op \in {"create", "rewrite"} => u.commit \in Commit /\ u.commit.id = u.id
  /\ u.op = "create" => r.status = "none"
  /\ u.op # "create" => r.status = "active"
  /\ u.op = "squashed" <=> u.into # NoCommit

\* The new row, the change ended or not, and what it knows of the old row.
Grown(r, s) == ToSet(r.history) \subseteq ToSet(s.history) /\ (r.status = "merged" => s.status = "merged")

LEMMA ToSetFacts ==
  /\ \A x : ToSet(<<x>>) = {x}
  /\ \A x, y : ToSet(<<x, y>>) = {x, y}
  /\ \A x, y, z : ToSet(<<x, y, z>>) = {x, y, z}
  /\ ToSet(<<>>) = {}
  BY DEF ToSet

LEMMA PrependedIs ==
  ASSUME NEW S, NEW k \in S, NEW h \in Seq(S)
  PROVE  /\ <<k>> \o h \in Seq(S) /\ <<k>> \o h # <<>> /\ Head(<<k>> \o h) = k
         /\ ToSet(<<k>> \o h) = {k} \cup ToSet(h)
  <1> DEFINE g == <<k>> \o h
  <1>1. g \in Seq(S) /\ Len(g) = Len(h) + 1 /\ Len(h) \in Nat /\ g[1] = k
        /\ \A i \in 1 .. Len(h) : g[i + 1] = h[i]
    OBVIOUS
  <1>2. DOMAIN g = 1 .. Len(h) + 1 /\ DOMAIN h = 1 .. Len(h)
    BY <1>1
  <1>3. \A i \in 1 .. Len(h) + 1 : i = 1 \/ (i - 1 \in 1 .. Len(h) /\ g[i] = h[i - 1])
    BY <1>1
  <1>4. ASSUME NEW x \in ToSet(g) PROVE x \in {k} \cup ToSet(h)
    <2>1. PICK i \in 1 .. Len(h) + 1 : x = g[i]
      BY <1>2 DEF ToSet
    <2>2. i = 1 \/ (i - 1 \in DOMAIN h /\ x = h[i - 1])
      BY <1>2, <1>3, <2>1
    <2> QED BY <1>1, <2>1, <2>2 DEF ToSet
  <1>5. ASSUME NEW x \in {k} \cup ToSet(h) PROVE x \in ToSet(g)
    <2>1. CASE x = k
      BY <1>1, <1>2, <2>1 DEF ToSet
    <2>2. CASE x \in ToSet(h)
      <3>1. PICK i \in 1 .. Len(h) : x = h[i]
        BY <1>2, <2>2 DEF ToSet
      <3>2. i + 1 \in DOMAIN g /\ g[i + 1] = x
        BY <1>1, <1>2, <3>1
      <3> QED BY <3>2 DEF ToSet
    <2> QED BY <2>1, <2>2
  <1> QED BY <1>1, <1>4, <1>5

LEMMA HeadIn ==
  ASSUME NEW S, NEW h \in Seq(S), h # <<>>
  PROVE  Head(h) \in ToSet(h) /\ Head(h) \in S
  BY DEF ToSet

LEMMA AppliedIs ==
  ASSUME NEW r \in Row, NEW u
  PROVE  /\ u.op = "create" => Applied(r, u) = [status |-> "active", current |-> u.commit,
                                                history |-> <<u.commit>>, into |-> NoCommit]
         /\ u.op = "rewrite" => Applied(r, u) = [status |-> r.status, current |-> u.commit,
                                                 history |-> <<u.commit>> \o r.history, into |-> r.into]
         /\ u.op = "merged" => Applied(r, u) = [status |-> "merged", current |-> r.current,
                                                history |-> r.history, into |-> r.into]
         /\ u.op \in {"squashed", "dropped"} =>
              Applied(r, u) = [status |-> u.op, current |-> NoCommit, history |-> r.history, into |-> u.into]
  <1>1. r = [status |-> r.status, current |-> r.current, history |-> r.history, into |-> r.into]
    BY DEF Row
  <1>2. CASE u.op = "create"
    BY <1>2 DEF Applied, NoChange
  <1>3. CASE u.op = "rewrite"
    BY <1>1, <1>3 DEF Applied
  <1>4. CASE u.op = "merged"
    BY <1>1, <1>4 DEF Applied
  <1>5. CASE u.op \in {"squashed", "dropped"}
    BY <1>1, <1>5 DEF Applied
  <1> QED BY <1>2, <1>3, <1>4, <1>5

\* An update that fits gives a row that may be, which knows all commits of the
\* old one.
LEMMA AppliedOf ==
  ASSUME NEW c \in ChangeIds, NEW r, RowOf(c, r), NEW u, Fits(r, u), u.id = c
  PROVE  RowOf(c, Applied(r, u)) /\ Grown(r, Applied(r, u)) /\ Applied(r, u).status # "none"
  <1> DEFINE s == Applied(r, u)
  <1>0. r \in Row /\ u \in Update
    BY DEF RowOf, Fits
  <1>1. CASE u.op = "create"
    <2>1. s = [status |-> "active", current |-> u.commit, history |-> <<u.commit>>, into |-> NoCommit]
      BY <1>0, <1>1, AppliedIs
    <2>2. u.commit \in Commit /\ u.commit.id = c /\ ToSet(<<u.commit>>) = {u.commit}
      BY <1>1, ToSetFacts DEF Fits
    <2>3. s \in Row
      BY <2>1, <2>2 DEF Row, Statuses
    <2>4. r.history = <<>> /\ r.status = "none"
      BY <1>1 DEF Fits, RowOf
    <2> QED BY <2>1, <2>2, <2>3, <2>4, ToSetFacts DEF RowOf, Grown
  <1>2. CASE u.op = "rewrite"
    <2>1. s = [status |-> r.status, current |-> u.commit, history |-> <<u.commit>> \o r.history, into |-> r.into]
      BY <1>0, <1>2, AppliedIs
    <2>2. u.commit \in Commit /\ u.commit.id = c /\ r.status = "active"
      BY <1>2 DEF Fits
    <2>3. r.history \in Seq(Commit)
      BY <1>0 DEF Row
    <2>4. /\ s.history \in Seq(Commit) /\ s.history # <<>> /\ Head(s.history) = u.commit
          /\ ToSet(s.history) = {u.commit} \cup ToSet(r.history)
      BY <2>1, <2>2, <2>3, PrependedIs
    <2>5. s \in Row
      BY <1>0, <2>1, <2>2, <2>4 DEF Row
    <2> QED BY <2>1, <2>2, <2>4, <2>5 DEF RowOf, Grown
  <1>3. CASE u.op = "merged"
    <2>1. s = [status |-> "merged", current |-> r.current, history |-> r.history, into |-> r.into]
      BY <1>0, <1>3, AppliedIs
    <2>2. s \in Row
      BY <1>0, <2>1 DEF Row, Statuses
    <2>3. r.status = "active"
      BY <1>3 DEF Fits
    <2> QED BY <2>1, <2>2, <2>3 DEF RowOf, Grown
  <1>4. CASE u.op \in {"squashed", "dropped"}
    <2>1. s = [status |-> u.op, current |-> NoCommit, history |-> r.history, into |-> u.into]
      BY <1>0, <1>4, AppliedIs
    <2>2. s \in Row
      BY <1>0, <1>4, <2>1 DEF Row, Statuses, Update
    <2>3. r.status = "active" /\ (u.op = "squashed" <=> u.into # NoCommit)
      BY <1>4 DEF Fits
    <2> QED BY <1>4, <2>1, <2>2, <2>3 DEF RowOf, Grown
  <1> QED BY <1>0, <1>1, <1>2, <1>3, <1>4 DEF Update

-----------------------------------------------------------------------------
(* What is still to be written *)

\* The rows when all updates of a set, at most one of a row, have been written.
After(rows, us) ==
  [c \in ChangeIds |-> IF \E u \in us : u.id = c THEN Applied(rows[c], CHOOSE u \in us : u.id = c) ELSE rows[c]]

OneEach(us) == \A u, v \in us : u.id = v.id => u = v

\* A list of updates of different rows, all of them ready.
AllFit(rows, todo) ==
  /\ todo \in Seq(Update)
  /\ \A i, j \in DOMAIN todo : todo[i].id = todo[j].id => i = j
  /\ \A i \in DOMAIN todo : Fits(rows[todo[i].id], todo[i])

RowsOf(rows) == \A c \in ChangeIds : RowOf(c, rows[c])

\* The commits of the branch belong to different changes, the rows of active
\* changes follow their commits, and each commit has its active change, but for
\* those of changes that are merged or lost.
Settled(commits, rows, gone) ==
  /\ commits \subseteq Commit /\ gone \subseteq ChangeIds
  /\ \A j, k \in commits : j.id = k.id => j = k
  /\ \A c \in ChangeIds : rows[c].status = "active" /\ c \notin gone => rows[c].current \in commits
  /\ \A k \in commits :
       \/ k.id \in gone \/ rows[k.id].status = "merged"
       \/ rows[k.id].status = "active" /\ rows[k.id].current = k

Kept(commits, rows, gone) ==
  \A k \in commits : k.id \in gone \/ rows[k.id].status = "merged" \/ k \in ToSet(rows[k.id].history)

\* What a write of the branch must establish.
Follows(r) ==
  AllFit(change, r.todo) /\ Settled(r.branch, After(change, ToSet(r.todo)), r.lost)

LEMMA AfterIs ==
  ASSUME NEW rows, NEW us \in SUBSET Update, OneEach(us)
  PROVE  /\ \A u \in us : After(rows, us)[u.id] = Applied(rows[u.id], u)
         /\ \A c \in ChangeIds : (\A u \in us : u.id # c) => After(rows, us)[c] = rows[c]
  <1>1. ASSUME NEW u \in us PROVE After(rows, us)[u.id] = Applied(rows[u.id], u)
    <2>1. u.id \in ChangeIds
      BY DEF Update
    <2>2. (CHOOSE v \in us : v.id = u.id) = u
      BY DEF OneEach
    <2> QED BY <2>1, <2>2 DEF After
  <1> QED BY <1>1 DEF After

LEMMA TodoFacts ==
  ASSUME NEW rows, NEW todo, AllFit(rows, todo)
  PROVE  /\ ToSet(todo) \in SUBSET Update /\ OneEach(ToSet(todo))
         /\ \A u \in ToSet(todo) : Fits(rows[u.id], u)
  BY DEF AllFit, ToSet, OneEach

LEMMA SettledKept ==
  ASSUME NEW rows, NEW commits, NEW gone, RowsOf(rows), Settled(commits, rows, gone)
  PROVE  Kept(commits, rows, gone)
  <1> SUFFICES ASSUME NEW k \in commits, rows[k.id].status = "active", rows[k.id].current = k
               PROVE  k \in ToSet(rows[k.id].history)
    BY DEF Settled, Kept
  <1>1. k.id \in ChangeIds
    BY DEF Settled, Commit
  <1>2. /\ rows[k.id].history \in Seq(Commit) /\ rows[k.id].history # <<>>
        /\ rows[k.id].current = Head(rows[k.id].history)
    BY <1>1 DEF RowsOf, RowOf, Row
  <1> QED BY <1>2, HeadIn

\* Nothing is left to write: the rows are what they are.
LEMMA NothingLeft ==
  ASSUME NEW rows, NEW commits, NEW gone, Settled(commits, After(rows, ToSet(<<>>)), gone)
  PROVE  Settled(commits, rows, gone)
  <1> DEFINE n == After(rows, {})
  <1>1. \A c \in ChangeIds : n[c] = rows[c]
    BY DEF After
  <1>2. \A k \in commits : k.id \in ChangeIds
    BY DEF Settled, Commit
  <1>3. Settled(commits, n, gone)
    BY ToSetFacts
  <1> HIDE DEF n
  <1> QED BY <1>1, <1>2, <1>3 DEF Settled

LEMMA NothingToDo ==
  ASSUME NEW rows, NEW commits, NEW gone, Settled(commits, rows, gone)
  PROVE  AllFit(rows, <<>>) /\ Settled(commits, After(rows, ToSet(<<>>)), gone)
  <1>1. \A c \in ChangeIds : After(rows, {})[c] = rows[c]
    BY DEF After
  <1>2. \A k \in commits : k.id \in ChangeIds
    BY DEF Settled, Commit
  <1>3. AllFit(rows, <<>>)
    BY DEF AllFit
  <1> DEFINE n == After(rows, {})
  <1> HIDE DEF n
  <1>4. Settled(commits, n, gone)
    BY <1>1, <1>2 DEF Settled, n
  <1> QED BY <1>3, <1>4, ToSetFacts DEF n

LEMMA TailIs ==
  ASSUME NEW S, NEW s \in Seq(S), s # <<>>
  PROVE  /\ Head(s) \in S /\ Tail(s) \in Seq(S) /\ Head(s) = s[1] /\ 1 \in DOMAIN s
         /\ \A i \in DOMAIN Tail(s) : i + 1 \in DOMAIN s /\ Tail(s)[i] = s[i + 1] /\ i + 1 # 1 /\ i \in Nat
         /\ \A i \in DOMAIN s : i = 1 \/ (i - 1 \in DOMAIN Tail(s) /\ Tail(s)[i - 1] = s[i])
         /\ (Len(s) = 1 <=> Tail(s) = <<>>)
  <1>1. Len(s) \in Nat /\ Len(s) >= 1 /\ DOMAIN s = 1 .. Len(s)
    OBVIOUS
  <1>2. Tail(s) \in Seq(S) /\ Len(Tail(s)) = Len(s) - 1 /\ DOMAIN Tail(s) = 1 .. Len(s) - 1
        /\ \A i \in 1 .. Len(s) - 1 : Tail(s)[i] = s[i + 1]
    BY <1>1
  <1>3. \A i \in 1 .. Len(s) : s[i] \in S
    BY <1>1
  <1>4. \A i \in DOMAIN Tail(s) : i + 1 \in DOMAIN s /\ Tail(s)[i] = s[i + 1] /\ i + 1 # 1 /\ i \in Nat
    BY <1>1, <1>2
  <1>5. \A i \in DOMAIN s : i = 1 \/ (i - 1 \in DOMAIN Tail(s) /\ Tail(s)[i - 1] = s[i])
    BY <1>1, <1>2
  <1>6. Len(s) = 1 <=> Tail(s) = <<>>
    <2>1. \A t \in Seq(S) : Len(t) = 0 <=> t = <<>>
      OBVIOUS
    <2>2. Len(Tail(s)) = 0 <=> Tail(s) = <<>>
      BY <1>2, <2>1
    <2>3. Len(s) = 1 <=> Len(Tail(s)) = 0
      BY <1>1, <1>2
    <2> QED BY <2>2, <2>3
  <1> QED BY <1>1, <1>2, <1>3, <1>4, <1>5, <1>6

LEMMA TailSet ==
  ASSUME NEW S, NEW s \in Seq(S), s # <<>>
  PROVE  ToSet(s) = {Head(s)} \cup ToSet(Tail(s))
  <1>1. ASSUME NEW x \in ToSet(s) PROVE x \in {Head(s)} \cup ToSet(Tail(s))
    <2>1. PICK i \in DOMAIN s : x = s[i]
      BY <1>1 DEF ToSet
    <2>2. i = 1 \/ (i - 1 \in DOMAIN Tail(s) /\ Tail(s)[i - 1] = x)
      BY <2>1, TailIs
    <2>3. Head(s) = s[1]
      BY TailIs
    <2> QED BY <2>1, <2>2, <2>3 DEF ToSet
  <1>2. ASSUME NEW x \in ToSet(Tail(s)) PROVE x \in ToSet(s)
    BY TailIs DEF ToSet
  <1>3. Head(s) \in ToSet(s)
    BY TailIs DEF ToSet
  <1> QED BY <1>1, <1>2, <1>3

\* One update is written, to a row none of the others is about.
OneWritten(rows, todo, new) ==
  /\ rows \in [ChangeIds -> Row] /\ RowsOf(rows) /\ AllFit(rows, todo) /\ todo # <<>>
  /\ new = [rows EXCEPT ![Head(todo).id] = Applied(@, Head(todo))]

OthersLeft(rows, todo, new) ==
  /\ new \in [ChangeIds -> Row] /\ RowsOf(new)
  /\ \A c \in ChangeIds : Grown(rows[c], new[c])
  /\ AllFit(new, Tail(todo))
  /\ After(new, ToSet(Tail(todo))) = After(rows, ToSet(todo))
  /\ \A c \in ChangeIds : c # Head(todo).id => new[c] = rows[c]
  /\ Head(todo).id \in ChangeIds

LEMMA WriteOne ==
  ASSUME NEW rows, NEW todo, NEW new, OneWritten(rows, todo, new)
  PROVE  OthersLeft(rows, todo, new)
  <1>0. /\ rows \in [ChangeIds -> Row] /\ RowsOf(rows) /\ AllFit(rows, todo) /\ todo # <<>>
        /\ new = [rows EXCEPT ![Head(todo).id] = Applied(@, Head(todo))]
    BY DEF OneWritten
  <1> USE <1>0
  <1> DEFINE u == Head(todo)
  <1>1. todo \in Seq(Update)
    BY DEF AllFit
  <1>2. /\ u \in Update /\ u = todo[1] /\ 1 \in DOMAIN todo /\ u.id \in ChangeIds /\ Tail(todo) \in Seq(Update)
        /\ \A i \in DOMAIN Tail(todo) : i + 1 \in DOMAIN todo /\ Tail(todo)[i] = todo[i + 1] /\ i + 1 # 1 /\ i \in Nat
    <2>1. /\ u \in Update /\ u = todo[1] /\ 1 \in DOMAIN todo /\ Tail(todo) \in Seq(Update)
          /\ \A i \in DOMAIN Tail(todo) : i + 1 \in DOMAIN todo /\ Tail(todo)[i] = todo[i + 1] /\ i + 1 # 1 /\ i \in Nat
      <3> HIDE DEF u
      <3>1. u = Head(todo)
        BY DEF u
      <3> QED BY <1>1, <3>1, TailIs
    <2>2. u.id \in ChangeIds
      BY <2>1 DEF Update
    <2> QED BY <2>1, <2>2
  <1>3. Fits(rows[u.id], u) /\ RowOf(u.id, rows[u.id])
    BY <1>2 DEF AllFit, RowsOf
  <1>4. RowOf(u.id, Applied(rows[u.id], u)) /\ Grown(rows[u.id], Applied(rows[u.id], u))
    BY <1>2, <1>3, AppliedOf
  <1>5. new[u.id] = Applied(rows[u.id], u) /\ \A c \in ChangeIds : c # u.id => new[c] = rows[c]
    BY <1>2
  <1>6. RowsOf(new) /\ new \in [ChangeIds -> Row]
    BY <1>4, <1>5 DEF RowsOf, RowOf
  <1>7. \A c \in ChangeIds : Grown(rows[c], new[c])
    BY <1>4, <1>5 DEF Grown
  <1>8. \A i \in DOMAIN Tail(todo) : Tail(todo)[i].id # u.id /\ Tail(todo)[i].id \in ChangeIds
    <2> SUFFICES ASSUME NEW i \in DOMAIN Tail(todo) PROVE Tail(todo)[i].id # u.id /\ Tail(todo)[i].id \in ChangeIds
      OBVIOUS
    <2>1. i + 1 \in DOMAIN todo /\ Tail(todo)[i] = todo[i + 1] /\ i + 1 # 1
      BY <1>2
    <2>2. todo[i + 1].id # todo[1].id
      BY <1>2, <2>1 DEF AllFit
    <2>3. todo[i + 1] \in Update
      BY <1>1, <2>1
    <2> QED BY <1>2, <2>1, <2>2, <2>3 DEF Update
  <1>9. AllFit(new, Tail(todo))
    <2>1. ASSUME NEW i \in DOMAIN Tail(todo), NEW j \in DOMAIN Tail(todo), Tail(todo)[i].id = Tail(todo)[j].id
          PROVE  i = j
      <3>1. i + 1 = j + 1
        BY <1>2, <2>1 DEF AllFit
      <3> QED BY <1>2, <3>1
    <2>2. ASSUME NEW i \in DOMAIN Tail(todo) PROVE Fits(new[Tail(todo)[i].id], Tail(todo)[i])
      BY <1>2, <1>5, <1>8 DEF AllFit
    <2> QED BY <1>2, <2>1, <2>2 DEF AllFit
  <1>10. After(new, ToSet(Tail(todo))) = After(rows, ToSet(todo))
    <2>1. ToSet(todo) = {u} \cup ToSet(Tail(todo))
      BY <1>1, TailSet
    <2>2. \A v \in ToSet(Tail(todo)) : v.id # u.id
      BY <1>8 DEF ToSet
    <2>3. ToSet(todo) \in SUBSET Update /\ OneEach(ToSet(todo))
      BY TodoFacts
    <2>4. ToSet(Tail(todo)) \in SUBSET Update /\ OneEach(ToSet(Tail(todo)))
      BY <1>9, TodoFacts
    <2>5. ASSUME NEW c \in ChangeIds
          PROVE  After(new, ToSet(Tail(todo)))[c] = After(rows, ToSet(todo))[c]
      <3>1. CASE c = u.id
        <4>1. After(new, ToSet(Tail(todo)))[c] = new[c]
          BY <2>2, <2>4, <3>1, AfterIs
        <4>2. u \in ToSet(todo)
          BY <2>1
        <4>3. After(rows, ToSet(todo))[u.id] = Applied(rows[u.id], u)
          <5> HIDE DEF u
          <5> QED BY <2>3, <4>2, AfterIs
        <4> QED BY <1>5, <3>1, <4>1, <4>3
      <3>2. CASE c # u.id /\ \E v \in ToSet(Tail(todo)) : v.id = c
        <4>1. PICK v \in ToSet(Tail(todo)) : v.id = c
          BY <3>2
        <4>2. After(new, ToSet(Tail(todo)))[c] = Applied(new[c], v)
          BY <2>4, <4>1, AfterIs
        <4>3. After(rows, ToSet(todo))[c] = Applied(rows[c], v)
          BY <2>1, <2>3, <4>1, AfterIs
        <4> QED BY <1>5, <3>2, <4>2, <4>3
      <3>3. CASE c # u.id /\ \A v \in ToSet(Tail(todo)) : v.id # c
        <4>1. After(new, ToSet(Tail(todo)))[c] = new[c]
          BY <2>4, <3>3, AfterIs
        <4>2. \A v \in ToSet(todo) : v.id # c
          BY <2>1, <3>3
        <4>3. After(rows, ToSet(todo))[c] = rows[c]
          BY <2>3, <4>2, AfterIs
        <4> QED BY <1>5, <3>3, <4>1, <4>3
      <3> QED BY <3>1, <3>2, <3>3
    <2> QED BY <2>5 DEF After
  <1> QED BY <1>2, <1>5, <1>6, <1>7, <1>9, <1>10 DEF OthersLeft

-----------------------------------------------------------------------------
(* Each kind of write leaves rows to be written that follow the branch. *)

Settling == RowsOf(change) /\ Settled(branch, change, lost) /\ rewrites \in Nat

LEMMA OneTodo ==
  ASSUME NEW rows, NEW u, Fits(rows[u.id], u)
  PROVE  /\ AllFit(rows, <<u>>) /\ ToSet(<<u>>) = {u}
         /\ After(rows, {u})[u.id] = Applied(rows[u.id], u)
         /\ \A c \in ChangeIds : c # u.id => After(rows, {u})[c] = rows[c]
  <1>1. u \in Update
    BY DEF Fits
  <1>2. AllFit(rows, <<u>>)
    BY <1>1 DEF AllFit
  <1> DEFINE us == {u}
  <1>3. us \in SUBSET Update /\ OneEach(us)
    BY <1>1 DEF OneEach
  <1>4. (\A x \in us : After(rows, us)[x.id] = Applied(rows[x.id], x))
        /\ \A c \in ChangeIds : (\A x \in us : x.id # c) => After(rows, us)[c] = rows[c]
    <2> HIDE DEF us
    <2> QED BY <1>3, AfterIs
  <1>5. ToSet(<<u>>) = us
    BY ToSetFacts
  <1> QED BY <1>2, <1>4, <1>5

TwoFit(rows, u, v) == Fits(rows[u.id], u) /\ Fits(rows[v.id], v) /\ u.id # v.id

TwoDone(rows, u, v) ==
  /\ AllFit(rows, <<u, v>>) /\ ToSet(<<u, v>>) = {u, v}
  /\ After(rows, {u, v})[u.id] = Applied(rows[u.id], u)
  /\ After(rows, {u, v})[v.id] = Applied(rows[v.id], v)
  /\ \A c \in ChangeIds : c # u.id /\ c # v.id => After(rows, {u, v})[c] = rows[c]

LEMMA TwoTodo ==
  ASSUME NEW rows, NEW u, NEW v, TwoFit(rows, u, v)
  PROVE  TwoDone(rows, u, v)
  <1>1. u \in Update /\ v \in Update
    BY DEF Fits, TwoFit
  <1>2. AllFit(rows, <<u, v>>)
    BY <1>1 DEF AllFit, TwoFit
  <1> DEFINE us == {u, v}
  <1>3. us \in SUBSET Update /\ OneEach(us)
    BY <1>1 DEF OneEach, TwoFit
  <1>4. (\A x \in us : After(rows, us)[x.id] = Applied(rows[x.id], x))
        /\ \A c \in ChangeIds : (\A x \in us : x.id # c) => After(rows, us)[c] = rows[c]
    <2> HIDE DEF us
    <2> QED BY <1>3, AfterIs
  <1>5. ToSet(<<u, v>>) = us
    BY ToSetFacts
  <1> QED BY <1>2, <1>4, <1>5 DEF TwoDone

ThreeFit(rows, u, v, w) == TwoFit(rows, u, v) /\ TwoFit(rows, v, w) /\ u.id # w.id

ThreeDone(rows, u, v, w) ==
  /\ AllFit(rows, <<u, v, w>>) /\ ToSet(<<u, v, w>>) = {u, v, w}
  /\ After(rows, {u, v, w})[u.id] = Applied(rows[u.id], u)
  /\ After(rows, {u, v, w})[v.id] = Applied(rows[v.id], v)
  /\ After(rows, {u, v, w})[w.id] = Applied(rows[w.id], w)
  /\ \A c \in ChangeIds : c # u.id /\ c # v.id /\ c # w.id => After(rows, {u, v, w})[c] = rows[c]

LEMMA ThreeTodo ==
  ASSUME NEW rows, NEW u, NEW v, NEW w, ThreeFit(rows, u, v, w)
  PROVE  ThreeDone(rows, u, v, w)
  <1>1. u \in Update /\ v \in Update /\ w \in Update
    BY DEF Fits, TwoFit, ThreeFit
  <1>2. AllFit(rows, <<u, v, w>>)
    BY <1>1 DEF AllFit, TwoFit, ThreeFit
  <1> DEFINE us == {u, v, w}
  <1>3. us \in SUBSET Update /\ OneEach(us)
    BY <1>1 DEF OneEach, TwoFit, ThreeFit
  <1>4. (\A x \in us : After(rows, us)[x.id] = Applied(rows[x.id], x))
        /\ \A c \in ChangeIds : (\A x \in us : x.id # c) => After(rows, us)[c] = rows[c]
    <2> HIDE DEF us
    <2> QED BY <1>3, AfterIs
  <1>5. ToSet(<<u, v, w>>) = us
    BY ToSetFacts
  <1> QED BY <1>2, <1>4, <1>5 DEF ThreeDone

\* The updates as the functions make them.
LEMMA UpdatesFit ==
  ASSUME NEW c \in ChangeIds, NEW r
  PROVE  /\ \A k \in Commit : k.id = c /\ r.status = "none" => Fits(r, Created(c, k))
         /\ \A k \in Commit : k.id = c /\ r.status = "active" => Fits(r, Rewritten(c, k))
         /\ r.status = "active" =>
              /\ Fits(r, Ended(c, "dropped", NoCommit)) /\ Fits(r, Ended(c, "merged", NoCommit))
              /\ \A d \in ChangeIds : Fits(r, Ended(c, "squashed", d))
  BY SessionsAssumption DEF Fits, Update, Created, Rewritten, Ended

\* What the updates say of the row that matters for the branch.
LEMMA UpdatesDo ==
  ASSUME NEW r \in Row, NEW c
  PROVE  /\ \A k : /\ Applied(r, Created(c, k)).status = "active" /\ Applied(r, Created(c, k)).current = k
                    /\ Applied(r, Rewritten(c, k)).status = r.status /\ Applied(r, Rewritten(c, k)).current = k
         /\ \A d : Applied(r, Ended(c, "squashed", d)).status = "squashed"
         /\ \A d : Applied(r, Ended(c, "dropped", d)).status = "dropped"
         /\ \A d : Applied(r, Ended(c, "merged", d)).status = "merged"
  <1>1. r = [status |-> r.status, current |-> r.current, history |-> r.history, into |-> r.into]
    BY DEF Row
  <1>2. ASSUME NEW k
        PROVE  /\ Applied(r, Created(c, k)).status = "active" /\ Applied(r, Created(c, k)).current = k
               /\ Applied(r, Rewritten(c, k)).status = r.status /\ Applied(r, Rewritten(c, k)).current = k
    <2>1. PICK u : u = Created(c, k)
      OBVIOUS
    <2>2. PICK v : v = Rewritten(c, k)
      OBVIOUS
    <2>3. u.op = "create" /\ u.commit = k /\ v.op = "rewrite" /\ v.commit = k
      BY <2>1, <2>2 DEF Created, Rewritten
    <2>4. Applied(r, u) = [status |-> "active", current |-> k, history |-> <<k>>, into |-> NoCommit]
      BY <2>3, AppliedIs
    <2>5. Applied(r, v) = [status |-> r.status, current |-> k, history |-> <<k>> \o r.history, into |-> r.into]
      BY <2>3, AppliedIs
    <2> QED BY <2>1, <2>2, <2>4, <2>5
  <1>3. ASSUME NEW d, NEW status \in {"squashed", "dropped", "merged"}
        PROVE  Applied(r, Ended(c, status, d)).status = status
    <2>1. PICK u : u = Ended(c, status, d)
      OBVIOUS
    <2>2. u.op = status
      BY <2>1 DEF Ended
    <2>3. CASE status = "merged"
      <3>1. Applied(r, u) = [status |-> "merged", current |-> r.current, history |-> r.history, into |-> r.into]
        BY <2>2, <2>3, AppliedIs
      <3> QED BY <2>1, <2>3, <3>1
    <2>4. CASE status \in {"squashed", "dropped"}
      <3>1. Applied(r, u) = [status |-> u.op, current |-> NoCommit, history |-> r.history, into |-> u.into]
        BY <2>2, <2>4, AppliedIs
      <3> QED BY <2>1, <2>2, <3>1
    <2> QED BY <2>3, <2>4
  <1> QED BY <1>2, <1>3

LEMMA SettlingFacts ==
  ASSUME Settling, NEW c \in ChangeIds
  PROVE  /\ change[c] \in Row
         /\ InBranch(c) => /\ CommitOf(c) \in branch /\ CommitOf(c) \in Commit /\ CommitOf(c).id = c
                           /\ \A k \in branch : k.id = c => k = CommitOf(c)
         /\ change[c].status = "active" => change[c].current \in Commit /\ change[c].current.id = c
  <1>1. change[c] \in Row /\ RowOf(c, change[c])
    BY DEF Settling, RowsOf, RowOf
  <1>2. ASSUME InBranch(c)
        PROVE  /\ CommitOf(c) \in branch /\ CommitOf(c) \in Commit /\ CommitOf(c).id = c
               /\ \A k \in branch : k.id = c => k = CommitOf(c)
    BY <1>2 DEF InBranch, CommitOf, Settling, Settled
  <1>3. ASSUME change[c].status = "active" PROVE change[c].current \in Commit /\ change[c].current.id = c
    <2>1. /\ change[c].history \in Seq(Commit) /\ change[c].history # <<>>
          /\ change[c].current = Head(change[c].history)
          /\ \A k \in ToSet(change[c].history) : k.id = c
      BY <1>1, <1>3 DEF RowOf, Row
    <2> QED BY <2>1, HeadIn
  <1> QED BY <1>1, <1>2, <1>3

\* A new version of a commit.
LEMMA AmendedIs ==
  ASSUME Settling, NEW c \in ChangeIds, InBranch(c)
  PROVE  Amended(c) \in Commit /\ Amended(c).id = c
  <1>1. CommitOf(c) \in Commit /\ CommitOf(c).id = c
    BY SettlingFacts
  <1> QED BY <1>1 DEF Amended, Commit, Settling

LEMMA CommitFollows ==
  ASSUME Settling, NEW c \in Unused
  PROVE  Follows(CommitChanges(c))
  <1> DEFINE k == [id |-> c, patch |-> 0, made |-> rewrites]
             u == Created(c, k)
             n == After(change, {u})
  <1>1. c \in ChangeIds /\ change[c].status = "none" /\ ~ InBranch(c) /\ change[c] \in Row
    BY SettlingFacts DEF Unused
  <1>2. k \in Commit /\ k.id = c /\ u.id = c
    BY <1>1 DEF Commit, Settling, Created
  <1>3. Fits(change[u.id], u)
    BY <1>1, <1>2, UpdatesFit
  <1> HIDE DEF u
  <1>4. /\ AllFit(change, <<u>>) /\ ToSet(<<u>>) = {u} /\ n[c] = Applied(change[c], u)
        /\ \A d \in ChangeIds : d # c => n[d] = change[d]
    BY <1>2, <1>3, OneTodo
  <1>5. n[c].status = "active" /\ n[c].current = k
    BY <1>1, <1>4, UpdatesDo DEF u
  <1> HIDE DEF n
  <1>6. Settled(branch \cup {k}, n, lost)
    BY <1>1, <1>2, <1>4, <1>5 DEF Settling, Settled, InBranch, Commit
  <1>7. CommitChanges(c) = Rewrite(branch \cup {k}, <<u>>, lost)
    BY DEF CommitChanges, u
  <1> QED BY <1>4, <1>6, <1>7 DEF Follows, Rewrite, n

LEMMA AmendFollows ==
  ASSUME Settling, NEW c \in Tracked
  PROVE  Follows(Amend(c))
  <1> DEFINE k == Amended(c)
             u == Rewritten(c, k)
             n == After(change, {u})
  <1>1. c \in ChangeIds /\ change[c].status = "active" /\ InBranch(c) /\ change[c] \in Row
    BY SettlingFacts DEF Tracked, Active
  <1>2. k \in Commit /\ k.id = c /\ u.id = c
    BY <1>1, AmendedIs DEF Rewritten
  <1>3. Fits(change[u.id], u)
    BY <1>1, <1>2, UpdatesFit
  <1> HIDE DEF u
  <1>4. /\ AllFit(change, <<u>>) /\ ToSet(<<u>>) = {u} /\ n[c] = Applied(change[c], u)
        /\ \A d \in ChangeIds : d # c => n[d] = change[d]
    BY <1>2, <1>3, OneTodo
  <1>5. n[c].status = "active" /\ n[c].current = k
    BY <1>1, <1>4, UpdatesDo DEF u
  <1>6. \A j \in branch : j.id = c <=> j = CommitOf(c)
    BY <1>1, SettlingFacts
  <1>7. \A d \in ChangeIds : change[d].status = "active" => change[d].current.id = d
    BY SettlingFacts
  <1> HIDE DEF n, k
  <1>8. Settled(WithAmended(c), n, lost \ {c})
    BY <1>1, <1>2, <1>4, <1>5, <1>6, <1>7 DEF Settling, Settled, WithAmended, Commit, k
  <1> QED BY <1>4, <1>8 DEF Follows, Amend, Rewrite, n, u, k

LEMMA DropFollows ==
  ASSUME Settling, NEW c \in Tracked
  PROVE  Follows(DropCommit(c))
  <1> DEFINE u == Ended(c, "dropped", NoCommit)
             n == After(change, {u})
  <1>1. c \in ChangeIds /\ change[c].status = "active" /\ InBranch(c) /\ change[c] \in Row
    BY SettlingFacts DEF Tracked, Active
  <1>2. u.id = c
    BY DEF Ended
  <1>3. Fits(change[u.id], u)
    BY <1>1, <1>2, UpdatesFit
  <1> HIDE DEF u
  <1>4. /\ AllFit(change, <<u>>) /\ ToSet(<<u>>) = {u} /\ n[c] = Applied(change[c], u)
        /\ \A d \in ChangeIds : d # c => n[d] = change[d]
    BY <1>2, <1>3, OneTodo
  <1>5. n[c].status = "dropped"
    BY <1>1, <1>4, UpdatesDo DEF u
  <1>6. \A j \in branch : j.id = c <=> j = CommitOf(c)
    BY <1>1, SettlingFacts
  <1>7. \A d \in ChangeIds : change[d].status = "active" => change[d].current.id = d
    BY SettlingFacts
  <1> HIDE DEF n
  <1>8. Settled(branch \ {CommitOf(c)}, n, lost)
    BY <1>1, <1>4, <1>5, <1>6, <1>7 DEF Settling, Settled, Commit
  <1> QED BY <1>4, <1>8 DEF Follows, DropCommit, Rewrite, n, u

LEMMA SquashFollows ==
  ASSUME Settling, NEW d \in Tracked, NEW c \in Tracked, d # c
  PROVE  Follows(Squash(d, c))
  <1> DEFINE k == Amended(c)
             u == Ended(d, "squashed", c)
             v == Rewritten(c, k)
             n == After(change, {u, v})
  <1>1. /\ c \in ChangeIds /\ change[c].status = "active" /\ InBranch(c) /\ change[c] \in Row
        /\ d \in ChangeIds /\ change[d].status = "active" /\ InBranch(d) /\ change[d] \in Row
    BY SettlingFacts DEF Tracked, Active
  <1>2. k \in Commit /\ k.id = c /\ v.id = c /\ u.id = d
    BY <1>1, AmendedIs DEF Rewritten, Ended
  <1> HIDE DEF k
  <1>3. Fits(change[u.id], u) /\ Fits(change[v.id], v)
    BY <1>1, <1>2, UpdatesFit
  <1> HIDE DEF u, v
  <1>4. /\ AllFit(change, <<u, v>>) /\ ToSet(<<u, v>>) = {u, v}
        /\ n[d] = Applied(change[d], u) /\ n[c] = Applied(change[c], v)
        /\ \A e \in ChangeIds : e # d /\ e # c => n[e] = change[e]
    <2>1. TwoFit(change, u, v)
      BY <1>2, <1>3 DEF TwoFit
    <2>2. TwoDone(change, u, v)
      BY <2>1, TwoTodo
    <2> QED BY <1>2, <2>2 DEF TwoDone
  <1>5. n[c].status = "active" /\ n[c].current = k /\ n[d].status = "squashed"
    BY <1>1, <1>4, UpdatesDo DEF u, v
  <1>6. \A j \in branch : (j.id = c <=> j = CommitOf(c)) /\ (j.id = d <=> j = CommitOf(d))
    BY <1>1, SettlingFacts
  <1>7. \A e \in ChangeIds : change[e].status = "active" => change[e].current.id = e
    BY SettlingFacts
  <1> HIDE DEF n
  <1>8. CommitOf(c).id = c /\ CommitOf(d).id = d /\ CommitOf(d) \in branch
    BY <1>1, SettlingFacts
  <1>9. Settled(WithAmended(c) \ {CommitOf(d)}, n, lost \ {c, d})
    BY <1>1, <1>2, <1>4, <1>5, <1>6, <1>7, <1>8 DEF Settling, Settled, WithAmended, Commit, k
  <1> QED BY <1>4, <1>9 DEF Follows, Squash, Rewrite, n, u, v, k

LEMMA SplitFollows ==
  ASSUME Settling, NEW c \in Tracked, NEW d \in Unused, NEW e \in Unused, d # e
  PROVE  Follows(Split(c, d, e))
  <1> DEFINE Part(x) == [id |-> x, patch |-> 0, made |-> rewrites + 1]
             j == Part(d)
             k == Part(e)
             u == Ended(c, "dropped", NoCommit)
             v == Created(d, j)
             w == Created(e, k)
             n == After(change, {u, v, w})
             commits == (branch \ {CommitOf(c)}) \cup {j, k}
  <1>1. /\ c \in ChangeIds /\ change[c].status = "active" /\ InBranch(c) /\ change[c] \in Row
        /\ d \in ChangeIds /\ change[d].status = "none" /\ ~ InBranch(d) /\ change[d] \in Row
        /\ e \in ChangeIds /\ change[e].status = "none" /\ ~ InBranch(e) /\ change[e] \in Row
    BY SettlingFacts DEF Tracked, Unused, Active
  <1>2. /\ j \in Commit /\ k \in Commit /\ j.id = d /\ k.id = e
        /\ u.id = c /\ v.id = d /\ w.id = e /\ c # d /\ c # e
    BY <1>1 DEF Commit, Settling, Created, Ended
  <1>3. Split(c, d, e) = Rewrite(commits, <<u, v, w>>, lost)
    BY DEF Split
  <1> HIDE DEF j, k
  <1>4. Fits(change[u.id], u) /\ Fits(change[v.id], v) /\ Fits(change[w.id], w)
    BY <1>1, <1>2, UpdatesFit
  <1> HIDE DEF u, v, w
  <1>5. /\ AllFit(change, <<u, v, w>>) /\ ToSet(<<u, v, w>>) = {u, v, w}
        /\ n[c] = Applied(change[c], u) /\ n[d] = Applied(change[d], v) /\ n[e] = Applied(change[e], w)
        /\ \A x \in ChangeIds : x # c /\ x # d /\ x # e => n[x] = change[x]
    <2>1. ThreeFit(change, u, v, w)
      BY <1>2, <1>4 DEF TwoFit, ThreeFit
    <2>2. ThreeDone(change, u, v, w)
      BY <2>1, ThreeTodo
    <2> QED BY <1>2, <2>2 DEF ThreeDone
  <1>6. /\ n[c].status = "dropped" /\ n[d].status = "active" /\ n[d].current = j
        /\ n[e].status = "active" /\ n[e].current = k
    <2>1. Applied(change[c], u).status = "dropped"
      BY <1>1, UpdatesDo DEF u
    <2>2. Applied(change[d], v).status = "active" /\ Applied(change[d], v).current = j
      BY <1>1, UpdatesDo DEF v
    <2>3. Applied(change[e], w).status = "active" /\ Applied(change[e], w).current = k
      BY <1>1, UpdatesDo DEF w
    <2> HIDE DEF n
    <2> QED BY <1>5, <2>1, <2>2, <2>3
  <1>7. \A x \in branch : x.id \in ChangeIds /\ x.id # d /\ x.id # e /\ (x.id = c <=> x = CommitOf(c))
    BY <1>1, SettlingFacts DEF InBranch, Settling, Settled, Commit
  <1>8. \A x \in ChangeIds : change[x].status = "active" => change[x].current.id = x
    BY SettlingFacts
  <1> HIDE DEF n
  <1>9. Settled(commits, n, lost)
    <2>1. commits \subseteq Commit /\ lost \subseteq ChangeIds
      BY <1>2 DEF Settling, Settled
    <2>2. ASSUME NEW x \in commits, NEW y \in commits, x.id = y.id PROVE x = y
      BY <1>2, <1>7, <2>2 DEF Settling, Settled
    <2>3. ASSUME NEW x \in ChangeIds, n[x].status = "active", x \notin lost PROVE n[x].current \in commits
      BY <1>2, <1>5, <1>6, <1>7, <1>8, <2>3 DEF Settling, Settled
    <2>4. ASSUME NEW x \in commits
          PROVE  \/ x.id \in lost \/ n[x.id].status = "merged"
                 \/ n[x.id].status = "active" /\ n[x.id].current = x
      BY <1>2, <1>5, <1>6, <1>7 DEF Settling, Settled
    <2> QED BY <2>1, <2>2, <2>3, <2>4 DEF Settled
  <1> QED BY <1>3, <1>5, <1>9 DEF Follows, Rewrite, n

\* A set of updates, as a list.
LEMMA SetAsTodo ==
  ASSUME NEW S, IsFiniteSet(S)
  PROVE  /\ SetToSeq(S) \in Seq(S) /\ ToSet(SetToSeq(S)) = S
         /\ \A i, j \in DOMAIN SetToSeq(S) : SetToSeq(S)[i] = SetToSeq(S)[j] => i = j
  <1>1. PICK n : n = Cardinality(S)
    OBVIOUS
  <1>2. n \in Nat /\ ExistsBijection(1 .. n, S)
    BY <1>1, FS_CardinalityType
  <1>3. PICK f : f \in Bijection(1 .. n, S)
    BY <1>2 DEF ExistsBijection
  <1>4. f \in [1 .. n -> S] /\ IsInjective(f)
    BY <1>3 DEF Bijection, Injection, IsInjective
  <1>5. SetToSeq(S) \in [1 .. n -> S] /\ IsInjective(SetToSeq(S))
    BY <1>1, <1>4 DEF SetToSeq
  <1>6. PICK g : g = SetToSeq(S)
    OBVIOUS
  <1>7. g \in Injection(1 .. n, S) /\ DOMAIN g = 1 .. n
    BY <1>5, <1>6 DEF Injection, IsInjective
  <1>8. IsFiniteSet(1 .. n) /\ Cardinality(1 .. n) = n
    BY <1>2, FS_Interval
  <1>9. g \in Surjection(1 .. n, S)
    BY <1>1, <1>7, <1>8, FS_Injection
  <1>10. \A x \in S : \E i \in 1 .. n : g[i] = x
    BY <1>9 DEF Surjection
  <1>11. ToSet(g) = S
    BY <1>5, <1>6, <1>7, <1>10 DEF ToSet
  <1>12. \A i, j \in DOMAIN g : g[i] = g[j] => i = j
    BY <1>7 DEF Injection, IsInjective
  <1>13. g \in Seq(S)
    BY <1>2, <1>5, <1>6
  <1> QED BY <1>6, <1>11, <1>12, <1>13

\* Rows there are finitely many of.
FewRows(rows) == IsFiniteSet({c \in ChangeIds : rows[c].status # "none"})

\* Updates of active rows, one of each at most: any order does.
LEMMA SetTodo ==
  ASSUME NEW rows, FewRows(rows), NEW us \in SUBSET Update, OneEach(us),
         \A u \in us : rows[u.id].status = "active" /\ Fits(rows[u.id], u)
  PROVE  AllFit(rows, SetToSeq(us)) /\ ToSet(SetToSeq(us)) = us
  <1> DEFINE some == {c \in ChangeIds : rows[c].status # "none"}
             f == [u \in us |-> u.id]
  <1>1. f \in Injection(us, some)
    BY DEF Injection, IsInjective, OneEach, Update
  <1>2. IsFiniteSet(us)
    BY <1>1, FS_Injection DEF FewRows
  <1>3. PICK s : s = SetToSeq(us)
    OBVIOUS
  <1>4. s \in Seq(us) /\ ToSet(s) = us /\ \A i, j \in DOMAIN s : s[i] = s[j] => i = j
    BY <1>2, <1>3, SetAsTodo
  <1>5. \A i \in DOMAIN s : s[i] \in us
    BY <1>4
  <1>6. s \in Seq(Update)
    BY <1>4
  <1>7. AllFit(rows, s)
    BY <1>4, <1>5, <1>6 DEF AllFit, OneEach
  <1> QED BY <1>3, <1>4, <1>7

LEMMA MergeFollows ==
  ASSUME Settling, FewRows(change)
  PROVE  Follows(MergeStream)
  <1> DEFINE us == {Ended(c, "merged", NoCommit) : c \in {d \in ChangeIds : Active(d)}}
             n == After(change, us)
  <1>1. ASSUME NEW u \in us
        PROVE  /\ u \in Update /\ u.id \in ChangeIds /\ u = Ended(u.id, "merged", NoCommit)
               /\ change[u.id].status = "active" /\ Fits(change[u.id], u)
    <2>1. PICK c \in ChangeIds : u = Ended(c, "merged", NoCommit) /\ change[c].status = "active"
      BY <1>1 DEF Active
    <2>2. u.id = c
      BY <2>1 DEF Ended
    <2>3. Fits(change[c], u)
      BY <2>1, UpdatesFit
    <2> QED BY <2>1, <2>2, <2>3 DEF Fits
  <1>2. us \in SUBSET Update /\ OneEach(us)
    BY <1>1 DEF OneEach
  <1>3. MergeStream = Rewrite(branch, SetToSeq(us), lost)
    BY DEF MergeStream
  <1>4. \A c \in ChangeIds : change[c].status = "active" => Ended(c, "merged", NoCommit) \in us
                             /\ Ended(c, "merged", NoCommit).id = c
    BY DEF Active, Ended
  <1> HIDE DEF us
  <1>5. AllFit(change, SetToSeq(us)) /\ ToSet(SetToSeq(us)) = us
    BY <1>1, <1>2, SetTodo
  <1>6. ASSUME NEW c \in ChangeIds
        PROVE  IF change[c].status = "active" THEN n[c].status = "merged" ELSE n[c] = change[c]
    <2>1. CASE change[c].status = "active"
      <3>1. PICK u \in us : u = Ended(c, "merged", NoCommit) /\ u.id = c
        BY <1>4, <2>1
      <3>2. n[c] = Applied(change[c], u)
        BY <1>2, <3>1, AfterIs
      <3>3. change[c] \in Row
        BY SettlingFacts
      <3> QED BY <2>1, <3>1, <3>2, <3>3, UpdatesDo
    <2>2. CASE change[c].status # "active"
      <3>1. \A u \in us : u.id # c
        BY <1>1, <2>2
      <3> QED BY <1>2, <2>2, <3>1, AfterIs
    <2> QED BY <2>1, <2>2
  <1> HIDE DEF n
  <1>7. Settled(branch, n, lost)
    BY <1>6 DEF Settling, Settled, Commit
  <1> QED BY <1>3, <1>5, <1>7 DEF Follows, Rewrite, n

LEMMA RebaseFollows ==
  ASSUME Settling, FewRows(change), NEW fate \in Fates
  PROVE  Follows(Rebase(fate))
  <1> DEFINE Replay(k) == [id |-> k.id, patch |-> IF fate[k] = "altered" THEN k.patch + 1 ELSE k.patch,
                           made |-> rewrites + 1]
             new == {Replay(k) : k \in {j \in branch : fate[j] # "dropped"}}
             gone == lost \cup {k.id : k \in {j \in branch : fate[j] # "same"}}
             moved == {m \in Mapping(branch, new) : \E c \in ChangeIds : Active(c) /\ change[c].current = m[1]}
             us == {Rewritten(m[1].id, m[2]) : m \in moved}
             n == After(change, us)
  <1>1. Rebase(fate) = Rewrite(new, SetToSeq(us), gone)
    BY DEF Rebase, RebaseUpdates
  <1>2. \A k \in branch : k \in Commit /\ k.id \in ChangeIds /\ k.patch \in Nat
                         /\ fate[k] \in {"same", "altered", "dropped"}
    BY DEF Settling, Settled, Commit, Fates
  <1>3. ASSUME NEW k \in branch
        PROVE  /\ Replay(k) \in Commit /\ Replay(k).id = k.id
               /\ fate[k] = "same" => Replay(k).patch = k.patch
               /\ fate[k] # "dropped" => Replay(k) \in new
               /\ fate[k] # "same" => k.id \in gone
    BY <1>2 DEF Commit, Settling
  <1>4. ASSUME NEW j \in new PROVE \E k \in branch : j = Replay(k) /\ j.id = k.id /\ fate[k] # "dropped"
    BY <1>3
  <1>5. lost \subseteq gone /\ gone \subseteq ChangeIds
    BY <1>2 DEF Settling, Settled
  <1>6. \A j, k \in branch : j.id = k.id => j = k
    BY DEF Settling, Settled
  <1>7. \A j, k \in new : j.id = k.id => j = k
    <2> SUFFICES ASSUME NEW j \in new, NEW k \in new, j.id = k.id PROVE j = k
      OBVIOUS
    <2>1. PICK x \in branch : j = Replay(x) /\ j.id = x.id
      BY <1>4
    <2>2. PICK y \in branch : k = Replay(y) /\ k.id = y.id
      BY <1>4
    <2>3. x = y
      BY <1>6, <2>1, <2>2
    <2> QED BY <2>1, <2>2, <2>3
  <1>8. new \subseteq Commit
    BY <1>3
  <1>9. ASSUME NEW u \in us
        PROVE  \E k \in new : /\ u = Rewritten(k.id, k) /\ u.id = k.id /\ k.id \in ChangeIds
                              /\ change[k.id].status = "active" /\ Fits(change[k.id], u)
    <2>1. PICK m \in moved : u = Rewritten(m[1].id, m[2])
      OBVIOUS
    <2>2. m[1] \in branch /\ m[2] \in new /\ m[1].id = m[2].id
      BY <2>1 DEF Mapping
    <2>3. PICK c \in ChangeIds : change[c].status = "active" /\ change[c].current = m[1]
      BY <2>1 DEF Active
    <2>4. m[1].id = c
      BY <2>3, SettlingFacts
    <2> HIDE DEF moved, new
    <2>5. Fits(change[c], u)
      BY <1>8, <2>1, <2>2, <2>3, <2>4, UpdatesFit
    <2> QED BY <2>1, <2>2, <2>3, <2>4, <2>5 DEF Rewritten
  <1>10. ASSUME NEW c \in ChangeIds, change[c].status = "active", c \notin gone
         PROVE  \E k \in new : k.id = c /\ Rewritten(c, k) \in us
    <2>1. PICK j \in branch : j = change[c].current /\ j.id = c
      BY <1>5, <1>10, SettlingFacts DEF Settling, Settled
    <2>2. fate[j] = "same"
      BY <1>3, <1>10, <2>1
    <2>3. Replay(j) \in new /\ Replay(j).id = c /\ Replay(j).patch = j.patch
      BY <1>3, <2>1, <2>2
    <2>4. PICK k \in new : k = Replay(j)
      BY <2>3
    <2> HIDE DEF new, Replay
    <2>5. <<j, k>> \in moved
      BY <1>10, <2>1, <2>3, <2>4 DEF Mapping, Active
    <2> QED BY <2>1, <2>3, <2>4, <2>5
  <1>11. \A k \in new : k.id \in gone \/ \E j \in branch : j.id = k.id /\ fate[j] = "same"
    BY <1>2, <1>3, <1>4
  <1> HIDE DEF us, moved, new, gone, Replay
  <1>12. us \in SUBSET Update /\ OneEach(us)
    BY <1>7, <1>9 DEF OneEach, Fits
  <1>13. AllFit(change, SetToSeq(us)) /\ ToSet(SetToSeq(us)) = us
    BY <1>9, <1>12, SetTodo
  <1>14. ASSUME NEW u \in us PROVE n[u.id].status = "active" /\ n[u.id].current \in new /\ n[u.id].current.id = u.id
    <2>1. PICK k \in new : /\ u = Rewritten(k.id, k) /\ u.id = k.id /\ k.id \in ChangeIds
                           /\ change[k.id].status = "active"
      BY <1>9
    <2>2. n[u.id] = Applied(change[u.id], u)
      BY <1>12, AfterIs
    <2>3. change[k.id] \in Row
      BY <2>1, SettlingFacts
    <2> QED BY <2>1, <2>2, <2>3, UpdatesDo
  <1>15. \A c \in ChangeIds : (\A u \in us : u.id # c) => n[c] = change[c]
    BY <1>12, AfterIs
  <1> HIDE DEF n
  <1>16. \A u \in us : u.id \in ChangeIds /\ change[u.id].status = "active"
    BY <1>9
  <1>17. ASSUME NEW c \in ChangeIds, n[c].status = "active", c \notin gone PROVE n[c].current \in new
    <2>1. change[c].status = "active"
      BY <1>15, <1>16, <1>17
    <2>2. PICK u \in us : u.id = c
      BY <1>10, <1>17, <2>1 DEF Rewritten
    <2> QED BY <1>14, <2>2
  <1>18. ASSUME NEW k \in new
         PROVE  \/ k.id \in gone \/ n[k.id].status = "merged"
                \/ n[k.id].status = "active" /\ n[k.id].current = k
    <2> SUFFICES ASSUME k.id \notin gone
                 PROVE  n[k.id].status = "merged" \/ (n[k.id].status = "active" /\ n[k.id].current = k)
      OBVIOUS
    <2>1. k.id \in ChangeIds
      BY <1>8 DEF Commit
    <2>2. PICK j \in branch : j.id = k.id
      BY <1>11
    <2>3. change[k.id].status = "merged" \/ change[k.id].status = "active"
      BY <1>5, <2>2 DEF Settling, Settled
    <2>4. CASE change[k.id].status = "merged"
      BY <1>15, <1>16, <2>1, <2>4
    <2>5. CASE change[k.id].status = "active"
      <3>1. PICK u \in us : u.id = k.id
        BY <1>10, <2>1, <2>5 DEF Rewritten
      <3> QED BY <1>7, <1>14, <3>1
    <2> QED BY <2>3, <2>4, <2>5
  <1>19. Settled(new, n, gone)
    BY <1>5, <1>7, <1>8, <1>17, <1>18 DEF Settled
  <1> QED BY <1>1, <1>13, <1>19 DEF Follows, Rewrite, n

-----------------------------------------------------------------------------
(* The process that writes, and that may die *)

Callers == [pc : CallPcs, agent : Writers \cup {NoWriter}, todo : Seq(Update)]

\* As long as nobody died the rows follow the branch when the updates at hand
\* are written; a checkpoint is there during a write and only then.
CleanInv ==
  /\ Settled(branch, After(change, ToSet(call.todo)), lost)
  /\ call.pc = "idle" => checkpoints = {}
  /\ call.pc # "idle" /\ setting.skipRecovery => checkpoints # {}
  /\ \A cp \in checkpoints : cp.agent = call.agent

\* Afterwards nothing is written any more but a branch that is put back.
CrashedInv ==
  /\ call.pc \in {"idle", "complete"}
  /\ call.pc = "complete" \/ (setting.skipRecovery /\ checkpoints = {}) => Kept(branch, change, lost)

FollowInv ==
  /\ GuardsTypeOK /\ version \in Nat /\ used \in [Bounds -> Nat]
  /\ branch \subseteq Commit /\ lost \subseteq ChangeIds /\ rewrites \in 0 .. MaxRewrites
  /\ change \in [ChangeIds -> Row] /\ RowsOf(change) /\ FewRows(change)
  /\ call \in Callers /\ AllFit(change, call.todo) /\ (call.pc = "rows" <=> call.todo # <<>>)
  /\ \A cp \in checkpoints : cp \in Checkpoint /\ Kept(cp.before, change, cp.lost)
  /\ used.crashes = 0 => CleanInv
  /\ used.crashes # 0 => CrashedInv

\* Rows that know more keep what was kept.
LEMMA GrownKeeps ==
  ASSUME NEW commits \in SUBSET Commit, NEW gone, NEW rows, NEW new, Kept(commits, rows, gone),
         \A c \in ChangeIds : Grown(rows[c], new[c])
  PROVE  Kept(commits, new, gone)
  BY DEF Kept, Grown, Commit

LEMMA CallersAre ==
  \A a \in Writers \cup {NoWriter}, pc \in CallPcs : [pc |-> pc, agent |-> a, todo |-> <<>>] \in Callers
  BY DEF Callers

LEMMA FollowInit == Init => FollowInv
  <1> SUFFICES ASSUME Init PROVE FollowInv
    OBVIOUS
  <1>1. /\ branch = {} /\ change = [c \in ChangeIds |-> NoChange] /\ rewrites = 0 /\ lost = {}
        /\ call = NoCall /\ checkpoints = {} /\ used = [b \in Bounds |-> 0]
    BY DEF Init, ChangesInit, WorktreesInit
  <1>2. GuardsTypeOK /\ version \in Nat
    BY DEF Init, GuardsInit, GuardsTypeOK, Away
  <1>3. NoChange \in Row /\ NoChange.history = <<>> /\ NoChange.status = "none" /\ NoChange.into = NoCommit
    BY DEF NoChange, Row, Statuses
  <1>4. change \in [ChangeIds -> Row] /\ RowsOf(change)
    BY <1>1, <1>3, ToSetFacts DEF RowsOf, RowOf
  <1>5. FewRows(change)
    <2>1. {c \in ChangeIds : change[c].status # "none"} = {}
      BY <1>1, <1>3
    <2> QED BY <2>1, FS_EmptySet DEF FewRows
  <1>6. Settled(branch, change, lost)
    BY <1>1, <1>3 DEF Settled
  <1>7. call.todo = <<>> /\ call.pc = "idle" /\ call \in Callers
    <2>1. call = [pc |-> "idle", agent |-> NoWriter, todo |-> <<>>]
      BY <1>1 DEF NoCall
    <2> QED BY <2>1, CallersAre DEF CallPcs
  <1>8. AllFit(change, <<>>) /\ Settled(branch, After(change, ToSet(<<>>)), lost)
    BY <1>6, NothingToDo
  <1>9. CleanInv
    BY <1>1, <1>7, <1>8 DEF CleanInv
  <1>10. used \in [Bounds -> Nat] /\ used.crashes = 0 /\ rewrites \in 0 .. MaxRewrites
    BY <1>1, SessionsAssumption DEF Bounds
  <1> QED BY <1>1, <1>2, <1>4, <1>5, <1>7, <1>8, <1>9, <1>10 DEF FollowInv

\* What neither writes to the stream nor is a death leaves all this alone.
LEMMA FollowQuiet ==
  ASSUME FollowInv, UNCHANGED <<setting, clvars>>, used' \in [Bounds -> Nat], used'.crashes = used.crashes
  PROVE  FollowInv'
  <1>1. GuardsTypeOK'
    BY DEF FollowInv, GuardsTypeOK, clvars, guvars
  <1>2. CleanInv <=> CleanInv'
    BY DEF CleanInv, clvars, chvars
  <1>3. CrashedInv <=> CrashedInv'
    BY DEF CrashedInv, clvars, chvars
  <1> QED BY <1>1, <1>2, <1>3 DEF FollowInv, clvars, chvars, guvars

LEMMA UsedElse ==
  ASSUME used \in [Bounds -> Nat], NEW b \in Bounds, b # "crashes", MayUse(b)
  PROVE  used' \in [Bounds -> Nat] /\ used'.crashes = used.crashes
  BY DEF MayUse, Bounds

LEMMA QuietSteps ==
  ASSUME used \in [Bounds -> Nat]
  PROVE  /\ \A p \in setting.procs : WorktreeCalls(p) \/ WorktreeSteps(p) =>
               used' \in [Bounds -> Nat] /\ used'.crashes = used.crashes
         /\ \A p \in setting.procs : SnapshotCalls(p) \/ RecordSnapshot(p) =>
               used' \in [Bounds -> Nat] /\ used'.crashes = used.crashes
         /\ Others => used' \in [Bounds -> Nat] /\ used'.crashes = used.crashes
  <1> DEFINE Same == used' \in [Bounds -> Nat] /\ used'.crashes = used.crashes
  <1>1. UNCHANGED used => Same
    OBVIOUS
  <1>2. \A b \in {"cascades", "snaps", "deaths", "losses", "rollbacks"} : MayUse(b) => Same
    BY UsedElse DEF Bounds
  <1> HIDE DEF Same
  <1>3. ASSUME NEW p \in setting.procs, WorktreeCalls(p) PROVE Same
    BY <1>1, <1>2, <1>3 DEF WorktreeCalls, CreateWorktree, UpdateWorktreeStream, DeallocateWorktree,
                            TemporaryWorktree, GcPrune, BeginCascade
  <1>4. ASSUME NEW p \in setting.procs, WorktreeSteps(p) PROVE Same
    BY <1>1, <1>4 DEF WorktreeSteps, InsertRow, UpdateRow, DeleteRow, PruneWorktrees, CleanTemporary, EndCleanup
  <1>5. ASSUME NEW p \in setting.procs, SnapshotCalls(p) \/ RecordSnapshot(p) PROVE Same
    BY <1>1, <1>2, <1>5 DEF SnapshotCalls, Snapshot, Restore, DeleteSnapshot, RecordSnapshot, wtvars
  <1>6. ASSUME Others PROVE Same
    BY <1>1, <1>2, <1>6 DEF Others, CommitWork, Die, Edit, DeletedByHand
  <1> QED BY <1>3, <1>4, <1>5, <1>6 DEF Same

LEMMA FollowRead ==
  ASSUME FollowInv, NEW a \in Writers, Read(a) \/ Abandon(a)
  PROVE  FollowInv'
  <1>1. /\ UNCHANGED <<setting, used, chvars, call, checkpoints, guard, version>>
        /\ \/ session' = [session EXCEPT ![a] = [working |-> TRUE, seen |-> version, newer |-> FALSE]]
           \/ session' = [session EXCEPT ![a] = Away]
    BY DEF Read, Abandon, ReadStream, GiveUp, wtvars
  <1>2. GuardsTypeOK'
    <2>1. guard' \in Writers \cup {NoWriter}
      BY <1>1 DEF FollowInv, GuardsTypeOK
    <2>2. 0 \in 0 .. version /\ version \in 0 .. version
      BY DEF FollowInv
    <2> DEFINE T == [working : BOOLEAN, seen : 0 .. version, newer : BOOLEAN]
    <2>3. [working |-> TRUE, seen |-> version, newer |-> FALSE] \in T /\ Away \in T
      BY <2>2 DEF Away
    <2>4. session \in [Writers -> T]
      BY DEF FollowInv, GuardsTypeOK
    <2> HIDE DEF T
    <2>5. session' \in [Writers -> T]
      BY <1>1, <2>3, <2>4
    <2> QED BY <1>1, <2>1, <2>5 DEF GuardsTypeOK, T
  <1>3. CleanInv <=> CleanInv'
    BY <1>1 DEF CleanInv, chvars
  <1>4. CrashedInv <=> CrashedInv'
    BY <1>1 DEF CrashedInv, chvars
  <1> QED BY <1>1, <1>2, <1>3, <1>4 DEF FollowInv, chvars

\* The checkpoint says what can be found again.
LEMMA FollowBegin ==
  ASSUME FollowInv, NEW a \in Writers, Begin(a)
  PROVE  FollowInv'
  <1>1. /\ call.pc = "idle" /\ used.crashes = 0 /\ UNCHANGED <<setting, used, guvars, chvars>>
        /\ call' = [NoCall EXCEPT !.pc = "git", !.agent = a]
        /\ checkpoints' = {[agent |-> a, before |-> branch, lost |-> lost]}
    BY DEF Begin, Ready, wtvars
  <1>2. call' = [pc |-> "git", agent |-> a, todo |-> <<>>] /\ call.todo = <<>>
    BY <1>1 DEF NoCall, FollowInv
  <1>3. call' \in Callers
    BY <1>2, CallersAre DEF CallPcs
  <1>4. GuardsTypeOK'
    BY <1>1 DEF FollowInv, GuardsTypeOK, guvars
  <1>5. Settled(branch, After(change, ToSet(<<>>)), lost)
    BY <1>1, <1>2 DEF FollowInv, CleanInv
  <1>6. Kept(branch, change, lost)
    BY <1>5, NothingLeft, SettledKept DEF FollowInv
  <1>7. \A cp \in checkpoints' : cp \in Checkpoint /\ Kept(cp.before, change, cp.lost)
    BY <1>1, <1>6 DEF FollowInv, Checkpoint
  <1>8. call'.pc = "git" /\ call'.todo = <<>> /\ checkpoints' # {}
    <2>1. call'.pc = "git" /\ call'.todo = <<>>
      BY <1>2
    <2>2. [agent |-> a, before |-> branch, lost |-> lost] \in checkpoints'
      BY <1>1
    <2> QED BY <2>1, <2>2
  <1>9. CleanInv'
    BY <1>1, <1>5, <1>8 DEF CleanInv, chvars
  <1>10. AllFit(change', call'.todo)
    BY <1>1, <1>2, <1>8 DEF FollowInv, chvars
  <1>11. /\ version' \in Nat /\ used' \in [Bounds -> Nat] /\ used'.crashes = 0
         /\ branch' \subseteq Commit /\ lost' \subseteq ChangeIds /\ rewrites' \in 0 .. MaxRewrites
         /\ change' \in [ChangeIds -> Row] /\ RowsOf(change') /\ FewRows(change')
    BY <1>1 DEF FollowInv, guvars, chvars
  <1>12. \A cp \in checkpoints' : cp \in Checkpoint /\ Kept(cp.before, change', cp.lost)
    BY <1>1, <1>7 DEF chvars
  <1> QED BY <1>3, <1>4, <1>8, <1>9, <1>10, <1>11, <1>12 DEF FollowInv

\* Whatever is written, it settles when the rows are written.
LEMMA WritesFollow ==
  ASSUME FollowInv, used.crashes = 0, call.todo = <<>>, NEW r \in Additions \cup Rewrites
  PROVE  Follows(r)
  <1>1. Settled(branch, After(change, ToSet(<<>>)), lost)
    BY DEF FollowInv, CleanInv
  <1>2. Settled(branch, change, lost)
    BY <1>1, NothingLeft
  <1>3. Settling /\ FewRows(change)
    BY <1>2, SessionsAssumption DEF Settling, FollowInv
  <1>4. Tracked \subseteq ChangeIds /\ Unused \subseteq ChangeIds /\ ChangeIds \subseteq Nat
    BY SessionsAssumption DEF Tracked, Unused
  <1>5. CASE r \in Additions
    BY <1>3, <1>5, CommitFollows, MergeFollows DEF Additions
  <1>6. CASE \E fate \in Fates : r = Rebase(fate)
    BY <1>3, <1>6, RebaseFollows
  <1>7. CASE \E c \in Tracked : r = Amend(c) \/ r = DropCommit(c)
    BY <1>3, <1>7, AmendFollows, DropFollows
  <1>8. CASE \E d, c \in Tracked : d # c /\ r = Squash(d, c)
    BY <1>3, <1>8, SquashFollows
  <1>9. CASE \E c \in Tracked, d, e \in Unused : d # e /\ r = Split(c, d, e)
    BY <1>3, <1>9, SplitFollows
  <1>10. ASSUME NEW p \in {q \in Tracked \X Tracked : q[1] # q[2]}, r = Squash(p[1], p[2])
         PROVE  \E d, c \in Tracked : d # c /\ r = Squash(d, c)
    BY <1>10
  <1>11. ASSUME NEW p \in {q \in Tracked \X Unused \X Unused : q[2] < q[3]}, r = Split(p[1], p[2], p[3])
         PROVE  \E c \in Tracked, d, e \in Unused : d # e /\ r = Split(c, d, e)
    <2>1. p[1] \in Tracked /\ p[2] \in Unused /\ p[3] \in Unused /\ p[2] < p[3]
      OBVIOUS
    <2>2. p[2] \in Nat /\ p[3] \in Nat
      BY <1>4, <2>1
    <2>3. p[2] # p[3]
      BY <2>1, <2>2
    <2> QED BY <1>11, <2>1, <2>3
  <1> QED BY <1>5, <1>6, <1>7, <1>8, <1>9, <1>10, <1>11 DEF Rewrites

LEMMA FollowWriteGit ==
  ASSUME FollowInv, WriteGit
  PROVE  FollowInv'
  <1>1. call.pc = "git" /\ call.todo = <<>> /\ used.crashes = 0
    BY DEF WriteGit, FollowInv, CrashedInv
  <1>2. PICK r \in Additions \cup Rewrites :
          /\ r \in Rewrites => rewrites < MaxRewrites
          /\ branch' = r.branch /\ lost' = r.lost
          /\ rewrites' = IF r \in Rewrites THEN rewrites + 1 ELSE rewrites
          /\ call' = [call EXCEPT !.pc = IF r.todo = <<>> THEN "touch" ELSE "rows", !.todo = r.todo]
    BY DEF WriteGit
  <1>3. version' = version + 1 /\ UNCHANGED <<setting, used, guard, session, change, checkpoints>>
    BY DEF WriteGit, wtvars
  <1>4. Follows(r)
    BY <1>1, WritesFollow
  <1>5. PICK todo : todo = r.todo
    OBVIOUS
  <1>6. AllFit(change, todo) /\ Settled(branch', After(change, ToSet(todo)), lost') /\ todo \in Seq(Update)
    BY <1>2, <1>4, <1>5 DEF Follows, AllFit
  <1>7. call' = [pc |-> IF todo = <<>> THEN "touch" ELSE "rows", agent |-> call.agent, todo |-> todo]
    BY <1>2, <1>5 DEF FollowInv, Callers
  <1>8. call' \in Callers /\ call'.todo = todo /\ (call'.pc = "rows" <=> todo # <<>>) /\ call'.pc # "idle"
    BY <1>6, <1>7 DEF FollowInv, Callers, CallPcs
  <1>9. GuardsTypeOK' /\ version' \in Nat
    BY <1>3 DEF FollowInv, GuardsTypeOK
  <1>10. rewrites' \in 0 .. MaxRewrites
    BY <1>2, SessionsAssumption DEF FollowInv
  <1>11. branch' \subseteq Commit /\ lost' \subseteq ChangeIds
    BY <1>6 DEF Settled
  <1>12. CleanInv'
    <2>1. CleanInv /\ call'.agent = call.agent
      BY <1>1, <1>7 DEF FollowInv
    <2>2. Settled(branch', After(change', ToSet(call'.todo)), lost')
      BY <1>3, <1>6, <1>8
    <2>3. \A cp \in checkpoints' : cp.agent = call'.agent
      BY <1>3, <2>1 DEF CleanInv
    <2>4. setting'.skipRecovery => checkpoints' # {}
      BY <1>1, <1>3, <2>1 DEF CleanInv
    <2> QED BY <1>8, <2>2, <2>3, <2>4 DEF CleanInv
  <1> QED BY <1>1, <1>3, <1>6, <1>8, <1>9, <1>10, <1>11, <1>12 DEF FollowInv

LEMMA FollowWriteRow ==
  ASSUME FollowInv, WriteRow
  PROVE  FollowInv'
  <1> DEFINE todo == call.todo
  <1>1. /\ call.pc = "rows" /\ Apply(Head(todo))
        /\ call' = [call EXCEPT !.todo = Tail(@), !.pc = IF Len(call.todo) = 1 THEN "touch" ELSE "rows"]
        /\ UNCHANGED <<setting, used, guvars, branch, rewrites, lost, checkpoints>>
    BY DEF WriteRow, wtvars
  <1>2. todo # <<>> /\ todo \in Seq(Update) /\ AllFit(change, todo) /\ used.crashes = 0
    BY <1>1 DEF FollowInv, CrashedInv, Callers
  <1>3. change' = [change EXCEPT ![Head(todo).id] = Applied(@, Head(todo))]
    BY <1>1 DEF Apply
  <1>4. change \in [ChangeIds -> Row] /\ RowsOf(change)
    BY DEF FollowInv
  <1>5. /\ change' \in [ChangeIds -> Row] /\ RowsOf(change') /\ (\A c \in ChangeIds : Grown(change[c], change'[c]))
        /\ AllFit(change', Tail(todo)) /\ After(change', ToSet(Tail(todo))) = After(change, ToSet(todo))
        /\ (\A c \in ChangeIds : c # Head(todo).id => change'[c] = change[c])
        /\ Head(todo).id \in ChangeIds
    <2>1. OneWritten(change, todo, change')
      BY <1>2, <1>3, <1>4 DEF OneWritten
    <2>2. OthersLeft(change, todo, change')
      BY <2>1, WriteOne
    <2> QED BY <2>2 DEF OthersLeft
  <1>6. call' = [pc |-> IF Len(todo) = 1 THEN "touch" ELSE "rows", agent |-> call.agent, todo |-> Tail(todo)]
    BY <1>1 DEF FollowInv, Callers
  <1>7. Tail(todo) \in Seq(Update) /\ (Len(todo) = 1 <=> Tail(todo) = <<>>)
    BY <1>2, TailIs
  <1>8. call' \in Callers /\ call'.todo = Tail(todo) /\ (call'.pc = "rows" <=> Tail(todo) # <<>>) /\ call'.pc # "idle"
    BY <1>6, <1>7 DEF FollowInv, Callers, CallPcs
  <1>9. FewRows(change')
    <2> DEFINE some == {c \in ChangeIds : change[c].status # "none"}
    <2>1. IsFiniteSet(some)
      BY DEF FollowInv, FewRows
    <2>2. IsFiniteSet(some \cup {Head(todo).id})
      BY <2>1, FS_AddElement
    <2>3. {c \in ChangeIds : change'[c].status # "none"} \in SUBSET (some \cup {Head(todo).id})
      BY <1>5
    <2> QED BY <2>2, <2>3, FS_Subset DEF FewRows
  <1>10. GuardsTypeOK'
    BY <1>1 DEF FollowInv, GuardsTypeOK, guvars
  <1>11. ASSUME NEW cp \in checkpoints' PROVE cp \in Checkpoint /\ Kept(cp.before, change', cp.lost)
    <2>1. cp \in Checkpoint /\ Kept(cp.before, change, cp.lost)
      BY <1>1 DEF FollowInv
    <2>2. cp.before \in SUBSET Commit
      BY <2>1 DEF Checkpoint
    <2> QED BY <1>5, <2>1, <2>2, GrownKeeps
  <1>12. CleanInv'
    BY <1>1, <1>2, <1>5, <1>8 DEF CleanInv, FollowInv
  <1> QED BY <1>1, <1>2, <1>5, <1>8, <1>9, <1>10, <1>11, <1>12 DEF FollowInv, guvars

LEMMA FollowTouch ==
  ASSUME FollowInv, call.agent \in Writers, Touch
  PROVE  FollowInv'
  <1>1. /\ call.pc = "touch" /\ guard' = call.agent
        /\ session' = [b \in Writers |-> IF b = call.agent THEN Away ELSE [session[b] EXCEPT !.newer = TRUE]]
        /\ call' = [call EXCEPT !.pc = "complete"]
        /\ UNCHANGED <<setting, used, version, chvars, checkpoints>>
    BY DEF Touch, TouchGuard, wtvars
  <1> DEFINE T == [working : BOOLEAN, seen : 0 .. version, newer : BOOLEAN]
  <1>2. session \in [Writers -> T] /\ Away \in T
    BY DEF FollowInv, GuardsTypeOK, Away
  <1>3. \A x \in T : [x EXCEPT !.newer = TRUE] \in T
    OBVIOUS
  <1>4. session' \in [Writers -> T]
    <2> HIDE DEF T
    <2> QED BY <1>1, <1>2, <1>3
  <1>5. GuardsTypeOK'
    BY <1>1, <1>4 DEF GuardsTypeOK
  <1>6. call.todo = <<>> /\ call.agent \in Writers \cup {NoWriter}
    BY <1>1 DEF FollowInv
  <1>7. call' = [pc |-> "complete", agent |-> call.agent, todo |-> <<>>]
    BY <1>1, <1>6 DEF FollowInv, Callers
  <1>8. call' \in Callers /\ call'.pc = "complete" /\ call'.todo = <<>>
    BY <1>6, <1>7, CallersAre DEF CallPcs
  <1>9. CleanInv => CleanInv'
    BY <1>1, <1>6, <1>8 DEF CleanInv, chvars
  <1>10. used.crashes = 0
    BY <1>1 DEF FollowInv, CrashedInv
  <1> QED BY <1>1, <1>5, <1>6, <1>8, <1>9, <1>10 DEF FollowInv, chvars

LEMMA FollowComplete ==
  ASSUME FollowInv, CompleteCheckpoint
  PROVE  FollowInv'
  <1>1. /\ call.pc = "complete" /\ call' = NoCall
        /\ checkpoints' = {cp \in checkpoints : cp.agent # call.agent}
        /\ UNCHANGED <<setting, used, guvars, chvars>>
    BY DEF CompleteCheckpoint, wtvars
  <1>2. call.todo = <<>>
    BY <1>1 DEF FollowInv
  <1>3. call' = [pc |-> "idle", agent |-> NoWriter, todo |-> <<>>]
    BY <1>1 DEF NoCall
  <1>4. call' \in Callers /\ call'.pc = "idle" /\ call'.todo = <<>>
    BY <1>3, CallersAre DEF CallPcs
  <1>5. GuardsTypeOK'
    BY <1>1 DEF FollowInv, GuardsTypeOK, guvars
  <1>6. ASSUME used.crashes = 0 PROVE CleanInv'
    <2>1. checkpoints' = {}
      BY <1>1, <1>6 DEF FollowInv, CleanInv
    <2>2. Settled(branch, After(change, ToSet(<<>>)), lost)
      BY <1>2, <1>6 DEF FollowInv, CleanInv
    <2> QED BY <1>1, <1>4, <2>1, <2>2 DEF CleanInv, chvars
  <1>7. ASSUME used.crashes # 0 PROVE CrashedInv'
    BY <1>1, <1>4, <1>7 DEF FollowInv, CrashedInv, chvars
  <1>8. /\ version' \in Nat /\ used' \in [Bounds -> Nat]
        /\ branch' \subseteq Commit /\ lost' \subseteq ChangeIds /\ rewrites' \in 0 .. MaxRewrites
        /\ change' \in [ChangeIds -> Row] /\ RowsOf(change') /\ FewRows(change')
    BY <1>1 DEF FollowInv, guvars, chvars
  <1>9. \A cp \in checkpoints' : cp \in Checkpoint /\ Kept(cp.before, change', cp.lost)
    BY <1>1 DEF FollowInv, chvars
  <1>10. AllFit(change', <<>>)
    BY <1>1, <1>2 DEF FollowInv, chvars
  <1> QED BY <1>1, <1>4, <1>5, <1>6, <1>7, <1>8, <1>9, <1>10 DEF FollowInv

LEMMA FollowRecover ==
  ASSUME FollowInv, NEW cp \in checkpoints, RecoverCheckpoint(cp)
  PROVE  FollowInv'
  <1>1. /\ call.pc = "idle" /\ branch' = cp.before /\ lost' = cp.lost
        /\ call' = [NoCall EXCEPT !.pc = "complete", !.agent = cp.agent]
        /\ UNCHANGED <<setting, used, guvars, change, rewrites, checkpoints>>
    BY DEF RecoverCheckpoint, Ready, wtvars
  <1>2. used.crashes # 0
    BY <1>1 DEF FollowInv, CleanInv
  <1>3. cp \in Checkpoint /\ Kept(cp.before, change, cp.lost)
    BY DEF FollowInv
  <1>4. cp.agent \in Writers \cup {NoWriter} /\ cp.before \subseteq Commit /\ cp.lost \subseteq ChangeIds
    BY <1>3 DEF Checkpoint
  <1>5. call' = [pc |-> "complete", agent |-> cp.agent, todo |-> <<>>] /\ call.todo = <<>>
    BY <1>1 DEF NoCall, FollowInv
  <1>6. call' \in Callers /\ call'.pc = "complete" /\ call'.todo = <<>>
    BY <1>4, <1>5, CallersAre DEF CallPcs
  <1>7. GuardsTypeOK'
    BY <1>1 DEF FollowInv, GuardsTypeOK, guvars
  <1>8. CrashedInv'
    BY <1>1, <1>3, <1>6 DEF CrashedInv
  <1>9. /\ version' \in Nat /\ used' \in [Bounds -> Nat] /\ used'.crashes # 0
        /\ rewrites' \in 0 .. MaxRewrites
        /\ change' \in [ChangeIds -> Row] /\ RowsOf(change') /\ FewRows(change')
    BY <1>1, <1>2 DEF FollowInv, guvars
  <1>10. branch' \subseteq Commit /\ lost' \subseteq ChangeIds
    BY <1>1, <1>4
  <1>11. \A c \in checkpoints' : c \in Checkpoint /\ Kept(c.before, change', c.lost)
    BY <1>1 DEF FollowInv
  <1>12. AllFit(change', <<>>)
    BY <1>1, <1>5 DEF FollowInv
  <1> QED BY <1>6, <1>7, <1>8, <1>9, <1>10, <1>11, <1>12 DEF FollowInv

\* The process dies: what was kept when the write began is still kept.
LEMMA FollowCrash ==
  ASSUME FollowInv, NEW p \in setting.procs, Crash(p)
  PROVE  FollowInv'
  <1>1. /\ MayUse("crashes") /\ call' = NoCall /\ session' = [a \in Writers |-> Away]
        /\ UNCHANGED <<setting, guard, version, chvars, checkpoints>>
    BY DEF Crash
  <1>2. used' \in [Bounds -> Nat] /\ used'.crashes = used.crashes + 1 /\ used.crashes \in Nat
    BY <1>1 DEF FollowInv, MayUse, Bounds
  <1>3. used'.crashes # 0
    BY <1>2
  <1>4. call' = [pc |-> "idle", agent |-> NoWriter, todo |-> <<>>]
    BY <1>1 DEF NoCall
  <1>5. call' \in Callers /\ call'.pc = "idle" /\ call'.todo = <<>>
    BY <1>4, CallersAre DEF CallPcs
  <1>6. GuardsTypeOK'
    BY <1>1 DEF FollowInv, GuardsTypeOK, Away
  <1>7. ASSUME setting.skipRecovery, checkpoints = {} PROVE Kept(branch, change, lost)
    <2>1. CASE used.crashes = 0
      <3>1. CleanInv /\ call.pc = "idle"
        BY <1>7, <2>1 DEF FollowInv, CleanInv
      <3>2. call.todo = <<>>
        BY <3>1 DEF FollowInv
      <3>3. Settled(branch, After(change, ToSet(<<>>)), lost)
        BY <3>1, <3>2 DEF CleanInv
      <3> QED BY <3>3, NothingLeft, SettledKept DEF FollowInv
    <2>2. CASE used.crashes # 0
      BY <1>7, <2>2 DEF FollowInv, CrashedInv
    <2> QED BY <2>1, <2>2
  <1>8. CrashedInv'
    BY <1>1, <1>5, <1>7 DEF CrashedInv, chvars
  <1>9. /\ version' \in Nat /\ branch' \subseteq Commit /\ lost' \subseteq ChangeIds /\ rewrites' \in 0 .. MaxRewrites
        /\ change' \in [ChangeIds -> Row] /\ RowsOf(change') /\ FewRows(change')
    BY <1>1 DEF FollowInv, chvars
  <1>10. \A cp \in checkpoints' : cp \in Checkpoint /\ Kept(cp.before, change', cp.lost)
    BY <1>1 DEF FollowInv, chvars
  <1>11. AllFit(change', <<>>)
    BY DEF AllFit
  <1> QED BY <1>2, <1>3, <1>5, <1>6, <1>8, <1>9, <1>10, <1>11 DEF FollowInv

\* A tracker that opens clears the checkpoints, unless it was told not to.
LEMMA FollowStartup ==
  ASSUME FollowInv, NEW p \in setting.procs, StartupRecovery(p)
  PROVE  FollowInv'
  <1>1. /\ checkpoints' = IF setting.skipRecovery THEN checkpoints ELSE {}
        /\ UNCHANGED <<setting, used, guvars, chvars, call>>
    BY DEF StartupRecovery, wtvars
  <1>2. GuardsTypeOK'
    BY <1>1 DEF FollowInv, GuardsTypeOK, guvars
  <1>3. CleanInv => CleanInv'
    BY <1>1 DEF CleanInv, chvars
  <1>4. CrashedInv => CrashedInv'
    BY <1>1 DEF CrashedInv, chvars
  <1>5. checkpoints' \subseteq checkpoints
    BY <1>1
  <1> QED BY <1>1, <1>2, <1>3, <1>4, <1>5 DEF FollowInv, guvars, chvars

LEMMA FollowStep == GuardInv /\ FollowInv /\ [Next]_vars => FollowInv'
  <1> SUFFICES ASSUME GuardInv, FollowInv, [Next]_vars PROVE FollowInv'
    OBVIOUS
  <1>0. used \in [Bounds -> Nat]
    BY DEF FollowInv
  <1>1. ASSUME NEW p \in setting.procs, Opening(p) \/ Rollback(p) \/ Close(p) PROVE FollowInv'
    <2>1. UNCHANGED <<setting, clvars>>
      BY <1>1 DEF Opening, Rollback, Close, wtvars
    <2>2. used' \in [Bounds -> Nat] /\ used'.crashes = used.crashes
      <3>1. CASE UNCHANGED used
        BY <1>0, <3>1
      <3>2. CASE MayUse("rollbacks")
        BY <1>0, <3>2, UsedElse DEF Bounds
      <3> QED BY <1>1, <3>1, <3>2 DEF Opening, Rollback, Close, wtvars
    <2> QED BY <2>1, <2>2, FollowQuiet
  <1>2. ASSUME NEW p \in setting.procs,
               WorktreeCall(p) \/ WorktreeStep(p) \/ SnapshotCall(p) \/ SnapshotStep(p)
        PROVE FollowInv'
    <2>1. UNCHANGED <<setting, clvars>>
      BY <1>2, WorktreesQuiet DEF WorktreeCall, WorktreeStep, SnapshotCall, SnapshotStep
    <2>2. used' \in [Bounds -> Nat] /\ used'.crashes = used.crashes
      BY <1>0, <1>2, QuietSteps DEF WorktreeCall, WorktreeStep, SnapshotCall, SnapshotStep
    <2> QED BY <2>1, <2>2, FollowQuiet
  <1>3. CASE Outside
    <2>1. UNCHANGED <<setting, clvars>>
      BY <1>3, WorktreesQuiet DEF Outside
    <2>2. used' \in [Bounds -> Nat] /\ used'.crashes = used.crashes
      BY <1>0, <1>3, QuietSteps DEF Outside
    <2> QED BY <2>1, <2>2, FollowQuiet
  <1>4. CASE UNCHANGED vars
    <2>1. UNCHANGED <<setting, clvars>> /\ used' = used
      BY <1>4 DEF vars, wtvars
    <2> QED BY <1>0, <2>1, FollowQuiet
  <1>5. CASE Write
    <2>1. Touch => call.agent \in Writers
      BY DEF Touch, GuardInv
    <2> QED BY <1>5, <2>1, FollowWriteGit, FollowWriteRow, FollowTouch, FollowComplete DEF Write
  <1>6. setting.writers \subseteq Writers
    BY DEF GuardInv
  <1>7. ASSUME NEW a \in setting.writers, Read(a) \/ Abandon(a) \/ Begin(a) PROVE FollowInv'
    BY <1>6, <1>7, FollowRead, FollowBegin
  <1> QED
    BY <1>1, <1>2, <1>3, <1>4, <1>5, <1>7, FollowStartup, FollowCrash, FollowRecover DEF Next

LEMMA FollowHolds == FollowInv => ChangesFollow
  <1> SUFFICES ASSUME FollowInv PROVE ChangesFollow
    OBVIOUS
  <1>1. StreamTypeOK
    <2>1. /\ GuardsTypeOK /\ branch \subseteq Commit /\ rewrites \in 0 .. MaxRewrites /\ lost \subseteq ChangeIds
          /\ \A cp \in checkpoints : cp \in Checkpoint
      BY DEF FollowInv
    <2>2. call.pc \in CallPcs /\ call.agent \in Writers \cup {NoWriter}
      BY DEF FollowInv, Callers
    <2>3. \A c \in ChangeIds : /\ change[c].status \in Statuses
                               /\ change[c].current \in Commit \cup {NoCommit}
                               /\ change[c].history \in Seq(Commit)
                               /\ change[c].into \in ChangeIds \cup {NoCommit}
      BY DEF FollowInv, Row
    <2> QED BY <2>1, <2>2, <2>3 DEF StreamTypeOK, ChangesTypeOK
  <1>2. RowsConsistent
    <2>1. \A c \in ChangeIds : RowOf(c, change[c])
      BY DEF FollowInv, RowsOf
    <2>2. \A c \in ChangeIds :
            /\ change[c].status = "active" => change[c].current = Head(change[c].history)
            /\ change[c].status \in {"squashed", "dropped"} => change[c].current = NoCommit
            /\ change[c].status = "squashed" <=> change[c].into # NoCommit
      BY <2>1 DEF RowOf
    <2>3. ASSUME NEW c \in ChangeIds, NEW d \in ChangeIds, c # d
          PROVE  ToSet(change[c].history) \cap ToSet(change[d].history) = {}
      BY <2>1, <2>3 DEF RowOf
    <2> QED BY <2>2, <2>3 DEF RowsConsistent, Active
  <1>3. ASSUME call.pc = "idle", used.crashes = 0 PROVE Settled(branch, change, lost)
    <2>1. call.todo = <<>> /\ CleanInv
      BY <1>3 DEF FollowInv
    <2>2. Settled(branch, After(change, ToSet(<<>>)), lost)
      BY <2>1 DEF CleanInv
    <2> QED BY <2>2, NothingLeft
  <1>4. ASSUME call.pc = "idle", checkpoints = {}, used.crashes = 0 \/ setting.skipRecovery
        PROVE  Kept(branch, change, lost)
    <2>1. CASE used.crashes = 0
      BY <1>3, <1>4, <2>1, SettledKept DEF FollowInv
    <2>2. CASE used.crashes # 0
      BY <1>4, <2>2 DEF FollowInv, CrashedInv
    <2> QED BY <2>1, <2>2
  <1>5. call.pc = "idle" /\ used.crashes = 0 => \A c \in ChangeIds : Active(c) /\ c \notin lost => Followed(c)
    BY <1>3 DEF Settled, Active, Followed
  <1>6. call.pc = "idle" /\ checkpoints = {} /\ (used.crashes = 0 \/ setting.skipRecovery) =>
          \A k \in branch : k.id \in lost \/ change[k.id].status = "merged" \/ Findable(k)
    BY <1>4 DEF Kept, Findable
  <1> QED BY <1>1, <1>2, <1>5, <1>6 DEF ChangesFollow

\* Changes follow their commits through any number of commits, rebases, amends,
\* squashes and splits, and a death in the middle of one loses no commit that
\* recoverCheckpoint can still bring back.
THEOREM ChangesAreFollowed == Spec => []ChangesFollow
  <1> QED BY GuardInit, GuardStep, FollowInit, FollowStep, FollowHolds, PTL DEF Spec

=============================================================================
