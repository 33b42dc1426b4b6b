---------------------------- MODULE OperationLog ----------------------------
(***************************************************************************)
(* The operation log of src/src/operations.ts, the calls that write it     *)
(* (tracker.commitChanges, recordOperation and the rollbacks of            *)
(* src/src/rollback.ts) and src/src/reconcile.ts, which compares the log   *)
(* with the branches and repairs either.                                   *)
(*                                                                         *)
(* The log and the branch of a stream are written one after the other: a   *)
(* call is a list of statements, one per git command or SQL write that     *)
(* changes something, and it may be cut short between any two.  A stream   *)
(* belongs to one agent, whose worktree has its branch checked out, and    *)
(* who calls ensureInSync before writing; a coordinator reconciles at any  *)
(* time.                                                                   *)
(*                                                                         *)
(* Commits are numbered as they are created; up[c] is the parent of c, and *)
(* commit 1 was there before.  The id of an operation is its place in ops. *)
(***************************************************************************)
EXTENDS Naturals, Sequences, FiniteSets, SequencesExt

CONSTANTS Streams, Procs, Settings

Setting == [streams : SUBSET Streams,
            local : SUBSET Streams,    \* streams in local mode
            procs : SUBSET Procs,
            outside : BOOLEAN,         \* branches also move without the log
            interleaved : BOOLEAN,     \* calls overlap
            commits : Nat,             \* bound: commits created
            log : Nat,                 \* bound: operations before the last call or deletion
            crashes : Nat]             \* bound: calls cut short

ASSUME OperationsAssumption == IsFiniteSet(Streams) /\ Settings \subseteq Setting

VARIABLES
  setting,
  up,        \* git: the parent of each commit
  head,      \* git: the head of each stream's branch, or Missing
  base,      \* streams.base_commit
  status,    \* streams.status
  changes,   \* commits that have a row in changes
  ops,       \* operations
  clock,     \* Date.now()
  call,      \* the call each process is in
  crashes

vars == <<setting, up, head, base, status, changes, ops, clock, call, crashes>>

Missing == 0
Commits == 1 .. Len(up)
NoOp == 0
NoCall == [todo |-> <<>>, commit |-> 1, before |-> 1, back |-> 0]

TypeOK ==
  /\ \A c \in DOMAIN up : up[c] \in 0 .. c - 1
  /\ head \in [Streams -> Commits \cup {Missing}]
  /\ base \in [Streams -> Commits]
  /\ status \in [Streams -> {"active", "conflicted"}]
  /\ changes \subseteq Commits
  /\ \A o \in DOMAIN ops :
       /\ ops[o].stream \in setting.streams
       /\ ops[o].type \in {"commit", "manual", "rollback", "reconcile"}
       /\ ops[o].before \in Commits /\ ops[o].after \in Commits
       /\ ops[o].parent \in 0 .. o - 1
       /\ ops[o].time <= clock
  /\ \A p \in Procs : call[p].commit \in Commits /\ call[p].before \in Commits
  /\ crashes \in 0 .. setting.crashes

Init ==
  /\ setting \in Settings
  /\ up = <<0>>
  /\ head = [s \in Streams |-> 1]
  /\ base = [s \in Streams |-> 1]
  /\ status = [s \in Streams |-> "active"]
  /\ changes = {}
  /\ ops = <<>>
  /\ clock = 0
  /\ call = [p \in Procs |-> NoCall]
  /\ crashes = 0

-----------------------------------------------------------------------------
(* Reading the log and the branch *)

OpsOf(s) == {o \in DOMAIN ops : ops[o].stream = s}

\* ORDER BY timestamp DESC LIMIT 1: among operations of one millisecond, any
LatestOperations(s) ==
  {o \in OpsOf(s) : \A q \in OpsOf(s) : ops[q].time <= ops[o].time}

ExpectedHeads(s) ==
  IF OpsOf(s) = {} THEN {base[s]} ELSE {ops[o].after : o \in LatestOperations(s)}

InSync(s) == head[s] \in ExpectedHeads(s)

-----------------------------------------------------------------------------
(* Calls *)

Idle(p) == call[p].todo = <<>>
Reconciling == {"read", "insert", "create"}

\* an agent is at work on s
Working(s) == \E p \in Procs : \E i \in DOMAIN call[p].todo :
                call[p].todo[i][2] = s /\ call[p].todo[i][1] \notin Reconciling

Free == setting.interleaved \/ \A p \in Procs : Idle(p)

Begin(p, record) ==
  /\ p \in setting.procs /\ Idle(p) /\ Free
  /\ call' = [call EXCEPT ![p] = record]
  /\ UNCHANGED <<setting, up, head, base, status, changes, ops, clock, crashes>>

Statements(s, names) == [i \in DOMAIN names |-> <<names[i], s>>]

LogLeft == Len(ops) < setting.log

\* ensureInSync, which the agent of s calls first
MayWrite(s) == s \in setting.streams /\ ~ Working(s) /\ InSync(s) /\ LogLeft

CommitLeft(n) == Len(up) + n <= setting.commits + 1

CommitChanges(p, s) ==
  /\ MayWrite(s) /\ CommitLeft(1)
  /\ status[s] # "conflicted"
  /\ Begin(p, [NoCall EXCEPT !.todo = Statements(s, <<"commit", "change", "record">>)])

\* the agent commits with git and logs it with recordOperation
CommitByHand(p, s) ==
  /\ MayWrite(s) /\ CommitLeft(1)
  /\ Begin(p, [NoCall EXCEPT !.todo = Statements(s, <<"commit", "log">>)])

BeginRollback(p, s, target, n) ==
  /\ MayWrite(s)
  /\ Begin(p, [todo |-> Statements(s, <<"reset", "log_rollback">>), commit |-> target,
               before |-> base[s], back |-> n])

\* a worktree with uncommitted changes is refused
RollbackToOperation(p, s, o) ==
  o \in OpsOf(s) /\ BeginRollback(p, s, ops[o].after, 0)

\* of each operation the one n steps up the first parents, NoOp if the history is shorter
Back[n \in 0 .. Len(ops)] ==
  [o \in 0 .. Len(ops) |-> IF n = 0 \/ o = NoOp THEN o ELSE Back[n - 1][ops[o].parent]]

\* mutant: one step too few
RollbackNLess1(p, s, n) ==
  \E o \in LatestOperations(s) :
    /\ Back[n - 1][o] # NoOp
    /\ BeginRollback(p, s, ops[Back[n - 1][o]].after, n)

RollbackN(p, s, n) ==
  \E o \in LatestOperations(s) :
    /\ Back[n][o] # NoOp
    /\ BeginRollback(p, s, ops[Back[n][o]].after, n)

RollbackToForkPoint(p, s) == BeginRollback(p, s, base[s], 0)

\* checkAllStreams for the streams S (streamIds, or all active ones), then the repairs
Reconcile(p, S, updateDatabase, createMissing) ==
  LET missing == {s \in S : head[s] = Missing}
      MayDiverge(s) == head[s] # Missing /\ ExpectedHeads(s) # {head[s]}
      MustDiverge(s) == head[s] # Missing /\ ~ InSync(s)
  IN \E diverged \in SUBSET {s \in S : MayDiverge(s)} :
       /\ {s \in S : MustDiverge(s)} \subseteq diverged
       /\ LET update == IF updateDatabase THEN SetToSeq(diverged) ELSE <<>>
              create == IF createMissing THEN SetToSeq(missing) ELSE <<>>
              todo == [i \in DOMAIN update |-> <<"read", update[i]>>]
                      \o [i \in DOMAIN create |-> <<"create", create[i]>>]
          IN todo # <<>> /\ Begin(p, [NoCall EXCEPT !.todo = todo])

-----------------------------------------------------------------------------
(* The statements.  A git command takes more than a millisecond. *)

Does(p, x, s) == ~ Idle(p) /\ Head(call[p].todo) = <<x, s>>

After(r, commit, before) ==
  IF Len(r.todo) = 1 THEN NoCall
  ELSE [todo |-> Tail(r.todo), commit |-> commit, before |-> before, back |-> r.back]

Done(p, commit, before) == call' = [call EXCEPT ![p] = After(call[p], commit, before)]
Proceed(p) == Done(p, call[p].commit, call[p].before)

\* the clock counts only as far as the log can tell
Later == IF \E o \in DOMAIN ops : ops[o].time = clock THEN clock + 1 ELSE clock
TimePasses == clock' = Later

Operation(s, type, before, after, parent, time) ==
  [stream |-> s, type |-> type, before |-> before, after |-> after, parent |-> parent,
   time |-> time]

RecordOperation(op) == ops' = Append(ops, op)

GitCommit(p, s) ==
  /\ Does(p, "commit", s)
  /\ up' = Append(up, head[s])
  /\ head' = [head EXCEPT ![s] = Len(up')]
  /\ Done(p, Len(up'), 1)
  /\ TimePasses
  /\ UNCHANGED <<setting, base, status, changes, ops, crashes>>

CreateChange(p, s) ==
  /\ Does(p, "change", s)
  /\ changes' = changes \cup {call[p].commit}
  /\ Proceed(p)
  /\ UNCHANGED <<setting, up, head, base, status, ops, clock, crashes>>

\* beforeState is HEAD~1 as it is by now
RecordCommit(p, s) ==
  /\ Does(p, "record", s)
  /\ RecordOperation(Operation(s, "commit", up[head[s]], call[p].commit, NoOp, Later))
  /\ TimePasses
  /\ Proceed(p)
  /\ UNCHANGED <<setting, up, head, base, status, changes, crashes>>

\* the caller links the operation to the latest one
RecordByHand(p, s) ==
  /\ Does(p, "log", s)
  /\ \E o \in IF OpsOf(s) = {} THEN {NoOp} ELSE LatestOperations(s) :
       RecordOperation(Operation(s, "manual", up[call[p].commit], call[p].commit, o, clock))
  /\ Proceed(p)
  /\ UNCHANGED <<setting, up, head, base, status, changes, clock, crashes>>

ResetHard(p, s) ==
  /\ Does(p, "reset", s)
  /\ head' = [head EXCEPT ![s] = call[p].commit]
  /\ TimePasses
  /\ Proceed(p)
  /\ UNCHANGED <<setting, up, base, status, changes, ops, crashes>>

\* mutant: logs where the stream was forked, not where it was reset to
RecordRollbackToBase(p, s) ==
  /\ Does(p, "log_rollback", s)
  /\ RecordOperation(Operation(s, "rollback", call[p].before, call[p].before, NoOp, clock))
  /\ Proceed(p)
  /\ UNCHANGED <<setting, up, head, base, status, changes, clock, crashes>>

\* beforeState is the base commit
RecordRollback(p, s) ==
  /\ Does(p, "log_rollback", s)
  /\ RecordOperation(Operation(s, "rollback", call[p].before, call[p].commit, NoOp, clock))
  /\ Proceed(p)
  /\ UNCHANGED <<setting, up, head, base, status, changes, clock, crashes>>

\* updateStreamFromGit: read both heads, to insert what they are; a branch gone by
\* now is only reported
ReadHeads(p, s) ==
  /\ Does(p, "read", s)
  /\ IF head[s] = Missing
     THEN Proceed(p)
     ELSE \E expected \in ExpectedHeads(s) :
            call' = [call EXCEPT ![p] = [todo |-> <<<<"insert", s>>>> \o Tail(@.todo),
                                         commit |-> head[s], before |-> expected, back |-> 0]]
  /\ TimePasses
  /\ UNCHANGED <<setting, up, head, base, status, changes, ops, crashes>>

\* mutant: only updated_at is written
RecordNothing(p, s) ==
  /\ Does(p, "insert", s)
  /\ Proceed(p)
  /\ UNCHANGED <<setting, up, head, base, status, changes, ops, clock, crashes>>

RecordReconcile(p, s) ==
  /\ Does(p, "insert", s)
  /\ RecordOperation(Operation(s, "reconcile", call[p].before, call[p].commit, NoOp, clock))
  /\ Proceed(p)
  /\ UNCHANGED <<setting, up, head, base, status, changes, clock, crashes>>

\* a failure is only reported
CreateStreamBranch(p, s) ==
  /\ Does(p, "create", s)
  /\ head' = IF s \in setting.local \/ head[s] # Missing THEN head
             ELSE [head EXCEPT ![s] = base[s]]
  /\ TimePasses
  /\ Proceed(p)
  /\ UNCHANGED <<setting, up, base, status, changes, ops, crashes>>

Crash(p) ==
  /\ ~ Idle(p) /\ crashes < setting.crashes
  /\ call' = [call EXCEPT ![p] = NoCall]
  /\ crashes' = crashes + 1
  /\ UNCHANGED <<setting, up, head, base, status, changes, ops, clock>>

-----------------------------------------------------------------------------
(* What moves a branch without the log *)

Outside(s) == setting.outside /\ s \in setting.streams /\ Free

\* git commit by hand, or mergeStream into s
OutsideCommit(s) ==
  /\ Outside(s) /\ head[s] # Missing /\ CommitLeft(1)
  /\ up' = Append(up, head[s])
  /\ head' = [head EXCEPT ![s] = Len(up')]
  /\ TimePasses
  /\ UNCHANGED <<setting, base, status, changes, ops, call, crashes>>

\* rebaseOntoStream onto a new commit of the parent; what s has becomes one commit
Rebase(s) ==
  /\ Outside(s) /\ ~ Working(s) /\ head[s] # Missing /\ status[s] # "conflicted"
  /\ LET onto == Len(up) + 1
         own == head[s] # base[s]
     IN /\ CommitLeft(IF own THEN 2 ELSE 1)
        /\ up' = up \o (IF own THEN <<1, onto>> ELSE <<1>>)
        /\ base' = [base EXCEPT ![s] = onto]
        /\ head' = [head EXCEPT ![s] = Len(up')]
  /\ TimePasses
  /\ UNCHANGED <<setting, status, changes, ops, call, crashes>>

DeleteBranch(s) ==
  /\ Outside(s) /\ ~ Working(s) /\ head[s] # Missing /\ LogLeft
  /\ head' = [head EXCEPT ![s] = Missing]
  /\ TimePasses
  /\ UNCHANGED <<setting, up, base, status, changes, ops, call, crashes>>

\* conflicts come and go: StreamConflicts
SetStatus(s) ==
  /\ Outside(s)
  /\ status' = [status EXCEPT ![s] = IF @ = "active" THEN "conflicted" ELSE "active"]
  /\ UNCHANGED <<setting, up, head, base, changes, ops, clock, call, crashes>>

-----------------------------------------------------------------------------

Step(p) ==
  \E s \in Streams :
    \/ GitCommit(p, s) \/ CreateChange(p, s) \/ RecordCommit(p, s) \/ RecordByHand(p, s)
    \/ ResetHard(p, s) \/ RecordRollback(p, s)
    \/ ReadHeads(p, s) \/ RecordReconcile(p, s) \/ CreateStreamBranch(p, s)

Active == {s \in setting.streams : status[s] = "active"}

Chosen == (SUBSET setting.streams) \cup {Active}

Next ==
  \/ \E p \in Procs :
       \/ Step(p) \/ Crash(p)
       \/ \E s \in Streams :
            \/ CommitChanges(p, s) \/ CommitByHand(p, s) \/ RollbackToForkPoint(p, s)
            \/ \E o \in DOMAIN ops : RollbackToOperation(p, s, o)
            \/ \E n \in 1 .. Len(ops) : RollbackN(p, s, n)
       \/ \E S \in Chosen, update, create \in BOOLEAN : Reconcile(p, S, update, create)
  \/ \E s \in Streams : OutsideCommit(s) \/ Rebase(s) \/ DeleteBranch(s) \/ SetStatus(s)

Spec == Init /\ [][Next]_vars

\* calls end, and a coordinator reconciles every stream over and over
Repair == \E p \in Procs : Reconcile(p, setting.streams, TRUE, TRUE)

FairSpec == Spec /\ (\A p \in Procs : WF_vars(Step(p))) /\ SF_vars(Repair)

-----------------------------------------------------------------------------
(* Properties *)

Orderly == ~ setting.interleaved

\* As long as branches move only through the calls that log what they do, and none is
\* cut short, the log gives the head of every branch between calls.
LogGivesHead ==
  (Orderly /\ ~ setting.outside /\ crashes = 0) =>
    \A s \in setting.streams : Working(s) \/ ExpectedHeads(s) = {head[s]}

\* The log of a stream has no gap: what a commit or a reconciliation starts from is what
\* the operation before it ended with, although branches also move without the log and
\* calls are cut short (rollbacks record the base commit instead).
NoGap ==
  Orderly =>
    \A o, q \in DOMAIN ops :
      (/\ o < q /\ ops[o].stream = ops[q].stream /\ ops[q].type # "rollback"
       /\ \A r \in o + 1 .. q - 1 : ops[r].stream # ops[o].stream)
      => ops[q].before = ops[o].after

\* of each commit the one n steps up (as many as there can be to roll back)
Ancestor[n \in 0 .. Len(ops)] ==
  [c \in Commits |-> IF n = 0 \/ c = 1 THEN c ELSE Ancestor[n - 1][up[c]]]

\* rollbackN takes exactly the last n commits off the branch, and no other commit.
RollbackCounts ==
  [][\A p \in Procs, s \in Streams :
       (Orderly /\ ResetHard(p, s) /\ call[p].back > 0)
         => head'[s] = Ancestor[call[p].back][head[s]]]_vars

\* An operation that names a change is recorded only when the change is there.
LoggedChangeExists ==
  \A o \in DOMAIN ops : ops[o].type = "commit" => ops[o].after \in changes

\* What the log says is there, and it says all.
LogInv == TypeOK /\ LogGivesHead /\ NoGap /\ LoggedChangeExists

\* However branch and log came apart (moves without the log, deleted branches, calls cut
\* short, reconciliations that overlap with commits), reconciling repairs it in the end,
\* unless the branch is deleted for ever; those of local-mode streams are not created.
Repaired ==
  \A s \in Streams : s \in setting.streams \ setting.local =>
    []<>InSync(s) \/ []<><<DeleteBranch(s)>>_head
=============================================================================
