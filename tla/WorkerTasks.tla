---------------------------- MODULE WorkerTasks ----------------------------
(***************************************************************************)
(* The worker-task model of git-cascade (src/src/worker-tasks.ts).         *)
(*                                                                         *)
(* Tasks are rows of the worker_tasks table, merges rows of task_merges.   *)
(* Several agents work for one integration stream: each starts a task on   *)
(* a worker branch of its own, commits there in its own git worktree, and  *)
(* completes the task by merging the worker branch into the stream branch. *)
(* A coordinator releases and abandons tasks, recovers stale ones and      *)
(* deletes old worker branches.                                            *)
(*                                                                         *)
(* No call of the API runs in a database transaction, so a call is a       *)
(* sequence of steps, one per SQL statement or git command that writes;    *)
(* proc[p].pc is the step process p takes next.  The reads a call does     *)
(* before its first write are taken together with that write.  With        *)
(* Interleaved = FALSE a call starts only when no other call is running,   *)
(* which is one process driving the library; with TRUE several processes   *)
(* share the database file and the repository.                             *)
(*                                                                         *)
(* A commit is represented by the set of work items reachable from it.     *)
(***************************************************************************)
EXTENDS Naturals, FiniteSets

CONSTANTS
  Tasks,        \* task ids
  Agents,       \* agents; each has one worktree
  Coordinator,  \* the process that runs the maintenance calls
  NoTask, NoAgent, NoBranch,   \* SQL NULLs
  Stream,       \* the stream's branch, as a worktree's HEAD
  Elsewhere,    \* any other branch, as a worktree's HEAD
  MaxStarts,    \* bound: worker branches created per task
  MaxWork,      \* bound: work items committed per task
  MaxCrashes,   \* bound: calls cut short by a crash or by a git error
  Interleaved,  \* whether calls of different processes overlap
  OwnTasksOnly  \* whether agents complete only the tasks assigned to them

Procs == Agents \cup {Coordinator}

\* worker/<agent>/<task>@<timestamp>: the k-th branch created for a task
Branches == Tasks \X (1 .. MaxStarts)

\* the n-th item of work an agent commits for a task
Work == Tasks \X (1 .. MaxWork)

ASSUME ConstantsAssumption ==
  /\ Coordinator \notin Agents
  /\ NoTask \notin Tasks
  /\ NoAgent \notin Agents
  /\ NoBranch \notin Branches
  /\ Stream \notin Branches
  /\ Elsewhere \notin Branches \cup {Stream}
  /\ MaxStarts \in Nat
  /\ MaxWork \in Nat
  /\ MaxCrashes \in Nat
  /\ Interleaved \in BOOLEAN
  /\ OwnTasksOnly \in BOOLEAN

VARIABLES
  task,      \* worker_tasks: the row of each task
  merges,    \* task_merges: the set of rows
  active,    \* streams.status = 'active'
  stream,    \* the work reachable from the stream branch
  refs,      \* the worker branches that exist in the repository
  tip,       \* the work reachable from each worker branch
  starts,    \* how many worker branches each task has had
  made,      \* every work item ever committed
  wt,        \* the worktree of each agent: its HEAD, and a merge in progress
  proc,      \* what each process is doing
  crashes

vars == <<task, merges, active, stream, refs, tip, starts, made, wt, proc, crashes>>
gitVars == <<stream, refs, tip, starts, made, wt>>

Statuses == {"none", "open", "in_progress", "completed", "abandoned"}

Pcs == {"idle", "start_checkout", "start_update", "merge", "merge_abort",
        "release_check", "release_update", "record", "complete_update",
        "abandon_delete", "abandon_update", "recover", "cleanup_select",
        "cleanup_delete", "cleanup_clear", "detect_restore"}

Call(pc, t, b, src, todo) == [pc |-> pc, task |-> t, branch |-> b, source |-> src, todo |-> todo]

Idle == Call("idle", NoTask, NoBranch, {}, {})

TaskRow == [status : Statuses, agent : Agents \cup {NoAgent}, branch : Branches \cup {NoBranch}]

MergeRow == [task : Tasks, branch : Branches, source : SUBSET Work, merge : SUBSET Work]

Worktree == [on : Branches \cup {Stream, Elsewhere}, merging : BOOLEAN]

\* the steps of startTask and completeTask, which know their task and branch
BranchPcs == {"start_checkout", "start_update", "merge", "merge_abort", "record",
              "complete_update"}

\* source: the commit completeTask resolved; todo: what a loop has left
Process == {r \in [pc     : Pcs,
                   task   : Tasks \cup {NoTask},
                   branch : Branches \cup {NoBranch, Stream, Elsewhere},
                   source : SUBSET Work,
                   todo   : SUBSET (Tasks \cup Branches)] :
              r.pc \in BranchPcs => r.task \in Tasks /\ r.branch \in Branches}

TypeOK ==
  /\ task \in [Tasks -> TaskRow]
  /\ merges \subseteq MergeRow
  /\ active \in BOOLEAN
  /\ stream \subseteq Work
  /\ refs \subseteq Branches
  /\ tip \in [Branches -> SUBSET Work]
  /\ starts \in [Tasks -> 0 .. MaxStarts]
  /\ made \subseteq Work
  /\ wt \in [Agents -> Worktree]
  /\ proc \in [Procs -> Process]
  /\ crashes \in 0 .. MaxCrashes

Init ==
  /\ task = [t \in Tasks |-> [status |-> "none", agent |-> NoAgent, branch |-> NoBranch]]
  /\ merges = {}
  /\ active = TRUE
  /\ stream = {}
  /\ refs = {}
  /\ tip = [b \in Branches |-> {}]
  /\ starts = [t \in Tasks |-> 0]
  /\ made = {}
  /\ wt = [a \in Agents |-> [on |-> Elsewhere, merging |-> FALSE]]
  /\ proc = [p \in Procs |-> Idle]
  /\ crashes = 0

-----------------------------------------------------------------------------
(* Scheduling *)

\* p may begin a call
Free(p) ==
  /\ proc[p].pc = "idle"
  /\ Interleaved \/ \A q \in Procs : proc[q].pc = "idle"

At(p, pc) == proc[p].pc = pc

Goto(p, pc) == proc' = [proc EXCEPT ![p].pc = pc]

Return(p) == proc' = [proc EXCEPT ![p] = Idle]

\* the stream's row is read and its status compared with 'active'
StreamActive == active

(* Git: a branch is checked out in at most one worktree *)

CheckedOut(b) == \E a \in Agents : wt[a].on = b

\* mutant: --ignore-other-worktrees
CheckoutAnywhere(a, ref) == ~ wt[a].merging /\ ref \in refs \cup {Stream, Elsewhere}

\* `git checkout ref` in a's worktree succeeds
CanCheckout(a, ref) ==
  /\ ~ wt[a].merging
  /\ ref \in refs \cup {Stream, Elsewhere}
  /\ ref # Elsewhere => \A o \in Agents \ {a} : wt[o].on # ref

\* `git branch -D b` succeeds
CanDelete(b) == b \in refs /\ ~ CheckedOut(b)

-----------------------------------------------------------------------------
(* createTask, startTask *)

CreateTask(t) ==
  /\ Free(Coordinator)
  /\ task[t].status = "none"
  /\ StreamActive
  /\ task' = [task EXCEPT ![t].status = "open"]
  /\ UNCHANGED <<merges, active, gitVars, proc, crashes>>

StartTask(p, t) ==
  LET b == <<t, starts[t] + 1>> IN
  /\ Free(p)
  /\ task[t].status = "open"
  /\ StreamActive
  /\ starts[t] < MaxStarts
  /\ starts' = [starts EXCEPT ![t] = @ + 1]
  /\ refs' = refs \cup {b}
  /\ tip' = [tip EXCEPT ![b] = stream]
  /\ proc' = [proc EXCEPT ![p] = Call("start_checkout", t, b, {}, {})]
  /\ UNCHANGED <<task, merges, active, stream, made, wt, crashes>>

StartCheckout(p) ==
  LET b == proc[p].branch IN
  /\ At(p, "start_checkout")
  /\ \/ /\ CanCheckout(p, b)
        /\ wt' = [wt EXCEPT ![p].on = b]
        /\ Goto(p, "start_update")
     \/ /\ ~ CanCheckout(p, b)          \* git throws: the new branch stays behind
        /\ Return(p)
        /\ UNCHANGED wt
  /\ UNCHANGED <<task, merges, active, stream, refs, tip, starts, made, crashes>>

StartUpdate(p) ==
  /\ At(p, "start_update")
  /\ task' = [task EXCEPT ![proc[p].task] =
                [status |-> "in_progress", agent |-> p, branch |-> proc[p].branch]]
  /\ Return(p)
  /\ UNCHANGED <<merges, active, gitVars, crashes>>

(* What the agent does in its worktree: commit, or give the worktree up. *)

Commit(p) ==
  LET b == wt[p].on IN
  /\ Free(p)
  /\ b \in refs
  /\ ~ wt[p].merging
  /\ \E n \in 1 .. MaxWork :
       /\ <<b[1], n>> \notin made
       /\ \A m \in 1 .. n - 1 : <<b[1], m>> \in made
       /\ made' = made \cup {<<b[1], n>>}
       /\ tip' = [tip EXCEPT ![b] = @ \cup {<<b[1], n>>}]
  /\ UNCHANGED <<task, merges, active, stream, refs, starts, wt, proc, crashes>>

LeaveWorktree(p) ==
  /\ Free(p)
  /\ wt[p].on # Elsewhere
  /\ wt' = [wt EXCEPT ![p] = [on |-> Elsewhere, merging |-> FALSE]]
  /\ UNCHANGED <<task, merges, active, stream, refs, tip, starts, made, proc, crashes>>

-----------------------------------------------------------------------------
(* completeTask *)

\* The checks and the checkout of the stream branch; a failed checkout throws
\* before anything changed.  The code does not compare the caller with agent_id.
CompleteTask(p, t) ==
  LET b == task[t].branch IN
  /\ Free(p)
  /\ task[t].status = "in_progress"
  /\ OwnTasksOnly => task[t].agent = p
  /\ b \in refs                    \* not NULL, and resolveRef finds it
  /\ StreamActive
  /\ CanCheckout(p, Stream)
  /\ wt' = [wt EXCEPT ![p].on = Stream]
  /\ proc' = [proc EXCEPT ![p] = Call("merge", t, b, tip[b], {})]
  /\ UNCHANGED <<task, merges, active, stream, refs, tip, starts, made, crashes>>

\* mutant: --no-commit, the stream branch does not move
MergeNotCommitted(p) ==
  /\ At(p, "merge")
  /\ Goto(p, "record")
  /\ UNCHANGED <<task, merges, active, gitVars, crashes>>

\* mutant: the status is updated but the merge never recorded
MergeUnrecorded(p) ==
  LET b == proc[p].branch IN
  /\ At(p, "merge")
  /\ b \in refs
  /\ stream' = stream \cup tip[b]
  /\ Goto(p, "complete_update")
  /\ UNCHANGED <<task, merges, active, refs, tip, starts, made, wt, crashes>>

Merge(p) ==
  LET b == proc[p].branch IN
  /\ At(p, "merge")
  /\ b \in refs
  /\ stream' = stream \cup tip[b]
  /\ Goto(p, "record")
  /\ UNCHANGED <<task, merges, active, refs, tip, starts, made, wt, crashes>>

\* Conflicts need work on both sides.
MergeConflicts(p) ==
  LET b == proc[p].branch IN
  /\ At(p, "merge")
  /\ b \in refs
  /\ ~ (tip[b] \subseteq stream) /\ ~ (stream \subseteq tip[b])
  /\ wt' = [wt EXCEPT ![p].merging = TRUE]
  /\ Goto(p, "merge_abort")
  /\ UNCHANGED <<task, merges, active, stream, refs, tip, starts, made, crashes>>

\* The branch was deleted meanwhile: a non-conflict error is thrown again.
MergeThrows(p) ==
  /\ At(p, "merge")
  /\ proc[p].branch \notin refs
  /\ Return(p)
  /\ UNCHANGED <<task, merges, active, gitVars, crashes>>

\* mutant: no exception after the abort
MergeAbortThenRecord(p) ==
  /\ At(p, "merge_abort")
  /\ wt' = [wt EXCEPT ![p].merging = FALSE]
  /\ Goto(p, "record")
  /\ UNCHANGED <<task, merges, active, stream, refs, tip, starts, made, crashes>>

MergeAbort(p) ==
  /\ At(p, "merge_abort")
  /\ wt' = [wt EXCEPT ![p].merging = FALSE]
  /\ Goto(p, "release_check")
  /\ UNCHANGED <<task, merges, active, stream, refs, tip, starts, made, crashes>>

\* The merge commit is the HEAD of p's worktree, which holds the stream branch.
RecordTaskMerge(p) ==
  /\ At(p, "record")
  /\ merges' = merges \cup {[task |-> proc[p].task, branch |-> proc[p].branch,
                             source |-> proc[p].source, merge |-> stream]}
  /\ Goto(p, "complete_update")
  /\ UNCHANGED <<task, active, gitVars, crashes>>

CompleteUpdate(p) ==
  /\ At(p, "complete_update")
  /\ task' = [task EXCEPT ![proc[p].task].status = "completed"]
  /\ Return(p)
  /\ UNCHANGED <<merges, active, gitVars, crashes>>

-----------------------------------------------------------------------------
(* releaseTask, abandonTask *)

ReleasableEver(t) == task[t].status # "none"     \* mutant: no status check
Releasable(t) == task[t].status \in {"open", "in_progress"}

ReleaseTask(t) ==
  /\ Free(Coordinator)
  /\ Releasable(t)
  /\ proc' = [proc EXCEPT ![Coordinator] = Call("release_update", t, NoBranch, {}, {})]
  /\ UNCHANGED <<task, merges, active, gitVars, crashes>>

\* releaseTask as completeTask calls it after a conflict
ReleaseCheck(p) ==
  /\ At(p, "release_check")
  /\ IF Releasable(proc[p].task) THEN Goto(p, "release_update") ELSE Return(p)
  /\ UNCHANGED <<task, merges, active, gitVars, crashes>>

ReopenedUnknown(row) == [row EXCEPT !.status = "pending", !.agent = NoAgent]  \* mutant: no such status
UnassignedOnly(row) == [row EXCEPT !.agent = NoAgent]                         \* mutant: status kept
\* the row keeps its branch_name
Reopened(row) == [row EXCEPT !.status = "open", !.agent = NoAgent]

ReleaseUpdate(p) ==
  /\ At(p, "release_update")
  /\ task' = [task EXCEPT ![proc[p].task] = Reopened(@)]
  /\ Return(p)
  /\ UNCHANGED <<merges, active, gitVars, crashes>>

AbandonTask(t, deleteBranch) ==
  LET b == task[t].branch IN
  /\ Free(Coordinator)
  /\ task[t].status \notin {"none", "completed"}
  /\ proc' = [proc EXCEPT ![Coordinator] =
                Call(IF deleteBranch /\ b # NoBranch THEN "abandon_delete" ELSE "abandon_update",
                     t, b, {}, {})]
  /\ UNCHANGED <<task, merges, active, gitVars, crashes>>

\* an error of `git branch -D` is ignored
AbandonDelete(p) ==
  /\ At(p, "abandon_delete")
  /\ refs' = refs \ {b \in {proc[p].branch} : CanDelete(b)}
  /\ Goto(p, "abandon_update")
  /\ UNCHANGED <<task, merges, active, stream, tip, starts, made, wt, crashes>>

AbandonUpdate(p) ==
  /\ At(p, "abandon_update")
  /\ task' = [task EXCEPT ![proc[p].task].status = "abandoned"]
  /\ Return(p)
  /\ UNCHANGED <<merges, active, gitVars, crashes>>

-----------------------------------------------------------------------------
(* recoverStaleTasks: a SELECT, then an UPDATE per row it returned.  How    *)
(* long ago a task was started is left open: S is any set of tasks in       *)
(* progress.                                                                *)

RecoverStaleTasks(S) ==
  /\ Free(Coordinator)
  /\ S # {}
  /\ \A t \in S : task[t].status = "in_progress"
  /\ proc' = [proc EXCEPT ![Coordinator] = Call("recover", NoTask, NoBranch, {}, S)]
  /\ UNCHANGED <<task, merges, active, gitVars, crashes>>

\* One element of a loop over todo is done.
Continue(p, pc, x) ==
  IF proc[p].todo = {x} THEN Return(p)
  ELSE proc' = [proc EXCEPT ![p] = Call(pc, NoTask, NoBranch, {}, proc[p].todo \ {x})]

RecoverUpdate(p, t) ==
  /\ At(p, "recover")
  /\ t \in proc[p].todo
  /\ task' = [task EXCEPT ![t] = Reopened(@)]
  /\ Continue(p, "recover", t)
  /\ UNCHANGED <<merges, active, gitVars, crashes>>

(* cleanupWorkerBranches: the branches are listed once, then each is looked *)
(* up, deleted and cleared from its row.                                    *)

CleanupWorkerBranches ==
  /\ Free(Coordinator)
  /\ refs # {}
  /\ proc' = [proc EXCEPT ![Coordinator] = Call("cleanup_select", NoTask, NoBranch, {}, refs)]
  /\ UNCHANGED <<task, merges, active, gitVars, crashes>>

\* the rows `WHERE branch_name = b` finds
RowsOf(b) == {t \in Tasks : task[t].branch = b}

\* orphanedOnly, or a task completed less than olderThanMs ago: no deletion
CleanupSelect(p, b) ==
  /\ At(p, "cleanup_select")
  /\ b \in proc[p].todo
  /\ \/ /\ RowsOf(b) = {}
        /\ proc' = [proc EXCEPT ![p] = Call("cleanup_delete", NoTask, b, {}, @.todo)]
     \/ \E t \in RowsOf(b) :
          /\ task[t].status \in {"completed", "abandoned"}
          /\ proc' = [proc EXCEPT ![p] = Call("cleanup_delete", t, b, {}, @.todo)]
     \/ /\ RowsOf(b) # {}
        /\ Continue(p, "cleanup_select", b)
  /\ UNCHANGED <<task, merges, active, gitVars, crashes>>

CleanupDelete(p) ==
  LET b == proc[p].branch IN
  /\ At(p, "cleanup_delete")
  /\ refs' = refs \ {c \in {b} : CanDelete(c)}
  /\ IF CanDelete(b) /\ proc[p].task # NoTask
     THEN Goto(p, "cleanup_clear") ELSE Continue(p, "cleanup_select", b)
  /\ UNCHANGED <<task, merges, active, stream, tip, starts, made, wt, crashes>>

CleanupClear(p) ==
  /\ At(p, "cleanup_clear")
  /\ task' = [task EXCEPT ![proc[p].task].branch = NoBranch]
  /\ Continue(p, "cleanup_select", proc[p].branch)
  /\ UNCHANGED <<merges, active, gitVars, crashes>>

-----------------------------------------------------------------------------
(* detectTaskConflicts: a trial merge in the agent's worktree *)

DetectTaskConflicts(p, t) ==
  LET b == task[t].branch IN
  /\ Free(p)
  /\ b # NoBranch
  /\ CanCheckout(p, Stream)
  /\ wt' = [wt EXCEPT ![p] = [on |-> Stream,
                              merging |-> b \in refs /\ ~ (tip[b] \subseteq stream)]]
  /\ proc' = [proc EXCEPT ![p] = Call("detect_restore", NoTask, wt[p].on, {}, {})]
  /\ UNCHANGED <<task, merges, active, stream, refs, tip, starts, made, crashes>>

\* `git merge --abort`, then back to the branch the worktree was on if it can
DetectRestore(p) ==
  LET back == proc[p].branch
      ok == /\ back \in refs \cup {Stream, Elsewhere}
            /\ back # Elsewhere => \A o \in Agents \ {p} : wt[o].on # back
  IN
  /\ At(p, "detect_restore")
  /\ wt' = [wt EXCEPT ![p] = [on |-> IF ok THEN back ELSE Stream, merging |-> FALSE]]
  /\ Return(p)
  /\ UNCHANGED <<task, merges, active, stream, refs, tip, starts, made, crashes>>

-----------------------------------------------------------------------------
(* The stream is paused, resumed, or changes status otherwise. *)
SetStreamStatus ==
  /\ Free(Coordinator)
  /\ active' = ~ active
  /\ UNCHANGED <<task, merges, gitVars, proc, crashes>>

\* A call ends between two of its steps: the process dies, or git or SQLite
\* throws.  The database, the refs and the worktrees stay as they are.
Crash(p) ==
  /\ ~ At(p, "idle")
  /\ crashes < MaxCrashes
  /\ crashes' = crashes + 1
  /\ Return(p)
  /\ UNCHANGED <<task, merges, active, gitVars>>

\* the steps a running call takes
Step(p) ==
  \/ p \in Agents /\ (StartCheckout(p) \/ StartUpdate(p))
  \/ p \in Agents /\ (Merge(p) \/ MergeConflicts(p) \/ MergeThrows(p) \/ MergeAbort(p))
  \/ p \in Agents /\ (RecordTaskMerge(p) \/ CompleteUpdate(p) \/ DetectRestore(p))
  \/ ReleaseCheck(p) \/ ReleaseUpdate(p) \/ AbandonDelete(p) \/ AbandonUpdate(p)
  \/ \E t \in Tasks : RecoverUpdate(p, t)
  \/ \E b \in Branches : CleanupSelect(p, b)
  \/ CleanupDelete(p) \/ CleanupClear(p)

AgentNext(p) ==
  \/ \E t \in Tasks : StartTask(p, t) \/ CompleteTask(p, t) \/ DetectTaskConflicts(p, t)
  \/ Commit(p) \/ LeaveWorktree(p)

CoordinatorNext ==
  \/ \E t \in Tasks : CreateTask(t) \/ ReleaseTask(t)
  \/ \E t \in Tasks, d \in BOOLEAN : AbandonTask(t, d)
  \/ \E S \in SUBSET Tasks : RecoverStaleTasks(S)
  \/ CleanupWorkerBranches
  \/ SetStreamStatus

Next ==
  \/ \E p \in Procs : Step(p) \/ Crash(p)
  \/ \E p \in Agents : AgentNext(p)
  \/ CoordinatorNext

Spec == Init /\ [][Next]_vars

(* A call that runs comes to its end, and stale tasks are looked for again   *)
(* and again (recovery.startupRecovery runs whenever a tracker is opened).   *)
FairSpec ==
  /\ Spec
  /\ \A p \in Procs : WF_vars(Step(p))
  /\ SF_vars(RecoverStaleTasks({t \in Tasks : task[t].status = "in_progress"}))

-----------------------------------------------------------------------------
(* Safety under every interleaving, with crashes *)

\* A merge record names commits that exist: the recorded source is part of the
\* recorded merge commit, and the merge commit is part of the stream's history
\* (completeTask resolves the source long before it merges and records).
MergeRecordsBacked ==
  \A r \in merges : r.source \subseteq r.merge /\ r.merge \subseteq stream

\* A task is marked completed only after its merge was recorded, whatever is
\* interleaved with completeTask and wherever it is cut short.
CompletedHasMerge ==
  \A t \in Tasks : task[t].status = "completed" => \E r \in merges : r.task = t

\* No two completeTask calls are between the checkout of the stream branch and
\* the merge record: git's one-worktree-per-branch rule is the only lock there is.
Merging(p) == proc[p].pc \in {"merge", "merge_abort", "record"}
MergesSerialized == \A p, q \in Procs : Merging(p) /\ Merging(q) => p = q

(* Safety of calls that do not overlap *)

\* What the branch a completed task names holds is in the stream, also when an
\* earlier completeTask of it was cut short or the task changed hands.
CompletedWorkMerged ==
  \A t \in Tasks :
    task[t].status = "completed" /\ task[t].branch # NoBranch =>
      tip[task[t].branch] \subseteq stream

\* The branch a live task names is there: neither abandoning another task nor
\* cleaning up takes it away, as long as no call was cut short.
LiveBranchExists == crashes = 0 =>
  \A t \in Tasks :
    task[t].status \in {"open", "in_progress"} /\ task[t].branch # NoBranch
      => task[t].branch \in refs \/ \E p \in Procs : At(p, "abandon_update")

\* The branch a row names is kept: it exists while the task is not over, and is in the
\* stream once the task is completed.  A task that is released and started again names
\* its new branch: the earlier one is then an orphan, which cleanup may delete with its work,
\* although releaseTask "Keeps the branch name so work isn't lost".
BranchKept == CompletedWorkMerged /\ LiveBranchExists

\* Calls that do not overlap keep the promised life cycle, crashes included:
\* a completed or abandoned task never changes status again, and no task is
\* completed that was not in progress and recorded as merged.
Lifecycle ==
  INSTANCE TaskLifecycle WITH status   <- [t \in Tasks |-> task[t].status],
                              recorded <- {r.task : r \in merges}

LifecycleKept == Lifecycle!Spec

(* The inductive invariant behind the first three: what a call in progress *)
(* still relies on.                                                         *)

Started(b) == b[2] <= starts[b[1]]

\* branch names are never used twice
StartedBranches ==
  /\ \A b \in refs : Started(b)
  /\ \A p \in Procs : proc[p].pc \in BranchPcs => Started(proc[p].branch)

\* the source completeTask resolved is still on the branch, then in the stream
SourceKept ==
  \A p \in Procs :
    /\ At(p, "merge") => proc[p].source \subseteq tip[proc[p].branch]
    /\ At(p, "record") => proc[p].source \subseteq stream

RecordedFirst ==
  \A p \in Procs : At(p, "complete_update") => \E r \in merges : r.task = proc[p].task

\* who merges holds the stream branch in its worktree
HoldsStream ==
  \A p \in Procs :
    Merging(p) \/ At(p, "detect_restore") => p \in Agents /\ wt[p].on = Stream

OneHolder ==
  \A a, b \in Agents : wt[a].on = Stream /\ wt[b].on = Stream => a = b

IInv ==
  /\ TypeOK /\ StartedBranches /\ SourceKept /\ RecordedFirst /\ HoldsStream /\ OneHolder
  /\ MergeRecordsBacked /\ CompletedHasMerge

(* Liveness *)

\* A task whose agent died does not stay in progress for ever.
StuckTaskRecovered ==
  \A t \in Tasks : task[t].status = "in_progress" ~> task[t].status # "in_progress"

=============================================================================
