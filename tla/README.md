# git-cascade in TLA+

git-cascade coordinates agents that work on one git repository: it keeps *streams* (branches
with a database row), worker tasks, dependencies between streams, a merge queue, stacks of
commits under review and a log of operations in SQLite, and it runs git commands in the agents'
worktrees. Nothing ties a database write to a git command, and several processes may open the
same database and repository. This directory models the parts where that is hard, checks them
with TLC and proves the main results about eight of them with TLAPS.

Paths such as `src/streams.ts` are relative to the repository.

1. [The system](#1-the-system)
2. [The models](#2-the-models)
3. [The runs](#3-the-runs)
4. [Fairness](#4-fairness)
5. [The proofs](#5-the-proofs)
6. [What the models showed](#6-what-the-models-showed)
7. [What is not modelled](#7-what-is-not-modelled)
8. [Plan](#8-plan)

## 1. The system

All components are functions over one SQLite connection and the path of a repository;
`tracker.ts` is a facade over them. Calls are synchronous (better-sqlite3, `execSync` of git), so
within one Node process they do not overlap, except where `rebaseOntoStreamAsync` awaits a
conflict handler. Processes that share the database do overlap, statement by statement: few
calls use a transaction, and none can have one around a git command.

| Component | State | Operations | Works with | Hard because |
|---|---|---|---|---|
| Worker tasks `worker-tasks.ts` | `worker_tasks`, `task_merges`; branch `worker/...` per start | create, start, complete (merge `--no-ff`), abandon, release, recover stale, clean up branches | streams, git worktrees, recovery | git merge, merge record and status are separate writes by several agents; crashes; stale tasks |
| Dependencies `dependencies.ts` | `stream_dependencies` | add, add fork/merge, remove, closures, topological sort | streams, cascade | graph search by separate SELECTs; no transaction around check and write |
| Cascade `cascade.ts` | none of its own | `cascadeRebase`, `resumeCascade` | dependencies, streams | one failure of many; what is reported must be true of branches |
| Streams, rebase and conflicts `streams.ts`, `conflicts.ts` | `streams` (status, base commit, conflict id), `conflicts`; rebases in progress in worktrees | rebase with seven conflict modes, continue, abort, clear, pause, resume, recover orphans | cascade, recovery | handlers that are awaited, time out, die; three places that say what a conflict's state is |
| Stream lifecycle and gc `streams.ts`, `gc.ts` | `streams`, `archived_streams`, branches | create, fork, fork from checkpoint, track, abandon (with descendants), archive, prune, gc | every table that refers to a stream (foreign keys) | half-done calls; one failure of several |
| Merge queue `merge-queue.ts`, `mergeStream` | `merge_queue`; the target branch and the worktree that has it | add, ready, cancel, remove, process, process next | streams | order, outcomes, failed merges, several workers |
| Diff stacks `diff-stacks.ts`, `checkpoints.ts` | `diff_stacks`, `diff_stack_entries`, `checkpoints` | review, enqueue, reorder, content, cherry-pick | the target branch | positions shifted and compacted by statement lists; picks that stop half-way |
| Review stacks `stacks.ts` | `review_blocks`, `stack_entries` | create, split, merge, add, review, rebuild after a rebase | streams | identity of commits over rebases; positions read before they are used |
| Operation log and rollback `operations.ts`, `rollback.ts`, `tracker.commitChanges` | `operations`, branch heads | record, commit, roll back to an operation / by n / to the fork point | changes, reconciliation | the branch moves before the log; order by millisecond |
| Reconciliation `reconcile.ts` | none of its own | check, reconcile, ensure in sync | operations, branches | overlaps with agents' writes |
| Guards `guards.ts` | `stream_guards` | validate, touch, clear | streams | check, write and touch are three calls; a clock that is compared |
| Snapshots `snapshots.ts` | `wc_snapshots`; the stash list all worktrees share | snapshot, restore, prune | worktrees | the entry just pushed is found as the latest one |
| Changes `changes.ts` | `changes` | create, rewrite, squash, split, merge, drop, rebuild after a rebase | operations, review stacks | identity of commits over rewrites, row by row after git |
| Recovery `recovery.ts` | `operation_checkpoints`, `stream_locks` | checkpoint, complete, recover, health check, startup recovery | tasks, conflicts, the tracker | what a death left behind; runs while others work |
| Worktrees `worktrees.ts` | `agent_worktrees`; git's worktrees and the directories | create, switch, deallocate; a provider for cascades | streams, cascade, gc | row, git and disk are three places; removals fail; one worktree per branch |
| Database and migrations `db/` | the schema, `git_cascade_migrations` | create or open, migrate, roll back | every component | no transaction; two trackers open at once; deaths between statements |
| Tracker `tracker.ts` | an open database | constructor, close, `commitChanges` | all | startup recovery; the rest delegates |
| RPC, events, git commands | | | | parameter checks, notifications, `execSync` |

What makes each component correct:

* **Worker tasks.** A completed task has been merged and recorded; a record names commits that
  exist; completed and abandoned are final; a task whose agent died becomes available again.
* **Dependencies.** The graph has no cycle, a refused dependency would have made one, a sort
  puts a stream after everything it depends on.
* **Cascade.** A stream reported as done holds the new commits; nothing that depends on a failed
  stream is rebased.
* **Conflicts.** `base_commit` is what git says; status, conflict id and record agree; an
  abandoned resolution is noticed.
* **Merge queue.** What is recorded as merged is in the target, in order of priority, once;
  every ready entry is decided.
* **Diff stacks.** Positions are an order; a merged stack is on the target and stays merged.
* **Review stacks.** Each commit is in one block at one place; rebuild, split and merge lose
  nothing; what is merged stays.
* **Lifecycle.** A row has its branch and a branch its record; only ended streams are archived;
  gc gets rid of what has ended.
* **Guards.** Who passes the validation has seen the latest write.
* **Changes.** An active change is found at its commit, whatever was rewritten, and a commit at its
  change.
* **Snapshots, worktrees.** A snapshot gives back what was taken; a row names the worktree git has;
  temporary worktrees go; the id and the path of a dead agent can be used again.
* **Database.** A tracker that has opened has the whole schema, and it opens in the end.
* **Operation log.** The log gives the head of the branch, without gaps; rollbacks land where
  they should; what came apart is repaired.

The documents set the limits of what callers do. `docs/design.md:814–824` ("What We Explicitly
Don't Support") excludes several agents that write to one stream at the same time, and sections
6.2, 6.3 and 10.8 leave the serialization of work on a stream to a coordinator;
`docs/OVERVIEW.md:5` promises concurrency between agents on different streams. Where a property
needs such a contract it is an explicit guard or condition in the module, named below.

## 2. The models

| Module | Models | Checked through |
|---|---|---|
| `WorkerTasks` | `worker-tasks.ts`, step by step, several agents and a coordinator | `MCWorkerTasks` |
| `TaskLifecycle` | what a task's life cycle is promised to be; `WorkerTasks` implements it | `MCWorkerTasks` |
| `WorkerTasksProofs` | theorems about `WorkerTasks` and `MergeQueue` | TLAPS |
| `Dependencies` | `dependencies.ts`, each SELECT of the search a step | `MCCascade` |
| `DependencyGraph` | the abstract graph, one step per call; `Dependencies` implements it | `MCCascade` |
| `TopologicalSort` | Kahn's algorithm as a recursive function | `MCCascade` |
| `Cascade` | `cascade.ts` on top of `Dependencies`, one step per stream of the walk | `MCCascade` |
| `CascadeProofs` | theorems about `DependencyGraph`, `Dependencies` and `Cascade` | TLAPS |
| `StreamConflicts` | rebases and conflicts of `streams.ts` over `conflicts.ts` | `MCStreamConflicts` |
| `StreamConflictsProofs` | theorems about `StreamConflicts` | TLAPS |
| `MergeQueue` | `merge-queue.ts` with `mergeStream` | `MCMergeQueue` |
| `DiffStacks` | `diff-stacks.ts` and the checkpoints it needs | `MCDiffStacks` |
| `DiffStacksProofs` | theorems about `DiffStacks` | TLAPS |
| `ReviewStacks` | `stacks.ts` | `MCReviewStacks` |
| `ReviewStacksProofs` | theorems about `ReviewStacks` | TLAPS |
| `StreamLifecycle` | creation, end, archive and gc of streams | `MCStreamLifecycle` |
| `StreamLifecycleProofs` | theorems about `StreamLifecycle` | TLAPS |
| `OperationLog` | `operations.ts`, `rollback.ts`, `reconcile.ts`, `commitChanges` | `MCOperationLog` |
| `OperationLogProofs` | theorems about `OperationLog` | TLAPS |
| `Startup` | `db/database.ts`, `db/migrations.ts`, statement by statement | `MCSessions` |
| `Worktrees` (on `Startup`) | `worktrees.ts` over git's worktrees and the directories | `MCSessions` |
| `Snapshots` (on `Worktrees`) | `snapshots.ts` over the shared stash list | `MCSessions` |
| `Guards` | `guards.ts` for one stream | `MCSessions` |
| `Changes` | `changes.ts` over the rewrites of a branch | `MCSessions` |
| `Sessions` | the processes: trackers that open and close, recover, die; writes with validation, checkpoint, git, rows and touch. Composes the five modules above | `MCSessions` |
| `SessionsProofs` | theorems about `Sessions` | TLAPS |

### Conventions

* **A call is a list of statements.** Except where a call is atomic in the code, a process keeps
  what it still has to do (`call[p].todo`, or a program counter in `WorkerTasks` and
  `Dependencies`), one element per SQL write or git command. Reads up to the first write are part
  of the step that begins the call: a later read is a step of its own when its age matters.
* **`Crash(p)`** drops the rest of a call. It stands for the death of the process and for an
  exception from git or SQLite, which nothing in these calls rolls back.
* **`setting`** is a variable that never changes. A run explores a small set of settings, each a
  record with its own bounds and with the kind of environment it has (do calls overlap, do
  processes die, ...). A property that holds only in some of them says so in its premise
  (`~ setting.interleaved => ...`), so that one reads in the property itself where it is claimed.
  `WorkerTasks` has constants (`Interleaved`, `OwnTasksOnly`) for this instead, because its
  theorems are about all their values.
* **Commits are what properties tell apart**: a set of reachable work (`WorkerTasks`), a version
  number (`StreamConflicts`), a pair of patch and rebase (`ReviewStacks`), a node of the parent
  tree (`OperationLog`).
* **Mutants.** A definition under a comment `\* mutant:` is what a plausible bug would make of
  the definition next to it. No specification uses it; put in place of the definition it breaks
  the property it was made for.

### WorkerTasks

One stream, agents with a worktree and process each, and a coordinator for the maintenance calls.
`task` is the table, `merges` the table of merge records, `refs`/`tip` the worker branches,
`stream` the stream branch as the set of work reachable from it, `wt` each worktree's HEAD and
whether a merge is in progress. `completeTask` is seven steps: resolve the source and check out
the stream (refused by git while another worktree has it, which is the only lock there is), merge,
abort and release on a conflict, record, update, restore. `startTask`, `abandonTask`,
`releaseTask`, `recoverStaleTasks` (reads the rows, then writes them one by one),
`cleanupWorkerBranches` and `detectTaskConflicts` (which checks the stream out as well) follow the
same way. A task can be started several times: branch names are `<<task, k>>`.

### Dependencies, DependencyGraph, TopologicalSort

`row[s]` is the list `depends_on` and the type; `wouldCreateCycle` pops one stream of its stack
per step and reads its row then. `addMergeDependency` searches once per source. A stream's row
cannot be deleted while it has a dependency row. With one process the module is shown to implement
`DependencyGraph`, in which every call is one step: the refinement maps `edges` to the pairs in the
rows. `TopologicalSort` is a pure function and is evaluated in every reachable state on every
sequence of streams.

### Cascade

`Cascade` extends `Dependencies`: the walk reads `getAllDependents` and sorts the graph that the
calls of `Dependencies` have made so far, and re-reads each stream's dependencies while other
processes add and remove them. A setting either gives an acyclic graph of four streams (edges go
forward in `Order`) or lets the calls build one. The walk (`walk`) goes over the dependents of `Root`.
`fresh` is the set of streams whose branch holds the root's new commits: a stream is fresh after a
rebase exactly if what it was rebased onto is. Every rebase may conflict, fail for another reason
or throw; `getWorktree` may throw. Between two streams of the walk other processes pause, resume
and clear. `resumeCascade` is the second entry.

### StreamConflicts

Each statement of `rebaseOntoStream`, `rebaseOntoStreamAsync`, `continueRebase`,
`abortConflictedRebase`, `clearConflict` and `recoverOrphanedConflicts`. All in one process: other
calls run only while a handler is awaited. `head` is the version of the target, `real[s]` what the
branch of `s` is based on in git, `base[s]` what the database says. `isRebaseInProgress` looks for
`.git/rebase-merge` below the worktree, which a linked worktree does not have: `Main` is the agent
whose worktree is the repository, and in the others a rebase is not seen: `continueRebase` and
`abortConflictedRebase` leave it there, and a later `rebaseOntoStream` in that worktree fails at once
and, if its handler answers, continues the *old* rebase and records the *new* base. The model has this call in the settings with `reuse` (the others bound it
away), and `reused` remembers that it was made. The guard `MayManage` is the contract: nobody takes a
conflict from a handler at work, and a rebase in progress is managed from its worktree. What is
claimed of base commits and records is claimed of `Careful` histories (no death, no rebase called over
one left behind), and the properties say so.

### MergeQueue

One target (every query is for one). `processQueue` takes a snapshot of the ready entries and works
through it; `mergeStream` is checkout, merge, status. The worktree that has the target checked out
is `holder`. `git merge --abort` fails where there is no `MERGE_HEAD`, that is after a conflict of
`squash` or `rebase`: then the worktree stays `dirty`. The guard of `MarkReady` is the contract:
only what waits or has failed is made ready, whatever was added for the stream since it failed (the
ghost `again` remembers that an entry was). `processQueue` takes `limit` entries of its snapshot, 1 unless
the caller says otherwise: with a limit that covers the queue every ready entry is decided; with a smaller one an
entry that is made ready again each time it fails can stay ahead of another for ever, so there
`ReadyIsDecided` has the premise that callers do not make entries ready for ever.

### DiffStacks

Stacks of one target with their queue positions, places of checkpoints in stacks, and what has
`landed` on the target. Enqueue, dequeue and reorder shift and compact as in the code; the
cherry-pick is one statement per checkpoint and stops at a conflict. `setReviewStatus` checks the
transition on a row it has read before. No call that edits a stack looks at its review status or at what
it already contains, so the model's do not either: a checkpoint is added to a merged stack, and
while another process picks (`built`: the stacks exist and calls overlap; `editors` says who edits).
`reorderQueue` and `reorderStackCheckpoints` compare sets, so their list may name an id twice
(`Naming`; bound: one id once more). The ghost `picked` is the list of checkpoints that
`cherryPickStackToTarget` had read when it marked a stack merged. That those have landed is what can be
claimed (`MergedHasLanded`), not that everything in a merged stack has. The contract: who sets a stack to merged
by hand has landed its commits; nothing is claimed of such a stack. `deleteCheckpoint` of a checkpoint that
is in a stack is refused by the foreign key.

### ReviewStacks

The blocks and entries of one stack of one stream. A call is its reads and then one transaction.
A commit is `<<patch, rebase>>`: its patch-id survives a rebase, its hash does not; a rebase may
drop commits. One process builds the stack, others commit, review and delete (`reviewed`). The status of
a block is read before the transaction, which may come after another process has marked the block
merged. The contract of `createReviewBlock` and `addCommitsToBlock`: callers give only commits of the stream that are in
no block (`Untracked`). The code checks neither, and a commit given twice would be tracked twice;
that `EntryInv` holds is claimed of callers that keep to it. `mergeReviewBlocks` counts the ids it
is given, so its list may name a block twice (`repeats`): the block is then among those merged into the
first, or even is the first.

### StreamLifecycle

Each stream's record and the table it is in, its branch, what refers to it for ever (`history`:
operations, changes, checkpoints, blocks) and for a while (`held`: worktrees, locks,
dependencies). Every DELETE is refused while a foreign key points to the row. `gc` lists the ended
streams and archives them one by one, goes on after one fails, and prunes what has expired. `archiveStream`
is exported, and called directly it looks at no status (`ArchiveDirectly`). `deletion` says what becomes of
a branch that prune deletes: git does it, git refuses (a worktree has it checked out; prune notes the
error and drops the rows all the same), or `deleteGitBranches` is off.

### OperationLog

`up` is the tree of commits, `head` each stream's branch, `ops` the table of operations with
time, `clock` the milliseconds. A git command takes longer than a millisecond, so the clock may be
the same only for operations recorded with no git command in between; among those the latest is
open. `commitChanges` is three steps (git commit, change, operation), a commit by hand with
`recordOperation` two, the three rollbacks two (reset, operation). `reconcile` reads the heads
again for each stream it repairs, then writes. Agents call `ensureInSync` first, as its comment
asks, and each stream has one agent. `Rebase`, `OutsideCommit` and `DeleteBranch` move the branch
without the log: rebases and merges of the tracker record no operation.

### Startup, Worktrees, Snapshots, Guards, Changes, Sessions

`Startup`: `opening[p]` is where a process is in `createDatabase`: each `CREATE TABLE IF NOT
EXISTS` of `initializeSchema`, the read of the version, and for each migration the test and the
`CREATE` or `ALTER` of each object, then the row of its version. `schema` is the set of tables
there are, with the one column a migration adds. A `CREATE` that comes second throws: the tracker
is closed again. `rollbackMigration` drops in reverse order, then deletes the version.

`Worktrees`: `row` is the table, `tree` what git has registered for a path, `dir` the directories,
`work` what is not committed in each. Creation, switch and deallocation are a git command and then
a statement; an INSERT or UPDATE that violates a constraint throws and leaves git's part.
A removal that fails is only logged (`left`). The temporary provider of a cascade adds worktrees
and cleans them up in the three ways the code tries.

`Snapshots`: one `stash` list for all worktrees; `snapshot` pushes, then records the entry that is
the latest by then.

`Guards`: a session reads at a time, and of the guard's `last_write` it is kept whether it is later.
`Changes`: a commit is its change, the version of its patch and the rewrite that made it; a rewrite
of the branch (commit, rebase, amend, squash, split, drop, merge) is one git step and a list of
statements on the rows. Patch-ids map commits over a rebase, as in `buildRebaseCommitMapping`. The branch is a
set of commits: nothing in `changes.ts` depends on their order.

`Sessions` puts them together. A write is `validateGuard` with `checkpoint`, git, each row, then
`touchGuard` and `completeCheckpoint`; reads and writes of other agents of the process come before
or after it, deaths anywhere. After a death the tracker opens again, and `startupRecovery` clears
the checkpoints unless the option `skipRecovery` is set; `recoverCheckpoint` resets the branch.

## 3. The runs

Bounds are in the MC modules and cfg files; the comment of each MC module says what its settings
are for.

| Run | Settings and bounds | Shows |
|---|---|---|
| `tasks_overlapping` | 1 task, 2 agents, coordinator; 2 starts, 2 work items, 1 crash; calls overlap | the three safety properties that survive every interleaving: records are backed, completed has a record, merges are serialized |
| `tasks_recovered` | as before, 2 crashes, calls do not overlap, agents complete their own tasks | types; the branch a task's row names exists until the task is over, and what is on it is in the stream when the task is completed (`BranchKept`); `TaskLifecycle` is implemented; a stuck task is recovered |
| `cascade` | graph calls: 1 process with up to 2 sources at once, or 2 processes with 3 calls; 2 cascades with stop and skip over every acyclic graph of 4 streams; a deferring cascade with 2 resumptions; 2 cascading processes that change the graph (2 calls, 1 turn); a resumption while one changes it (1 call, 2 turns) | search complete and sound, sort correct on every graph, cyclic ones included (`GraphInv`); `DependencyGraph` implemented (`GraphKept`); calls return; success means current; each stream reported once, stop means stop, dependents held back (`ReportInv`) |
| `stream_conflicts` | 2 agents; 1–2 streams, 1–2 conflicts, 1–2 heads of the target, 0–1 crashes (a crash with 1 head and 2 conflicts, and with 2 heads and 1 conflict); all but the setting with 2 streams and 2 conflicts have rebases called where one was left behind | of careful callers: record and status agree and what is resolved was rebased (`ConflictInv`), base commit and branch agree; of all: a conflict the stream leaves is closed; orphans are recovered |
| `merge_queue` | 2 streams, 2 entries, 1 worker, with limit 2 and with the default of 1; 2 workers with 1 entry and a crash, or with 2 entries | one active entry per stream but for those made ready again, failed is not merged (`EntryInv`); merged is in the target; order; progress |
| `merge_queue_jammed` | 1 squash | *violation* of `WorktreeLeftClean` (finding) |
| `diff_stacks` | 3 empty stacks; 1 stack with 3 checkpoints; 1 stack of 2 that one process edits while both review (3 statuses) and pick, with a crash; up to symmetry of stacks and of checkpoints | queue positions and places in a stack distinct (`OrderInv`); order kept; what a stack was marked merged by has landed |
| `review_stacks` | 3 commits, 1 rebase; 2 commits, 2 rebases that drop; 2 processes; 3 commits, merges that name a block twice | positions distinct, no block empty (`StackInv`); entries current and tracked once (`EntryInv`); splits and merges lose nothing, merged blocks stay as they are (`BlocksKept`); surviving commits are kept |
| `lifecycle` | 2 streams with all references; 2 that drain while git refuses to delete branches; 3 generations, branches not to be deleted; 2 processes that die | rows have branches, and branches records where they are deleted (`RecordInv`); `gc` and `updateStreamStatus` archive only what has ended; a cascade is complete; gc drains |
| `lifecycle_history` | 1 stream with history | *violation* of `Collected` (finding) |
| `operation_log` | 1 stream, 3 commits, 5 operations; the same with moves past the log and a crash; 2 streams, one local; a reconciler that overlaps, with a crash | log gives head, no gap, change exists (`LogInv`); rollback counts; repaired |
| `sessions` | 2 processes that open a database of any release, 1 death; 3 rollbacks of migrations by one; 2 writers with 4 writes; 1 writer with 3 writes and 2 deaths that recovers a checkpoint; 1 writer with 2 writes and a death whose checkpoint startup recovery clears; 2 agents with 2 snapshots; 2 agents with worktrees, 1 dies, 1 directory is deleted, 1 call is cut short; 2 processes and a cascade | an open tracker has the schema (`OpenedHasSchema`) and opens in the end; rows, git and snapshots agree and temporary worktrees go (`WorkspaceInv`); rows of dead agents go; no update is lost; changes follow their commits (`ChangesFollow`) |

Why the bounds are enough to be interesting: every race here is between two processes, so two
agents and one stream or task show it, and a third would only repeat it. Two starts of a task are
needed to lose a branch; two work items to have one merged and one not; three streams to have a
path of two edges and a cycle through another stream, four to have a diamond and a stream below a
skipped one; three commits to split or merge a block with neighbours on either side; three stacks
to have one above and one below what is moved; three generations for a cascade of ends; three
commits to roll back two steps and commit again; three changes to split one and keep a neighbour,
three rewrites for a history with two earlier commits. Each property has a mutant that its run
refutes within these bounds. Invariants that speak of the same state are conjunctions of named
parts, the type invariant among them: `ReportInv`, `LogInv` and so on list their parts, each with
its own comment in its module.

Every variable is bounded by a guard: the number of starts, commits, conflicts, heads, rebases,
positions, crashes and operations. `CHECK_DEADLOCK FALSE` is set where the callers may have
nothing left to do (all bounds used up, or everything archived).

## 4. Fairness

* **A call that runs goes on** (`WF` of the steps of each process): calls are synchronous code.
* **Timers go off** (`SF` of `HandlerFails` in `StreamConflicts`): `withTimeout` races every
  handler with a timer. A handler itself need never answer.
* **Recovery runs again and again** (`SF` of `RecoverStaleTasks` and `RecoverOrphanedConflicts`):
  `startupRecovery` calls both whenever a tracker is opened.
* **Trackers are opened again, and dead agents' worktrees deallocated again and again** (`WF` of
  the opening, `SF` of `Collect`). A process whose tracker did not open tries again; the harness
  that uses `findStaleWorktrees` calls `deallocateWorktree`, which may fail to remove a directory
  but always deletes the row.
* **The queue is processed, gc is run, streams are reconciled, again and again** (`SF` of
  `ProcessQueue`, `GC`, `Repair`). Nothing in the code schedules these calls: the callers do. It
  is strong because between two such calls the process may be busy with others.

No fairness is assumed of agents' decisions, of crashes, nor of people who edit worktrees.
`Repaired` has the premise that a branch is not deleted over and over again; `Drains` that the
streams end and are released.

## 5. The proofs

`tlapm` checks the eight modules to the last leaf. Constants have no other assumptions than the ASSUME of
their module, unless a theorem says so.

**`WorkerTasksProofs`** is about `WorkerTasks` for any sets of tasks and agents, any bounds, with
calls interleaved or not, and with crashes. The constants' assumptions are that NULLs are not
ids, that the coordinator is no agent and that bounds are naturals.

* `TypeCorrect`: `Spec => []TypeOK`.
* `MergeRecordsAreBacked`, `CompletedIsRecorded`, `MergesAreSerialized`:
  `Spec => []MergeRecordsBacked`, `[]CompletedHasMerge`, `[]MergesSerialized`.
* `ImplementsLifecycle`: if calls do not overlap (`~ Interleaved`), `Spec => LifecycleKept`: under
  the refinement mapping every step is a step of `TaskLifecycle` or a stutter, crashes included.
* `BranchIsKept`: if besides agents complete only tasks of their own (`OwnTasksOnly`),
  `Spec => []BranchKept`: the branch a row names exists until the task is over, and what is on it is in the stream
  once the task is completed. Of the branches of earlier starts nothing is claimed (section 6).

None of the three invariants is inductive, because they say nothing of calls that are under way. The
inductive invariant `IInv` adds what each step relies on: branch names are not reused
(`StartedBranches`), so that nobody replaces the branch a call has resolved; the source resolved
at the start is still below the branch tip before the merge and in the stream after it
(`SourceKept`); whoever is about to mark a task completed has recorded its merge
(`RecordedFirst`); whoever is between checkout and record has the stream in its worktree
(`HoldsStream`), and only one worktree has it (`OneHolder`), which is git's rule and gives
`MergesSerialized`. `InvStep` has a step for each action that touches these; all other actions are
shown by one lemma (`QuietStep`) to leave them alone.

The last two need what only calls without overlap give. `CallInv` says that one call runs at a time and
that what it read of its task at the start is still so when it writes: with this each status write
maps to the action of `TaskLifecycle` it stands for. `KeptInv` says of each branch a row names whose
worktree is on it (`UsedByOwner`: nobody's but the agent's at work, so that nothing is committed to it once
it is merged), and what each call relies on about branches (`KeptRelies`).

**`CascadeProofs`** is about `Cascade` and the `Dependencies` it extends, for any set of streams, any
graph without cycles that is given and any that calls build, any number of processes, and any number
of walks, whatever is called in between.

* `GraphIsAcyclic`: `GraphSpec => []Acyclic`: no sequence of calls makes a cycle of the abstract graph of
  `DependencyGraph`. Reachability is defined by closed sets (`y` is in every closed set that holds `x`), so
  the proof needs no induction over paths: a graph has no cycle if for each stream some closed set
  holds its dependencies without it, and from such sets for the old graph, sets for the new one are built.
* `GraphRefined`: `Spec => GraphKept`. The search and the write of a call are steps of their own; while no
  other process changes the graph they do what `DependencyGraph` does in one step; so acyclicity carries over to one process at a time.
* `GraphIsSearchedAndSorted`: `Spec => []GraphInv`: a call is refused just when its dependency would
  close a cycle; `topologicalSort` puts dependencies first, and throws just when the streams it is
  given hold a cycle.
* `CallsDoReturn`: `Spec => CallsReturn`: every step of a call brings it nearer to its return, also while
  others change the graph under its search.
* `ReportIsTrue`: `Spec => []ReportInv`: the result of a walk names each dependent once, stopping stops,
  and the direct dependents of what failed or was deferred are held back.
* `SuccessIsCurrent`: `Spec => []((setting.resumes => setting.byHand) => SuccessMeansCurrent)`: a walk
  that reports success has brought every dependent up to date. The condition is that conflicts are
  cleared only after a rebase by hand where calls are resumed; without it `resumeCascade` counts a
  stream that was merely cleared as updated (section 6).

Two invariants carry this. `GraphKnown` says what a call knows at each point of its search (`Knows`):
what it has visited is closed under dependencies but for what is on its stack, each entry of the
stack can be reached from the source, and the sources before it do not reach the stream. So when the
stack is empty what was visited is a closed set without the stream. `WalkKnown` says what a stream of the
walk leaves for the next: those to come have no result yet and depend on none that comes later
(`Coming`, `Ordered`), and on something the call is about (`Based`); so the target of a stream that nothing
obstructs has been rebased already (`TargetIs`), and holds the root's commits as long as nothing has
gone wrong (`Current`). TLC agreed with `WalkKnown` on the settings of the run before it was proved.

`Sorted` is a recursive function over the rounds of `topologicalSort`. The library's induction
theorems cannot be instantiated here, so induction over its rounds is done by hand: if a claim fails
at some round it fails at a first one (`LeastFailure`, from the well-foundedness of inclusion on finite
sets), and its step contradicts that. That a graph without cycles has no set of streams each of
which depends on another of the set (`NoKnot`) looks at the stream that reaches least in the same way.

**`SessionsProofs`** is about `Sessions` for any sets of processes, agents and settings.

* `NoUpdateIsLost`: `Spec => []NoLostUpdate`, for any number of writers of a process, any number of
  writes and deaths at any step. The property speaks of the moment of the git command only. The
  inductive invariant `GuardInv` says why the validation is enough: while nothing is being written,
  an agent at work has seen the latest write, or the guard is held by another agent since later
  (`CanTell`), which is what `validateGuard` refuses. Between the git command and the touch this
  is false of everybody else; nobody validates then, because writing is synchronous code.
* `OpenedIsWhole`: `Spec => []OpenedHasSchema`, for any number of trackers that open a new database or
  one of any release, interleaved statement by statement, dying anywhere, as long as nobody calls
  `rollbackMigration` (`NoRollbacks`; the run has a setting with rollbacks by a single process). The
  invariant `OpeningInv`: a version is recorded behind the objects it stands for, a process has
  passed only objects that are there (`Reached`), and nothing is dropped; so what each process
  relies on survives what the others do (`GrowthKeeps`).
* `WorkspaceAgrees`: `Spec => []WorkspaceInv`, for any number of processes, agents, paths and snapshots,
  with deaths anywhere and rollbacks too. That rows and git agree (`RowsTrue`) is claimed, as in the run,
  of a process that is alone and did not die, between its calls; that ended cascades leave nothing they
  could remove (`TempGone`) of any number of processes that do not die; that the row of a snapshot names
  the stash with its work (`SnapshotHoldsWork`) of a process that is alone, wherever it dies. The
  inductive invariant says what holds within the calls: what a cascade has added is in its list until
  cleanup and prune (`TempInv`); the latest stash is the one whose row comes next (`StashInv`); a call of
  the provider has made, changed or removed in git what its next statement writes, and nothing else
  disagrees (`AgreedInv`: `RowsMatch` but for the agent of the call, `CallMatches`).
* `ChangesAreFollowed`: `Spec => []ChangesFollow`, for any set of changes, any number of rewrites
  (`MaxRewrites`), writers and deaths. The inductive invariant `FollowInv` says what the rows will be:
  `After(change, us)` applies the updates a write has still to make, and those rows, not the ones in the
  table, agree with the branch (`Settled`: the commits belong to different changes, each active change
  has its commit there, and each commit is the current one of an active change, unless the change is merged or
  lost). One lemma per kind of write (`CommitFollows`, `MergeFollows`, `RebaseFollows`, `AmendFollows`,
  `SquashFollows`, `SplitFollows`, `DropFollows`) shows that its updates are of different rows, each ready
  for its own (`AllFit`), and settle the new branch; `WriteOne`, that one statement leaves the outcome of
  the rest as it was. Each row by itself is consistent at every moment (`RowOf`), deaths included. After a death
  the rows only have to know the commits from before the write (`Kept`): histories grow, so a
  checkpoint's commits stay findable whichever statement came last (`Grown`).

**The last part of `WorkerTasksProofs`** is about `MergeQueue` for any sets of entries, streams and workers and
every setting. The two models share no constant, variable or definition, so that one module can extend both;
for this the names of `MergeQueue` that would be those of `WorkerTasks` say what they belong to (`QueueSpec`,
`QueueStep`, `WorkerDies`).

* `MergedStaysInTarget`: `QueueSpec => []MergedIsInTarget`. The invariant (`QueueInv`) says
  of each call what it knows about the entry it is at (`CallTrue`): from git's merge on the commit it is
  about to record is in the target, whatever other workers write.
* `EntriesAreSound`: `QueueSpec => []EntryInv`. Its second half, one active entry per stream (not counting those a
  caller made ready again after they had failed) and no failed entry merged, is claimed of calls that do not
  overlap; `AloneInv` adds what a call knows then: the entry to be inserted has no active rival, and what is left
  of its snapshot is still ready.
* `LowestPriorityFirst`: `QueueSpec => PriorityRespected`: what the worker is at comes before
  everything that was ready when it took its snapshot and still is to come.

**`DiffStacksProofs`** is about `DiffStacks` for any sets of stacks, checkpoints and processes.

* `MergedStacksHaveLanded`: `Spec => []MergedHasLanded`, for overlapping processes, edits and crashes. The
  invariant `LandInv` says of every process that is going to write `merged` that each checkpoint its call has read,
  which is what that statement carries, has landed or is picked earlier in its list (`Backed`).
* `StacksAreOrdered`: `Spec => []OrderInv`: types, two queued stacks never have one position, and no two
  checkpoints of a stack one place. That places have no gap is not claimed: adding a checkpoint
  twice or reordering by a list that names one twice leaves one.
* `OthersKeepTheirOrder`: `Spec => OrderKept`: moving, enqueueing or dequeueing one stack leaves the
  order of the others as it was.

Order is claimed of one call at a time until a call is cut short (`Unbroken`): a crash between two
statements of `reorderQueue` leaves two stacks in one position, one within `reorderStackCheckpoints` two checkpoints in
one place, and nothing repairs either. Two invariants say what is left to do in each case a call may be
in, and what is true of the positions then. `QueueInv`: between the statements of `reorderQueue` two stacks may share
a position, one of which is still to be set, also when the list names a stack twice (`Placing`). `PlaceInv`: the
places of all stacks but the one that is edited are apart (`ApartIn`); those of that one are too, before the others
make room, with room made for the checkpoint to be inserted, and before and after one is removed (`MakingRoom`,
`Inserting`, `Deleting`, `Closing`); while it is reordered (`Moving`) the checkpoints that no statement moves
any more have places of their own that none of the others will get (`Scattered`). That each statement leads
from one form to the next rests on a few lemmas about the numbers (`RoomMade`, `GapFilled`, `GapLeft`,
`GapClosed`, `NextMoved`, `EndIsFree`).

**`ReviewStacksProofs`** is about `ReviewStacks` for any finite sets of commits and blocks, any set of processes, any
number of rebases (`MaxGen`) and every setting.

* `BlocksAreAStack`: `Spec => []StackInv`.
* `EntriesAreOfTheStream`: `Spec => []EntryInv`.
* `MergedBlocksAreKept`: `Spec => BlocksKept`, and `SurvivorsAreKept`: `Spec => SurvivorsKept`.

One invariant, `StackIndInv`, carries all four. The store is well-formed (`StoreOK`), block positions are
distinct, a commit has one entry at most, and unless a rebuild is under way each entry shows a commit of the branch
(`UpToDate`). Of each call it says what is still true when the transaction writes of what was read before it
(`CallOK`, one definition per operation): the commits to be added are untracked (`Fresh`), the position taken is
above all others (`Creating`), what a rebuild has seen of each block is all its entries (`Rebuilding`). That
holds because one process builds at a time (`OneBuilder`) and the others write only statuses, commit, or delete.
Where nothing is dropped, nobody interferes and no merge names a block twice (`Neat`), blocks are `Tidy`: not empty,
their entries numbered from 0 without a gap; and a call knows that what it moves goes behind what is there (`Continue`), which is what keeps
the numbers dense across `splitReviewBlock` and `mergeReviewBlocks`.

The positions a call gives are cardinalities (`PlaceIn`: how many come before). What makes them distinct and dense is
a fact about finite sets with a total order: the counts are all the numbers below the size (`Counted`, `RankIs`).
It is proved from the least element of a set of naturals (`LeastOf`), not by induction over data. The rebuild's
matching of old entries to new commits is characterised once (`Rebuilt`, `Fills`) and used from there.

**`StreamConflictsProofs`** is about `StreamConflicts` for any sets of streams, agents and conflict ids, any
number of heads of the target and of crashes.

* `ConflictsAreSound`: `Spec => []ConflictInv` (types, `ConflictedHasRecord`, `ResolvedWasRebased`).
* `BaseCommitIsTrue`: `Spec => []BaseCommitTrue`.
* `ConflictsAreClosedFirst`: `Spec => ClearedIsOver`, crashes and recovery included.

The inductive invariant `ConfInv` says three things. At most one call is in synchronous code
(`OneActive`). A call whose handler is at work owns its stream: it is conflicted with the call's own
conflict, no other handler works on it, and the rebase in its worktree is that of the call (`AwaitOK`).
And a call in synchronous code is at one of some twenty places (`Moving`, `Failing`, `Ending`,
`Recovering`, by what it still has to do), each with what is already done. Of a history without
crashes in which no rebase was called over one left behind (`Clean`) it says more: a stream no call is at work on is `Calm`, that is base and branch
agree, its conflict has a record, and a rebase left behind in the repository is the one of that
conflict; and every conflict in progress is attended by a call, so that
`recoverOrphanedConflicts` finds nothing (`RecoverOrphanedConflictsKeeps`). The steps are proved one
lemma per action; `LocalStep` and `LocalKeeps` say once and for all that a call about one
stream leaves what is known of the other streams and calls alone.

The attempt to prove `ResolvedWasRebased` for histories with crashes showed that it does not hold
there, which no setting of the run had reached: see *Conflicts* in section 6. The same is so of a rebase called where
another was left behind. The property is therefore claimed of `Careful` histories, and the settings have both.

**`StreamLifecycleProofs`** is about `StreamLifecycle` for any number of streams, any set of processes and every
setting.

* `RowsAndBranchesCorrespond`: `Spec => []RecordInv`. That a row has its branch (`RowHasBranch`) and the foreign
  keys hold (`TypeOK`) is shown with calls that overlap and processes that die anywhere; that a branch has its
  record of calls that do neither, where git deletes the branches it is told to (`deletion = "done"`).
* `OnlyTheEndedAreArchived`: `Spec => ArchivedWasEnded`: what `gc` and `updateStreamStatus` archive has ended, for
  calls that do not overlap; deaths are allowed. `archiveStream` called directly may archive any stream.
* `CascadesAreComplete`: `Spec => AbandonComplete`, for calls that neither overlap nor are cut short: when an
  `abandonStream` with cascade returns, the stream and all its descendants are abandoned.

The inductive invariant `LifeInv` says of each statement a call still has to execute what the store must look
like for it (`Fits`): a stream to be created is unused, and nobody else is creating it (`OneCreator`); its row
is inserted only where the branch is there or comes first; what a call reads, archives or abandons has been
a row, and what it prunes is none any more; the records of a stream go only after its branch. As a row never
comes back once it is archived, other processes cannot undo this. A stream in local mode has no branch
(`LocalHasNone`), so that pruning it need not delete one. `EndedInv` adds, of calls that do not overlap, that
each stream a call is going to archive has ended, ends with the first statement of the call, or is archived directly.
The lists of `gc`, `prune` and the cascade are concatenations over the rows of a SELECT (`Each`); that each of
their statements is one of those of some row is shown by induction over the rows (`EachFrom`), and so is that
none is left out (`EachHas`).

`CascadeInv` says of a cascade that each member of the family is abandoned, or will be: its own statement is still
to come, or that for the children of a stream above it (`Covered`). The statement for the children of a stream stands for all
its descendants; when it is replaced by the statements for each child, these stand for the same streams, since a
descendant is a child or a descendant of one (`Generations`). `Descendants` is the least set of rows closed
under children, not a recursion up the parents: that fact is then immediate for any number of generations, and no
order of the ids is needed. Inductive, it also shows that a cascade never throws where calls do not
overlap, so the property no longer presumes it. TLC agreed with `CascadeInv` before it was proved.

**`OperationLogProofs`** is about `OperationLog` for any finite set of streams, any set of processes, and any
settings: overlapping calls, moves past the log, calls cut short. That streams are finitely many is what `SetToSeq`
needs to list those to repair.

* `LogIsTrue`: `Spec => []LogInv` (types, `LoggedChangeExists`, `LogGivesHead`, `NoGap`).
* `RollbackIsExact`: `Spec => RollbackCounts`.

The inductive invariant `LogIndInv` has three layers, because the parts of `LogInv` are claimed under
different conditions. `Types` holds whatever overlaps: what a call still has to do is one of a few
lists (`AtCommit`, ..., `Repairing`), one process at most writes to a stream, and from git's commit on the
branch has a commit with a parent (`Fit`); without it `HEAD~1` would not be there. `LogKnown` is about calls that
do not overlap. There the times of operations increase (`Increasing`, `Fresh`): every call runs a git command
before it logs, so the latest operation of a stream by `timestamp` is the last one, and unique. It says what
each call has established: that the stream was in sync before the commit, that the branch is at the commit to
be logged and its parent is what the log expects, what a reconciliation has read. `LoggedHeads` adds, for
histories without outside moves and crashes (`Alone`), that log and branch agree, so that a reconciliation has nothing
to write.

`RollbackCounts` compares two chains: `Back` follows `parent_id` through the log and `Ancestor` the parents in git. One
step of the one is one step of the other (`Parents`: an operation with a parent logs the commit above that of its
parent), and `BackIsAncestor` shows by induction over the steps that the n-th ones agree. The induction is done by hand
as for the topological sort, over steps of a chain (`ClimbsAgree`).
`LogIndInv` was checked by TLC on the run's settings before it was proved.

Only model-checked: liveness (`StuckTaskRecovered`, `OrphanRecovered`, `ReadyIsDecided`, `Drains`,
`Repaired`, `OpensInTheEnd`, `DeadAgentsGone`), which the prover does not cover here. Every invariant and every
action property of a passing run has a theorem.

## 6. What the models showed

### Findings

* **`merge_queue_jammed`**: after the conflict of a squash or rebase merge, `git merge --abort`
  throws, the result `conflict` is lost, and the unmerged files make every later entry of the
  queue fail in that worktree.
* **`lifecycle_history`**: a stream with operations, changes, checkpoints or blocks can never be
  archived: the DELETE of its row is refused by the foreign keys.

### Observed, and not claimed by a property

The models reach these states as well. A property that would exclude them is either conditioned or
absent, so the runs do not say they are right.

* *Worker tasks.* A task that was released (or recovered) with unmerged work and is started again gets a new
  branch: `startTask` replaces `branch_name`, no row names the old branch, and `cleanupWorkerBranches`
  deletes it as an orphan with its work, although `releaseTask` "Keeps the branch name so work isn't lost"
  (`src/worker-tasks.ts:473`; likewise 492 and 760). With overlapping calls `recoverStaleTasks` reopens a task that was
  completed after it was read.
* *Dependencies.* Two processes can write a cycle between their checks and writes; the next sort
  reports it.
* *Cascade.* The walk holds back the dependents of failed and deferred streams but not those of
  skipped ones: in a chain r <- a <- b <- c with `skip_conflicting`, if a fails, b is skipped and c
  is rebased onto b's old head and listed as updated. A dependent that is already conflicted or
  paused makes the whole cascade throw. `resumeCascade` counts a stream as updated when its
  conflict was merely cleared.
* *Conflicts.* In a linked worktree `continueRebase` and `abortConflictedRebase` do not see the
  rebase and leave it behind. The next rebase that is called there fails at once; when its handler has answered
  `git rebase --continue` finishes the *old* rebase, and the new target is recorded as `base_commit`
  (`src/streams.ts:1024`), which the branch is not based on. A conflicted stream can so be left with a record
  that is abandoned. After a partial resolution the stream can stay conflicted over an
  abandoned conflict. The target's head is read again after the failure of a rebase. A handler
  that times out late clears a newer conflict of the stream. When a process dies between git's stop at a
  conflict and the record of it, the rebase stays in the repository; if another agent's rebase of the
  stream then fails as well, after the target has moved, the conflict it records has a later target than
  the rebase that is found, and `continueRebase` finishes the old one and records the later `base_commit`,
  which the branch is not based on.
* *Merge queue.* An entry that failed and is made ready again after another was added for its stream makes
  two active entries. With the default limit of 1 an entry that fails and is made ready again each time
  keeps a later one waiting for ever. Two workers can take the same entry, and the loser overwrites the winner's
  `merged`; a cancelled entry in a snapshot is still merged; making ready what was merged merges it
  again.
* *Diff stacks.* Two processes break queue positions and overwrite each other's review; a stack
  need not be approved to be queued; adding the same checkpoint twice, or reordering by a list that names one twice,
  leaves a gap. A checkpoint added to a merged stack, or between `cherryPickStackToTarget`'s read and its mark,
  is in a merged stack without having landed. `deleteCheckpoint` throws while a stack has the checkpoint (the foreign
  key has no ON DELETE CASCADE), although its comment says that the entries go too (`src/checkpoints.ts:228`).
* *Review stacks.* After a rebuild that dropped commits, split and merge leave gaps or collide; merging a block with itself deletes it, and the id
  returned names nothing (`src/stacks.ts:806`, 850); a block that another process marks merged between the
  check of its status (`src/stacks.ts:610`) and the transaction is changed all the same, though merged blocks are
  immutable (`docs/design.md:1920`); two creations at once get one position; populating a
  named stack twice tracks commits twice; a split that races with a deletion leaves an empty block.
* *Lifecycle.* In one gc a parent is tried before its child and fails; a stream revived between
  gc's list and its turn is archived; a fork can escape a cascading abandon; prune deletes a branch
  that was only tracked. `archiveStream` archives an active stream (`tests/gc.test.ts:214–241` do so), whose
  branch stays until prune. When git refuses to delete a branch, prune notes the error and deletes the records of the
  stream all the same (`src/gc.ts:445–458`), and nothing is left that would try again.
* *Operation log.* Rebases and merges record no operation, though `docs/OVERVIEW.md:78` says that
  every mutation is logged: afterwards the stream is out of sync until it is reconciled. Rollbacks
  record the base commit as `beforeState`. A missing branch is created again at the base commit,
  although the log expects its last head, so a second reconciliation is needed. Rolling back to an
  operation from before a rebase puts the branch below commits that do not contain `base_commit`.
  A reconciliation that overlaps with a commit can log the older head last.
* *Cascade and the graph.* A stream that loses all its dependencies during a walk goes onto the root's
  head or, without one, fails with "No valid rebase target", after which even `stop_on_conflict`
  continues.
* *Worktrees.* A creation whose INSERT throws (the stream is archived, the path or the agent has a
  row) leaves a worktree without a row. A directory deleted by hand, pruned, and used by another
  agent leaves a row that names a foreign worktree (`RowsTrue` excludes deleted directories).
* *Snapshots.* Two processes that snapshot at once may each record the other's stash
  (`SnapshotHoldsWork` is claimed for one process).
* *Database.* A `rollbackMigration` cut short between the first DROP and the DELETE of its version, or
  one that overlaps with a tracker that opens, leaves the tables missing for good: the version says
  they are there. The model has rollbacks by one process that does not die. An index is lost when a
  process dies between a migration's `CREATE TABLE` and its `CREATE INDEX`, because the table exists
  the next time.
* *Guards.* Two processes may both validate before either touches: `NoLostUpdate` is claimed for the
  agents of one process. Times are milliseconds: a touch in the millisecond of a read counts as seen.
* *Changes and recovery.* `rebuildChangesAfterRebase` follows active changes only: the commits of
  merged changes are not followed. `recoverCheckpoint` resets git and not the rows, which stay
  ahead; the model writes nothing more after a death. `startupRecovery` clears the checkpoints of
  unfinished operations without a reset, so only a tracker with `skipRecovery` can recover them.

## 7. What is not modelled

* Events, RPC handlers, exports: no state or no control of their own.
* Several merge targets (every query is for one), titles, metadata, names, descriptions.
* Worktrees: the sequential and the callback provider of a cascade (the sequential one checks
  streams out in a worktree of an agent and leaves its `current_stream` behind), `touchWorktree`,
  streams in local mode (their worktrees record `current_stream` null).
* Two commits of a stream with one patch-id; `clearGuard` in `archiveStream`; indexes and columns of the
  schema except the one that is migrated; expired stashes.
* Git itself: a command does to refs, worktrees, stashes and a rebase in progress what the code relies
  on. Which files conflict is a choice.
* `tracker.resolveConflict` and `abandonConflict`, which write the record only.

## 8. Plan

Order of the work, most important behaviour first: tasks and their merges, dependencies and
cascade, conflicts, the queue, lifecycle, the two kinds of stacks, the operation log; then trackers,
worktrees, snapshots, guards and changes. All of these are written. What is left:

1. **Model**: the sequential worktree provider; `recoverCheckpoint` followed by further writes; several
   targets of the merge queue.
2. **Abstract specifications**: a queue that only orders and decides, implemented by `MergeQueue`;
   an order with insert and remove, implemented by `DiffStacks` and `ReviewStacks`.
