----------------------------- MODULE MergeQueue -----------------------------
(***************************************************************************)
(* The merge queue of one target stream: src/src/merge-queue.ts, with      *)
(* mergeStream of src/src/streams.ts, which it calls for every entry.      *)
(*                                                                         *)
(* processQueue reads the ready entries once and then works through them,  *)
(* one SQL statement or git merge per step.  In some settings callers in  *)
(* other processes run between the steps; each worker has a worktree, and  *)
(* git lets one worktree at a time have the target checked out.  A call    *)
(* can be cut short by the death of its process at every step.             *)
(***************************************************************************)
EXTENDS Naturals, FiniteSets

CONSTANTS
  Streams, Target,  \* the streams to merge, and the one to merge into
  Entries,          \* ids of queue entries
  Workers,          \* callers, each with a worktree
  None,
  Settings          \* the settings explored

Setting == [streams : SUBSET Streams, entries : SUBSET Entries, workers : SUBSET Workers,
            conflicting : SUBSET Streams,   \* the streams whose merge may conflict
            strategies : SUBSET {"merge-commit", "squash", "rebase"},
            limit : Nat \ {0},              \* given to processQueue
            priorities : Nat, work : Nat \ {0},   \* bounds: priorities, commits of a stream
            pausing : SUBSET (Streams \cup {Target}),   \* bound: the streams callers pause
            crashes : Nat,                  \* bound: calls cut short
            interleaved : BOOLEAN]          \* whether other processes run between the steps

ASSUME QueueAssumption ==
  /\ None \notin Streams \cup Entries \cup Workers
  /\ IsFiniteSet(Entries)
  /\ Target \notin Streams
  /\ Settings \subseteq Setting

VARIABLES
  setting,
  entry,     \* the merge_queue table
  status,    \* streams.status, of the target too
  work,      \* commits on each stream's branch
  target,    \* how many of them the target has
  holder,    \* the worktree the target is checked out in
  dirty,     \* the worktrees with unmerged files
  call,      \* the call each worker is in
  cuts       \* calls cut short

queueVars == <<setting, entry, status, work, target, holder, dirty, call, cuts>>
targetVars == <<work, target, holder, dirty>>

Active == {"pending", "ready", "merging"}
\* again: a ghost, whether a caller made the entry ready after it had failed
NoEntry == [status |-> "none", stream |-> None, priority |-> 0, addedAt |-> 0, commit |-> 0,
            again |-> FALSE]
NoQueueCall ==
  [pc |-> "idle", stream |-> None, entry |-> None, entries |-> {}, left |-> 0,
   strategy |-> "none"]

QueueTypeOK ==
  /\ entry \in [Entries -> [status : Active \cup {"none", "merged", "failed", "cancelled", "removed"},
                            stream : Streams \cup {None}, priority : 0 .. setting.priorities,
                            addedAt : 0 .. Cardinality(Entries), commit : 0 .. setting.work,
                            again : BOOLEAN]]
  /\ status \in [Streams \cup {Target} -> {"active", "paused", "conflicted", "merged", "abandoned"}]
  /\ work \in [Streams -> 1 .. setting.work]
  /\ \A s \in Streams : target[s] \in 0 .. work[s]
  /\ holder \in Workers \cup {None}
  /\ dirty \subseteq Workers
  /\ call \in [Workers -> [pc : {"idle", "insert", "pick", "merge", "mark", "merged", "failed"},
                           stream : Streams \cup {None}, entry : Entries \cup {None},
                           entries : SUBSET Entries, left : Nat,
                           strategy : setting.strategies \cup {"none"}]]
  /\ cuts \in 0 .. setting.crashes

QueueInit ==
  /\ setting \in Settings
  /\ entry = [e \in Entries |-> NoEntry]
  /\ status = [s \in Streams \cup {Target} |-> "active"]
  /\ work = [s \in Streams |-> 1]
  /\ target = [s \in Streams |-> 0]
  /\ holder = None
  /\ dirty = {}
  /\ call = [w \in Workers |-> NoQueueCall]
  /\ cuts = 0

-----------------------------------------------------------------------------
(* Scheduling *)

MayRun(w) == setting.interleaved \/ \A v \in Workers \ {w} : call[v] = NoQueueCall
FreeWorker(w) == call[w] = NoQueueCall /\ MayRun(w)
WorkerAt(w, pc) == MayRun(w) /\ call[w].pc = pc
GoOn(w, pc) == call' = [call EXCEPT ![w].pc = pc]
EndWork(w) == call' = [call EXCEPT ![w] = NoQueueCall]
Quiet == setting.interleaved \/ \A w \in Workers : call[w] = NoQueueCall

Exists(e) == entry[e].status \notin {"none", "removed"}

-----------------------------------------------------------------------------
(* addToQueue: the check, then the insertion *)

\* mutant: an entry that is ready does not count
QueuedWaiting(s) ==
  \E e \in Entries : entry[e].stream = s /\ entry[e].status \in {"pending", "merging"}
Queued(s) == \E e \in Entries : entry[e].stream = s /\ entry[e].status \in Active

\* added_at is taken to be different for every entry
Added == Cardinality({e \in Entries : entry[e].status # "none"})

\* bound: an id is left
AddToQueue(w, s) ==
  /\ FreeWorker(w)
  /\ Added + Cardinality({v \in Workers : call[v].pc = "insert"}) < Cardinality(setting.entries)
  /\ ~ Queued(s)
  /\ call' = [call EXCEPT ![w] = [NoQueueCall EXCEPT !.pc = "insert", !.stream = s]]
  /\ UNCHANGED <<setting, entry, status, targetVars, cuts>>

InsertEntry(w) ==
  /\ WorkerAt(w, "insert")
  /\ \E e \in setting.entries, p \in 1 .. setting.priorities :
       /\ entry[e] = NoEntry
       /\ entry' = [entry EXCEPT ![e] =
            [status |-> "pending", stream |-> call[w].stream, priority |-> p,
             addedAt |-> Added + 1, commit |-> 0, again |-> FALSE]]
  /\ EndWork(w)
  /\ UNCHANGED <<setting, status, targetVars, cuts>>

-----------------------------------------------------------------------------
(* markReady, cancelQueueEntry and removeFromQueue look at no status, and at no     *)
(* other entry.  Callers are taken to make ready what waits or has failed, whatever *)
(* was added for the stream since it failed, and to cancel what is not over.        *)

SetEntry(e, st) == entry' = [entry EXCEPT ![e].status = st]

MarkReady(e) ==
  /\ Exists(e)
  /\ entry[e].status \in {"pending", "failed"}
  /\ entry' = [entry EXCEPT ![e].status = "ready",
                            ![e].again = @ \/ entry[e].status = "failed"]

CancelQueueEntry(e) ==
  /\ Exists(e)
  /\ entry[e].status \in Active
  /\ SetEntry(e, "cancelled")

RemoveFromQueue(e) == Exists(e) /\ SetEntry(e, "removed")

Manage ==
  /\ Quiet
  /\ \E e \in Entries : MarkReady(e) \/ CancelQueueEntry(e) \/ RemoveFromQueue(e)
  /\ UNCHANGED <<setting, status, targetVars, call, cuts>>

-----------------------------------------------------------------------------
(* processQueue *)

Ready == {e \in Entries : entry[e].status = "ready"}

\* mutant: the oldest first
OlderThan(e, f) == entry[e].addedAt <= entry[f].addedAt
Before(e, f) ==
  \/ entry[e].priority < entry[f].priority
  \/ entry[e].priority = entry[f].priority /\ entry[e].addedAt <= entry[f].addedAt

ProcessQueue(w, strategy) ==
  /\ FreeWorker(w)
  /\ Ready # {}
  /\ call' = [call EXCEPT ![w] = [NoQueueCall EXCEPT
       !.pc = "pick", !.entries = Ready, !.left = setting.limit, !.strategy = strategy]]
  /\ UNCHANGED <<setting, entry, status, targetVars, cuts>>

\* the entry is marked whatever its status is by now; updateQueueEntry throws if it is gone
PickEntry(w) ==
  /\ WorkerAt(w, "pick")
  /\ IF call[w].entries = {} \/ call[w].left = 0
     THEN EndWork(w) /\ UNCHANGED entry
     ELSE \E e \in call[w].entries :
            /\ \A f \in call[w].entries : Before(e, f)
            /\ IF Exists(e)
               THEN /\ SetEntry(e, "merging")
                    /\ call' = [call EXCEPT ![w].pc = "merge", ![w].entry = e,
                                            ![w].stream = entry[e].stream,
                                            ![w].entries = @ \ {e}, ![w].left = @ - 1]
               ELSE EndWork(w) /\ UNCHANGED entry
  /\ UNCHANGED <<setting, status, targetVars, cuts>>

Mergeable(s) == {status[s], status[Target]} \cap {"conflicted", "paused"} = {}

\* `git checkout` of the target
CanTakeTarget(w) == w \notin dirty /\ holder \in {w, None}

\* `git merge --abort` knows nothing of a squash or of a rebase that stopped
AbortWorks(strategy) == strategy = "merge-commit"

\* a squash of nothing new ends in an empty commit, which git refuses
NothingToCommit(w, s) == call[w].strategy = "squash" /\ target[s] = work[s]

MergeStream(w) ==
  LET s == call[w].stream IN
  /\ WorkerAt(w, "merge")
  /\ \/ /\ ~ Mergeable(s) \/ ~ CanTakeTarget(w)                     \* thrown
        /\ GoOn(w, "failed")
        /\ UNCHANGED targetVars
     \/ /\ Mergeable(s) /\ CanTakeTarget(w)
        /\ holder' = w
        /\ \/ /\ s \in setting.conflicting /\ target[s] # work[s]
              /\ dirty' = IF AbortWorks(call[w].strategy) THEN dirty ELSE dirty \cup {w}
              /\ GoOn(w, "failed")
              /\ UNCHANGED target
           \/ /\ NothingToCommit(w, s)
              /\ GoOn(w, "failed")
              /\ UNCHANGED <<target, dirty>>
           \/ /\ ~ NothingToCommit(w, s)
              /\ target' = [target EXCEPT ![s] = work[s]]
              /\ GoOn(w, "mark")
              /\ UNCHANGED dirty
        /\ UNCHANGED work
  /\ UNCHANGED <<setting, entry, status, cuts>>

MarkStreamMerged(w) ==
  /\ WorkerAt(w, "mark")
  /\ status' = [status EXCEPT ![call[w].stream] = "merged"]
  /\ GoOn(w, "merged")
  /\ UNCHANGED <<setting, entry, targetVars, cuts>>

\* the entry's outcome; an entry that is gone makes the update throw, out of the loop
Finish(w, st) ==
  LET e == call[w].entry IN
  IF Exists(e)
  THEN /\ entry' = [entry EXCEPT ![e].status = st,
                                 ![e].commit = IF st = "merged" THEN target[entry[e].stream] ELSE @]
       /\ GoOn(w, "pick")
  ELSE EndWork(w) /\ UNCHANGED entry

\* mutant: the result's success is not looked at
EntryAlwaysMerged(w) ==
  /\ WorkerAt(w, "failed")
  /\ Finish(w, "merged")
  /\ UNCHANGED <<setting, status, targetVars, cuts>>
\* mutant: the entry is tried again
EntryRetried(w) ==
  /\ WorkerAt(w, "failed")
  /\ Finish(w, "ready")
  /\ UNCHANGED <<setting, status, targetVars, cuts>>
EntryFailed(w) ==
  /\ WorkerAt(w, "failed")
  /\ Finish(w, "failed")
  /\ UNCHANGED <<setting, status, targetVars, cuts>>

EntryMerged(w) ==
  /\ WorkerAt(w, "merged")
  /\ Finish(w, "merged")
  /\ UNCHANGED <<setting, status, targetVars, cuts>>

-----------------------------------------------------------------------------
(* Everything else *)

\* pause, resume, conflict and its end, abandon
ChangeStatus(s) ==
  /\ Quiet
  /\ \/ status[s] = "active" /\ status' = [status EXCEPT ![s] = "paused"]
     \/ status[s] \in {"paused", "conflicted"} /\ status' = [status EXCEPT ![s] = "active"]
  /\ UNCHANGED <<setting, entry, targetVars, call, cuts>>

CommitToStream(s) ==
  /\ Quiet
  /\ work[s] < setting.work
  /\ work' = [work EXCEPT ![s] = @ + 1]
  /\ UNCHANGED <<setting, entry, status, target, holder, dirty, call, cuts>>

\* a worktree goes on to another branch, or is cleaned by hand
Leave(w) ==
  /\ FreeWorker(w)
  /\ holder' = IF holder = w THEN None ELSE holder
  /\ dirty' = dirty \ {w}
  /\ UNCHANGED <<setting, entry, status, work, target, call, cuts>>

WorkerDies(w) ==
  /\ call[w] # NoQueueCall
  /\ cuts < setting.crashes
  /\ cuts' = cuts + 1
  /\ EndWork(w)
  /\ UNCHANGED <<setting, entry, status, targetVars>>

QueueStep(w) ==
  \/ InsertEntry(w) \/ PickEntry(w) \/ MergeStream(w) \/ MarkStreamMerged(w)
  \/ EntryFailed(w) \/ EntryMerged(w)

QueueNext ==
  \/ \E w \in setting.workers : QueueStep(w) \/ Leave(w) \/ WorkerDies(w)
  \/ \E w \in setting.workers, s \in setting.streams : AddToQueue(w, s)
  \/ \E w \in setting.workers, x \in setting.strategies : ProcessQueue(w, x)
  \/ \E s \in setting.pausing : ChangeStatus(s)
  \/ \E s \in setting.streams : CommitToStream(s)
  \/ Manage

QueueSpec == QueueInit /\ [][QueueNext]_queueVars

\* a call that has begun is carried on, and someone processes the queue whenever
\* something in it is ready
FairQueueSpec ==
  /\ QueueSpec
  /\ \A w \in Workers : WF_queueVars(QueueStep(w))
  /\ SF_queueVars(\E w \in Workers, x \in {"merge-commit", "squash", "rebase"} :
               /\ w \in setting.workers /\ x \in setting.strategies
               /\ ProcessQueue(w, x))

-----------------------------------------------------------------------------
\* "Check if stream is already in queue for this target": of the entries of a stream
\* that may still be merged, one at most was not made ready again by a caller after it
\* had failed.  (An entry that fails, another that is added for its stream and markReady
\* of the first are two; markReady does not look.)
OneActiveEntry == ~ setting.interleaved =>
  \A s \in Streams :
    Cardinality({e \in Entries :
      entry[e].stream = s /\ entry[e].status \in Active /\ ~ entry[e].again}) <= 1

\* An entry is recorded as merged only with a commit of the target that has the
\* stream's work, and no later step takes it out again.
MergedIsInTarget ==
  \A e \in Entries : entry[e].status = "merged" =>
    entry[e].commit > 0 /\ entry[e].commit <= target[entry[e].stream]

\* An entry that is recorded as failed has not been merged.
FailedIsNotMerged == ~ setting.interleaved =>
  \A e \in Entries : entry[e].status = "failed" => entry[e].commit = 0

\* The rows of one stream: added once while one waits, and a failure is one.
EntryInv == QueueTypeOK /\ OneActiveEntry /\ FailedIsNotMerged

\* What is merged next is the ready entry of the lowest priority number, and the
\* oldest of those.
PriorityRespected ==
  [][~ setting.interleaved => \A e \in Entries : entry[e].status # "merging" /\ entry'[e].status = "merging" =>
       \A f \in Entries : entry[f].status = "ready" =>
         \/ entry[e].priority < entry[f].priority
         \/ entry[e].priority = entry[f].priority /\ entry[e].addedAt <= entry[f].addedAt]_queueVars

\* Conflicts are "recoverable": the merge is aborted, and the worktree can be used for
\* the next entry.
WorktreeLeftClean == \A w \in Workers : call[w] = NoQueueCall => w \notin dirty

\* no overlapping calls, and none cut short
Orderly == ~ setting.interleaved /\ setting.crashes = 0

\* callers go on making entries ready
ReadiedForEver ==
  []<><<\E e \in Entries : entry[e].status # "ready" /\ entry'[e].status = "ready">>_queueVars

\* What is ready is decided one day, whatever its priority: always if processQueue is
\* given a limit that none of the entries is beyond; with a smaller one, as the default
\* of 1, unless callers make entries ready for ever, for those can be ahead every time.
ReadyIsDecided == Orderly =>
  \/ setting.limit < Cardinality(setting.entries) /\ ReadiedForEver
  \/ \A e \in Entries : entry[e].status = "ready" ~> entry[e].status \notin Active

=============================================================================
