------------------------------ MODULE Sessions ------------------------------
(***************************************************************************)
(* The processes that use the library, each with a tracker: a tracker      *)
(* opens its database (Startup), gives agents worktrees (Worktrees) and    *)
(* takes snapshots of them (Snapshots); agents rewrite a stream under its  *)
(* guard (Guards) with its changes kept up to date (Changes), under an     *)
(* operation checkpoint of src/src/recovery.ts; a process dies, opens its  *)
(* tracker again, and recovers.                                            *)
(*                                                                         *)
(* Reading the stream and writing it are far apart, with other agents in   *)
(* between.  Writing is synchronous code: validateGuard, checkpoint, git,  *)
(* the rows, touchGuard and completeCheckpoint follow each other with      *)
(* nothing of the same process in between, but the process may die.        *)
(***************************************************************************)
EXTENDS Snapshots, Guards, Changes

\* What a setting says besides:
\*   old           whether the trackers still have to open their database, a new
\*                 one or one of an earlier release
\*   reopens       whether a process that died opens its tracker again, step by step
\*   skipRecovery  the option of TrackerOptions
\*   writers       the agents that write to the stream, all of one process
ASSUME SessionsAssumption ==
  /\ ChangeIds \subseteq Nat /\ NoCommit \notin ChangeIds /\ MaxRewrites \in Nat
  /\ \A t \in Settings : {t.old, t.reopens, t.skipRecovery} \subseteq BOOLEAN /\ t.writers \subseteq Writers

VARIABLES
  call,       \* what the process that writes is doing
  checkpoints \* operation_checkpoints: what the branch was before an operation

clvars == <<guvars, chvars, call, checkpoints>>
vars == <<stvars, wtvars, snvars, clvars>>

CallPcs == {"idle", "git", "rows", "touch", "complete"}

Checkpoint == [agent : Writers, before : SUBSET Commit, lost : SUBSET ChangeIds]

NoCall == [pc |-> "idle", agent |-> NoWriter, todo |-> <<>>]

WorkspaceTypeOK == StartupTypeOK /\ WorktreesTypeOK /\ SnapshotsTypeOK

StreamTypeOK ==
  /\ GuardsTypeOK /\ ChangesTypeOK
  /\ call.pc \in CallPcs /\ call.agent \in Writers \cup {NoWriter}
  /\ \A cp \in checkpoints : cp \in Checkpoint

Init ==
  /\ WorktreesInit /\ SnapshotsInit /\ GuardsInit /\ ChangesInit
  /\ IF setting.old THEN StartupInit
     ELSE /\ opening = [p \in Procs |-> [Closed EXCEPT !.pc = "open"]]
          /\ schema = WholeSchema /\ versions = 1 .. Latest
  /\ call = NoCall
  /\ checkpoints = {}

Ready == call.pc = "idle" /\ \A p \in setting.procs : Open(p)

-----------------------------------------------------------------------------
(* The tracker *)

\* startupRecovery, step 1: incomplete checkpoints are cleared, nothing is reset
StartupRecovery(p) ==
  /\ Is(p, "recover")
  /\ checkpoints' = IF setting.skipRecovery THEN checkpoints ELSE {}
  /\ Move(p, [Closed EXCEPT !.pc = "open"])
  /\ UNCHANGED <<schema, versions, wtvars, snvars, guvars, chvars, call>>

Opening(p) ==
  /\ OpeningStep(p) \/ RollbackStep(p)
  /\ UNCHANGED <<wtvars, snvars, clvars>>

Rollback(p) ==
  /\ MayUse("rollbacks")
  /\ BeginRollback(p)
  /\ UNCHANGED <<setting, alive, row, tree, dir, work, made, left, proc, snvars, clvars>>

Close(p) ==
  /\ setting.old
  /\ CloseTracker(p)
  /\ UNCHANGED <<wtvars, snvars, clvars>>

\* What the process was doing is over; what it has written stays.  Bound: where
\* the opening is not looked at, a process that died has its tracker again at once.
Crash(p) ==
  /\ IF setting.reopens THEN ~ Is(p, "closed") /\ Move(p, Closed)
     ELSE ~ At(p, "idle") /\ UNCHANGED opening
  /\ MayUse("crashes")
  /\ Return(p)
  /\ call' = NoCall
  /\ session' = [a \in Writers |-> Away]
  /\ UNCHANGED <<schema, versions, setting, alive, row, tree, dir, work, made, left, snvars,
                 guard, version, chvars, checkpoints>>

(* Worktrees and snapshots *)

WorktreeStep(p) == WorktreeSteps(p) /\ UNCHANGED <<stvars, snvars, clvars>>
SnapshotStep(p) == RecordSnapshot(p) /\ UNCHANGED <<stvars, clvars>>
WorktreeCall(p) == Open(p) /\ WorktreeCalls(p) /\ UNCHANGED <<stvars, snvars, clvars>>
SnapshotCall(p) == Open(p) /\ SnapshotCalls(p) /\ UNCHANGED <<stvars, clvars>>
Outside == Others /\ UNCHANGED <<stvars, snvars, clvars>>

-----------------------------------------------------------------------------
(* A write, as OVERVIEW.md has it: read, work, validate, write, touch *)

Read(a) ==
  /\ Ready
  /\ version < setting.writes
  /\ ReadStream(a)
  /\ UNCHANGED <<stvars, wtvars, snvars, chvars, call, checkpoints>>

Abandon(a) ==
  /\ Ready
  /\ GiveUp(a)
  /\ UNCHANGED <<stvars, wtvars, snvars, chvars, call, checkpoints>>

\* validateGuard, and checkpoint.  Bound: after a death nothing is written; the
\* rows are not reset with the branch, and follow it no further.
Begin(a) ==
  /\ Ready
  /\ used.crashes = 0
  /\ session[a].working /\ ValidateGuard(a)
  /\ version < setting.writes
  /\ checkpoints' = {[agent |-> a, before |-> branch, lost |-> lost]}
  /\ call' = [NoCall EXCEPT !.pc = "git", !.agent = a]
  /\ UNCHANGED <<stvars, wtvars, snvars, guvars, chvars>>

WriteGit ==
  /\ call.pc = "git"
  /\ \E r \in Additions \cup Rewrites :
       /\ r \in Rewrites => rewrites < MaxRewrites
       /\ branch' = r.branch /\ lost' = r.lost
       /\ rewrites' = IF r \in Rewrites THEN rewrites + 1 ELSE rewrites
       /\ call' = [call EXCEPT !.pc = IF r.todo = <<>> THEN "touch" ELSE "rows", !.todo = r.todo]
  /\ version' = version + 1
  /\ UNCHANGED <<stvars, wtvars, snvars, guard, session, change, checkpoints>>

WriteRow ==
  /\ call.pc = "rows"
  /\ Apply(Head(call.todo))
  /\ call' = [call EXCEPT !.todo = Tail(@), !.pc = IF Len(call.todo) = 1 THEN "touch" ELSE "rows"]
  /\ UNCHANGED <<stvars, wtvars, snvars, guvars, branch, rewrites, lost, checkpoints>>

Touch ==
  /\ call.pc = "touch"
  /\ TouchGuard(call.agent)
  /\ call' = [call EXCEPT !.pc = "complete"]
  /\ UNCHANGED <<stvars, wtvars, snvars, version, chvars, checkpoints>>

CompleteCheckpoint ==
  /\ call.pc = "complete"
  /\ checkpoints' = {cp \in checkpoints : cp.agent # call.agent}
  /\ call' = NoCall
  /\ UNCHANGED <<stvars, wtvars, snvars, guvars, chvars>>

\* recoverCheckpoint, to git reset --hard; completeCheckpoint follows
RecoverCheckpoint(cp) ==
  /\ Ready
  /\ branch' = cp.before /\ lost' = cp.lost
  /\ call' = [NoCall EXCEPT !.pc = "complete", !.agent = cp.agent]
  /\ UNCHANGED <<stvars, wtvars, snvars, guvars, change, rewrites, checkpoints>>

Write == WriteGit \/ WriteRow \/ Touch \/ CompleteCheckpoint

Next ==
  \/ \E p \in setting.procs :
       \/ Opening(p) \/ StartupRecovery(p) \/ Rollback(p) \/ Close(p) \/ Crash(p)
       \/ WorktreeCall(p) \/ WorktreeStep(p) \/ SnapshotCall(p) \/ SnapshotStep(p)
  \/ Outside
  \/ \E a \in setting.writers : Read(a) \/ Abandon(a) \/ Begin(a)
  \/ \E cp \in checkpoints : RecoverCheckpoint(cp)
  \/ Write

Spec == Init /\ [][Next]_vars

Collect(a) ==
  /\ a \notin alive
  /\ \E p \in setting.procs : Open(p) /\ DeallocateWorktree(p, a) /\ UNCHANGED <<stvars, snvars, clvars>>

\* A process that runs goes on, and one whose tracker did not open tries again;
\* the worktrees of agents that are gone are deallocated again and again
\* (findStaleWorktrees).
FairSpec ==
  /\ Spec
  /\ \A p \in Procs : WF_vars(p \in setting.procs /\ (Opening(p) \/ StartupRecovery(p)))
  /\ \A p \in Procs : WF_vars(WorktreeStep(p) \/ SnapshotStep(p))
  /\ \A a \in Agents : SF_vars(Collect(a))

-----------------------------------------------------------------------------
\* A tracker that has opened has every table and column of this release,
\* whatever release the database is from, whoever opens it at the same time,
\* and wherever an earlier attempt died.
OpenedHasSchema == \A p \in Procs : Open(p) \/ Is(p, "recover") => schema = WholeSchema

\* An attempt that loses a race against another process's migration fails, but
\* the tracker opens in the end.
OpensInTheEnd == \A p \in Procs : p \in setting.procs /\ Is(p, "closed") ~> Open(p)

\* Rows and git agree: about worktrees, those of cascades, and snapshots.
WorkspaceInv == WorkspaceTypeOK /\ RowsTrue /\ TempGone /\ SnapshotHoldsWork

\* The row of an agent that is gone does not stay: its id and its worktree can
\* be used again, though deallocations are cut short and removals fail.
DeadAgentsGone == \A a \in Agents : a \notin alive ~> a \notin alive /\ row[a] = NoRow

\* An agent that passes the validation writes on what it has read: no write of
\* another agent comes between.
NoLostUpdate ==
  call.pc = "git" => session[call.agent].seen = version

\* Every active change follows its commit through the rewrites, unless a rebase
\* altered or dropped its patch, and the commits of changes that are not merged
\* can be found again through the histories, even when a process died in a
\* write, if the write is then undone with recoverCheckpoint, for which the
\* checkpoint must still be there (skipRecovery).
ChangesFollow ==
  /\ StreamTypeOK
  /\ RowsConsistent
  /\ call.pc = "idle" =>
       /\ used.crashes = 0 => \A c \in ChangeIds : Active(c) /\ c \notin lost => Followed(c)
       /\ checkpoints = {} /\ (used.crashes = 0 \/ setting.skipRecovery) =>
            \A k \in branch : k.id \in lost \/ change[k.id].status = "merged" \/ Findable(k)

=============================================================================
