------------------------- MODULE WorkerTasksProofs -------------------------
(***************************************************************************)
(* Proofs about WorkerTasks for every set of tasks and agents, every bound *)
(* and both values of Interleaved: what holds here holds under any overlap *)
(* of calls and with a crash between any two steps.  The last part is on   *)
(* the merge queue, where streams with completed work wait to be merged.   *)
(***************************************************************************)
EXTENDS WorkerTasks, MergeQueue, FiniteSetTheorems, TLAPS

(* What the scheduling operators do to proc. *)

LEMMA IdleType == Idle \in Process
  BY DEF Idle, Call, Process, Pcs, BranchPcs

LEMMA GotoType ==
  ASSUME NEW p \in Procs, NEW pc \in Pcs, proc \in [Procs -> Process], Goto(p, pc),
         pc \in BranchPcs => proc[p].pc \in BranchPcs
  PROVE  proc' \in [Procs -> Process]
  BY DEF Goto, Process

LEMMA ReturnType ==
  ASSUME NEW p \in Procs, proc \in [Procs -> Process], Return(p)
  PROVE  proc' \in [Procs -> Process]
  BY IdleType DEF Return

LEMMA ContinueType ==
  ASSUME NEW p \in Procs, NEW pc \in Pcs \ BranchPcs, NEW x,
         proc \in [Procs -> Process], Continue(p, pc, x)
  PROVE  proc' \in [Procs -> Process]
  <1>1. proc[p].todo \ {x} \in SUBSET (Tasks \cup Branches)
    BY DEF Process
  <1>2. Call(pc, NoTask, NoBranch, {}, proc[p].todo \ {x}) \in Process
    BY <1>1 DEF Process, Call
  <1> QED BY <1>2, ReturnType DEF Continue

\* a call begins
LEMMA BeginType ==
  ASSUME NEW p \in Procs, NEW pc \in Pcs, NEW t \in Tasks \cup {NoTask},
         NEW b \in Branches \cup {NoBranch, Stream, Elsewhere}, NEW src \in SUBSET Work,
         NEW todo \in SUBSET (Tasks \cup Branches),
         pc \in BranchPcs => t \in Tasks /\ b \in Branches,
         proc \in [Procs -> Process],
         proc' = [proc EXCEPT ![p] = Call(pc, t, b, src, todo)]
  PROVE  proc' \in [Procs -> Process]
  BY DEF Process, Call

LEMMA PcsFacts ==
  /\ {"start_checkout", "start_update", "merge", "merge_abort", "record"} \subseteq Pcs
  /\ {"complete_update", "release_check", "release_update"} \subseteq Pcs
  /\ {"abandon_delete", "abandon_update", "recover"} \subseteq Pcs
  /\ {"cleanup_select", "cleanup_delete", "cleanup_clear", "detect_restore"} \subseteq Pcs
  BY DEF Pcs

\* The row operations keep rows well-formed.
LEMMA RowType ==
  ASSUME NEW r \in TaskRow
  PROVE  /\ Reopened(r) \in TaskRow
         /\ [r EXCEPT !.branch = NoBranch] \in TaskRow
         /\ \A s \in Statuses : [r EXCEPT !.status = s] \in TaskRow
  BY DEF Reopened, TaskRow, Statuses

\* The types are invariant: every row, ref and worktree of WorkerTasks stays
\* in its domain whatever steps the calls take.
LEMMA TypeStep == TypeOK /\ [Next]_vars => TypeOK'
<1> SUFFICES ASSUME TypeOK, [Next]_vars PROVE TypeOK'
  OBVIOUS
<1> USE ConstantsAssumption DEF TypeOK
<1>a. Agents \subseteq Procs /\ Coordinator \in Procs
  BY DEF Procs
<1>1. ASSUME NEW t \in Tasks, CreateTask(t) PROVE TypeOK'
  BY <1>1, RowType DEF CreateTask, gitVars, Statuses
<1>2. ASSUME NEW p \in Agents, NEW t \in Tasks, StartTask(p, t) PROVE TypeOK'
  <2> DEFINE b == <<t, starts[t] + 1>>
  <2>1. b \in Branches
    BY <1>2 DEF StartTask, Branches
  <2>2. starts[t] + 1 \in 0 .. MaxStarts
    BY <1>2 DEF StartTask
  <2>3. /\ starts' = [starts EXCEPT ![t] = starts[t] + 1]
        /\ refs' = refs \cup {b}
        /\ tip' = [tip EXCEPT ![b] = stream]
        /\ proc' = [proc EXCEPT ![p] = Call("start_checkout", t, b, {}, {})]
        /\ UNCHANGED <<task, merges, active, stream, made, wt, crashes>>
    BY <1>2 DEF StartTask
  <2> HIDE DEF b
  <2>4. proc' \in [Procs -> Process]
    <3>1. Call("start_checkout", t, b, {}, {}) \in Process
      BY <2>1, PcsFacts DEF Call, Process, BranchPcs
    <3> QED BY <3>1, <2>3, <1>a
  <2> QED BY <2>1, <2>2, <2>3, <2>4
<1>3. ASSUME NEW p \in Agents, StartCheckout(p) PROVE TypeOK'
  <2>1. proc' \in [Procs -> Process]
    BY <1>3, <1>a, PcsFacts, GotoType, ReturnType DEF StartCheckout, At, BranchPcs
  <2>2. wt' \in [Agents -> Worktree]
    BY <1>3 DEF StartCheckout, CanCheckout, Worktree
  <2> QED BY <2>1, <2>2, <1>3 DEF StartCheckout
<1>4. ASSUME NEW p \in Agents, StartUpdate(p) PROVE TypeOK'
  <2>1. proc' \in [Procs -> Process]
    BY <1>4, <1>a, ReturnType DEF StartUpdate
  <2>2. proc[p].branch \in Branches /\ proc[p].task \in Tasks
    BY <1>4, <1>a DEF StartUpdate, At, BranchPcs, Process
  <2>3. [status |-> "in_progress", agent |-> p, branch |-> proc[p].branch] \in TaskRow
    BY <2>2 DEF TaskRow, Statuses
  <2> QED BY <2>1, <2>2, <2>3, <1>4 DEF StartUpdate, gitVars
<1>5. ASSUME NEW p \in Agents, Commit(p) PROVE TypeOK'
  <2> DEFINE b == wt[p].on
  <2>1. PICK n \in 1 .. MaxWork : /\ made' = made \cup {<<b[1], n>>}
                                  /\ tip' = [tip EXCEPT ![b] = tip[b] \cup {<<b[1], n>>}]
    BY <1>5 DEF Commit
  <2>2. b \in Branches /\ <<b[1], n>> \in Work
    BY <1>5 DEF Commit, Branches, Work
  <2>3. UNCHANGED <<task, merges, active, stream, refs, starts, wt, proc, crashes>>
    BY <1>5 DEF Commit
  <2> HIDE DEF b
  <2> QED BY <2>1, <2>2, <2>3
<1>6. ASSUME NEW p \in Agents, LeaveWorktree(p) PROVE TypeOK'
  BY <1>6 DEF LeaveWorktree, Worktree
<1>7. ASSUME NEW p \in Agents, NEW t \in Tasks, CompleteTask(p, t) PROVE TypeOK'
  <2>1. task[t].branch \in Branches /\ tip[task[t].branch] \in SUBSET Work
    BY <1>7 DEF CompleteTask
  <2>2. proc' \in [Procs -> Process]
    <3>1. Call("merge", t, task[t].branch, tip[task[t].branch], {}) \in Process
      BY <2>1, PcsFacts DEF Call, Process, BranchPcs
    <3> QED BY <3>1, <1>7, <1>a DEF CompleteTask
  <2>3. wt' \in [Agents -> Worktree]
    BY <1>7 DEF CompleteTask, Worktree
  <2> QED BY <2>2, <2>3, <1>7 DEF CompleteTask
<1>8. ASSUME NEW p \in Agents, Merge(p) PROVE TypeOK'
  <2>1. proc' \in [Procs -> Process]
    BY <1>8, <1>a, PcsFacts, GotoType DEF Merge, At, BranchPcs
  <2> QED BY <2>1, <1>8 DEF Merge
<1>9. ASSUME NEW p \in Agents, MergeConflicts(p) PROVE TypeOK'
  <2>1. proc' \in [Procs -> Process]
    BY <1>9, <1>a, PcsFacts, GotoType DEF MergeConflicts, At, BranchPcs
  <2>2. wt' \in [Agents -> Worktree]
    BY <1>9 DEF MergeConflicts, Worktree
  <2> QED BY <2>1, <2>2, <1>9 DEF MergeConflicts
<1>10. ASSUME NEW p \in Agents, MergeThrows(p) PROVE TypeOK'
  BY <1>10, <1>a, ReturnType DEF MergeThrows, gitVars
<1>11. ASSUME NEW p \in Agents, MergeAbort(p) PROVE TypeOK'
  <2>1. proc' \in [Procs -> Process]
    BY <1>11, <1>a, PcsFacts, GotoType DEF MergeAbort, BranchPcs
  <2>2. wt' \in [Agents -> Worktree]
    BY <1>11 DEF MergeAbort, Worktree
  <2> QED BY <2>1, <2>2, <1>11 DEF MergeAbort
<1>12. ASSUME NEW p \in Agents, RecordTaskMerge(p) PROVE TypeOK'
  <2>1. proc' \in [Procs -> Process]
    BY <1>12, <1>a, PcsFacts, GotoType DEF RecordTaskMerge, At, BranchPcs
  <2>2. /\ proc[p].branch \in Branches /\ proc[p].task \in Tasks
        /\ proc[p].source \in SUBSET Work
    BY <1>12, <1>a DEF RecordTaskMerge, At, BranchPcs, Process
  <2>3. merges' \subseteq MergeRow
    BY <1>12, <2>2 DEF RecordTaskMerge, MergeRow
  <2> QED BY <2>1, <2>3, <1>12 DEF RecordTaskMerge, gitVars
<1>13. ASSUME NEW p \in Agents, CompleteUpdate(p) PROVE TypeOK'
  <2>1. proc' \in [Procs -> Process]
    BY <1>13, <1>a, ReturnType DEF CompleteUpdate
  <2> QED BY <2>1, <1>13, RowType DEF CompleteUpdate, gitVars, Statuses
<1>14. ASSUME NEW t \in Tasks, ReleaseTask(t) PROVE TypeOK'
  <2>1. proc' \in [Procs -> Process]
    <3>1. Call("release_update", t, NoBranch, {}, {}) \in Process
      BY PcsFacts DEF Call, Process, BranchPcs
    <3> QED BY <3>1, <1>14, <1>a DEF ReleaseTask
  <2> QED BY <2>1, <1>14 DEF ReleaseTask, gitVars
<1>15. ASSUME NEW p \in Procs, ReleaseCheck(p) PROVE TypeOK'
  <2>1. proc' \in [Procs -> Process]
    BY <1>15, PcsFacts, GotoType, ReturnType DEF ReleaseCheck, BranchPcs
  <2> QED BY <2>1, <1>15 DEF ReleaseCheck, gitVars
<1>16. ASSUME NEW p \in Procs, ReleaseUpdate(p) PROVE TypeOK'
  BY <1>16, ReturnType, RowType DEF ReleaseUpdate, gitVars
<1>17. ASSUME NEW t \in Tasks, NEW d \in BOOLEAN, AbandonTask(t, d) PROVE TypeOK'
  <2>1. task[t].branch \in Branches \cup {NoBranch, Stream, Elsewhere}
    BY DEF TaskRow
  <2>2. proc' \in [Procs -> Process]
    <3>1. \A pc \in {"abandon_delete", "abandon_update"} : Call(pc, t, task[t].branch, {}, {}) \in Process
      BY <2>1, PcsFacts DEF Call, Process, BranchPcs
    <3> QED BY <3>1, <1>17, <1>a DEF AbandonTask
  <2> QED BY <2>2, <1>17 DEF AbandonTask, gitVars
<1>18. ASSUME NEW p \in Procs, AbandonDelete(p) PROVE TypeOK'
  <2>1. proc' \in [Procs -> Process]
    BY <1>18, PcsFacts, GotoType DEF AbandonDelete, BranchPcs
  <2> QED BY <2>1, <1>18 DEF AbandonDelete
<1>19. ASSUME NEW p \in Procs, AbandonUpdate(p) PROVE TypeOK'
  BY <1>19, ReturnType, RowType DEF AbandonUpdate, gitVars, Statuses
<1>20. ASSUME NEW S \in SUBSET Tasks, RecoverStaleTasks(S) PROVE TypeOK'
  <2>1. proc' \in [Procs -> Process]
    BY <1>20, <1>a, PcsFacts, BeginType DEF RecoverStaleTasks, BranchPcs
  <2> QED BY <2>1, <1>20 DEF RecoverStaleTasks, gitVars
<1>21. ASSUME NEW p \in Procs, NEW t \in Tasks, RecoverUpdate(p, t) PROVE TypeOK'
  <2>1. proc' \in [Procs -> Process]
    BY <1>21, PcsFacts, ContinueType DEF RecoverUpdate, BranchPcs
  <2> QED BY <2>1, <1>21, RowType DEF RecoverUpdate, gitVars
<1>22. ASSUME CleanupWorkerBranches PROVE TypeOK'
  <2>1. proc' \in [Procs -> Process]
    BY <1>22, <1>a, PcsFacts, BeginType DEF CleanupWorkerBranches, BranchPcs
  <2> QED BY <2>1, <1>22 DEF CleanupWorkerBranches, gitVars
<1>23. ASSUME NEW p \in Procs, NEW b \in Branches, CleanupSelect(p, b) PROVE TypeOK'
  <2>t. proc[p].todo \in SUBSET (Tasks \cup Branches)
    BY DEF Process
  <2>1. proc' \in [Procs -> Process]
    <3>1. CASE proc' = [proc EXCEPT ![p] = Call("cleanup_delete", NoTask, b, {}, @.todo)]
      BY <3>1, <2>t, PcsFacts, BeginType DEF BranchPcs
    <3>2. ASSUME NEW t \in Tasks,
                 proc' = [proc EXCEPT ![p] = Call("cleanup_delete", t, b, {}, @.todo)]
          PROVE  proc' \in [Procs -> Process]
      BY <3>2, <2>t, PcsFacts, BeginType DEF BranchPcs
    <3>3. CASE Continue(p, "cleanup_select", b)
      BY <3>3, PcsFacts, ContinueType DEF BranchPcs
    <3> QED BY <3>1, <3>2, <3>3, <1>23 DEF CleanupSelect, RowsOf
  <2> QED BY <2>1, <1>23 DEF CleanupSelect, gitVars
<1>24. ASSUME NEW p \in Procs, CleanupDelete(p) PROVE TypeOK'
  <2>1. proc' \in [Procs -> Process]
    BY <1>24, PcsFacts, GotoType, ContinueType DEF CleanupDelete, BranchPcs
  <2> QED BY <2>1, <1>24 DEF CleanupDelete
<1>25. ASSUME NEW p \in Procs, CleanupClear(p) PROVE TypeOK'
  <2>1. proc' \in [Procs -> Process]
    BY <1>25, PcsFacts, ContinueType DEF CleanupClear, BranchPcs
  <2> QED BY <2>1, <1>25, RowType DEF CleanupClear, gitVars
<1>26. ASSUME NEW p \in Agents, NEW t \in Tasks, DetectTaskConflicts(p, t) PROVE TypeOK'
  <2>1. wt[p].on \in Branches \cup {Stream, Elsewhere}
    BY DEF Worktree
  <2>2. proc' \in [Procs -> Process]
    <3>1. Call("detect_restore", NoTask, wt[p].on, {}, {}) \in Process
      BY <2>1, PcsFacts DEF Call, Process, BranchPcs
    <3> QED BY <3>1, <1>26, <1>a DEF DetectTaskConflicts
  <2>3. wt' \in [Agents -> Worktree]
    BY <1>26 DEF DetectTaskConflicts, Worktree
  <2> QED BY <2>2, <2>3, <1>26 DEF DetectTaskConflicts
<1>27. ASSUME NEW p \in Agents, DetectRestore(p) PROVE TypeOK'
  <2>1. proc' \in [Procs -> Process]
    BY <1>27, <1>a, ReturnType DEF DetectRestore
  <2>2. wt' \in [Agents -> Worktree]
    BY <1>27 DEF DetectRestore, Worktree
  <2> QED BY <2>1, <2>2, <1>27 DEF DetectRestore
<1>28. ASSUME SetStreamStatus PROVE TypeOK'
  BY <1>28 DEF SetStreamStatus, gitVars
<1>29. ASSUME NEW p \in Procs, Crash(p) PROVE TypeOK'
  BY <1>29, ReturnType DEF Crash, gitVars
<1>30. CASE UNCHANGED vars
  BY <1>30 DEF vars, gitVars
<1> QED
  BY <1>1, <1>2, <1>3, <1>4, <1>5, <1>6, <1>7, <1>8, <1>9, <1>10, <1>11, <1>12, <1>13, <1>14,
     <1>15, <1>16, <1>17, <1>18, <1>19, <1>20, <1>21, <1>22, <1>23, <1>24, <1>25, <1>26,
     <1>27, <1>28, <1>29, <1>30, <1>a
  DEF Next, Step, AgentNext, CoordinatorNext

-----------------------------------------------------------------------------
(* Steps that neither merge nor record: they leave the stream, the merge    *)
(* records and the branch tips alone, complete no task, and move their      *)
(* process to a step the invariants say nothing about.                      *)

QuietAction ==
  \/ \E t \in Tasks : CreateTask(t) \/ ReleaseTask(t)
  \/ \E t \in Tasks, d \in BOOLEAN : AbandonTask(t, d)
  \/ \E S \in SUBSET Tasks : RecoverStaleTasks(S)
  \/ CleanupWorkerBranches
  \/ SetStreamStatus
  \/ \E p \in Procs : \/ ReleaseCheck(p) \/ ReleaseUpdate(p) \/ AbandonDelete(p)
                      \/ AbandonUpdate(p) \/ CleanupDelete(p) \/ CleanupClear(p) \/ Crash(p)
  \/ \E p \in Procs, t \in Tasks : RecoverUpdate(p, t)
  \/ \E p \in Procs, b \in Branches : CleanupSelect(p, b)
  \/ \E p \in Agents : StartUpdate(p) \/ MergeThrows(p)

HeldPcs == BranchPcs \cup {"detect_restore"}

\* every process stays where it was or leaves the steps of HeldPcs
Settles == \A q \in Procs : proc'[q] = proc[q] \/ proc'[q].pc \notin HeldPcs

LEMMA ReturnSettles ==
  ASSUME NEW p \in Procs, TypeOK, Return(p)
  PROVE  Settles
  BY DEF Return, Settles, TypeOK, Idle, Call, HeldPcs, BranchPcs

LEMMA GotoSettles ==
  ASSUME NEW p \in Procs, NEW pc, pc \notin HeldPcs, TypeOK, Goto(p, pc)
  PROVE  Settles
  <1>1. \A q \in Procs : q # p => proc'[q] = proc[q]
    BY DEF Goto, TypeOK
  <1>2. proc'[p].pc = pc
    BY DEF Goto, TypeOK, Process
  <1> QED BY <1>1, <1>2 DEF Settles

LEMMA CallSettles ==
  ASSUME NEW p \in Procs, NEW pc, pc \notin HeldPcs, NEW t, NEW b, NEW src, NEW todo, TypeOK,
         proc' = [proc EXCEPT ![p] = Call(pc, t, b, src, todo)]
  PROVE  Settles
  BY DEF Settles, TypeOK, Call

LEMMA ContinueSettles ==
  ASSUME NEW p \in Procs, NEW pc, pc \notin HeldPcs, NEW x, TypeOK, Continue(p, pc, x)
  PROVE  Settles
  BY ReturnSettles, CallSettles DEF Continue

QuietEffect ==
  /\ UNCHANGED <<merges, stream, tip, starts, wt>>
  /\ refs' \subseteq refs
  /\ Settles
  /\ \A t \in Tasks : task'[t].status = "completed" => task[t].status = "completed"

LEMMA QuietStep == TypeOK /\ QuietAction => QuietEffect
<1> SUFFICES ASSUME TypeOK, QuietAction PROVE QuietEffect
  OBVIOUS
<1> USE DEF HeldPcs, BranchPcs, gitVars, QuietEffect
<1>a. Agents \subseteq Procs /\ Coordinator \in Procs
  BY DEF Procs
<1>u. ASSUME UNCHANGED proc PROVE Settles
  BY <1>u DEF Settles
<1>t. task \in [Tasks -> TaskRow]
  BY DEF TypeOK
<1>1. ASSUME NEW t \in Tasks, CreateTask(t) PROVE QuietEffect
  <2>1. \A s \in Tasks : task'[s].status = "completed" => task[s].status = "completed"
    BY <1>1, <1>t DEF CreateTask, TaskRow
  <2> QED BY <2>1, <1>1, <1>u DEF CreateTask
<1>2. ASSUME NEW t \in Tasks, ReleaseTask(t) PROVE QuietEffect
  BY <1>2, <1>a, CallSettles DEF ReleaseTask
<1>3. ASSUME NEW t \in Tasks, NEW d \in BOOLEAN, AbandonTask(t, d) PROVE QuietEffect
  <2>1. Settles
    BY <1>3, <1>a DEF AbandonTask, Settles, TypeOK, Call
  <2> QED BY <2>1, <1>3 DEF AbandonTask
<1>4. ASSUME NEW S \in SUBSET Tasks, RecoverStaleTasks(S) PROVE QuietEffect
  BY <1>4, <1>a, CallSettles DEF RecoverStaleTasks
<1>5. ASSUME CleanupWorkerBranches PROVE QuietEffect
  BY <1>5, <1>a, CallSettles DEF CleanupWorkerBranches
<1>6. ASSUME SetStreamStatus PROVE QuietEffect
  BY <1>6, <1>u DEF SetStreamStatus
<1>7. ASSUME NEW p \in Procs, ReleaseCheck(p) PROVE QuietEffect
  BY <1>7, GotoSettles, ReturnSettles DEF ReleaseCheck
<1>8. ASSUME NEW p \in Procs, ReleaseUpdate(p) PROVE QuietEffect
  <2>1. \A t \in Tasks : task'[t].status = "completed" => task[t].status = "completed"
    BY <1>8, <1>t DEF ReleaseUpdate, Reopened, TaskRow
  <2> QED BY <2>1, <1>8, ReturnSettles DEF ReleaseUpdate
<1>9. ASSUME NEW p \in Procs, AbandonDelete(p) PROVE QuietEffect
  BY <1>9, GotoSettles DEF AbandonDelete
<1>10. ASSUME NEW p \in Procs, AbandonUpdate(p) PROVE QuietEffect
  <2>1. \A t \in Tasks : task'[t].status = "completed" => task[t].status = "completed"
    BY <1>10, <1>t DEF AbandonUpdate, TaskRow
  <2> QED BY <2>1, <1>10, ReturnSettles DEF AbandonUpdate
<1>11. ASSUME NEW p \in Procs, CleanupDelete(p) PROVE QuietEffect
  BY <1>11, GotoSettles, ContinueSettles DEF CleanupDelete
<1>12. ASSUME NEW p \in Procs, CleanupClear(p) PROVE QuietEffect
  <2>1. \A t \in Tasks : task'[t].status = "completed" => task[t].status = "completed"
    BY <1>12, <1>t DEF CleanupClear, TaskRow
  <2> QED BY <2>1, <1>12, ContinueSettles DEF CleanupClear
<1>13. ASSUME NEW p \in Procs, Crash(p) PROVE QuietEffect
  BY <1>13, ReturnSettles DEF Crash
<1>14. ASSUME NEW p \in Procs, NEW t \in Tasks, RecoverUpdate(p, t) PROVE QuietEffect
  <2>1. \A s \in Tasks : task'[s].status = "completed" => task[s].status = "completed"
    BY <1>14, <1>t DEF RecoverUpdate, Reopened, TaskRow
  <2> QED BY <2>1, <1>14, ContinueSettles DEF RecoverUpdate
<1>15. ASSUME NEW p \in Procs, NEW b \in Branches, CleanupSelect(p, b) PROVE QuietEffect
  <2>1. Settles
    BY <1>15, CallSettles, ContinueSettles DEF CleanupSelect
  <2> QED BY <2>1, <1>15 DEF CleanupSelect
<1>16. ASSUME NEW p \in Agents, StartUpdate(p) PROVE QuietEffect
  <2>1. \A t \in Tasks : task'[t].status = "completed" => task[t].status = "completed"
    BY <1>16, <1>t DEF StartUpdate, TaskRow
  <2> QED BY <2>1, <1>16, <1>a, ReturnSettles DEF StartUpdate
<1>17. ASSUME NEW p \in Agents, MergeThrows(p) PROVE QuietEffect
  BY <1>17, <1>a, ReturnSettles DEF MergeThrows
<1> QED
  BY <1>1, <1>2, <1>3, <1>4, <1>5, <1>6, <1>7, <1>8, <1>9, <1>10, <1>11, <1>12, <1>13, <1>14,
     <1>15, <1>16, <1>17
  DEF QuietAction

\* Quiet steps preserve the invariant.
LEMMA QuietInv == IInv /\ TypeOK' /\ QuietEffect => IInv'
<1> SUFFICES ASSUME IInv, TypeOK', QuietEffect PROVE IInv'
  OBVIOUS
<1> USE DEF IInv, QuietEffect, Settles, HeldPcs, BranchPcs, At
<1>1. StartedBranches'
  BY DEF StartedBranches, Started
<1>2. SourceKept'
  BY DEF SourceKept
<1>3. RecordedFirst'
  BY DEF RecordedFirst
<1>4. HoldsStream' /\ OneHolder'
  BY DEF HoldsStream, OneHolder, Merging
<1>5. MergeRecordsBacked' /\ CompletedHasMerge'
  BY DEF MergeRecordsBacked, CompletedHasMerge
<1> QED BY <1>1, <1>2, <1>3, <1>4, <1>5

\* Every step preserves the invariant, the steps of completeTask included.
LEMMA InvStep == IInv /\ [Next]_vars => IInv'
<1> SUFFICES ASSUME IInv, [Next]_vars PROVE IInv'
  OBVIOUS
<1>a. Agents \subseteq Procs /\ Coordinator \in Procs
  BY DEF Procs
<1>b. TypeOK /\ TypeOK'
  BY TypeStep DEF IInv
<1>c. /\ proc \in [Procs -> Process] /\ proc' \in [Procs -> Process]
      /\ wt \in [Agents -> Worktree] /\ tip \in [Branches -> SUBSET Work]
      /\ starts \in [Tasks -> 0 .. MaxStarts] /\ refs \subseteq Branches
      /\ task \in [Tasks -> TaskRow] /\ stream \subseteq Work
  BY <1>b DEF TypeOK
<1> USE DEF IInv
<1>q. CASE QuietAction
  BY <1>q, <1>b, QuietStep, QuietInv
<1>1. ASSUME NEW p \in Agents, NEW t \in Tasks, StartTask(p, t) PROVE IInv'
  <2>0. PICK b \in Branches : b = <<t, starts[t] + 1>>
    BY <1>1, <1>c, ConstantsAssumption DEF StartTask, Branches
  <2>1. /\ refs' = refs \cup {b}
        /\ starts' = [starts EXCEPT ![t] = starts[t] + 1]
        /\ tip' = [tip EXCEPT ![b] = stream]
        /\ proc' = [proc EXCEPT ![p] = Call("start_checkout", t, b, {}, {})]
        /\ UNCHANGED <<task, merges, active, stream, made, wt, crashes>>
    BY <1>1, <2>0 DEF StartTask
  <2>2. /\ proc'[p].pc = "start_checkout" /\ proc'[p].branch = b
        /\ \A q \in Procs : q # p => proc'[q] = proc[q]
    BY <2>1, <1>a, <1>c DEF Call
  <2>3. \A c \in Branches : Started(c) => Started(c)' /\ c # b
    <3> SUFFICES ASSUME NEW c \in Branches, Started(c) PROVE Started(c)' /\ c # b
      OBVIOUS
    <3>1. c[1] \in Tasks /\ c[2] \in Nat /\ c = <<c[1], c[2]>>
      BY DEF Branches
    <3> QED BY <3>1, <2>0, <2>1, <1>c DEF Started
  <2>4. Started(b)'
    BY <2>0, <2>1, <1>c DEF Started
  <2>5. \A q \in Procs : proc[q].pc \in BranchPcs => proc[q].branch \in Branches
    BY <1>c DEF Process
  <2>6. StartedBranches'
    BY <2>1, <2>2, <2>3, <2>4, <2>5, <1>c DEF StartedBranches
  <2>7. SourceKept'
    <3> SUFFICES ASSUME NEW q \in Procs
                 PROVE  /\ At(q, "merge")' => proc'[q].source \subseteq tip'[proc'[q].branch]
                        /\ At(q, "record")' => proc'[q].source \subseteq stream'
      BY DEF SourceKept
    <3>1. CASE q = p
      BY <3>1, <2>2 DEF At
    <3>2. CASE q # p
      <4>1. proc'[q] = proc[q]
        BY <3>2, <2>2
      <4>2. At(q, "merge") => proc[q].branch \in Branches /\ proc[q].branch # b
        BY <2>3, <2>5 DEF At, BranchPcs, StartedBranches
      <4> QED BY <4>1, <4>2, <2>1, <1>c DEF SourceKept, At
    <3> QED BY <3>1, <3>2
  <2>8. RecordedFirst' /\ HoldsStream' /\ OneHolder'
    BY <2>1, <2>2 DEF RecordedFirst, HoldsStream, OneHolder, At, Merging
  <2>9. MergeRecordsBacked' /\ CompletedHasMerge'
    BY <2>1 DEF MergeRecordsBacked, CompletedHasMerge
  <2> QED BY <2>6, <2>7, <2>8, <2>9, <1>b
<1>2. ASSUME NEW p \in Agents, StartCheckout(p) PROVE IInv'
  <2>1. /\ UNCHANGED <<task, merges, stream, refs, tip, starts>>
        /\ At(p, "start_checkout")
    BY <1>2 DEF StartCheckout
  <2>2. /\ \A q \in Procs : q # p => proc'[q] = proc[q]
        /\ \/ proc'[p].pc = "idle"
           \/ proc'[p].pc = "start_update" /\ proc'[p].branch = proc[p].branch
    BY <1>2, <1>a, <1>c DEF StartCheckout, Goto, Return, Idle, Call, Process
  <2>3. proc[p].branch \in Branches
    BY <2>1, <1>a, <1>c DEF At, Process, BranchPcs
  <2>4. /\ \A a \in Agents : a # p => wt'[a] = wt[a]
        /\ wt'[p] = wt[p] \/ wt'[p].on # Stream
    BY <1>2, <2>3, <1>c, ConstantsAssumption DEF StartCheckout, Worktree
  <2>5. StartedBranches' /\ SourceKept' /\ RecordedFirst'
    BY <2>1, <2>2, <1>a DEF StartedBranches, SourceKept, RecordedFirst, At, BranchPcs, Started
  <2>6. HoldsStream' /\ OneHolder'
    BY <2>1, <2>2, <2>4 DEF HoldsStream, OneHolder, Merging, At
  <2>7. MergeRecordsBacked' /\ CompletedHasMerge'
    BY <2>1 DEF MergeRecordsBacked, CompletedHasMerge
  <2> QED BY <2>5, <2>6, <2>7, <1>b
<1>3. ASSUME NEW p \in Agents, Commit(p) PROVE IInv'
  <2> DEFINE b == wt[p].on
  <2>1. PICK n \in 1 .. MaxWork : tip' = [tip EXCEPT ![b] = tip[b] \cup {<<b[1], n>>}]
    BY <1>3 DEF Commit
  <2>2. UNCHANGED <<task, merges, stream, refs, starts, wt, proc>>
    BY <1>3 DEF Commit
  <2>3. \A c \in Branches : tip[c] \subseteq tip'[c]
    BY <2>1, <1>c
  <2>4. \A q \in Procs : proc[q].pc \in BranchPcs => proc[q].branch \in Branches
    BY <1>c DEF Process
  <2>5. SourceKept'
    BY <2>2, <2>3, <2>4 DEF SourceKept, At, BranchPcs
  <2>6. /\ StartedBranches' /\ RecordedFirst' /\ HoldsStream' /\ OneHolder'
        /\ MergeRecordsBacked' /\ CompletedHasMerge'
    BY <2>2 DEF StartedBranches, Started, RecordedFirst, HoldsStream, OneHolder, At, Merging,
                MergeRecordsBacked, CompletedHasMerge
  <2> QED BY <2>5, <2>6, <1>b
<1>4. ASSUME NEW p \in Agents, NEW t \in Tasks, CompleteTask(p, t) PROVE IInv'
  <2> DEFINE b == task[t].branch
  <2>1. /\ UNCHANGED <<task, merges, stream, refs, tip, starts>>
        /\ b \in refs
        /\ proc' = [proc EXCEPT ![p] = Call("merge", t, b, tip[b], {})]
        /\ wt' = [wt EXCEPT ![p].on = Stream]
        /\ \A o \in Agents \ {p} : wt[o].on # Stream
    BY <1>4, ConstantsAssumption DEF CompleteTask, CanCheckout
  <2>2. /\ proc'[p].pc = "merge" /\ proc'[p].branch = b /\ proc'[p].source = tip[b]
        /\ \A q \in Procs : q # p => proc'[q] = proc[q]
    BY <2>1, <1>a, <1>c DEF Call
  <2>3. wt'[p].on = Stream /\ \A a \in Agents : a # p => wt'[a] = wt[a]
    BY <2>1, <1>c DEF Worktree
  <2>4. StartedBranches'
    <3>1. \A c \in refs : Started(c)'
      BY <2>1 DEF StartedBranches, Started
    <3>2. \A q \in Procs : proc'[q].pc \in BranchPcs => proc'[q].branch[2] <= starts'[proc'[q].branch[1]]
      BY <2>1, <2>2 DEF StartedBranches, Started
    <3> QED BY <3>1, <3>2, <2>1 DEF StartedBranches, Started
  <2>5. SourceKept' /\ RecordedFirst'
    BY <2>1, <2>2 DEF SourceKept, RecordedFirst, At
  <2>6. HoldsStream' /\ OneHolder'
    BY <2>1, <2>2, <2>3 DEF HoldsStream, OneHolder, Merging, At
  <2>7. MergeRecordsBacked' /\ CompletedHasMerge'
    BY <2>1 DEF MergeRecordsBacked, CompletedHasMerge
  <2> QED BY <2>4, <2>5, <2>6, <2>7, <1>b
<1>5. ASSUME NEW p \in Agents, Merge(p) PROVE IInv'
  <2>1. /\ UNCHANGED <<task, merges, refs, tip, starts, wt>>
        /\ stream' = stream \cup tip[proc[p].branch]
        /\ At(p, "merge")
    BY <1>5 DEF Merge
  <2>2. /\ proc'[p] = [proc[p] EXCEPT !.pc = "record"]
        /\ \A q \in Procs : q # p => proc'[q] = proc[q]
    BY <1>5, <1>a, <1>c DEF Merge, Goto
  <2>3. /\ proc'[p].pc = "record" /\ proc'[p].branch = proc[p].branch
        /\ proc'[p].source = proc[p].source
    BY <2>2, <1>a, <1>c DEF Process
  <2>4. StartedBranches'
    BY <2>1, <2>2, <2>3, <1>a DEF StartedBranches, Started, At, BranchPcs
  <2>5. SourceKept'
    <3> SUFFICES ASSUME NEW q \in Procs
                 PROVE  /\ At(q, "merge")' => (proc[q].source \subseteq tip[proc[q].branch])'
                        /\ At(q, "record")' => (proc[q].source \subseteq stream)'
      BY DEF SourceKept
    <3>1. CASE q = p
      BY <3>1, <2>1, <2>3, <1>a DEF SourceKept, At
    <3>2. CASE q # p
      BY <3>2, <2>1, <2>2, <1>a DEF SourceKept, At
    <3> QED BY <3>1, <3>2
  <2>9. RecordedFirst'
    <3>1. \A q \in Procs : proc'[q].pc = "complete_update" => proc'[q] = proc[q]
      BY <2>2, <2>3
    <3> QED BY <3>1, <2>1 DEF RecordedFirst, At
  <2>6. HoldsStream' /\ OneHolder'
    BY <2>1, <2>2, <2>3, <1>a DEF HoldsStream, OneHolder, Merging, At
  <2>7. MergeRecordsBacked' /\ CompletedHasMerge'
    BY <2>1 DEF MergeRecordsBacked, CompletedHasMerge
  <2> QED BY <2>9, <2>4, <2>5, <2>6, <2>7, <1>b
<1>6. ASSUME NEW p \in Agents, MergeConflicts(p) \/ MergeAbort(p) PROVE IInv'
  <2>1. /\ UNCHANGED <<task, merges, stream, refs, tip, starts>>
        /\ At(p, "merge") \/ At(p, "merge_abort")
    BY <1>6 DEF MergeConflicts, MergeAbort
  <2>2. /\ \/ proc'[p] = [proc[p] EXCEPT !.pc = "merge_abort"]
           \/ proc'[p] = [proc[p] EXCEPT !.pc = "release_check"]
        /\ \A q \in Procs : q # p => proc'[q] = proc[q]
    BY <1>6, <1>a, <1>c DEF MergeConflicts, MergeAbort, Goto
  <2>3. proc'[p].pc \in {"merge_abort", "release_check"} /\ proc'[p].branch = proc[p].branch
    BY <2>2, <1>a, <1>c DEF Process
  <2>4. \A a \in Agents : wt'[a].on = wt[a].on
    BY <1>6, <1>c DEF MergeConflicts, MergeAbort, Worktree
  <2>5. StartedBranches'
    BY <2>1, <2>2, <2>3, <1>a DEF StartedBranches, Started, At, BranchPcs
  <2>6. SourceKept' /\ RecordedFirst'
    BY <2>1, <2>2, <2>3, <1>a DEF SourceKept, RecordedFirst, At
  <2>7. HoldsStream' /\ OneHolder'
    BY <2>1, <2>2, <2>3, <2>4, <1>a DEF HoldsStream, OneHolder, Merging, At
  <2>8. MergeRecordsBacked' /\ CompletedHasMerge'
    BY <2>1 DEF MergeRecordsBacked, CompletedHasMerge
  <2> QED BY <2>5, <2>6, <2>7, <2>8, <1>b
<1>7. ASSUME NEW p \in Agents, RecordTaskMerge(p) PROVE IInv'
  <2> DEFINE r == [task |-> proc[p].task, branch |-> proc[p].branch,
                   source |-> proc[p].source, merge |-> stream]
  <2>1. /\ UNCHANGED <<task, stream, refs, tip, starts, wt>>
        /\ merges' = merges \cup {r}
        /\ At(p, "record")
    BY <1>7 DEF RecordTaskMerge, gitVars
  <2>2. /\ proc'[p] = [proc[p] EXCEPT !.pc = "complete_update"]
        /\ \A q \in Procs : q # p => proc'[q] = proc[q]
    BY <1>7, <1>a, <1>c DEF RecordTaskMerge, Goto
  <2>3. /\ proc'[p].pc = "complete_update" /\ proc'[p].branch = proc[p].branch
        /\ proc'[p].task = proc[p].task
    BY <2>2, <1>a, <1>c DEF Process
  <2>4. StartedBranches'
    BY <2>1, <2>2, <2>3, <1>a DEF StartedBranches, Started, At, BranchPcs
  <2>5. SourceKept'
    <3> SUFFICES ASSUME NEW q \in Procs
                 PROVE  /\ At(q, "merge")' => (proc[q].source \subseteq tip[proc[q].branch])'
                        /\ At(q, "record")' => (proc[q].source \subseteq stream)'
      BY DEF SourceKept
    <3>1. CASE q = p
      BY <3>1, <2>1, <2>3, <1>a DEF SourceKept, At
    <3>2. CASE q # p
      BY <3>2, <2>1, <2>2, <1>a DEF SourceKept, At
    <3> QED BY <3>1, <3>2
  <2>9. RecordedFirst'
    <3>1. r \in merges' /\ r.task = proc'[p].task /\ merges \subseteq merges'
      BY <2>1, <2>3
    <3>2. \A q \in Procs : q # p /\ proc'[q].pc = "complete_update" =>
                             \E x \in merges : x.task = proc'[q].task
      BY <2>2 DEF RecordedFirst, At
    <3> HIDE DEF r
    <3> QED BY <3>1, <3>2 DEF RecordedFirst, At
  <2>6. HoldsStream' /\ OneHolder'
    BY <2>1, <2>2, <2>3, <1>a DEF HoldsStream, OneHolder, Merging, At
  <2>7. MergeRecordsBacked'
    BY <2>1, <1>a DEF MergeRecordsBacked, SourceKept
  <2>8. CompletedHasMerge'
    BY <2>1 DEF CompletedHasMerge
  <2> QED BY <2>9, <2>4, <2>5, <2>6, <2>7, <2>8, <1>b
<1>8. ASSUME NEW p \in Agents, CompleteUpdate(p) PROVE IInv'
  <2>1. /\ UNCHANGED <<merges, stream, refs, tip, starts, wt>>
        /\ task' = [task EXCEPT ![proc[p].task].status = "completed"]
        /\ At(p, "complete_update")
        /\ Settles
    BY <1>8, <1>a, <1>b, ReturnSettles DEF CompleteUpdate, gitVars
  <2>2. \A t \in Tasks : task'[t].status = "completed" =>
                          task[t].status = "completed" \/ t = proc[p].task
    BY <2>1, <1>c
  <2>3. StartedBranches' /\ SourceKept' /\ RecordedFirst'
    BY <2>1 DEF StartedBranches, Started, SourceKept, RecordedFirst, At, Settles, HeldPcs, BranchPcs
  <2>4. HoldsStream' /\ OneHolder' /\ MergeRecordsBacked'
    BY <2>1 DEF HoldsStream, OneHolder, Merging, MergeRecordsBacked, At, Settles, HeldPcs, BranchPcs
  <2>5. CompletedHasMerge'
    BY <2>1, <2>2, <1>a DEF CompletedHasMerge, RecordedFirst
  <2> QED BY <2>3, <2>4, <2>5, <1>b
<1>9. ASSUME NEW p \in Agents, LeaveWorktree(p) PROVE IInv'
  <2>1. /\ UNCHANGED <<task, merges, stream, refs, tip, starts, proc>>
        /\ At(p, "idle")
    BY <1>9 DEF LeaveWorktree, Free, At
  <2>2. wt'[p].on # Stream /\ \A a \in Agents : a # p => wt'[a] = wt[a]
    BY <1>9, <1>c, ConstantsAssumption DEF LeaveWorktree
  <2>3. HoldsStream' /\ OneHolder'
    BY <2>1, <2>2 DEF HoldsStream, OneHolder, Merging, At
  <2>4. /\ StartedBranches' /\ SourceKept' /\ RecordedFirst'
        /\ MergeRecordsBacked' /\ CompletedHasMerge'
    BY <2>1 DEF StartedBranches, Started, SourceKept, RecordedFirst, At,
                MergeRecordsBacked, CompletedHasMerge
  <2> QED BY <2>3, <2>4, <1>b
<1>10. ASSUME NEW p \in Agents, NEW t \in Tasks, DetectTaskConflicts(p, t) PROVE IInv'
  <2>1. /\ UNCHANGED <<task, merges, stream, refs, tip, starts>>
        /\ \A o \in Agents \ {p} : wt[o].on # Stream
        /\ \A a \in Agents : a # p => wt'[a] = wt[a]
        /\ wt'[p].on = Stream
    BY <1>10, <1>c, ConstantsAssumption DEF DetectTaskConflicts, CanCheckout
  <2>2. /\ proc'[p].pc = "detect_restore"
        /\ \A q \in Procs : q # p => proc'[q] = proc[q]
    BY <1>10, <1>a, <1>c DEF DetectTaskConflicts, Call
  <2>3. StartedBranches' /\ SourceKept' /\ RecordedFirst'
    BY <2>1, <2>2 DEF StartedBranches, Started, SourceKept, RecordedFirst, At, BranchPcs
  <2>4. HoldsStream' /\ OneHolder'
    BY <2>1, <2>2 DEF HoldsStream, OneHolder, Merging, At
  <2>5. MergeRecordsBacked' /\ CompletedHasMerge'
    BY <2>1 DEF MergeRecordsBacked, CompletedHasMerge
  <2> QED BY <2>3, <2>4, <2>5, <1>b
<1>11. ASSUME NEW p \in Agents, DetectRestore(p) PROVE IInv'
  <2>1. /\ UNCHANGED <<task, merges, stream, refs, tip, starts>>
        /\ At(p, "detect_restore")
        /\ \A a \in Agents : a # p => wt'[a] = wt[a]
        /\ Settles
    BY <1>11, <1>a, <1>b, <1>c, ReturnSettles DEF DetectRestore
  <2>2. wt[p].on = Stream
    BY <2>1, <1>a DEF HoldsStream
  <2>3. StartedBranches' /\ SourceKept' /\ RecordedFirst'
    BY <2>1 DEF StartedBranches, Started, SourceKept, RecordedFirst, At, Settles, HeldPcs, BranchPcs
  <2>4. \A q \in Procs : Merging(q)' \/ At(q, "detect_restore")' => q # p /\ proc'[q] = proc[q]
    <3>1. proc'[p].pc = "idle"
      BY <1>11, <1>a, <1>c DEF DetectRestore, Return, Idle, Call
    <3> QED BY <3>1, <2>1 DEF Merging, At, Settles, HeldPcs, BranchPcs
  <2>5. HoldsStream' /\ OneHolder'
    BY <2>1, <2>2, <2>4 DEF HoldsStream, OneHolder, Merging, At
  <2>6. MergeRecordsBacked' /\ CompletedHasMerge'
    BY <2>1 DEF MergeRecordsBacked, CompletedHasMerge
  <2> QED BY <2>3, <2>5, <2>6, <1>b
<1>12. CASE UNCHANGED vars
  BY <1>12, <1>b
  DEF vars, StartedBranches, Started, SourceKept, RecordedFirst, HoldsStream, OneHolder, At,
      Merging, MergeRecordsBacked, CompletedHasMerge
<1> QED
  BY <1>q, <1>1, <1>2, <1>3, <1>4, <1>5, <1>6, <1>7, <1>8, <1>9, <1>10, <1>11, <1>12
  DEF Next, Step, AgentNext, CoordinatorNext, QuietAction

LEMMA InitInv == Init => IInv
<1> SUFFICES ASSUME Init PROVE IInv
  OBVIOUS
<1>1. TypeOK
  BY ConstantsAssumption, IdleType DEF Init, TypeOK, TaskRow, Statuses, Worktree
<1>2. \A p \in Procs : proc[p].pc = "idle"
  BY DEF Init, Idle, Call
<1> QED
  BY <1>1, <1>2, ConstantsAssumption
  DEF Init, IInv, StartedBranches, SourceKept, RecordedFirst, HoldsStream, OneHolder, At,
      Merging, MergeRecordsBacked, CompletedHasMerge, BranchPcs

\* The inductive invariant holds in every state the calls of WorkerTaskManager reach.
THEOREM Invariance == Spec => []IInv
  BY InitInv, InvStep, PTL DEF Spec

\* TypeOK is an invariant of WorkerTasks.
THEOREM TypeCorrect == Spec => []TypeOK
  BY Invariance, PTL DEF IInv

\* Whatever calls of completeTask, cleanupWorkerBranches and the others overlap,
\* and wherever they are cut short, every merge record names commits of the
\* stream's history.
THEOREM MergeRecordsAreBacked == Spec => []MergeRecordsBacked
  BY Invariance, PTL DEF IInv

\* The same for the status: completed means that a merge was recorded.
THEOREM CompletedIsRecorded == Spec => []CompletedHasMerge
  BY Invariance, PTL DEF IInv

\* Git's rule that a branch is checked out in one worktree at most serializes
\* the merges of completeTask.
THEOREM MergesAreSerialized == Spec => []MergesSerialized
<1>1. IInv => MergesSerialized
  BY DEF IInv, HoldsStream, OneHolder, MergesSerialized
<1> QED BY <1>1, Invariance, PTL

-----------------------------------------------------------------------------
(* Calls that do not overlap: one process drives the library, and a call    *)
(* starts when no other runs.  Then what a call read before its first write *)
(* still holds at each of its later steps, and the life cycle of the tasks  *)
(* is the one TaskLifecycle promises.                                       *)

MergePcs == {"merge", "merge_abort", "record", "complete_update", "release_check"}

\* what the call of p relies on, between two of its steps
Relies(p) ==
  LET t == proc[p].task IN
  /\ proc[p].pc \in {"start_checkout", "start_update"} => task[t].status = "open"
  /\ proc[p].pc \in MergePcs => t \in Tasks /\ task[t].status = "in_progress"
  /\ At(p, "release_update") => t \in Tasks /\ task[t].status \in {"open", "in_progress"}
  /\ proc[p].pc \in {"abandon_delete", "abandon_update"} =>
       t \in Tasks /\ task[t].status \notin {"none", "completed"}
  /\ At(p, "recover") => \A s \in proc[p].todo \cap Tasks : task[s].status = "in_progress"

\* no process but p is in a call
Alone(p) == \A q \in Procs : q # p => At(q, "idle")

CallInv ==
  /\ TypeOK /\ RecordedFirst
  /\ \E p \in Procs : Alone(p)
  /\ \A p \in Procs : Relies(p)

\* p goes on, alone
Proceeds(p) == Alone(p) /\ \A q \in Procs : q # p => proc'[q] = proc[q]

\* The effects of the scheduling operators on the process itself.
LEMMA GotoEffect ==
  ASSUME TypeOK, NEW p \in Procs, NEW pc, Goto(p, pc)
  PROVE  /\ proc'[p].pc = pc
         /\ proc'[p].task = proc[p].task
         /\ proc'[p].branch = proc[p].branch
         /\ proc'[p].source = proc[p].source
         /\ proc'[p].todo = proc[p].todo
         /\ \A q \in Procs : q # p => proc'[q] = proc[q]
  BY DEF Goto, TypeOK, Process

LEMMA ReturnEffect ==
  ASSUME TypeOK, NEW p \in Procs, Return(p)
  PROVE  proc'[p].pc = "idle" /\ \A q \in Procs : q # p => proc'[q] = proc[q]
  BY DEF Return, TypeOK, Idle, Call

LEMMA CallEffect ==
  ASSUME TypeOK, NEW p \in Procs, NEW pc, NEW t, NEW b, NEW src, NEW todo,
         proc' = [proc EXCEPT ![p] = Call(pc, t, b, src, todo)]
  PROVE  /\ proc'[p].pc = pc /\ proc'[p].task = t /\ proc'[p].branch = b
         /\ proc'[p].source = src /\ proc'[p].todo = todo
         /\ \A q \in Procs : q # p => proc'[q] = proc[q]
  BY DEF TypeOK, Call

LEMMA ContinueEffect ==
  ASSUME TypeOK, NEW p \in Procs, NEW pc, NEW x, Continue(p, pc, x)
  PROVE  /\ \/ proc'[p].pc = "idle"
            \/ proc'[p].pc = pc /\ proc'[p].todo = proc[p].todo \ {x}
         /\ \A q \in Procs : q # p => proc'[q] = proc[q]
  BY ReturnEffect, CallEffect DEF Continue

\* A process that is in a call is the only one; one that is free finds no other in a call.
LEMMA AloneFacts ==
  ASSUME CallInv, NEW p \in Procs, ~ At(p, "idle")
  PROVE  Alone(p)
  BY DEF CallInv, Alone

LEMMA FreeFacts ==
  ASSUME ~ Interleaved, NEW p \in Procs, Free(p)
  PROVE  Alone(p)
  BY DEF Free, Alone, At

\* It is enough to look at the process that takes the step.
LEMMA ProceedsInv ==
  ASSUME CallInv, TypeOK', RecordedFirst', NEW p \in Procs, Proceeds(p), Relies(p)'
  PROVE  CallInv'
  <1>1. Alone(p)'
    BY DEF Proceeds, Alone, At
  <1>2. ASSUME NEW q \in Procs, q # p PROVE Relies(q)'
    <2>1. proc'[q].pc = "idle"
      BY <1>2 DEF Proceeds, Alone, At
    <2>2. QED
      BY <2>1 DEF Relies, At, MergePcs
  <1>3. QED
    BY <1>1, <1>2 DEF CallInv

\* The abstract state, and the abstract steps.
Status == [t \in Tasks |-> task[t].status]
Recorded == {r.task : r \in merges}

AbstractStep == Lifecycle!Next \/ (Status' = Status /\ Recorded' = Recorded)

LEMMA StatusMoves ==
  ASSUME TypeOK, NEW t \in Tasks, NEW from \in SUBSET Statuses, NEW to \in Statuses,
         task[t].status \in from, task' \in [Tasks -> TaskRow], UNCHANGED merges,
         task'[t].status = to,
         \A s \in Tasks : s # t => task'[s].status = task[s].status
  PROVE  Lifecycle!Move(t, from, to)
  <1>1. Status' = [Status EXCEPT ![t] = to]
    BY DEF Status
  <1>2. Status[t] \in from
    BY DEF Status
  <1>3. QED
    BY <1>1, <1>2 DEF Lifecycle!Move, Status

LEMMA StatusStays ==
  ASSUME UNCHANGED merges, \A s \in Tasks : task'[s].status = task[s].status
  PROVE  AbstractStep
  BY DEF AbstractStep, Status, Recorded

\* Calls begin alone, and what they have just read holds.
LEMMA BeginStep ==
  ASSUME ~ Interleaved, CallInv, TypeOK', RecordedFirst',
         \/ \E p \in Agents, t \in Tasks :
              StartTask(p, t) \/ CompleteTask(p, t) \/ DetectTaskConflicts(p, t)
         \/ \E t \in Tasks : ReleaseTask(t)
         \/ \E t \in Tasks, d \in BOOLEAN : AbandonTask(t, d)
         \/ \E S \in SUBSET Tasks : RecoverStaleTasks(S)
         \/ CleanupWorkerBranches
  PROVE  CallInv' /\ AbstractStep
  <1> USE DEF MergePcs
  <1>a. TypeOK /\ UNCHANGED <<task, merges>>
    BY DEF CallInv, StartTask, CompleteTask, DetectTaskConflicts, ReleaseTask, AbandonTask,
           RecoverStaleTasks, CleanupWorkerBranches
  <1>b. Agents \subseteq Procs /\ Coordinator \in Procs
    BY DEF Procs
  <1>d. proc \in [Procs -> Process]
    BY <1>a DEF TypeOK
  <1>1. ASSUME NEW p \in Agents, NEW t \in Tasks, StartTask(p, t) PROVE CallInv'
    <2> DEFINE b == <<t, starts[t] + 1>>
    <2>1. proc' = [proc EXCEPT ![p] = Call("start_checkout", t, b, {}, {})]
      BY <1>1 DEF StartTask
    <2> HIDE DEF b
    <2>2. proc'[p].pc = "start_checkout" /\ proc'[p].task = t
          /\ \A q \in Procs : q # p => proc'[q] = proc[q]
      BY <2>1, <1>a, <1>b, <1>d DEF Call
    <2>3. Proceeds(p) /\ task[t].status = "open"
      BY <1>1, <1>b, <2>2, FreeFacts DEF StartTask, Proceeds
    <2>4. Relies(p)'
      BY <1>a, <2>2, <2>3 DEF Relies, At
    <2>5. QED
      BY <1>b, <2>3, <2>4, ProceedsInv
  <1>2. ASSUME NEW p \in Agents, NEW t \in Tasks, CompleteTask(p, t) PROVE CallInv'
    <2>1. PICK b, src : proc' = [proc EXCEPT ![p] = Call("merge", t, b, src, {})]
      BY <1>2 DEF CompleteTask
    <2>2. proc'[p].pc = "merge" /\ proc'[p].task = t
          /\ \A q \in Procs : q # p => proc'[q] = proc[q]
      BY <2>1, <1>a, <1>b, <1>d DEF Call
    <2>3. Proceeds(p) /\ task[t].status = "in_progress"
      BY <1>2, <1>b, <2>2, FreeFacts DEF CompleteTask, Proceeds
    <2>4. Relies(p)'
      BY <1>a, <2>2, <2>3 DEF Relies, At
    <2>5. QED
      BY <1>b, <2>3, <2>4, ProceedsInv
  <1>3. ASSUME NEW p \in Agents, NEW t \in Tasks, DetectTaskConflicts(p, t) PROVE CallInv'
    <2>1. proc'[p].pc = "detect_restore"
          /\ \A q \in Procs : q # p => proc'[q] = proc[q]
      BY <1>3, <1>a, <1>b, <1>d DEF Call, DetectTaskConflicts
    <2>2. Proceeds(p)
      BY <1>3, <1>b, <2>1, FreeFacts DEF DetectTaskConflicts, Proceeds
    <2>3. Relies(p)'
      BY <2>1 DEF Relies, At
    <2>4. QED
      BY <1>b, <2>2, <2>3, ProceedsInv
  <1> DEFINE c == Coordinator
  <1>4. ASSUME NEW t \in Tasks, ReleaseTask(t) PROVE CallInv'
    <2>1. proc'[c].pc = "release_update" /\ proc'[c].task = t
          /\ \A q \in Procs : q # c => proc'[q] = proc[q]
      BY <1>4, <1>a, <1>b, <1>d DEF Call, ReleaseTask
    <2>2. Proceeds(c) /\ task[t].status \in {"open", "in_progress"}
      BY <1>4, <1>b, <2>1, FreeFacts DEF ReleaseTask, Proceeds, Releasable
    <2>3. Relies(c)'
      BY <1>a, <2>1, <2>2 DEF Relies, At
    <2>4. QED
      BY <1>b, <2>2, <2>3, ProceedsInv
  <1>5. ASSUME NEW t \in Tasks, NEW d \in BOOLEAN, AbandonTask(t, d) PROVE CallInv'
    <2>1. PICK pc \in {"abandon_delete", "abandon_update"} :
            proc' = [proc EXCEPT ![c] = Call(pc, t, task[t].branch, {}, {})]
      BY <1>5 DEF AbandonTask
    <2>2. proc'[c].pc = pc /\ proc'[c].task = t
          /\ \A q \in Procs : q # c => proc'[q] = proc[q]
      BY <2>1, <1>a, <1>b, <1>d DEF Call
    <2>3. Proceeds(c) /\ task[t].status \notin {"none", "completed"}
      BY <1>5, <1>b, <2>2, FreeFacts DEF AbandonTask, Proceeds
    <2>4. Relies(c)'
      BY <1>a, <2>2, <2>3 DEF Relies, At
    <2>5. QED
      BY <1>b, <2>3, <2>4, ProceedsInv
  <1>6. ASSUME NEW S \in SUBSET Tasks, RecoverStaleTasks(S) PROVE CallInv'
    <2>1. proc'[c].pc = "recover" /\ proc'[c].todo = S
          /\ \A q \in Procs : q # c => proc'[q] = proc[q]
      BY <1>6, <1>a, <1>b, <1>d DEF Call, RecoverStaleTasks
    <2>2. Proceeds(c) /\ \A t \in S : task[t].status = "in_progress"
      BY <1>6, <1>b, <2>1, FreeFacts DEF RecoverStaleTasks, Proceeds
    <2>3. Relies(c)'
      BY <1>a, <2>1, <2>2 DEF Relies, At
    <2>4. QED
      BY <1>b, <2>2, <2>3, ProceedsInv
  <1>7. ASSUME CleanupWorkerBranches PROVE CallInv'
    <2>1. proc'[c].pc = "cleanup_select"
          /\ \A q \in Procs : q # c => proc'[q] = proc[q]
      BY <1>7, <1>a, <1>b, <1>d DEF Call, CleanupWorkerBranches
    <2>2. Proceeds(c)
      BY <1>7, <1>b, <2>1, FreeFacts DEF CleanupWorkerBranches, Proceeds
    <2>3. Relies(c)'
      BY <2>1 DEF Relies, At
    <2>4. QED
      BY <1>b, <2>2, <2>3, ProceedsInv
  <1>8. AbstractStep
    BY <1>a, StatusStays
  <1>9. QED
    BY <1>1, <1>2, <1>3, <1>4, <1>5, <1>6, <1>7, <1>8

\* Steps that write no row of worker_tasks or task_merges, and calls that end.
LEMMA NoWriteStep ==
  ASSUME CallInv, TypeOK', RecordedFirst', NEW p \in Procs,
         \/ p \in Agents /\ (StartCheckout(p) \/ Merge(p) \/ MergeConflicts(p) \/ MergeThrows(p)
                             \/ MergeAbort(p) \/ DetectRestore(p))
         \/ ReleaseCheck(p) \/ AbandonDelete(p) \/ CleanupDelete(p) \/ Crash(p)
         \/ \E b \in Branches : CleanupSelect(p, b)
  PROVE  CallInv' /\ AbstractStep
  <1> USE DEF MergePcs
  <1>a. TypeOK /\ UNCHANGED <<task, merges>>
    BY DEF CallInv, StartCheckout, Merge, MergeConflicts, MergeThrows, MergeAbort, DetectRestore,
           ReleaseCheck, AbandonDelete, CleanupDelete, Crash, CleanupSelect
  <1>1. Alone(p)
    <2>1. ~ At(p, "idle")
      BY DEF StartCheckout, Merge, MergeConflicts, MergeThrows, MergeAbort, DetectRestore,
             ReleaseCheck, AbandonDelete, CleanupDelete, Crash, CleanupSelect, At
    <2>2. QED
      BY <2>1, AloneFacts
  <1>2. Relies(p)
    BY DEF CallInv
  <1>3. ASSUME Return(p) PROVE Proceeds(p) /\ Relies(p)'
    BY <1>1, <1>3, <1>a, ReturnEffect DEF Proceeds, Relies, At
  <1>4. ASSUME NEW pc, Goto(p, pc),
               \/ pc = "start_update" /\ At(p, "start_checkout")
               \/ pc \in {"record", "merge_abort"} /\ At(p, "merge")
               \/ pc = "release_check" /\ At(p, "merge_abort")
               \/ pc = "release_update" /\ At(p, "release_check")
               \/ pc = "abandon_update" /\ At(p, "abandon_delete")
               \/ pc = "cleanup_clear"
        PROVE  Proceeds(p) /\ Relies(p)'
    <2>1. /\ proc'[p].pc = pc /\ proc'[p].task = proc[p].task
          /\ \A q \in Procs : q # p => proc'[q] = proc[q]
      BY <1>4, <1>a, GotoEffect
    <2>2. Proceeds(p)
      BY <1>1, <2>1 DEF Proceeds
    <2>3. Relies(p)'
      BY <1>2, <1>4, <1>a, <2>1 DEF Relies, At
    <2>4. QED
      BY <2>2, <2>3
  <1>5. ASSUME NEW x, Continue(p, "cleanup_select", x) PROVE Proceeds(p) /\ Relies(p)'
    BY <1>1, <1>5, <1>a, ContinueEffect DEF Proceeds, Relies, At
  <1>6. ASSUME NEW b \in Branches, CleanupSelect(p, b) PROVE Proceeds(p) /\ Relies(p)'
    <2>1. CASE Continue(p, "cleanup_select", b)
      BY <2>1, <1>5
    <2>2. ASSUME NEW t, proc' = [proc EXCEPT ![p] = Call("cleanup_delete", t, b, {}, @.todo)]
          PROVE  Proceeds(p) /\ Relies(p)'
      <3>1. proc'[p].pc = "cleanup_delete" /\ \A q \in Procs : q # p => proc'[q] = proc[q]
        BY <2>2, <1>a DEF TypeOK, Call
      <3>2. QED
        BY <1>1, <3>1 DEF Proceeds, Relies, At
    <2>3. QED
      BY <1>6, <2>1, <2>2 DEF CleanupSelect
  <1>7. Proceeds(p) /\ Relies(p)'
    <2>1. CASE p \in Agents /\ (StartCheckout(p) \/ Merge(p) \/ MergeConflicts(p))
      BY <2>1, <1>3, <1>4 DEF StartCheckout, Merge, MergeConflicts
    <2>2. CASE p \in Agents /\ (MergeThrows(p) \/ MergeAbort(p) \/ DetectRestore(p))
      BY <2>2, <1>3, <1>4 DEF MergeThrows, MergeAbort, DetectRestore
    <2>3. CASE ReleaseCheck(p) \/ AbandonDelete(p) \/ Crash(p)
      BY <2>3, <1>3, <1>4 DEF ReleaseCheck, AbandonDelete, Crash
    <2>4. CASE CleanupDelete(p)
      BY <2>4, <1>4, <1>5 DEF CleanupDelete
    <2>5. QED
      BY <2>1, <2>2, <2>3, <2>4, <1>6
  <1>8. QED
    BY <1>7, <1>a, ProceedsInv, StatusStays

\* Steps outside of calls; no call runs while createTask adds a row.
LEMMA OutsideStep ==
  ASSUME ~ Interleaved, CallInv, TypeOK', RecordedFirst',
         \/ \E t \in Tasks : CreateTask(t)
         \/ \E p \in Agents : Commit(p) \/ LeaveWorktree(p)
         \/ SetStreamStatus
  PROVE  CallInv' /\ AbstractStep
  <1>a. TypeOK /\ UNCHANGED <<merges, proc>>
    BY DEF CallInv, CreateTask, Commit, LeaveWorktree, SetStreamStatus
  <1>1. ASSUME NEW t \in Tasks, CreateTask(t) PROVE CallInv' /\ AbstractStep
    <2>1. \A p \in Procs : proc'[p].pc = "idle"
      <3>1. Coordinator \in Procs
        BY DEF Procs
      <3>2. QED
        BY <1>1, <1>a, <3>1, FreeFacts DEF CreateTask, Free, Alone, At
    <2>2. CallInv'
      <3>1. \A p \in Procs : Relies(p)'
        BY <2>1 DEF Relies, At, MergePcs
      <3>2. \A p \in Procs : Alone(p)'
        BY <2>1 DEF Alone, At
      <3>3. QED
        BY <3>1, <3>2 DEF CallInv
    <2>3. /\ task[t].status \in {"none"} /\ task'[t].status = "open"
          /\ \A s \in Tasks : s # t => task'[s].status = task[s].status
      BY <1>1, <1>a DEF CreateTask, TypeOK, TaskRow
    <2>4. Lifecycle!Create(t)
      BY <1>a, <2>3, StatusMoves DEF Lifecycle!Create, TypeOK, Statuses
    <2>5. QED
      BY <2>2, <2>4 DEF AbstractStep, Lifecycle!Next
  <1>2. CASE UNCHANGED task
    <2>1. CallInv'
      BY <1>a, <1>2 DEF CallInv, Alone, Relies, At
    <2>2. QED
      BY <2>1, <1>a, <1>2, StatusStays
  <1>3. QED
    BY <1>1, <1>2 DEF Commit, LeaveWorktree, SetStreamStatus

\* The UPDATEs of worker_tasks at the end of a call, and in the loops of
\* recoverStaleTasks and cleanupWorkerBranches.
LEMMA UpdateStep ==
  ASSUME CallInv, TypeOK', RecordedFirst', NEW p \in Procs,
         \/ p \in Agents /\ (StartUpdate(p) \/ CompleteUpdate(p))
         \/ ReleaseUpdate(p) \/ AbandonUpdate(p) \/ CleanupClear(p)
         \/ \E t \in Tasks : RecoverUpdate(p, t)
  PROVE  CallInv' /\ AbstractStep
  <1>a. /\ TypeOK /\ UNCHANGED merges
        /\ task \in [Tasks -> TaskRow] /\ task' \in [Tasks -> TaskRow]
    BY DEF CallInv, StartUpdate, CompleteUpdate, ReleaseUpdate, AbandonUpdate, CleanupClear,
           RecoverUpdate, TypeOK
  <1>b. Relies(p) /\ RecordedFirst
    BY DEF CallInv
  <1>1. Alone(p)
    <2>1. ~ At(p, "idle")
      BY DEF StartUpdate, CompleteUpdate, ReleaseUpdate, AbandonUpdate, CleanupClear,
             RecoverUpdate, At
    <2>2. QED
      BY <2>1, AloneFacts
  <1>2. ASSUME Return(p) PROVE CallInv'
    <2>1. Proceeds(p) /\ Relies(p)'
      BY <1>1, <1>2, <1>a, ReturnEffect DEF Proceeds, Relies, At, MergePcs
    <2>2. QED
      BY <2>1, ProceedsInv
  <1>3. ASSUME p \in Agents, StartUpdate(p) PROVE CallInv' /\ AbstractStep
    <2>1. PICK t \in Tasks : t = proc[p].task /\ task[t].status \in {"open"}
      BY <1>3, <1>a, <1>b DEF StartUpdate, At, Relies, TypeOK, Process, BranchPcs
    <2>2. /\ task'[t].status = "in_progress"
          /\ \A s \in Tasks : s # t => task'[s].status = task[s].status
      BY <1>3, <1>a, <2>1 DEF StartUpdate
    <2>3. Lifecycle!Start(t)
      BY <1>a, <2>1, <2>2, StatusMoves DEF Lifecycle!Start, Statuses
    <2>4. QED
      BY <1>2, <1>3, <2>1, <2>3 DEF StartUpdate, AbstractStep, Lifecycle!Next
  <1>4. ASSUME CompleteUpdate(p) PROVE CallInv' /\ AbstractStep
    <2>1. PICK t \in Tasks : t = proc[p].task /\ task[t].status \in {"in_progress"}
      BY <1>4, <1>b DEF CompleteUpdate, At, Relies, MergePcs
    <2>2. /\ task'[t].status = "completed"
          /\ \A s \in Tasks : s # t => task'[s].status = task[s].status
      BY <1>4, <1>a, <2>1 DEF CompleteUpdate, TaskRow
    <2>3. t \in Recorded
      BY <2>1, <1>4, <1>b DEF CompleteUpdate, RecordedFirst, Recorded
    <2>4. Lifecycle!Complete(t)
      BY <1>a, <2>1, <2>2, <2>3, StatusMoves DEF Lifecycle!Complete, Statuses, Recorded
    <2>5. QED
      BY <1>2, <1>4, <2>1, <2>4 DEF CompleteUpdate, AbstractStep, Lifecycle!Next
  <1>5. ASSUME ReleaseUpdate(p) PROVE CallInv' /\ AbstractStep
    <2>1. PICK t \in Tasks : t = proc[p].task /\ task[t].status \in {"open", "in_progress"}
      BY <1>5, <1>b DEF ReleaseUpdate, At, Relies
    <2>2. /\ task'[t].status = "open"
          /\ \A s \in Tasks : s # t => task'[s].status = task[s].status
      BY <1>5, <1>a, <2>1 DEF ReleaseUpdate, Reopened, TaskRow
    <2>3. Lifecycle!Release(t)
      BY <1>a, <2>1, <2>2, StatusMoves DEF Lifecycle!Release, Statuses
    <2>4. QED
      BY <1>2, <1>5, <2>1, <2>3 DEF ReleaseUpdate, AbstractStep, Lifecycle!Next
  <1>6. ASSUME AbandonUpdate(p) PROVE CallInv' /\ AbstractStep
    <2>1. PICK t \in Tasks : t = proc[p].task /\ task[t].status \in {"open", "in_progress", "abandoned"}
      BY <1>6, <1>a, <1>b DEF AbandonUpdate, At, Relies, TaskRow, Statuses
    <2>2. /\ task'[t].status = "abandoned"
          /\ \A s \in Tasks : s # t => task'[s].status = task[s].status
      BY <1>6, <1>a, <2>1 DEF AbandonUpdate, TaskRow
    <2>3. Lifecycle!Abandon(t)
      BY <1>a, <2>1, <2>2, StatusMoves DEF Lifecycle!Abandon, Statuses
    <2>4. QED
      BY <1>2, <1>6, <2>1, <2>3 DEF AbandonUpdate, AbstractStep, Lifecycle!Next
  <1>7. ASSUME CleanupClear(p) PROVE CallInv' /\ AbstractStep
    <2>1. \A s \in Tasks : task'[s].status = task[s].status
      BY <1>7, <1>a DEF CleanupClear, TaskRow
    <2>2. Proceeds(p) /\ Relies(p)'
      BY <1>1, <1>7, <1>a, ContinueEffect DEF CleanupClear, Proceeds, Relies, At, MergePcs
    <2>3. QED
      BY <1>a, <2>1, <2>2, ProceedsInv, StatusStays
  <1>8. ASSUME NEW s \in Tasks, RecoverUpdate(p, s) PROVE CallInv' /\ AbstractStep
    <2>1. task[s].status \in {"open", "in_progress"}
      BY <1>8, <1>b DEF RecoverUpdate, Relies, At
    <2>2. /\ task'[s].status = "open"
          /\ \A r \in Tasks : r # s => task'[r].status = task[r].status
      BY <1>8, <1>a DEF RecoverUpdate, Reopened, TaskRow
    <2>3. Lifecycle!Release(s)
      BY <1>a, <2>1, <2>2, StatusMoves DEF Lifecycle!Release, Statuses
    <2>4. /\ \/ proc'[p].pc = "idle"
             \/ proc'[p].pc = "recover" /\ proc'[p].todo = proc[p].todo \ {s}
          /\ \A q \in Procs : q # p => proc'[q] = proc[q]
      BY <1>8, <1>a, ContinueEffect DEF RecoverUpdate
    <2>5. At(p, "recover") /\ \A r \in proc[p].todo \cap Tasks : task[r].status = "in_progress"
      BY <1>8, <1>b DEF RecoverUpdate, Relies
    <2>6. Relies(p)'
      BY <2>2, <2>4, <2>5 DEF Relies, At, MergePcs
    <2>7. QED
      BY <1>1, <2>3, <2>4, <2>6, ProceedsInv DEF Proceeds, AbstractStep, Lifecycle!Next
  <1>9. QED
    BY <1>3, <1>4, <1>5, <1>6, <1>7, <1>8

\* recordTaskMerge, the only INSERT into task_merges
LEMMA RecordStep ==
  ASSUME CallInv, TypeOK', RecordedFirst', NEW p \in Agents, RecordTaskMerge(p)
  PROVE  CallInv' /\ AbstractStep
  <1>a. p \in Procs /\ TypeOK /\ Relies(p) /\ At(p, "record") /\ UNCHANGED task
    BY DEF Procs, CallInv, RecordTaskMerge
  <1>1. Alone(p)
    BY <1>a, AloneFacts DEF At
  <1>2. PICK t \in Tasks : t = proc[p].task /\ task[t].status = "in_progress"
    BY <1>a DEF Relies, At, MergePcs
  <1>3. /\ proc'[p].pc = "complete_update" /\ proc'[p].task = t
        /\ \A q \in Procs : q # p => proc'[q] = proc[q]
    BY <1>2, <1>a, GotoEffect DEF RecordTaskMerge
  <1>4. Proceeds(p) /\ Relies(p)'
    BY <1>a, <1>1, <1>2, <1>3 DEF Proceeds, Relies, At, MergePcs
  <1>5. Recorded' = Recorded \cup {t} /\ Status' = Status
    <2> DEFINE r == [task |-> proc[p].task, branch |-> proc[p].branch,
                     source |-> proc[p].source, merge |-> stream]
    <2>1. merges' = merges \cup {r}
      BY DEF RecordTaskMerge
    <2>2. r.task = t
      BY <1>2
    <2> HIDE DEF r
    <2>3. QED
      BY <2>1, <2>2, <1>a DEF Recorded, Status
  <1>6. Lifecycle!RecordMerge(t)
    BY <1>2, <1>5 DEF Lifecycle!RecordMerge, Recorded, Status
  <1>7. QED
    BY <1>a, <1>4, <1>6, ProceedsInv DEF AbstractStep, Lifecycle!Next

LEMMA LifecycleStep ==
  ASSUME ~ Interleaved, CallInv, TypeOK', RecordedFirst', [Next]_vars
  PROVE  CallInv' /\ AbstractStep
  <1>1. CASE UNCHANGED vars
    BY <1>1, StatusStays DEF vars, CallInv, Alone, Relies, At
  <1>2. ASSUME NEW p \in Procs, Step(p) \/ Crash(p) PROVE CallInv' /\ AbstractStep
    BY <1>2, NoWriteStep, UpdateStep, RecordStep DEF Step
  <1>3. ASSUME NEW p \in Agents, AgentNext(p) PROVE CallInv' /\ AbstractStep
    BY <1>3, BeginStep, OutsideStep DEF AgentNext
  <1>4. ASSUME CoordinatorNext PROVE CallInv' /\ AbstractStep
    BY <1>4, BeginStep, OutsideStep DEF CoordinatorNext
  <1>5. QED
    BY <1>1, <1>2, <1>3, <1>4 DEF Next

LEMMA InitCallInv == Init => CallInv /\ Lifecycle!Init
  <1> SUFFICES ASSUME Init PROVE CallInv /\ Lifecycle!Init
    OBVIOUS
  <1>1. \A p \in Procs : proc[p].pc = "idle"
    BY DEF Init, Idle, Call
  <1>2. TypeOK /\ RecordedFirst
    BY InitInv DEF IInv
  <1>3. \E p \in Procs : Alone(p)
    BY <1>1 DEF Procs, Alone, At
  <1>4. CallInv
    BY <1>1, <1>2, <1>3 DEF CallInv, Relies, At, MergePcs
  <1>5. Lifecycle!Init
    BY DEF Init, Lifecycle!Init
  <1>6. QED
    BY <1>4, <1>5

\* Calls that do not overlap implement TaskLifecycle, wherever they are cut short:
\* completed and abandoned are final, and a task is completed from in progress and after
\* its merge was recorded, for any number of tasks and agents.
THEOREM ImplementsLifecycle == ASSUME ~ Interleaved PROVE Spec => LifecycleKept
  <1>1. IInv /\ CallInv /\ [Next]_vars => (IInv /\ CallInv)' /\ [Lifecycle!Next]_(Lifecycle!vars)
    <2> SUFFICES ASSUME IInv, CallInv, [Next]_vars
                 PROVE  (IInv /\ CallInv)' /\ [Lifecycle!Next]_(Lifecycle!vars)
      OBVIOUS
    <2>1. IInv' /\ TypeOK' /\ RecordedFirst'
      BY InvStep DEF IInv
    <2>2. CallInv' /\ AbstractStep
      BY <2>1, LifecycleStep
    <2>3. QED
      BY <2>1, <2>2 DEF AbstractStep, Lifecycle!vars, Status, Recorded
  <1>2. Init => IInv /\ CallInv /\ Lifecycle!Init
    BY InitInv, InitCallInv
  <1>3. QED
    BY <1>1, <1>2, PTL DEF Spec, LifecycleKept, Lifecycle!Spec

-----------------------------------------------------------------------------
(* No work is lost, when agents complete their own tasks: a worker branch   *)
(* that a row names is in nobody's worktree but its agent's, so nothing is  *)
(* committed to it once it is merged.                                       *)

\* a's worktree is on b, or goes back to it after a trial merge
Uses(a, b) == wt[a].on = b \/ (At(a, "detect_restore") /\ proc[a].branch = b)

RowsNamed == \A t \in Tasks :
  /\ task[t].branch # NoBranch => task[t].branch[1] = t /\ Started(task[t].branch)
  /\ task[t].status = "none" => task[t].branch = NoBranch

UsedStarted == \A a \in Agents, b \in Branches : Uses(a, b) => Started(b)

UsedByOwner == \A t \in Tasks, a \in Agents :
  task[t].branch # NoBranch /\ Uses(a, task[t].branch) =>
    /\ task[t].status # "completed"
    /\ task[t].status = "in_progress" => task[t].agent = a

\* what a call relies on, about branches
KeptRelies(p) ==
  LET t == proc[p].task
      b == proc[p].branch IN
  /\ proc[p].pc \in {"start_checkout", "start_update"} =>
       /\ b[1] = t /\ b \in refs /\ Started(b)
       /\ \A s \in Tasks : task[s].branch # b
       /\ \A a \in Agents : Uses(a, b) => a = p
  /\ proc[p].pc \in {"merge", "record", "complete_update"} =>
       task[t].branch = b /\ task[t].agent = p /\ wt[p].on = Stream
  /\ proc[p].pc \in {"record", "complete_update"} => tip[b] \subseteq stream
  /\ At(p, "abandon_delete") => task[t].branch = b
  /\ At(p, "cleanup_delete") =>
       \A s \in Tasks : task[s].branch = b => task[s].status \in {"completed", "abandoned"}

Live(t) == task[t].status \in {"open", "in_progress"} /\ task[t].branch # NoBranch

LiveKept == crashes = 0 =>
  \A t \in Tasks : Live(t) =>
    task[t].branch \in refs \/ \E p \in Procs : At(p, "abandon_update") /\ proc[p].task = t

RowInv == RowsNamed /\ UsedStarted /\ UsedByOwner /\ CompletedWorkMerged

KeptInv == RowInv /\ LiveKept /\ \A p \in Procs : KeptRelies(p)

\* Rows that are released, abandoned or cleared, heads that move elsewhere and a stream
\* that grows disturb none of the facts about rows.
LEMMA RowFrame ==
  ASSUME TypeOK, TypeOK', RowInv,
         UNCHANGED <<starts, tip>>, stream \subseteq stream',
         \A a \in Agents, b \in Branches : Uses(a, b)' => Uses(a, b),
         \A t \in Tasks :
           /\ task'[t].branch \in {task[t].branch, NoBranch}
           /\ task'[t].status = "none" => task[t].status = "none"
           /\ task'[t].status = "completed" => task[t].status = "completed"
           /\ task'[t].status = "in_progress" =>
                task[t].status = "in_progress" /\ task'[t].agent = task[t].agent
  PROVE  RowInv'
  <1>0. \A t \in Tasks : /\ task[t].branch # NoBranch => task[t].branch \in Branches
                         /\ task'[t].branch # NoBranch => task'[t].branch = task[t].branch
    BY DEF TypeOK, TaskRow
  <1>1. RowsNamed' /\ UsedStarted'
    BY <1>0 DEF RowInv, RowsNamed, UsedStarted, Started
  <1>2. UsedByOwner'
    <2> SUFFICES ASSUME NEW t \in Tasks, NEW a \in Agents,
                        task'[t].branch # NoBranch, Uses(a, task[t].branch)'
                 PROVE  /\ task'[t].status # "completed"
                        /\ task'[t].status = "in_progress" => task'[t].agent = a
      BY <1>0 DEF UsedByOwner, Uses, At
    <2>1. task[t].branch \in Branches /\ task[t].branch # NoBranch
      BY <1>0
    <2>2. Uses(a, task[t].branch)
      BY <2>1 DEF Uses, At
    <2>3. QED
      BY <2>1, <2>2 DEF RowInv, UsedByOwner
  <1>3. CompletedWorkMerged'
    BY <1>0 DEF RowInv, CompletedWorkMerged
  <1>4. QED
    BY <1>1, <1>2, <1>3 DEF RowInv

\* It is enough to look at the process that takes the step.
LEMMA KeptCalls ==
  ASSUME NEW p \in Procs, Proceeds(p), KeptRelies(p)'
  PROVE  \A q \in Procs : KeptRelies(q)'
  <1>1. ASSUME NEW q \in Procs, q # p PROVE KeptRelies(q)'
    <2>1. proc'[q].pc = "idle"
      BY <1>1 DEF Proceeds, Alone, At
    <2>2. QED
      BY <2>1 DEF KeptRelies, At
  <1>2. QED
    BY <1>1

\* Steps of a call after which it relies on no branch.
EasyPcs == {"idle", "merge_abort", "release_check", "release_update", "abandon_update", "recover",
            "cleanup_select", "cleanup_clear", "detect_restore"}

LEMMA EasyCalls ==
  ASSUME NEW p \in Procs, proc'[p].pc \in EasyPcs
  PROVE  KeptRelies(p)'
  BY DEF KeptRelies, EasyPcs, At

\* A step that starts nothing, completes nothing and deletes no live branch.
LEMMA KeptFrame ==
  ASSUME TypeOK, TypeOK', KeptInv, NEW p \in Procs, Proceeds(p), KeptRelies(p)',
         UNCHANGED <<starts, tip>>, stream \subseteq stream',
         \A a \in Agents, b \in Branches : Uses(a, b)' => Uses(a, b),
         \A t \in Tasks :
           /\ task'[t].branch \in {task[t].branch, NoBranch}
           /\ task'[t].status = "none" => task[t].status = "none"
           /\ task'[t].status = "completed" => task[t].status = "completed"
           /\ task'[t].status = "in_progress" =>
                task[t].status = "in_progress" /\ task'[t].agent = task[t].agent,
         crashes' = 0 => /\ crashes = 0
                         /\ \A t \in Tasks : Live(t)' =>
                              /\ Live(t) /\ ~ (At(p, "abandon_update") /\ proc[p].task = t)
                              /\ task[t].branch \in refs => task[t].branch \in refs'
  PROVE  KeptInv'
  <1>1. RowInv'
    BY RowFrame DEF KeptInv
  <1>2. \A q \in Procs : KeptRelies(q)'
    BY KeptCalls
  <1>3. LiveKept'
    <2> SUFFICES ASSUME crashes' = 0, NEW t \in Tasks, Live(t)'
                 PROVE  task'[t].branch \in refs'
      BY DEF LiveKept
    <2>1. crashes = 0 /\ Live(t) /\ ~ (At(p, "abandon_update") /\ proc[p].task = t)
      OBVIOUS
    <2>2. task[t].branch \in refs
      BY <2>1 DEF KeptInv, LiveKept, Proceeds, Alone, At
    <2>3. task'[t].branch = task[t].branch
      BY DEF Live
    <2>4. QED
      BY <2>2, <2>3
  <1>4. QED
    BY <1>1, <1>2, <1>3 DEF KeptInv

\* Steps that write neither a row nor a ref.
LEMMA KeptNoWrite ==
  ASSUME TypeOK, TypeOK', KeptInv, NEW p \in Procs, Proceeds(p), KeptRelies(p)',
         UNCHANGED <<task, refs, starts, tip>>, stream \subseteq stream',
         ~ At(p, "abandon_update") \/ crashes' # 0, crashes' = 0 => crashes = 0,
         \A a \in Agents, b \in Branches : Uses(a, b)' => Uses(a, b)
  PROVE  KeptInv'
  <1>1. \A t \in Tasks : Live(t)' => Live(t)
    BY DEF Live
  <1>2. \A t \in Tasks : task[t].branch \in refs => task[t].branch \in refs'
    OBVIOUS
  <1>3. QED
    BY <1>1, <1>2, KeptFrame

\* Nothing is used anew by a step that leaves the heads alone and does not begin a trial merge.
LEMMA SameUse ==
  ASSUME NEW p \in Procs, Proceeds(p), UNCHANGED wt,
         proc'[p].pc # "detect_restore"
  PROVE  \A a \in Agents, b \in Branches : Uses(a, b)' => Uses(a, b)
  <1>1. \A a \in Agents : a \in Procs
    BY DEF Procs
  <1>2. QED
    BY <1>1 DEF Uses, At, Proceeds

LEMMA KeptBegin ==
  ASSUME ~ Interleaved, TypeOK, TypeOK', KeptInv,
         \/ \E t \in Tasks : ReleaseTask(t)
         \/ \E t \in Tasks, d \in BOOLEAN : AbandonTask(t, d)
         \/ \E S \in SUBSET Tasks : RecoverStaleTasks(S)
         \/ CleanupWorkerBranches
  PROVE  KeptInv'
  <1> DEFINE c == Coordinator
  <1>a. /\ UNCHANGED <<task, refs, starts, tip, stream, wt, crashes>>
        /\ c \in Procs /\ Free(c)
    BY DEF ReleaseTask, AbandonTask, RecoverStaleTasks, CleanupWorkerBranches, gitVars, Procs
  <1>b. Alone(c) /\ At(c, "idle") /\ proc \in [Procs -> Process]
    BY <1>a, FreeFacts DEF Free, At, TypeOK
  <1>1. PICK pc, t, b, todo :
          /\ pc \in {"release_update", "abandon_delete", "abandon_update", "recover",
                     "cleanup_select"}
          /\ proc' = [proc EXCEPT ![c] = Call(pc, t, b, {}, todo)]
          /\ pc = "abandon_delete" => b = task[t].branch
    BY DEF ReleaseTask, AbandonTask, RecoverStaleTasks, CleanupWorkerBranches
  <1>2. /\ proc'[c].pc = pc /\ proc'[c].task = t /\ proc'[c].branch = b
        /\ \A q \in Procs : q # c => proc'[q] = proc[q]
    BY <1>1, <1>a, <1>b DEF Call
  <1>3. Proceeds(c) /\ KeptRelies(c)'
    BY <1>1, <1>2, <1>a, <1>b DEF Proceeds, KeptRelies, At
  <1>4. QED
    BY <1>1, <1>2, <1>3, <1>a, <1>b, SameUse, KeptNoWrite DEF At

\* Steps inside a call that write neither a row nor a ref.
LEMMA KeptInside ==
  ASSUME CallInv, TypeOK', KeptInv, NEW p \in Procs,
         \/ p \in Agents /\ (Merge(p) \/ MergeConflicts(p) \/ MergeThrows(p) \/ MergeAbort(p)
                             \/ DetectRestore(p) \/ RecordTaskMerge(p))
         \/ ReleaseCheck(p) \/ (\E b \in Branches : CleanupSelect(p, b))
  PROVE  KeptInv'
  <1>a. /\ TypeOK /\ UNCHANGED <<task, refs, starts, tip, crashes>> /\ stream \subseteq stream'
        /\ proc \in [Procs -> Process] /\ wt \in [Agents -> Worktree]
    BY DEF CallInv, TypeOK, Merge, MergeConflicts, MergeThrows, MergeAbort, DetectRestore,
           RecordTaskMerge, ReleaseCheck, CleanupSelect, gitVars
  <1>b. KeptRelies(p) /\ RowsNamed
    BY DEF KeptInv, RowInv
  <1>c. Alone(p) /\ ~ At(p, "abandon_update")
    <2>1. ~ At(p, "idle") /\ ~ At(p, "abandon_update")
      BY DEF Merge, MergeConflicts, MergeThrows, MergeAbort, DetectRestore, RecordTaskMerge,
             ReleaseCheck, CleanupSelect, At
    <2>2. QED
      BY <2>1, AloneFacts
  <1>1. ASSUME NEW pc \in EasyPcs, Goto(p, pc) PROVE Proceeds(p) /\ KeptRelies(p)' /\ proc'[p].pc = pc
    BY <1>1, <1>a, <1>c, GotoEffect, EasyCalls DEF Proceeds
  <1>2. ASSUME Return(p) PROVE Proceeds(p) /\ KeptRelies(p)' /\ proc'[p].pc = "idle"
    BY <1>2, <1>a, <1>c, ReturnEffect, EasyCalls DEF Proceeds, EasyPcs
  <1>3. ASSUME p \in Agents, MergeThrows(p) PROVE KeptInv'
    BY <1>3, <1>2, <1>a, <1>c, SameUse, KeptNoWrite DEF MergeThrows, gitVars
  <1>4. ASSUME ReleaseCheck(p) PROVE KeptInv'
    <2>1. UNCHANGED wt
      BY <1>4 DEF ReleaseCheck, gitVars
    <2>2. Proceeds(p) /\ KeptRelies(p)' /\ proc'[p].pc # "detect_restore"
      BY <1>4, <1>1, <1>2 DEF ReleaseCheck, EasyPcs
    <2>3. QED
      BY <2>1, <2>2, <1>a, <1>c, SameUse, KeptNoWrite
  <1>5. ASSUME p \in Agents, MergeConflicts(p) \/ MergeAbort(p) PROVE KeptInv'
    <2>1. \A a \in Agents : wt'[a].on = wt[a].on
      BY <1>5, <1>a DEF MergeConflicts, MergeAbort, Worktree
    <2>2. Proceeds(p) /\ KeptRelies(p)' /\ proc'[p].pc # "detect_restore"
      BY <1>5, <1>1 DEF MergeConflicts, MergeAbort, EasyPcs
    <2>3. \A a \in Agents, b \in Branches : Uses(a, b)' => Uses(a, b)
      BY <2>1, <2>2 DEF Uses, At, Proceeds, Procs
    <2>4. QED
      BY <2>2, <2>3, <1>a, <1>c, KeptNoWrite
  <1>6. ASSUME p \in Agents, Merge(p) PROVE KeptInv'
    <2>1. /\ stream' = stream \cup tip[proc[p].branch] /\ UNCHANGED wt
          /\ At(p, "merge") /\ Goto(p, "record")
      BY <1>6 DEF Merge
    <2>2. /\ proc'[p].pc = "record" /\ proc'[p].task = proc[p].task
          /\ proc'[p].branch = proc[p].branch /\ \A q \in Procs : q # p => proc'[q] = proc[q]
      BY <2>1, <1>a, GotoEffect
    <2>3. Proceeds(p) /\ KeptRelies(p)'
      BY <2>1, <2>2, <1>a, <1>b, <1>c DEF Proceeds, KeptRelies, At
    <2>4. QED
      BY <2>1, <2>2, <2>3, <1>a, <1>c, SameUse, KeptNoWrite
  <1>7. ASSUME p \in Agents, RecordTaskMerge(p) PROVE KeptInv'
    <2>1. /\ UNCHANGED <<stream, wt>> /\ At(p, "record") /\ Goto(p, "complete_update")
      BY <1>7 DEF RecordTaskMerge, gitVars
    <2>2. /\ proc'[p].pc = "complete_update" /\ proc'[p].task = proc[p].task
          /\ proc'[p].branch = proc[p].branch /\ \A q \in Procs : q # p => proc'[q] = proc[q]
      BY <2>1, <1>a, GotoEffect
    <2>3. Proceeds(p) /\ KeptRelies(p)'
      BY <2>1, <2>2, <1>a, <1>b, <1>c DEF Proceeds, KeptRelies, At
    <2>4. QED
      BY <2>1, <2>2, <2>3, <1>a, <1>c, SameUse, KeptNoWrite
  <1>8. ASSUME p \in Agents, DetectRestore(p) PROVE KeptInv'
    <2>1. /\ wt'[p].on \in {proc[p].branch, Stream}
          /\ \A a \in Agents : a # p => wt'[a] = wt[a]
          /\ At(p, "detect_restore") /\ Return(p)
      BY <1>8, <1>a DEF DetectRestore
    <2>2. Proceeds(p) /\ KeptRelies(p)' /\ proc'[p].pc = "idle"
      BY <2>1, <1>2
    <2>3. \A a \in Agents, b \in Branches : Uses(a, b)' => Uses(a, b)
      BY <2>1, <2>2, ConstantsAssumption DEF Uses, At, Proceeds, Procs
    <2>4. QED
      BY <2>2, <2>3, <1>a, <1>c, KeptNoWrite
  <1>9. ASSUME NEW b \in Branches, CleanupSelect(p, b) PROVE KeptInv'
    <2>1. UNCHANGED wt
      BY <1>9 DEF CleanupSelect, gitVars
    <2>2. CASE Continue(p, "cleanup_select", b)
      <3>1. Proceeds(p) /\ KeptRelies(p)' /\ proc'[p].pc # "detect_restore"
        BY <2>2, <1>a, <1>c, ContinueEffect, EasyCalls DEF Proceeds, EasyPcs
      <3>2. QED
        BY <2>1, <3>1, <1>a, <1>c, SameUse, KeptNoWrite
    <2>3. ASSUME NEW t, proc' = [proc EXCEPT ![p] = Call("cleanup_delete", t, b, {}, @.todo)],
                 \A s \in Tasks : task[s].branch = b =>
                                    task[s].status \in {"completed", "abandoned"}
          PROVE  KeptInv'
      <3>1. proc'[p].pc = "cleanup_delete" /\ proc'[p].branch = b
            /\ \A q \in Procs : q # p => proc'[q] = proc[q]
        BY <2>3, <1>a DEF Call
      <3>2. Proceeds(p) /\ KeptRelies(p)'
        BY <2>3, <3>1, <1>a, <1>c DEF Proceeds, KeptRelies, At
      <3>3. QED
        BY <2>1, <3>1, <3>2, <1>a, <1>c, SameUse, KeptNoWrite
    <2>4. \A s, t \in Tasks : task[s].branch = b /\ task[t].branch = b => s = t
      BY <1>b, ConstantsAssumption DEF RowsNamed
    <2>5. QED
      BY <1>9, <2>2, <2>3, <2>4 DEF CleanupSelect, RowsOf
  <1>10. QED
    BY <1>3, <1>4, <1>5, <1>6, <1>7, <1>8, <1>9

\* A call that is cut short: its branches are no longer promised to be there.
LEMMA KeptCrash ==
  ASSUME CallInv, TypeOK', KeptInv, NEW p \in Procs, Crash(p)
  PROVE  KeptInv'
  <1>1. /\ TypeOK /\ Alone(p) /\ Return(p) /\ crashes' # 0
        /\ UNCHANGED <<task, refs, starts, tip, stream, wt>>
    BY AloneFacts DEF Crash, CallInv, TypeOK, gitVars
  <1>2. proc'[p].pc = "idle" /\ \A q \in Procs : q # p => proc'[q] = proc[q]
    BY <1>1, ReturnEffect
  <1>3. Proceeds(p) /\ KeptRelies(p)'
    BY <1>1, <1>2, EasyCalls DEF Proceeds, EasyPcs
  <1>4. QED
    BY <1>1, <1>2, <1>3, SameUse, KeptNoWrite

\* Begin of a call, in the agent's worktree, and what is outside of calls.
LEMMA KeptWorktree ==
  ASSUME ~ Interleaved, OwnTasksOnly, CallInv, TypeOK', KeptInv, NEW p \in Agents,
         (\E t \in Tasks : CompleteTask(p, t) \/ DetectTaskConflicts(p, t)) \/ LeaveWorktree(p)
  PROVE  KeptInv'
  <1>a. /\ TypeOK /\ p \in Procs /\ UNCHANGED <<task, refs, starts, tip, stream, crashes>>
        /\ proc \in [Procs -> Process] /\ wt \in [Agents -> Worktree]
    BY DEF CallInv, TypeOK, Procs, CompleteTask, DetectTaskConflicts, LeaveWorktree
  <1>b. Alone(p) /\ At(p, "idle")
    BY <1>a, FreeFacts DEF CompleteTask, DetectTaskConflicts, LeaveWorktree, Free, At
  <1>1. ASSUME NEW t \in Tasks, CompleteTask(p, t) PROVE KeptInv'
    <2>1. /\ wt' = [wt EXCEPT ![p].on = Stream]
          /\ proc' = [proc EXCEPT ![p] = Call("merge", t, task[t].branch, tip[task[t].branch], {})]
          /\ task[t].agent = p
      BY <1>1 DEF CompleteTask
    <2>2. /\ wt'[p].on = Stream /\ \A a \in Agents : a # p => wt'[a] = wt[a]
          /\ proc'[p].pc = "merge" /\ proc'[p].task = t /\ proc'[p].branch = task[t].branch
          /\ \A q \in Procs : q # p => proc'[q] = proc[q]
      BY <2>1, <1>a DEF Call, Worktree
    <2>3. Proceeds(p) /\ KeptRelies(p)'
      BY <2>1, <2>2, <1>a, <1>b DEF Proceeds, KeptRelies, At
    <2>4. \A a \in Agents, b \in Branches : Uses(a, b)' => Uses(a, b)
      BY <2>2, ConstantsAssumption DEF Uses, At, Procs
    <2>5. QED
      BY <2>3, <2>4, <1>a, <1>b, KeptNoWrite DEF At
  <1>2. ASSUME NEW t \in Tasks, DetectTaskConflicts(p, t) PROVE KeptInv'
    <2>1. /\ wt'[p].on = Stream /\ \A a \in Agents : a # p => wt'[a] = wt[a]
          /\ proc' = [proc EXCEPT ![p] = Call("detect_restore", NoTask, wt[p].on, {}, {})]
      BY <1>2, <1>a DEF DetectTaskConflicts
    <2>2. /\ proc'[p].pc = "detect_restore" /\ proc'[p].branch = wt[p].on
          /\ \A q \in Procs : q # p => proc'[q] = proc[q]
      BY <2>1, <1>a DEF Call
    <2>3. Proceeds(p) /\ KeptRelies(p)'
      BY <2>2, <1>a, <1>b, EasyCalls DEF Proceeds, EasyPcs
    <2>4. \A a \in Agents, b \in Branches : Uses(a, b)' => Uses(a, b)
      BY <2>1, <2>2, ConstantsAssumption DEF Uses, At, Procs
    <2>5. QED
      BY <2>3, <2>4, <1>a, <1>b, KeptNoWrite DEF At
  <1>3. ASSUME LeaveWorktree(p) PROVE KeptInv'
    <2>1. /\ wt'[p].on = Elsewhere /\ \A a \in Agents : a # p => wt'[a] = wt[a]
          /\ UNCHANGED proc
      BY <1>3, <1>a DEF LeaveWorktree
    <2>2. Proceeds(p) /\ KeptRelies(p)'
      BY <2>1, <1>a, <1>b, EasyCalls DEF Proceeds, EasyPcs, At
    <2>3. \A a \in Agents, b \in Branches : Uses(a, b)' => Uses(a, b)
      BY <2>1, ConstantsAssumption DEF Uses, At
    <2>4. QED
      BY <2>2, <2>3, <1>a, <1>b, KeptNoWrite DEF At
  <1>4. QED
    BY <1>1, <1>2, <1>3

\* The UPDATEs that release, abandon or clear a row, and the deletions of branches.
LEMMA KeptRows ==
  ASSUME CallInv, TypeOK', KeptInv, NEW p \in Procs,
         \/ ReleaseUpdate(p) \/ AbandonUpdate(p) \/ CleanupClear(p)
         \/ AbandonDelete(p) \/ CleanupDelete(p)
         \/ \E t \in Tasks : RecoverUpdate(p, t)
  PROVE  KeptInv'
  <1>a. /\ TypeOK /\ UNCHANGED <<starts, tip, stream, wt, crashes>>
        /\ proc \in [Procs -> Process] /\ task \in [Tasks -> TaskRow]
    BY DEF CallInv, TypeOK, ReleaseUpdate, AbandonUpdate, CleanupClear, AbandonDelete,
           CleanupDelete, RecoverUpdate, gitVars
  <1>b. KeptRelies(p) /\ RowsNamed /\ Relies(p)
    BY DEF KeptInv, RowInv, CallInv
  <1>c. Alone(p)
    <2>1. ~ At(p, "idle")
      BY DEF ReleaseUpdate, AbandonUpdate, CleanupClear, AbandonDelete, CleanupDelete,
             RecoverUpdate, At
    <2>2. QED
      BY <2>1, AloneFacts
  <1>1. ASSUME Return(p) PROVE Proceeds(p) /\ KeptRelies(p)' /\ proc'[p].pc # "detect_restore"
    BY <1>1, <1>a, <1>c, ReturnEffect, EasyCalls DEF Proceeds, EasyPcs
  <1>2. ASSUME NEW x, NEW pc \in {"recover", "cleanup_select"}, Continue(p, pc, x)
        PROVE  Proceeds(p) /\ KeptRelies(p)' /\ proc'[p].pc # "detect_restore"
    BY <1>2, <1>a, <1>c, ContinueEffect, EasyCalls DEF Proceeds, EasyPcs
  <1>3. ASSUME Proceeds(p), KeptRelies(p)', proc'[p].pc # "detect_restore", UNCHANGED refs,
               \A t \in Tasks :
                 /\ task'[t].branch \in {task[t].branch, NoBranch}
                 /\ task'[t].status \in {"none", "completed", "in_progress"} =>
                      task'[t].status = task[t].status /\ task'[t].agent = task[t].agent
                 /\ Live(t)' => Live(t) /\ ~ (At(p, "abandon_update") /\ proc[p].task = t)
        PROVE  KeptInv'
    BY <1>3, <1>a, SameUse, KeptFrame
  <1>4. ASSUME ReleaseUpdate(p) PROVE KeptInv'
    <2>1. PICK t \in Tasks : t = proc[p].task /\ task[t].status \in {"open", "in_progress"}
      BY <1>4, <1>b DEF ReleaseUpdate, Relies
    <2>2. /\ task'[t].branch = task[t].branch /\ task'[t].status = "open"
          /\ \A s \in Tasks : s # t => task'[s] = task[s]
      <3>1. task[t] \in TaskRow /\ task' = [task EXCEPT ![t] = Reopened(task[t])]
        BY <1>4, <2>1, <1>a DEF ReleaseUpdate
      <3>2. Reopened(task[t]).branch = task[t].branch /\ Reopened(task[t]).status = "open"
        BY <3>1 DEF Reopened, TaskRow
      <3>3. QED
        BY <3>1, <3>2, <1>a
    <2>3. UNCHANGED refs /\ ~ At(p, "abandon_update")
      BY <1>4 DEF ReleaseUpdate, gitVars, At
    <2>4. QED
      BY <1>4, <1>1, <1>3, <2>1, <2>2, <2>3 DEF ReleaseUpdate, Live
  <1>5. ASSUME NEW t \in Tasks, RecoverUpdate(p, t) PROVE KeptInv'
    <2>1. task[t].status = "in_progress"
      BY <1>5, <1>b DEF RecoverUpdate, Relies
    <2>2. /\ task'[t].branch = task[t].branch /\ task'[t].status = "open"
          /\ \A s \in Tasks : s # t => task'[s] = task[s]
      <3>1. task[t] \in TaskRow /\ task' = [task EXCEPT ![t] = Reopened(task[t])]
        BY <1>5, <1>a DEF RecoverUpdate
      <3>2. Reopened(task[t]).branch = task[t].branch /\ Reopened(task[t]).status = "open"
        BY <3>1 DEF Reopened, TaskRow
      <3>3. QED
        BY <3>1, <3>2, <1>a
    <2>3. UNCHANGED refs /\ ~ At(p, "abandon_update")
      BY <1>5 DEF RecoverUpdate, gitVars, At
    <2>4. QED
      BY <1>5, <1>2, <1>3, <2>1, <2>2, <2>3 DEF RecoverUpdate, Live
  <1>6. ASSUME AbandonUpdate(p) PROVE KeptInv'
    <2>1. PICK t \in Tasks : t = proc[p].task
      BY <1>6, <1>b DEF AbandonUpdate, Relies, At
    <2>2. /\ task'[t].branch = task[t].branch /\ task'[t].status = "abandoned"
          /\ \A s \in Tasks : s # t => task'[s] = task[s]
      BY <1>6, <2>1, <1>a DEF AbandonUpdate, TaskRow
    <2>3. UNCHANGED refs
      BY <1>6 DEF AbandonUpdate, gitVars
    <2>4. QED
      BY <1>6, <1>1, <1>3, <2>1, <2>2, <2>3 DEF AbandonUpdate, Live
  <1>7. ASSUME CleanupClear(p) PROVE KeptInv'
    <2>1. \A s \in Tasks : /\ task'[s].branch \in {task[s].branch, NoBranch}
                           /\ task'[s].status = task[s].status
                           /\ task'[s].agent = task[s].agent
      BY <1>7, <1>a DEF CleanupClear, TaskRow
    <2>2. UNCHANGED refs /\ ~ At(p, "abandon_update")
      BY <1>7 DEF CleanupClear, gitVars, At
    <2>3. QED
      BY <1>7, <1>2, <1>3, <2>1, <2>2 DEF CleanupClear, Live
  <1>8. ASSUME AbandonDelete(p) PROVE KeptInv'
    <2>1. /\ At(p, "abandon_delete") /\ Goto(p, "abandon_update") /\ UNCHANGED task
          /\ refs \subseteq refs' \cup {proc[p].branch}
      BY <1>8 DEF AbandonDelete
    <2>2. PICK t \in Tasks : t = proc[p].task /\ task[t].branch = proc[p].branch
      BY <2>1, <1>b DEF Relies, KeptRelies, At
    <2>3. /\ proc'[p].pc = "abandon_update" /\ proc'[p].task = t
          /\ \A q \in Procs : q # p => proc'[q] = proc[q]
      BY <2>1, <2>2, <1>a, GotoEffect
    <2>4. Proceeds(p) /\ KeptRelies(p)'
      BY <2>3, <1>c, EasyCalls DEF Proceeds, EasyPcs
    <2>5. RowInv'
      BY <2>1, <2>3, <2>4, <1>a, SameUse, RowFrame DEF KeptInv
    <2>6. LiveKept'
      <3> SUFFICES ASSUME crashes' = 0, NEW s \in Tasks, Live(s)', s # t
                   PROVE  task'[s].branch \in refs'
        BY <2>3 DEF LiveKept, At
      <3>1. Live(s) /\ task[s].branch # NoBranch
        BY <2>1 DEF Live
      <3>2. task[s].branch \in refs
        BY <3>1, <2>1, <1>a, <1>c DEF KeptInv, LiveKept, Alone, At
      <3>3. task[s].branch # proc[p].branch
        BY <3>1, <2>2, <1>b DEF RowsNamed
      <3>4. QED
        BY <3>2, <3>3, <2>1
    <2>7. QED
      BY <2>4, <2>5, <2>6, KeptCalls DEF KeptInv
  <1>9. ASSUME CleanupDelete(p) PROVE KeptInv'
    <2>1. /\ At(p, "cleanup_delete") /\ UNCHANGED task
          /\ refs \subseteq refs' \cup {proc[p].branch}
          /\ Goto(p, "cleanup_clear") \/ Continue(p, "cleanup_select", proc[p].branch)
      BY <1>9 DEF CleanupDelete
    <2>2. Proceeds(p) /\ KeptRelies(p)' /\ proc'[p].pc # "detect_restore"
      <3>1. CASE Goto(p, "cleanup_clear")
        BY <3>1, <1>a, <1>c, GotoEffect, EasyCalls DEF Proceeds, EasyPcs
      <3>2. QED
        BY <3>1, <2>1, <1>2
    <2>3. \A t \in Tasks : Live(t)' =>
            /\ Live(t) /\ ~ At(p, "abandon_update")
            /\ task[t].branch \in refs => task[t].branch \in refs'
      BY <2>1, <1>b DEF Live, KeptRelies, At
    <2>4. QED
      BY <2>1, <2>2, <2>3, <1>a, SameUse, KeptFrame
  <1>10. QED
    BY <1>4, <1>5, <1>6, <1>7, <1>8, <1>9

\* createTask, a change of the stream's status, and a commit in a worktree, when no call
\* is running
LEMMA KeptOutside ==
  ASSUME ~ Interleaved, CallInv, TypeOK', KeptInv,
         \/ \E t \in Tasks : CreateTask(t)
         \/ \E p \in Agents : Commit(p)
         \/ SetStreamStatus
  PROVE  KeptInv'
  <1>a. /\ TypeOK /\ UNCHANGED <<refs, starts, stream, wt, proc, crashes>>
        /\ tip \in [Branches -> SUBSET Work] /\ task \in [Tasks -> TaskRow]
    BY DEF CallInv, TypeOK, CreateTask, Commit, SetStreamStatus, gitVars
  <1>b. PICK p \in Procs : Free(p)
    BY DEF CreateTask, Commit, SetStreamStatus, Procs
  <1>c. Alone(p) /\ At(p, "idle")
    BY <1>b, FreeFacts DEF Free, At
  <1>d. Proceeds(p) /\ KeptRelies(p)' /\ proc'[p].pc # "detect_restore"
    BY <1>a, <1>c, EasyCalls DEF Proceeds, EasyPcs, At
  <1>1. ASSUME NEW t \in Tasks, CreateTask(t) PROVE KeptInv'
    <2>1. /\ task[t].status = "none" /\ task[t].branch = NoBranch
          /\ task'[t].branch = NoBranch /\ task'[t].status = "open"
          /\ \A s \in Tasks : s # t => task'[s] = task[s]
          /\ UNCHANGED tip
      BY <1>1, <1>a DEF CreateTask, TaskRow, KeptInv, RowInv, RowsNamed, gitVars
    <2>2. \A s \in Tasks : Live(s)' => Live(s) /\ task[s].branch = task'[s].branch
      BY <2>1 DEF Live
    <2>3. QED
      BY <2>1, <2>2, <1>a, <1>c, <1>d, SameUse, KeptFrame DEF At
  <1>2. ASSUME SetStreamStatus PROVE KeptInv'
    <2>1. UNCHANGED <<task, tip>>
      BY <1>2 DEF SetStreamStatus, gitVars
    <2>2. QED
      BY <2>1, <1>a, <1>c, <1>d, SameUse, KeptNoWrite DEF At
  <1>3. ASSUME NEW a \in Agents, Commit(a) PROVE KeptInv'
    <2>1. /\ UNCHANGED task
          /\ \A b \in Branches : b # wt[a].on => tip'[b] = tip[b]
      BY <1>3, <1>a DEF Commit
    <2>2. RowsNamed' /\ UsedStarted' /\ UsedByOwner' /\ LiveKept'
      BY <2>1, <1>a DEF KeptInv, RowInv, RowsNamed, UsedStarted, UsedByOwner, Uses, LiveKept,
                        Live, At, Started
    <2>3. CompletedWorkMerged'
      <3>1. ASSUME NEW t \in Tasks, task[t].status = "completed", task[t].branch # NoBranch
            PROVE  tip'[task[t].branch] \subseteq stream
        <4>1. task[t].branch \in Branches /\ task[t].branch # wt[a].on
          BY <3>1, <1>a DEF KeptInv, RowInv, UsedByOwner, Uses, TaskRow
        <4>2. QED
          BY <3>1, <4>1, <2>1 DEF KeptInv, RowInv, CompletedWorkMerged
      <3>2. QED
        BY <3>1, <2>1, <1>a DEF CompletedWorkMerged
    <2>4. QED
      BY <2>2, <2>3, <1>d, KeptCalls DEF KeptInv, RowInv
  <1>4. QED
    BY <1>1, <1>2, <1>3

\* startTask: the branch is new, so no row names it and no worktree is on it.
LEMMA KeptStart ==
  ASSUME ~ Interleaved, CallInv, TypeOK', KeptInv, NEW p \in Agents, NEW t \in Tasks,
         StartTask(p, t)
  PROVE  KeptInv'
  <1>a. /\ TypeOK /\ p \in Procs /\ UNCHANGED <<task, stream, wt, crashes>>
        /\ tip \in [Branches -> SUBSET Work] /\ task \in [Tasks -> TaskRow]
        /\ starts \in [Tasks -> 0 .. MaxStarts] /\ proc \in [Procs -> Process]
    BY DEF CallInv, TypeOK, StartTask, Procs
  <1>b. Alone(p) /\ At(p, "idle")
    BY <1>a, FreeFacts DEF StartTask, Free, At
  <1>1. PICK b \in Branches : b = <<t, starts[t] + 1>>
    BY <1>a, ConstantsAssumption DEF StartTask, Branches
  <1>2. /\ refs' = refs \cup {b}
        /\ starts' = [starts EXCEPT ![t] = starts[t] + 1]
        /\ tip' = [tip EXCEPT ![b] = stream]
        /\ proc' = [proc EXCEPT ![p] = Call("start_checkout", t, b, {}, {})]
    BY <1>1 DEF StartTask
  <1>3. /\ proc'[p].pc = "start_checkout" /\ proc'[p].branch = b /\ proc'[p].task = t
        /\ \A q \in Procs : q # p => proc'[q] = proc[q]
    BY <1>2, <1>a DEF Call
  <1>4. \A c \in Branches : Started(c) => Started(c)' /\ c # b
    <2> SUFFICES ASSUME NEW c \in Branches, Started(c) PROVE Started(c)' /\ c # b
      OBVIOUS
    <2>1. c[1] \in Tasks /\ c[2] \in Nat /\ c = <<c[1], c[2]>>
      BY DEF Branches
    <2>2. QED
      BY <2>1, <1>1, <1>2, <1>a DEF Started
  <1>5. \A a \in Agents : a \in Procs
    BY DEF Procs
  <1>6. \A a \in Agents, c \in Branches : Uses(a, c)' => Uses(a, c)
    BY <1>a, <1>3, <1>5 DEF Uses, At
  <1>7. \A s \in Tasks : task[s].branch # NoBranch => task[s].branch \in Branches
    BY <1>a DEF TaskRow
  <1>8. \A s \in Tasks : task[s].branch # b
    BY <1>4, <1>7, ConstantsAssumption DEF KeptInv, RowInv, RowsNamed
  <1>9. \A a \in Agents : ~ Uses(a, b)'
    BY <1>4, <1>6 DEF KeptInv, RowInv, UsedStarted
  <1>10. RowsNamed' /\ UsedStarted'
    BY <1>4, <1>6, <1>7, <1>a DEF KeptInv, RowInv, RowsNamed, UsedStarted
  <1>11. UsedByOwner'
    BY <1>6, <1>7, <1>a DEF KeptInv, RowInv, UsedByOwner, Uses, At
  <1>12. CompletedWorkMerged'
    BY <1>2, <1>7, <1>8, <1>a DEF KeptInv, RowInv, CompletedWorkMerged
  <1>13. LiveKept'
    BY <1>2, <1>a, <1>b DEF KeptInv, LiveKept, Live, Alone, At
  <1>14. Started(b)'
    BY <1>1, <1>2, <1>a DEF Started
  <1>15. Proceeds(p) /\ KeptRelies(p)'
    BY <1>1, <1>2, <1>3, <1>8, <1>9, <1>14, <1>a, <1>b DEF Proceeds, KeptRelies, At, Started
  <1>16. QED
    BY <1>10, <1>11, <1>12, <1>13, <1>15, <1>a, KeptCalls DEF KeptInv, RowInv

LEMMA KeptStarting ==
  ASSUME CallInv, TypeOK', KeptInv, NEW p \in Agents, StartCheckout(p) \/ StartUpdate(p)
  PROVE  KeptInv'
  <1> DEFINE b == proc[p].branch
  <1>a. /\ TypeOK /\ p \in Procs /\ UNCHANGED <<stream, refs, tip, starts, crashes>>
        /\ wt \in [Agents -> Worktree] /\ task \in [Tasks -> TaskRow]
        /\ proc \in [Procs -> Process]
    BY DEF CallInv, TypeOK, StartCheckout, StartUpdate, Procs, gitVars
  <1>b. proc[p].pc \in {"start_checkout", "start_update"}
    BY DEF StartCheckout, StartUpdate, At
  <1>c. Alone(p)
    BY <1>a, <1>b, AloneFacts DEF At
  <1>d. /\ b \in Branches /\ proc[p].task \in Tasks /\ b[1] = proc[p].task /\ b \in refs
        /\ Started(b)
        /\ \A s \in Tasks : task[s].branch # b
        /\ \A a \in Agents : Uses(a, b) => a = p
        /\ task[proc[p].task].status = "open"
    <2>1. b \in Branches /\ proc[p].task \in Tasks
      BY <1>a, <1>b DEF Process, BranchPcs
    <2>2. QED
      BY <1>a, <1>b, <2>1 DEF KeptInv, KeptRelies, CallInv, Relies
  <1>e. \A a \in Agents : a \in Procs
    BY DEF Procs
  <1>1. ASSUME StartCheckout(p) PROVE KeptInv'
    <2>1. UNCHANGED task
      BY <1>1 DEF StartCheckout
    <2>2. CASE UNCHANGED wt /\ Return(p)
      <3>1. Proceeds(p) /\ KeptRelies(p)' /\ proc'[p].pc = "idle"
        BY <2>2, <1>a, <1>c, ReturnEffect, EasyCalls DEF Proceeds, EasyPcs
      <3>2. QED
        BY <2>1, <2>2, <3>1, <1>a, <1>b, SameUse, KeptNoWrite DEF At
    <2>3. CASE wt' = [wt EXCEPT ![p].on = b] /\ Goto(p, "start_update")
      <3>1. /\ proc'[p].pc = "start_update" /\ proc'[p].branch = b
            /\ proc'[p].task = proc[p].task
            /\ \A q \in Procs : q # p => proc'[q] = proc[q]
        BY <2>3, <1>a, GotoEffect
      <3>2. wt'[p].on = b /\ \A a \in Agents : a # p => wt'[a] = wt[a]
        BY <2>3, <1>a DEF Worktree
      <3>3. \A a \in Agents, c \in Branches : Uses(a, c)' => Uses(a, c) \/ c = b
        BY <3>1, <3>2, <1>e DEF Uses, At
      <3>4. \A a \in Agents : Uses(a, b)' => a = p
        BY <3>1, <3>2, <1>d, <1>e DEF Uses, At
      <3>5. \A s \in Tasks : task[s].branch # NoBranch => task[s].branch \in Branches
        BY <1>a DEF TaskRow
      <3>6. RowsNamed' /\ UsedStarted' /\ CompletedWorkMerged'
        BY <2>1, <3>3, <1>a, <1>d DEF KeptInv, RowInv, RowsNamed, UsedStarted, Started,
                                      CompletedWorkMerged
      <3>7. UsedByOwner'
        <4>1. ASSUME NEW s \in Tasks, NEW a \in Agents, NEW c \in Branches,
                     c = task[s].branch, Uses(a, c)'
              PROVE  /\ task[s].status # "completed"
                     /\ task[s].status = "in_progress" => task[s].agent = a
          <5>1. Uses(a, c) /\ c # NoBranch
            BY <4>1, <3>3, <1>d, ConstantsAssumption
          <5>2. QED
            BY <4>1, <5>1 DEF KeptInv, RowInv, UsedByOwner
        <4>2. QED
          BY <4>1, <3>5, <2>1 DEF UsedByOwner, Uses, At
      <3>8. LiveKept'
        BY <2>1, <3>1, <1>a, <1>b, <1>c DEF KeptInv, LiveKept, Live, Alone, At
      <3>9. Proceeds(p) /\ KeptRelies(p)'
        BY <2>1, <3>1, <3>4, <1>a, <1>c, <1>d DEF Proceeds, KeptRelies, At, Started
      <3>10. QED
        BY <3>6, <3>7, <3>8, <3>9, <1>a, KeptCalls DEF KeptInv, RowInv
    <2>4. QED
      BY <1>1, <2>2, <2>3 DEF StartCheckout
  <1>2. ASSUME StartUpdate(p) PROVE KeptInv'
    <2>1. PICK t \in Tasks : t = proc[p].task
      BY <1>d
    <2>2. /\ task'[t].status = "in_progress" /\ task'[t].agent = p /\ task'[t].branch = b
          /\ \A s \in Tasks : s # t => task'[s] = task[s]
          /\ UNCHANGED wt /\ Return(p)
      BY <1>2, <2>1, <1>a DEF StartUpdate, gitVars
    <2>3. Proceeds(p) /\ KeptRelies(p)' /\ proc'[p].pc = "idle"
      BY <2>2, <1>a, <1>c, ReturnEffect, EasyCalls DEF Proceeds, EasyPcs
    <2>4. \A a \in Agents, c \in Branches : Uses(a, c)' => Uses(a, c)
      BY <2>2, <2>3, <1>a, SameUse
    <2>5. RowsNamed' /\ UsedStarted'
      BY <2>1, <2>2, <2>4, <1>a, <1>d DEF KeptInv, RowInv, RowsNamed, UsedStarted, Started
    <2>6. CompletedWorkMerged'
      BY <2>2, <1>a DEF KeptInv, RowInv, CompletedWorkMerged
    <2>7. UsedByOwner'
      <3>1. ASSUME NEW a \in Agents, NEW c \in Branches, c = b, Uses(a, c)' PROVE a = p
        BY <2>4, <3>1, <1>d
      <3>2. \A s \in Tasks : s # t => (task'[s].branch # NoBranch => task'[s].branch \in Branches)
        BY <2>2, <1>a DEF TaskRow
      <3>3. ASSUME NEW s \in Tasks, NEW a \in Agents, NEW c \in Branches, c = task'[s].branch,
                   Uses(a, c)'
            PROVE  /\ task'[s].status # "completed"
                   /\ task'[s].status = "in_progress" => task'[s].agent = a
        <4>1. CASE s = t
          BY <4>1, <3>3, <2>2, <3>1
        <4>2. CASE s # t
          <5>1. Uses(a, c) /\ c = task[s].branch /\ c # NoBranch
            BY <4>2, <3>3, <2>2, <2>4, ConstantsAssumption
          <5>2. QED
            BY <5>1, <4>2, <2>2 DEF KeptInv, RowInv, UsedByOwner
        <4>3. QED
          BY <4>1, <4>2
      <3>4. QED
        BY <3>2, <3>3, <2>2, <1>d DEF UsedByOwner, Uses, At
    <2>8. LiveKept'
      BY <2>2, <1>a, <1>b, <1>c, <1>d DEF KeptInv, LiveKept, Live, Alone, At
    <2>9. QED
      BY <2>3, <2>5, <2>6, <2>7, <2>8, <1>a, KeptCalls DEF KeptInv, RowInv
  <1>3. QED
    BY <1>1, <1>2

LEMMA KeptComplete ==
  ASSUME CallInv, TypeOK', KeptInv, NEW p \in Agents, CompleteUpdate(p)
  PROVE  KeptInv'
  <1>a. /\ TypeOK /\ p \in Procs /\ UNCHANGED <<stream, refs, tip, starts, wt, crashes>>
        /\ task \in [Tasks -> TaskRow] /\ proc \in [Procs -> Process]
    BY DEF CallInv, TypeOK, CompleteUpdate, Procs, gitVars
  <1>b. At(p, "complete_update") /\ Return(p)
    BY DEF CompleteUpdate
  <1>c. Alone(p)
    BY <1>a, <1>b, AloneFacts DEF At
  <1>1. PICK t \in Tasks : /\ t = proc[p].task /\ task[t].agent = p
                           /\ task[t].status = "in_progress"
                           /\ tip[task[t].branch] \subseteq stream /\ wt[p].on = Stream
    BY <1>a, <1>b DEF KeptInv, KeptRelies, CallInv, Relies, MergePcs, At
  <1>2. /\ task'[t].status = "completed" /\ task'[t].branch = task[t].branch
        /\ \A s \in Tasks : s # t => task'[s] = task[s]
    BY <1>1, <1>a DEF CompleteUpdate, TaskRow
  <1>3. Proceeds(p) /\ KeptRelies(p)' /\ proc'[p].pc = "idle"
    BY <1>b, <1>a, <1>c, ReturnEffect, EasyCalls DEF Proceeds, EasyPcs
  <1>4. \A a \in Agents, c \in Branches : Uses(a, c)' => Uses(a, c)
    BY <1>3, <1>a, SameUse
  <1>5. RowsNamed' /\ UsedStarted' /\ CompletedWorkMerged'
    BY <1>1, <1>2, <1>4, <1>a DEF KeptInv, RowInv, RowsNamed, UsedStarted, Started,
                                  CompletedWorkMerged
  <1>6. \A s \in Tasks : task[s].branch # NoBranch => task[s].branch \in Branches
    BY <1>a DEF TaskRow
  <1>7. UsedByOwner'
    <2>1. ASSUME NEW s \in Tasks, NEW a \in Agents, NEW c \in Branches, c = task'[s].branch,
                 Uses(a, c)'
          PROVE  /\ task'[s].status # "completed"
                 /\ task'[s].status = "in_progress" => task'[s].agent = a
      <3>1. Uses(a, c) /\ c = task[s].branch /\ c # NoBranch
        BY <2>1, <1>2, <1>4, ConstantsAssumption
      <3>2. CASE s = t
        <4>1. a = p
          BY <3>1, <3>2, <1>1 DEF KeptInv, RowInv, UsedByOwner
        <4>2. ~ Uses(p, c)
          BY <1>1, <1>b, ConstantsAssumption DEF Uses, At
        <4>3. QED
          BY <3>1, <4>1, <4>2
      <3>3. CASE s # t
        BY <3>1, <3>3, <1>2 DEF KeptInv, RowInv, UsedByOwner
      <3>4. QED
        BY <3>2, <3>3
    <2>2. QED
      BY <2>1, <1>2, <1>6 DEF UsedByOwner, Uses, At
  <1>8. LiveKept'
    BY <1>2, <1>a, <1>b, <1>c DEF KeptInv, LiveKept, Live, Alone, At
  <1>9. QED
    BY <1>3, <1>5, <1>7, <1>8, <1>a, KeptCalls DEF KeptInv, RowInv

LEMMA KeptStep ==
  ASSUME ~ Interleaved, OwnTasksOnly, CallInv, TypeOK', KeptInv, [Next]_vars
  PROVE  KeptInv'
  <1>1. CASE UNCHANGED vars
    BY <1>1 DEF vars, KeptInv, RowInv, RowsNamed, UsedStarted, UsedByOwner, CompletedWorkMerged,
                LiveKept, Live, KeptRelies, Uses, Started, At
  <1>2. ASSUME NEW p \in Procs, Step(p) \/ Crash(p) PROVE KeptInv'
    BY <1>2, KeptInside, KeptRows, KeptStarting, KeptComplete, KeptCrash DEF Step
  <1>3. ASSUME NEW p \in Agents, AgentNext(p) PROVE KeptInv'
    BY <1>3, KeptStart, KeptWorktree, KeptOutside DEF AgentNext
  <1>4. ASSUME CoordinatorNext PROVE KeptInv'
    <2>1. TypeOK
      BY DEF CallInv
    <2>2. QED
      BY <1>4, <2>1, KeptBegin, KeptOutside DEF CoordinatorNext
  <1>5. QED
    BY <1>1, <1>2, <1>3, <1>4 DEF Next

LEMMA InitKept == Init => KeptInv
  <1> SUFFICES ASSUME Init PROVE KeptInv
    OBVIOUS
  <1>1. \A p \in Procs : proc[p].pc = "idle"
    BY DEF Init, Idle, Call
  <1>2. \A t \in Tasks : task[t].branch = NoBranch /\ task[t].status = "none"
    BY DEF Init
  <1>3. \A a \in Agents, b \in Branches : ~ Uses(a, b)
    BY <1>1, ConstantsAssumption DEF Init, Uses, At, Procs
  <1>4. RowInv
    BY <1>2, <1>3 DEF RowInv, RowsNamed, UsedStarted, UsedByOwner, CompletedWorkMerged
  <1>5. QED
    BY <1>1, <1>2, <1>4 DEF KeptInv, LiveKept, Live, KeptRelies, At

\* The branch a row names is kept, when calls do not overlap and agents complete their own
\* tasks: that of a completed task is in the stream, however earlier calls for the task were
\* cut short, and that of a live task exists; for any number of tasks and agents.  The
\* branch of an earlier start, which no row names, is not meant.
THEOREM BranchIsKept == ASSUME ~ Interleaved, OwnTasksOnly PROVE Spec => []BranchKept
  <1>1. IInv /\ CallInv /\ KeptInv /\ [Next]_vars => (IInv /\ CallInv /\ KeptInv)'
    <2> SUFFICES ASSUME IInv, CallInv, KeptInv, [Next]_vars
                 PROVE  (IInv /\ CallInv /\ KeptInv)'
      OBVIOUS
    <2>1. IInv' /\ TypeOK' /\ RecordedFirst'
      BY InvStep DEF IInv
    <2>2. QED
      BY <2>1, LifecycleStep, KeptStep
  <1>2. Init => IInv /\ CallInv /\ KeptInv
    BY InitInv, InitCallInv, InitKept
  <1>3. KeptInv => BranchKept
    BY DEF KeptInv, RowInv, LiveKept, Live, BranchKept, LiveBranchExists
  <1>4. QED
    BY <1>1, <1>2, <1>3, PTL DEF Spec
-----------------------------------------------------------------------------
(***************************************************************************)
(* The merge queue, for every set of streams, entries and workers and all  *)
(* settings, overlapping calls and crashes included: what is recorded as   *)
(* merged is in the target.  When the calls of processes do not overlap: a *)
(* stream has one entry that may be merged, a failed entry was not, and    *)
(* the priorities are respected.  The queue and the worker tasks share no  *)
(* constant, variable or definition.                                       *)
(***************************************************************************)

(* The inductive invariant *)

Handling == {"merge", "mark", "merged", "failed"}

EntryRow == [status : Active \cup {"none", "merged", "failed", "cancelled", "removed"},
             stream : Streams \cup {None}, priority : 0 .. setting.priorities,
             addedAt : 0 .. Cardinality(Entries), commit : 0 .. setting.work,
             again : BOOLEAN]

\* what TypeOK leaves open: the settings, and target as a function
QueueTyped == setting \in Setting /\ QueueTypeOK /\ target \in [Streams -> Nat]

\* A row that was ever inserted has a stream.
Inserted == \A e \in Entries : entry[e].status # "none" => entry[e].stream \in Streams

\* A call that handles an entry has a row that was inserted, and that row's stream;
\* from the merge on, the target has work of that stream.
CallTrue == \A w \in Workers :
  /\ call[w].pc = "insert" => call[w].stream \in Streams
  /\ call[w].pc \in Handling =>
       /\ call[w].entry \in Entries
       /\ entry[call[w].entry].status # "none"
       /\ entry[call[w].entry].stream = call[w].stream
  /\ call[w].pc \in {"mark", "merged"} => target[call[w].stream] > 0

\* Without overlapping calls: one call is under way at most, nothing happens between its
\* look at the queue and what it does about it, and a row with a commit is over.
OneCall == \A v, w \in Workers : v # w => call[v] = NoQueueCall \/ call[w] = NoQueueCall
NotQueued == \A w \in Workers : call[w].pc = "insert" => ~ Queued(call[w].stream)
ReadyKnown == \A w \in Workers : call[w].pc \in Handling \cup {"pick"} => call[w].entries = Ready
Marked == \A w \in Workers : call[w].pc \in Handling => entry[call[w].entry].status = "merging"
CommitIsOver == \A e \in Entries : entry[e].commit # 0 => entry[e].status \in {"merged", "removed"}
ActiveOnce == \A e, f \in Entries :
  /\ entry[e].status \in Active /\ ~ entry[e].again
  /\ entry[f].status \in Active /\ ~ entry[f].again
  /\ entry[e].stream = entry[f].stream
  => e = f

AloneInv == ~ setting.interleaved =>
  OneCall /\ NotQueued /\ ReadyKnown /\ Marked /\ CommitIsOver /\ ActiveOnce

QueueInv == QueueTyped /\ Inserted /\ CallTrue /\ MergedIsInTarget

-----------------------------------------------------------------------------
(* What the assignments to the table and to a call do *)

CallRow == [pc : {"idle", "insert", "pick", "merge", "mark", "merged", "failed"},
            stream : Streams \cup {None}, entry : Entries \cup {None},
            entries : SUBSET Entries, left : Nat,
            strategy : setting.strategies \cup {"none"}]

EntryStatus == Active \cup {"none", "merged", "failed", "cancelled", "removed"}

\* updateQueueEntry with a status changes that status and no other field or row.
LEMMA SetRow ==
  ASSUME entry \in [Entries -> EntryRow], NEW e \in Entries, NEW st \in EntryStatus,
         SetEntry(e, st)
  PROVE  /\ entry' \in [Entries -> EntryRow]
         /\ \A f \in Entries :
              /\ entry'[f].stream = entry[f].stream
              /\ entry'[f].priority = entry[f].priority
              /\ entry'[f].addedAt = entry[f].addedAt
              /\ entry'[f].commit = entry[f].commit
              /\ entry'[f].again = entry[f].again
         /\ \A f \in Entries : f # e => entry'[f].status = entry[f].status
         /\ entry'[e].status = st
  BY DEF SetEntry, EntryRow, EntryStatus

\* markReady changes the status; the ghost says whether the row had failed.
LEMMA ReadyRow ==
  ASSUME entry \in [Entries -> EntryRow], NEW e \in Entries, MarkReady(e)
  PROVE  /\ entry' \in [Entries -> EntryRow]
         /\ \A f \in Entries :
              /\ entry'[f].stream = entry[f].stream
              /\ entry'[f].commit = entry[f].commit
         /\ \A f \in Entries : f # e => entry'[f] = entry[f]
         /\ entry'[e].status = "ready"
         /\ entry[e].status \in {"pending", "failed"}
         /\ ~ entry'[e].again => entry[e].status = "pending" /\ ~ entry[e].again
  <1> DEFINE b == entry[e].again \/ entry[e].status = "failed"
  <1>1. entry' = [entry EXCEPT ![e].status = "ready", ![e].again = b]
    BY DEF MarkReady
  <1>2. b \in BOOLEAN
    OBVIOUS
  <1>3. ~ b => ~ entry[e].again /\ entry[e].status # "failed"
    OBVIOUS
  <1> HIDE DEF b
  <1>4. entry[e].status \in {"pending", "failed"}
    BY DEF MarkReady
  <1>5. /\ entry' \in [Entries -> EntryRow]
        /\ \A f \in Entries :
             /\ entry'[f].stream = entry[f].stream
             /\ entry'[f].commit = entry[f].commit
        /\ \A f \in Entries : f # e => entry'[f] = entry[f]
        /\ entry'[e].status = "ready"
        /\ entry'[e].again = b
    BY <1>1, <1>2 DEF EntryRow, Active
  <1>6. QED
    BY <1>3, <1>4, <1>5

\* A call goes on: its place changes, and nothing else of it or of another call.
LEMMA GotoCall ==
  ASSUME call \in [Workers -> CallRow], NEW w \in Workers,
         NEW pc \in {"pick", "merge", "mark", "merged", "failed"}, GoOn(w, pc)
  PROVE  /\ call' \in [Workers -> CallRow]
         /\ \A v \in Workers : v # w => call'[v] = call[v]
         /\ call'[w].pc = pc
         /\ call'[w].stream = call[w].stream
         /\ call'[w].entry = call[w].entry
         /\ call'[w].entries = call[w].entries
  BY DEF GoOn, CallRow

\* A call ends.
LEMMA ReturnCall ==
  ASSUME call \in [Workers -> CallRow], NEW w \in Workers, EndWork(w)
  PROVE  /\ call' \in [Workers -> CallRow]
         /\ \A v \in Workers : v # w => call'[v] = call[v]
         /\ call'[w] = NoQueueCall
         /\ NoQueueCall.pc = "idle"
  BY DEF EndWork, CallRow, NoQueueCall

\* The outcome of an entry: its row is gone and the call ends, or the row alone gets
\* the status and, when merged, the number of the stream's commits in the target.
LEMMA FinishRow ==
  ASSUME entry \in [Entries -> EntryRow], call \in [Workers -> CallRow],
         target \in [Streams -> Nat], NEW w \in Workers, NEW st \in {"merged", "failed"},
         call[w].entry \in Entries,
         entry[call[w].entry].stream \in Streams,
         target[entry[call[w].entry].stream] \in 0 .. setting.work,
         Finish(w, st)
  PROVE  /\ entry' \in [Entries -> EntryRow]
         /\ \/ ~ Exists(call[w].entry) /\ entry' = entry /\ EndWork(w)
            \/ /\ GoOn(w, "pick")
               /\ \A f \in Entries :
                    /\ entry'[f].stream = entry[f].stream
                    /\ entry'[f].priority = entry[f].priority
                    /\ entry'[f].addedAt = entry[f].addedAt
                    /\ entry'[f].again = entry[f].again
               /\ \A f \in Entries : f # call[w].entry => entry'[f] = entry[f]
               /\ entry'[call[w].entry].status = st
               /\ entry'[call[w].entry].commit =
                    IF st = "merged" THEN target[entry[call[w].entry].stream]
                                     ELSE entry[call[w].entry].commit
  <1> DEFINE e == call[w].entry
  <1>1. CASE Exists(e)
    <2>1. entry' = [entry EXCEPT ![e].status = st,
                                 ![e].commit = IF st = "merged" THEN target[entry[e].stream] ELSE @]
      BY <1>1 DEF Finish
    <2>2. GoOn(w, "pick")
      BY <1>1 DEF Finish
    <2> DEFINE n == IF st = "merged" THEN target[entry[e].stream] ELSE entry[e].commit
    <2>3. n \in 0 .. setting.work /\ st \in Active \cup {"merged", "failed"}
      BY DEF EntryRow
    <2>4. entry' = [entry EXCEPT ![e].status = st, ![e].commit = n]
      BY <2>1
    <2> HIDE DEF n
    <2>5. entry' \in [Entries -> EntryRow]
      BY <2>3, <2>4 DEF EntryRow
    <2>6. /\ \A f \in Entries :
               /\ entry'[f].stream = entry[f].stream
               /\ entry'[f].priority = entry[f].priority
               /\ entry'[f].addedAt = entry[f].addedAt
               /\ entry'[f].again = entry[f].again
          /\ \A f \in Entries : f # e => entry'[f] = entry[f]
          /\ entry'[e].status = st
          /\ entry'[e].commit = n
      BY <2>4 DEF EntryRow
    <2>7. QED
      BY <2>2, <2>5, <2>6 DEF n
  <1>2. CASE ~ Exists(e)
    BY <1>2 DEF Finish
  <1>3. QED
    BY <1>1, <1>2

-----------------------------------------------------------------------------
(* The invariant holds at first and is kept by every action. *)

LEMMA InitQueueInv == QueueInit => QueueInv /\ AloneInv
  <1> SUFFICES ASSUME QueueInit PROVE QueueInv /\ AloneInv
    OBVIOUS
  <1>1. setting \in Setting
    BY QueueAssumption DEF QueueInit
  <1>2. Cardinality(Entries) \in Nat
    BY QueueAssumption, FS_CardinalityType
  <1>3. QueueTypeOK
    BY <1>1, <1>2 DEF QueueInit, QueueTypeOK, Setting, NoEntry, NoQueueCall, Active
  <1>4. QueueTyped
    BY <1>1, <1>3 DEF QueueTyped, QueueInit
  <1>5. Inserted /\ CallTrue /\ MergedIsInTarget
    BY DEF QueueInit, Inserted, CallTrue, MergedIsInTarget, NoEntry, NoQueueCall, Handling
  <1>6. AloneInv
    BY DEF QueueInit, AloneInv, OneCall, NotQueued, ReadyKnown, Marked, CommitIsOver, ActiveOnce,
           NoEntry, NoQueueCall, Handling, Active, Queued
  <1>7. QED
    BY <1>4, <1>5, <1>6 DEF QueueInv

\* The types in the form the steps use them.
LEMMA QueueTypes ==
  ASSUME QueueTyped
  PROVE  /\ entry \in [Entries -> EntryRow]
         /\ call \in [Workers -> CallRow]
         /\ target \in [Streams -> Nat]
         /\ work \in [Streams -> 1 .. setting.work]
         /\ \A s \in Streams : target[s] \in 0 .. work[s] /\ target[s] \in 0 .. setting.work
         /\ setting.work \in Nat /\ setting.limit \in Nat /\ setting.crashes \in Nat
         /\ setting.workers \subseteq Workers
         /\ setting.streams \subseteq Streams
         /\ setting.entries \subseteq Entries
  BY DEF QueueTyped, QueueTypeOK, Setting, EntryRow, CallRow

\* A step that leaves the branches and the target alone keeps the types when it keeps
\* those of the table and of the calls.
LEMMA KeepQueueTypes ==
  ASSUME QueueTyped, entry' \in [Entries -> EntryRow], call' \in [Workers -> CallRow],
         UNCHANGED <<setting, status, targetVars, cuts>>
  PROVE  QueueTyped'
  BY DEF QueueTyped, QueueTypeOK, EntryRow, CallRow, targetVars

LEMMA AddToQueueStep ==
  ASSUME QueueInv, NEW w \in setting.workers, NEW s \in setting.streams, AddToQueue(w, s)
  PROVE  QueueInv' /\ (AloneInv => AloneInv')
  <1> DEFINE row == [pc |-> "insert", stream |-> s, entry |-> None, entries |-> {}, left |-> 0,
                     strategy |-> "none"]
  <1>1. w \in Workers /\ s \in Streams
    BY QueueTypes DEF QueueInv
  <1>2. call' = [call EXCEPT ![w] = row]
    <2>1. \A c : c = [pc |-> "idle", stream |-> None, entry |-> None, entries |-> {}, left |-> 0,
                      strategy |-> "none"]
                 => [c EXCEPT !.pc = "insert"] =
                    [pc |-> "insert", stream |-> None, entry |-> None, entries |-> {},
                     left |-> 0, strategy |-> "none"]
      OBVIOUS
    <2>2. \A c : c = [pc |-> "insert", stream |-> None, entry |-> None, entries |-> {}, left |-> 0,
                      strategy |-> "none"]
                 => [c EXCEPT !.stream = s] = row
      OBVIOUS
    <2>3. [NoQueueCall EXCEPT !.pc = "insert", !.stream = s] = row
      BY <2>1, <2>2 DEF NoQueueCall
    <2>4. QED
      BY <2>3 DEF AddToQueue
  <1>3. row \in CallRow /\ row.pc = "insert" /\ row.stream = s
    BY <1>1 DEF CallRow
  <1> HIDE DEF row
  <1>4. /\ call' \in [Workers -> CallRow]
        /\ call'[w] = row
        /\ \A v \in Workers : v # w => call'[v] = call[v]
    BY <1>1, <1>2, <1>3, QueueTypes DEF QueueInv
  <1>5. UNCHANGED <<setting, entry, status, targetVars, cuts>>
    BY DEF AddToQueue
  <1>6. QueueTyped'
    BY <1>4, <1>5, QueueTypes, KeepQueueTypes DEF QueueInv
  <1>7. Inserted' /\ CallTrue' /\ MergedIsInTarget'
    BY <1>1, <1>3, <1>4, <1>5
       DEF QueueInv, Inserted, CallTrue, MergedIsInTarget, targetVars, Handling
  <1>8. ASSUME AloneInv, ~ setting.interleaved
        PROVE  OneCall' /\ NotQueued' /\ ReadyKnown' /\ Marked' /\ CommitIsOver' /\ ActiveOnce'
    <2>1. \A v \in Workers \ {w} : call[v] = NoQueueCall
      BY <1>8 DEF AddToQueue, FreeWorker, MayRun
    <2>2. OneCall'
      BY <1>4, <2>1 DEF OneCall
    <2>3. ~ Queued(s)' 
      BY <1>5 DEF AddToQueue, Queued
    <2>4. NotQueued' /\ ReadyKnown' /\ Marked'
      BY <1>3, <1>4, <2>1, <2>3, <1>5
         DEF NotQueued, ReadyKnown, Marked, Handling, NoQueueCall, Queued
    <2>5. CommitIsOver' /\ ActiveOnce'
      BY <1>5, <1>8 DEF AloneInv, CommitIsOver, ActiveOnce
    <2>6. QED
      BY <2>2, <2>4, <2>5
  <1>9. QED
    BY <1>5, <1>6, <1>7, <1>8 DEF QueueInv, AloneInv

\* Rows are counted up to the number of ids.
LEMMA AddedBound ==
  ASSUME NEW e \in Entries, entry[e].status = "none"
  PROVE  Added + 1 \in 0 .. Cardinality(Entries)
  <1> DEFINE S == {f \in Entries : entry[f].status # "none"}
  <1>1. S \cup {e} \subseteq Entries /\ e \notin S /\ S \subseteq Entries
    OBVIOUS
  <1>2. IsFiniteSet(S) /\ IsFiniteSet(S \cup {e}) /\ Cardinality(S) \in Nat
    BY <1>1, QueueAssumption, FS_Subset, FS_CardinalityType
  <1>3. Cardinality(S \cup {e}) = Cardinality(S) + 1
    BY <1>1, <1>2, FS_AddElement
  <1>4. Cardinality(S \cup {e}) <= Cardinality(Entries) /\ Cardinality(Entries) \in Nat
    BY <1>1, QueueAssumption, FS_Subset, FS_CardinalityType
  <1>5. QED
    BY <1>2, <1>3, <1>4 DEF Added

LEMMA InsertEntryStep ==
  ASSUME QueueInv, NEW w \in setting.workers, InsertEntry(w)
  PROVE  QueueInv' /\ (AloneInv => AloneInv')
  <1>1. w \in Workers /\ call[w].pc = "insert"
    BY QueueTypes DEF QueueInv, InsertEntry, WorkerAt
  <1>2. PICK e \in setting.entries, p \in 1 .. setting.priorities :
          /\ entry[e] = NoEntry
          /\ entry' = [entry EXCEPT ![e] =
               [status |-> "pending", stream |-> call[w].stream, priority |-> p,
                addedAt |-> Added + 1, commit |-> 0, again |-> FALSE]]
    BY DEF InsertEntry
  <1> DEFINE s == call[w].stream
             row == [status |-> "pending", stream |-> s, priority |-> p,
                     addedAt |-> Added + 1, commit |-> 0, again |-> FALSE]
  <1>3. e \in Entries /\ s \in Streams
    BY <1>1, QueueTypes DEF QueueInv, CallTrue
  <1>4. entry' = [entry EXCEPT ![e] = row]
    BY <1>2
  <1>5. Added + 1 \in 0 .. Cardinality(Entries)
    BY <1>2, <1>3, AddedBound DEF NoEntry
  <1>6. /\ row \in EntryRow
        /\ row.status = "pending" /\ row.stream = s /\ row.commit = 0 /\ row.again = FALSE
    BY <1>3, <1>5, QueueTypes DEF EntryRow, Active, QueueInv, QueueTyped, Setting
  <1> HIDE DEF row
  <1>7. /\ entry' \in [Entries -> EntryRow]
        /\ entry'[e] = row
        /\ \A f \in Entries : f # e => entry'[f] = entry[f]
    BY <1>3, <1>4, <1>6, QueueTypes DEF QueueInv
  <1>8. /\ call' \in [Workers -> CallRow]
        /\ \A v \in Workers : v # w => call'[v] = call[v]
        /\ call'[w].pc = "idle" /\ call'[w] = NoQueueCall
    BY <1>1, QueueTypes, ReturnCall DEF QueueInv, InsertEntry
  <1>9. UNCHANGED <<setting, status, targetVars, cuts>>
    BY DEF InsertEntry
  <1>10. QueueTyped'
    BY <1>7, <1>8, <1>9, KeepQueueTypes DEF QueueInv
  <1>11. Inserted'
    BY <1>3, <1>6, <1>7 DEF QueueInv, Inserted
  <1>12. CallTrue'
    <2>1. ASSUME NEW v \in Workers PROVE CallTrue!(v)'
      BY <2>1, <1>2, <1>7, <1>8, <1>9 DEF QueueInv, CallTrue, targetVars, Handling, NoEntry
    <2>2. QED
      BY <2>1 DEF CallTrue
  <1>13. MergedIsInTarget'
    BY <1>6, <1>7, <1>9 DEF QueueInv, MergedIsInTarget, targetVars
  <1>14. ASSUME AloneInv, ~ setting.interleaved
         PROVE  OneCall' /\ NotQueued' /\ ReadyKnown' /\ Marked' /\ CommitIsOver' /\ ActiveOnce'
    <2>1. \A v \in Workers : call'[v].pc = "idle" /\ call'[v] = NoQueueCall
      BY <1>8, <1>1, <1>14 DEF AloneInv, OneCall, NoQueueCall
    <2>2. OneCall' /\ NotQueued' /\ ReadyKnown' /\ Marked'
      BY <2>1 DEF OneCall, NotQueued, ReadyKnown, Marked, Handling
    <2>3. CommitIsOver'
      BY <1>6, <1>7, <1>14 DEF AloneInv, CommitIsOver
    <2>4. \A f \in Entries : entry[f].stream = s => entry[f].status \notin Active
      BY <1>1, <1>14 DEF AloneInv, NotQueued, Queued
    <2>5. ActiveOnce'
      BY <2>4, <1>6, <1>7, <1>14 DEF AloneInv, ActiveOnce
    <2>6. QED
      BY <2>2, <2>3, <2>5
  <1>15. QED
    BY <1>9, <1>10, <1>11, <1>12, <1>13, <1>14 DEF QueueInv, AloneInv

LEMMA ManageStep ==
  ASSUME QueueInv, Manage
  PROVE  QueueInv' /\ (AloneInv => AloneInv')
  <1>1. PICK e \in Entries : MarkReady(e) \/ CancelQueueEntry(e) \/ RemoveFromQueue(e)
    BY DEF Manage
  <1>2. PICK st \in {"ready", "cancelled", "removed"} :
          /\ \/ st = "ready" /\ MarkReady(e)
             \/ st # "ready" /\ SetEntry(e, st)
          /\ entry[e].status \notin {"none", "removed"}
          /\ st = "ready" => entry[e].status \in {"pending", "failed"}
          /\ st = "cancelled" => entry[e].status \in Active
    BY <1>1 DEF MarkReady, CancelQueueEntry, RemoveFromQueue, Exists
  <1>3. UNCHANGED <<setting, status, targetVars, call, cuts>>
    BY DEF Manage
  <1>4. /\ entry' \in [Entries -> EntryRow]
        /\ \A f \in Entries :
             /\ entry'[f].stream = entry[f].stream
             /\ entry'[f].commit = entry[f].commit
        /\ \A f \in Entries : f # e => /\ entry'[f].status = entry[f].status
                                       /\ entry'[f].again = entry[f].again
        /\ entry'[e].status = st
        /\ st = "ready" /\ ~ entry'[e].again => entry[e].status = "pending" /\ ~ entry[e].again
        /\ st = "cancelled" => entry'[e].again = entry[e].again
    BY <1>2, QueueTypes, SetRow, ReadyRow DEF QueueInv, EntryStatus, Active
  <1>5. QueueTyped'
    BY <1>3, <1>4, QueueTypes, KeepQueueTypes DEF QueueInv
  <1>6. Inserted' /\ CallTrue' /\ MergedIsInTarget'
    <2>1. Inserted'
      BY <1>2, <1>4 DEF QueueInv, Inserted
    <2>2. CallTrue'
      BY <1>2, <1>3, <1>4 DEF QueueInv, CallTrue, targetVars
    <2>3. MergedIsInTarget'
      BY <1>3, <1>4 DEF QueueInv, MergedIsInTarget, targetVars
    <2>4. QED
      BY <2>1, <2>2, <2>3
  <1>7. ASSUME AloneInv, ~ setting.interleaved
        PROVE  OneCall' /\ NotQueued' /\ ReadyKnown' /\ Marked' /\ CommitIsOver' /\ ActiveOnce'
    <2>1. \A v \in Workers : call'[v].pc = "idle" /\ call'[v] = NoQueueCall
      BY <1>3, <1>7 DEF Manage, Quiet, NoQueueCall
    <2>2. OneCall' /\ NotQueued' /\ ReadyKnown' /\ Marked'
      BY <2>1 DEF OneCall, NotQueued, ReadyKnown, Marked, Handling
    <2>3. CommitIsOver'
      BY <1>2, <1>4, <1>7 DEF AloneInv, CommitIsOver, Active
    <2>4. ActiveOnce'
      BY <1>2, <1>4, <1>7 DEF AloneInv, ActiveOnce, Active
    <2>5. QED
      BY <2>2, <2>3, <2>4
  <1>8. QED
    BY <1>3, <1>5, <1>6, <1>7 DEF QueueInv, AloneInv

LEMMA ProcessQueueStep ==
  ASSUME QueueInv, NEW w \in setting.workers, NEW x \in setting.strategies, ProcessQueue(w, x)
  PROVE  QueueInv' /\ (AloneInv => AloneInv')
  <1> DEFINE row == [pc |-> "pick", stream |-> None, entry |-> None, entries |-> Ready,
                     left |-> setting.limit, strategy |-> x]
  <1>1. w \in Workers
    BY QueueTypes DEF QueueInv
  <1>2. call' = [call EXCEPT ![w] = row]
    <2> DEFINE R == Ready
               l == setting.limit
    <2> HIDE DEF R, l
    <2>1. \A c : c = [pc |-> "idle", stream |-> None, entry |-> None, entries |-> {}, left |-> 0,
                      strategy |-> "none"]
                 => [c EXCEPT !.pc = "pick"] =
                    [pc |-> "pick", stream |-> None, entry |-> None, entries |-> {}, left |-> 0,
                     strategy |-> "none"]
      OBVIOUS
    <2>2. \A c : c = [pc |-> "pick", stream |-> None, entry |-> None, entries |-> {}, left |-> 0,
                      strategy |-> "none"]
                 => [c EXCEPT !.entries = R] =
                    [pc |-> "pick", stream |-> None, entry |-> None, entries |-> R, left |-> 0,
                     strategy |-> "none"]
      OBVIOUS
    <2>3. \A c : c = [pc |-> "pick", stream |-> None, entry |-> None, entries |-> R, left |-> 0,
                      strategy |-> "none"]
                 => [c EXCEPT !.left = l] =
                    [pc |-> "pick", stream |-> None, entry |-> None, entries |-> R, left |-> l,
                     strategy |-> "none"]
      OBVIOUS
    <2>4. \A c : c = [pc |-> "pick", stream |-> None, entry |-> None, entries |-> R, left |-> l,
                      strategy |-> "none"]
                 => [c EXCEPT !.strategy = x] =
                    [pc |-> "pick", stream |-> None, entry |-> None, entries |-> R, left |-> l,
                     strategy |-> x]
      OBVIOUS
    <2>5. [NoQueueCall EXCEPT !.pc = "pick", !.entries = R]
          = [pc |-> "pick", stream |-> None, entry |-> None, entries |-> R, left |-> 0,
             strategy |-> "none"]
      BY <2>1, <2>2 DEF NoQueueCall
    <2>6. [NoQueueCall EXCEPT !.pc = "pick", !.entries = R, !.left = l, !.strategy = x]
          = [pc |-> "pick", stream |-> None, entry |-> None, entries |-> R, left |-> l,
             strategy |-> x]
      BY <2>3, <2>4, <2>5
    <2>7. QED
      BY <2>6 DEF ProcessQueue, R, l
  <1>3. row \in CallRow /\ row.pc = "pick" /\ row.entries = Ready
    <2>1. Ready \subseteq Entries
      BY DEF Ready
    <2>2. QED
      BY <2>1, QueueTypes DEF QueueInv, CallRow
  <1> HIDE DEF row
  <1>4. /\ call' \in [Workers -> CallRow]
        /\ call'[w] = row
        /\ \A v \in Workers : v # w => call'[v] = call[v]
    BY <1>1, <1>2, <1>3, QueueTypes DEF QueueInv
  <1>5. UNCHANGED <<setting, entry, status, targetVars, cuts>>
    BY DEF ProcessQueue
  <1>6. QueueTyped'
    BY <1>4, <1>5, QueueTypes, KeepQueueTypes DEF QueueInv
  <1>7. Inserted' /\ CallTrue' /\ MergedIsInTarget'
    BY <1>1, <1>3, <1>4, <1>5
       DEF QueueInv, Inserted, CallTrue, MergedIsInTarget, targetVars, Handling
  <1>8. ASSUME AloneInv, ~ setting.interleaved
        PROVE  OneCall' /\ NotQueued' /\ ReadyKnown' /\ Marked' /\ CommitIsOver' /\ ActiveOnce'
    <2>1. \A v \in Workers \ {w} : call[v] = NoQueueCall
      BY <1>8 DEF ProcessQueue, FreeWorker, MayRun
    <2>2. OneCall'
      BY <1>4, <2>1 DEF OneCall
    <2>3. Ready' = Ready
      BY <1>5 DEF Ready
    <2>4. NotQueued' /\ ReadyKnown' /\ Marked'
      BY <1>3, <1>4, <2>1, <2>3, <1>5
         DEF NotQueued, ReadyKnown, Marked, Handling, NoQueueCall, Queued
    <2>5. CommitIsOver' /\ ActiveOnce'
      BY <1>5, <1>8 DEF AloneInv, CommitIsOver, ActiveOnce
    <2>6. QED
      BY <2>2, <2>4, <2>5
  <1>9. QED
    BY <1>5, <1>6, <1>7, <1>8 DEF QueueInv, AloneInv

\* The end of a call, orderly or not, disturbs nothing.
LEMMA EndCall ==
  ASSUME QueueInv, NEW w \in Workers, EndWork(w), UNCHANGED <<setting, entry, target>>
  PROVE  Inserted' /\ CallTrue' /\ MergedIsInTarget' /\ (AloneInv => AloneInv')
  <1>1. /\ \A v \in Workers : v # w => call'[v] = call[v]
        /\ call'[w] = NoQueueCall /\ call'[w].pc = "idle"
    BY QueueTypes, ReturnCall DEF QueueInv
  <1>2. Inserted' /\ CallTrue' /\ MergedIsInTarget'
    BY <1>1 DEF QueueInv, Inserted, CallTrue, MergedIsInTarget, Handling
  <1>3. ASSUME AloneInv, ~ setting.interleaved
        PROVE  OneCall' /\ NotQueued' /\ ReadyKnown' /\ Marked' /\ CommitIsOver' /\ ActiveOnce'
    <2>1. Ready' = Ready
      BY DEF Ready
    <2>2. OneCall' /\ NotQueued' /\ ReadyKnown' /\ Marked'
      BY <1>1, <1>3, <2>1
         DEF AloneInv, OneCall, NotQueued, Queued, ReadyKnown, Marked, Handling
    <2>3. CommitIsOver' /\ ActiveOnce'
      BY <1>3 DEF AloneInv, CommitIsOver, ActiveOnce
    <2>4. QED
      BY <2>2, <2>3
  <1>4. QED
    BY <1>2, <1>3 DEF AloneInv

LEMMA PickEntryStep ==
  ASSUME QueueInv, NEW w \in setting.workers, PickEntry(w)
  PROVE  QueueInv' /\ (AloneInv => AloneInv')
  <1>1. w \in Workers /\ call[w].pc = "pick" /\ MayRun(w)
    BY QueueTypes DEF QueueInv, PickEntry, WorkerAt
  <1>2. UNCHANGED <<setting, status, targetVars, cuts>>
    BY DEF PickEntry
  <1>3. CASE EndWork(w) /\ UNCHANGED entry
    <2>1. QueueTyped'
      BY <1>1, <1>2, <1>3, QueueTypes, ReturnCall, KeepQueueTypes DEF QueueInv
    <2>2. QED
      BY <1>1, <1>2, <1>3, <2>1, EndCall DEF QueueInv, targetVars
  <1>4. ASSUME NEW e \in call[w].entries, Exists(e), SetEntry(e, "merging"), call[w].left # 0,
               call' = [call EXCEPT ![w].pc = "merge", ![w].entry = e,
                                    ![w].stream = entry[e].stream,
                                    ![w].entries = @ \ {e}, ![w].left = @ - 1]
        PROVE  QueueInv' /\ (AloneInv => AloneInv')
    <2>1. e \in Entries /\ entry[e].status \notin {"none", "removed"}
      BY <1>1, <1>4, QueueTypes DEF QueueInv, CallRow, Exists
    <2>2. /\ entry' \in [Entries -> EntryRow]
          /\ \A f \in Entries :
               /\ entry'[f].stream = entry[f].stream
               /\ entry'[f].commit = entry[f].commit
               /\ entry'[f].again = entry[f].again
          /\ \A f \in Entries : f # e => entry'[f].status = entry[f].status
          /\ entry'[e].status = "merging"
      BY <1>4, <2>1, QueueTypes, SetRow DEF QueueInv, EntryStatus, Active
    <2>3. entry[e].stream \in Streams
      BY <2>1 DEF QueueInv, Inserted
    <2>4. /\ call' \in [Workers -> CallRow]
          /\ \A v \in Workers : v # w => call'[v] = call[v]
          /\ call'[w].pc = "merge" /\ call'[w].entry = e
          /\ call'[w].stream = entry[e].stream
          /\ call'[w].entries = call[w].entries \ {e}
      BY <1>1, <1>4, <2>1, <2>3, QueueTypes DEF QueueInv, CallRow
    <2>5. QueueTyped'
      BY <1>2, <2>2, <2>4, QueueTypes, KeepQueueTypes DEF QueueInv
    <2>6. Inserted'
      BY <2>2, <2>3 DEF QueueInv, Inserted
    <2>7. CallTrue'
      <3>1. ASSUME NEW v \in Workers PROVE CallTrue!(v)'
        BY <1>2, <2>1, <2>2, <2>4 DEF QueueInv, CallTrue, targetVars, Handling
      <3>2. QED
        BY <3>1 DEF CallTrue
    <2>8. MergedIsInTarget'
      BY <1>2, <2>2 DEF QueueInv, MergedIsInTarget, targetVars
    <2>9. ASSUME AloneInv, ~ setting.interleaved
          PROVE  OneCall' /\ NotQueued' /\ ReadyKnown' /\ Marked' /\ CommitIsOver' /\ ActiveOnce'
      <3>1. \A v \in Workers \ {w} : call'[v] = NoQueueCall /\ call'[v].pc = "idle"
        BY <1>1, <2>4, <2>9 DEF MayRun, NoQueueCall
      <3>2. call[w].entries = Ready
        BY <1>1, <2>9 DEF AloneInv, ReadyKnown
      <3>3. entry[e].status = "ready" /\ entry[e].commit = 0
        BY <1>4, <2>1, <3>2, <2>9 DEF Ready, AloneInv, CommitIsOver
      <3>4. Ready' = Ready \ {e}
        BY <2>1, <2>2 DEF Ready
      <3>5. OneCall' /\ NotQueued' /\ ReadyKnown' /\ Marked'
        BY <2>2, <2>4, <3>1, <3>2, <3>4 DEF OneCall, NotQueued, ReadyKnown, Marked, Handling
      <3>6. CommitIsOver'
        BY <2>2, <3>3, <2>9 DEF AloneInv, CommitIsOver
      <3>7. ActiveOnce'
        BY <2>2, <3>3, <2>9 DEF AloneInv, ActiveOnce, Active
      <3>8. QED
        BY <3>5, <3>6, <3>7
    <2>10. QED
      BY <1>2, <2>5, <2>6, <2>7, <2>8, <2>9 DEF QueueInv, AloneInv
  <1>5. QED
    BY <1>3, <1>4 DEF PickEntry

LEMMA MergeStreamStep ==
  ASSUME QueueInv, NEW w \in setting.workers, MergeStream(w)
  PROVE  QueueInv' /\ (AloneInv => AloneInv')
  <1> DEFINE s == call[w].stream
             e == call[w].entry
  <1>1. /\ w \in Workers /\ call[w].pc = "merge" /\ MayRun(w)
        /\ e \in Entries /\ s \in Streams
    BY QueueTypes DEF QueueInv, MergeStream, WorkerAt, CallTrue, Handling, Inserted
  <1>2. UNCHANGED <<setting, entry, status, work, cuts>>
    BY DEF MergeStream, targetVars
  <1>3. PICK pc \in {"mark", "failed"} :
          /\ GoOn(w, pc)
          /\ pc = "failed" => target' = target
          /\ pc = "mark" => target' = [target EXCEPT ![s] = work[s]]
          /\ holder' \in {w, holder}
          /\ dirty' \in {dirty, dirty \cup {w}}
    BY DEF MergeStream, targetVars
  <1>4. /\ call' \in [Workers -> CallRow]
        /\ \A v \in Workers : v # w => call'[v] = call[v]
        /\ call'[w].pc = pc /\ call'[w].stream = s
        /\ call'[w].entry = e /\ call'[w].entries = call[w].entries
    BY <1>1, <1>3, QueueTypes, GotoCall DEF QueueInv
  <1>5. /\ target' \in [Streams -> Nat]
        /\ \A r \in Streams : target'[r] >= target[r] /\ target'[r] \in 0 .. work[r]
        /\ pc = "mark" => target'[s] > 0
    BY <1>1, <1>3, QueueTypes DEF QueueInv
  <1>6. QueueTyped'
    BY <1>1, <1>2, <1>3, <1>4, <1>5 DEF QueueInv, QueueTyped, QueueTypeOK, CallRow
  <1>7. Inserted'
    BY <1>2 DEF QueueInv, Inserted
  <1>8. CallTrue'
    <2>1. ASSUME NEW v \in Workers PROVE CallTrue!(v)'
      <3>1. CASE v = w
        BY <3>1, <1>1, <1>2, <1>3, <1>4, <1>5 DEF QueueInv, CallTrue, Handling
      <3>2. CASE v # w
        <4>1. call'[v] = call[v]
          BY <3>2, <1>4
        <4>2. call[v].pc \in {"mark", "merged"} => call[v].stream \in Streams
          BY DEF QueueInv, CallTrue, Handling, Inserted
        <4>3. call[v].pc \in {"mark", "merged"} => target'[call[v].stream] > 0
          BY <4>2, <1>5, QueueTypes DEF QueueInv, CallTrue
        <4>4. QED
          BY <4>1, <4>3, <1>2 DEF QueueInv, CallTrue
      <3>3. QED
        BY <3>1, <3>2
    <2>2. QED
      BY <2>1 DEF CallTrue
  <1>9. MergedIsInTarget'
    <2>1. ASSUME NEW f \in Entries, entry[f].status = "merged"
          PROVE  entry[f].commit > 0 /\ entry[f].commit <= target'[entry[f].stream]
      <3>1. entry[f].stream \in Streams /\ entry[f].commit \in Nat
        BY <2>1, QueueTypes DEF QueueInv, Inserted, EntryRow
      <3>2. QED
        BY <2>1, <3>1, <1>5, QueueTypes DEF QueueInv, MergedIsInTarget
    <2>2. QED
      BY <2>1, <1>2 DEF MergedIsInTarget
  <1>10. ASSUME AloneInv, ~ setting.interleaved
         PROVE  OneCall' /\ NotQueued' /\ ReadyKnown' /\ Marked' /\ CommitIsOver' /\ ActiveOnce'
    <2>1. \A v \in Workers \ {w} : call'[v] = NoQueueCall /\ call'[v].pc = "idle"
      BY <1>1, <1>4, <1>10 DEF MayRun, NoQueueCall
    <2>2. Ready' = Ready
      BY <1>2 DEF Ready
    <2>3. OneCall' /\ NotQueued' /\ ReadyKnown' /\ Marked'
      BY <1>1, <1>2, <1>4, <1>10, <2>1, <2>2
         DEF AloneInv, OneCall, NotQueued, ReadyKnown, Marked, Handling
    <2>4. CommitIsOver' /\ ActiveOnce'
      BY <1>2, <1>10 DEF AloneInv, CommitIsOver, ActiveOnce
    <2>5. QED
      BY <2>3, <2>4
  <1>11. QED
    BY <1>2, <1>6, <1>7, <1>8, <1>9, <1>10 DEF QueueInv, AloneInv

LEMMA MarkStreamMergedStep ==
  ASSUME QueueInv, NEW w \in setting.workers, MarkStreamMerged(w)
  PROVE  QueueInv' /\ (AloneInv => AloneInv')
  <1>1. w \in Workers /\ call[w].pc = "mark" /\ MayRun(w) /\ GoOn(w, "merged")
    BY QueueTypes DEF QueueInv, MarkStreamMerged, WorkerAt
  <1>2. UNCHANGED <<setting, entry, targetVars, cuts>>
    BY DEF MarkStreamMerged
  <1>3. /\ call' \in [Workers -> CallRow]
        /\ \A v \in Workers : v # w => call'[v] = call[v]
        /\ call'[w].pc = "merged" /\ call'[w].stream = call[w].stream
        /\ call'[w].entry = call[w].entry /\ call'[w].entries = call[w].entries
    BY <1>1, QueueTypes, GotoCall DEF QueueInv
  <1>4. QueueTyped'
    BY <1>2, <1>3
       DEF QueueInv, QueueTyped, QueueTypeOK, MarkStreamMerged, targetVars, CallRow
  <1>5. Inserted' /\ CallTrue' /\ MergedIsInTarget'
    BY <1>1, <1>2, <1>3
       DEF QueueInv, Inserted, CallTrue, MergedIsInTarget, Handling, targetVars
  <1>6. ASSUME AloneInv, ~ setting.interleaved
        PROVE  OneCall' /\ NotQueued' /\ ReadyKnown' /\ Marked' /\ CommitIsOver' /\ ActiveOnce'
    <2>1. \A v \in Workers \ {w} : call'[v] = NoQueueCall /\ call'[v].pc = "idle"
      BY <1>1, <1>3, <1>6 DEF MayRun, NoQueueCall
    <2>2. Ready' = Ready
      BY <1>2 DEF Ready
    <2>3. OneCall' /\ NotQueued' /\ ReadyKnown' /\ Marked'
      BY <1>1, <1>2, <1>3, <1>6, <2>1, <2>2
         DEF AloneInv, OneCall, NotQueued, ReadyKnown, Marked, Handling
    <2>4. CommitIsOver' /\ ActiveOnce'
      BY <1>2, <1>6 DEF AloneInv, CommitIsOver, ActiveOnce
    <2>5. QED
      BY <2>3, <2>4
  <1>7. QED
    BY <1>2, <1>4, <1>5, <1>6 DEF QueueInv, AloneInv

\* The last step of an entry, whichever its outcome; the commit recorded for a merged one
\* is the number of its stream's commits that the target has, which is not zero.
LEMMA OutcomeStep ==
  ASSUME QueueInv, NEW w \in setting.workers, NEW st \in {"merged", "failed"},
         WorkerAt(w, st), Finish(w, st), UNCHANGED <<setting, status, targetVars, cuts>>
  PROVE  QueueInv' /\ (AloneInv => AloneInv')
  <1> DEFINE s == call[w].stream
             e == call[w].entry
  <1>1. /\ w \in Workers /\ call[w].pc = st /\ MayRun(w)
        /\ e \in Entries /\ s \in Streams /\ entry[e].stream = s
        /\ entry[e].status # "none"
    BY QueueTypes DEF QueueInv, WorkerAt, CallTrue, Handling, Inserted
  <1>2. st = "merged" => target[s] > 0
    BY <1>1 DEF QueueInv, CallTrue
  <1>3. /\ entry' \in [Entries -> EntryRow]
        /\ \/ ~ Exists(e) /\ entry' = entry /\ EndWork(w)
           \/ /\ GoOn(w, "pick")
              /\ \A f \in Entries :
                   /\ entry'[f].stream = entry[f].stream
                   /\ entry'[f].priority = entry[f].priority
                   /\ entry'[f].addedAt = entry[f].addedAt
              /\ \A f \in Entries : f # e => entry'[f] = entry[f]
              /\ entry'[e].status = st
              /\ entry'[e].commit = IF st = "merged" THEN target[s] ELSE entry[e].commit
    BY <1>1, QueueTypes, FinishRow DEF QueueInv
  <1>4. CASE entry' = entry /\ EndWork(w)
    <2>1. QueueTyped'
      BY <1>1, <1>3, <1>4, QueueTypes, ReturnCall, KeepQueueTypes DEF QueueInv
    <2>2. QED
      BY <1>1, <1>4, <2>1, EndCall DEF QueueInv, targetVars
  <1>5. ASSUME GoOn(w, "pick"),
               \A f \in Entries : entry'[f].stream = entry[f].stream,
               \A f \in Entries : f # e => entry'[f] = entry[f],
               entry'[e].status = st,
               entry'[e].commit = IF st = "merged" THEN target[s] ELSE entry[e].commit
        PROVE  QueueInv' /\ (AloneInv => AloneInv')
    <2>1. /\ call' \in [Workers -> CallRow]
          /\ \A v \in Workers : v # w => call'[v] = call[v]
          /\ call'[w].pc = "pick" /\ call'[w].entries = call[w].entries
      BY <1>1, <1>5, QueueTypes, GotoCall DEF QueueInv
    <2>2. QueueTyped'
      BY <1>3, <2>1, KeepQueueTypes DEF QueueInv
    <2>3. Inserted'
      BY <1>1, <1>5 DEF QueueInv, Inserted
    <2>4. CallTrue'
      <3>1. ASSUME NEW v \in Workers PROVE CallTrue!(v)'
        BY <1>1, <1>5, <2>1 DEF QueueInv, CallTrue, targetVars, Handling
      <3>2. QED
        BY <3>1 DEF CallTrue
    <2>5. MergedIsInTarget'
      BY <1>1, <1>2, <1>5, QueueTypes DEF QueueInv, MergedIsInTarget, targetVars
    <2>6. ASSUME AloneInv, ~ setting.interleaved
          PROVE  OneCall' /\ NotQueued' /\ ReadyKnown' /\ Marked' /\ CommitIsOver' /\ ActiveOnce'
      <3>1. \A v \in Workers \ {w} : call'[v] = NoQueueCall /\ call'[v].pc = "idle"
        BY <1>1, <2>1, <2>6 DEF MayRun, NoQueueCall
      <3>2. entry[e].status = "merging" /\ entry[e].commit = 0
        BY <1>1, <2>6 DEF AloneInv, Marked, CommitIsOver, Handling
      <3>3. Ready' = Ready
        BY <1>1, <1>5, <3>2 DEF Ready
      <3>4. call[w].entries = Ready
        BY <1>1, <2>6 DEF AloneInv, ReadyKnown, Handling
      <3>5. OneCall' /\ NotQueued' /\ ReadyKnown' /\ Marked'
        BY <2>1, <3>1, <3>3, <3>4 DEF OneCall, NotQueued, ReadyKnown, Marked, Handling
      <3>6. CommitIsOver'
        BY <1>1, <1>5, <3>2, <2>6 DEF AloneInv, CommitIsOver
      <3>7. ActiveOnce'
        BY <1>1, <1>5, <2>6 DEF AloneInv, ActiveOnce, Active
      <3>8. QED
        BY <3>5, <3>6, <3>7
    <2>7. QED
      BY <2>2, <2>3, <2>4, <2>5, <2>6 DEF QueueInv, AloneInv
  <1>6. QED
    BY <1>3, <1>4, <1>5

\* What happens outside the queue: streams change status and grow, worktrees move on.
LEMMA BesideQueueStep ==
  ASSUME QueueInv,
         \/ \E s \in setting.pausing : ChangeStatus(s)
         \/ \E s \in setting.streams : CommitToStream(s)
         \/ \E w \in setting.workers : Leave(w)
  PROVE  QueueInv' /\ (AloneInv => AloneInv')
  <1>1. UNCHANGED <<setting, entry, target, call, cuts>>
    BY DEF ChangeStatus, CommitToStream, Leave, targetVars
  <1>2. QueueTyped'
    <2>1. CASE \E s \in setting.pausing : ChangeStatus(s)
      BY <2>1 DEF QueueInv, QueueTyped, QueueTypeOK, ChangeStatus, targetVars
    <2>2. CASE \E s \in setting.streams : CommitToStream(s)
      <3>1. PICK s \in setting.streams : CommitToStream(s)
        BY <2>2
      <3>2. s \in Streams /\ work' = [work EXCEPT ![s] = @ + 1] /\ work[s] < setting.work
        BY <3>1, QueueTypes DEF QueueInv, CommitToStream
      <3>3. /\ work' \in [Streams -> 1 .. setting.work]
            /\ \A r \in Streams : work'[r] >= work[r]
        BY <3>2, QueueTypes DEF QueueInv
      <3>4. \A r \in Streams : target[r] \in 0 .. work'[r]
        BY <3>3, QueueTypes DEF QueueInv
      <3>5. QED
        BY <1>1, <3>1, <3>3, <3>4 DEF QueueInv, QueueTyped, QueueTypeOK, CommitToStream
    <2>3. CASE \E w \in setting.workers : Leave(w)
      BY <2>3, QueueTypes DEF QueueInv, QueueTyped, QueueTypeOK, Leave
    <2>4. QED
      BY <2>1, <2>2, <2>3
  <1>3. Inserted' /\ CallTrue' /\ MergedIsInTarget'
    BY <1>1 DEF QueueInv, Inserted, CallTrue, MergedIsInTarget
  <1>4. AloneInv => AloneInv'
    BY <1>1
       DEF AloneInv, OneCall, NotQueued, Queued, ReadyKnown, Ready, Marked, CommitIsOver,
                ActiveOnce
  <1>5. QED
    BY <1>2, <1>3, <1>4 DEF QueueInv

LEMMA WorkerDiesStep ==
  ASSUME QueueInv, NEW w \in setting.workers, WorkerDies(w)
  PROVE  QueueInv' /\ (AloneInv => AloneInv')
  <1>1. w \in Workers /\ EndWork(w) /\ UNCHANGED <<setting, entry, status, targetVars>>
    BY QueueTypes DEF QueueInv, WorkerDies
  <1>2. call' \in [Workers -> CallRow]
    BY <1>1, QueueTypes, ReturnCall DEF QueueInv
  <1>3. cuts' \in 0 .. setting.crashes
    BY QueueTypes DEF QueueInv, WorkerDies, QueueTyped, QueueTypeOK
  <1>4. QueueTyped'
    BY <1>1, <1>2, <1>3 DEF QueueInv, QueueTyped, QueueTypeOK, CallRow, targetVars
  <1>5. QED
    BY <1>1, <1>4, EndCall DEF QueueInv, targetVars

\* Every step keeps both parts of the invariant.
LEMMA NextQueueInv ==
  QueueInv /\ [QueueNext]_queueVars => QueueInv' /\ (AloneInv => AloneInv')
  <1> SUFFICES ASSUME QueueInv, [QueueNext]_queueVars
               PROVE  QueueInv' /\ (AloneInv => AloneInv')
    OBVIOUS
  <1>1. CASE UNCHANGED queueVars
    <2>1. QueueInv'
      BY <1>1
         DEF queueVars, QueueInv, QueueTyped, QueueTypeOK, Inserted, CallTrue,
             MergedIsInTarget
    <2>2. AloneInv => AloneInv'
      BY <1>1
         DEF queueVars, AloneInv, OneCall, NotQueued, Queued, ReadyKnown, Ready, Marked,
                  CommitIsOver, ActiveOnce
    <2>3. QED
      BY <2>1, <2>2
  <1>2. ASSUME NEW w \in setting.workers, QueueStep(w)
        PROVE  QueueInv' /\ (AloneInv => AloneInv')
    <2>1. CASE InsertEntry(w)
      BY <2>1, InsertEntryStep
    <2>2. CASE PickEntry(w)
      BY <2>2, PickEntryStep
    <2>3. CASE MergeStream(w)
      BY <2>3, MergeStreamStep
    <2>4. CASE MarkStreamMerged(w)
      BY <2>4, MarkStreamMergedStep
    <2>5. CASE EntryFailed(w)
      BY <2>5, OutcomeStep DEF EntryFailed
    <2>6. CASE EntryMerged(w)
      BY <2>6, OutcomeStep DEF EntryMerged
    <2>7. QED
      BY <1>2, <2>1, <2>2, <2>3, <2>4, <2>5, <2>6 DEF QueueStep
  <1>3. CASE \E w \in setting.workers : Leave(w)
    BY <1>3, BesideQueueStep
  <1>4. CASE \E w \in setting.workers : WorkerDies(w)
    BY <1>4, WorkerDiesStep
  <1>5. CASE \E w \in setting.workers, s \in setting.streams : AddToQueue(w, s)
    BY <1>5, AddToQueueStep
  <1>6. CASE \E w \in setting.workers, x \in setting.strategies : ProcessQueue(w, x)
    BY <1>6, ProcessQueueStep
  <1>7. CASE \E s \in setting.pausing : ChangeStatus(s)
    BY <1>7, BesideQueueStep
  <1>8. CASE \E s \in setting.streams : CommitToStream(s)
    BY <1>8, BesideQueueStep
  <1>9. CASE Manage
    BY <1>9, ManageStep
  <1>10. QED
    BY <1>1, <1>2, <1>3, <1>4, <1>5, <1>6, <1>7, <1>8, <1>9 DEF QueueNext

LEMMA QueueInvariance == QueueSpec => [](QueueInv /\ AloneInv)
  <1>1. QueueInv /\ AloneInv /\ [QueueNext]_queueVars => (QueueInv /\ AloneInv)'
    BY NextQueueInv
  <1>2. QED
    BY <1>1, InitQueueInv, PTL DEF QueueSpec

-----------------------------------------------------------------------------
(* The theorems *)

\* An entry recorded as merged has a commit of the target with work of its stream, and no
\* later step of processQueue takes it out: with calls that overlap and calls cut short.
THEOREM MergedStaysInTarget == QueueSpec => []MergedIsInTarget
  <1>1. QueueInv => MergedIsInTarget
    BY DEF QueueInv
  <1>2. QED
    BY <1>1, QueueInvariance, PTL

\* Sets with one element at most, as OneActiveEntry counts them.
LEMMA AtMostOne ==
  ASSUME NEW S, IsFiniteSet(S), \A x, y \in S : x = y
  PROVE  Cardinality(S) <= 1
  <1>1. CASE S = {}
    BY <1>1, FS_EmptySet
  <1>2. CASE S # {}
    <2>1. PICK x : S = {x}
      BY <1>2
    <2>2. QED
      BY <2>1, FS_Singleton
  <1>3. QED
    BY <1>1, <1>2

\* The rows are well typed; and as long as calls do not overlap, cut short or not, a
\* stream has at most one row that may still be merged and that no caller made ready again
\* after it had failed (the check of addToQueue and the insertion after it), and a failed
\* row was never merged.
THEOREM EntriesAreSound == QueueSpec => []EntryInv
  <1>1. QueueInv /\ AloneInv => EntryInv
    <2> SUFFICES ASSUME QueueInv, AloneInv PROVE EntryInv
      OBVIOUS
    <2>1. QueueTypeOK
      BY DEF QueueInv, QueueTyped
    <2>2. OneActiveEntry
      <3> SUFFICES ASSUME ~ setting.interleaved, NEW s \in Streams
                   PROVE  Cardinality({e \in Entries : /\ entry[e].stream = s
                                                       /\ entry[e].status \in Active
                                                       /\ ~ entry[e].again}) <= 1
        BY DEF OneActiveEntry
      <3> DEFINE S == {e \in Entries : /\ entry[e].stream = s
                                     /\ entry[e].status \in Active
                                     /\ ~ entry[e].again}
      <3>1. IsFiniteSet(S)
        BY QueueAssumption, FS_Subset
      <3>2. \A e, f \in S : e = f
        BY DEF AloneInv, ActiveOnce
      <3>3. QED
        BY <3>1, <3>2, AtMostOne
    <2>3. FailedIsNotMerged
      BY DEF AloneInv, CommitIsOver, FailedIsNotMerged
    <2>4. QED
      BY <2>1, <2>2, <2>3 DEF EntryInv
  <1>2. QED
    BY <1>1, QueueInvariance, PTL

\* The entry processQueue merges next has the lowest priority number of what is ready, and
\* is the oldest of those: the list it read once is still what is ready.
THEOREM LowestPriorityFirst == QueueSpec => PriorityRespected
  <1> DEFINE Respected ==
        ~ setting.interleaved => \A e \in Entries :
          entry[e].status # "merging" /\ entry'[e].status = "merging" =>
            \A f \in Entries : entry[f].status = "ready" =>
              \/ entry[e].priority < entry[f].priority
              \/ entry[e].priority = entry[f].priority /\ entry[e].addedAt <= entry[f].addedAt
  <1>1. QueueInv /\ AloneInv /\ [QueueNext]_queueVars => [Respected]_queueVars
    <2> SUFFICES ASSUME QueueInv, AloneInv, QueueNext, ~ setting.interleaved, NEW e \in Entries,
                        entry[e].status # "merging", entry'[e].status = "merging",
                        NEW f \in Entries, entry[f].status = "ready"
                 PROVE  Before(e, f)
      BY DEF Before
    <2>1. PICK w \in setting.workers : PickEntry(w)
      <3>1. ASSUME NEW w \in setting.workers, QueueStep(w), ~ PickEntry(w)
            PROVE  FALSE
        <4>1. w \in Workers
          BY QueueTypes DEF QueueInv
        <4>2. CASE UNCHANGED entry
          BY <4>2
        <4>3. CASE InsertEntry(w)
          BY <4>3, QueueTypes DEF InsertEntry, QueueInv, NoEntry
        <4>4. ASSUME NEW st \in {"merged", "failed"}, WorkerAt(w, st), Finish(w, st)
              PROVE  FALSE
          <5>1. /\ call[w].entry \in Entries
                /\ entry[call[w].entry].stream \in Streams
            BY <4>1, <4>4 DEF QueueInv, WorkerAt, CallTrue, Handling, Inserted
          <5>2. \/ entry' = entry
                \/ /\ \A g \in Entries : g # call[w].entry => entry'[g] = entry[g]
                   /\ entry'[call[w].entry].status = st
            BY <4>1, <4>4, <5>1, QueueTypes, FinishRow DEF QueueInv
          <5>3. QED
            BY <5>2
        <4>5. QED
          BY <3>1, <4>2, <4>3, <4>4
             DEF QueueStep, MergeStream, MarkStreamMerged, EntryFailed, EntryMerged
      <3>2. CASE Manage
        <4>1. PICK g \in Entries :
                MarkReady(g) \/ \E st \in {"cancelled", "removed"} : SetEntry(g, st)
          BY <3>2 DEF Manage, CancelQueueEntry, RemoveFromQueue
        <4>2. QED
          BY <4>1, QueueTypes, SetRow, ReadyRow DEF QueueInv, EntryStatus, Active
      <3>3. CASE UNCHANGED entry
        BY <3>3
      <3>4. QED
        BY <3>1, <3>2, <3>3
           DEF QueueNext, Leave, WorkerDies, AddToQueue, ProcessQueue, ChangeStatus,
               CommitToStream
    <2>2. w \in Workers /\ call[w].pc = "pick"
      BY <2>1, QueueTypes DEF QueueInv, PickEntry, WorkerAt
    <2>3. call[w].entries = Ready
      BY <2>2 DEF AloneInv, ReadyKnown
    <2>4. PICK g \in call[w].entries :
            SetEntry(g, "merging") /\ \A h \in call[w].entries : Before(g, h)
      BY <2>1 DEF PickEntry
    <2>5. e = g
      <3>1. g \in Entries
        BY <2>3, <2>4 DEF Ready
      <3>2. QED
        BY <2>4, <3>1, QueueTypes, SetRow DEF QueueInv, EntryStatus, Active
    <2>6. QED
      BY <2>3, <2>4, <2>5 DEF Ready
  <1>2. QED
    BY <1>1, QueueInvariance, PTL DEF QueueSpec, PriorityRespected
=============================================================================
