--------------------------- MODULE TaskLifecycle ---------------------------
(***************************************************************************)
(* What the worker-task API promises of a task: its life cycle, and that   *)
(* a task is completed only once its merge has been recorded.  Completed   *)
(* and abandoned are final.  WorkerTasks is shown to implement this        *)
(* specification when calls do not overlap.                                *)
(***************************************************************************)
CONSTANT Tasks

VARIABLES
  status,    \* the status of each task, "none" before it is created
  recorded   \* the tasks with a merge record

vars == <<status, recorded>>

Init ==
  /\ status = [t \in Tasks |-> "none"]
  /\ recorded = {}

Move(t, from, to) ==
  /\ status[t] \in from
  /\ status' = [status EXCEPT ![t] = to]
  /\ UNCHANGED recorded

Create(t) == Move(t, {"none"}, "open")

Start(t) == Move(t, {"open"}, "in_progress")

RecordMerge(t) ==
  /\ status[t] = "in_progress"
  /\ recorded' = recorded \cup {t}
  /\ UNCHANGED status

Complete(t) == t \in recorded /\ Move(t, {"in_progress"}, "completed")

Release(t) == Move(t, {"open", "in_progress"}, "open")

Abandon(t) == Move(t, {"open", "in_progress", "abandoned"}, "abandoned")

Next ==
  \E t \in Tasks :
    \/ Create(t) \/ Start(t) \/ RecordMerge(t)
    \/ Complete(t) \/ Release(t) \/ Abandon(t)

Spec == Init /\ [][Next]_vars

=============================================================================
