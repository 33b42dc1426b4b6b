--------------------------- MODULE MCWorkerTasks ---------------------------
(* Small instances of WorkerTasks for TLC. *)
EXTENDS WorkerTasks, TLC

\* Agents are interchangeable, and so are tasks (safety runs only).
Symmetry == Permutations(Agents) \cup Permutations(Tasks)

=============================================================================
