---------------------------- MODULE MCDiffStacks ----------------------------
(* Three empty stacks in the queue; a stack of three checkpoints; a stack of   *)
(* two that one process edits while another reviews and merges it, and one     *)
(* dies.  Stacks are alike, and so are checkpoints.                            *)
EXTENDS DiffStacks, TLC
CONSTANTS k1, k2, k3, a, b, c, p1, p2

MCSettings ==
  {[stacks |-> {k1, k2, k3}, checkpoints |-> {}, procs |-> {p1}, editors |-> {p1},
    statuses |-> Statuses, positions |-> 4, built |-> FALSE, crashes |-> 0],
   [stacks |-> {k1}, checkpoints |-> {a, b, c}, procs |-> {p1}, editors |-> {p1},
    statuses |-> Statuses, positions |-> 0, built |-> FALSE, crashes |-> 0],
   [stacks |-> {k1}, checkpoints |-> {a, b}, procs |-> {p1, p2}, editors |-> {p2},
    statuses |-> {"pending", "approved", "merged"}, positions |-> 0, built |-> TRUE, crashes |-> 1]}

Alike == Permutations(Stacks) \cup Permutations(Checkpoints)
=============================================================================
