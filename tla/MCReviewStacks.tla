--------------------------- MODULE MCReviewStacks ---------------------------
(* Three commits in blocks that are built, split, merged and reviewed; two     *)
(* rebases that drop commits; two processes, one of which only reviews; and    *)
(* merges that name a block twice.                                             *)
EXTENDS ReviewStacks
CONSTANTS p1, p2

MCSettings ==
  {[patches |-> {1, 2, 3}, procs |-> {p1}, statuses |-> {"draft", "merged"}, rebases |-> 1,
    positions |-> 3, drops |-> FALSE, repeats |-> FALSE, reviewed |-> FALSE],
   [patches |-> {1, 2}, procs |-> {p1}, statuses |-> {"draft", "approved"}, rebases |-> 2,
    positions |-> 3, drops |-> TRUE, repeats |-> FALSE, reviewed |-> FALSE],
   [patches |-> {1, 2}, procs |-> {p1, p2}, statuses |-> {"draft", "approved"}, rebases |-> 1,
    positions |-> 1, drops |-> TRUE, repeats |-> FALSE, reviewed |-> TRUE],
   [patches |-> {1, 2, 3}, procs |-> {p1}, statuses |-> {"draft"}, rebases |-> 0,
    positions |-> 2, drops |-> FALSE, repeats |-> TRUE, reviewed |-> FALSE]}
=============================================================================
