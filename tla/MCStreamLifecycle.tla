-------------------------- MODULE MCStreamLifecycle --------------------------
(* Two streams with everything that can refer to them; two in local mode that  *)
(* are collected in the end, git refusing to delete branches; three            *)
(* generations that are abandoned, with deleteGitBranches off; two processes   *)
(* whose calls overlap and are cut short.                                      *)
EXTENDS StreamLifecycle
CONSTANTS p1, p2

MCSettings ==
  {[streams |-> {1, 2}, procs |-> {p1}, statuses |-> Statuses \ {"conflicted"}, interleaved |-> FALSE,
    crashes |-> FALSE, refs |-> {"history", "held"}, local |-> TRUE, deletion |-> "done"],
   [streams |-> {1, 2}, procs |-> {p1}, statuses |-> Statuses, interleaved |-> FALSE,
    crashes |-> FALSE, refs |-> {"held"}, local |-> TRUE, deletion |-> "refused"],
   [streams |-> {1, 2, 3}, procs |-> {p1}, statuses |-> {"active", "abandoned"}, interleaved |-> FALSE,
    crashes |-> FALSE, refs |-> {}, local |-> FALSE, deletion |-> "off"],
   [streams |-> {1, 2}, procs |-> {p1, p2}, statuses |-> {"active", "abandoned"}, interleaved |-> TRUE,
    crashes |-> TRUE, refs |-> {}, local |-> FALSE, deletion |-> "done"]}

\* the setting of the run that finds a violation
OneStream ==
  {[streams |-> {1}, procs |-> {p1}, statuses |-> {"active", "merged"}, interleaved |-> FALSE,
    crashes |-> FALSE, refs |-> {"history"}, local |-> FALSE, deletion |-> "done"]}
=============================================================================
