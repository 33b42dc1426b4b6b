---------------------------- MODULE MCOperationLog ---------------------------
(* One agent and nothing else; branches that also move without the log; two    *)
(* streams, one in local mode; a coordinator that reconciles during calls.     *)
EXTENDS OperationLog
CONSTANTS s1, s2, p1, p2

MCSettings ==
  {[streams |-> {s1}, local |-> {}, procs |-> {p1}, outside |-> FALSE,
    interleaved |-> FALSE, commits |-> 3, log |-> 5, crashes |-> 0],
   [streams |-> {s1}, local |-> {}, procs |-> {p1}, outside |-> TRUE,
    interleaved |-> FALSE, commits |-> 3, log |-> 3, crashes |-> 1],
   [streams |-> {s1, s2}, local |-> {s2}, procs |-> {p1}, outside |-> TRUE,
    interleaved |-> FALSE, commits |-> 2, log |-> 2, crashes |-> 0],
   [streams |-> {s1}, local |-> {}, procs |-> {p1, p2}, outside |-> TRUE,
    interleaved |-> TRUE, commits |-> 1, log |-> 2, crashes |-> 1]}
=============================================================================
