-------------------------- MODULE MCStreamConflicts --------------------------
(* Two streams of which one or both get into a conflict; one stream that gets  *)
(* into two while the target moves on; one stream whose calls are cut short.   *)
EXTENDS StreamConflicts
CONSTANTS s1, s2, c1, c2

MCSettings ==
  {[streams |-> {s1, s2}, conflicts |-> {c1},     versions |-> 2, crashes |-> 0, reuse |-> TRUE],
   [streams |-> {s1, s2}, conflicts |-> {c1, c2}, versions |-> 1, crashes |-> 0, reuse |-> FALSE],
   [streams |-> {s1},     conflicts |-> {c1, c2}, versions |-> 2, crashes |-> 0, reuse |-> TRUE],
   [streams |-> {s1},     conflicts |-> {c1, c2}, versions |-> 1, crashes |-> 1, reuse |-> TRUE],
   [streams |-> {s1},     conflicts |-> {c1},     versions |-> 2, crashes |-> 1, reuse |-> TRUE]}

=============================================================================
