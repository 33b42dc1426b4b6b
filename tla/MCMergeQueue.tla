---------------------------- MODULE MCMergeQueue ----------------------------
(* Two streams and two entries handled by one process, both in a call and one  *)
(* in a call, for the order, the outcomes and progress; one of two workers     *)
(* that dies; a squash that stops.                                             *)
EXTENDS MergeQueue
CONSTANTS s1, s2, e1, e2, w1, w2

MCSettings ==
  {[streams |-> {s1, s2}, entries |-> {e1, e2}, workers |-> {w1}, conflicting |-> {s2},
    strategies |-> {"merge-commit", "squash"}, limit |-> 2, priorities |-> 2, work |-> 1,
    pausing |-> {s1, Target}, crashes |-> 0, interleaved |-> FALSE],
   [streams |-> {s1, s2}, entries |-> {e1, e2}, workers |-> {w1}, conflicting |-> {s1},
    strategies |-> {"merge-commit"}, limit |-> 1, priorities |-> 2, work |-> 1,
    pausing |-> {s1, Target}, crashes |-> 0, interleaved |-> FALSE],
   [streams |-> {s1}, entries |-> {e1}, workers |-> {w1, w2}, conflicting |-> {s1},
    strategies |-> {"squash"}, limit |-> 1, priorities |-> 1, work |-> 2,
    pausing |-> {s1}, crashes |-> 1, interleaved |-> TRUE],
   [streams |-> {s1}, entries |-> {e1, e2}, workers |-> {w1, w2}, conflicting |-> {},
    strategies |-> {"merge-commit"}, limit |-> 2, priorities |-> 1, work |-> 1,
    pausing |-> {}, crashes |-> 0, interleaved |-> TRUE]}

Squash ==
  {[streams |-> {s1}, entries |-> {e1}, workers |-> {w1}, conflicting |-> {s1},
    strategies |-> {"squash"}, limit |-> 1, priorities |-> 1, work |-> 1,
    pausing |-> {}, crashes |-> 0, interleaved |-> FALSE]}

=============================================================================
