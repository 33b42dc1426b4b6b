----------------------------- MODULE MCCascade -----------------------------
(* The graph calls of one process, with up to two sources at once, and of two   *)
(* processes that overlap; two cascades over any graph of four streams, and a   *)
(* cascade that is resumed up to twice when conflicts are cleared only after    *)
(* the rebase was done by hand; a cascade between and amid calls that build     *)
(* the graph, and one that is resumed while another process changes it.         *)
EXTENDS Cascade
CONSTANTS p1, p2, top, a, b, c

MCOrder == <<top, a, b, c>>

MCSettings ==
  LET graph == [given |-> FALSE, procs |-> {p1}, sources |-> 2, calls |-> 0, turns |-> 0,
                strategies |-> Strategies, resumes |-> FALSE, byHand |-> FALSE, pauses |-> FALSE]
      walks == [graph EXCEPT !.given = TRUE, !.procs = {}, !.pauses = TRUE]
      resumed == [walks EXCEPT !.strategies = {"defer_conflicts"}, !.resumes = TRUE, !.byHand = TRUE]
  IN {graph,
      [graph EXCEPT !.procs = {p1, p2}, !.sources = 1, !.calls = 3],
      [walks EXCEPT !.turns = 2, !.pauses = FALSE, !.strategies = {"stop_on_conflict", "skip_conflicting"}],
      [resumed EXCEPT !.turns = 3],
      [graph EXCEPT !.procs = {p1, p2}, !.sources = 1, !.calls = 2, !.turns = 1,
                       !.strategies = {"skip_conflicting"}],
      [resumed EXCEPT !.procs = {p1, p2}, !.pauses = FALSE, !.sources = 1, !.calls = 1, !.turns = 2]}

=============================================================================
