----------------------------- MODULE MCSessions -----------------------------
(* Two processes that open a database of any earlier release; one that rolls    *)
(* migrations back; two agents that write; one agent whose process dies, opened *)
(* again with skipRecovery so that recoverCheckpoint can be called.  Two agents *)
(* of one process that take and restore snapshots; two agents that place        *)
(* worktrees, one of which ends, with a directory deleted by hand and a call    *)
(* cut short; two processes, one of which cascades.                             *)
EXTENDS Sessions
CONSTANTS p1, p2, a1, a2, s1, s2, x, y

Nothing ==
  [procs |-> {p1}, agents |-> {}, streams |-> {}, home |-> Main, work |-> {},
   old |-> FALSE, reopens |-> FALSE, skipRecovery |-> FALSE, writers |-> {},
   snaps |-> 0, cascades |-> 0, deaths |-> 0, losses |-> 0, writes |-> 0, rollbacks |-> 0, crashes |-> 0]

MCSettings ==
  {[Nothing EXCEPT !.procs = {p1, p2}, !.old = TRUE, !.reopens = TRUE, !.crashes = 1],
   [Nothing EXCEPT !.old = TRUE, !.rollbacks = 3],
   [Nothing EXCEPT !.writers = {a1, a2}, !.writes = 4],
   [Nothing EXCEPT !.writers = {a1}, !.writes = 3, !.reopens = TRUE, !.crashes = 2, !.skipRecovery = TRUE],
   [Nothing EXCEPT !.writers = {a1}, !.writes = 2, !.reopens = TRUE, !.crashes = 1],
   [Nothing EXCEPT !.agents = {a1, a2}, !.work = {x, y}, !.snaps = 2],
   [Nothing EXCEPT !.agents = {a1, a2}, !.streams = {s1, s2}, !.home = Detached,
                   !.deaths = 1, !.losses = 1, !.crashes = 1],
   [Nothing EXCEPT !.procs = {p1, p2}, !.agents = {a1}, !.streams = {s1, s2},
                   !.cascades = 1]}

=============================================================================
