------------------------------- MODULE Guards -------------------------------
(***************************************************************************)
(* The stream guard of src/src/guards.ts, for one stream: optimistic       *)
(* concurrency control between agents that read the stream, work, validate *)
(* and write.                                                              *)
(*                                                                         *)
(* Times are only compared: of the guard's last_write it is kept whether   *)
(* it is later than the time at which a session read.                      *)
(***************************************************************************)
EXTENDS Naturals, Sequences

CONSTANTS
  Writers,      \* the agents that write to the stream
  NoWriter

ASSUME GuardsAssumption == NoWriter \notin Writers

VARIABLES
  guard,      \* stream_guards: agent_id, or NoWriter while there is no row
  session,    \* what each agent knows: the write it has seen, whether last_write is newer
  version     \* the number of writes to the stream so far

guvars == <<guard, session, version>>

Away == [working |-> FALSE, seen |-> 0, newer |-> FALSE]

GuardsTypeOK ==
  /\ guard \in Writers \cup {NoWriter}
  /\ session \in [Writers -> [working : BOOLEAN, seen : 0 .. version, newer : BOOLEAN]]

GuardsInit ==
  /\ guard = NoWriter
  /\ session = [a \in Writers |-> Away]
  /\ version = 0

\* readTime = Date.now(), and a look at the stream
ReadStream(a) ==
  /\ ~ session[a].working
  /\ session' = [session EXCEPT ![a] = [working |-> TRUE, seen |-> version, newer |-> FALSE]]
  /\ UNCHANGED <<guard, version>>

\* validateGuard(db, stream, a, readTime)
ValidateGuard(a) == guard = NoWriter \/ guard = a \/ ~ session[a].newer

\* mutant: INSERT OR IGNORE
TouchOnce(a) ==
  /\ guard' = IF guard = NoWriter THEN a ELSE guard
  /\ session' = [b \in Writers |-> IF b = a THEN Away
                                  ELSE [session[b] EXCEPT !.newer = @ \/ guard = NoWriter]]

\* touchGuard, in a later millisecond than the reads before it
TouchGuard(a) ==
  /\ guard' = a
  /\ session' = [b \in Writers |-> IF b = a THEN Away ELSE [session[b] EXCEPT !.newer = TRUE]]

\* the agent finds that another one has written, and gives up
GiveUp(a) ==
  /\ session[a].working
  /\ ~ ValidateGuard(a)
  /\ session' = [session EXCEPT ![a] = Away]
  /\ UNCHANGED <<guard, version>>

=============================================================================
