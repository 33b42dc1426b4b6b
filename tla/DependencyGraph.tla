-------------------------- MODULE DependencyGraph --------------------------
(***************************************************************************)
(* What src/src/dependencies.ts promises of the dependency table: a graph  *)
(* over streams that only ever changes by whole edges and never gets a     *)
(* cycle.  Dependencies implements it, call by call.                       *)
(***************************************************************************)
CONSTANT Streams   \* stream ids

VARIABLES
  exists,   \* the streams that have a row
  edges     \* <<s, d>>: stream s depends on stream d

gvars == <<exists, edges>>

Closed(E, C) == \A e \in E : e[1] \in C => e[2] \in C

\* y can be reached from x along dependencies
Reaches(E, x, y) == \A C \in SUBSET Streams : x \in C /\ Closed(E, C) => y \in C

WouldCreateCycle(s, d) == Reaches(edges, d, s)

GraphTypeOK ==
  /\ exists \subseteq Streams
  /\ edges \subseteq Streams \X Streams

GraphInit ==
  /\ exists = Streams
  /\ edges = {}

AddDependency(s, d) ==
  /\ {s, d} \subseteq exists
  /\ ~ WouldCreateCycle(s, d)
  /\ edges' = edges \cup {<<s, d>>}
  /\ UNCHANGED exists

\* the sources replace whatever s depended on before
AddMergeDependency(s, D) ==
  /\ D \cup {s} \subseteq exists
  /\ \A d \in D : ~ WouldCreateCycle(s, d)
  /\ edges' = {e \in edges : e[1] # s} \cup ({s} \X D)
  /\ UNCHANGED exists

RemoveDependency(s, d) ==
  /\ edges' = edges \ {<<s, d>>}
  /\ UNCHANGED exists

\* A stream with dependencies of its own cannot be archived (foreign key);
\* others may go on depending on a stream that is gone.
ArchiveStream(s) ==
  /\ \A e \in edges : e[1] # s
  /\ exists' = exists \ {s}
  /\ UNCHANGED edges

GraphNext ==
  \E s \in Streams :
    \/ \E d \in Streams : AddDependency(s, d) \/ RemoveDependency(s, d)
    \/ \E D \in SUBSET Streams : AddMergeDependency(s, D)
    \/ ArchiveStream(s)

GraphSpec == GraphInit /\ [][GraphNext]_gvars

\* No stream depends on itself, directly or through others: the precondition
\* of topologicalSort, and so of every cascade.
Acyclic == \A e \in edges : ~ Reaches(edges, e[2], e[1])

=============================================================================
