-------------------------- MODULE TopologicalSort --------------------------
(***************************************************************************)
(* topologicalSort of src/src/dependencies.ts: Kahn's algorithm on a       *)
(* sequence of different streams, ids, and the dependency list of each, on.*)
(* Lists may repeat an entry, as addMergeDependency stores them, and name  *)
(* streams that are not being sorted.                                      *)
(***************************************************************************)
EXTENDS Naturals, Sequences, SequencesExt, FiniteSets

\* the entries of list that are in S, in their order
Among(list, S) ==
  LET among[n \in 0 .. Len(list)] ==
        IF n = 0 THEN <<>>
        ELSE IF list[n] \in S THEN Append(among[n - 1], list[n]) ELSE among[n - 1]
  IN among[Len(list)]

Occurrences(list, S) == Cardinality({i \in DOMAIN list : list[i] \in S})

\* the entries of each stream's list that are being sorted, and the streams with none
Start(ids, on) ==
  LET inDegree == [s \in ToSet(ids) |-> Occurrences(on[s], ToSet(ids))] IN
  [inDegree |-> inDegree, queue |-> Among(ids, {s \in ToSet(ids) : inDegree[s] = 0}), result |-> <<>>]

\* mutant: a child is queued with the first of its dependencies
TakeEarly(k, ids, on) ==
  LET current == Head(k.queue)
      ready == Among(ids, {s \in ToSet(ids) : current \in ToSet(on[s]) /\ s \notin ToSet(k.queue \o k.result)})
  IN [k EXCEPT !.queue = Tail(@) \o ready, !.result = Append(@, current)]

Released(k, ids, on) == [s \in ToSet(ids) |-> k.inDegree[s] - Occurrences(on[s], {Head(k.queue)})]

\* One round of `while (queue.length > 0)`: the children of the stream taken whose
\* count has just come to 0 join the queue, in the order of ids.
Take(k, ids, on) ==
  LET released == Released(k, ids, on)
      ready == Among(ids, {s \in ToSet(ids) : released[s] = 0 /\ k.inDegree[s] # 0})
  IN [inDegree |-> released, queue |-> Tail(k.queue) \o ready, result |-> Append(k.result, Head(k.queue))]

\* A stream is taken once at most: the loop is over after as many rounds as there
\* are streams.
Sorted(ids, on) ==
  LET after[n \in 0 .. Len(ids)] ==
        IF n = 0 THEN Start(ids, on)
        ELSE LET k == after[n - 1] IN IF k.queue = <<>> THEN k ELSE Take(k, ids, on)
  IN after[Len(ids)].result

\* result.length !== streamIds.length: CyclicDependencyError
Throws(ids, on) == Len(Sorted(ids, on)) # Len(ids)

=============================================================================
