---------------------------- MODULE Dependencies ----------------------------
(***************************************************************************)
(* The calls of src/src/dependencies.ts on the dependencies table.         *)
(*                                                                         *)
(* A call is a loop of SELECTs and then one write; nothing makes it        *)
(* atomic.  Each SELECT of the depth-first search in wouldCreateCycle, the *)
(* SELECT that reads the list to change, and the write are steps of their  *)
(* own.  The setting of a behaviour says whether several processes use the *)
(* database, so that their steps interleave.                               *)
(***************************************************************************)
EXTENDS Naturals, Sequences, SequencesExt, TopologicalSort

CONSTANTS
  Streams,      \* stream ids
  Order,        \* the streams, each after those it may depend on in a graph that is given
  Built,        \* the streams there are when the graph is built by calls
  Procs,        \* processes that share the database
  NoStream,
  Settings      \* the settings explored, which bound what is called

\* What a setting says of this module:
\*   given     whether there is a graph to begin with
\*   procs     the processes that change the graph; calls of several overlap
\*   sources   bound: sources given to one addMergeDependency
\*   calls     bound: calls begun, 0 if there is none
ASSUME DependenciesAssumption ==
  /\ NoStream \notin Streams /\ Built \subseteq Streams
  /\ Order \in Seq(Streams) /\ ToSet(Order) = Streams /\ IsInjective(Order)
  /\ \A t \in Settings :
       /\ t.procs \subseteq Procs
       /\ t.sources \in Nat /\ t.calls \in Nat

VARIABLES
  setting,
  exists,   \* streams: the rows there are
  row,      \* dependencies: depends_on and dependency_type of each stream
  proc,     \* the call each process is in
  calls

depvars == <<exists, row, proc, calls>>

Here == IF setting.procs = {} THEN Streams ELSE Built
Interleaved == \E p, q \in setting.procs : p # q

Types == {"rebase_onto", "fork", "merge"}

NoRow == [on |-> <<>>, type |-> "none"]

\* add: stream is to depend on sources; stack and visited belong to the search
\* for the source sources[at]; list is the list read for the write
Idle == [pc |-> "idle", stream |-> NoStream, sources |-> <<>>, type |-> "none", at |-> 1,
         stack |-> <<>>, visited |-> {}, list |-> <<>>]

Pcs == {"idle", "search", "read", "write", "remove_write"}

DependenciesTypeOK ==
  /\ exists \subseteq Streams
  /\ \A s \in Streams :
       /\ row[s] = NoRow \/ row[s].type \in Types
       /\ row[s].on \in Seq(Streams)
       /\ row[s].on = <<>> => row[s].type \in {"none", "merge"}
  /\ \A p \in Procs :
       /\ proc[p].pc \in Pcs
       /\ proc[p].pc # "idle" => proc[p].stream \in Streams
       /\ proc[p].visited \subseteq Streams
       /\ ToSet(proc[p].stack) \subseteq Streams
       /\ proc[p].pc = "search" => proc[p].at \in 1 .. Len(proc[p].sources)
  /\ calls \in 0 .. setting.calls

Before(s) == {Order[i] : i \in 1 .. SelectInSeq(Order, LAMBDA t : t = s) - 1}

\* Any graph without cycles, in lists of at most two (a longer list is a diamond
\* whatever its type); a list of one is a fork's or a merge's.
GivenRows ==
  LET Rows == {NoRow} \cup {[on |-> <<d>>, type |-> type] : d \in Streams, type \in {"fork", "merge"}}
              \cup {[on |-> <<d[1], d[2]>>, type |-> "merge"] : d \in {e \in Streams \X Streams : e[1] # e[2]}}
  IN {rows \in [Streams -> Rows] :
        \A s \in Streams : ToSet(rows[s].on) \subseteq Before(s) /\ (s \notin Here => rows[s] = NoRow)}

DependenciesInit ==
  /\ setting \in Settings
  /\ exists = Here
  /\ IF setting.given THEN row \in GivenRows ELSE row = [s \in Streams |-> NoRow]
  /\ proc = [p \in Procs |-> Idle]
  /\ calls = 0

Free(p) ==
  /\ proc[p].pc = "idle"
  /\ IF setting.calls = 0 THEN UNCHANGED calls
     ELSE calls < setting.calls /\ calls' = calls + 1

At(p, pc) == proc[p].pc = pc
Set(p, r) == proc' = [proc EXCEPT ![p] = r]
Return(p) == Set(p, Idle)

-----------------------------------------------------------------------------
(* addDependency, addForkDependency, addMergeDependency: the validation and *)
(* the start of the search.  A self-dependency throws at once.              *)

Begin(p, s, sources, type) ==
  /\ Free(p)
  /\ {s} \cup ToSet(sources) \subseteq exists
  /\ s \notin ToSet(sources)
  /\ Set(p, [Idle EXCEPT !.pc = IF sources = <<>> THEN "write" ELSE "search",
                         !.stream = s, !.sources = sources, !.type = type,
                         !.stack = IF sources = <<>> THEN <<>> ELSE <<sources[1]>>])
  /\ UNCHANGED <<setting, exists, row>>

AddDependency(p, s, d, type) == Begin(p, s, <<d>>, type)

AddMergeDependency(p, s, sources) == Begin(p, s, sources, "merge")

\* mutant: nothing is marked visited
ExpandAgain(p, current) == [proc[p] EXCEPT !.stack = Front(@) \o row[current].on]

\* One round of the loop `while (stack.length > 0)` in wouldCreateCycle, with
\* the SELECT of getDependencies(current).  Reaching the stream throws.
Expand(p, current) ==
  LET todo == Among(row[current].on, Streams \ (proc[p].visited \cup {current})) IN
  IF current \in proc[p].visited
  THEN [proc[p] EXCEPT !.stack = Front(@)]
  ELSE [proc[p] EXCEPT !.stack = Front(@) \o todo, !.visited = @ \cup {current}]

Search(p) ==
  LET current == Last(proc[p].stack) IN
  /\ At(p, "search")
  /\ proc[p].stack # <<>>
  /\ IF current = proc[p].stream THEN Return(p) ELSE Set(p, Expand(p, current))
  /\ UNCHANGED <<setting, exists, row, calls>>

\* mutant: the sources after the first are not searched
NoCycleWithFirst(p) ==
  LET r == proc[p] IN
  /\ At(p, "search")
  /\ r.stack = <<>>
  /\ Set(p, [r EXCEPT !.pc = IF r.type = "merge" THEN "write" ELSE "read", !.visited = {}])
  /\ UNCHANGED <<setting, exists, row, calls>>

\* No cycle with this source: on to the next one, then to the write.
NoCycleFound(p) ==
  LET r == proc[p]  more == r.at < Len(r.sources) IN
  /\ At(p, "search")
  /\ r.stack = <<>>
  /\ Set(p, IF more
            THEN [r EXCEPT !.at = @ + 1, !.stack = <<r.sources[r.at + 1]>>, !.visited = {}]
            ELSE [r EXCEPT !.pc = IF r.type = "merge" THEN "write" ELSE "read",
                           !.visited = {}])
  /\ UNCHANGED <<setting, exists, row, calls>>

\* addDependency reads the list it appends to; a dependency already there
\* ends the call.
ReadList(p) ==
  LET r == proc[p]  on == row[r.stream].on IN
  /\ At(p, "read")
  /\ IF r.sources[1] \in ToSet(on) THEN Return(p)
     ELSE Set(p, [r EXCEPT !.pc = "write", !.sources = Append(on, r.sources[1])])
  /\ UNCHANGED <<setting, exists, row, calls>>

\* INSERT .. ON CONFLICT DO UPDATE; the foreign key throws if the stream is gone
Upsert(p) ==
  LET r == proc[p] IN
  /\ At(p, "write")
  /\ row' = IF r.stream \in exists
            THEN [row EXCEPT ![r.stream] = [on |-> r.sources, type |-> r.type]]
            ELSE row
  /\ Return(p)
  /\ UNCHANGED <<setting, exists, calls>>

-----------------------------------------------------------------------------
(* removeDependency *)

RemoveDependency(p, s, d) ==
  /\ Free(p)
  /\ d \in ToSet(row[s].on)
  /\ Set(p, [Idle EXCEPT !.pc = "remove_write", !.stream = s,
                         !.list = RemoveFirst(row[s].on, d)])
  /\ UNCHANGED <<setting, exists, row>>

\* DELETE when the list is empty, else UPDATE, which changes no row if there is none
RemoveWrite(p) ==
  LET r == proc[p] IN
  /\ At(p, "remove_write")
  /\ row' = IF r.list = <<>> THEN [row EXCEPT ![r.stream] = NoRow]
            ELSE IF row[r.stream] = NoRow THEN row
            ELSE [row EXCEPT ![r.stream].on = r.list]
  /\ Return(p)
  /\ UNCHANGED <<setting, exists, calls>>

\* gc.archiveStream: the foreign key of the stream's own dependency row holds
\* it back; rows of other streams may still list it.
ArchiveStream(p, s) ==
  /\ Free(p)
  /\ s \in exists
  /\ row[s] = NoRow
  /\ exists' = exists \ {s}
  /\ UNCHANGED <<setting, row, proc>>

Step(p) == Search(p) \/ NoCycleFound(p) \/ ReadList(p) \/ Upsert(p) \/ RemoveWrite(p)

SourceLists == UNION {[1 .. n -> Here] : n \in 0 .. setting.sources}

Calls(p) ==
  \/ \E s, d \in Here, type \in {"rebase_onto", "fork"} : AddDependency(p, s, d, type)
  \/ \E s \in Here, sources \in SourceLists : AddMergeDependency(p, s, sources)
  \/ \E s, d \in Here : RemoveDependency(p, s, d)
  \/ \E s \in Here : ArchiveStream(p, s)

-----------------------------------------------------------------------------
edges == UNION {{s} \X ToSet(row[s].on) : s \in Streams}

\* the graph as the abstract module has it, when it is not given and calls do
\* not overlap
Alone == ~ setting.given /\ \E p \in Procs : setting.procs = {p}
Graph == INSTANCE DependencyGraph WITH
           Streams <- Built,
           exists <- IF Alone THEN exists ELSE Built,
           edges <- IF Alone THEN edges ELSE {}

\* One process at a time: every call does to the graph what the abstract
\* dependency graph does in one step, or throws and leaves it alone.
GraphKept == Graph!GraphSpec

\* A search is complete: one that gave up without meeting the stream has proved there is no path to it.
SearchComplete ==
  \A p \in Procs : Alone /\ At(p, "search") /\ proc[p].stack = <<>> =>
    ~ Graph!Reaches(edges, proc[p].sources[proc[p].at], proc[p].stream)

\* A search meets the stream only if there is a path to it: no call that is
\* refused could have been allowed.
SearchSound ==
  \A p \in Procs : Alone /\ At(p, "search") /\ proc[p].stack # <<>> =>
    \A i \in 1 .. Len(proc[p].stack) :
      Graph!Reaches(edges, proc[p].sources[proc[p].at], proc[p].stack[i])

\* Together: a call is refused just when the dependency would close a cycle.
SearchInv == DependenciesTypeOK /\ SearchComplete /\ SearchSound

\* Every call returns, even when another process changes the graph under the
\* search, or has made it cyclic: each of its steps brings it nearer to its
\* return, a round of the search by a stream visited or an entry less to look at.
Phase(r) == CASE r.pc = "search" -> 1 [] r.pc = "read" -> 2 [] OTHER -> 3
Nearer(r, n) ==
  \/ n.pc = "idle" \/ Phase(n) > Phase(r)
  \/ /\ r.pc = "search" /\ n.pc = "search"
     /\ \/ n.at > r.at
        \/ n.at = r.at /\ r.visited \subseteq n.visited /\ r.visited # n.visited
        \/ n.at = r.at /\ n.visited = r.visited /\ Len(n.stack) < Len(r.stack)

CallsReturn ==
  [][\A p \in Procs : proc[p].pc # "idle" /\ proc'[p] # proc[p] => Nearer(proc[p], proc'[p])]_proc

\* What topologicalSort does with the graph there is, for every sequence of streams.
On == [s \in Streams |-> row[s].on]
Arrangements == [S \in SUBSET Streams |-> SetToAllKPermutations(S)]
Quiet == \A p \in Procs : proc[p].pc = "idle"

\* The stream at each place of the result comes after all of its dependencies
\* that are being sorted: a cascade rebases onto heads that are already new.
DependenciesFirst(result, ids, on) ==
  \A i \in 1 .. Len(result) :
    \A d \in ToSet(on[result[i]]) \cap ToSet(ids) : \E j \in 1 .. i - 1 : result[j] = d

\* CyclicDependencyError is thrown just when the streams being sorted hold a
\* cycle, as two processes can write it together: some set of them in which each
\* depends on another one of the set.
Knot(C, on) == C # {} /\ \A s \in C : \E d \in C : d \in ToSet(on[s])
ThrowsOnCycles(ids, on, knots) == Throws(ids, on) <=> \E C \in knots : C \subseteq ToSet(ids)

\* Together, for every graph that calls make, or that is given.
SortInv ==
  Quiet /\ exists = Here =>
    LET on == On  knots == {C \in SUBSET Here : Knot(C, on)} IN
    \A ids \in Arrangements[Here] : DependenciesFirst(Sorted(ids, on), ids, on) /\ ThrowsOnCycles(ids, on, knots)

=============================================================================
