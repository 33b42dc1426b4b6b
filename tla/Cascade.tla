------------------------------ MODULE Cascade ------------------------------
(***************************************************************************)
(* The cascade rebase of src/src/cascade.ts over the dependency graph of   *)
(* Dependencies: cascadeRebase walks the dependents of a root stream that  *)
(* has moved, in the order of topologicalSort, and rebases each onto a     *)
(* dependency; resumeCascade goes on after deferred conflicts were dealt   *)
(* with.  streams.rebaseOntoStream is modelled by its outcomes.            *)
(*                                                                         *)
(* Of a branch only one fact counts: whether it holds the root's new       *)
(* commits.  Any rebase may meet a conflict.  Each stream of the walk is   *)
(* one step, which reads the graph anew; other processes change the graph, *)
(* pause and resume streams and clear conflicts in between.                *)
(***************************************************************************)
EXTENDS Dependencies

CONSTANT Root       \* the stream that was changed

\* What a setting says besides:
\*   turns       bound: calls of cascadeRebase and resumeCascade
\*   strategies  the strategies given
\*   resumes     whether callers use resumeCascade
\*   byHand      whether conflicts are cleared only after a rebase by hand
\*   pauses      whether streams are paused
Strategies == {"stop_on_conflict", "skip_conflicting", "defer_conflicts"}

ASSUME CascadeAssumption ==
  /\ Root \in Streams
  /\ \A t \in Settings : t.turns \in Nat /\ t.strategies \subseteq Strategies

VARIABLES
  fresh,    \* the branches that hold the root's new commits
  status,
  walk,     \* the running or last call: its mode, strategy and result
  turns

walkvars == <<fresh, status, walk, turns>>
vars == <<setting, depvars, walkvars>>

Deps(s) == ToSet(row[s].on)

\* getAllDependents of the streams in S
DependentsOf(S) ==
  {s \in Streams :
     \A C \in SUBSET Streams :
       (\A t \in Streams : Deps(t) \cap (S \cup C) # {} => t \in C) => s \in C}

Modes == {"idle", "cascade", "resume", "returned", "threw"}

\* left: the streams still to come, in order; same: nobody has changed the graph
\* since the call began
Walk == [mode : Modes, why : {"none", "cycle", "status", "diamond", "git"}, resumed : BOOLEAN,
         strategy : setting.strategies \cup {"none"}, dependents : SUBSET Streams, left : Seq(Streams),
         resolved : SUBSET Streams, still : SUBSET Streams, same : BOOLEAN,
         updated : SUBSET Streams, failed : SUBSET Streams,
         skipped : SUBSET Streams, deferred : SUBSET Streams]

TypeOK ==
  /\ fresh \subseteq Streams
  /\ status \in [Streams -> {"active", "paused", "conflicted"}]
  /\ walk \in Walk
  /\ walk.mode = "threw" <=> walk.why # "none"
  /\ turns \in 0 .. setting.turns

\* mutant: the dependents as the database lists them
UnsortedWalk(mode, strategy, ids) ==
  [mode |-> IF ids = <<>> THEN "returned" ELSE mode, why |-> "none", resumed |-> mode = "resume",
   strategy |-> strategy, dependents |-> ToSet(ids), left |-> ids,
   resolved |-> {}, still |-> {}, same |-> TRUE,
   updated |-> {}, failed |-> {}, skipped |-> {}, deferred |-> {}]

\* a call and its empty result; CyclicDependencyError if ids hold a cycle
NewWalk(mode, strategy, ids) ==
  LET sorted == Sorted(ids, On)  cyclic == Len(sorted) # Len(ids) IN
  [mode |-> IF ids = <<>> THEN "returned" ELSE IF cyclic THEN "threw" ELSE mode,
   why |-> IF cyclic THEN "cycle" ELSE "none", resumed |-> mode = "resume",
   strategy |-> strategy, dependents |-> ToSet(ids), left |-> sorted,
   resolved |-> {}, still |-> {}, same |-> TRUE,
   updated |-> {}, failed |-> {}, skipped |-> {}, deferred |-> {}]

\* nothing but the root has its new commits
Init ==
  /\ DependenciesInit
  /\ fresh = {Root}
  /\ status = [s \in Streams |-> "active"]
  /\ walk = [NewWalk("idle", "none", <<>>) EXCEPT !.mode = "idle"]
  /\ turns = 0

Running == walk.mode \in {"cascade", "resume"}

-----------------------------------------------------------------------------
(* The calls *)

Sequences(S) == {ids \in Arrangements[S] : ToSet(ids) = S}

\* the order of getAllDependents is the database's
CascadeRebase(strategy) ==
  /\ ~ Running
  /\ Quiet \/ Interleaved
  /\ turns < setting.turns
  /\ turns' = turns + 1
  /\ \E ids \in Sequences(DependentsOf({Root})) : walk' = NewWalk("cascade", strategy, ids)
  /\ UNCHANGED <<setting, depvars, fresh, status>>

\* deferredStreams is what the last call returned.  A stream no longer
\* conflicted counts as resolved and as updated.
ResumeCascade(strategy) ==
  LET resolved == {s \in walk.deferred : status[s] # "conflicted"}
      still == walk.deferred \ resolved
      left == DependentsOf(resolved) \ (still \cup resolved)
  IN
  /\ setting.resumes
  /\ Quiet \/ Interleaved
  /\ walk.mode = "returned"
  /\ walk.deferred # {}
  /\ turns < setting.turns
  /\ turns' = turns + 1
  /\ \E ids \in Sequences(left) :
       walk' = [NewWalk("resume", strategy, ids) EXCEPT
                  !.resolved = resolved, !.still = still, !.updated = resolved,
                  !.deferred = IF left = {} THEN still ELSE {}]
  /\ UNCHANGED <<setting, depvars, fresh, status>>

-----------------------------------------------------------------------------
(* One stream of the walk *)

InTurn(s) == walk.left # <<>> /\ s = Head(walk.left)

\* mutant: failed dependencies are not looked at
ObstructedByDeferred(s) == Deps(s) \cap (walk.deferred \cup walk.still) # {}
\* streamDeps that failed or have unresolved conflicts; skipped ones do not count
Obstructed(s) == Deps(s) \cap (walk.failed \cup walk.deferred \cup walk.still) # {}

\* isDiamondDependency; resumeCascade does not ask
Diamond(s) == walk.mode = "cascade" /\ (row[s].type = "merge" \/ Len(row[s].on) > 1)

FirstIn(list, S) == list[CHOOSE i \in 1 .. Len(list) :
                           list[i] \in S /\ \A j \in 1 .. i - 1 : list[j] \notin S]

\* the first resolved or available dependency; a stream that has lost all of
\* its dependencies since the walk began is rebased onto the root, or has no target
RebaseTarget(s) ==
  LET known == IF walk.mode = "cascade" THEN {Root} \cup walk.dependents
               ELSE walk.resolved \cup walk.updated
  IN IF Deps(s) \cap known # {} THEN FirstIn(row[s].on, known)
     ELSE IF walk.mode = "cascade" THEN Root
     ELSE IF row[s].on # <<>> THEN Head(row[s].on) ELSE NoStream

\* `break` on stop_on_conflict
Breaks == walk.strategy = "stop_on_conflict"

\* the result of the stream is in; the walk goes on, or is over.  What is still
\* deferred joins the deferred of this call in the result.
Record(r, s, breaks) ==
  LET over == breaks \/ Len(walk.left) = 1
      settled == [r EXCEPT !.left = Tail(@)]
  IN walk' = IF over THEN [settled EXCEPT !.mode = "returned", !.left = <<>>, !.deferred = @ \cup r.still]
             ELSE settled

\* an exception leaves the loop: there is no result
Throw(why) == walk' = [walk EXCEPT !.mode = "threw", !.why = why]

SkipStream(s) ==
  /\ Running /\ InTurn(s)
  /\ Obstructed(s)
  /\ Record([walk EXCEPT !.skipped = @ \cup {s}], s, FALSE)
  /\ UNCHANGED <<setting, depvars, fresh, status, turns>>

DiamondThrows(s) ==
  /\ Running /\ InTurn(s)
  /\ ~ Obstructed(s) /\ Diamond(s)
  /\ Throw("diamond")
  /\ UNCHANGED <<setting, depvars, fresh, status, turns>>

\* provider.getWorktree fails
WorktreeFails(s) ==
  /\ Running /\ InTurn(s)
  /\ ~ Obstructed(s) /\ ~ Diamond(s)
  /\ Record([walk EXCEPT !.failed = @ \cup {s}], s, Breaks)
  /\ UNCHANGED <<setting, depvars, fresh, status, turns>>

\* resumeCascade: 'No valid rebase target found' does not stop the walk
NoTarget(s) ==
  /\ Running /\ InTurn(s)
  /\ ~ Obstructed(s) /\ ~ Diamond(s)
  /\ RebaseTarget(s) = NoStream
  /\ Record([walk EXCEPT !.failed = @ \cup {s}], s, FALSE)
  /\ UNCHANGED <<setting, depvars, fresh, status, turns>>

Rebases(s) ==
  /\ Running /\ InTurn(s)
  /\ ~ Obstructed(s) /\ ~ Diamond(s)
  /\ RebaseTarget(s) # NoStream

\* rebaseOntoStream: a stream or a target that is gone, a conflicted or paused
\* source, or a branch that cannot be checked out in this worktree, throws past
\* the walk
RebaseThrows(s) ==
  /\ Rebases(s)
  /\ \/ (status[s] # "active" \/ ~ {s, RebaseTarget(s)} \subseteq exists) /\ Throw("status")
     \/ status[s] = "active" /\ Throw("git")
  /\ UNCHANGED <<setting, depvars, fresh, status, turns>>

\* The commits of s are replayed on the target's head and nothing else.
RebaseSucceeds(s) ==
  /\ Rebases(s)
  /\ status[s] = "active" /\ {s, RebaseTarget(s)} \subseteq exists
  /\ fresh' = IF s = Root \/ RebaseTarget(s) \in fresh THEN fresh \cup {s} ELSE fresh \ {s}
  /\ Record([walk EXCEPT !.updated = @ \cup {s}], s, FALSE)
  /\ UNCHANGED <<setting, depvars, status, turns>>

SetStreamConflicted(s) == [status EXCEPT ![s] = "conflicted"]

\* A rebase that fails, with conflicted files or without, marks the stream
\* conflicted; only the former can be deferred.
RebaseFails(s) ==
  /\ Rebases(s)
  /\ status[s] = "active" /\ {s, RebaseTarget(s)} \subseteq exists
  /\ status' = SetStreamConflicted(s)
  /\ \/ /\ walk.strategy = "defer_conflicts"
        /\ Record([walk EXCEPT !.deferred = @ \cup {s}], s, FALSE)
     \/ Record([walk EXCEPT !.failed = @ \cup {s}], s, Breaks)
  /\ UNCHANGED <<setting, depvars, fresh, turns>>

-----------------------------------------------------------------------------
(* Other processes *)

PauseStream(s) ==
  /\ setting.pauses
  /\ status[s] = "active"
  /\ status' = [status EXCEPT ![s] = "paused"]
  /\ UNCHANGED <<setting, depvars, fresh, walk, turns>>

ResumeStream(s) ==
  /\ status[s] = "paused"
  /\ status' = [status EXCEPT ![s] = "active"]
  /\ UNCHANGED <<setting, depvars, fresh, walk, turns>>

\* continueRebase, abortConflictedRebase, clearConflict: the walk aborted the
\* rebase, so they change the status only; the rebase may have been done by hand
ClearConflict(s) ==
  /\ status[s] = "conflicted"
  /\ status' = [status EXCEPT ![s] = "active"]
  /\ \/ ~ setting.byHand /\ UNCHANGED fresh
     \/ Deps(s) \cap fresh # {} /\ fresh' = fresh \cup {s}
  /\ UNCHANGED <<setting, depvars, walk, turns>>

Visit(s) ==
  \/ SkipStream(s) \/ DiamondThrows(s) \/ WorktreeFails(s) \/ NoTarget(s)
  \/ RebaseThrows(s) \/ RebaseSucceeds(s) \/ RebaseFails(s)

\* a walk is synchronous: nothing of the same process comes in between
GraphCalls(p) == (Running => Interleaved) /\ Calls(p) /\ UNCHANGED walkvars

GraphSteps(p) ==
  /\ Step(p)
  /\ walk' = [walk EXCEPT !.same = @ /\ row' = row]
  /\ UNCHANGED <<fresh, status, turns>>

Next ==
  \/ \E strategy \in setting.strategies : CascadeRebase(strategy) \/ ResumeCascade(strategy)
  \/ \E s \in Here : Visit(s)
  \/ \E s \in Here \ {Root} : PauseStream(s) \/ ResumeStream(s) \/ ClearConflict(s)
  \/ \E p \in setting.procs : GraphCalls(p) \/ GraphSteps(p)

Spec == Init /\ [][Next]_vars

-----------------------------------------------------------------------------
Returned == walk.mode = "returned"
Success == Returned /\ walk.failed = {} /\ walk.skipped = {} /\ walk.deferred = {}

\* "Whether all streams were successfully rebased": success says that every
\* dependent the call was about now holds the root's new commits, if nobody has
\* changed the graph.
SuccessMeansCurrent ==
  Success /\ walk.same => walk.resolved \cup walk.dependents \subseteq fresh

\* "Stop entire cascade at first conflict": nothing is tried after a failure.
StopsAtFirst ==
  walk.strategy = "stop_on_conflict" /\ walk.failed # {} /\ (walk.same \/ ~ walk.resumed) =>
    /\ ~ Running
    /\ \E s \in Streams : walk.failed = {s}
    /\ ~ walk.resumed => walk.skipped = {}

\* A cascade that returns without stopping early reports on every dependent once.
EachReported ==
  Returned /\ ~ walk.resumed /\ walk.strategy # "stop_on_conflict" =>
    /\ walk.updated \cup walk.failed \cup walk.skipped \cup walk.deferred = walk.dependents
    /\ walk.updated \cap (walk.failed \cup walk.skipped \cup walk.deferred) = {}
    /\ walk.skipped \cap (walk.failed \cup walk.deferred) = {}

\* A cascade finds a cycle only where two processes have written one together.
CycleOnlyByRace == walk.why = "cycle" => Interleaved

\* A direct dependent of a stream that failed or was deferred is never rebased
\* in the same call, in whatever order the walk takes the streams.
DependentsHeldBack ==
  walk.same => \A s \in walk.updated \ walk.resolved :
    Deps(s) \cap (walk.failed \cup (walk.deferred \ walk.updated) \cup walk.still) = {}

\* The report of a call names each stream once, and all of them unless the call
\* stopped, also when the graph changes under the walk; what it could not bring
\* up to date holds its dependents back.
ReportInv == TypeOK /\ StopsAtFirst /\ EachReported /\ CycleOnlyByRace /\ DependentsHeldBack

\* A call on the graph is refused just when it would close a cycle, and the order
\* of a walk puts dependencies first, or the cascade throws (looked at before any
\* cascade, when the graph is all there is).
GraphInv == SearchInv /\ (turns = 0 => SortInv)

=============================================================================
