------------------------------ MODULE Snapshots ------------------------------
(***************************************************************************)
(* The working copy snapshots of src/src/snapshots.ts over the worktrees:  *)
(* git stash holds the uncommitted work, a row of wc_snapshots says where. *)
(* All worktrees of a repository share one stash list; the entry just      *)
(* pushed is found by asking for the latest.                               *)
(***************************************************************************)
EXTENDS Worktrees

VARIABLES
  stash,     \* git: the stash list, the latest last; entries are never dropped
  snaps      \* wc_snapshots: worktree, stash_ref, and the work that was taken

snvars == <<stash, snaps>>

Snap == [path : Paths, ref : Nat, took : SUBSET setting.work]

SnapshotsTypeOK ==
  /\ stash \in Seq(SUBSET made)
  /\ snaps \subseteq Snap

SnapshotsInit == stash = <<>> /\ snaps = {}

\* snapshot, to git stash push
Snapshot(p, w) ==
  /\ At(p, "idle")
  /\ w \in dir /\ tree[w] # None
  /\ work[w] # {}
  /\ MayUse("snaps")
  /\ stash' = Append(stash, work[w])
  /\ work' = [work EXCEPT ![w] = {}]
  /\ Go(p, [Idle EXCEPT !.pc = "record", !.path = w, !.took = work[w]])
  /\ UNCHANGED <<setting, alive, row, tree, dir, made, left, snaps>>

\* the latest stash, and the INSERT
RecordSnapshot(p) ==
  LET r == proc[p] IN
  /\ At(p, "record")
  /\ snaps' = snaps \cup {[path |-> r.path, ref |-> Len(stash), took |-> r.took]}
  /\ Return(p)
  /\ UNCHANGED <<setting, alive, row, tree, dir, work, made, left, used, stash>>

\* git stash apply, which keeps the entry; if it fails nothing changes.  The
\* caller of safeOperation restores what it was given when the operation failed.
Restore(p, s, w) ==
  /\ At(p, "idle")
  /\ w \in dir /\ tree[w] # None
  /\ work' = [work EXCEPT ![w] = @ \cup stash[s.ref]]
  /\ UNCHANGED <<setting, alive, row, tree, dir, made, left, proc, used, snvars>>

\* deleteSnapshot and pruneSnapshots: the row, not the stash
DeleteSnapshot(p, s) ==
  /\ At(p, "idle")
  /\ snaps' = snaps \ {s}
  /\ UNCHANGED <<wtvars, stash>>

SnapshotCalls(p) ==
  \/ \E w \in Paths : Snapshot(p, w) \/ \E s \in snaps : Restore(p, s, w)
  \/ \E s \in snaps : DeleteSnapshot(p, s)

-----------------------------------------------------------------------------
\* A snapshot gives back what was taken: the stash a row names holds the work
\* of the row's worktree, whatever other agents of the process snapshot.
SnapshotHoldsWork ==
  Alone => \A s \in snaps : stash[s.ref] = s.took

=============================================================================
