------------------------------- MODULE Changes -------------------------------
(***************************************************************************)
(* The changes of src/src/changes.ts: a change is a commit's identity, the *)
(* row that follows it over rebases and other rewrites.  One stream; its   *)
(* commits since its base are branch, a set: no statement on the rows      *)
(* depends on their order.                                                 *)
(*                                                                         *)
(* A commit is the change it was made for, the version of its patch (the   *)
(* patch-id) and the rewrite that made it.  What git does to the branch is *)
(* one step; then come the statements on the rows, one step each.          *)
(***************************************************************************)
EXTENDS Naturals, Sequences, SequencesExt, FiniteSets

CONSTANTS
  ChangeIds,
  NoCommit,
  MaxRewrites      \* bound: rewrites of the branch

VARIABLES
  branch,
  change,     \* the rows of changes
  rewrites,   \* the rewrites so far, which tell commits of one patch apart
  lost        \* the changes whose patch a rebase has altered or dropped

chvars == <<branch, change, rewrites, lost>>

Commit == [id : ChangeIds, patch : Nat, made : Nat]

NoChange == [status |-> "none", current |-> NoCommit, history |-> <<>>, into |-> NoCommit]

Statuses == {"none", "active", "squashed", "dropped", "merged"}

ChangesTypeOK ==
  /\ branch \subseteq Commit
  /\ \A c \in ChangeIds :
       /\ change[c].status \in Statuses
       /\ change[c].current \in Commit \cup {NoCommit}
       /\ change[c].history \in Seq(Commit)
       /\ change[c].into \in ChangeIds \cup {NoCommit}
  /\ rewrites \in 0 .. MaxRewrites
  /\ lost \subseteq ChangeIds

ChangesInit ==
  /\ branch = {}
  /\ change = [c \in ChangeIds |-> NoChange]
  /\ rewrites = 0
  /\ lost = {}

CommitOf(c) == CHOOSE k \in branch : k.id = c
InBranch(c) == \E k \in branch : k.id = c
Active(c) == change[c].status = "active"

-----------------------------------------------------------------------------
(* The statements.  An update is a record of what is written to which row. *)

\* createChange, and the new rows of recordSplit
Created(c, k) == [op |-> "create", id |-> c, commit |-> k, into |-> NoCommit]
\* recordRewrite
Rewritten(c, k) == [op |-> "rewrite", id |-> c, commit |-> k, into |-> NoCommit]
\* updateChangeStatus
Ended(c, status, into) == [op |-> status, id |-> c, commit |-> NoCommit, into |-> into]

\* mutant: the history is replaced
ApplyForgetful(row, u) ==
  CASE u.op = "create" -> [NoChange EXCEPT !.status = "active", !.current = u.commit, !.history = <<u.commit>>]
    [] u.op = "rewrite" -> [row EXCEPT !.current = u.commit, !.history = <<u.commit>>]
    [] u.op = "merged" -> [row EXCEPT !.status = "merged"]
    [] OTHER -> [row EXCEPT !.status = u.op, !.current = NoCommit, !.into = u.into]

\* The row after an update: a rewrite puts the new commit before the history,
\* a change that is squashed or dropped has no commit any more.
Applied(row, u) ==
  CASE u.op = "create" -> [NoChange EXCEPT !.status = "active", !.current = u.commit, !.history = <<u.commit>>]
    [] u.op = "rewrite" -> [row EXCEPT !.current = u.commit, !.history = <<u.commit>> \o @]
    [] u.op = "merged" -> [row EXCEPT !.status = "merged"]
    [] OTHER -> [row EXCEPT !.status = u.op, !.current = NoCommit, !.into = u.into]

Apply(u) == change' = [change EXCEPT ![u.id] = Applied(@, u)]

-----------------------------------------------------------------------------
(* What git does to the branch, the updates that follow, and what is lost then *)

Rewrite(new, todo, gone) == [branch |-> new, todo |-> todo, lost |-> gone]

\* commitChanges: commitWithChangeId, then createChange
CommitChanges(c) ==
  LET k == [id |-> c, patch |-> 0, made |-> rewrites] IN
  Rewrite(branch \cup {k}, <<Created(c, k)>>, lost)

\* buildRebaseCommitMapping: a new commit with the patch-id of the old one
Mapping(old, new) == {m \in old \X new : m[1].id = m[2].id /\ m[1].patch = m[2].patch}

\* rebuildChangesAfterRebase
RebaseUpdates(old, new) ==
  LET moved == {m \in Mapping(old, new) : \E c \in ChangeIds : Active(c) /\ change[c].current = m[1]}
  IN SetToSeq({Rewritten(m[1].id, m[2]) : m \in moved})

\* A rebase replays each commit; its patch stays the same, or is altered to
\* resolve a conflict, or turns out empty and the commit is dropped.
Rebase(fate) ==
  LET Replay(k) == [id |-> k.id, patch |-> IF fate[k] = "altered" THEN k.patch + 1 ELSE k.patch,
                    made |-> rewrites + 1]
      new == {Replay(k) : k \in {j \in branch : fate[j] # "dropped"}}
  IN Rewrite(new, RebaseUpdates(branch, new),
             lost \cup {k.id : k \in {j \in branch : fate[j] # "same"}})

Fates == [branch -> {"same", "altered", "dropped"}]

Amended(c) == [id |-> c, patch |-> CommitOf(c).patch + 1, made |-> rewrites + 1]
WithAmended(c) == (branch \ {CommitOf(c)}) \cup {Amended(c)}

\* a commit is amended: recordRewrite
Amend(c) == Rewrite(WithAmended(c), <<Rewritten(c, Amended(c))>>, lost \ {c})

\* commit d is squashed into commit c: recordSquash
Squash(d, c) ==
  Rewrite(WithAmended(c) \ {CommitOf(d)},
          <<Ended(d, "squashed", c), Rewritten(c, Amended(c))>>, lost \ {c, d})

\* commit c is split in two: recordSplit
Split(c, d, e) ==
  LET Part(x) == [id |-> x, patch |-> 0, made |-> rewrites + 1] IN
  Rewrite((branch \ {CommitOf(c)}) \cup {Part(d), Part(e)},
          <<Ended(c, "dropped", NoCommit), Created(d, Part(d)), Created(e, Part(e))>>, lost)

\* a commit is taken out: markDropped
DropCommit(c) ==
  Rewrite(branch \ {CommitOf(c)}, <<Ended(c, "dropped", NoCommit)>>, lost)

\* mergeStream: markMerged of the active changes
MergeStream ==
  Rewrite(branch, SetToSeq({Ended(c, "merged", NoCommit) : c \in {d \in ChangeIds : Active(d)}}), lost)

Tracked == {c \in ChangeIds : InBranch(c) /\ Active(c)}
Unused == {c \in ChangeIds : change[c].status = "none" /\ ~ InBranch(c)}

\* additions to the branch, and rewrites of what is there
Additions == {CommitChanges(c) : c \in {d \in Unused : \A e \in Unused : d <= e}} \cup {MergeStream}

Rewrites ==
  {Rebase(fate) : fate \in Fates}
  \cup {Amend(c) : c \in Tracked} \cup {DropCommit(c) : c \in Tracked}
  \cup {Squash(p[1], p[2]) : p \in {q \in Tracked \X Tracked : q[1] # q[2]}}
  \cup {Split(p[1], p[2], p[3]) : p \in {q \in Tracked \X Unused \X Unused : q[2] < q[3]}}

-----------------------------------------------------------------------------
\* A row is consistent: an active change has the newest commit of its history,
\* one that was squashed or dropped has none, and a commit belongs to one
\* change, so that getChangeByHistoricalCommit has one answer.
RowsConsistent ==
  /\ \A c \in ChangeIds :
       /\ Active(c) => change[c].current = Head(change[c].history)
       /\ change[c].status \in {"squashed", "dropped"} => change[c].current = NoCommit
       /\ change[c].status = "squashed" <=> change[c].into # NoCommit
  /\ \A c, d \in ChangeIds : c # d => ToSet(change[c].history) \cap ToSet(change[d].history) = {}

\* a change is followed: its current commit is in the branch
Followed(c) == change[c].current \in branch

\* a commit is found again through the history of its change
Findable(k) == k \in ToSet(change[k.id].history)

=============================================================================
