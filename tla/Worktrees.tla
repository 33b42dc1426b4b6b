------------------------------ MODULE Worktrees ------------------------------
(***************************************************************************)
(* The worktrees of src/src/worktrees.ts: the rows of agent_worktrees, the *)
(* worktrees git has registered, the directories on disk, and the work in  *)
(* them that is not committed.                                             *)
(*                                                                         *)
(* A call is a SELECT with a git command, then a write of the row; each    *)
(* is a step, and a process may die between them.  git's part is modelled  *)
(* from how the code uses it: a branch is checked out in one worktree at   *)
(* most, and a removal may fail.                                           *)
(***************************************************************************)
EXTENDS Startup

CONSTANTS
  Agents,
  Paths,        \* where agents put worktrees
  TempPaths,    \* where cascades put theirs; cascade-wt-<stream>-<time> is never used twice
  Home,         \* the worktree of the repository itself
  Streams,      \* streams, and their branches
  Archived,     \* streams that only have their branch left, no row
  Main,         \* the default branch
  Work,         \* pieces of uncommitted work
  None, Detached,
  Settings      \* the settings explored

\* What a setting says of this module:
\*   procs     the processes; calls of several overlap
\*   agents    the agents
\*   streams   the streams worktrees are made for
\*   home      what the repository's own worktree has checked out
\*   work      bound: the pieces of work there will be
\* and how many there may be of each of these at most:
Bounds == {"snaps",       \* calls of snapshot
           "cascades",    \* cascades
           "deaths",      \* agents that end
           "losses",      \* directories deleted by hand
           "writes",      \* writes to the stream
           "rollbacks",   \* calls of rollbackMigration
           "crashes"}     \* deaths of a process

ASSUME WorktreesAssumption ==
  /\ Archived \subseteq Streams
  /\ Home \notin Paths \cup TempPaths /\ None \notin Paths /\ Paths \cap TempPaths = {}
  /\ {Main, None, Detached} \cap Streams = {} /\ Main # None /\ Main # Detached /\ None # Detached
  /\ \A t \in Settings :
       /\ t.procs \subseteq Procs /\ t.agents \subseteq Agents /\ t.streams \subseteq Streams
       /\ t.home \in {Main, Detached} /\ t.work \subseteq Work
       /\ \A b \in Bounds : t[b] \in Nat

AllPaths == {Home} \cup Paths \cup TempPaths

VARIABLES
  setting,
  alive,      \* the agents at work
  row,        \* agent_worktrees: path and current_stream of each agent
  tree,       \* git: what is checked out in the worktree registered for a path
  dir,        \* the directories there are
  work,       \* the uncommitted work in each
  made,       \* the pieces of work begun so far
  left,       \* the paths of worktrees git failed to remove
  proc,       \* the call each process is in
  used        \* what has been used of the bounds

wtvars == <<setting, alive, row, tree, dir, work, made, left, proc, used>>

NoRow == [path |-> None, stream |-> None]
Idle == [pc |-> "idle", agent |-> None, path |-> None, stream |-> None, temps |-> {}, took |-> {}]

Pcs == {"idle", "insert", "update", "delete", "prune", "cascade", "cleanup", "record"}

WorktreesTypeOK ==
  /\ alive \subseteq setting.agents
  /\ row \in [Agents -> [path : Paths \cup {None}, stream : Streams \cup {None}]]
  /\ tree \in [AllPaths -> Streams \cup {Main, Detached, None}]
  /\ dir \cup left \subseteq AllPaths
  /\ work \in [AllPaths -> SUBSET made] /\ made \subseteq setting.work
  /\ \A p \in Procs : proc[p].pc \in Pcs /\ proc[p].temps \subseteq TempPaths

WorktreesInit ==
  /\ setting \in Settings
  /\ alive = setting.agents
  /\ row = [a \in Agents |-> NoRow]
  /\ tree = [w \in AllPaths |-> IF w = Home THEN setting.home ELSE None]
  /\ dir = {Home}
  /\ work = [w \in AllPaths |-> {}]
  /\ made = {} /\ left = {}
  /\ proc = [p \in Procs |-> Idle]
  /\ used = [b \in Bounds |-> 0]

At(p, pc) == proc[p].pc = pc
Go(p, r) == proc' = [proc EXCEPT ![p] = r]
Return(p) == Go(p, Idle)
MayUse(what) == used[what] < setting[what] /\ used' = [used EXCEPT ![what] = @ + 1]

\* git lets one worktree at most check out a branch
FreeBranch(b) == b = Detached \/ \A w \in AllPaths : tree[w] # b

\* git worktree add
Addable(w, b) == tree[w] = None /\ w \notin dir /\ FreeBranch(b)
AddWorktree(w, b) ==
  /\ tree' = [tree EXCEPT ![w] = b]
  /\ dir' = dir \cup {w}

\* git worktree remove --force, with all that is in the directory
RemoveWorktree(w) ==
  /\ tree' = [tree EXCEPT ![w] = None]
  /\ dir' = dir \ {w}
  /\ work' = [work EXCEPT ![w] = {}]

\* git worktree prune: registrations without a directory
Pruned(t, d) == [w \in AllPaths |-> IF w \in d THEN t[w] ELSE None]

-----------------------------------------------------------------------------
(* createWorktree *)

CreateWorktree(p, a, w, b) ==
  /\ At(p, "idle") /\ a \in alive
  /\ row[a] = NoRow
  /\ Addable(w, b)
  /\ AddWorktree(w, b)
  /\ Go(p, [Idle EXCEPT !.pc = "insert", !.agent = a, !.path = w,
                        !.stream = IF b = Detached THEN None ELSE b])
  /\ UNCHANGED <<setting, alive, row, work, made, left, used>>

\* The INSERT throws when the agent or the path has a row, or the stream has
\* none; the worktree is not removed then.
InsertRow(p) ==
  LET r == proc[p]
      throws == \/ row[r.agent] # NoRow
                \/ \E a \in Agents : row[a].path = r.path
                \/ r.stream \in Archived
  IN
  /\ At(p, "insert")
  /\ row' = IF throws THEN row ELSE [row EXCEPT ![r.agent] = [path |-> r.path, stream |-> r.stream]]
  /\ Return(p)
  /\ UNCHANGED <<setting, alive, tree, dir, work, made, left, used>>

-----------------------------------------------------------------------------
(* updateWorktreeStream: uncommitted work is carried along by the checkout *)

Switchable(w, b) == w \in dir /\ tree[w] # None /\ (tree[w] = b \/ FreeBranch(b))

UpdateWorktreeStream(p, a, s) ==
  LET w == row[a].path  b == IF s = None THEN Main ELSE s IN
  /\ At(p, "idle") /\ a \in alive
  /\ row[a] # NoRow
  /\ Switchable(w, b)
  /\ tree' = [tree EXCEPT ![w] = b]
  /\ Go(p, [Idle EXCEPT !.pc = "update", !.agent = a, !.stream = s])
  /\ UNCHANGED <<setting, alive, row, dir, work, made, left, used>>

\* UPDATE, which throws on a stream without a row and changes nothing when the
\* agent's row is gone
UpdateRow(p) ==
  LET r == proc[p] IN
  /\ At(p, "update")
  /\ row' = IF row[r.agent] = NoRow \/ r.stream \in Archived THEN row
            ELSE [row EXCEPT ![r.agent].stream = r.stream]
  /\ Return(p)
  /\ UNCHANGED <<setting, alive, tree, dir, work, made, left, used>>

-----------------------------------------------------------------------------
(* deallocateWorktree *)

\* mutant: nothing is done when the directory is gone
DeallocateExisting(p, a) ==
  LET w == row[a].path IN
  /\ At(p, "idle")
  /\ w \in dir
  /\ RemoveWorktree(w)
  /\ Go(p, [Idle EXCEPT !.pc = "delete", !.agent = a, !.path = w])
  /\ UNCHANGED <<setting, alive, row, made, left, used>>

\* A removal that fails is only logged.
DeallocateWorktree(p, a) ==
  LET w == row[a].path IN
  /\ At(p, "idle")
  /\ row[a] # NoRow
  /\ \/ RemoveWorktree(w) /\ UNCHANGED left
     \/ UNCHANGED <<tree, dir, work>> /\ left' = left \cup {w}
  /\ Go(p, [Idle EXCEPT !.pc = "delete", !.agent = a, !.path = w])
  /\ UNCHANGED <<setting, alive, row, made, used>>

DeleteRow(p) ==
  LET r == proc[p] IN
  /\ At(p, "delete")
  /\ row' = [row EXCEPT ![r.agent] = NoRow]
  /\ Go(p, [r EXCEPT !.pc = "prune"])
  /\ UNCHANGED <<setting, alive, tree, dir, work, made, left, used>>

\* the last step of deallocateWorktree
PruneWorktrees(p) ==
  /\ At(p, "prune")
  /\ tree' = Pruned(tree, dir)
  /\ Return(p)
  /\ UNCHANGED <<setting, alive, row, dir, work, made, left, used>>

\* gc, step 3
GcPrune(p) ==
  /\ At(p, "idle")
  /\ Pruned(tree, dir) # tree
  /\ tree' = Pruned(tree, dir)
  /\ UNCHANGED <<setting, alive, row, dir, work, made, left, proc, used>>

-----------------------------------------------------------------------------
(* The worktree provider of a cascade *)

\* createWorktreeProvider, mode 'temporary'
BeginCascade(p) ==
  /\ At(p, "idle")
  /\ MayUse("cascades")
  /\ Go(p, [Idle EXCEPT !.pc = "cascade"])
  /\ UNCHANGED <<setting, alive, row, tree, dir, work, made, left>>

\* getWorktree; a branch that is checked out elsewhere fails its stream only
TemporaryWorktree(p, s, w) ==
  /\ At(p, "cascade")
  /\ w \in TempPaths \ left
  /\ Addable(w, s)
  /\ AddWorktree(w, s)
  /\ Go(p, [proc[p] EXCEPT !.temps = @ \cup {w}])
  /\ UNCHANGED <<setting, alive, row, work, made, left, used>>

\* cleanup, called when the walk is over and before it throws: git removes the
\* worktree, or the directory is deleted and the registration pruned, or
\* neither works
CleanTemporary(p, w) ==
  /\ At(p, "cascade") \/ At(p, "cleanup")
  /\ w \in proc[p].temps
  /\ \/ RemoveWorktree(w) /\ UNCHANGED left
     \/ dir' = dir \ {w} /\ UNCHANGED <<tree, work, left>>
     \/ left' = left \cup {w} /\ UNCHANGED <<tree, dir, work>>
  /\ Go(p, [proc[p] EXCEPT !.pc = "cleanup", !.temps = @ \ {w}])
  /\ UNCHANGED <<setting, alive, row, made, used>>

\* mutant: the registrations are not pruned
EndWithoutPrune(p) ==
  /\ At(p, "cascade") \/ At(p, "cleanup")
  /\ proc[p].temps = {}
  /\ Return(p)
  /\ UNCHANGED <<setting, alive, row, tree, dir, work, made, left, used>>

EndCleanup(p) ==
  /\ At(p, "cascade") \/ At(p, "cleanup")
  /\ proc[p].temps = {}
  /\ tree' = Pruned(tree, dir)
  /\ Return(p)
  /\ UNCHANGED <<setting, alive, row, dir, work, made, left, used>>

-----------------------------------------------------------------------------
(* Agents, and what happens to them and to their worktrees *)

Edit(a, piece) ==
  /\ a \in alive
  /\ row[a].path \in dir
  /\ piece \in setting.work \ made
  /\ made' = made \cup {piece}
  /\ work' = [work EXCEPT ![row[a].path] = @ \cup {piece}]
  /\ UNCHANGED <<setting, alive, row, tree, dir, left, proc, used>>

CommitWork(a) ==
  /\ a \in alive
  /\ row[a].path \in dir
  /\ work[row[a].path] # {}
  /\ work' = [work EXCEPT ![row[a].path] = {}]
  /\ UNCHANGED <<setting, alive, row, tree, dir, made, left, proc, used>>

Die(a) ==
  /\ a \in alive
  /\ MayUse("deaths")
  /\ alive' = alive \ {a}
  /\ UNCHANGED <<setting, row, tree, dir, work, made, left, proc>>

\* somebody deletes a directory
DeletedByHand(w) ==
  /\ w \in dir \cap Paths
  /\ MayUse("losses")
  /\ dir' = dir \ {w}
  /\ work' = [work EXCEPT ![w] = {}]
  /\ UNCHANGED <<setting, alive, row, tree, made, left, proc>>

WorktreeCalls(p) ==
  \/ \E a \in setting.agents, w \in Paths, b \in setting.streams \cup {Detached} : CreateWorktree(p, a, w, b)
  \/ \E a \in setting.agents, s \in setting.streams \cup {None} : UpdateWorktreeStream(p, a, s)
  \/ \E a \in setting.agents : DeallocateWorktree(p, a)
  \/ \E s \in setting.streams, w \in TempPaths : TemporaryWorktree(p, s, w)
  \/ GcPrune(p) \/ BeginCascade(p)

WorktreeSteps(p) ==
  \/ InsertRow(p) \/ UpdateRow(p) \/ DeleteRow(p) \/ PruneWorktrees(p)
  \/ (\E w \in TempPaths : CleanTemporary(p, w)) \/ EndCleanup(p)

Others ==
  \/ \E a \in setting.agents : CommitWork(a) \/ Die(a) \/ \E piece \in Work : Edit(a, piece)
  \/ \E w \in Paths : DeletedByHand(w)

-----------------------------------------------------------------------------
Quiet == \A p \in Procs : At(p, "idle")
Intact == used.crashes = 0
\* one process uses the repository
Alone == \E p \in Procs : setting.procs = {p}

\* git's view of the worktree is the one the row gives
RowTrue(a) ==
  LET w == row[a].path IN
  \/ tree[w] = row[a].stream
  \/ row[a].stream = None /\ tree[w] \in {Detached, Main}
  \/ tree[w] \in Archived                    \* the UPDATE threw

\* Calls that do not overlap and are not cut short, on directories nobody
\* deletes, leave the rows and git in agreement: an agent's row names its
\* worktree and the stream checked out in it, and every other worktree is one
\* git would not remove, or one of a stream that has no row any more.
RowsTrue ==
  Quiet /\ Intact /\ used.losses = 0 /\ Alone =>
    /\ \A a \in Agents : row[a] # NoRow => RowTrue(a)
    /\ \A w \in Paths : w \in dir =>
         (\E a \in Agents : row[a].path = w) \/ w \in left \/ tree[w] \in Archived

\* A cascade that has ended, also one that threw, holds no branch back: its
\* worktrees are gone unless they could not be removed in any way.
TempGone ==
  Intact => \A w \in TempPaths :
    tree[w] # None => w \in left \/ \E p \in Procs : w \in proc[p].temps \/ At(p, "cleanup")

=============================================================================
