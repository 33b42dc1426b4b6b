--------------------------- MODULE StreamLifecycle ---------------------------
(***************************************************************************)
(* The life of streams: created with a branch (src/src/streams.ts), ended, *)
(* moved to archived_streams, pruned with their branch (src/src/gc.ts).    *)
(*                                                                         *)
(* A call is a list of statements (todo); where calls are interleaved,     *)
(* those of other processes run between them.  Streams are numbered in the order of their *)
(* creation, which is the order SQLite lists them in.                      *)
(***************************************************************************)
EXTENDS Naturals, Sequences, FiniteSets

CONSTANTS
  MaxStreams,     \* bound: the streams there ever are
  Procs,
  None,           \* no stream
  Outside,        \* a branch that is no stream's
  Settings        \* the settings explored

Statuses == {"active", "paused", "conflicted", "merged", "abandoned"}
Ended == {"merged", "abandoned"}
Streams == 1 .. MaxStreams

Setting == [streams : SUBSET Streams, procs : SUBSET Procs, statuses : SUBSET Statuses,
            interleaved : BOOLEAN,   \* whether other processes run between the statements
            crashes : BOOLEAN,       \* whether processes die
            refs : SUBSET {"history", "held"},  \* what comes to refer to streams: rows that
                                     \* never go, rows that are released
            local : BOOLEAN,         \* whether there are streams in local mode
            deletion : {"done", "refused", "off"}]   \* of branches: git does what prune tells
                                     \* it to, or may refuse (a branch that is checked out), or
                                     \* deleteGitBranches is off

ASSUME StreamLifecycleAssumption ==
  /\ MaxStreams \in Nat
  /\ {None, Outside} \cap Streams = {} /\ None # Outside
  /\ Settings \subseteq Setting

VARIABLES
  setting,
  stream,    \* of each stream: its record, and the place where it is
  branch,    \* the streams whose branch stream/<id> exists
  history,   \* the streams that rows of operations, changes, ... refer to
  held,      \* the streams that worktrees, locks, dependencies refer to
  call       \* the statements each process still has to execute

vars == <<setting, stream, branch, history, held, call>>

Unused == [place |-> "none", status |-> "active", parent |-> None, tracks |-> None]
Rows == {s \in Streams : stream[s].place = "streams"}
Archived == {s \in Streams : stream[s].place \in {"archived", "expired"}}

Children(s) == {c \in Rows : stream[c].parent = s}
\* the least set of rows that holds the children of root and those of its own
Descendants(root) ==
  {s \in Rows : \A S \in SUBSET Rows : (\A x \in S \cup {root} : Children(x) \subseteq S) => s \in S}

Do(op, s) == [op |-> op, stream |-> s, arg |-> None]
With(op, s, x) == [op |-> op, stream |-> s, arg |-> x]
\* the loop over the rows S of a SELECT
Each(S, todo) ==
  LET list[n \in 0 .. MaxStreams] ==
        IF n = 0 THEN <<>> ELSE list[n - 1] \o (IF n \in S THEN todo[n] ELSE <<>>) IN
  list[MaxStreams]

TypeOK ==
  /\ \A s \in Streams :
       /\ stream[s].place \in {"none", "streams", "archived", "expired", "pruned"}
       /\ stream[s].status \in Statuses
       /\ stream[s].parent \in Streams \cup {None}
  /\ branch \subseteq Streams
  /\ history \cup held \subseteq Rows                          \* foreign keys
  /\ \A s \in Rows : stream[s].parent \in Rows \cup {None}     \* as well

Init ==
  /\ setting \in Settings
  /\ stream = [s \in Streams |-> Unused]
  /\ branch = {} /\ history = {} /\ held = {}
  /\ call = [p \in Procs |-> <<>>]

-----------------------------------------------------------------------------
Quiet == \A p \in Procs : call[p] = <<>>
MayRun(p) == setting.interleaved \/ \A q \in Procs \ {p} : call[q] = <<>>
Free(p) == call[p] = <<>> /\ MayRun(p)
Begin(p, todo) == Free(p) /\ call' = [call EXCEPT ![p] = todo] /\ UNCHANGED <<setting, stream, branch, history, held>>

Does(p, op) == MayRun(p) /\ call[p] # <<>> /\ Head(call[p]).op = op
Continue(p, todo) == call' = [call EXCEPT ![p] = todo \o Tail(@)]
Throw(p) == call' = [call EXCEPT ![p] = <<>>]

-----------------------------------------------------------------------------
(* Creation *)

\* ids are random: a new one is not that of any stream or call
Fresh == {s \in setting.streams : /\ stream[s] = Unused /\ s \notin branch
                          /\ \A p \in Procs, i \in 1 .. 3 : i \in DOMAIN call[p] => call[p][i].stream # s}
NewId(s) == s \in Fresh /\ \A x \in Fresh : s <= x

\* mutant: the row is written before there is a branch
RowBeforeBranch(s, parent) == <<With("insert", s, parent), Do("branch", s)>>
BranchThenRow(s, parent) == <<Do("branch", s), With("insert", s, parent)>>

CreateStream(p, s) == NewId(s) /\ Begin(p, BranchThenRow(s, None))

\* also forkFromCheckpoint
ForkStream(p, s, parent) ==
  /\ NewId(s)
  /\ parent \in Rows /\ parent \in branch
  /\ Begin(p, BranchThenRow(s, parent) \o <<With("depend", s, parent)>>)

TrackExistingBranch(p, s, b) ==
  /\ setting.local /\ NewId(s)
  /\ b \in branch \cup {Outside}
  /\ Begin(p, <<With("track", s, b)>>)

CreateBranch(p) ==
  /\ Does(p, "branch")
  /\ branch' = branch \cup {Head(call[p]).stream}
  /\ Continue(p, <<>>)
  /\ UNCHANGED <<setting, stream, history, held>>

\* the foreign key of parent_stream
InsertRow(p) ==
  LET s == Head(call[p]).stream  x == Head(call[p]).arg IN
  /\ \/ /\ Does(p, "insert") /\ x \in Rows \cup {None}
        /\ stream' = [stream EXCEPT ![s] = [Unused EXCEPT !.place = "streams", !.parent = x]]
        /\ Continue(p, <<>>)
     \/ /\ Does(p, "insert") /\ x \notin Rows \cup {None}
        /\ UNCHANGED stream /\ Throw(p)
     \/ /\ Does(p, "track")
        /\ stream' = [stream EXCEPT ![s] = [Unused EXCEPT !.place = "streams", !.tracks = x]]
        /\ Continue(p, <<>>)
  /\ UNCHANGED <<setting, branch, history, held>>

\* addForkDependency, which Dependencies.tla takes apart
AddForkDependency(p) ==
  LET s == Head(call[p]).stream IN
  /\ Does(p, "depend")
  /\ held' = IF {s, Head(call[p]).arg} \subseteq Rows THEN held \cup {s} ELSE held
  /\ Continue(p, <<>>)
  /\ UNCHANGED <<setting, stream, branch, history>>

\* What refers to a stream: operations, changes, checkpoints, merges, tasks, blocks are
\* never deleted while it is there; worktrees, locks, guards of calls and dependencies are.
Work(s) ==
  /\ "history" \in setting.refs /\ s \in Rows
  /\ history' = history \cup {s}
  /\ UNCHANGED <<setting, stream, branch, held, call>>
Hold(s) ==
  /\ "held" \in setting.refs /\ s \in Rows
  /\ held' = held \cup {s}
  /\ UNCHANGED <<setting, stream, branch, history, call>>
Release(s) ==
  /\ s \in held
  /\ held' = held \ {s}
  /\ UNCHANGED <<setting, stream, branch, history, call>>

-----------------------------------------------------------------------------
(* Status *)

ArchiveStream(s) == <<Do("read", s), Do("archive", s)>>

\* archiveStream called from outside, for a stream of any status
ArchiveDirectly(p, s) == s \in Rows /\ Begin(p, <<Do("read", s), With("archive", s, s)>>)

\* the configuration is read after the status is written
UpdateStreamStatus(p, s, st) ==
  /\ s \in Rows
  /\ \E auto \in BOOLEAN :
       Begin(p, <<With("set", s, st)>> \o IF auto /\ st \in Ended THEN ArchiveStream(s) ELSE <<>>)

\* pauseStream, resumeStream, mergeStream and the conflict handling of streams.ts
Transitions ==
  {<<"active", "paused">>, <<"paused", "active">>, <<"active", "merged">>,
   <<"abandoned", "merged">>, <<"active", "conflicted">>, <<"conflicted", "active">>}
SetStatus(p, s, from, to) ==
  /\ s \in Rows /\ stream[s].status = from
  /\ <<from, to>> \in Transitions
  /\ Begin(p, <<With("set", s, to)>>)

WriteStatus(p) ==
  LET s == Head(call[p]).stream IN
  /\ Does(p, "set")
  /\ stream' = IF s \in Rows THEN [stream EXCEPT ![s].status = Head(call[p]).arg] ELSE stream
  /\ Continue(p, <<>>)
  /\ UNCHANGED <<setting, branch, history, held>>

\* mutant: the children are read with one query, for the stream itself
GrandchildrenLeft(s, root) == Each(Children(s), [c \in Streams |-> <<With("abandon", c, root)>>])
Cascade(s, root) ==
  Each(Children(s), [c \in Streams |-> <<With("abandon", c, root), With("children", c, root)>>])

AbandonStream(p, s, cascade) ==
  Begin(p, IF cascade THEN <<With("abandon", s, s), With("children", s, s)>> ELSE <<Do("abandon", s)>>)

Abandon(p) ==
  LET s == Head(call[p]).stream IN
  /\ Does(p, "abandon")
  /\ IF s \in Rows
     THEN stream' = [stream EXCEPT ![s].status = "abandoned"] /\ Continue(p, <<>>)
     ELSE UNCHANGED stream /\ Throw(p)
  /\ UNCHANGED <<setting, branch, history, held>>

ListChildren(p) ==
  /\ Does(p, "children")
  /\ Continue(p, Cascade(Head(call[p]).stream, Head(call[p]).arg))
  /\ UNCHANGED <<setting, stream, branch, history, held>>

-----------------------------------------------------------------------------
(* Archive, prune, gc *)

Referenced(s) == s \in history \cup held \/ Children(s) # {}

\* mutant: the first error ends the archive phase
RestLost(todo) == <<>>
AfterError(todo) == Tail(todo)

\* archiveStream reads the row, and throws without one
ReadRow(p) ==
  /\ Does(p, "read")
  /\ call' = [call EXCEPT ![p] = IF Head(@).stream \in Rows THEN Tail(@) ELSE Tail(Tail(@))]
  /\ UNCHANGED <<setting, stream, branch, history, held>>

\* one transaction: the primary key of archived_streams, the foreign keys of streams
Archive(p) ==
  LET s == Head(call[p]).stream
      fails == s \in Archived \/ (s \in Rows /\ Referenced(s)) IN
  /\ Does(p, "archive")
  /\ stream' = IF fails THEN stream ELSE [stream EXCEPT ![s].place = "archived"]
  /\ call' = [call EXCEPT ![p] = IF fails THEN AfterError(@) ELSE Tail(@)]
  /\ UNCHANGED <<setting, branch, history, held>>

PruneStream(s) ==
  (IF stream[s].tracks = None /\ setting.deletion # "off" THEN <<Do("unbranch", s)>> ELSE <<>>)
  \o <<Do("drop", s)>>

PruneEach(S) == Each(S, [s \in Streams |-> PruneStream(s)])

Prune(p, S) == S # {} /\ Begin(p, PruneEach(S))

\* the error is added to the result, and the rows are deleted all the same
DeleteBranch(p) ==
  /\ Does(p, "unbranch")
  /\ \/ branch' = branch \ {Head(call[p]).stream}
     \/ setting.deletion = "refused" /\ UNCHANGED branch
  /\ Continue(p, <<>>)
  /\ UNCHANGED <<setting, stream, history, held>>

DropRows(p) ==
  LET s == Head(call[p]).stream IN
  /\ Does(p, "drop")
  /\ stream' = IF s \in Archived THEN [stream EXCEPT ![s].place = "pruned"] ELSE stream
  /\ history' = history \ {s}
  /\ Continue(p, <<>>)
  /\ UNCHANGED <<setting, branch, held>>

\* the retention of archiveRetentionDays is over
Expire(s) ==
  /\ stream[s].place = "archived"
  /\ stream' = [stream EXCEPT ![s].place = "expired"]
  /\ UNCHANGED <<setting, branch, history, held, call>>

\* mutant: all that is not active
InactiveRows(st) == {s \in Rows : stream[s].status = st \/ (st = "merged" /\ stream[s].status = "paused")}
RowsWith(st) == {s \in Rows : stream[s].status = st}

ArchiveEach(S) == Each(S, [s \in Streams |-> ArchiveStream(s)])

\* with the default configuration
GC(p) ==
  Begin(p, ArchiveEach(RowsWith("merged")) \o ArchiveEach(RowsWith("abandoned"))
           \o <<Do("prune", None), Do("clean", None)>>)

GCPrune(p) ==
  /\ Does(p, "prune")
  /\ Continue(p, PruneEach({s \in Archived : stream[s].place = "expired"}))
  /\ UNCHANGED <<setting, stream, branch, history, held>>

\* incomplete operation checkpoints and stale locks
GCClean(p) ==
  /\ Does(p, "clean")
  /\ \E kept \in SUBSET held : held' = kept
  /\ Continue(p, <<>>)
  /\ UNCHANGED <<setting, stream, branch, history>>

Crash(p) == setting.crashes /\ call[p] # <<>> /\ Throw(p) /\ UNCHANGED <<setting, stream, branch, history, held>>

-----------------------------------------------------------------------------
Call(p) ==
  \/ GC(p) \/ Prune(p, Archived)
  \/ \E s \in Streams :
       \/ CreateStream(p, s)
       \/ \E parent \in Streams : ForkStream(p, s, parent)
       \/ \E b \in Streams \cup {Outside} : TrackExistingBranch(p, s, b)
       \/ ArchiveDirectly(p, s)
       \/ s \in Rows /\ \E cascade \in BOOLEAN : AbandonStream(p, s, cascade)
       \/ \E st \in setting.statuses : UpdateStreamStatus(p, s, st)
       \/ \E from, to \in setting.statuses : SetStatus(p, s, from, to)

Step(p) ==
  \/ CreateBranch(p) \/ InsertRow(p) \/ AddForkDependency(p)
  \/ WriteStatus(p) \/ Abandon(p) \/ ListChildren(p)
  \/ ReadRow(p) \/ Archive(p) \/ DeleteBranch(p) \/ DropRows(p) \/ GCPrune(p) \/ GCClean(p)

Environment ==
  /\ setting.interleaved \/ Quiet
  /\ \E s \in Streams : Work(s) \/ Hold(s) \/ Release(s) \/ Expire(s)

Next == (\E p \in setting.procs : Call(p) \/ Step(p) \/ Crash(p)) \/ Environment

Spec == Init /\ [][Next]_vars

\* A process goes on with its call; gc is called again and again.
Fairness == \A p \in Procs : WF_vars(p \in setting.procs /\ Step(p)) /\ SF_vars(p \in setting.procs /\ GC(p))
FairSpec == Spec /\ Fairness

-----------------------------------------------------------------------------
\* A stream that is not in local mode has its branch, whoever prunes, and whatever dies.
RowHasBranch == \A s \in Rows : stream[s].tracks = None => s \in branch

\* A branch stream/<id> has a record, where calls do not overlap, none is cut short and
\* branches are deleted as prune goes: it leaves nothing behind.
BranchHasRecord ==
  ~ setting.interleaved /\ ~ setting.crashes /\ setting.deletion = "done" /\ Quiet
  => branch \subseteq Rows \cup Archived

\* Rows and branches correspond.
RecordInv == TypeOK /\ RowHasBranch /\ BranchHasRecord

\* "Archive streams automatically when merged", "when abandoned": what gc and
\* updateStreamStatus archive has ended.  (archiveStream itself asks for no status.)
ArchivedWasEnded ==
  [][~ setting.interleaved =>
       \A p \in Procs, s \in Rows :
         call[p] # <<>> /\ Head(call[p]) = Do("archive", s) /\ stream'[s].place = "archived"
         => stream[s].status \in Ended]_vars

\* "If true, also abandon all child streams": a cascade that is not cut short ends when the
\* stream and all its descendants are abandoned.
AbandonComplete ==
  [][~ setting.interleaved /\ ~ setting.crashes => \A p \in Procs :
       /\ call[p] # <<>> /\ call'[p] = <<>>
       /\ Head(call[p]).op \in {"abandon", "children"} /\ Head(call[p]).arg # None
       => \A s \in {Head(call[p]).arg} \cup Descendants(Head(call[p]).arg) :
            stream'[s].status = "abandoned"]_vars

\* "Archive any merged/abandoned streams not yet archived": when all streams are merged or
\* abandoned, and no worktree, lock or dependency refers to one, gc gets rid of them all.
Collected ==
  <>[](\A s \in Rows : stream[s].status \in Ended /\ s \notin held) => <>[](Rows = {})

\* It does, where nothing has been recorded in the tables that refer to streams and no
\* gc is cut short: a parent that fails because of its child goes the next time.
Drains == ~ setting.crashes /\ [](history = {}) => Collected

=============================================================================
