--------------------------- MODULE StreamConflicts ---------------------------
(***************************************************************************)
(* Rebasing a stream and resolving its conflicts: rebaseOntoStream,        *)
(* rebaseOntoStreamAsync, continueRebase, abortConflictedRebase,           *)
(* clearConflict and recoverOrphanedConflicts of src/src/streams.ts over   *)
(* the records of src/src/conflicts.ts.                                    *)
(*                                                                         *)
(* A call is a list of statements still to do (todo), one per SQL write or *)
(* git command; its first step takes the decision, each further step does  *)
(* one statement.  The calls run in one process: only "await", where the   *)
(* conflict handler of an agent works for as long as it likes, lets others *)
(* run.  A stream's branch is checked out in no worktree but the one it is *)
(* being rebased in.                                                       *)
(*                                                                         *)
(* All streams are rebased onto one target branch, whose head is a version *)
(* number; real[s] is the version a branch is based on in git, base[s] the *)
(* base_commit in the database.                                            *)
(***************************************************************************)
EXTENDS Naturals, Sequences, FiniteSets

CONSTANTS
  Streams,
  Procs,        \* agents; each has a worktree
  Main,         \* the agent whose worktree is the repository; the others' are linked
  Conflicts,    \* conflict ids
  None,         \* no conflict, no stream
  Settings      \* the settings explored

Setting == [streams : SUBSET Streams,   \* the streams that are rebased
            conflicts : SUBSET Conflicts,
            versions : Nat \ {0},       \* bound: heads of the target
            crashes : Nat,              \* bound: calls cut short
            reuse : BOOLEAN]            \* bound: rebases where another was left behind

ASSUME ConflictsAssumption ==
  /\ None \notin Streams \cup Conflicts
  /\ Main \in Procs
  /\ Settings \subseteq Setting

VARIABLES
  setting,
  head,      \* the target's head
  base,      \* streams.base_commit
  real,      \* what each branch is based on in git
  status,    \* streams.status
  cid,       \* streams.metadata.conflictId
  rec,       \* conflicts: status, stream_id, target_commit
  wt,        \* the rebase in progress in each worktree
  call,      \* the call each process is in
  crashes,
  reused     \* history: a rebase was called in a worktree with another left behind

vars == <<setting, head, base, real, status, cid, rec, wt, call, crashes, reused>>
dbVars == <<base, status, cid, rec>>
gitVars == <<head, real, wt>>

Versions == 0 .. setting.versions

NoRebase == [stream |-> None, onto |-> 0, files |-> FALSE]
NoCall == [todo |-> <<>>, stream |-> None, conflict |-> None, target |-> 0]
Unused == [status |-> "none", stream |-> None, target |-> 0]

Statements == {"create", "create_late", "set_conflicted", "start", "await", "abort",
               "abort_seen", "abandon", "clear", "resolve", "update_base", "reset",
               "delete", "recover_clear"}

TypeOK ==
  /\ head \in Versions
  /\ base \in [Streams -> Versions] /\ real \in [Streams -> Versions]
  /\ status \in [Streams -> {"active", "paused", "conflicted", "abandoned"}]
  /\ cid \in [Streams -> Conflicts \cup {None}]
  /\ rec \in [Conflicts -> [status : {"none", "pending", "in_progress", "resolved",
                                      "abandoned", "deleted"},
                            stream : Streams \cup {None}, target : Versions]]
  /\ wt \in [Procs -> [stream : Streams \cup {None}, onto : Versions, files : BOOLEAN]]
  /\ \A p \in Procs : /\ Len(call[p].todo) <= 4
                      /\ \A i \in 1 .. Len(call[p].todo) : call[p].todo[i] \in Statements
                      /\ call[p].todo # <<>> => call[p].stream \in Streams
  /\ crashes \in 0 .. setting.crashes
  /\ reused \in BOOLEAN

Init ==
  /\ setting \in Settings
  /\ head = 1
  /\ base = [s \in Streams |-> 0] /\ real = [s \in Streams |-> 0]
  /\ status = [s \in Streams |-> "active"]
  /\ cid = [s \in Streams |-> None]
  /\ rec = [c \in Conflicts |-> Unused]
  /\ wt = [p \in Procs |-> NoRebase]
  /\ call = [p \in Procs |-> NoCall]
  /\ crashes = 0
  /\ reused = FALSE

-----------------------------------------------------------------------------
(* Scheduling *)

Idle(p) == call[p].todo = <<>>
Awaiting(p) == ~ Idle(p) /\ Head(call[p].todo) = "await"

ThreadFree(p) == \A q \in Procs \ {p} : Idle(q) \/ Awaiting(q)

Free(p) == Idle(p) /\ ThreadFree(p)

Begin(p, s, c, v, todo) ==
  call' = [call EXCEPT ![p] = IF todo = <<>> THEN NoCall
                              ELSE [todo |-> todo, stream |-> s, conflict |-> c, target |-> v]]

\* p's next statement is x
Does(p, x) == ThreadFree(p) /\ ~ Idle(p) /\ Head(call[p].todo) = x

Proceed(p, todo) ==
  call' = [call EXCEPT ![p] = IF todo = <<>> THEN NoCall ELSE [@ EXCEPT !.todo = todo]]

Done(p) == Proceed(p, Tail(call[p].todo))

Rebasing(p) == wt[p].stream # None

-----------------------------------------------------------------------------
(* rebaseOntoStream and rebaseOntoStreamAsync *)

\* git refuses a second rebase in the worktree, and a branch another one holds
NotRebasing(s) == \A q \in Procs : wt[q].stream # s
CanRebase(p, s) == ~ Rebasing(p) /\ NotRebasing(s)

\* the contract of a careful caller: nobody takes a conflict from a handler at work,
\* and what concerns a rebase in progress is done in its worktree
MayManage(p, s) ==
  /\ wt[p].stream \in {s, None}
  /\ \A q \in Procs \ {p} : wt[q].stream # s
  /\ \A q \in Procs : Awaiting(q) => call[q].stream # s

Rebasable(s) == status[s] \notin {"conflicted", "paused"}

\* what is done when the rebase did not succeed; "ours" stands for "theirs" too, and
\* "agent" for rebaseOntoStreamAsync without a handler
OnFailure(onConflict) ==
  CASE onConflict \in {"abort", "ours"} -> <<"create_late", "set_conflicted">>
    [] onConflict = "manual" -> <<"abort">>
    [] onConflict = "agent"  -> <<"create", "set_conflicted", "abort">>
    [] onConflict = "async"  -> <<"create", "set_conflicted", "start", "await">>

\* bound: there is an id left for the conflict the call may create
IdLeft == \E c \in setting.conflicts : rec[c] = Unused

\* the branch is checked out first, which git refuses when another worktree holds the
\* branch or the worktree has unmerged files
CanCheckout(p, s) == ~ wt[p].files /\ \A q \in Procs \ {p} : wt[q].stream # s

\* a checkout in the middle of a rebase takes along what the rebase goes on from
CheckedOut(p, v) == IF Rebasing(p) THEN [wt EXCEPT ![p].onto = v] ELSE wt

RebaseOntoStream(p, s, onConflict) ==
  /\ Free(p) /\ IdLeft
  /\ Rebasable(s)
  /\ Rebasing(p) => setting.reuse
  /\ reused' = (reused \/ Rebasing(p))
  /\ \/ /\ NotRebasing(s)                                \* no commits beyond the base
        /\ Begin(p, s, None, head, <<"update_base", "reset">>)
        /\ UNCHANGED <<real, wt>>
     \/ /\ CanRebase(p, s)
        /\ real' = [real EXCEPT ![s] = head]
        /\ Begin(p, s, None, head, <<"update_base">>)
        /\ UNCHANGED wt
     \/ /\ CanRebase(p, s)                               \* conflicts
        /\ wt' = IF onConflict = "abort" THEN wt
                 ELSE [wt EXCEPT ![p] = [stream |-> s, onto |-> head, files |-> TRUE]]
        /\ Begin(p, s, None, head, OnFailure(onConflict))
        /\ UNCHANGED real
     \/ /\ onConflict \in {"abort", "ours"}              \* git fails, or refuses to begin
        /\ CanCheckout(p, s)                             \* else checkout throws
        /\ wt' = CheckedOut(p, real[s])
        /\ Begin(p, s, None, head, OnFailure(onConflict))
        /\ UNCHANGED real
     \/ /\ onConflict \notin {"abort", "ours"}
        /\ Begin(p, s, None, head, OnFailure(onConflict))
        /\ UNCHANGED <<real, wt>>
  /\ UNCHANGED <<setting, head, dbVars, crashes>>

\* Promise.race: the handler answers no or throws, or the timeout comes first
HandlerFails(p) ==
  /\ Does(p, "await")
  /\ Proceed(p, <<"abort", "abandon", "clear">>)
  /\ UNCHANGED <<setting, dbVars, gitVars, crashes, reused>>

\* getConflictedFiles, then `git rebase --continue`, which finishes, or stops or fails
HandlerSucceeds(p) ==
  /\ Does(p, "await")
  /\ \/ /\ Rebasing(p) /\ ~ wt[p].files
        /\ real' = [real EXCEPT ![wt[p].stream] = wt[p].onto]
        /\ wt' = [wt EXCEPT ![p] = NoRebase]
        /\ Proceed(p, <<"resolve", "clear", "update_base">>)
     \/ /\ Proceed(p, <<"abort", "abandon">>)
        /\ UNCHANGED <<real, wt>>
  /\ UNCHANGED <<setting, head, dbVars, crashes, reused>>

\* an agent edits the files of the rebase in its worktree, also after a timeout
ResolveFiles(p) ==
  /\ Rebasing(p) /\ wt[p].files
  /\ wt' = [wt EXCEPT ![p].files = FALSE]
  /\ UNCHANGED <<setting, head, real, dbVars, call, crashes, reused>>

-----------------------------------------------------------------------------
(* continueRebase, abortConflictedRebase, clearConflict, recoverOrphaned-   *)
(* Conflicts                                                                *)

\* the parent's head when the record is gone
TargetOf(c) == IF c # None /\ rec[c].status \notin {"none", "deleted"} THEN rec[c].target ELSE head

\* isRebaseInProgress looks under cwd/git-dir, and the git-dir of a linked worktree
\* is an absolute path
RebaseSeen(p) == Rebasing(p) /\ p = Main

ContinueRebase(p, s) ==
  /\ Free(p) /\ MayManage(p, s)
  /\ status[s] = "conflicted"
  /\ \/ /\ ~ RebaseSeen(p)                      \* "conflict state was stale"
        /\ Begin(p, s, cid[s], 0, <<"abandon", "clear">>)
        /\ UNCHANGED <<real, wt>>
     \/ /\ RebaseSeen(p) /\ ~ wt[p].files
        /\ real' = [real EXCEPT ![wt[p].stream] = wt[p].onto]
        /\ wt' = [wt EXCEPT ![p] = NoRebase]
        /\ Begin(p, s, cid[s], TargetOf(cid[s]), <<"resolve", "clear", "update_base">>)
     \/ /\ RebaseSeen(p) /\ ~ wt[p].files       \* the next commit conflicts
        /\ wt' = [wt EXCEPT ![p].files = TRUE]
        /\ UNCHANGED <<setting, real, call>>
  /\ UNCHANGED <<setting, head, dbVars, crashes, reused>>

AbortConflictedRebase(p, s) ==
  /\ Free(p) /\ MayManage(p, s)
  /\ Begin(p, s, cid[s], 0, <<"abort_seen", "abandon", "clear">>)
  /\ UNCHANGED <<setting, dbVars, gitVars, crashes, reused>>

\* mutant: the stream stays as it is
ClearRecordOnly(p, s) ==
  /\ Free(p) /\ MayManage(p, s)
  /\ Begin(p, s, cid[s], 0, <<"delete">>)
  /\ UNCHANGED <<setting, dbVars, gitVars, crashes, reused>>
\* with the worktree or without it
ClearConflict(p, s) ==
  /\ Free(p) /\ MayManage(p, s)
  /\ \/ Begin(p, s, cid[s], 0, <<"abort_seen", "delete", "clear">>)
     \/ /\ NotRebasing(s)
        /\ Begin(p, s, cid[s], 0, <<"delete", "clear">>)
  /\ UNCHANGED <<setting, dbVars, gitVars, crashes, reused>>

\* mutant: the conflicts nobody has begun to resolve
RecoverPending(p, c) ==
  /\ Free(p)
  /\ rec[c].status = "pending"
  /\ Begin(p, rec[c].stream, c, 0, <<"abandon", "recover_clear">>)
  /\ UNCHANGED <<setting, dbVars, gitVars, crashes, reused>>
\* one round of its loop; a conflict an hour old has no handler any more when handlers
\* are given less (DEFAULT_CONFLICT_TIMEOUT)
RecoverOrphanedConflicts(p, c) ==
  /\ Free(p)
  /\ rec[c].status = "in_progress"
  /\ \A q \in Procs : Awaiting(q) => call[q].conflict # c
  /\ Begin(p, rec[c].stream, c, 0, <<"abandon", "recover_clear">>)
  /\ UNCHANGED <<setting, dbVars, gitVars, crashes, reused>>

-----------------------------------------------------------------------------
(* The statements *)

\* after a failed rebase with "abort", "ours" or "theirs" the target is read again
CreateConflict(p) ==
  /\ Does(p, "create") \/ Does(p, "create_late")
  /\ \E c \in setting.conflicts :
       /\ rec[c] = Unused
       /\ rec' = [rec EXCEPT ![c] =
            [status |-> "pending", stream |-> call[p].stream,
             target |-> IF Does(p, "create") THEN call[p].target ELSE head]]
       /\ call' = [call EXCEPT ![p].todo = Tail(@), ![p].conflict = c]
  /\ UNCHANGED <<setting, base, status, cid, gitVars, crashes, reused>>

SetStreamConflicted(p) ==
  /\ Does(p, "set_conflicted")
  /\ status' = [status EXCEPT ![call[p].stream] = "conflicted"]
  /\ cid' = [cid EXCEPT ![call[p].stream] = call[p].conflict]
  /\ Done(p)
  /\ UNCHANGED <<setting, base, rec, gitVars, crashes, reused>>

\* the UPDATEs of a conflict find no row if it was deleted or there is none
SetRecord(c, st) ==
  rec' = IF c = None \/ rec[c].status \in {"none", "deleted"} THEN rec
         ELSE [rec EXCEPT ![c].status = st]

UpdateConflict(p) ==
  /\ \/ Does(p, "start") /\ SetRecord(call[p].conflict, "in_progress")
     \/ Does(p, "abandon") /\ SetRecord(call[p].conflict, "abandoned")
     \/ Does(p, "resolve") /\ SetRecord(call[p].conflict, "resolved")
     \/ Does(p, "delete") /\ SetRecord(call[p].conflict, "deleted")
  /\ Done(p)
  /\ UNCHANGED <<setting, base, status, cid, gitVars, crashes, reused>>

RebaseAbort(p) ==
  /\ \/ /\ Does(p, "abort") \/ (Does(p, "abort_seen") /\ RebaseSeen(p))
        /\ wt' = [wt EXCEPT ![p] = NoRebase]
     \/ Does(p, "abort_seen") /\ ~ RebaseSeen(p) /\ UNCHANGED wt
  /\ Done(p)
  /\ UNCHANGED <<setting, head, real, dbVars, crashes, reused>>

\* mutant: the conflict of the stream is not compared
OwnsAny(p) == TRUE
\* recoverOrphanedConflicts clears only what its conflict has set
Owns(p) == Does(p, "recover_clear") => cid[call[p].stream] = call[p].conflict

ClearStreamConflicted(p) ==
  LET s == call[p].stream  clears == status[s] = "conflicted" /\ Owns(p) IN
  /\ Does(p, "clear") \/ Does(p, "recover_clear")
  /\ status' = IF clears THEN [status EXCEPT ![s] = "active"] ELSE status
  /\ cid' = IF clears THEN [cid EXCEPT ![s] = None] ELSE cid
  /\ Done(p)
  /\ UNCHANGED <<setting, base, rec, gitVars, crashes, reused>>

\* mutant: the base is left as it was
KeepBaseCommit(p) == Does(p, "update_base") /\ Done(p) /\ UNCHANGED <<setting, dbVars, gitVars, crashes, reused>>
UpdateBaseCommit(p) ==
  /\ Does(p, "update_base")
  /\ base' = [base EXCEPT ![call[p].stream] = call[p].target]
  /\ Done(p)
  /\ UNCHANGED <<setting, status, cid, rec, gitVars, crashes, reused>>

\* the checkout before it throws where git refuses it
ResetHard(p) ==
  /\ Does(p, "reset")
  /\ \/ /\ CanCheckout(p, call[p].stream)
        /\ real' = [real EXCEPT ![call[p].stream] = call[p].target]
        /\ wt' = CheckedOut(p, call[p].target)
     \/ /\ Rebasing(p)
        /\ UNCHANGED <<real, wt>>
  /\ Done(p)
  /\ UNCHANGED <<setting, head, dbVars, crashes, reused>>

-----------------------------------------------------------------------------
(* Everything else *)

Quiet == \A p \in Procs : Idle(p) \/ Awaiting(p)

PauseStream(s) == status[s] = "active" /\ status' = [status EXCEPT ![s] = "paused"]
ResumeStream(s) == status[s] = "paused" /\ status' = [status EXCEPT ![s] = "active"]
AbandonStream(s) ==
  /\ status[s] # "abandoned"
  /\ NotRebasing(s) /\ \A p \in Procs : Awaiting(p) => call[p].stream # s
  /\ status' = [status EXCEPT ![s] = "abandoned"]

ChangeStatus(s) ==
  /\ Quiet
  /\ PauseStream(s) \/ ResumeStream(s) \/ AbandonStream(s)
  /\ UNCHANGED <<setting, base, cid, rec, gitVars, call, crashes, reused>>

\* the target moves on
Advance ==
  /\ head < setting.versions
  /\ Quiet
  /\ head' = head + 1
  /\ UNCHANGED <<setting, real, wt, dbVars, call, crashes, reused>>

\* a process dies between two statements or while a handler works
Crash(p) ==
  /\ ~ Idle(p)
  /\ crashes < setting.crashes
  /\ crashes' = crashes + 1
  /\ call' = [call EXCEPT ![p] = NoCall]
  /\ UNCHANGED <<setting, dbVars, gitVars, reused>>

Statement(p) ==
  \/ CreateConflict(p) \/ SetStreamConflicted(p) \/ UpdateConflict(p)
  \/ RebaseAbort(p) \/ ClearStreamConflicted(p) \/ UpdateBaseCommit(p) \/ ResetHard(p)

Call(p) ==
  \/ \E s \in setting.streams :
       \/ \E x \in {"abort", "manual", "ours", "agent", "async"} : RebaseOntoStream(p, s, x)
       \/ ContinueRebase(p, s) \/ AbortConflictedRebase(p, s) \/ ClearConflict(p, s)
  \/ \E c \in Conflicts : RecoverOrphanedConflicts(p, c)

Next ==
  \/ \E p \in Procs : Call(p) \/ Statement(p) \/ HandlerFails(p) \/ HandlerSucceeds(p)
  \/ \E p \in Procs : ResolveFiles(p) \/ Crash(p)
  \/ \E s \in setting.streams : ChangeStatus(s)
  \/ Advance

Spec == Init /\ [][Next]_vars

(* Statements are executed, timers go off (withTimeout), and recovery runs   *)
(* whenever a tracker is opened (recovery.startupRecovery).  A handler need  *)
(* never answer.                                                             *)
FairSpec ==
  /\ Spec
  /\ \A p \in Procs : WF_vars(Statement(p)) /\ SF_vars(HandlerFails(p))
  /\ \A c \in Conflicts : SF_vars(\E p \in Procs : RecoverOrphanedConflicts(p, c))

-----------------------------------------------------------------------------
\* The premise of what follows: no call was cut short, and nobody called rebaseOntoStream
\* in a worktree where another rebase had been left behind.
Careful == crashes = 0 /\ ~ reused

\* base_commit is what the branch is based on whenever no call holds the thread,
\* whatever others did while a handler was working: the next rebase replays the
\* commits beyond base_commit and no others.  This is so for careful callers only: a
\* crash between git and the database leaves them apart, and so does a rebase called over
\* one left behind, which finishes the old one and records the new target.
BaseCommitTrue == Quiet /\ Careful => base = real

\* For careful callers, a conflict is marked resolved by a finished rebase only if the
\* branch of its stream now is based on the conflict's target.
ResolvedWasRebased ==
  Careful => \A p \in Procs : ~ Idle(p) /\ Head(call[p].todo) = "resolve" =>
    real[call[p].stream] = call[p].target

\* For careful callers, a conflicted stream names a conflict of its own there is a record
\* of, and that was not resolved: continueRebase and abortConflictedRebase have
\* something to work with.  The record may be abandoned: where a handler has left files
\* unresolved, the conflict is abandoned and the stream stays conflicted.
ConflictedHasRecord ==
  Quiet /\ Careful => \A s \in Streams : status[s] = "conflicted" =>
    /\ cid[s] # None /\ rec[cid[s]].stream = s
    /\ rec[cid[s]].status \in {"pending", "in_progress", "abandoned"}

\* Between calls a conflicted stream has a record to work with, and a resolution is real.
ConflictInv == TypeOK /\ ConflictedHasRecord /\ ResolvedWasRebased

\* "conflicted -> [resolve] -> active": whatever takes a stream out of its conflict,
\* the record of that conflict is not left open.
ClearedIsOver ==
  [][\A s \in Streams : status[s] = "conflicted" /\ status'[s] = "active" =>
       rec[cid[s]].status \notin {"pending", "in_progress"}]_vars

\* A conflict whose agent died in the middle of the resolution is abandoned.
OrphanRecovered == \A c \in Conflicts : rec[c].status = "in_progress" ~> rec[c].status # "in_progress"

=============================================================================
