----------------------------- MODULE DiffStacks -----------------------------
(***************************************************************************)
(* The diff stacks of src/src/diff-stacks.ts that merge into one target:   *)
(* their review, their place in the merge queue, their checkpoints, and    *)
(* the cherry-pick of an approved stack to the target.                     *)
(*                                                                         *)
(* A call reads what it needs, and is then a list of statements (todo)     *)
(* that are executed one by one: nothing here is a transaction.  Where the *)
(* stacks are built, calls of other processes run between the statements.  *)
(* No call that edits a stack looks at its review status, at what it       *)
(* contains already or at how long it is.                                  *)
(***************************************************************************)
EXTENDS Naturals, Sequences, FiniteSets

CONSTANTS
  Stacks, Checkpoints,   \* ids
  Procs,
  None,                  \* no stack, no checkpoint
  Null,                  \* no position
  Settings               \* the settings explored

Statuses == {"pending", "approved", "rejected", "merged", "abandoned"}

Setting == [stacks : SUBSET Stacks, checkpoints : SUBSET Checkpoints, procs : SUBSET Procs,
            editors : SUBSET Procs,   \* bound: who changes what stacks contain
            statuses : SUBSET Statuses,   \* bound: what setStackReviewStatus sets by hand
            positions : Nat,    \* bound: queue positions are below it
            built : BOOLEAN,    \* whether the stacks exist and have their first content;
                                \* then calls overlap
            crashes : Nat]      \* bound: calls cut short

ASSUME StacksAssumption ==
  /\ None \notin Stacks \cup Checkpoints
  /\ Null \notin Nat
  /\ IsFiniteSet(Stacks) /\ IsFiniteSet(Checkpoints)
  /\ Settings \subseteq Setting

VARIABLES
  setting,
  review,    \* diff_stacks.review_status; "none" without a row
  queue,     \* diff_stacks.queue_position
  place,     \* diff_stack_entries.position of each checkpoint in each stack
  exists,    \* the checkpoints table
  landed,    \* the checkpoints whose commits the target has
  picked,    \* a ghost: the list cherryPickStackToTarget marked each stack merged by
  call,      \* the statements each process still has to execute
  crashes

vars == <<setting, review, queue, place, exists, landed, picked, call, crashes>>
rest == <<setting, crashes>>

MaxPlace == Cardinality(setting.checkpoints) + 1   \* bound: positions in a stack
Rows == {k \in Stacks : review[k] # "none"}
Queued == {k \in Stacks : queue[k] # Null}
Content(k) == {c \in Checkpoints : place[k][c] # Null}

Statement(op, k, c, x) == [op |-> op, stack |-> k, checkpoint |-> c, value |-> x]

TypeOK ==
  /\ review \in [Stacks -> Statuses \cup {"none"}]
  /\ queue \in [Stacks -> Nat \cup {Null}]
  /\ place \in [Stacks -> [Checkpoints -> Nat \cup {Null}]]
  /\ \A k \in Stacks \ Rows : queue[k] = Null /\ Content(k) = {}
  /\ exists \subseteq Checkpoints /\ landed \subseteq Checkpoints
  /\ picked \in [Stacks -> SUBSET Checkpoints]
  /\ \A p \in Procs : \A i \in DOMAIN call[p] :
       /\ call[p][i].stack \in Stacks \cup {None}
       /\ call[p][i].checkpoint \in Checkpoints \cup {None}

Init ==
  /\ setting \in Settings
  /\ queue = [k \in Stacks |-> Null]
  /\ IF setting.built
     THEN /\ review = [k \in Stacks |-> IF k \in setting.stacks THEN "pending" ELSE "none"]
          /\ exists = setting.checkpoints
          /\ place \in [Stacks -> [Checkpoints -> 0 .. 1 \cup {Null}]]
          /\ \A k \in Stacks :
               IF k \in setting.stacks
               THEN /\ Content(k) = setting.checkpoints
                    /\ {place[k][c] : c \in Content(k)} = {0, 1}
               ELSE Content(k) = {}
     ELSE /\ review = [k \in Stacks |-> "none"]
          /\ exists = {}
          /\ place = [k \in Stacks |-> [c \in Checkpoints |-> Null]]
  /\ landed = {}
  /\ picked = [k \in Stacks |-> {}]
  /\ call = [p \in Procs |-> <<>>]
  /\ crashes = 0

-----------------------------------------------------------------------------
(* Scheduling *)

MayRun(p) == setting.built \/ \A q \in Procs \ {p} : call[q] = <<>>
Free(p) == call[p] = <<>> /\ MayRun(p)
Begin(p, todo) == call' = [call EXCEPT ![p] = todo]
Does(p, op) == MayRun(p) /\ call[p] # <<>> /\ Head(call[p]).op = op
Done(p) == call' = [call EXCEPT ![p] = Tail(@)]
Throw(p) == call' = [call EXCEPT ![p] = <<>>]
Quiet == \A p \in Procs : call[p] = <<>>

Unchanged == UNCHANGED <<rest, review, queue, place, exists, landed, picked>>

-----------------------------------------------------------------------------
(* Review *)

ValidTransitions ==
  [pending |-> {"approved", "rejected", "abandoned"},
   approved |-> {"merged", "rejected", "pending", "abandoned"},
   rejected |-> {"pending", "abandoned"},
   merged |-> {},
   abandoned |-> {"pending"}]

IsValidStatusTransition(from, to) == from = to \/ to \in ValidTransitions[from]

SetStackReviewStatus(p, k, st) ==
  /\ Free(p) /\ k \in Rows
  /\ IsValidStatusTransition(review[k], st)
  /\ Begin(p, <<Statement("review", k, None, st)>>)
  /\ Unchanged

WriteReview(p) ==
  /\ Does(p, "review")
  /\ LET x == Head(call[p]) IN
       review' = IF x.stack \in Rows THEN [review EXCEPT ![x.stack] = x.value] ELSE review
  /\ Done(p)
  /\ UNCHANGED <<rest, queue, place, exists, landed, picked>>

-----------------------------------------------------------------------------
(* The queue *)

\* setStackQueuePosition: make room, then take the place
TakePosition(k, n) == <<Statement("shift", k, None, n), Statement("set", k, None, n)>>

SetStackQueuePosition(p, k, n) ==
  /\ Free(p) /\ k \in Rows
  /\ n < setting.positions
  /\ Begin(p, TakePosition(k, n))
  /\ Unchanged

LeaveQueue(p, k) ==
  /\ Free(p) /\ k \in Rows
  /\ Begin(p, <<Statement("set", k, None, Null)>>)
  /\ Unchanged

NextPosition ==
  IF Queued = {} THEN 0
  ELSE 1 + CHOOSE n \in {queue[k] : k \in Queued} : \A k \in Queued : queue[k] <= n

EnqueueStack(p, k) ==
  /\ Free(p)
  /\ review[k] = "approved"
  /\ NextPosition < setting.positions
  /\ Begin(p, TakePosition(k, NextPosition))
  /\ Unchanged

DequeueStack(p, k) ==
  /\ Free(p) /\ k \in Queued
  /\ Begin(p, <<Statement("set", k, None, Null), Statement("compact", k, None, queue[k])>>)
  /\ Unchanged

\* Lists that name all of S and nothing else: sets are compared, so an id may come
\* twice.  Bound: one id does, once.
Naming(S) == {order \in UNION {[1 .. n -> S] : n \in 0 .. Cardinality(S) + 1} :
                {order[i] : i \in DOMAIN order} = S}

ReorderQueue(p) ==
  /\ Free(p) /\ Queued # {}
  /\ \E order \in Naming(Queued) :
       Begin(p, [i \in DOMAIN order |-> Statement("set", order[i], None, i - 1)])
  /\ Unchanged

\* mutant: the one in the place stays
ShiftAfter(n) == [k \in Stacks |-> IF k \in Queued /\ queue[k] > n THEN queue[k] + 1 ELSE queue[k]]
Shift(n) == [k \in Stacks |-> IF k \in Queued /\ queue[k] >= n THEN queue[k] + 1 ELSE queue[k]]

\* mutant: all move up
CompactAll(n) == [k \in Stacks |-> IF k \in Queued /\ queue[k] > 0 THEN queue[k] - 1 ELSE queue[k]]
Compact(n) == [k \in Stacks |-> IF k \in Queued /\ queue[k] > n THEN queue[k] - 1 ELSE queue[k]]

WriteQueue(p) ==
  LET x == Head(call[p]) IN
  /\ \/ /\ Does(p, "shift")
        /\ \A k \in Queued : queue[k] < setting.positions
        /\ queue' = Shift(x.value)
     \/ /\ Does(p, "set")
        /\ queue' = IF x.stack \in Rows THEN [queue EXCEPT ![x.stack] = x.value] ELSE queue
     \/ /\ Does(p, "compact")
        /\ queue' = Compact(x.value)
  /\ Done(p)
  /\ UNCHANGED <<rest, review, place, exists, landed, picked>>

-----------------------------------------------------------------------------
(* The checkpoints of a stack *)

\* reused when there is one for the commit (createCheckpointsFromStream)
CreateCheckpoint(c) == exists' = exists \cup {c} /\ UNCHANGED <<rest, review, queue, place, landed, picked, call>>

InsertAt(k, c, n) == <<Statement("room", k, c, n), Statement("insert", k, c, n)>>

\* createDiffStack and createStackFromStream: the stack, then its checkpoints
CreateDiffStack(p, k, order) ==
  /\ Free(p)
  /\ review[k] = "none"
  /\ review' = [review EXCEPT ![k] = "pending"]
  /\ Begin(p, IF Len(order) = 0 THEN <<>> ELSE
              IF Len(order) = 1 THEN InsertAt(k, order[1], 0)
              ELSE InsertAt(k, order[1], 0) \o InsertAt(k, order[2], 1))
  /\ UNCHANGED <<rest, queue, place, exists, landed, picked>>

EndOfStack(k) ==
  IF Content(k) = {} THEN 0
  ELSE 1 + CHOOSE n \in {place[k][c] : c \in Content(k)} : \A c \in Content(k) : place[k][c] <= n

AddCheckpointToStack(p, k, c) ==
  /\ Free(p) /\ k \in Rows /\ c \in exists
  /\ \/ EndOfStack(k) <= MaxPlace /\ Begin(p, <<Statement("insert", k, c, EndOfStack(k))>>)
     \/ \E n \in 0 .. MaxPlace : Begin(p, InsertAt(k, c, n))
  /\ Unchanged

RemoveCheckpointFromStack(p, k, c) ==
  /\ Free(p) /\ c \in Content(k)
  /\ Begin(p, <<Statement("delete", k, c, Null), Statement("close", k, c, place[k][c])>>)
  /\ Unchanged

ReorderStackCheckpoints(p, k) ==
  /\ Free(p) /\ Content(k) # {}
  /\ \E order \in Naming(Content(k)) :
       Begin(p, [i \in DOMAIN order |-> Statement("move", k, order[i], i - 1)])
  /\ Unchanged

Moved(k, test(_), d) ==
  [place EXCEPT ![k] = [c \in Checkpoints |->
     IF c \in Content(k) /\ test(place[k][c]) THEN place[k][c] + d ELSE place[k][c]]]

Room(x) == LET FromHere(n) == n >= x.value IN Moved(x.stack, FromHere, 1)

\* the rows the check and the shift find; a checkpoint that is not there is an error
MakeRoom(p) ==
  LET x == Head(call[p]) IN
  /\ Does(p, "room")
  /\ IF x.checkpoint \in exists /\ x.stack \in Rows
     THEN /\ \A c \in Content(x.stack) : place[x.stack][c] < MaxPlace
          /\ place' = Room(x) /\ Done(p)
     ELSE UNCHANGED place /\ Throw(p)
  /\ UNCHANGED <<rest, review, queue, exists, landed, picked>>

\* UNIQUE(stack_id, checkpoint_id) and the foreign keys
InsertEntry(p) ==
  LET x == Head(call[p]) IN
  /\ Does(p, "insert")
  /\ IF x.checkpoint \in exists /\ x.stack \in Rows /\ x.checkpoint \notin Content(x.stack)
     THEN place' = [place EXCEPT ![x.stack][x.checkpoint] = x.value] /\ Done(p)
     ELSE UNCHANGED place /\ Throw(p)
  /\ UNCHANGED <<rest, review, queue, exists, landed, picked>>

Close(x) ==
  [place EXCEPT ![x.stack] = [c \in Checkpoints |->
     IF c \in Content(x.stack) /\ place[x.stack][c] > x.value
     THEN place[x.stack][c] - 1 ELSE place[x.stack][c]]]

WriteEntries(p) ==
  LET x == Head(call[p]) IN
  /\ \/ Does(p, "delete") /\ place' = [place EXCEPT ![x.stack][x.checkpoint] = Null]
     \/ Does(p, "close") /\ place' = Close(x)
     \/ /\ Does(p, "move")
        /\ place' = IF x.checkpoint \in Content(x.stack)
                    THEN [place EXCEPT ![x.stack][x.checkpoint] = x.value] ELSE place
  /\ Done(p)
  /\ UNCHANGED <<rest, review, queue, exists, landed, picked>>

-----------------------------------------------------------------------------
(* Deletion; entries go with their stack (ON DELETE CASCADE) *)

Delete(ks) ==
  /\ review' = [k \in Stacks |-> IF k \in ks THEN "none" ELSE review[k]]
  /\ queue' = [k \in Stacks |-> IF k \in ks THEN Null ELSE queue[k]]
  /\ place' = [k \in Stacks |-> IF k \in ks THEN [c \in Checkpoints |-> Null] ELSE place[k]]
  /\ UNCHANGED <<rest, exists, landed, picked, call>>

DeleteDiffStack(k) == k \in Rows /\ Delete({k})
DeleteStacksByStatus(st) ==
  LET ks == {k \in Stacks : review[k] = st} IN ks # {} /\ Delete(ks)

\* the foreign key of the entries does not cascade here: with an entry it throws
\* (deleteCheckpoint: one; deleteCheckpointsForStream: all of a stream, or none)
DeleteCheckpoints(cs) ==
  /\ \A k \in Stacks : cs \cap Content(k) = {}
  /\ exists' = exists \ cs
  /\ UNCHANGED <<rest, review, queue, place, landed, picked, call>>

-----------------------------------------------------------------------------
(* cherryPickStackToTarget *)

\* one worktree at a time has the target checked out
Picking(p) == \E i \in DOMAIN call[p] : call[p][i].op = "pick"

\* mutant: the last one is taken for the end
PicksButLast(k, order) == [i \in 1 .. Len(order) - 1 |-> Statement("pick", k, order[i], Null)]
Picks(k, order) == [i \in DOMAIN order |-> Statement("pick", k, order[i], Null)]

InPlace(k, order) ==
  /\ {order[i] : i \in DOMAIN order} = Content(k)
  /\ \A i, j \in DOMAIN order : i < j => place[k][order[i]] <= place[k][order[j]]

CherryPickStackToTarget(p, k) ==
  /\ Free(p)
  /\ review[k] = "approved"
  /\ \A q \in Procs : ~ Picking(q)
  /\ \E order \in [1 .. Cardinality(Content(k)) -> Content(k)] :
       /\ InPlace(k, order)
       /\ Begin(p, Picks(k, order) \o <<Statement("merged", k, None, Content(k))>>)
  /\ Unchanged

\* on a conflict the cherry-pick is aborted, and what was picked before stays
Pick(p) ==
  /\ Does(p, "pick")
  /\ \/ landed' = landed \cup {Head(call[p]).checkpoint} /\ Done(p)
     \/ Throw(p) /\ UNCHANGED landed
  /\ UNCHANGED <<rest, review, queue, place, exists, picked>>

\* setStackReviewStatus again: the status may have changed since
MarkMerged(p) ==
  LET k == Head(call[p]).stack IN
  /\ Does(p, "merged")
  /\ IF k \in Rows /\ IsValidStatusTransition(review[k], "merged")
     THEN /\ review' = [review EXCEPT ![k] = "merged"]
          /\ picked' = [picked EXCEPT ![k] = Head(call[p]).value]
     ELSE UNCHANGED <<review, picked>>
  /\ Done(p)
  /\ UNCHANGED <<rest, queue, place, exists, landed>>

-----------------------------------------------------------------------------
\* the calls that change what a stack contains
BuildCall(p) ==
  \E k \in setting.stacks :
    \/ \E order \in UNION {[1 .. n -> exists] : n \in 0 .. 2} : CreateDiffStack(p, k, order)
    \/ \E c \in exists : AddCheckpointToStack(p, k, c) \/ RemoveCheckpointFromStack(p, k, c)
    \/ ReorderStackCheckpoints(p, k)

Call(p) ==
  \/ \E k \in setting.stacks :
       \/ \E st \in setting.statuses : SetStackReviewStatus(p, k, st)
       \/ \E n \in 0 .. setting.positions : SetStackQueuePosition(p, k, n)
       \/ LeaveQueue(p, k) \/ EnqueueStack(p, k) \/ DequeueStack(p, k)
       \/ CherryPickStackToTarget(p, k)
  \/ ReorderQueue(p)
  \/ p \in setting.editors /\ BuildCall(p)

Step(p) ==
  \/ WriteReview(p) \/ WriteQueue(p) \/ MakeRoom(p) \/ InsertEntry(p) \/ WriteEntries(p)
  \/ Pick(p) \/ MarkMerged(p)

\* calls of one statement
Single ==
  /\ setting.built \/ Quiet
  /\ \/ \E k \in Stacks : DeleteDiffStack(k)
     \/ \E st \in Statuses : DeleteStacksByStatus(st)
     \/ \E c \in setting.checkpoints : CreateCheckpoint(c)
     \/ \E cs \in (SUBSET exists) \ {{}} : DeleteCheckpoints(cs)

\* the process dies between two statements
Crash(p) ==
  /\ call[p] # <<>> /\ crashes < setting.crashes
  /\ crashes' = crashes + 1
  /\ Throw(p)
  /\ UNCHANGED <<setting, review, queue, place, exists, landed, picked>>

Next == (\E p \in setting.procs : Call(p) \/ Step(p) \/ Crash(p)) \/ Single

Spec == Init /\ [][Next]_vars

-----------------------------------------------------------------------------
\* one call at a time edits stacks and queue, and none has been cut short
Unbroken == ~ setting.built /\ crashes = 0

\* "Queue position determines merge order": no two stacks have the same one.
QueueDistinct == Unbroken /\ Quiet => \A j, k \in Queued : queue[j] = queue[k] => j = k

\* Nobody but reorderQueue changes the order of two stacks that are both not the one
\* the call is about.
OrderKept ==
  [][Unbroken => \A p \in Procs, j, k \in Queued :
       /\ call[p] # <<>> /\ call'[p] # call[p]
       /\ Head(call[p]).stack \notin {j, k}
       /\ queue'[j] # Null /\ queue'[k] # Null
       => (queue[j] < queue[k] <=> queue'[j] < queue'[k])]_vars

\* No two checkpoints of a stack have the same place, whatever was added (twice, or beyond
\* the end), removed and reordered (by a list with an id twice): the order in which
\* cherryPickStackToTarget picks them is determined.
PlacesDistinct ==
  Unbroken /\ Quiet =>
    \A k \in Stacks : \A c, d \in Content(k) : place[k][c] = place[k][d] => c = d

\* Positions in the queue and places in a stack are an order.
OrderInv == TypeOK /\ QueueDistinct /\ PlacesDistinct

\* When cherryPickStackToTarget has marked a stack merged, every checkpoint the stack had
\* when the call read it is on the target, and stays there, whatever other calls have
\* made of the stack and of its status since.  What is added between the read and the
\* mark, or to a merged stack, is not meant: nothing brings it to the target.
MergedHasLanded == \A k \in Stacks : picked[k] \subseteq landed

=============================================================================
