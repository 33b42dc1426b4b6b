---------------------------- MODULE ReviewStacks ----------------------------
(***************************************************************************)
(* One stack of review blocks of one stream: src/src/stacks.ts, and the    *)
(* rebases of src/src/streams.ts that rebuild it.                          *)
(*                                                                         *)
(* A call reads what it needs, and then writes in one transaction.  One    *)
(* process at a time builds the stack; others may commit, set statuses and *)
(* delete blocks in between.  A commit is its patch-id and the number of   *)
(* rebases it went through: a rebase replaces every commit by one with the *)
(* same patch, and may drop some.                                          *)
(***************************************************************************)
EXTENDS Naturals, FiniteSets

CONSTANTS
  Patches,       \* patch-ids, numbered in the order of the stream
  Blocks,        \* review block ids, numbered
  Procs,
  None,
  MaxGen,        \* bound: rebases
  Settings       \* the settings explored

Setting == [patches : SUBSET Patches, procs : SUBSET Procs,
            statuses : {S \in SUBSET {"draft", "review", "approved", "merged"} : "draft" \in S},
            rebases : 0 .. MaxGen, \* bound
            positions : Nat,       \* bound: block positions are at most this
            drops : BOOLEAN,       \* whether a rebase drops or squashes commits
            repeats : BOOLEAN,     \* whether a merge names a block twice
            reviewed : BOOLEAN]    \* whether others commit, review and delete during a call

ASSUME ReviewStacksAssumption ==
  /\ Patches \subseteq Nat /\ IsFiniteSet(Patches)
  /\ Blocks \subseteq Nat \ {0} /\ IsFiniteSet(Blocks)
  /\ MaxGen \in Nat
  /\ None \notin Blocks
  /\ Settings \subseteq Setting

VARIABLES
  setting,
  branch,    \* patches of baseCommit..stream/<id>
  gen,       \* rebases so far: the stream's commits are <<p, gen>>
  block,     \* review_blocks
  entry,     \* stack_entries, by original_commit
  call       \* what each process has read, and will write

vars == <<setting, branch, gen, block, entry, call>>

Commits == Patches \X (0 .. MaxGen)
NoBlock == [position |-> 0, status |-> "none"]
NoEntry == [block |-> None, position |-> 0, gen |-> 0]
NoCall == [op |-> "none", block |-> None]

Rows == {b \in Blocks : block[b] # NoBlock}
Entries == {e \in Commits : entry[e] # NoEntry}
Of(b) == {e \in Entries : entry[e].block = b}

\* ORDER BY position; what SQLite leaves open is decided by the ids
BlockBefore(b, c) ==
  \/ block[b].position < block[c].position
  \/ block[b].position = block[c].position /\ b < c
Before(f, e) ==
  LET x == entry[f]  y == entry[e] IN
  \/ BlockBefore(x.block, y.block)
  \/ x.block = y.block /\ x.position < y.position
  \/ x.block = y.block /\ x.position = y.position /\ (f[1] < e[1] \/ (f[1] = e[1] /\ f[2] < e[2]))
PlaceIn(e, S) == Cardinality({f \in S : Before(f, e)})

Hash(e) == <<e[1], entry[e].gen>>           \* commit_hash: the patch stays the same
Tracked == {Hash(e) : e \in Entries}
Current == {<<p, gen>> : p \in branch}

Least(S) == CHOOSE x \in S : \A y \in S : x <= y
Greatest(S) == CHOOSE x \in S : \A y \in S : y <= x
Rank(x, S) == Cardinality({y \in S : y < x})
After(S) == IF S = {} THEN 0 ELSE 1 + Greatest(S)     \* COALESCE(MAX, -1) + 1

TypeOK ==
  /\ branch \subseteq setting.patches /\ gen \in 0 .. setting.rebases
  /\ block \in [Blocks -> [position : 0 .. setting.positions, status : setting.statuses] \cup {NoBlock}]
  /\ \A e \in Entries :
       /\ entry[e].block \in Rows              \* the foreign key
       /\ entry[e].gen \in e[2] .. gen
       /\ entry[e].position \in Nat

Init ==
  /\ setting \in Settings
  /\ branch = {} /\ gen = 0
  /\ block = [b \in Blocks |-> NoBlock]
  /\ entry = [e \in Commits |-> NoEntry]
  /\ call = [p \in Procs |-> NoCall]

-----------------------------------------------------------------------------
Quiet == \A p \in Procs : call[p] = NoCall
\* those who do not build
MayReview == setting.reviewed \/ Quiet
Free(p) ==
  /\ call[p] = NoCall
  /\ \A q \in Procs : call[q].op \in {"none", "status"}
  /\ MayReview
Begin(p, c) == call' = [call EXCEPT ![p] = c] /\ UNCHANGED <<setting, branch, gen, block, entry>>
Ends(p, op) ==
  /\ call[p].op = op
  /\ call' = [call EXCEPT ![p] = NoCall]
  /\ UNCHANGED <<setting, branch, gen>>

\* Random ids: none that a call still knows.  The smallest will do.
FreeIds == {b \in Blocks \ Rows : \A p \in Procs : call[p].block # b}
Unassigned(n) == CHOOSE S \in SUBSET FreeIds :
                   Cardinality(S) = n /\ \A b \in S, c \in FreeIds \ S : b < c

\* ON DELETE CASCADE
Without(bs) ==
  /\ block' = [b \in Blocks |-> IF b \in bs THEN NoBlock ELSE block[b]]
  /\ entry' = [e \in Commits |-> IF entry[e].block \in bs THEN NoEntry ELSE entry[e]]

\* The entries of the commits cs in the block b, from position n.
Inserted(b, cs, n) ==
  [e \in Commits |->
     IF e \in cs THEN [block |-> b, position |-> n + Rank(e[1], {c[1] : c \in cs}), gen |-> e[2]]
     ELSE entry[e]]

-----------------------------------------------------------------------------
(* The stream *)

Commit(p) ==
  /\ MayReview
  /\ p \notin branch
  /\ branch' = branch \cup {p}
  /\ UNCHANGED <<setting, gen, block, entry, call>>

\* mutant: the commits are read before the rebase
RebuildCallEarly(commits) ==
  [op |-> "rebuild", block |-> None, commits |-> Current, seen |-> [b \in Rows |-> Of(b)]]
RebuildCall(commits) ==
  [op |-> "rebuild", block |-> None, commits |-> commits, seen |-> [b \in Rows |-> Of(b)]]

\* A rebase of streams.ts: the branch, and then rebuildStack for the default stack.
\* A commit that is dropped is in the target, was squashed, or has another patch now.
RebaseOntoStream(p) ==
  /\ Free(p)
  /\ gen < setting.rebases
  /\ \E kept \in IF setting.drops THEN SUBSET branch ELSE {branch} :
       /\ branch' = kept
       /\ call' = [call EXCEPT ![p] = RebuildCall({<<q, gen + 1>> : q \in kept})]
  /\ gen' = gen + 1
  /\ UNCHANGED <<setting, block, entry>>

-----------------------------------------------------------------------------
(* Blocks *)

\* mutant: blocks are counted
PositionByCount == Cardinality(Rows)
NextPosition == After({block[b].position : b \in Rows})

\* commits of the stream that the caller finds in no block
Untracked == Current \ Tracked

\* bound: an entry is named by its original commit
OneEntryEach(cs) == cs \cap Entries = {}

CreateReviewBlock(p, cs) ==
  /\ Free(p)
  /\ cs # {}
  /\ NextPosition <= setting.positions
  /\ Begin(p, [op |-> "create", block |-> None, commits |-> cs, position |-> NextPosition])

InsertBlock(p) ==
  /\ Ends(p, "create")
  /\ FreeIds # {} /\ OneEntryEach(call[p].commits)
  /\ LET b == Least(FreeIds) IN
       /\ block' = [block EXCEPT ![b] = [position |-> call[p].position, status |-> "draft"]]
       /\ entry' = Inserted(b, call[p].commits, 0)

MayModify(b) == b \in Rows /\ block[b].status # "merged"

SetReviewStatus(p, b, st) ==
  /\ call[p] = NoCall /\ MayReview /\ MayModify(b)
  /\ Begin(p, [op |-> "status", block |-> b, status |-> st])

WriteStatus(p) ==
  /\ Ends(p, "status")
  /\ block' = IF call[p].block \in Rows
              THEN [block EXCEPT ![call[p].block].status = call[p].status] ELSE block
  /\ UNCHANGED entry

DeleteReviewBlock(b) ==
  /\ MayReview
  /\ b \in Rows
  /\ Without({b})
  /\ UNCHANGED <<setting, branch, gen, call>>

AddCommitsToBlock(p, b, cs) ==
  /\ Free(p) /\ MayModify(b)
  /\ cs # {}
  /\ Begin(p, [op |-> "add", block |-> b, commits |-> cs,
               position |-> After({entry[e].position : e \in Of(b)})])

\* the foreign key refuses entries of a block that is gone
InsertCommits(p) ==
  /\ Ends(p, "add")
  /\ OneEntryEach(call[p].commits)
  /\ entry' = IF call[p].block \in Rows
              THEN Inserted(call[p].block, call[p].commits, call[p].position) ELSE entry
  /\ UNCHANGED block

RemoveCommitsFromBlock(p, b, es) ==
  /\ Free(p) /\ MayModify(b)
  /\ es # {} /\ es \subseteq Of(b)
  /\ Begin(p, [op |-> "remove", block |-> b, entries |-> es])

Renumbered(rest) == [e \in rest |-> PlaceIn(e, rest)]

DeleteCommits(p) ==
  LET b == call[p].block
      rest == Of(b) \ call[p].entries
      places == Renumbered(rest) IN
  /\ Ends(p, "remove")
  /\ entry' = [e \in Commits |->
                 IF e \in call[p].entries THEN NoEntry
                 ELSE IF e \in rest THEN [entry[e] EXCEPT !.position = places[e]] ELSE entry[e]]
  /\ block' = IF rest = {} /\ b \in Rows THEN [block EXCEPT ![b] = NoBlock] ELSE block

-----------------------------------------------------------------------------
(* Split and merge *)

SplitReviewBlock(p, b, k) ==
  /\ Free(p) /\ MayModify(b)
  /\ k < Cardinality(Of(b)) - 1
  /\ \A c \in Rows : block[c].position < setting.positions
  /\ LET moved == {e \in Of(b) : entry[e].position > k} IN
       Begin(p, [op |-> "split", block |-> b, position |-> block[b].position,
                 places |-> [e \in moved |-> PlaceIn(e, moved)]])

Behind(pos) == {c \in Rows : block[c].position > pos}

\* mutant: the entries go with their block
MoveNothing(places, b) == entry
MoveEntries(places, b) ==
  [e \in Commits |->
     IF e \in DOMAIN places \cap Entries
     THEN [entry[e] EXCEPT !.block = b, !.position = places[e]] ELSE entry[e]]

InsertHalf(p) ==
  LET pos == call[p].position IN
  /\ Ends(p, "split")
  /\ FreeIds # {}
  /\ LET new == Least(FreeIds) IN
       /\ block' = [c \in Blocks |->
                      IF c = new THEN [position |-> pos + 1, status |-> "draft"]
                      ELSE IF c \in Behind(pos) THEN [block[c] EXCEPT !.position = @ + 1]
                      ELSE block[c]]
       /\ entry' = MoveEntries(call[p].places, new)

\* The blocks are taken by position; one that is named twice is taken, and its places are
\* counted, twice.
PlacesBehind(target, moved, twice) ==
  [e \in moved |->
     LET again == {f \in moved : entry[f].block \in twice
                                 /\ ~ BlockBefore(entry[e].block, entry[f].block)} IN
     Cardinality(Of(target)) + PlaceIn(e, moved) + Cardinality(again)]

\* The list names the blocks bs, and those of twice once more (bound: no block three times).
\* Every block of the list but the first is deleted, the target too if it is there again.
MergeReviewBlocks(p, bs, twice) ==
  /\ Free(p)
  /\ \A b \in bs : MayModify(b)
  /\ Cardinality(bs) + Cardinality(twice) >= 2
  /\ LET target == CHOOSE b \in bs : \A c \in bs \ {b} : BlockBefore(b, c)
         moved == UNION {Of(c) : c \in bs \ {target}} IN
       Begin(p, [op |-> "merge", block |-> target,
                 others |-> (bs \ {target}) \cup (twice \cap {target}),
                 places |-> PlacesBehind(target, moved, twice)])

\* the foreign key refuses entries of a target that is gone
JoinBlocks(p) ==
  LET places == call[p].places
      rest == Rows \ call[p].others
      en == MoveEntries(places, call[p].block) IN
  /\ Ends(p, "merge")
  /\ IF call[p].block \in rest \/ DOMAIN places \cap Entries = {}
     THEN /\ entry' = [e \in Commits |-> IF en[e].block \in call[p].others THEN NoEntry ELSE en[e]]
          /\ block' = [c \in Blocks |->
                         IF c \in rest
                         THEN [block[c] EXCEPT !.position =
                                 Cardinality({d \in rest : BlockBefore(d, c)})]
                         ELSE NoBlock]
     ELSE UNCHANGED <<block, entry>>

-----------------------------------------------------------------------------
(* Rebuild and auto-populate *)

\* a block for each of the commits cs that no entry of en has
Populated(bl, en, cs) ==
  LET new == cs \ {<<e[1], en[e].gen>> : e \in {e \in Commits : en[e] # NoEntry}}
      first == After({bl[b].position : b \in {b \in Blocks : bl[b] # NoBlock}})
      n == Cardinality(new) IN
  /\ Cardinality(FreeIds) >= n /\ first + n <= setting.positions + 1
  /\ \A e \in new : en[e] = NoEntry
  /\ LET ids == Unassigned(n) IN
       /\ block' = [b \in Blocks |->
                      IF b \in ids THEN [position |-> first + Rank(b, ids), status |-> "draft"]
                      ELSE bl[b]]
       /\ entry' = [e \in Commits |->
                      IF e \in new
                      THEN [block |-> CHOOSE b \in ids : Rank(b, ids) = Rank(e[1], {c[1] : c \in new}),
                            position |-> 0, gen |-> e[2]]
                      ELSE en[e]]

RebuildStack(p) == Free(p) /\ Begin(p, RebuildCall(Current))

\* mutant: commits are matched by hash
MatchedByHash(e, commits) == <<e[1], entry[e].gen>> \in commits
Matched(e, commits) == \E c \in commits : c[1] = e[1]

\* autoPopulate is the stack's configuration when the transaction runs
WriteStack(p) ==
  LET commits == call[p].commits
      seen == call[p].seen
      all == UNION {seen[b] : b \in DOMAIN seen}
      empty == {b \in DOMAIN seen : \A e \in seen[b] : ~ Matched(e, commits)}
      bl == [b \in Blocks |-> IF b \in empty THEN NoBlock ELSE block[b]]
      en == [e \in Commits |->
               IF e \notin Entries \/ entry[e].block \in empty \/ (e \in all /\ ~ Matched(e, commits))
               THEN NoEntry
               ELSE IF e \in all
               THEN [entry[e] EXCEPT !.gen = (CHOOSE c \in commits : c[1] = e[1])[2]]
               ELSE entry[e]] IN
  /\ Ends(p, "rebuild")
  /\ \/ Populated(bl, en, commits)
     \/ block' = bl /\ entry' = en

AutoPopulateStack(p) ==
  Free(p) /\ Begin(p, [op |-> "populate", block |-> None, commits |-> Current])

PopulateStack(p) ==
  /\ Ends(p, "populate")
  /\ Populated(block, entry, call[p].commits)

-----------------------------------------------------------------------------
Call(p) ==
  \/ RebaseOntoStream(p) \/ RebuildStack(p) \/ AutoPopulateStack(p)
  \/ \E cs \in SUBSET Untracked : CreateReviewBlock(p, cs)
  \/ \E bs \in (SUBSET Rows) \ {{}} :
       \E twice \in IF setting.repeats THEN SUBSET bs ELSE {{}} : MergeReviewBlocks(p, bs, twice)
  \/ \E b \in Rows :
       \/ \E st \in setting.statuses : SetReviewStatus(p, b, st)
       \/ \E cs \in SUBSET Untracked : AddCommitsToBlock(p, b, cs)
       \/ \E es \in SUBSET Of(b) : RemoveCommitsFromBlock(p, b, es)
       \/ \E k \in 0 .. Cardinality(Of(b)) : SplitReviewBlock(p, b, k)

Transaction(p) ==
  \/ InsertBlock(p) \/ WriteStatus(p) \/ InsertCommits(p) \/ DeleteCommits(p)
  \/ InsertHalf(p) \/ JoinBlocks(p) \/ WriteStack(p) \/ PopulateStack(p)

Next ==
  \/ \E p \in setting.procs : Call(p) \/ Transaction(p)
  \/ \E q \in setting.patches : Commit(q)
  \/ \E b \in Blocks : DeleteReviewBlock(b)

Spec == Init /\ [][Next]_vars

-----------------------------------------------------------------------------
\* "Order in stack (0 = bottom/oldest)": no two blocks have the same position.
BlocksDistinct == \A b, c \in Rows : block[b].position = block[c].position => b = c

\* A block has commits: the code that takes the last one deletes the block.
NoEmptyBlock ==
  ~ setting.drops /\ ~ setting.reviewed /\ ~ setting.repeats /\ Quiet => \A b \in Rows : Of(b) # {}

\* The commits of a block have an order: no two are at the same place, as long as no merge
\* named a block twice (that leaves a gap, and the next merge counts the commits).
PlacesDistinct ==
  ~ setting.drops /\ ~ setting.reviewed /\ ~ setting.repeats => \A e, f \in Entries :
    entry[e].block = entry[f].block /\ entry[e].position = entry[f].position => e = f

\* Blocks are an order of the stack, their entries one of the block, and none is empty.
StackInv == TypeOK /\ BlocksDistinct /\ NoEmptyBlock /\ PlacesDistinct

\* After a rebase and the rebuild that belongs to it, every entry shows a commit that
\* the stream has.
EntriesCurrent == Quiet => Tracked \subseteq Current

\* "should not duplicate already tracked commits": a commit is in one block, once.
TrackedOnce == \A e, f \in Entries : Hash(e) = Hash(f) => e = f

\* Entries and commits of the stream correspond.
EntryInv == EntriesCurrent /\ TrackedOnce

Divides(c) == c.op = "split" \/ (c.op = "merge" /\ c.block \notin c.others)

\* Splitting and merging blocks loses no commit and invents none, also if other blocks than
\* the first are named twice.  (The first one named twice passes the checks as well, and is
\* deleted with its commits.)
ContentKept ==
  [][\A p \in Procs : Divides(call[p]) /\ call'[p] # call[p] => Tracked' = Tracked]_vars

MergedUnchanged ==
  \A b \in Rows : block[b].status = "merged" /\ block'[b] # NoBlock
    => {e \in Commits : entry'[e] # NoEntry /\ entry'[e].block = b} = Of(b)

\* A merged block is "immutable" (docs/design.md): as long as it is there, it has the
\* commits it had.  The one process that builds does not race a review here: between the
\* check of the status and the transaction another process may mark the block merged.
MergedKept == [][~ setting.drops /\ ~ setting.reviewed => MergedUnchanged]_vars

\* Nothing but a rebase or a drop takes a commit from where it was reviewed.
BlocksKept == ContentKept /\ MergedKept

\* A rebuild keeps the review of what survived the rebase: the commit stays in its block,
\* and the block has the status it had.
SurvivorsKept ==
  [][\A p \in Procs : call[p].op = "rebuild" /\ call'[p] # call[p] =>
       \A e \in Entries : e[1] \in {c[1] : c \in call[p].commits} =>
         /\ entry'[e].block = entry[e].block
         /\ block'[entry[e].block] = block[entry[e].block]]_vars

=============================================================================
