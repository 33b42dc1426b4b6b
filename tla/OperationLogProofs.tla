-------------------------- MODULE OperationLogProofs --------------------------
(***************************************************************************)
(* Proofs about OperationLog, for all streams, processes and settings:     *)
(* what the log says is there and it says all (LogInv), and rollbackN      *)
(* takes exactly the last n commits off (RollbackCounts).                  *)
(*                                                                         *)
(* A call is a list of statements, so the invariant says for each list     *)
(* that can be left what the statements done so far have established.      *)
(* LogTypes holds whatever overlaps; LogKnown is about calls that do not   *)
(* overlap, where the times of the operations increase and the latest one  *)
(* of a stream is therefore unique.                                        *)
(***************************************************************************)
EXTENDS OperationLog, FiniteSetTheorems, TLAPS

Names == {"commit", "change", "record", "log", "reset", "log_rollback"} \cup Reconciling
OperationTypes == {"commit", "manual", "rollback", "reconcile"}

CallRecord == [todo : Seq(Names \X Streams), commit : Nat, before : Nat, back : Nat]
OperationRecord == [stream : Streams, type : OperationTypes, before : Nat, after : Nat,
                    parent : Nat, time : Nat]

-----------------------------------------------------------------------------
(* What is left of a call *)

AtCommit(r, s) == \/ r.todo = <<<<"commit", s>>, <<"change", s>>, <<"record", s>>>>
                  \/ r.todo = <<<<"commit", s>>, <<"log", s>>>>
AtChange(r, s) == r.todo = <<<<"change", s>>, <<"record", s>>>>
AtRecord(r, s) == r.todo = <<<<"record", s>>>>
AtLog(r, s) == r.todo = <<<<"log", s>>>>
AtReset(r, s) == r.todo = <<<<"reset", s>>, <<"log_rollback", s>>>>
AtLogRollback(r, s) == r.todo = <<<<"log_rollback", s>>>>

\* the commit is made and not logged
Committed(r, s) == AtChange(r, s) \/ AtRecord(r, s) \/ AtLog(r, s)
Writing(r, s) == AtCommit(r, s) \/ Committed(r, s) \/ AtReset(r, s) \/ AtLogRollback(r, s)

AtInsert(r, s) == r.todo # <<>> /\ r.todo[1] = <<"insert", s>>
Repairing(r) ==
  /\ r.todo # <<>>
  /\ \A i \in 1 .. Len(r.todo) :
       /\ r.todo[i] \in Reconciling \X setting.streams
       /\ i > 1 => r.todo[i][1] # "insert"

-----------------------------------------------------------------------------
(* Types, and what holds even when calls overlap *)

GitTypes ==
  /\ setting \in Setting
  /\ up \in Seq(Nat) /\ Len(up) >= 1 /\ up[1] = 0
  /\ \A c \in 2 .. Len(up) : up[c] \in 1 .. c - 1
  /\ head \in [Streams -> Commits \cup {Missing}]
  /\ base \in [Streams -> Commits]
  /\ status \in [Streams -> {"active", "conflicted"}]
  /\ changes \subseteq Commits

OperationOK(op, o) ==
  /\ op.stream \in setting.streams
  /\ op.before \in Commits /\ op.after \in Commits
  /\ op.parent < o /\ op.time <= clock
  /\ op.type = "commit" => op.after \in changes

LogTypes ==
  /\ ops \in Seq(OperationRecord)
  /\ \A o \in DOMAIN ops : OperationOK(ops[o], o)
  /\ clock \in Nat /\ crashes \in 0 .. setting.crashes

\* what the statements done so far have left
Fit(r, s) ==
  /\ s \in setting.streams /\ head[s] # Missing
  /\ Committed(r, s) => r.commit >= 2 /\ head[s] >= 2
  /\ AtRecord(r, s) => r.commit \in changes

CallOK(r) ==
  /\ r \in CallRecord /\ r.commit \in Commits /\ r.before \in Commits
  /\ r.todo = <<>> \/ Repairing(r) \/ \E s \in Streams : Writing(r, s) /\ Fit(r, s)

CallTypes ==
  /\ call \in [Procs -> CallRecord]
  /\ \A p \in Procs : CallOK(call[p])
  /\ \A p, q \in Procs, s \in Streams :
       Writing(call[p], s) /\ Writing(call[q], s) => p = q

Types == GitTypes /\ LogTypes /\ CallTypes

-----------------------------------------------------------------------------
(* Calls that do not overlap *)

Increasing == \A o, q \in DOMAIN ops : o < q => ops[o].time < ops[q].time

Parents ==
  \A q \in DOMAIN ops :
    ops[q].parent # NoOp =>
      ops[q].after >= 2 /\ up[ops[q].after] = ops[ops[q].parent].after

Fresh == \A o \in DOMAIN ops : ops[o].time # clock

KnownCall(r) ==
  \A s \in Streams :
    /\ AtCommit(r, s) => InSync(s)
    /\ Committed(r, s) => head[s] = r.commit /\ up[r.commit] \in ExpectedHeads(s)
    /\ AtLog(r, s) \/ AtLogRollback(r, s) \/ AtInsert(r, s) => Fresh
    /\ AtReset(r, s) /\ r.back > 0 => r.back <= Len(ops) /\ r.commit = Ancestor[r.back][head[s]]
    /\ AtLogRollback(r, s) => head[s] = r.commit
    /\ AtInsert(r, s) => r.before \in ExpectedHeads(s)

LogKnown ==
  /\ \A p, q \in Procs : ~ Idle(p) /\ ~ Idle(q) => p = q
  /\ Increasing /\ Parents /\ NoGap
  /\ \A p \in Procs : KnownCall(call[p])

\* nothing but the logged calls moves branches, and none was cut short
Alone == ~ setting.outside /\ crashes = 0

LoggedHeads ==
  /\ \A p \in Procs : ~ Repairing(call[p])
  /\ \A s \in setting.streams : head[s] # Missing
  /\ LogGivesHead

LogIndInv == Types /\ (Orderly => LogKnown) /\ (Orderly /\ Alone => LoggedHeads)

-----------------------------------------------------------------------------
(* Induction.  The theorems of the library that take an operator cannot be *)
(* used, so an induction over n looks at the least n for which the claim    *)
(* fails: sets of naturals have a least element, because finite sets are    *)
(* well-founded under inclusion.                                            *)

LEMMA LeastOf ==
  ASSUME NEW T \in SUBSET Nat, T # {}
  PROVE  \E x \in T : \A y \in T : x <= y
  <1> DEFINE I == {1 .. n : n \in T}
  <1>1. I \subseteq FiniteSubsetsOf(Nat) /\ I # {}
    <2>1. \A n \in T : 1 .. n \in SUBSET Nat /\ IsFiniteSet(1 .. n)
      BY FS_Interval
    <2>2. \A n \in T : 1 .. n \in FiniteSubsetsOf(Nat)
      BY <2>1 DEF FiniteSubsetsOf
    <2> QED BY <2>2
  <1>2. PICK C \in I : \A D \in I : ~ (<<D, C>> \in StrictSubsetOrdering(Nat))
    <2> HIDE DEF I
    <2> QED BY <1>1, FS_StrictSubsetOrderingWellFounded, WFMin
  <1>3. PICK x \in T : C = 1 .. x
    OBVIOUS
  <1>4. ASSUME NEW y \in T, y < x PROVE FALSE
    <2> DEFINE D == 1 .. y  E == 1 .. x
    <2>1. D \in I /\ C = E
      BY <1>3
    <2>2. D \subseteq E /\ x \in E /\ x \notin D
      BY <1>4
    <2>3. D \in SUBSET Nat /\ E \in SUBSET Nat
      OBVIOUS
    <2> HIDE DEF D, E, I
    <2>4. <<D, E>> \in StrictSubsetOrdering(Nat)
      BY <2>2, <2>3 DEF StrictSubsetOrdering
    <2> QED BY <2>1, <2>4, <1>2
  <1> QED BY <1>4

\* What is false of some natural number and true of 0 becomes false in one step.
LEMMA LeastFailure ==
  ASSUME NEW G \in SUBSET Nat, 0 \in G, G # Nat
  PROVE  \E n \in Nat : n \in G /\ n + 1 \notin G
  <1> DEFINE T == Nat \ G
  <1>1. T \in SUBSET Nat /\ T # {}
    OBVIOUS
  <1> HIDE DEF T
  <1>2. PICK x \in T : \A y \in T : x <= y
    BY <1>1, LeastOf
  <1>3. x \in Nat /\ x \notin G /\ x # 0
    BY <1>2 DEF T
  <1>4. x - 1 \in Nat /\ x - 1 \notin T
    BY <1>2, <1>3
  <1>5. (x - 1) + 1 = x
    BY <1>3
  <1> QED BY <1>3, <1>4, <1>5 DEF T

-----------------------------------------------------------------------------
(* Ancestor and Back climb a function next of D, until they are in Z *)

Climbs(f, D, Z, next, m) ==
  f = [n \in 0 .. m |-> [x \in D |-> IF n = 0 \/ x \in Z THEN x ELSE f[n - 1][next[x]]]]

LEMMA ClimbExists ==
  ASSUME NEW D, NEW Z, NEW next, NEW m \in Nat
  PROVE  \E f : Climbs(f, D, Z, next, m)
  <1> DEFINE G == {n \in Nat : \E f : Climbs(f, D, Z, next, n)}
  <1>1. 0 \in G
    <2> DEFINE f == [n \in 0 .. 0 |-> [x \in D |-> x]]
    <2>1. f = [n \in 0 .. 0 |-> [x \in D |-> IF n = 0 \/ x \in Z THEN x ELSE f[n - 1][next[x]]]]
      OBVIOUS
    <2> HIDE DEF f
    <2> QED BY <2>1 DEF Climbs
  <1>2. ASSUME NEW l \in Nat, l \in G PROVE l + 1 \in G
    <2>1. PICK f : Climbs(f, D, Z, next, l)
      BY <1>2
    <2> DEFINE g == [n \in 0 .. l + 1 |->
                       IF n = l + 1 THEN [x \in D |-> IF x \in Z THEN x ELSE f[l][next[x]]] ELSE f[n]]
    <2>2. \A n \in 0 .. l : f[n] = [x \in D |-> IF n = 0 \/ x \in Z THEN x ELSE f[n - 1][next[x]]]
      BY <2>1 DEF Climbs
    <2>3. \A n \in 0 .. l : g[n] = f[n]
      OBVIOUS
    <2>4. \A n \in 0 .. l + 1 : g[n] = [x \in D |-> IF n = 0 \/ x \in Z THEN x ELSE g[n - 1][next[x]]]
      <3> TAKE n \in 0 .. l + 1
      <3>1. CASE n = l + 1
        <4>1. g[n] = [x \in D |-> IF x \in Z THEN x ELSE f[l][next[x]]]
          BY <3>1
        <4>2. n # 0 /\ n - 1 = l /\ g[n - 1] = f[l]
          BY <3>1, <2>3
        <4> HIDE DEF g
        <4> QED BY <4>1, <4>2
      <3>2. CASE n # l + 1 /\ n # 0
        <4>1. g[n] = f[n] /\ g[n - 1] = f[n - 1] /\ n \in 0 .. l
          BY <3>2, <2>3
        <4> HIDE DEF g
        <4> QED BY <4>1, <2>2
      <3>3. CASE n = 0
        <4>1. g[n] = f[n] /\ n \in 0 .. l
          BY <3>3, <2>3
        <4> HIDE DEF g
        <4>2. f[n] = [x \in D |-> IF n = 0 \/ x \in Z THEN x ELSE f[n - 1][next[x]]]
          BY <4>1, <2>2
        <4> QED BY <4>1, <4>2, <3>3
      <3> QED BY <3>1, <3>2, <3>3
    <2>5. Climbs(g, D, Z, next, l + 1)
      <3>1. g = [n \in 0 .. l + 1 |-> g[n]]
        OBVIOUS
      <3> HIDE DEF g
      <3> QED BY <2>4, <3>1 DEF Climbs
    <2> QED BY <2>5
  <1> HIDE DEF G
  <1>3. G = Nat
    BY <1>1, <1>2, LeastFailure DEF G
  <1> QED BY <1>3 DEF G

Stays(D, Z, next) == \A x \in D : x \in Z \/ next[x] \in D

Climbed(f, D, Z, next, m) ==
  /\ \A x \in D : f[0][x] = x
  /\ \A n \in 1 .. m, x \in D : f[n][x] = IF x \in Z THEN x ELSE f[n - 1][next[x]]
  /\ \A n \in 0 .. m, x \in D : f[n][x] \in D

LEMMA ClimbIs ==
  ASSUME NEW D, NEW Z, NEW next, NEW m \in Nat, NEW f, Climbs(f, D, Z, next, m),
         Stays(D, Z, next)
  PROVE  Climbed(f, D, Z, next, m)
  <1>0. \A n \in 0 .. m : f[n] = [x \in D |-> IF n = 0 \/ x \in Z THEN x ELSE f[n - 1][next[x]]]
    BY DEF Climbs
  <1>1. \A n \in 0 .. m, x \in D : f[n][x] = IF n = 0 \/ x \in Z THEN x ELSE f[n - 1][next[x]]
    <2> TAKE n \in 0 .. m, x \in D
    <2> DEFINE F == f[n]
    <2>1. F = [y \in D |-> IF n = 0 \/ y \in Z THEN y ELSE f[n - 1][next[y]]]
      BY <1>0
    <2> HIDE DEF F
    <2>2. F[x] = IF n = 0 \/ x \in Z THEN x ELSE f[n - 1][next[x]]
      BY <2>1
    <2> QED BY <2>2 DEF F
  <1>2. \A n \in 1 .. m, x \in D : f[n][x] = IF x \in Z THEN x ELSE f[n - 1][next[x]]
    BY <1>1
  <1>3. \A x \in D : f[0][x] = x
    BY <1>1
  <1> DEFINE G == {n \in Nat : n <= m => \A x \in D : f[n][x] \in D}
  <1>4. G \in SUBSET Nat /\ 0 \in G
    BY <1>3
  <1>5. ASSUME NEW l \in Nat, l \in G PROVE l + 1 \in G
    <2> SUFFICES ASSUME l + 1 <= m, NEW x \in D PROVE f[l + 1][x] \in D
      OBVIOUS
    <2>1. f[l + 1][x] = IF x \in Z THEN x ELSE f[l][next[x]]
      BY <1>2
    <2> QED BY <2>1, <1>5 DEF Stays
  <1> HIDE DEF G
  <1>6. G = Nat
    BY <1>4, <1>5, LeastFailure
  <1>7. \A n \in 0 .. m, x \in D : f[n][x] \in D
    BY <1>6 DEF G
  <1> QED BY <1>2, <1>3, <1>7 DEF Climbed

Agree(f, g, h, D, m) ==
  \A n \in 0 .. m, x \in D : f[n][x] # NoOp => h[f[n][x]] = g[n][h[x]]

Follows(h, D, next, E, up2) ==
  /\ NoOp \in D /\ \A x \in D : x # NoOp => h[x] \in E
  /\ \A x \in D : x # NoOp /\ next[x] # NoOp => h[x] # 1 /\ up2[h[x]] = h[next[x]]

\* If h maps the steps of one climb to steps of another, it maps where the one gets to where
\* the other gets.
LEMMA ClimbsAgree ==
  ASSUME NEW m \in Nat,
         NEW D, NEW next, NEW f, Climbs(f, D, {NoOp}, next, m), Stays(D, {NoOp}, next),
         NEW E, NEW up2, NEW g, Climbs(g, E, {1}, up2, m), Stays(E, {1}, up2),
         NEW h, Follows(h, D, next, E, up2)
  PROVE  Agree(f, g, h, D, m)
  <1> USE DEF Follows
  <1>1. /\ \A x \in D : f[0][x] = x
        /\ \A n \in 1 .. m, x \in D : f[n][x] = IF x \in {NoOp} THEN x ELSE f[n - 1][next[x]]
        /\ \A n \in 0 .. m, x \in D : f[n][x] \in D
    <2>1. Climbed(f, D, {NoOp}, next, m)
      BY ClimbIs
    <2> QED BY <2>1 DEF Climbed
  <1>2. /\ \A x \in E : g[0][x] = x
        /\ \A n \in 1 .. m, x \in E : g[n][x] = IF x \in {1} THEN x ELSE g[n - 1][up2[x]]
    <2>1. Climbed(g, E, {1}, up2, m)
      BY ClimbIs
    <2> QED BY <2>1 DEF Climbed
  <1>3. \A n \in 0 .. m : f[n][NoOp] = NoOp
    <2> TAKE n \in 0 .. m
    <2>1. CASE n = 0
      BY <2>1, <1>1
    <2>2. CASE n \in 1 .. m
      BY <2>2, <1>1
    <2> QED BY <2>1, <2>2
  <1> DEFINE G == {n \in Nat : n <= m => \A x \in D : f[n][x] # NoOp => h[f[n][x]] = g[n][h[x]]}
  <1>4. G \in SUBSET Nat /\ 0 \in G
    BY <1>1, <1>2
  <1>5. ASSUME NEW l \in Nat, l \in G PROVE l + 1 \in G
    <2> SUFFICES ASSUME l + 1 <= m, NEW x \in D, f[l + 1][x] # NoOp
                 PROVE  h[f[l + 1][x]] = g[l + 1][h[x]]
      OBVIOUS
    <2>1. l + 1 \in 1 .. m /\ l \in 0 .. m /\ (l + 1) - 1 = l
      OBVIOUS
    <2>2. x # NoOp
      BY <2>1, <1>3
    <2>3. f[l + 1][x] = f[l][next[x]] /\ next[x] \in D
      BY <2>1, <2>2, <1>1 DEF Stays
    <2>4. next[x] # NoOp
      BY <2>1, <2>3, <1>3
    <2>5. h[x] \in E /\ h[x] # 1 /\ up2[h[x]] = h[next[x]]
      BY <2>2, <2>4
    <2>6. g[l + 1][h[x]] = g[l][h[next[x]]]
      BY <2>1, <2>5, <1>2
    <2>7. h[f[l][next[x]]] = g[l][h[next[x]]]
      BY <1>5, <2>1, <2>3
    <2> QED BY <2>3, <2>6, <2>7
  <1> HIDE DEF G
  <1>6. G = Nat
    BY <1>4, <1>5, LeastFailure
  <1> QED BY <1>6 DEF G, Agree

Parent == [o \in DOMAIN ops |-> ops[o].parent]

LEMMA BackClimbs ==
  ASSUME ops \in Seq(OperationRecord)
  PROVE  Climbs(Back, 0 .. Len(ops), {NoOp}, Parent, Len(ops))
  <1>1. Len(ops) \in Nat /\ DOMAIN ops = 1 .. Len(ops)
    OBVIOUS
  <1>2. PICK f : Climbs(f, 0 .. Len(ops), {NoOp}, Parent, Len(ops))
    BY <1>1, ClimbExists
  <1>3. \A g : Climbs(g, 0 .. Len(ops), {NoOp}, Parent, Len(ops))
              <=> g = [n \in 0 .. Len(ops) |->
                        [o \in 0 .. Len(ops) |-> IF n = 0 \/ o = NoOp THEN o ELSE g[n - 1][ops[o].parent]]]
    <2> TAKE g
    <2>1. \A n \in 0 .. Len(ops), o \in 0 .. Len(ops) :
            (IF n = 0 \/ o \in {NoOp} THEN o ELSE g[n - 1][Parent[o]])
            = IF n = 0 \/ o = NoOp THEN o ELSE g[n - 1][ops[o].parent]
      BY <1>1 DEF Parent, NoOp
    <2>2. [n \in 0 .. Len(ops) |->
            [o \in 0 .. Len(ops) |-> IF n = 0 \/ o \in {NoOp} THEN o ELSE g[n - 1][Parent[o]]]]
          = [n \in 0 .. Len(ops) |->
              [o \in 0 .. Len(ops) |-> IF n = 0 \/ o = NoOp THEN o ELSE g[n - 1][ops[o].parent]]]
      BY <2>1
    <2> QED BY <2>2 DEF Climbs
  <1>4. f = [n \in 0 .. Len(ops) |->
              [o \in 0 .. Len(ops) |-> IF n = 0 \/ o = NoOp THEN o ELSE f[n - 1][ops[o].parent]]]
    BY <1>2, <1>3
  <1>5. Back = [n \in 0 .. Len(ops) |->
                 [o \in 0 .. Len(ops) |-> IF n = 0 \/ o = NoOp THEN o ELSE Back[n - 1][ops[o].parent]]]
    BY <1>4 DEF Back
  <1> QED BY <1>5, <1>3

LEMMA AncestorClimbs ==
  ASSUME ops \in Seq(OperationRecord)
  PROVE  Climbs(Ancestor, Commits, {1}, up, Len(ops))
  <1>1. Len(ops) \in Nat
    OBVIOUS
  <1>2. PICK f : Climbs(f, Commits, {1}, up, Len(ops))
    BY <1>1, ClimbExists
  <1>3. \A g : Climbs(g, Commits, {1}, up, Len(ops))
              <=> g = [n \in 0 .. Len(ops) |->
                        [c \in Commits |-> IF n = 0 \/ c = 1 THEN c ELSE g[n - 1][up[c]]]]
    <2> TAKE g
    <2>1. \A n \in 0 .. Len(ops), c \in Commits :
            (IF n = 0 \/ c \in {1} THEN c ELSE g[n - 1][up[c]])
            = IF n = 0 \/ c = 1 THEN c ELSE g[n - 1][up[c]]
      OBVIOUS
    <2>2. [n \in 0 .. Len(ops) |->
            [c \in Commits |-> IF n = 0 \/ c \in {1} THEN c ELSE g[n - 1][up[c]]]]
          = [n \in 0 .. Len(ops) |->
              [c \in Commits |-> IF n = 0 \/ c = 1 THEN c ELSE g[n - 1][up[c]]]]
      BY <2>1
    <2> QED BY <2>2 DEF Climbs
  <1>4. f = [n \in 0 .. Len(ops) |->
              [c \in Commits |-> IF n = 0 \/ c = 1 THEN c ELSE f[n - 1][up[c]]]]
    BY <1>2, <1>3
  <1>5. Ancestor = [n \in 0 .. Len(ops) |->
                     [c \in Commits |-> IF n = 0 \/ c = 1 THEN c ELSE Ancestor[n - 1][up[c]]]]
    BY <1>4 DEF Ancestor
  <1> QED BY <1>5, <1>3

\* The operation n steps back in the log ended with the commit n steps up the history.
LEMMA BackIsAncestor ==
  ASSUME GitTypes, LogTypes, Parents, NEW n \in 0 .. Len(ops), NEW o \in DOMAIN ops,
         Back[n][o] # NoOp
  PROVE  Back[n][o] \in DOMAIN ops /\ ops[Back[n][o]].after = Ancestor[n][ops[o].after]
  <1> DEFINE h == [q \in DOMAIN ops |-> ops[q].after]
  <1>1. Len(ops) \in Nat /\ DOMAIN ops = 1 .. Len(ops)
    BY DEF LogTypes
  <1>2. \A q \in DOMAIN ops : /\ ops[q].after \in Commits /\ ops[q].parent \in Nat
                            /\ ops[q].parent < q
    <2> TAKE q \in DOMAIN ops
    <2>1. ops[q] \in OperationRecord /\ OperationOK(ops[q], q)
      BY DEF LogTypes
    <2> QED BY <2>1 DEF OperationOK, OperationRecord
  <1>3. Stays(0 .. Len(ops), {NoOp}, Parent)
    BY <1>1, <1>2 DEF Parent, NoOp, Stays
  <1>4. Stays(Commits, {1}, up)
    BY DEF GitTypes, Commits, Stays
  <1>5. \A x \in 0 .. Len(ops) : x # NoOp => h[x] \in Commits
    BY <1>1, <1>2 DEF NoOp
  <1>6. \A x \in 0 .. Len(ops) : x # NoOp /\ Parent[x] # NoOp => h[x] # 1 /\ up[h[x]] = h[Parent[x]]
    <2> SUFFICES ASSUME NEW x \in DOMAIN ops, ops[x].parent # NoOp
                 PROVE  h[x] # 1 /\ up[h[x]] = h[ops[x].parent]
      <3>1. \A x \in 0 .. Len(ops) : x # NoOp => x \in DOMAIN ops
        BY <1>1 DEF NoOp
      <3>2. \A x \in DOMAIN ops : Parent[x] = ops[x].parent
        BY DEF Parent
      <3> HIDE DEF h
      <3> QED BY <3>1, <3>2
    <2>1. ops[x].parent \in DOMAIN ops
      BY <1>1, <1>2 DEF NoOp
    <2>2. ops[x].after >= 2 /\ up[ops[x].after] = ops[ops[x].parent].after
      BY DEF Parents
    <2> QED BY <2>1, <2>2, <1>2
  <1>7. Climbs(Back, 0 .. Len(ops), {NoOp}, Parent, Len(ops)) /\ Climbs(Ancestor, Commits, {1}, up, Len(ops))
    BY BackClimbs, AncestorClimbs DEF LogTypes
  <1>8. NoOp \in 0 .. Len(ops)
    BY <1>1 DEF NoOp
  <1>9. o \in 0 .. Len(ops)
    BY <1>1
  <1>10. h[o] = ops[o].after
    OBVIOUS
  <1>11. Climbed(Back, 0 .. Len(ops), {NoOp}, Parent, Len(ops))
    BY <1>1, <1>3, <1>7, ClimbIs
  <1>12. Back[n][o] \in 0 .. Len(ops)
    BY <1>9, <1>11 DEF Climbed
  <1>13. Back[n][o] \in DOMAIN ops
    BY <1>1, <1>12 DEF NoOp
  <1>14. h[Back[n][o]] = ops[Back[n][o]].after
    BY <1>13
  <1> HIDE DEF h
  <1>15. Follows(h, 0 .. Len(ops), Parent, Commits, up)
    BY <1>5, <1>6, <1>8 DEF Follows
  <1>16. Agree(Back, Ancestor, h, 0 .. Len(ops), Len(ops))
    BY <1>1, <1>3, <1>4, <1>7, <1>15, ClimbsAgree
  <1>17. h[Back[n][o]] = Ancestor[n][h[o]]
    BY <1>9, <1>16 DEF Agree
  <1> QED BY <1>13, <1>14, <1>17, <1>10

-----------------------------------------------------------------------------
(* Calls *)

\* Head, Tail and length of the lists of statements
LEMMA ListsAre ==
  ASSUME NEW r, NEW s
  PROVE  /\ AtCommit(r, s) => /\ r.todo # <<>> /\ Head(r.todo) = <<"commit", s>> /\ Len(r.todo) # 1
                               /\ \/ Tail(r.todo) = <<<<"change", s>>, <<"record", s>>>>
                                  \/ Tail(r.todo) = <<<<"log", s>>>>
         /\ AtChange(r, s) => /\ r.todo # <<>> /\ Head(r.todo) = <<"change", s>> /\ Len(r.todo) # 1
                               /\ Tail(r.todo) = <<<<"record", s>>>>
         /\ AtRecord(r, s) => r.todo # <<>> /\ Head(r.todo) = <<"record", s>> /\ Len(r.todo) = 1
         /\ AtLog(r, s) => r.todo # <<>> /\ Head(r.todo) = <<"log", s>> /\ Len(r.todo) = 1
         /\ AtReset(r, s) => /\ r.todo # <<>> /\ Head(r.todo) = <<"reset", s>> /\ Len(r.todo) # 1
                              /\ Tail(r.todo) = <<<<"log_rollback", s>>>>
         /\ AtLogRollback(r, s) => r.todo # <<>> /\ Head(r.todo) = <<"log_rollback", s>> /\ Len(r.todo) = 1
  <1>1. AtCommit(r, s) => /\ r.todo # <<>> /\ Head(r.todo) = <<"commit", s>> /\ Len(r.todo) # 1
                          /\ \/ Tail(r.todo) = <<<<"change", s>>, <<"record", s>>>>
                             \/ Tail(r.todo) = <<<<"log", s>>>>
    <2>1. CASE r.todo = <<<<"commit", s>>, <<"change", s>>, <<"record", s>>>>
      BY <2>1
    <2>2. CASE r.todo = <<<<"commit", s>>, <<"log", s>>>>
      BY <2>2
    <2> QED BY <2>1, <2>2 DEF AtCommit
  <1>2. AtChange(r, s) => /\ r.todo # <<>> /\ Head(r.todo) = <<"change", s>> /\ Len(r.todo) # 1
                          /\ Tail(r.todo) = <<<<"record", s>>>>
    BY DEF AtChange
  <1>3. AtRecord(r, s) => r.todo # <<>> /\ Head(r.todo) = <<"record", s>> /\ Len(r.todo) = 1
    BY DEF AtRecord
  <1>4. AtLog(r, s) => r.todo # <<>> /\ Head(r.todo) = <<"log", s>> /\ Len(r.todo) = 1
    BY DEF AtLog
  <1>5. AtReset(r, s) => /\ r.todo # <<>> /\ Head(r.todo) = <<"reset", s>> /\ Len(r.todo) # 1
                         /\ Tail(r.todo) = <<<<"log_rollback", s>>>>
    BY DEF AtReset
  <1>6. AtLogRollback(r, s) => r.todo # <<>> /\ Head(r.todo) = <<"log_rollback", s>> /\ Len(r.todo) = 1
    BY DEF AtLogRollback
  <1> QED BY <1>1, <1>2, <1>3, <1>4, <1>5, <1>6

LEMMA RepairingIs ==
  ASSUME NEW r \in CallRecord, Repairing(r)
  PROVE  /\ r.todo # <<>> /\ Len(r.todo) \in Nat /\ Len(r.todo) >= 1
         /\ Head(r.todo) = r.todo[1] /\ r.todo[1] \in Reconciling \X setting.streams
  <1>1. PICK k : k = r.todo
    OBVIOUS
  <1>2. k \in Seq(Names \X Streams) /\ k # <<>>
    BY <1>1 DEF CallRecord, Repairing
  <1>3. Len(k) \in Nat /\ Len(k) >= 1 /\ Head(k) = k[1] /\ 1 \in 1 .. Len(k)
    BY <1>2
  <1> QED BY <1>1, <1>2, <1>3 DEF Repairing

\* A call writes one stream, and what it has left tells which.
LEMMA WritesOne ==
  ASSUME NEW r, NEW s, NEW t, Writing(r, s), Head(r.todo)[2] = t
  PROVE  s = t
  <1>1. Head(r.todo)[2] = s
    BY ListsAre DEF Writing, Committed
  <1> QED BY <1>1

LEMMA RepairsOnly ==
  ASSUME NEW r \in CallRecord, Repairing(r), NEW s
  PROVE  ~ Writing(r, s)
  <1>1. Head(r.todo) \in Reconciling \X setting.streams
    BY RepairingIs
  <1>2. Head(r.todo)[1] \in {"read", "insert", "create"}
    BY <1>1 DEF Reconciling
  <1>3. Writing(r, s) => Head(r.todo)[1] \in {"commit", "change", "record", "log", "reset", "log_rollback"}
    BY ListsAre DEF Writing, Committed
  <1> QED BY <1>2, <1>3

LEMMA WritesAre ==
  ASSUME NEW r, NEW t, Writing(r, t)
  PROVE  1 \in DOMAIN r.todo /\ \A i \in DOMAIN r.todo : r.todo[i][2] = t /\ r.todo[i][1] \notin Reconciling
  <1>0. CASE r.todo = <<<<"commit", t>>, <<"change", t>>, <<"record", t>>>>
    BY <1>0 DEF Reconciling
  <1>1. CASE r.todo = <<<<"commit", t>>, <<"log", t>>>>
    BY <1>1 DEF Reconciling
  <1>2. CASE AtChange(r, t)
    BY <1>2 DEF AtChange, Reconciling
  <1>3. CASE AtRecord(r, t)
    BY <1>3 DEF AtRecord, Reconciling
  <1>4. CASE AtLog(r, t)
    BY <1>4 DEF AtLog, Reconciling
  <1>5. CASE AtReset(r, t)
    BY <1>5 DEF AtReset, Reconciling
  <1>6. CASE AtLogRollback(r, t)
    BY <1>6 DEF AtLogRollback, Reconciling
  <1> QED BY <1>0, <1>1, <1>2, <1>3, <1>4, <1>5, <1>6 DEF Writing, Committed, AtCommit

LEMMA WritingIs ==
  ASSUME NEW r \in CallRecord, CallOK(r), NEW s \in Streams
  PROVE  (\E i \in DOMAIN r.todo : r.todo[i][2] = s /\ r.todo[i][1] \notin Reconciling) <=> Writing(r, s)
  <1>1. CASE r.todo = <<>>
    <2>1. ~ Writing(r, s)
      BY <1>1, ListsAre DEF Writing, Committed
    <2> QED BY <1>1, <2>1
  <1>2. CASE Repairing(r)
    <2>1. ~ Writing(r, s)
      BY <1>2, RepairsOnly
    <2>2. DOMAIN r.todo = 1 .. Len(r.todo)
      BY DEF CallRecord
    <2>3. \A i \in DOMAIN r.todo : r.todo[i][1] \in Reconciling
      BY <1>2, <2>2 DEF Repairing
    <2> QED BY <2>1, <2>3
  <1>3. ASSUME NEW t \in Streams, Writing(r, t)
        PROVE  (\E i \in DOMAIN r.todo : r.todo[i][2] = s /\ r.todo[i][1] \notin Reconciling) <=> Writing(r, s)
    <2>1. 1 \in DOMAIN r.todo /\ \A i \in DOMAIN r.todo : r.todo[i][2] = t /\ r.todo[i][1] \notin Reconciling
      BY <1>3, WritesAre
    <2>2. Head(r.todo)[2] = t
      BY <1>3, ListsAre DEF Writing, Committed
    <2>3. Writing(r, s) => s = t
      BY <2>2, WritesOne
    <2> QED BY <2>1, <2>3, <1>3
  <1> QED BY <1>1, <1>2, <1>3 DEF CallOK

LEMMA WorkingIs ==
  ASSUME CallTypes, NEW s \in Streams
  PROVE  Working(s) <=> \E p \in Procs : Writing(call[p], s)
  <1>1. ASSUME NEW p \in Procs
        PROVE  (\E i \in DOMAIN call[p].todo :
                  call[p].todo[i][2] = s /\ call[p].todo[i][1] \notin Reconciling) <=> Writing(call[p], s)
    BY WritingIs DEF CallTypes
  <1> QED BY <1>1 DEF Working

-----------------------------------------------------------------------------
(* What steps do to the calls *)

\* A call is fit as long as the branch it writes is there and its commits stay.
LEMMA FitStays ==
  ASSUME NEW r, CallOK(r), setting' = setting, Commits \subseteq Commits', changes \subseteq changes',
         \A s \in Streams : Writing(r, s) /\ head[s] # Missing =>
           head'[s] # Missing /\ (head[s] >= 2 => head'[s] >= 2)
  PROVE  CallOK(r)'
  <1>1. r \in CallRecord /\ r.commit \in Commits' /\ r.before \in Commits'
    BY DEF CallOK
  <1>2. Repairing(r) => Repairing(r)'
    BY DEF Repairing
  <1>3. \A s \in Streams : Writing(r, s) /\ Fit(r, s) => Writing(r, s) /\ Fit(r, s)'
    <2> TAKE s \in Streams
    <2> HAVE Writing(r, s) /\ Fit(r, s)
    <2>1. s \in setting'.streams /\ head'[s] # Missing
      BY DEF Fit
    <2>2. Committed(r, s) => r.commit >= 2 /\ head'[s] >= 2
      BY DEF Fit
    <2>3. AtRecord(r, s) => r.commit \in changes'
      BY DEF Fit
    <2> QED BY <2>1, <2>2, <2>3 DEF Fit, Committed, AtChange, AtRecord, AtLog
  <1> QED BY <1>1, <1>2, <1>3 DEF CallOK, Writing, Committed, AtCommit, AtChange, AtRecord, AtLog, AtReset, AtLogRollback

\* A step of p that moves branches only under its own call, or not so as to disturb another
LEMMA CallsMove ==
  ASSUME CallTypes, setting' = setting, Commits \subseteq Commits', changes \subseteq changes',
         NEW p \in Procs, NEW r \in CallRecord, call' = [call EXCEPT ![p] = r], CallOK(r)',
         \A s \in Streams : Writing(r, s) => Writing(call[p], s) \/ ~ Working(s),
         \A q \in Procs, s \in Streams : q # p /\ Writing(call[q], s) /\ head[s] # Missing =>
           head'[s] # Missing /\ (head[s] >= 2 => head'[s] >= 2)
  PROVE  CallTypes'
  <1>1. call' \in [Procs -> CallRecord] /\ call'[p] = r /\ \A q \in Procs : q # p => call'[q] = call[q]
    BY DEF CallTypes
  <1>2. \A q \in Procs : CallOK(call[q])'
    <2> TAKE q \in Procs
    <2>1. CASE q = p
      BY <1>1, <2>1
    <2>2. CASE q # p
      <3>1. PICK c : c = call[q]
        OBVIOUS
      <3>2. CallOK(c)
        BY <3>1 DEF CallTypes
      <3>3. CallOK(c)'
        BY <3>1, <3>2, <2>2, FitStays
      <3>4. call'[q] = c
        BY <1>1, <2>2, <3>1
      <3> QED BY <3>3, <3>4
    <2> QED BY <2>1, <2>2
  <1>3. \A q, w \in Procs, s \in Streams : Writing(call'[q], s) /\ Writing(call'[w], s) => q = w
    <2>1. \A q, w \in Procs, s \in Streams : Writing(call[q], s) /\ Writing(call[w], s) => q = w
      BY DEF CallTypes
    <2>2. \A s \in Streams : Working(s) <=> \E q \in Procs : Writing(call[q], s)
      BY WorkingIs
    <2> QED BY <1>1, <2>1, <2>2
  <1> QED BY <1>1, <1>2, <1>3 DEF CallTypes, Writing, Committed, AtCommit, AtChange, AtRecord, AtLog, AtReset, AtLogRollback

\* A step that is of no call
LEMMA CallsStay ==
  ASSUME CallTypes, setting' = setting, Commits \subseteq Commits', changes \subseteq changes', call' = call,
         \A s \in Streams : Working(s) /\ head[s] # Missing =>
           head'[s] # Missing /\ (head[s] >= 2 => head'[s] >= 2)
  PROVE  CallTypes'
  <1>1. \A s \in Streams : Working(s) <=> \E q \in Procs : Writing(call[q], s)
    BY WorkingIs
  <1>2. \A q \in Procs : CallOK(call[q])'
    <2> TAKE q \in Procs
    <2>1. PICK c : c = call[q]
      OBVIOUS
    <2>2. CallOK(c)
      BY <2>1 DEF CallTypes
    <2>3. CallOK(c)'
      BY <1>1, <2>1, <2>2, FitStays
    <2> QED BY <2>1, <2>3
  <1> QED BY <1>2 DEF CallTypes, Writing, Committed, AtCommit, AtChange, AtRecord, AtLog, AtReset, AtLogRollback

-----------------------------------------------------------------------------
(* A call after the statement it is at *)

LEMMA NoCallIs ==
  ASSUME GitTypes
  PROVE  /\ NoCall \in CallRecord /\ NoCall.todo = <<>> /\ CallOK(NoCall)
         /\ \A s : ~ Writing(NoCall, s) /\ ~ AtInsert(NoCall, s)
         /\ ~ Repairing(NoCall)
  <1>1. NoCall.todo = <<>> /\ <<>> \in Seq(Names \X Streams)
    BY DEF NoCall
  <1>2. NoCall \in CallRecord
    BY <1>1 DEF NoCall, CallRecord
  <1>3. \A s : ~ Writing(NoCall, s)
    BY <1>1, ListsAre DEF Writing, Committed
  <1>4. 1 \in Commits
    BY DEF GitTypes, Commits
  <1>5. NoCall.commit = 1 /\ NoCall.before = 1
    BY DEF NoCall
  <1> QED BY <1>1, <1>2, <1>3, <1>4, <1>5 DEF CallOK, Repairing, AtInsert

LEMMA AfterIs ==
  ASSUME NEW r \in CallRecord, r.todo # <<>>, NEW c \in Nat, NEW b \in Nat
  PROVE  /\ After(r, c, b) \in CallRecord
         /\ Len(r.todo) = 1 => After(r, c, b) = NoCall
         /\ Len(r.todo) # 1 => /\ After(r, c, b).todo = Tail(r.todo) /\ After(r, c, b).commit = c
                               /\ After(r, c, b).before = b /\ After(r, c, b).back = r.back
  <1>1. PICK k : k = r.todo
    OBVIOUS
  <1>2. k \in Seq(Names \X Streams) /\ r.back \in Nat
    BY <1>1 DEF CallRecord
  <1>3. Tail(k) \in Seq(Names \X Streams)
    BY <1>1, <1>2
  <1>4. <<>> \in Seq(Names \X Streams)
    OBVIOUS
  <1>5. NoCall \in CallRecord
    BY <1>4 DEF NoCall, CallRecord
  <1> QED BY <1>1, <1>2, <1>3, <1>5 DEF After, CallRecord

LEMMA AfterWriting ==
  ASSUME NEW r \in CallRecord, NEW s, NEW c \in Nat, NEW b \in Nat
  PROVE  /\ AtCommit(r, s) => AtChange(After(r, c, b), s) \/ AtLog(After(r, c, b), s)
         /\ AtChange(r, s) => AtRecord(After(r, c, b), s)
         /\ AtReset(r, s) => AtLogRollback(After(r, c, b), s)
         /\ AtRecord(r, s) \/ AtLog(r, s) \/ AtLogRollback(r, s) => After(r, c, b) = NoCall
  <1>0. r.todo # <<>> /\ Len(r.todo) # 1 => After(r, c, b).todo = Tail(r.todo)
    BY AfterIs
  <1>1. ASSUME AtCommit(r, s) PROVE AtChange(After(r, c, b), s) \/ AtLog(After(r, c, b), s)
    BY <1>0, <1>1, ListsAre DEF AtChange, AtLog
  <1>2. ASSUME AtChange(r, s) PROVE AtRecord(After(r, c, b), s)
    BY <1>0, <1>2, ListsAre DEF AtRecord
  <1>3. ASSUME AtReset(r, s) PROVE AtLogRollback(After(r, c, b), s)
    BY <1>0, <1>3, ListsAre DEF AtLogRollback
  <1>4. AtRecord(r, s) \/ AtLog(r, s) \/ AtLogRollback(r, s) => After(r, c, b) = NoCall
    BY ListsAre, AfterIs
  <1> QED BY <1>1, <1>2, <1>3, <1>4

LEMMA AfterRepairing ==
  ASSUME NEW r \in CallRecord, Repairing(r), NEW c \in Nat, NEW b \in Nat
  PROVE  \/ After(r, c, b) = NoCall
         \/ Repairing(After(r, c, b)) /\ \A s : ~ AtInsert(After(r, c, b), s)
  <1>1. PICK k : k = r.todo
    OBVIOUS
  <1>2. k \in Seq(Names \X Streams) /\ k # <<>> /\ Len(k) \in Nat /\ Len(k) >= 1
    BY <1>1, RepairingIs DEF CallRecord
  <1>3. CASE Len(k) = 1
    BY <1>1, <1>2, <1>3, AfterIs
  <1>4. CASE Len(k) # 1
    <2>9. \A n \in Nat : n >= 1 /\ n # 1 => n >= 2 /\ n - 1 # 0
      OBVIOUS
    <2>0. Len(k) >= 2 /\ Len(k) - 1 # 0
      BY <1>2, <1>4, <2>9
    <2>1. /\ Len(Tail(k)) = Len(k) - 1 /\ Tail(k) # <<>>
          /\ \A i \in 1 .. Len(k) - 1 : Tail(k)[i] = k[i + 1] /\ i + 1 \in 1 .. Len(k) /\ i + 1 > 1
      <3>1. Len(Tail(k)) = Len(k) - 1 /\ \A i \in 1 .. Len(k) - 1 : Tail(k)[i] = k[i + 1]
        BY <1>2
      <3>2. Tail(k) # <<>>
        <4>1. Len(<<>>) = 0
          OBVIOUS
        <4> QED BY <2>0, <3>1, <4>1
      <3>3. \A i \in 1 .. Len(k) - 1 : i + 1 \in 1 .. Len(k) /\ i + 1 > 1
        BY <1>2
      <3> QED BY <3>1, <3>2, <3>3
    <2>2. \A i \in 1 .. Len(k) - 1 : Tail(k)[i] \in Reconciling \X setting.streams /\ Tail(k)[i][1] # "insert"
      BY <1>1, <2>1 DEF Repairing
    <2>3. After(r, c, b).todo = Tail(k)
      BY <1>1, <1>2, <1>4, AfterIs
    <2>4. Repairing(After(r, c, b))
      BY <2>1, <2>2, <2>3 DEF Repairing
    <2>5. 1 \in 1 .. Len(k) - 1
      BY <1>2, <2>0
    <2>6. Tail(k)[1][1] # "insert"
      BY <2>2, <2>5
    <2>7. \A s : ~ AtInsert(After(r, c, b), s)
      BY <2>3, <2>6 DEF AtInsert
    <2> QED BY <2>4, <2>7
  <1> QED BY <1>3, <1>4

\* What is left tells where the call is.
LEMMA StatementIs ==
  ASSUME NEW r \in CallRecord, CallOK(r), NEW s \in Streams, NEW x, r.todo # <<>>, Head(r.todo) = <<x, s>>
  PROVE  /\ x = "commit" => AtCommit(r, s) /\ Fit(r, s)
         /\ x = "change" => AtChange(r, s) /\ Fit(r, s)
         /\ x = "record" => AtRecord(r, s) /\ Fit(r, s)
         /\ x = "log" => AtLog(r, s) /\ Fit(r, s)
         /\ x = "reset" => AtReset(r, s) /\ Fit(r, s)
         /\ x = "log_rollback" => AtLogRollback(r, s) /\ Fit(r, s)
         /\ x \in Reconciling => Repairing(r) /\ s \in setting.streams
         /\ x = "insert" => AtInsert(r, s)
         /\ x \notin Reconciling => Writing(r, s)
  <1>1. CASE Repairing(r)
    <2>1. <<x, s>> \in Reconciling \X setting.streams /\ r.todo[1] = <<x, s>>
      BY <1>1, RepairingIs
    <2>2. x \in {"read", "insert", "create"} /\ s \in setting.streams
      BY <2>1 DEF Reconciling
    <2> QED BY <1>1, <2>1, <2>2 DEF AtInsert, Reconciling
  <1>2. CASE ~ Repairing(r)
    <2>1. PICK t \in Streams : Writing(r, t) /\ Fit(r, t)
      BY <1>2 DEF CallOK
    <2>2. t = s
      BY <2>1, WritesOne
    <2>3. Writing(r, s) /\ Fit(r, s)
      BY <2>1, <2>2
    <2>4. x \in {"commit", "change", "record", "log", "reset", "log_rollback"}
      BY <2>3, ListsAre DEF Writing, Committed
    <2>5. /\ AtCommit(r, s) => x = "commit"
          /\ AtChange(r, s) => x = "change"
          /\ AtRecord(r, s) => x = "record"
          /\ AtLog(r, s) => x = "log"
          /\ AtReset(r, s) => x = "reset"
          /\ AtLogRollback(r, s) => x = "log_rollback"
      BY ListsAre
    <2> QED BY <2>3, <2>4, <2>5 DEF Writing, Committed, Reconciling
  <1> QED BY <1>1, <1>2

-----------------------------------------------------------------------------
(* What steps do to the git side and to the log *)

LEMMA LaterIs ==
  ASSUME LogTypes
  PROVE  Later \in Nat /\ Later >= clock /\ \A o \in DOMAIN ops : ops[o].time < Later
  <1>1. clock \in Nat /\ \A o \in DOMAIN ops : ops[o].time \in Nat /\ ops[o].time <= clock
    <2>1. \A o \in DOMAIN ops : ops[o] \in OperationRecord /\ OperationOK(ops[o], o)
      BY DEF LogTypes
    <2> QED BY <2>1 DEF LogTypes, OperationRecord, OperationOK
  <1> QED BY <1>1 DEF Later

LEMMA LogStays ==
  ASSUME LogTypes, setting' = setting, Commits \subseteq Commits', changes \subseteq changes',
         ops' = ops, clock' \in Nat, clock' >= clock, crashes' \in 0 .. setting.crashes
  PROVE  LogTypes'
  <1>1. \A o \in DOMAIN ops : OperationOK(ops[o], o)'
    <2> TAKE o \in DOMAIN ops
    <2>1. PICK op : op = ops[o]
      OBVIOUS
    <2>2. OperationOK(op, o) /\ op \in OperationRecord /\ clock \in Nat
      BY <2>1 DEF LogTypes
    <2> op.time \in Nat
      BY <2>2 DEF OperationRecord
    <2>3. OperationOK(op, o)'
      BY <2>2 DEF OperationOK
    <2> QED BY <2>1, <2>3
  <1> QED BY <1>1 DEF LogTypes

LEMMA LogGrows ==
  ASSUME LogTypes, setting' = setting, Commits \subseteq Commits', changes \subseteq changes',
         NEW op \in OperationRecord, ops' = Append(ops, op),
         NEW z, z = Len(ops) + 1, OperationOK(op, z)',
         clock' \in Nat, clock' >= clock, crashes' = crashes
  PROVE  LogTypes'
  <1>1. /\ ops' \in Seq(OperationRecord) /\ DOMAIN ops' = 1 .. Len(ops) + 1
        /\ Len(ops) \in Nat /\ ops'[Len(ops) + 1] = op
        /\ \A o \in DOMAIN ops : ops'[o] = ops[o]
    BY DEF LogTypes
  <1>2. \A o \in DOMAIN ops' : OperationOK(ops[o], o)'
    <2> TAKE o \in DOMAIN ops'
    <2>1. CASE o = z
      <3>1. OperationOK(op, z)' /\ ops'[o] = op
        BY <1>1, <2>1
      <3> QED BY <2>1, <3>1
    <2>2. CASE o # z
      <3>1. PICK w : w = ops[o]
        OBVIOUS
      <3>2. o \in DOMAIN ops
        BY <1>1, <2>2 DEF LogTypes
      <3>3. OperationOK(w, o) /\ w \in OperationRecord /\ clock \in Nat
        BY <3>1, <3>2 DEF LogTypes
      <3>5. ops'[o] = w
        BY <1>1, <3>1, <3>2
      <3> w.time \in Nat
        BY <3>3 DEF OperationRecord
      <3>4. OperationOK(w, o)'
        BY <3>3 DEF OperationOK
      <3> QED BY <3>4, <3>5
    <2> QED BY <2>1, <2>2
  <1> QED BY <1>1, <1>2 DEF LogTypes

LEMMA GitGrows ==
  ASSUME GitTypes, NEW h \in Commits, up' = Append(up, h)
  PROVE  /\ up' \in Seq(Nat) /\ Len(up') = Len(up) + 1 /\ Len(up') >= 2 /\ Len(up') \in Nat
         /\ up'[1] = 0 /\ 1 \in Commits'
         /\ \A c \in 2 .. Len(up') : up'[c] \in 1 .. c - 1
         /\ Commits \subseteq Commits' /\ Len(up') \in Commits'
         /\ up'[Len(up')] = h /\ \A c \in Commits : up'[c] = up[c]
  <1>1. /\ Len(up) \in Nat /\ Len(up) >= 1 /\ up \in Seq(Nat) /\ h \in 1 .. Len(up) /\ h \in Nat
        /\ up[1] = 0 /\ \A c \in 2 .. Len(up) : up[c] \in 1 .. c - 1
    BY DEF GitTypes, Commits
  <1>2. /\ up' \in Seq(Nat) /\ Len(up') = Len(up) + 1 /\ up'[Len(up) + 1] = h
        /\ \A c \in 1 .. Len(up) : up'[c] = up[c]
    BY <1>1
  <1>3. \A c \in 2 .. Len(up') : up'[c] \in 1 .. c - 1
    <2> TAKE c \in 2 .. Len(up')
    <2>1. CASE c = Len(up) + 1
      BY <2>1, <1>1, <1>2
    <2>2. CASE c # Len(up) + 1
      <3>1. c \in 2 .. Len(up) /\ c \in 1 .. Len(up)
        BY <2>2, <1>1, <1>2
      <3>2. up'[c] = up[c] /\ up[c] \in 1 .. c - 1
        BY <3>1, <1>1, <1>2
      <3> QED BY <3>2
    <2> QED BY <2>1, <2>2
  <1>4. Len(up') \in Nat /\ Len(up') >= 2
    BY <1>1, <1>2
  <1>5. Commits \subseteq Commits' /\ 1 \in Commits' /\ Len(up') \in Commits'
    BY <1>1, <1>2, <1>4 DEF Commits
  <1>6. up'[1] = 0
    BY <1>1, <1>2
  <1>7. \A c \in Commits : up'[c] = up[c]
    BY <1>2 DEF Commits
  <1> QED BY <1>1, <1>2, <1>3, <1>4, <1>5, <1>6, <1>7

-----------------------------------------------------------------------------
(* The statements keep the types *)

LEMMA SameGit ==
  ASSUME GitTypes, UNCHANGED <<setting, up, head, base, status, changes>>
  PROVE  GitTypes' /\ Commits' = Commits
  BY DEF GitTypes, Commits

\* What every statement of p finds
At(p, s) ==
  /\ call[p] \in CallRecord /\ CallOK(call[p]) /\ call[p].commit \in Commits /\ call[p].before \in Commits
  /\ call[p].commit \in Nat /\ call[p].before \in Nat
  /\ call[p].todo # <<>> /\ crashes \in 0 .. setting.crashes /\ clock \in Nat

LEMMA AtIs ==
  ASSUME Types, NEW p \in Procs, NEW s \in Streams, NEW x, Does(p, x, s)
  PROVE  At(p, s) /\ Head(call[p].todo) = <<x, s>>
  BY DEF Types, LogTypes, CallTypes, CallOK, Does, Idle, At, Commits

\* p is the only one that writes s.
LEMMA OnlyWriter ==
  ASSUME CallTypes, NEW p \in Procs, NEW q \in Procs, q # p, NEW s \in Streams, Writing(call[p], s),
         NEW t \in Streams, Writing(call[q], t)
  PROVE  t # s
  BY DEF CallTypes

LEMMA GitCommitTypes ==
  ASSUME Types, NEW p \in Procs, NEW s \in Streams, GitCommit(p, s)
  PROVE  Types'
  <1> USE DEF Types
  <1>1. PICK r : r = call[p]
    OBVIOUS
  <1>2. r \in CallRecord /\ AtCommit(r, s) /\ Fit(r, s) /\ At(p, s)
    BY <1>1, AtIs, StatementIs DEF GitCommit, At
  <1>3. head[s] \in Commits /\ up' = Append(up, head[s])
    BY <1>2 DEF GitCommit, Fit, GitTypes
  <1>4. PICK n : n = Len(up')
    OBVIOUS
  <1>5. /\ up' \in Seq(Nat) /\ n >= 2 /\ n \in Nat /\ up'[1] = 0
        /\ \A c \in 2 .. Len(up') : up'[c] \in 1 .. c - 1
        /\ Commits \subseteq Commits' /\ n \in Commits' /\ 1 \in Commits'
    BY <1>3, <1>4, GitGrows
  <1>6. head' = [head EXCEPT ![s] = n] /\ setting' = setting /\ changes' = changes /\ ops' = ops /\ crashes' = crashes
    BY <1>4 DEF GitCommit
  <1>7. GitTypes'
    <2>1. head' \in [Streams -> Commits' \cup {Missing}]
      BY <1>5, <1>6 DEF GitTypes
    <2>2. base' \in [Streams -> Commits'] /\ status' \in [Streams -> {"active", "conflicted"}] /\ changes' \subseteq Commits'
      BY <1>5, <1>6 DEF GitTypes, GitCommit
    <2> QED BY <2>1, <2>2, <1>4, <1>5, <1>6 DEF GitTypes
  <1>8. LogTypes'
    BY <1>2, <1>5, <1>6, LaterIs, LogStays DEF GitCommit, TimePasses, LogTypes
  <1>9. PICK a : a = After(r, n, 1)
    OBVIOUS
  <1>10. a \in CallRecord /\ a.commit = n /\ a.before = 1 /\ (AtChange(a, s) \/ AtLog(a, s))
    <2>1. r.todo # <<>> /\ Len(r.todo) # 1 /\ 1 \in Nat
      BY <1>2, ListsAre
    <2>2. a \in CallRecord /\ a.commit = n /\ a.before = 1
      BY <1>2, <1>5, <1>9, <2>1, AfterIs
    <2>3. AtChange(a, s) \/ AtLog(a, s)
      BY <1>2, <1>5, <1>9, <2>1, AfterWriting
    <2> QED BY <2>2, <2>3
  <1>11. call' = [call EXCEPT ![p] = a]
    BY <1>1, <1>4, <1>9 DEF GitCommit, Done
  <1>12. head'[s] = n /\ \A t \in Streams : t # s => head'[t] = head[t]
    BY <1>6 DEF GitTypes
  <1>13. n # Missing /\ s \in setting'.streams
    BY <1>2, <1>5, <1>6 DEF Missing, Fit
  <1>14. ~ AtRecord(a, s)
    BY <1>10 DEF AtChange, AtLog, AtRecord
  <1>15. Writing(a, s) /\ Fit(a, s)'
    BY <1>5, <1>10, <1>12, <1>13, <1>14
       DEF Fit, Writing, Committed, AtCommit, AtChange, AtRecord, AtLog, AtReset, AtLogRollback
  <1>16. CallOK(a)'
    BY <1>5, <1>10, <1>15 DEF CallOK, Writing, Committed, AtCommit, AtChange, AtRecord, AtLog, AtReset, AtLogRollback
  <1>17. Writing(r, s) /\ \A t : Writing(a, t) => t = s
    BY <1>2, <1>10, ListsAre, WritesOne DEF Writing, Committed
  <1>18. \A q \in Procs, t \in Streams : q # p /\ Writing(call[q], t) => t # s
    BY <1>1, <1>17, OnlyWriter
  <1>19. CallTypes'
    BY <1>1, <1>5, <1>6, <1>10, <1>11, <1>12, <1>16, <1>17, <1>18, CallsMove
  <1> QED BY <1>7, <1>8, <1>19

LEMMA CreateChangeTypes ==
  ASSUME Types, NEW p \in Procs, NEW s \in Streams, CreateChange(p, s)
  PROVE  Types'
  <1> USE DEF Types
  <1>1. PICK r : r = call[p]
    OBVIOUS
  <1>2. r \in CallRecord /\ AtChange(r, s) /\ Fit(r, s) /\ At(p, s)
    BY <1>1, AtIs, StatementIs DEF CreateChange, At
  <1>3. changes' = changes \cup {r.commit} /\ UNCHANGED <<setting, up, head, base, status, ops, clock, crashes>>
    BY <1>1 DEF CreateChange
  <1>4. GitTypes' /\ Commits' = Commits
    BY <1>1, <1>2, <1>3 DEF GitTypes, At, Commits
  <1>5. LogTypes'
    BY <1>2, <1>3, <1>4, LogStays DEF At
  <1>6. PICK a : a = After(r, r.commit, r.before)
    OBVIOUS
  <1>7. a \in CallRecord /\ a.commit = r.commit /\ a.before = r.before /\ AtRecord(a, s)
    BY <1>1, <1>2, <1>6, AfterIs, AfterWriting, ListsAre DEF At
  <1>8. call' = [call EXCEPT ![p] = a]
    BY <1>1, <1>6 DEF CreateChange, Proceed, Done
  <1>9. Writing(r, s) /\ Writing(a, s) /\ \A t : Writing(a, t) => t = s
    BY <1>2, <1>7, ListsAre, WritesOne DEF Writing, Committed
  <1>10. Fit(a, s)'
    <2>1. s \in setting.streams /\ head[s] # Missing /\ r.commit >= 2 /\ head[s] >= 2
      BY <1>2 DEF Fit, Committed
    <2> QED BY <1>3, <1>7, <2>1 DEF Fit, Committed, AtChange, AtRecord, AtLog
  <1>11. CallOK(a)'
    BY <1>1, <1>2, <1>4, <1>7, <1>9, <1>10
       DEF At, CallOK, Writing, Committed, AtCommit, AtChange, AtRecord, AtLog, AtReset, AtLogRollback
  <1>12. CallTypes'
    BY <1>1, <1>3, <1>4, <1>7, <1>8, <1>9, <1>11, CallsMove
  <1> QED BY <1>4, <1>5, <1>12

\* A step that only ends the call of p, whatever it logs
LEMMA CallEnds ==
  ASSUME GitTypes, CallTypes, UNCHANGED <<setting, up, head, base, status, changes>>,
         NEW p \in Procs, call' = [call EXCEPT ![p] = NoCall]
  PROVE  GitTypes' /\ CallTypes'
  <1>1. GitTypes' /\ Commits' = Commits
    BY SameGit
  <1>2. NoCall \in CallRecord /\ CallOK(NoCall)' /\ \A s : ~ Writing(NoCall, s)
    <2>1. NoCall \in CallRecord /\ CallOK(NoCall) /\ \A s : ~ Writing(NoCall, s)
      BY NoCallIs
    <2>2. CallOK(NoCall)'
      BY <1>1, <2>1, FitStays
    <2> QED BY <2>1, <2>2
  <1>3. CallTypes'
    BY <1>1, <1>2, CallsMove
  <1> QED BY <1>1, <1>3

LEMMA OperationIs ==
  ASSUME NEW s \in setting.streams, setting \in Setting, NEW type \in OperationTypes, NEW b \in Nat, NEW a \in Nat,
         NEW w \in Nat, NEW time \in Nat
  PROVE  Operation(s, type, b, a, w, time) \in OperationRecord
  BY DEF Operation, OperationRecord, Setting

\* A statement that logs an operation
LEMMA RecordLog ==
  ASSUME Types, UNCHANGED <<setting, up, head, base, status, changes, crashes>>,
         NEW s \in setting.streams, NEW type \in OperationTypes, NEW b \in Commits, NEW a \in Commits,
         NEW w \in Nat, w <= Len(ops), NEW time \in Nat, time <= clock', clock' \in Nat, clock' >= clock,
         type = "commit" => a \in changes,
         RecordOperation(Operation(s, type, b, a, w, time))
  PROVE  LogTypes'
  <1> USE DEF Types
  <1>1. GitTypes' /\ Commits' = Commits
    BY SameGit
  <1>2. PICK op : op = Operation(s, type, b, a, w, time)
    OBVIOUS
  <1>3. b \in Nat /\ a \in Nat
    BY DEF Commits
  <1>4. op \in OperationRecord
    BY <1>2, <1>3, OperationIs DEF GitTypes
  <1>5. /\ op.stream = s /\ op.type = type /\ op.before = b /\ op.after = a /\ op.parent = w
        /\ op.time = time
    BY <1>2 DEF Operation
  <1>6. PICK z : z = Len(ops) + 1
    OBVIOUS
  <1>7. w < z
    BY <1>6 DEF LogTypes
  <1>8. OperationOK(op, z)'
    BY <1>1, <1>5, <1>7 DEF OperationOK
  <1>9. ops' = Append(ops, op)
    BY <1>2 DEF RecordOperation
  <1> QED BY <1>1, <1>4, <1>6, <1>8, <1>9, LogGrows

\* A statement that logs an operation, the last of its call
LEMMA RecordTypes ==
  ASSUME Types, UNCHANGED <<setting, up, head, base, status, changes, crashes>>,
         NEW p \in Procs, call' = [call EXCEPT ![p] = NoCall],
         NEW s \in setting.streams, NEW type \in OperationTypes, NEW b \in Commits, NEW a \in Commits,
         NEW w \in Nat, w <= Len(ops), NEW time \in Nat, time <= clock', clock' \in Nat, clock' >= clock,
         type = "commit" => a \in changes,
         RecordOperation(Operation(s, type, b, a, w, time))
  PROVE  Types'
  <1>1. GitTypes' /\ CallTypes'
    BY CallEnds DEF Types
  <1>2. LogTypes'
    BY RecordLog
  <1> QED BY <1>1, <1>2 DEF Types

\* What a statement that is the last of its call leaves
LEMMA LastEnds ==
  ASSUME Types, NEW p \in Procs, NEW s \in Streams, AtRecord(call[p], s) \/ AtLog(call[p], s) \/ AtLogRollback(call[p], s),
         Proceed(p)
  PROVE  call' = [call EXCEPT ![p] = NoCall]
  <1>1. PICK r : r = call[p]
    OBVIOUS
  <1>2. r \in CallRecord /\ r.commit \in Nat /\ r.before \in Nat
    BY <1>1 DEF Types, CallTypes, CallRecord
  <1>3. After(r, r.commit, r.before) = NoCall
    BY <1>1, <1>2, AfterWriting
  <1> QED BY <1>1, <1>3 DEF Proceed, Done

LEMMA UpIs ==
  ASSUME GitTypes, NEW c \in Commits, c >= 2
  PROVE  up[c] \in Commits
  BY DEF GitTypes, Commits

LEMMA RecordCommitTypes ==
  ASSUME Types, NEW p \in Procs, NEW s \in Streams, RecordCommit(p, s)
  PROVE  Types'
  <1>1. PICK r : r = call[p]
    OBVIOUS
  <1>2. r \in CallRecord /\ AtRecord(r, s) /\ Fit(r, s) /\ At(p, s)
    BY <1>1, AtIs, StatementIs DEF RecordCommit, At
  <1>3. call' = [call EXCEPT ![p] = NoCall]
    BY <1>1, <1>2, LastEnds DEF RecordCommit
  <1>4. s \in setting.streams /\ head[s] >= 2 /\ head[s] \in Commits /\ r.commit \in Commits /\ r.commit \in changes
    BY <1>1, <1>2 DEF Fit, Committed, Types, GitTypes, Missing, At
  <1>5. PICK b \in Commits : b = up[head[s]]
    BY <1>4, UpIs DEF Types
  <1>6. PICK z : z = Later
    OBVIOUS
  <1>7. z \in Nat /\ z >= clock
    BY <1>6, LaterIs DEF Types
  <1>8. RecordOperation(Operation(s, "commit", b, r.commit, NoOp, z)) /\ clock' = z
        /\ UNCHANGED <<setting, up, head, base, status, changes, crashes>>
    BY <1>1, <1>5, <1>6 DEF RecordCommit, TimePasses
  <1>9. NoOp \in Nat /\ NoOp <= Len(ops) /\ "commit" \in OperationTypes
    BY DEF NoOp, OperationTypes, Types, LogTypes
  <1>10. z <= clock' /\ clock' \in Nat /\ clock' >= clock
    BY <1>7, <1>8
  <1> QED BY <1>3, <1>4, <1>7, <1>8, <1>9, <1>10, RecordTypes

LEMMA LatestAre ==
  ASSUME NEW s
  PROVE  LatestOperations(s) \subseteq OpsOf(s) /\ OpsOf(s) \subseteq DOMAIN ops
  BY DEF LatestOperations, OpsOf

LEMMA RecordByHandTypes ==
  ASSUME Types, NEW p \in Procs, NEW s \in Streams, RecordByHand(p, s)
  PROVE  Types'
  <1>1. PICK r : r = call[p]
    OBVIOUS
  <1>2. r \in CallRecord /\ AtLog(r, s) /\ Fit(r, s) /\ At(p, s)
    BY <1>1, AtIs, StatementIs DEF RecordByHand, At
  <1>3. call' = [call EXCEPT ![p] = NoCall]
    BY <1>1, <1>2, LastEnds DEF RecordByHand
  <1>4. s \in setting.streams /\ r.commit \in Commits /\ r.commit >= 2
    BY <1>1, <1>2 DEF Fit, Committed, At
  <1>5. PICK b \in Commits : b = up[r.commit]
    BY <1>4, UpIs DEF Types
  <1>6. PICK o \in IF OpsOf(s) = {} THEN {NoOp} ELSE LatestOperations(s) :
          RecordOperation(Operation(s, "manual", b, r.commit, o, clock))
    BY <1>1, <1>5 DEF RecordByHand
  <1>7. o \in Nat /\ o <= Len(ops) /\ "manual" \in OperationTypes /\ "manual" # "commit"
    BY <1>6, LatestAre DEF Types, LogTypes, NoOp, OperationTypes
  <1>8. UNCHANGED <<setting, up, head, base, status, changes, clock, crashes>>
    BY DEF RecordByHand
  <1>9. clock \in Nat /\ clock <= clock' /\ clock' \in Nat /\ clock' >= clock
    BY <1>8 DEF Types, LogTypes
  <1> QED BY <1>3, <1>4, <1>6, <1>7, <1>8, <1>9, RecordTypes

LEMMA RecordRollbackTypes ==
  ASSUME Types, NEW p \in Procs, NEW s \in Streams, RecordRollback(p, s)
  PROVE  Types'
  <1>1. PICK r : r = call[p]
    OBVIOUS
  <1>2. r \in CallRecord /\ AtLogRollback(r, s) /\ Fit(r, s) /\ At(p, s)
    BY <1>1, AtIs, StatementIs DEF RecordRollback, At
  <1>3. call' = [call EXCEPT ![p] = NoCall]
    BY <1>1, <1>2, LastEnds DEF RecordRollback
  <1>4. s \in setting.streams /\ r.commit \in Commits /\ r.before \in Commits
    BY <1>1, <1>2 DEF Fit, At
  <1>6. RecordOperation(Operation(s, "rollback", r.before, r.commit, NoOp, clock))
    BY <1>1 DEF RecordRollback
  <1>7. NoOp \in Nat /\ NoOp <= Len(ops) /\ "rollback" \in OperationTypes /\ "rollback" # "commit"
    BY DEF Types, LogTypes, NoOp, OperationTypes
  <1>8. UNCHANGED <<setting, up, head, base, status, changes, clock, crashes>>
    BY DEF RecordRollback
  <1>9. clock \in Nat /\ clock <= clock' /\ clock' \in Nat /\ clock' >= clock
    BY <1>8 DEF Types, LogTypes
  <1> QED BY <1>3, <1>4, <1>6, <1>7, <1>8, <1>9, RecordTypes

\* After the reset, the rollback is not logged yet.
LEMMA ResetHardTypes ==
  ASSUME Types, NEW p \in Procs, NEW s \in Streams, ResetHard(p, s)
  PROVE  Types'
  <1> USE DEF Types
  <1>1. PICK r : r = call[p]
    OBVIOUS
  <1>2. r \in CallRecord /\ AtReset(r, s) /\ Fit(r, s) /\ At(p, s)
    BY <1>1, AtIs, StatementIs DEF ResetHard, At
  <1>3. r.commit \in Commits /\ r.commit # Missing /\ r.before \in Commits /\ r.commit \in Nat /\ r.before \in Nat
    BY <1>1, <1>2 DEF At, Missing, Commits
  <1>4. head' = [head EXCEPT ![s] = r.commit] /\ UNCHANGED <<setting, up, base, status, changes, ops, crashes>>
    BY <1>1 DEF ResetHard
  <1>5. GitTypes' /\ Commits' = Commits
    BY <1>3, <1>4 DEF GitTypes, Commits
  <1>6. LogTypes'
    BY <1>2, <1>4, <1>5, LaterIs, LogStays DEF ResetHard, TimePasses, At
  <1>7. PICK a : a = After(r, r.commit, r.before)
    OBVIOUS
  <1>8. a \in CallRecord /\ a.commit = r.commit /\ a.before = r.before /\ AtLogRollback(a, s)
    BY <1>2, <1>3, <1>7, AfterIs, AfterWriting, ListsAre
  <1>9. call' = [call EXCEPT ![p] = a]
    BY <1>1, <1>7 DEF ResetHard, Proceed, Done
  <1>10. Writing(r, s) /\ Writing(a, s) /\ \A t : Writing(a, t) => t = s
    BY <1>2, <1>8, ListsAre, WritesOne DEF Writing
  <1>11. head'[s] = r.commit /\ \A t \in Streams : t # s => head'[t] = head[t]
    BY <1>4 DEF GitTypes
  <1>12. Fit(a, s)'
    BY <1>2, <1>3, <1>4, <1>8, <1>11 DEF Fit, Committed, AtChange, AtRecord, AtLog, AtLogRollback
  <1>13. CallOK(a)'
    BY <1>3, <1>5, <1>8, <1>10, <1>12
       DEF CallOK, Writing, Committed, AtCommit, AtChange, AtRecord, AtLog, AtReset, AtLogRollback
  <1>14. \A q \in Procs, t \in Streams : q # p /\ Writing(call[q], t) => t # s
    BY <1>1, <1>10, OnlyWriter
  <1>15. CallTypes'
    BY <1>1, <1>4, <1>5, <1>8, <1>9, <1>10, <1>11, <1>13, <1>14, CallsMove
  <1> QED BY <1>5, <1>6, <1>15

\* A call that reconciles goes on reconciling until it ends.
LEMMA RepairGoesOn ==
  ASSUME GitTypes, CallTypes, setting' = setting, Commits' = Commits, changes' = changes,
         \A t \in Streams : head[t] # Missing => head'[t] = head[t],
         NEW p \in Procs, NEW a \in CallRecord, call' = [call EXCEPT ![p] = a],
         a = NoCall \/ Repairing(a), a.commit \in Commits, a.before \in Commits
  PROVE  CallTypes'
  <1>1. \A t : ~ Writing(a, t)
    BY NoCallIs, RepairsOnly
  <1>2. CallOK(a)'
    <2>1. a.todo = <<>> \/ Repairing(a)'
      BY NoCallIs DEF Repairing
    <2> QED BY <2>1 DEF CallOK
  <1> QED BY <1>1, <1>2, CallsMove

LEMMA RepairProceeds ==
  ASSUME GitTypes, CallTypes, setting' = setting, Commits' = Commits, changes' = changes,
         \A t \in Streams : head[t] # Missing => head'[t] = head[t],
         NEW p \in Procs, NEW s \in Streams, At(p, s), Repairing(call[p]), Proceed(p)
  PROVE  CallTypes'
  <1>1. PICK r : r = call[p]
    OBVIOUS
  <1>2. r \in CallRecord /\ Repairing(r) /\ r.commit \in Nat /\ r.before \in Nat /\ r.todo # <<>>
        /\ r.commit \in Commits /\ r.before \in Commits
    BY <1>1 DEF At
  <1>3. PICK a : a = After(r, r.commit, r.before)
    OBVIOUS
  <1>4. a \in CallRecord /\ (a = NoCall \/ Repairing(a))
    BY <1>2, <1>3, AfterIs, AfterRepairing
  <1>5. a.commit \in Commits /\ a.before \in Commits
    <2>1. CASE a = NoCall
      BY <2>1, NoCallIs DEF CallOK
    <2>2. CASE a # NoCall
      BY <1>2, <1>3, <2>2, AfterIs
    <2> QED BY <2>1, <2>2
  <1>6. call' = [call EXCEPT ![p] = a]
    BY <1>1, <1>3 DEF Proceed, Done
  <1> QED BY <1>4, <1>5, <1>6, RepairGoesOn

\* The heads read, to be inserted
Inserting(r, s, c, b) == [todo |-> <<<<"insert", s>>>> \o Tail(r.todo), commit |-> c, before |-> b, back |-> 0]

LEMMA InsertingIs ==
  ASSUME NEW r \in CallRecord, Repairing(r), NEW s \in setting.streams, setting \in Setting,
         NEW c \in Nat, NEW b \in Nat
  PROVE  /\ Inserting(r, s, c, b) \in CallRecord /\ Repairing(Inserting(r, s, c, b))
         /\ AtInsert(Inserting(r, s, c, b), s)
  <1>1. PICK k : k = r.todo
    OBVIOUS
  <1>2. k \in Seq(Names \X Streams) /\ k # <<>> /\ Len(k) \in Nat
    BY <1>1, RepairingIs DEF CallRecord
  <1>3. PICK l : l = Tail(k)
    OBVIOUS
  <1>4. /\ l \in Seq(Names \X Streams) /\ Len(l) \in Nat /\ Len(l) = Len(k) - 1
        /\ \A i \in 1 .. Len(l) : l[i] = k[i + 1]
    BY <1>2, <1>3
  <1>5. s \in Streams /\ <<"insert", s>> \in Names \X Streams
    BY DEF Setting, Names, Reconciling
  <1>6. PICK e : e = <<"insert", s>>
    OBVIOUS
  <1>7. PICK m : m = <<e>> \o l
    OBVIOUS
  <1>8. /\ m \in Seq(Names \X Streams) /\ Len(m) = Len(l) + 1 /\ m[1] = e
        /\ \A i \in 2 .. Len(m) : m[i] = l[i - 1]
    BY <1>4, <1>5, <1>6, <1>7
  <1>9. m # <<>>
    BY <1>4, <1>8
  <1>10. \A i \in 1 .. Len(m) : m[i] \in Reconciling \X setting.streams /\ (i > 1 => m[i][1] # "insert")
    <2> TAKE i \in 1 .. Len(m)
    <2>1. CASE i = 1
      BY <2>1, <1>6, <1>8 DEF Reconciling
    <2>2. CASE i # 1
      <3>1. i \in 2 .. Len(m) /\ i - 1 \in 1 .. Len(l) /\ (i - 1) + 1 = i /\ i \in 1 .. Len(k) /\ i > 1
        BY <2>2, <1>4, <1>8
      <3>2. m[i] = k[i]
        BY <1>4, <1>8, <3>1
      <3> QED BY <1>1, <3>1, <3>2 DEF Repairing
    <2> QED BY <2>1, <2>2
  <1>11. Inserting(r, s, c, b).todo = m /\ Inserting(r, s, c, b) = [todo |-> m, commit |-> c, before |-> b, back |-> 0]
    BY <1>1, <1>3, <1>6, <1>7 DEF Inserting
  <1>12. Inserting(r, s, c, b) \in CallRecord
    BY <1>8, <1>11 DEF CallRecord
  <1>13. Repairing(Inserting(r, s, c, b))
    BY <1>9, <1>10, <1>11 DEF Repairing
  <1> QED BY <1>6, <1>8, <1>9, <1>11, <1>12, <1>13 DEF AtInsert

LEMMA ExpectedAre ==
  ASSUME GitTypes, LogTypes, NEW s \in Streams
  PROVE  ExpectedHeads(s) \subseteq Commits
  <1>1. base[s] \in Commits
    BY DEF GitTypes
  <1>2. \A o \in LatestOperations(s) : ops[o].after \in Commits
    BY LatestAre DEF LogTypes, OperationOK
  <1> QED BY <1>1, <1>2 DEF ExpectedHeads

LEMMA ReadHeadsTypes ==
  ASSUME Types, NEW p \in Procs, NEW s \in Streams, ReadHeads(p, s)
  PROVE  Types'
  <1> USE DEF Types
  <1>1. PICK r : r = call[p]
    OBVIOUS
  <1>2. r \in CallRecord /\ Repairing(r) /\ s \in setting.streams /\ At(p, s)
    <2>1. At(p, s) /\ Head(r.todo) = <<"read", s>> /\ "read" \in Reconciling
      BY <1>1, AtIs DEF ReadHeads, Reconciling
    <2> QED BY <1>1, <2>1, StatementIs DEF At
  <1>3. UNCHANGED <<setting, up, head, base, status, changes, ops, crashes>>
    BY DEF ReadHeads
  <1>4. GitTypes' /\ Commits' = Commits
    BY <1>3, SameGit
  <1>5. LogTypes'
    BY <1>2, <1>3, <1>4, LaterIs, LogStays DEF ReadHeads, TimePasses, At
  <1>6. CASE head[s] = Missing
    <2>1. Proceed(p)
      BY <1>6 DEF ReadHeads
    <2>2. CallTypes'
      BY <1>1, <1>2, <1>3, <1>4, <2>1, RepairProceeds
    <2> QED BY <1>4, <1>5, <2>2
  <1>7. CASE head[s] # Missing
    <2>1. PICK b \in ExpectedHeads(s) :
            call' = [call EXCEPT ![p] = [todo |-> <<<<"insert", s>>>> \o Tail(@.todo),
                                         commit |-> head[s], before |-> b, back |-> 0]]
      BY <1>7 DEF ReadHeads
    <2>2. b \in Commits /\ b \in Nat /\ head[s] \in Commits /\ head[s] \in Nat
      BY <1>7, ExpectedAre DEF GitTypes, Commits
    <2>3. PICK a : a = Inserting(r, s, head[s], b)
      OBVIOUS
    <2>4. call' = [call EXCEPT ![p] = a]
      BY <1>1, <2>1, <2>3 DEF Inserting
    <2>5. a \in CallRecord /\ Repairing(a) /\ a.commit = head[s] /\ a.before = b
      <3>1. a \in CallRecord /\ Repairing(a)
        BY <1>2, <2>2, <2>3, InsertingIs DEF GitTypes
      <3>2. a.commit = head[s] /\ a.before = b
        BY <2>3 DEF Inserting
      <3> QED BY <3>1, <3>2
    <2>6. CallTypes'
      BY <1>3, <1>4, <2>2, <2>4, <2>5, RepairGoesOn
    <2> QED BY <1>4, <1>5, <2>6
  <1> QED BY <1>6, <1>7

LEMMA RecordReconcileTypes ==
  ASSUME Types, NEW p \in Procs, NEW s \in Streams, RecordReconcile(p, s)
  PROVE  Types'
  <1> USE DEF Types
  <1>1. PICK r : r = call[p]
    OBVIOUS
  <1>2. r \in CallRecord /\ Repairing(r) /\ s \in setting.streams /\ At(p, s)
    <2>1. At(p, s) /\ Head(r.todo) = <<"insert", s>> /\ "insert" \in Reconciling
      BY <1>1, AtIs DEF RecordReconcile, Reconciling
    <2> QED BY <1>1, <2>1, StatementIs DEF At
  <1>3. UNCHANGED <<setting, up, head, base, status, changes, clock, crashes>>
    BY DEF RecordReconcile
  <1>4. GitTypes' /\ Commits' = Commits
    BY <1>3, SameGit
  <1>5. LogTypes'
    <2>1. r.before \in Commits /\ r.commit \in Commits
      BY <1>1, <1>2 DEF At
    <2>2. RecordOperation(Operation(s, "reconcile", r.before, r.commit, NoOp, clock))
      BY <1>1 DEF RecordReconcile
    <2>3. NoOp \in Nat /\ NoOp <= Len(ops) /\ "reconcile" \in OperationTypes /\ "reconcile" # "commit"
      BY DEF LogTypes, NoOp, OperationTypes
    <2>4. clock \in Nat /\ clock <= clock' /\ clock' \in Nat /\ clock' >= clock
      BY <1>3 DEF LogTypes
    <2> QED BY <1>2, <1>3, <2>1, <2>2, <2>3, <2>4, RecordLog
  <1>6. CallTypes'
    BY <1>1, <1>2, <1>3, <1>4, RepairProceeds DEF RecordReconcile
  <1> QED BY <1>4, <1>5, <1>6

LEMMA CreateStreamBranchTypes ==
  ASSUME Types, NEW p \in Procs, NEW s \in Streams, CreateStreamBranch(p, s)
  PROVE  Types'
  <1> USE DEF Types
  <1>1. PICK r : r = call[p]
    OBVIOUS
  <1>2. r \in CallRecord /\ Repairing(r) /\ s \in setting.streams /\ At(p, s)
    <2>1. At(p, s) /\ Head(r.todo) = <<"create", s>> /\ "create" \in Reconciling
      BY <1>1, AtIs DEF CreateStreamBranch, Reconciling
    <2> QED BY <1>1, <2>1, StatementIs DEF At
  <1>3. UNCHANGED <<setting, up, base, status, changes, ops, crashes>>
    BY DEF CreateStreamBranch
  <1>4. /\ head' \in [Streams -> Commits \cup {Missing}]
        /\ \A t \in Streams : head[t] # Missing => head'[t] = head[t]
    BY DEF CreateStreamBranch, GitTypes
  <1>5. GitTypes' /\ Commits' = Commits
    BY <1>3, <1>4 DEF GitTypes, Commits
  <1>6. LogTypes'
    BY <1>2, <1>3, <1>5, LaterIs, LogStays DEF CreateStreamBranch, TimePasses, At
  <1>7. CallTypes'
    BY <1>1, <1>2, <1>3, <1>4, <1>5, RepairProceeds DEF CreateStreamBranch
  <1> QED BY <1>5, <1>6, <1>7

LEMMA CrashTypes ==
  ASSUME Types, NEW p \in Procs, Crash(p)
  PROVE  Types'
  <1> USE DEF Types
  <1>1. call' = [call EXCEPT ![p] = NoCall] /\ UNCHANGED <<setting, up, head, base, status, changes, ops, clock>>
    BY DEF Crash
  <1>2. GitTypes' /\ CallTypes' /\ Commits' = Commits
    BY <1>1, CallEnds, SameGit
  <1>3. crashes' \in 0 .. setting.crashes
    BY DEF Crash, LogTypes, GitTypes, Setting
  <1>4. clock \in Nat /\ clock' = clock /\ clock' >= clock
    BY <1>1 DEF LogTypes
  <1>5. LogTypes'
    BY <1>1, <1>2, <1>3, <1>4, LogStays
  <1> QED BY <1>2, <1>5

-----------------------------------------------------------------------------
(* The beginning of a call keeps the types *)

LEMMA BeginTypes ==
  ASSUME Types, NEW p \in Procs, NEW r \in CallRecord, CallOK(r), Begin(p, r),
         \A s \in Streams : Writing(r, s) => ~ Working(s)
  PROVE  Types'
  <1> USE DEF Types
  <1>1. UNCHANGED <<setting, up, head, base, status, changes, ops, clock, crashes>>
    BY DEF Begin
  <1>2. GitTypes' /\ Commits' = Commits
    BY <1>1, SameGit
  <1>3. clock \in Nat /\ clock' = clock /\ clock' >= clock /\ crashes' \in 0 .. setting.crashes
    BY <1>1 DEF LogTypes
  <1>4. LogTypes'
    BY <1>1, <1>2, <1>3, LogStays
  <1>5. CallOK(r)'
    BY <1>1, <1>2, FitStays
  <1>6. call' = [call EXCEPT ![p] = r]
    BY DEF Begin
  <1>7. CallTypes'
    BY <1>1, <1>2, <1>5, <1>6, CallsMove
  <1> QED BY <1>2, <1>4, <1>7

LEMMA MayWriteIs ==
  ASSUME Types, NEW s \in Streams, MayWrite(s)
  PROVE  s \in setting.streams /\ head[s] # Missing /\ ~ Working(s)
  <1>1. head[s] \in Commits
    BY ExpectedAre DEF Types, MayWrite, InSync
  <1> QED BY <1>1 DEF MayWrite, Commits, Missing

\* What CommitChanges, CommitByHand and the rollbacks begin
LEMMA WritersAre ==
  ASSUME Types, NEW s \in Streams, NEW todo,
         \/ todo = <<<<"commit", s>>, <<"change", s>>, <<"record", s>>>>
         \/ todo = <<<<"commit", s>>, <<"log", s>>>>
  PROVE  [NoCall EXCEPT !.todo = todo] \in CallRecord /\ AtCommit([NoCall EXCEPT !.todo = todo], s)
  <1>1. [NoCall EXCEPT !.todo = todo] = [todo |-> todo, commit |-> 1, before |-> 1, back |-> 0]
    BY DEF NoCall
  <1>2. todo \in Seq(Names \X Streams)
    <2>1. <<"commit", s>> \in Names \X Streams /\ <<"change", s>> \in Names \X Streams
          /\ <<"record", s>> \in Names \X Streams /\ <<"log", s>> \in Names \X Streams
      BY DEF Names
    <2>2. CASE todo = <<<<"commit", s>>, <<"change", s>>, <<"record", s>>>>
      BY <2>1, <2>2
    <2>3. CASE todo = <<<<"commit", s>>, <<"log", s>>>>
      BY <2>1, <2>3
    <2> QED BY <2>2, <2>3
  <1> QED BY <1>1, <1>2 DEF AtCommit, CallRecord

LEMMA CommitBegins ==
  ASSUME Types, NEW p \in Procs, NEW s \in Streams, NEW r \in CallRecord, AtCommit(r, s),
         r.commit \in Commits, r.before \in Commits, MayWrite(s), Begin(p, r)
  PROVE  Types'
  <1>1. s \in setting.streams /\ head[s] # Missing /\ ~ Working(s)
    BY MayWriteIs
  <1>2. ~ Committed(r, s) /\ Writing(r, s)
    <2>1. Head(r.todo) = <<"commit", s>>
      BY ListsAre
    <2>2. Committed(r, s) => Head(r.todo)[1] \in {"change", "record", "log"}
      BY ListsAre DEF Committed
    <2> QED BY <2>1, <2>2 DEF Writing
  <1>3. CallOK(r)
    BY <1>1, <1>2 DEF CallOK, Fit, Committed
  <1>4. \A t : Writing(r, t) => t = s
    BY <1>2, WritesOne, ListsAre
  <1> QED BY <1>1, <1>3, <1>4, BeginTypes

NamesOfCommit == <<"commit", "change", "record">>
NamesByHand == <<"commit", "log">>
NamesOfRollback == <<"reset", "log_rollback">>

LEMMA StatementsAre ==
  ASSUME NEW s
  PROVE  /\ Statements(s, NamesOfCommit) = <<<<"commit", s>>, <<"change", s>>, <<"record", s>>>>
         /\ Statements(s, NamesByHand) = <<<<"commit", s>>, <<"log", s>>>>
         /\ Statements(s, NamesOfRollback) = <<<<"reset", s>>, <<"log_rollback", s>>>>
  <1>1. Statements(s, NamesOfCommit) = <<<<"commit", s>>, <<"change", s>>, <<"record", s>>>>
    BY DEF Statements, NamesOfCommit
  <1>2. Statements(s, NamesByHand) = <<<<"commit", s>>, <<"log", s>>>>
    BY DEF Statements, NamesByHand
  <1>3. Statements(s, NamesOfRollback) = <<<<"reset", s>>, <<"log_rollback", s>>>>
    BY DEF Statements, NamesOfRollback
  <1> QED BY <1>1, <1>2, <1>3

CommitCall(p, s, r) ==
  /\ r \in CallRecord /\ AtCommit(r, s) /\ r.commit = 1 /\ r.before = 1 /\ r.back = 0
  /\ MayWrite(s) /\ Begin(p, r)

LEMMA CommitsBegin ==
  ASSUME Types, NEW p \in Procs, NEW s \in Streams, CommitChanges(p, s) \/ CommitByHand(p, s)
  PROVE  \E r : CommitCall(p, s, r)
  <1>1. PICK todo : /\ \/ todo = <<<<"commit", s>>, <<"change", s>>, <<"record", s>>>>
                       \/ todo = <<<<"commit", s>>, <<"log", s>>>>
                    /\ MayWrite(s) /\ Begin(p, [NoCall EXCEPT !.todo = todo])
    BY StatementsAre DEF CommitChanges, CommitByHand, NamesOfCommit, NamesByHand
  <1>2. PICK r : r = [NoCall EXCEPT !.todo = todo]
    OBVIOUS
  <1>3. r \in CallRecord /\ AtCommit(r, s)
    BY <1>1, <1>2, WritersAre
  <1>4. r.commit = 1 /\ r.before = 1 /\ r.back = 0
    BY <1>2 DEF NoCall
  <1> QED BY <1>1, <1>2, <1>3, <1>4 DEF CommitCall

LEMMA CommitsBeginTypes ==
  ASSUME Types, NEW p \in Procs, NEW s \in Streams, CommitChanges(p, s) \/ CommitByHand(p, s)
  PROVE  Types'
  <1>1. PICK r : CommitCall(p, s, r)
    BY CommitsBegin
  <1>2. 1 \in Commits
    BY DEF Types, GitTypes, Commits
  <1> QED BY <1>1, <1>2, CommitBegins DEF CommitCall

RollbackCall(p, s, c, n, r) ==
  /\ r \in CallRecord /\ AtReset(r, s) /\ r.commit = c /\ r.before = base[s] /\ r.back = n
  /\ MayWrite(s) /\ Begin(p, r)

LEMMA RollbackBegins ==
  ASSUME Types, NEW p \in Procs, NEW s \in Streams, NEW c \in Commits, NEW n \in Nat, BeginRollback(p, s, c, n)
  PROVE  \E r : RollbackCall(p, s, c, n, r)
  <1>1. PICK todo : todo = <<<<"reset", s>>, <<"log_rollback", s>>>>
    OBVIOUS
  <1>2. PICK r : r = [todo |-> todo, commit |-> c, before |-> base[s], back |-> n]
    OBVIOUS
  <1>3. Begin(p, r) /\ MayWrite(s)
    BY <1>1, <1>2, StatementsAre DEF BeginRollback, NamesOfRollback
  <1>4. todo \in Seq(Names \X Streams)
    <2>1. <<"reset", s>> \in Names \X Streams /\ <<"log_rollback", s>> \in Names \X Streams
      BY DEF Names
    <2> QED BY <1>1, <2>1
  <1>5. c \in Nat /\ base[s] \in Nat
    BY DEF Types, GitTypes, Commits
  <1>6. r \in CallRecord /\ AtReset(r, s) /\ r.commit = c /\ r.before = base[s] /\ r.back = n
    BY <1>1, <1>2, <1>4, <1>5 DEF CallRecord, AtReset
  <1> QED BY <1>3, <1>6 DEF RollbackCall

LEMMA RollbackTypes ==
  ASSUME Types, NEW p \in Procs, NEW s \in Streams, NEW c \in Commits, NEW n \in Nat, BeginRollback(p, s, c, n)
  PROVE  Types'
  <1>1. PICK r : RollbackCall(p, s, c, n, r)
    BY RollbackBegins
  <1>2. r \in CallRecord /\ AtReset(r, s) /\ Begin(p, r) /\ r.commit \in Commits /\ r.before \in Commits
    BY <1>1 DEF RollbackCall, Types, GitTypes
  <1>3. s \in setting.streams /\ head[s] # Missing /\ ~ Working(s)
    BY <1>1, MayWriteIs DEF RollbackCall
  <1>4. ~ Committed(r, s) /\ Writing(r, s)
    <2>1. Head(r.todo) = <<"reset", s>>
      BY <1>2, ListsAre
    <2>2. Committed(r, s) => Head(r.todo)[1] \in {"change", "record", "log"}
      BY ListsAre DEF Committed
    <2> QED BY <1>2, <2>1, <2>2 DEF Writing
  <1>5. CallOK(r)
    BY <1>2, <1>3, <1>4 DEF CallOK, Fit, Committed
  <1>6. \A t : Writing(r, t) => t = s
    BY <1>2, <1>4, WritesOne, ListsAre
  <1> QED BY <1>2, <1>3, <1>5, <1>6, BeginTypes

\* where the rollbacks go
LEMMA RollbackTargets ==
  ASSUME Types, NEW p \in Procs, NEW s \in Streams,
         \/ RollbackToForkPoint(p, s)
         \/ \E o \in DOMAIN ops : RollbackToOperation(p, s, o)
         \/ \E n \in 1 .. Len(ops) : RollbackN(p, s, n)
  PROVE  \E c \in Commits, n \in Nat :
           /\ BeginRollback(p, s, c, n)
           /\ n > 0 => /\ n \in 1 .. Len(ops)
                       /\ \E o \in LatestOperations(s) : Back[n][o] # NoOp /\ c = ops[Back[n][o]].after
  <1>1. \A o \in DOMAIN ops : ops[o].after \in Commits
    BY DEF Types, LogTypes, OperationOK
  <1>2. CASE RollbackToForkPoint(p, s)
    <2>1. base[s] \in Commits
      BY DEF Types, GitTypes
    <2> QED BY <1>2, <2>1 DEF RollbackToForkPoint
  <1>3. ASSUME NEW o \in DOMAIN ops, RollbackToOperation(p, s, o)
        PROVE  \E c \in Commits : BeginRollback(p, s, c, 0)
    BY <1>1, <1>3 DEF RollbackToOperation
  <1>4. ASSUME NEW n \in 1 .. Len(ops), RollbackN(p, s, n)
        PROVE  \E c \in Commits :
                 /\ BeginRollback(p, s, c, n)
                 /\ \E o \in LatestOperations(s) : Back[n][o] # NoOp /\ c = ops[Back[n][o]].after
    <2>1. PICK o \in LatestOperations(s) : Back[n][o] # NoOp /\ BeginRollback(p, s, ops[Back[n][o]].after, n)
      BY <1>4 DEF RollbackN
    <2>2. Back[n][o] \in DOMAIN ops
      <3>1. Len(ops) \in Nat /\ DOMAIN ops = 1 .. Len(ops)
        BY DEF Types, LogTypes
      <3>2. \A q \in DOMAIN ops : ops[q].parent \in Nat /\ ops[q].parent < q
        <4> TAKE q \in DOMAIN ops
        <4>1. ops[q] \in OperationRecord /\ OperationOK(ops[q], q)
          BY DEF Types, LogTypes
        <4> QED BY <4>1 DEF OperationOK, OperationRecord
      <3>3. Stays(0 .. Len(ops), {NoOp}, Parent)
        BY <3>1, <3>2 DEF Parent, NoOp, Stays
      <3>4. Climbed(Back, 0 .. Len(ops), {NoOp}, Parent, Len(ops))
        BY <3>1, <3>3, BackClimbs, ClimbIs DEF Types, LogTypes
      <3>5. o \in 0 .. Len(ops) /\ n \in 0 .. Len(ops)
        BY <3>1, LatestAre
      <3> QED BY <2>1, <3>1, <3>4, <3>5 DEF Climbed, NoOp
    <2>3. ops[Back[n][o]].after \in Commits
      BY <1>1, <2>2
    <2> QED BY <2>1, <2>3
  <1>5. Len(ops) \in Nat /\ 0 \in Nat /\ ~ (0 > 0)
    BY DEF Types, LogTypes
  <1> QED BY <1>2, <1>3, <1>4, <1>5

LEMMA RollbacksTypes ==
  ASSUME Types, NEW p \in Procs, NEW s \in Streams,
         \/ RollbackToForkPoint(p, s)
         \/ \E o \in DOMAIN ops : RollbackToOperation(p, s, o)
         \/ \E n \in 1 .. Len(ops) : RollbackN(p, s, n)
  PROVE  Types'
  <1>1. PICK c \in Commits, n \in Nat : BeginRollback(p, s, c, n)
    BY RollbackTargets
  <1> QED BY <1>1, RollbackTypes

-----------------------------------------------------------------------------
(* What reconciling has to do *)

LEMMA SetToSeqIs ==
  ASSUME NEW S, IsFiniteSet(S)
  PROVE  SetToSeq(S) \in Seq(S)
  <1>1. PICK n : n = Cardinality(S)
    OBVIOUS
  <1>2. n \in Nat /\ ExistsBijection(1 .. n, S)
    BY <1>1, FS_CardinalityType
  <1>3. PICK f : f \in Bijection(1 .. n, S)
    BY <1>2 DEF ExistsBijection
  <1>4. f \in [1 .. n -> S] /\ IsInjective(f)
    BY <1>3 DEF Bijection, Injection, IsInjective
  <1>5. SetToSeq(S) \in [1 .. n -> S]
    BY <1>1, <1>4 DEF SetToSeq
  <1> QED BY <1>2, <1>5

Repairs(diverged, missing) == ({"read"} \X diverged) \cup ({"create"} \X missing)

LEMMA TodoIs ==
  ASSUME NEW D, NEW M, NEW update \in Seq(D), NEW create \in Seq(M)
  PROVE  [i \in DOMAIN update |-> <<"read", update[i]>>] \o [i \in DOMAIN create |-> <<"create", create[i]>>]
           \in Seq(Repairs(D, M))
  <1> DEFINE a == [i \in DOMAIN update |-> <<"read", update[i]>>]
             b == [i \in DOMAIN create |-> <<"create", create[i]>>]
  <1>1. a \in Seq(Repairs(D, M))
    <2>1. Len(update) \in Nat /\ DOMAIN update = 1 .. Len(update) /\ \A i \in DOMAIN update : update[i] \in D
      OBVIOUS
    <2>2. \A i \in DOMAIN update : <<"read", update[i]>> \in Repairs(D, M)
      BY <2>1 DEF Repairs
    <2>3. a \in [1 .. Len(update) -> Repairs(D, M)]
      BY <2>1, <2>2
    <2> HIDE DEF a
    <2> QED BY <2>1, <2>3
  <1>2. b \in Seq(Repairs(D, M))
    <2>1. Len(create) \in Nat /\ DOMAIN create = 1 .. Len(create) /\ \A i \in DOMAIN create : create[i] \in M
      OBVIOUS
    <2>2. \A i \in DOMAIN create : <<"create", create[i]>> \in Repairs(D, M)
      BY <2>1 DEF Repairs
    <2>3. b \in [1 .. Len(create) -> Repairs(D, M)]
      BY <2>1, <2>2
    <2> HIDE DEF b
    <2> QED BY <2>1, <2>3
  <1> HIDE DEF a, b
  <1>3. a \o b \in Seq(Repairs(D, M))
    BY <1>1, <1>2
  <1> QED BY <1>3 DEF a, b

\* the streams that reconciling repairs
RepairCall(p, S, D, M, r) ==
  /\ r.todo \in Seq(Repairs(D, M)) /\ r.todo # <<>> /\ r.commit = 1 /\ r.before = 1 /\ r.back = 0
  /\ D \subseteq S /\ \A s \in D : head[s] # Missing /\ ExpectedHeads(s) # {head[s]}
  /\ M = {s \in S : head[s] = Missing}
  /\ r = [todo |-> r.todo, commit |-> 1, before |-> 1, back |-> 0]
  /\ Begin(p, r)

LEMMA ChosenAre ==
  ASSUME GitTypes, NEW S \in Chosen
  PROVE  S \subseteq setting.streams /\ setting.streams \subseteq Streams /\ IsFiniteSet(S)
  <1>1. S \subseteq setting.streams
    BY DEF Chosen, Active
  <1>2. setting.streams \subseteq Streams
    BY DEF GitTypes, Setting
  <1>3. IsFiniteSet(S)
    BY <1>1, <1>2, FS_Subset, OperationsAssumption
  <1> QED BY <1>1, <1>2, <1>3

LEMMA ReconcileIs ==
  ASSUME Types, NEW p \in Procs, NEW S \in Chosen, NEW u, NEW v, Reconcile(p, S, u, v)
  PROVE  \E D, M, r : RepairCall(p, S, D, M, r)
  <1>1. PICK M : M = {s \in S : head[s] = Missing}
    OBVIOUS
  <1>2. PICK D \in SUBSET {s \in S : head[s] # Missing /\ ExpectedHeads(s) # {head[s]}} :
          LET update == IF u THEN SetToSeq(D) ELSE <<>>
              create == IF v THEN SetToSeq(M) ELSE <<>>
              todo == [i \in DOMAIN update |-> <<"read", update[i]>>]
                      \o [i \in DOMAIN create |-> <<"create", create[i]>>]
          IN todo # <<>> /\ Begin(p, [NoCall EXCEPT !.todo = todo])
    BY <1>1 DEF Reconcile
  <1>3. IsFiniteSet(D) /\ IsFiniteSet(M)
    BY <1>1, <1>2, ChosenAre, FS_Subset DEF Types
  <1>4. PICK update : update = IF u THEN SetToSeq(D) ELSE <<>>
    OBVIOUS
  <1>5. PICK create : create = IF v THEN SetToSeq(M) ELSE <<>>
    OBVIOUS
  <1>6. update \in Seq(D) /\ create \in Seq(M)
    BY <1>3, <1>4, <1>5, SetToSeqIs
  <1>7. PICK todo : todo = [i \in DOMAIN update |-> <<"read", update[i]>>]
                           \o [i \in DOMAIN create |-> <<"create", create[i]>>]
    OBVIOUS
  <1>8. todo \in Seq(Repairs(D, M))
    BY <1>6, <1>7, TodoIs
  <1>9. todo # <<>> /\ Begin(p, [NoCall EXCEPT !.todo = todo])
    BY <1>2, <1>4, <1>5, <1>7
  <1>10. PICK r : r = [todo |-> todo, commit |-> 1, before |-> 1, back |-> 0]
    OBVIOUS
  <1>11. [NoCall EXCEPT !.todo = todo] = r
    BY <1>10 DEF NoCall
  <1>12. r.todo = todo /\ r.commit = 1 /\ r.before = 1 /\ r.back = 0
    BY <1>10
  <1> QED BY <1>1, <1>2, <1>8, <1>9, <1>10, <1>11, <1>12 DEF RepairCall

LEMMA RepairsAre ==
  ASSUME Types, NEW p \in Procs, NEW S \in Chosen, NEW D, NEW M, NEW r, RepairCall(p, S, D, M, r)
  PROVE  /\ r \in CallRecord /\ Repairing(r) /\ CallOK(r)
         /\ \A s : ~ AtInsert(r, s)
         /\ \E s \in S : head[s] = Missing \/ ExpectedHeads(s) # {head[s]}
  <1>1. PICK k : k = r.todo
    OBVIOUS
  <1>2. k \in Seq(Repairs(D, M)) /\ k # <<>> /\ D \subseteq S /\ M \subseteq S
    BY <1>1 DEF RepairCall
  <1>3. Len(k) \in Nat /\ 1 \in 1 .. Len(k) /\ \A i \in 1 .. Len(k) : k[i] \in Repairs(D, M)
    BY <1>2
  <1>4. S \subseteq setting.streams /\ setting.streams \subseteq Streams
    BY ChosenAre DEF Types
  <1>5. \A x \in Repairs(D, M) : /\ x \in Reconciling \X setting.streams /\ x \in Names \X Streams
                                /\ x[1] # "insert" /\ x[2] \in S /\ x[2] \in D \cup M
    BY <1>2, <1>4 DEF Repairs, Reconciling, Names
  <1>6. k \in Seq(Names \X Streams)
    BY <1>2, <1>5
  <1>7. r \in CallRecord
    BY <1>1, <1>6 DEF RepairCall, CallRecord
  <1>8. Repairing(r)
    BY <1>1, <1>2, <1>3, <1>5 DEF Repairing
  <1>9. 1 \in Commits
    BY DEF Types, GitTypes, Commits
  <1>10. CallOK(r)
    BY <1>7, <1>8, <1>9 DEF CallOK, RepairCall
  <1>11. k[1][1] # "insert" /\ k[1][2] \in S /\ k[1][2] \in D \cup M
    BY <1>3, <1>5
  <1>12. \A s : ~ AtInsert(r, s)
    BY <1>1, <1>11 DEF AtInsert
  <1>13. \E s \in S : head[s] = Missing \/ ExpectedHeads(s) # {head[s]}
    BY <1>11 DEF RepairCall
  <1> QED BY <1>7, <1>8, <1>10, <1>12, <1>13

LEMMA ReconcileTypes ==
  ASSUME Types, NEW p \in Procs, NEW S \in Chosen, NEW u, NEW v, Reconcile(p, S, u, v)
  PROVE  Types'
  <1>1. PICK D, M, r : RepairCall(p, S, D, M, r)
    BY ReconcileIs
  <1>2. r \in CallRecord /\ Repairing(r) /\ CallOK(r)
    BY <1>1, RepairsAre
  <1>3. \A s : ~ Writing(r, s)
    BY <1>2, RepairsOnly
  <1>4. Begin(p, r)
    BY <1>1 DEF RepairCall
  <1> QED BY <1>2, <1>3, <1>4, BeginTypes

-----------------------------------------------------------------------------
(* What moves a branch without the log keeps the types *)

LEMMA OutsideCommitTypes ==
  ASSUME Types, NEW s \in Streams, OutsideCommit(s)
  PROVE  Types'
  <1> USE DEF Types
  <1>1. head[s] \in Commits /\ up' = Append(up, head[s])
    BY DEF OutsideCommit, GitTypes
  <1>2. PICK n : n = Len(up')
    OBVIOUS
  <1>3. /\ up' \in Seq(Nat) /\ n >= 2 /\ n \in Nat /\ up'[1] = 0
        /\ \A c \in 2 .. Len(up') : up'[c] \in 1 .. c - 1
        /\ Commits \subseteq Commits' /\ n \in Commits'
    BY <1>1, <1>2, GitGrows
  <1>4. /\ head' = [head EXCEPT ![s] = n]
        /\ UNCHANGED <<setting, base, status, changes, ops, call, crashes>>
    BY <1>2 DEF OutsideCommit
  <1>5. GitTypes'
    <2>1. head' \in [Streams -> Commits' \cup {Missing}]
      BY <1>3, <1>4 DEF GitTypes
    <2>2. base' \in [Streams -> Commits'] /\ status' \in [Streams -> {"active", "conflicted"}] /\ changes' \subseteq Commits'
      BY <1>3, <1>4 DEF GitTypes
    <2> QED BY <2>1, <2>2, <1>2, <1>3, <1>4 DEF GitTypes
  <1>6. LogTypes'
    BY <1>3, <1>4, LaterIs, LogStays DEF OutsideCommit, TimePasses, LogTypes
  <1>7. \A t \in Streams : head[t] # Missing => head'[t] # Missing /\ (head[t] >= 2 => head'[t] >= 2)
    BY <1>3, <1>4 DEF GitTypes, Missing
  <1>8. CallTypes'
    BY <1>3, <1>4, <1>7, CallsStay
  <1> QED BY <1>5, <1>6, <1>8

LEMMA RebaseTypes ==
  ASSUME Types, NEW s \in Streams, Rebase(s)
  PROVE  Types'
  <1> USE DEF Types
  <1>1. PICK onto : onto = Len(up) + 1
    OBVIOUS
  <1>2. Len(up) \in Nat /\ onto \in Nat /\ onto >= 2 /\ 1 \in Commits
    BY <1>1 DEF GitTypes, Commits
  <1>3. PICK tail : tail = IF head[s] # base[s] THEN <<1, onto>> ELSE <<1>>
    OBVIOUS
  <1>4. PICK n : n = Len(up')
    OBVIOUS
  <1>5. /\ up' = up \o tail /\ base' = [base EXCEPT ![s] = onto] /\ head' = [head EXCEPT ![s] = n]
        /\ UNCHANGED <<setting, status, changes, ops, call, crashes>>
    BY <1>1, <1>3, <1>4 DEF Rebase
  <1>6. tail \in Seq(Nat) /\ Len(tail) \in 1 .. 2 /\ tail[1] = 1 /\ (Len(tail) = 2 => tail[2] = onto)
    <2>1. CASE tail = <<1>>
      BY <2>1
    <2>2. CASE tail = <<1, onto>>
      BY <1>2, <2>2
    <2> QED BY <1>3, <2>1, <2>2
  <1>7. /\ up \in Seq(Nat) /\ up[1] = 0 /\ \A c \in 2 .. Len(up) : up[c] \in 1 .. c - 1
        /\ Len(up) >= 1
    BY DEF GitTypes
  <1>8. /\ up' \in Seq(Nat) /\ n = Len(up) + Len(tail)
        /\ \A c \in 1 .. Len(up) : up'[c] = up[c]
        /\ up'[onto] = 1 /\ (Len(tail) = 2 => up'[onto + 1] = onto)
    <2>1. Len(up) \in Nat /\ Len(tail) \in Nat /\ tail \in Seq(Nat) /\ up \in Seq(Nat)
      BY <1>6, <1>7
    <2>2. /\ up \o tail \in Seq(Nat) /\ Len(up \o tail) = Len(up) + Len(tail)
          /\ \A c \in 1 .. Len(up) : (up \o tail)[c] = up[c]
      BY <2>1
    <2>3. \A i \in 1 .. Len(tail) : (up \o tail)[Len(up) + i] = tail[i]
      BY <2>1
    <2>4. 1 \in 1 .. Len(tail) /\ (Len(tail) = 2 => 2 \in 1 .. Len(tail) /\ Len(up) + 2 = onto + 1)
      BY <1>1, <1>6, <2>1
    <2>5. (up \o tail)[onto] = 1
      BY <1>1, <1>6, <2>3, <2>4
    <2>6. Len(tail) = 2 => (up \o tail)[onto + 1] = onto
      BY <1>6, <2>3, <2>4
    <2> QED BY <1>4, <1>5, <2>2, <2>5, <2>6
  <1>9. n \in Nat /\ n >= 2 /\ n \in Commits' /\ onto \in Commits' /\ Commits \subseteq Commits'
    <2>1. n \in Nat /\ Len(up) <= n /\ onto <= n /\ n >= 2
      BY <1>1, <1>2, <1>6, <1>8
    <2>2. Commits' = 1 .. n /\ Commits = 1 .. Len(up)
      BY <1>4 DEF Commits
    <2> QED BY <1>2, <2>1, <2>2
  <1>10. \A c \in 2 .. n : up'[c] \in 1 .. c - 1
    <2> TAKE c \in 2 .. n
    <2>0. Len(up) \in Nat /\ c \in Nat /\ c >= 2 /\ c <= n /\ Len(tail) \in {1, 2}
      BY <1>2, <1>6, <1>9
    <2>1. CASE c <= Len(up)
      <3>1. c \in 2 .. Len(up) /\ c \in 1 .. Len(up)
        BY <2>0, <2>1
      <3> QED BY <3>1, <1>7, <1>8
    <2>2. CASE c = onto
      BY <2>2, <1>2, <1>8
    <2>3. CASE c = onto + 1
      <3>1. Len(tail) = 2
        <4>1. n # Len(up) + 1
          BY <2>0, <2>3, <1>1, <1>9
        <4> QED BY <2>0, <4>1, <1>8
      <3> QED BY <2>3, <3>1, <1>2, <1>8
    <2>4. c <= Len(up) \/ c = onto \/ c = onto + 1
      <3>1. n = Len(up) + 1 \/ n = Len(up) + 2
        BY <2>0, <1>8
      <3> QED BY <2>0, <3>1, <1>1, <1>9
    <2> QED BY <2>1, <2>2, <2>3, <2>4
  <1>11. GitTypes'
    <2>1. head' \in [Streams -> Commits' \cup {Missing}]
      BY <1>5, <1>9 DEF GitTypes
    <2>2. base' \in [Streams -> Commits'] /\ status' \in [Streams -> {"active", "conflicted"}] /\ changes' \subseteq Commits'
      BY <1>5, <1>9 DEF GitTypes
    <2>3. up'[1] = 0 /\ Len(up') >= 1 /\ \A c \in 2 .. Len(up') : up'[c] \in 1 .. c - 1
      BY <1>4, <1>7, <1>8, <1>9, <1>10
    <2> QED BY <2>1, <2>2, <2>3, <1>5, <1>8 DEF GitTypes
  <1>12. LogTypes'
    BY <1>5, <1>9, LaterIs, LogStays DEF Rebase, TimePasses, LogTypes
  <1>13. \A t \in Streams : head[t] # Missing => head'[t] # Missing /\ (head[t] >= 2 => head'[t] >= 2)
    BY <1>5, <1>9 DEF GitTypes, Missing
  <1>14. CallTypes'
    BY <1>5, <1>9, <1>13, CallsStay
  <1> QED BY <1>11, <1>12, <1>14

LEMMA DeleteBranchTypes ==
  ASSUME Types, NEW s \in Streams, DeleteBranch(s)
  PROVE  Types'
  <1> USE DEF Types
  <1>1. head' = [head EXCEPT ![s] = Missing] /\ UNCHANGED <<setting, up, base, status, changes, ops, call, crashes>>
    BY DEF DeleteBranch
  <1>2. GitTypes' /\ Commits' = Commits
    BY <1>1 DEF GitTypes, Commits
  <1>3. LogTypes'
    BY <1>1, <1>2, LaterIs, LogStays DEF DeleteBranch, TimePasses, LogTypes
  <1>4. ~ Working(s) /\ \A t \in Streams : t # s => head'[t] = head[t]
    BY <1>1 DEF DeleteBranch, GitTypes
  <1>5. \A t \in Streams : Working(t) /\ head[t] # Missing => head'[t] # Missing /\ (head[t] >= 2 => head'[t] >= 2)
    BY <1>4
  <1>6. CallTypes'
    BY <1>1, <1>2, <1>5, CallsStay
  <1> QED BY <1>2, <1>3, <1>6

LEMMA SetStatusTypes ==
  ASSUME Types, NEW s \in Streams, SetStatus(s)
  PROVE  Types'
  <1> USE DEF Types
  <1>1. UNCHANGED <<setting, up, head, base, changes, ops, clock, call, crashes>>
        /\ status' = [status EXCEPT ![s] = IF status[s] = "active" THEN "conflicted" ELSE "active"]
    BY DEF SetStatus
  <1>2. GitTypes' /\ Commits' = Commits
    BY <1>1 DEF GitTypes, Commits
  <1>3. clock \in Nat /\ clock' = clock /\ clock' >= clock
    BY <1>1 DEF LogTypes
  <1>4. LogTypes'
    BY <1>1, <1>2, <1>3, LogStays DEF LogTypes
  <1>5. CallTypes'
    BY <1>1, <1>2, CallsStay
  <1> QED BY <1>2, <1>4, <1>5

-----------------------------------------------------------------------------
(* The types, and every logged change is there *)

LEMMA StepTypes ==
  ASSUME Types, [Next]_vars
  PROVE  Types'
  <1>1. ASSUME NEW p \in Procs, Step(p) PROVE Types'
    BY <1>1, GitCommitTypes, CreateChangeTypes, RecordCommitTypes, RecordByHandTypes, ResetHardTypes,
       RecordRollbackTypes, ReadHeadsTypes, RecordReconcileTypes, CreateStreamBranchTypes DEF Step
  <1>2. ASSUME NEW p \in Procs, NEW s \in Streams, CommitChanges(p, s) \/ CommitByHand(p, s) PROVE Types'
    BY <1>2, CommitsBeginTypes
  <1>3. ASSUME NEW p \in Procs, NEW s \in Streams,
               \/ RollbackToForkPoint(p, s)
               \/ \E o \in DOMAIN ops : RollbackToOperation(p, s, o)
               \/ \E n \in 1 .. Len(ops) : RollbackN(p, s, n)
        PROVE  Types'
    BY <1>3, RollbacksTypes
  <1>4. ASSUME NEW s \in Streams, OutsideCommit(s) \/ Rebase(s) \/ DeleteBranch(s) \/ SetStatus(s) PROVE Types'
    BY <1>4, OutsideCommitTypes, RebaseTypes, DeleteBranchTypes, SetStatusTypes
  <1>5. CASE UNCHANGED vars
    <2>1. GitTypes' /\ Commits' = Commits
      BY <1>5, SameGit DEF Types, vars
    <2>2. clock \in Nat /\ clock' = clock /\ clock' >= clock /\ crashes' \in 0 .. setting.crashes
      BY <1>5 DEF Types, LogTypes, vars
    <2>3. LogTypes'
      BY <1>5, <2>1, <2>2, LogStays DEF Types, vars
    <2>4. CallTypes'
      BY <1>5, <2>1, CallsStay DEF Types, vars
    <2> QED BY <2>1, <2>3, <2>4 DEF Types
  <1> QED BY <1>1, <1>2, <1>3, <1>4, <1>5, CrashTypes, ReconcileTypes DEF Next

LEMMA InitTypes ==
  ASSUME Init
  PROVE  Types
  <1>1. Len(up) = 1 /\ up[1] = 0 /\ up \in Seq(Nat) /\ Commits = {1}
    BY DEF Init, Commits
  <1>2. setting \in Setting
    BY OperationsAssumption DEF Init
  <1>3. GitTypes
    BY <1>1, <1>2 DEF Init, GitTypes
  <1>4. LogTypes
    BY <1>2 DEF Init, LogTypes, Setting
  <1>5. call = [p \in Procs |-> NoCall]
    BY DEF Init
  <1>6. CallTypes
    <2>1. NoCall \in CallRecord /\ CallOK(NoCall) /\ \A s : ~ Writing(NoCall, s)
      BY <1>3, NoCallIs
    <2> QED BY <1>5, <2>1 DEF CallTypes
  <1> QED BY <1>3, <1>4, <1>6 DEF Types

LEMMA TypesAreRight ==
  ASSUME Types
  PROVE  TypeOK /\ LoggedChangeExists
  <1>1. \A c \in DOMAIN up : up[c] \in 0 .. c - 1
    <2>1. DOMAIN up = 1 .. Len(up) /\ Len(up) \in Nat
      BY DEF Types, GitTypes
    <2>2. \A c \in 1 .. Len(up) : c # 1 => c \in 2 .. Len(up)
      BY <2>1
    <2>3. \A c \in 2 .. Len(up) : up[c] \in 0 .. c - 1
      BY DEF Types, GitTypes
    <2> QED BY <2>1, <2>2, <2>3 DEF Types, GitTypes
  <1>2. \A o \in DOMAIN ops :
          /\ ops[o].stream \in setting.streams
          /\ ops[o].type \in {"commit", "manual", "rollback", "reconcile"}
          /\ ops[o].before \in Commits /\ ops[o].after \in Commits
          /\ ops[o].parent \in 0 .. o - 1
          /\ ops[o].time <= clock
    <2> TAKE o \in DOMAIN ops
    <2>1. o \in Nat /\ ops[o] \in OperationRecord /\ OperationOK(ops[o], o)
      BY DEF Types, LogTypes
    <2> QED BY <2>1 DEF OperationRecord, OperationTypes, OperationOK
  <1>3. LoggedChangeExists
    BY DEF Types, LogTypes, OperationOK, LoggedChangeExists
  <1> QED BY <1>1, <1>2, <1>3 DEF TypeOK, Types, GitTypes, LogTypes, CallTypes, CallOK

-----------------------------------------------------------------------------
(* Calls that do not overlap: the latest operation of a stream is its last *)

LEMMA TimesAre ==
  ASSUME LogTypes
  PROVE  /\ ops \in Seq(OperationRecord) /\ Len(ops) \in Nat /\ DOMAIN ops = 1 .. Len(ops)
         /\ \A o \in DOMAIN ops : o \in Nat /\ ops[o].time \in Nat /\ ops[o].time <= clock
         /\ clock \in Nat
  <1>1. \A o \in DOMAIN ops : ops[o] \in OperationRecord /\ OperationOK(ops[o], o) /\ o \in Nat
    BY DEF LogTypes
  <1>2. \A o \in DOMAIN ops : ops[o].time \in Nat /\ ops[o].time <= clock
    BY <1>1 DEF OperationRecord, OperationOK
  <1> QED BY <1>1, <1>2 DEF LogTypes

LEMMA OneLatest ==
  ASSUME LogTypes, Increasing, NEW s, NEW o \in LatestOperations(s), NEW q \in LatestOperations(s)
  PROVE  o = q
  <1>1. o \in DOMAIN ops /\ q \in DOMAIN ops /\ o \in Nat /\ q \in Nat
        /\ ops[o].time \in Nat /\ ops[q].time \in Nat
    BY TimesAre, LatestAre
  <1>2. ops[o].time <= ops[q].time /\ ops[q].time <= ops[o].time
    BY DEF LatestOperations
  <1>3. o < q => ops[o].time < ops[q].time
    BY <1>1 DEF Increasing
  <1>4. q < o => ops[q].time < ops[o].time
    BY <1>1 DEF Increasing
  <1> QED BY <1>1, <1>2, <1>3, <1>4

\* The log expects one head.
LEMMA OneExpected ==
  ASSUME LogTypes, Increasing, NEW s, NEW a \in ExpectedHeads(s), NEW b \in ExpectedHeads(s)
  PROVE  a = b
  BY OneLatest DEF ExpectedHeads

\* An operation of s, logged after all others
Latest(op, s) == op.stream = s /\ op.time \in Nat /\ \A o \in DOMAIN ops : ops[o].time < op.time

LEMMA AppendIs ==
  ASSUME LogTypes, NEW op, ops' = Append(ops, op)
  PROVE  /\ DOMAIN ops' = 1 .. Len(ops) + 1 /\ DOMAIN ops = 1 .. Len(ops) /\ Len(ops) \in Nat
         /\ ops'[Len(ops) + 1] = op /\ \A o \in DOMAIN ops : ops'[o] = ops[o]
  BY DEF LogTypes

LEMMA ExpectedAfter ==
  ASSUME LogTypes, NEW op, NEW s, Latest(op, s), ops' = Append(ops, op), base' = base
  PROVE  ExpectedHeads(s)' = {op.after} /\ \A t : t # s => ExpectedHeads(t)' = ExpectedHeads(t)
  <1>1. PICK z : z = Len(ops) + 1
    OBVIOUS
  <1>2. /\ DOMAIN ops' = 1 .. z /\ DOMAIN ops = 1 .. Len(ops) /\ Len(ops) \in Nat
        /\ ops'[z] = op /\ \A o \in DOMAIN ops : ops'[o] = ops[o]
    BY <1>1, AppendIs
  <1>3. z \in DOMAIN ops' /\ z \notin DOMAIN ops /\ DOMAIN ops' = DOMAIN ops \cup {z}
    BY <1>1, <1>2
  <1>4. OpsOf(s)' = OpsOf(s) \cup {z}
    BY <1>2, <1>3 DEF OpsOf, Latest
  <1>5. \A t : t # s => OpsOf(t)' = OpsOf(t)
    BY <1>2, <1>3 DEF OpsOf, Latest
  <1>6. LatestOperations(s)' = {z}
    <2>1. z \in LatestOperations(s)'
      <3>1. \A q \in OpsOf(s)' : ops'[q].time <= ops'[z].time
        <4> TAKE q \in OpsOf(s)'
        <4>1. CASE q = z
          BY <4>1, <1>2 DEF Latest
        <4>2. CASE q # z
          <5>1. q \in DOMAIN ops
            BY <4>2, <1>4 DEF OpsOf
          <5>2. ops[q].time < op.time /\ ops[q].time \in Nat /\ op.time \in Nat
            BY <5>1, TimesAre DEF Latest
          <5>3. ops'[q] = ops[q]
            BY <5>1, <1>2
          <5> QED BY <5>2, <5>3, <1>2
        <4> QED BY <4>1, <4>2
      <3> QED BY <3>1, <1>4 DEF LatestOperations
    <2>2. ASSUME NEW o \in LatestOperations(s)' PROVE o = z
      <3>1. o \in OpsOf(s)' /\ ops'[z].time <= ops'[o].time
        BY <1>4 DEF LatestOperations
      <3>2. o \in DOMAIN ops => ops[o].time < op.time /\ ops[o].time \in Nat /\ op.time \in Nat /\ ops'[o] = ops[o]
        BY TimesAre, <1>2 DEF Latest
      <3>3. o # z => o \in DOMAIN ops
        BY <3>1, <1>4 DEF OpsOf
      <3> QED BY <3>1, <3>2, <3>3, <1>2
    <2> QED BY <2>1, <2>2
  <1>7. ExpectedHeads(s)' = {op.after}
    <2>1. OpsOf(s)' # {}
      BY <1>4
    <2>2. ExpectedHeads(s)' = {ops'[o].after : o \in LatestOperations(s)'}
      BY <2>1 DEF ExpectedHeads
    <2> QED BY <1>2, <1>6, <2>2
  <1>8. \A t : t # s => ExpectedHeads(t)' = ExpectedHeads(t)
    <2> TAKE t
    <2> HAVE t # s
    <2>1. OpsOf(t)' = OpsOf(t) /\ OpsOf(t) \subseteq DOMAIN ops
      BY <1>5, LatestAre
    <2>2. LatestOperations(t)' = LatestOperations(t)
      BY <1>2, <2>1 DEF LatestOperations
    <2>3. LatestOperations(t) \subseteq DOMAIN ops
      BY LatestAre
    <2> QED BY <1>2, <2>1, <2>2, <2>3 DEF ExpectedHeads
  <1> QED BY <1>7, <1>8

LEMMA ExpectedStays ==
  ASSUME ops' = ops, base' = base
  PROVE  \A t : ExpectedHeads(t)' = ExpectedHeads(t) /\ LatestOperations(t)' = LatestOperations(t)
  BY DEF ExpectedHeads, OpsOf, LatestOperations

\* How the log goes on without a gap
Continues(op, s) ==
  /\ op.type # "rollback" => op.before \in ExpectedHeads(s)
  /\ op.parent # NoOp => /\ op.parent \in LatestOperations(s)
                         /\ op.after >= 2 /\ up[op.after] \in ExpectedHeads(s)

LEMMA LogGoesOn ==
  ASSUME LogTypes, Orderly, Increasing, Parents, NoGap, setting' = setting, up' = up,
         NEW op, NEW s, Latest(op, s), Continues(op, s), ops' = Append(ops, op)
  PROVE  Increasing' /\ Parents' /\ NoGap'
  <1>1. PICK z : z = Len(ops) + 1
    OBVIOUS
  <1>2. /\ DOMAIN ops' = 1 .. z /\ DOMAIN ops = 1 .. Len(ops) /\ Len(ops) \in Nat
        /\ ops'[z] = op /\ \A o \in DOMAIN ops : ops'[o] = ops[o]
    BY <1>1, AppendIs
  <1>3. /\ DOMAIN ops' = DOMAIN ops \cup {z} /\ z \notin DOMAIN ops /\ z \in Nat
        /\ \A o \in DOMAIN ops : o \in Nat /\ o < z
    BY <1>1, <1>2
  <1>4. Increasing'
    <2> SUFFICES ASSUME NEW o \in DOMAIN ops', NEW q \in DOMAIN ops', o < q
                 PROVE  ops'[o].time < ops'[q].time
      BY DEF Increasing
    <2>1. CASE q = z
      <3>1. o \in DOMAIN ops
        BY <2>1, <1>3
      <3> QED BY <2>1, <3>1, <1>2 DEF Latest
    <2>2. CASE q # z
      <3>1. q \in DOMAIN ops /\ o \in DOMAIN ops
        BY <2>2, <1>1, <1>2, <1>3
      <3> QED BY <3>1, <1>2 DEF Increasing
    <2> QED BY <2>1, <2>2
  <1>5. Parents'
    <2> SUFFICES ASSUME NEW q \in DOMAIN ops', ops'[q].parent # NoOp
                 PROVE  ops'[q].after >= 2 /\ up[ops'[q].after] = ops'[ops'[q].parent].after
      BY DEF Parents
    <2>1. CASE q = z
      <3>1. op.parent \in LatestOperations(s) /\ op.after >= 2 /\ up[op.after] \in ExpectedHeads(s)
        BY <2>1, <1>2 DEF Continues
      <3>2. op.parent \in DOMAIN ops /\ ops[op.parent].after \in ExpectedHeads(s)
        BY <3>1, LatestAre DEF ExpectedHeads
      <3>3. up[op.after] = ops[op.parent].after
        BY <3>1, <3>2, OneExpected
      <3> QED BY <2>1, <3>1, <3>2, <3>3, <1>2
    <2>2. CASE q # z
      <3>1. q \in DOMAIN ops /\ ops'[q] = ops[q]
        BY <2>2, <1>2, <1>3
      <3>2. ops[q].after >= 2 /\ up[ops[q].after] = ops[ops[q].parent].after
        BY <3>1 DEF Parents
      <3>3. ops[q].parent \in DOMAIN ops
        <4>1. ops[q] \in OperationRecord /\ OperationOK(ops[q], q) /\ q \in 1 .. Len(ops)
          BY <3>1, <1>2 DEF LogTypes
        <4>2. ops[q].parent \in Nat /\ ops[q].parent < q /\ ops[q].parent # 0
          BY <3>1, <4>1 DEF OperationRecord, OperationOK, NoOp
        <4> QED BY <4>1, <4>2, <1>2
      <3> QED BY <3>1, <3>2, <3>3, <1>2
    <2> QED BY <2>1, <2>2
  <1>6. NoGap'
    <2> SUFFICES ASSUME NEW o \in DOMAIN ops', NEW q \in DOMAIN ops', o < q,
                        ops'[o].stream = ops'[q].stream, ops'[q].type # "rollback",
                        \A r \in o + 1 .. q - 1 : ops'[r].stream # ops'[o].stream
                 PROVE  ops'[q].before = ops'[o].after
      BY DEF NoGap
    <2>1. CASE q = z
      <3>1. o \in DOMAIN ops /\ o \in Nat /\ ops'[o] = ops[o] /\ ops'[q] = op
        BY <2>1, <1>2, <1>3
      <3>2. ops[o].stream = s
        BY <3>1 DEF Latest
      <3>3. o \in OpsOf(s)
        BY <3>1, <3>2 DEF OpsOf
      <3>4. \A r \in OpsOf(s) : ops[r].time <= ops[o].time
        <4> TAKE r \in OpsOf(s)
        <4>1. r \in DOMAIN ops /\ ops[r].stream = s /\ r \in Nat /\ r < z /\ ops'[r] = ops[r]
          BY <1>2, <1>3 DEF OpsOf
        <4>2. r \notin o + 1 .. q - 1
          BY <3>1, <3>2, <4>1
        <4>3. r <= o
          BY <2>1, <3>1, <4>1, <4>2, <1>3
        <4>4. ops[r].time \in Nat /\ ops[o].time \in Nat
          BY <3>1, <4>1, TimesAre
        <4>5. r < o => ops[r].time < ops[o].time
          BY <3>1, <4>1 DEF Increasing
        <4> QED BY <3>1, <4>1, <4>3, <4>4, <4>5
      <3>5. o \in LatestOperations(s)
        BY <3>3, <3>4 DEF LatestOperations
      <3>6. ops[o].after \in ExpectedHeads(s)
        BY <3>3, <3>5 DEF ExpectedHeads
      <3>7. op.before \in ExpectedHeads(s)
        BY <3>1 DEF Continues
      <3> QED BY <3>1, <3>6, <3>7, OneExpected
    <2>2. CASE q # z
      <3>1. q \in DOMAIN ops /\ o \in DOMAIN ops /\ ops'[o] = ops[o] /\ ops'[q] = ops[q]
        BY <2>2, <1>1, <1>2, <1>3
      <3>2. \A r \in o + 1 .. q - 1 : r \in DOMAIN ops /\ ops'[r] = ops[r]
        BY <3>1, <1>2
      <3> QED BY <3>1, <3>2 DEF NoGap
    <2> QED BY <2>1, <2>2
  <1> QED BY <1>4, <1>5, <1>6

\* The log is as it was, and no commit has changed.
LEMMA LogIsSame ==
  ASSUME LogTypes, Increasing, Parents, NoGap, setting' = setting, ops' = ops,
         \A c \in Commits : up'[c] = up[c]
  PROVE  Increasing' /\ Parents' /\ NoGap'
  <1>1. \A q \in DOMAIN ops : ops[q].after \in Commits
    BY DEF LogTypes, OperationOK
  <1> QED BY <1>1 DEF Increasing, Parents, NoGap, Orderly

-----------------------------------------------------------------------------
(* What a step does to the one call there is *)

LEMMA QuietCall ==
  ASSUME NEW r, \A s \in Streams : ~ Writing(r, s) /\ ~ AtInsert(r, s)
  PROVE  KnownCall(r) /\ KnownCall(r)'
  <1>1. \A s \in Streams : /\ ~ AtCommit(r, s) /\ ~ Committed(r, s) /\ ~ AtLog(r, s) /\ ~ AtReset(r, s)
                           /\ ~ AtLogRollback(r, s) /\ ~ AtInsert(r, s)
    BY DEF Writing, Committed
  <1> HIDE DEF AtCommit, AtLog, AtReset, AtLogRollback, AtInsert, Committed
  <1>2. KnownCall(r)
    BY <1>1 DEF KnownCall
  <1>3. \A s \in Streams : /\ ~ AtCommit(r, s)' /\ ~ Committed(r, s)' /\ ~ AtLog(r, s)' /\ ~ AtReset(r, s)'
                           /\ ~ AtLogRollback(r, s)' /\ ~ AtInsert(r, s)'
    BY <1>1 DEF AtCommit, AtLog, AtReset, AtLogRollback, AtInsert, Committed, AtChange, AtRecord
  <1>4. KnownCall(r)'
    BY <1>3 DEF KnownCall
  <1> QED BY <1>2, <1>4

Sole(p) == \A q \in Procs : q # p => call[q].todo = <<>>

LEMMA SoleIs ==
  ASSUME LogKnown, NEW p \in Procs, call[p].todo # <<>>
  PROVE  Sole(p)
  BY DEF LogKnown, Idle, Sole

LEMMA KnownMoves ==
  ASSUME CallTypes, NEW p \in Procs, Sole(p), NEW r \in CallRecord, call' = [call EXCEPT ![p] = r],
         KnownCall(r)', Increasing', Parents', NoGap'
  PROVE  LogKnown'
  <1>1. call'[p] = r /\ \A q \in Procs : q # p => call'[q] = call[q]
    BY DEF CallTypes
  <1>2. \A q \in Procs : q # p => call'[q].todo = <<>>
    BY <1>1 DEF Sole
  <1>3. \A q \in Procs : KnownCall(call[q])'
    <2> TAKE q \in Procs
    <2>1. CASE q = p
      BY <2>1, <1>1
    <2>2. CASE q # p
      <3>1. PICK c : c = call'[q]
        OBVIOUS
      <3>2. \A s : ~ Writing(c, s) /\ ~ AtInsert(c, s)
        BY <1>2, <2>2, <3>1, ListsAre DEF Writing, Committed, AtInsert
      <3>3. KnownCall(c)'
        BY <3>2, QuietCall
      <3> QED BY <3>1, <3>3
    <2> QED BY <2>1, <2>2
  <1>4. \A q, w \in Procs : ~ Idle(q)' /\ ~ Idle(w)' => q = w
    BY <1>2 DEF Idle
  <1> QED BY <1>3, <1>4 DEF LogKnown

\* Only the call of p writes, and it writes s only.
LEMMA HeadsMove ==
  ASSUME CallTypes, GitTypes, Orderly, Alone, LoggedHeads, setting' = setting,
         NEW p \in Procs, Sole(p), NEW s \in Streams, Writing(call[p], s),
         NEW a \in CallRecord, call' = [call EXCEPT ![p] = a], ~ Repairing(a),
         Writing(a, s) \/ ExpectedHeads(s)' = {head'[s]}, head'[s] # Missing,
         \A t \in Streams : t # s => head'[t] = head[t] /\ ExpectedHeads(t)' = ExpectedHeads(t)
  PROVE  LoggedHeads'
  <1>1. call'[p] = a /\ \A q \in Procs : q # p => call'[q] = call[q] /\ call[q].todo = <<>>
    BY DEF CallTypes, Sole
  <1>2. \A q \in Procs : ~ Repairing(call[q])'
    <2>1. ~ Repairing(a)'
      BY DEF Repairing
    <2>2. \A q \in Procs : q # p => ~ Repairing(call[q])'
      BY <1>1 DEF Repairing
    <2> QED BY <1>1, <2>1, <2>2
  <1>3. setting.streams \subseteq Streams
    BY DEF GitTypes, Setting
  <1>4. \A t \in setting.streams : head'[t] # Missing
    BY <1>3 DEF LoggedHeads
  <1>5. \A t \in setting.streams : t # s => ExpectedHeads(t) = {head[t]}
    <2> TAKE t \in setting.streams
    <2> HAVE t # s
    <2>1. ~ Writing(call[p], t)
      BY ListsAre, WritesOne DEF Writing, Committed
    <2>2. \A q \in Procs : q # p => ~ Writing(call[q], t)
      BY <1>1, ListsAre DEF Writing, Committed
    <2>3. ~ Working(t)
      BY <1>3, <2>1, <2>2, WorkingIs
    <2> QED BY <2>3 DEF LoggedHeads, LogGivesHead, Alone
  <1>6. Writing(a, s) => Working(s)'
    BY <1>1, WritesAre DEF Working
  <1>7. LogGivesHead'
    <2> SUFFICES ASSUME NEW t \in setting.streams PROVE Working(t)' \/ ExpectedHeads(t)' = {head'[t]}
      BY DEF LogGivesHead
    <2>1. CASE t = s
      BY <2>1, <1>6
    <2>2. CASE t # s
      BY <2>2, <1>3, <1>5
    <2> QED BY <2>1, <2>2
  <1> QED BY <1>2, <1>4, <1>7 DEF LoggedHeads

\* The log knows the same after the step; and the heads it gives, if nothing else moved them.
KnownAfter == LogKnown' /\ (Alone' /\ LoggedHeads => LoggedHeads')

LEMMA GitCommitKnown ==
  ASSUME Types, Orderly, LogKnown, NEW p \in Procs, NEW s \in Streams, GitCommit(p, s)
  PROVE  KnownAfter
  <1> USE DEF Types
  <1>1. PICK r : r = call[p]
    OBVIOUS
  <1>2. r \in CallRecord /\ AtCommit(r, s) /\ Fit(r, s) /\ At(p, s)
    BY <1>1, AtIs, StatementIs DEF GitCommit, At
  <1>3. head[s] \in Commits /\ up' = Append(up, head[s])
    BY <1>2 DEF GitCommit, Fit, GitTypes
  <1>4. PICK n : n = Len(up')
    OBVIOUS
  <1>5. n \in Nat /\ n >= 2 /\ up'[n] = head[s] /\ \A c \in Commits : up'[c] = up[c]
    <2>1. /\ Len(up') = Len(up) + 1 /\ Len(up') >= 2
          /\ up'[Len(up')] = head[s] /\ \A c \in Commits : up'[c] = up[c]
      BY <1>3, GitGrows
    <2>2. Len(up) \in Nat
      BY DEF GitTypes
    <2> QED BY <1>4, <2>1, <2>2
  <1>6. /\ head' = [head EXCEPT ![s] = n]
        /\ UNCHANGED <<setting, base, status, changes, ops, crashes>>
    BY <1>4 DEF GitCommit
  <1>7. head'[s] = n /\ \A t \in Streams : t # s => head'[t] = head[t]
    BY <1>6 DEF GitTypes
  <1>8. \A t : ExpectedHeads(t)' = ExpectedHeads(t)
    BY <1>6, ExpectedStays
  <1>9. PICK a : a = After(r, n, 1)
    OBVIOUS
  <1>10. a \in CallRecord /\ a.commit = n /\ (AtChange(a, s) \/ AtLog(a, s))
    <2>1. r.todo # <<>> /\ Len(r.todo) # 1 /\ 1 \in Nat
      BY <1>2, ListsAre
    <2>2. a \in CallRecord /\ a.commit = n
      BY <1>2, <1>5, <1>9, <2>1, AfterIs
    <2>3. AtChange(a, s) \/ AtLog(a, s)
      BY <1>2, <1>5, <1>9, <2>1, AfterWriting
    <2> QED BY <2>2, <2>3
  <1>11. call' = [call EXCEPT ![p] = a]
    BY <1>1, <1>4, <1>9 DEF GitCommit, Done
  <1>12. InSync(s)
    BY <1>1, <1>2 DEF LogKnown, KnownCall
  <1>13. up'[n] \in ExpectedHeads(s)'
    BY <1>5, <1>8, <1>12 DEF InSync
  <1>14. Fresh'
    BY <1>6, LaterIs, TimesAre DEF Fresh, GitCommit, TimePasses
  <1>15. Committed(a, s) /\ Writing(a, s)
    BY <1>10 DEF Committed, Writing
  <1>16. /\ \A t : Committed(a, t) \/ AtLog(a, t) => t = s
         /\ \A t : ~ AtCommit(a, t) /\ ~ AtReset(a, t) /\ ~ AtLogRollback(a, t) /\ ~ AtInsert(a, t)
    <2>1. Head(a.todo) \in {<<"change", s>>, <<"log", s>>} /\ a.todo[1] = Head(a.todo)
      BY <1>10, ListsAre DEF AtChange, AtLog
    <2>2. \A t : Committed(a, t) \/ AtLog(a, t) => Head(a.todo)[2] = t
      BY ListsAre DEF Committed
    <2>3. \A t : /\ AtCommit(a, t) => Head(a.todo)[1] = "commit"
                 /\ AtReset(a, t) => Head(a.todo)[1] = "reset"
                 /\ AtLogRollback(a, t) => Head(a.todo)[1] = "log_rollback"
                 /\ AtInsert(a, t) => a.todo[1][1] = "insert"
      BY ListsAre DEF AtInsert
    <2> QED BY <2>1, <2>2, <2>3
  <1>17. KnownCall(a)'
    BY <1>7, <1>10, <1>13, <1>14, <1>16
       DEF KnownCall, Committed, AtCommit, AtChange, AtRecord, AtLog, AtReset, AtLogRollback, AtInsert
  <1>18. Increasing' /\ Parents' /\ NoGap'
    BY <1>5, <1>6, LogIsSame DEF LogKnown
  <1>19. Sole(p)
    BY <1>1, <1>2, SoleIs DEF At
  <1>20. LogKnown'
    BY <1>10, <1>11, <1>17, <1>18, <1>19, KnownMoves
  <1>21. ASSUME Alone', LoggedHeads PROVE LoggedHeads'
    <2>1. Alone
      BY <1>6, <1>21 DEF Alone
    <2>2. ~ Repairing(a)
      BY <1>10, <1>15, RepairsOnly
    <2>3. Writing(call[p], s) /\ head'[s] # Missing
      BY <1>1, <1>2, <1>5, <1>7 DEF Writing, Missing
    <2> QED BY <1>6, <1>7, <1>8, <1>10, <1>11, <1>15, <1>19, <1>21, <2>1, <2>2, <2>3, HeadsMove
  <1> QED BY <1>20, <1>21 DEF KnownAfter

LEMMA CreateChangeKnown ==
  ASSUME Types, Orderly, LogKnown, NEW p \in Procs, NEW s \in Streams, CreateChange(p, s)
  PROVE  KnownAfter
  <1> USE DEF Types
  <1>1. PICK r : r = call[p]
    OBVIOUS
  <1>2. r \in CallRecord /\ AtChange(r, s) /\ Fit(r, s) /\ At(p, s)
    BY <1>1, AtIs, StatementIs DEF CreateChange, At
  <1>3. UNCHANGED <<setting, up, head, base, status, ops, clock, crashes>>
    BY DEF CreateChange
  <1>4. \A t : ExpectedHeads(t)' = ExpectedHeads(t)
    BY <1>3, ExpectedStays
  <1>5. PICK a : a = After(r, r.commit, r.before)
    OBVIOUS
  <1>6. a \in CallRecord /\ a.commit = r.commit /\ AtRecord(a, s)
    BY <1>1, <1>2, <1>5, AfterIs, AfterWriting, ListsAre DEF At
  <1>7. call' = [call EXCEPT ![p] = a]
    BY <1>1, <1>5 DEF CreateChange, Proceed, Done
  <1>8. head[s] = r.commit /\ up[r.commit] \in ExpectedHeads(s)
    BY <1>1, <1>2 DEF LogKnown, KnownCall, Committed
  <1>9. head'[s] = a.commit /\ up'[a.commit] \in ExpectedHeads(s)'
    BY <1>3, <1>4, <1>6, <1>8
  <1>10. Writing(a, s) /\ Writing(r, s)
    BY <1>2, <1>6 DEF Committed, Writing
  <1>11. /\ \A t : Committed(a, t) => t = s
         /\ \A t : /\ ~ AtCommit(a, t) /\ ~ AtLog(a, t) /\ ~ AtReset(a, t) /\ ~ AtLogRollback(a, t)
                   /\ ~ AtInsert(a, t)
    <2>1. Head(a.todo) = <<"record", s>> /\ a.todo[1] = Head(a.todo)
      BY <1>6, ListsAre DEF AtRecord
    <2>2. \A t : Committed(a, t) => Head(a.todo)[2] = t
      BY ListsAre DEF Committed
    <2>3. \A t : /\ AtCommit(a, t) => Head(a.todo)[1] = "commit"
                 /\ AtLog(a, t) => Head(a.todo)[1] = "log"
                 /\ AtReset(a, t) => Head(a.todo)[1] = "reset"
                 /\ AtLogRollback(a, t) => Head(a.todo)[1] = "log_rollback"
                 /\ AtInsert(a, t) => a.todo[1][1] = "insert"
      BY ListsAre DEF AtInsert
    <2> QED BY <2>1, <2>2, <2>3
  <1>12. KnownCall(a)'
    BY <1>9, <1>11 DEF KnownCall, Committed, AtCommit, AtChange, AtRecord, AtLog, AtReset, AtLogRollback, AtInsert
  <1>13. Increasing' /\ Parents' /\ NoGap'
    BY <1>3, LogIsSame DEF LogKnown
  <1>14. Sole(p)
    BY <1>1, <1>2, SoleIs DEF At
  <1>15. LogKnown'
    BY <1>6, <1>7, <1>12, <1>13, <1>14, KnownMoves
  <1>16. ASSUME Alone', LoggedHeads PROVE LoggedHeads'
    <2>1. Alone
      BY <1>3, <1>16 DEF Alone
    <2>2. ~ Repairing(a)
      BY <1>6, <1>10, RepairsOnly
    <2>3. Writing(call[p], s) /\ head'[s] # Missing
      BY <1>1, <1>2, <1>3, <1>10 DEF Fit
    <2> QED BY <1>3, <1>4, <1>6, <1>7, <1>10, <1>14, <1>16, <2>1, <2>2, <2>3, HeadsMove
  <1> QED BY <1>15, <1>16 DEF KnownAfter

\* The last statement of a call that writes s logs the head of s.
LEMMA RecordKnown ==
  ASSUME Types, Orderly, LogKnown, UNCHANGED <<setting, up, head, base, status, changes, crashes>>,
         NEW p \in Procs, NEW s \in Streams, At(p, s), Fit(call[p], s),
         AtRecord(call[p], s) \/ AtLog(call[p], s) \/ AtLogRollback(call[p], s), Proceed(p),
         NEW op, ops' = Append(ops, op), Latest(op, s), Continues(op, s), op.after = head[s]
  PROVE  KnownAfter
  <1> USE DEF Types
  <1>1. call' = [call EXCEPT ![p] = NoCall]
    BY LastEnds
  <1>2. NoCall \in CallRecord /\ (\A t : ~ Writing(NoCall, t) /\ ~ AtInsert(NoCall, t)) /\ ~ Repairing(NoCall)
    BY NoCallIs
  <1>3. KnownCall(NoCall)'
    BY <1>2, QuietCall
  <1>4. Increasing' /\ Parents' /\ NoGap'
    BY LogGoesOn DEF LogKnown
  <1>5. Sole(p)
    BY SoleIs DEF At
  <1>6. LogKnown'
    BY <1>1, <1>2, <1>3, <1>4, <1>5, KnownMoves
  <1>7. ASSUME Alone', LoggedHeads PROVE LoggedHeads'
    <2>1. Alone
      BY <1>7 DEF Alone
    <2>2. ExpectedHeads(s)' = {op.after} /\ \A t : t # s => ExpectedHeads(t)' = ExpectedHeads(t)
      BY ExpectedAfter
    <2>3. Writing(call[p], s) /\ head'[s] # Missing
      BY DEF Fit, Writing, Committed
    <2> QED BY <1>1, <1>2, <1>5, <1>7, <2>1, <2>2, <2>3, HeadsMove
  <1> QED BY <1>6, <1>7 DEF KnownAfter

LEMMA RecordCommitKnown ==
  ASSUME Types, Orderly, LogKnown, NEW p \in Procs, NEW s \in Streams, RecordCommit(p, s)
  PROVE  KnownAfter
  <1>1. PICK r : r = call[p]
    OBVIOUS
  <1>2. r \in CallRecord /\ AtRecord(r, s) /\ Fit(r, s) /\ At(p, s)
    BY <1>1, AtIs, StatementIs DEF RecordCommit, At
  <1>3. head[s] = r.commit /\ up[r.commit] \in ExpectedHeads(s)
    BY <1>1, <1>2 DEF LogKnown, KnownCall, Committed
  <1>4. PICK op : op = Operation(s, "commit", up[head[s]], r.commit, NoOp, Later)
    OBVIOUS
  <1>5. ops' = Append(ops, op) /\ Proceed(p) /\ UNCHANGED <<setting, up, head, base, status, changes, crashes>>
    BY <1>1, <1>4 DEF RecordCommit, RecordOperation
  <1>6. /\ op.stream = s /\ op.before = up[head[s]] /\ op.after = r.commit /\ op.parent = NoOp
        /\ op.time = Later
    BY <1>4 DEF Operation
  <1>7. Latest(op, s)
    BY <1>6, LaterIs DEF Latest, Types
  <1>8. Continues(op, s) /\ op.after = head[s]
    BY <1>3, <1>6 DEF Continues
  <1> QED BY <1>1, <1>2, <1>5, <1>7, <1>8, RecordKnown

\* Nothing was logged in this millisecond.
LEMMA FreshIs ==
  ASSUME LogTypes, Fresh
  PROVE  clock \in Nat /\ \A o \in DOMAIN ops : ops[o].time < clock
  BY TimesAre DEF Fresh

LEMMA RecordByHandKnown ==
  ASSUME Types, Orderly, LogKnown, NEW p \in Procs, NEW s \in Streams, RecordByHand(p, s)
  PROVE  KnownAfter
  <1>1. PICK r : r = call[p]
    OBVIOUS
  <1>2. r \in CallRecord /\ AtLog(r, s) /\ Fit(r, s) /\ At(p, s)
    BY <1>1, AtIs, StatementIs DEF RecordByHand, At
  <1>3. head[s] = r.commit /\ up[r.commit] \in ExpectedHeads(s) /\ Fresh /\ r.commit >= 2
    BY <1>1, <1>2 DEF LogKnown, KnownCall, Committed, Fit
  <1>4. PICK o \in IF OpsOf(s) = {} THEN {NoOp} ELSE LatestOperations(s) :
          RecordOperation(Operation(s, "manual", up[r.commit], r.commit, o, clock))
    BY <1>1 DEF RecordByHand
  <1>5. PICK op : op = Operation(s, "manual", up[r.commit], r.commit, o, clock)
    OBVIOUS
  <1>6. ops' = Append(ops, op) /\ Proceed(p) /\ UNCHANGED <<setting, up, head, base, status, changes, crashes>>
    BY <1>4, <1>5 DEF RecordByHand, RecordOperation
  <1>7. /\ op.stream = s /\ op.before = up[r.commit] /\ op.after = r.commit /\ op.parent = o
        /\ op.time = clock
    BY <1>5 DEF Operation
  <1>8. Latest(op, s)
    BY <1>3, <1>7, FreshIs DEF Latest, Types
  <1>9. o = NoOp \/ o \in LatestOperations(s)
    BY <1>4
  <1>10. Continues(op, s) /\ op.after = head[s]
    BY <1>3, <1>7, <1>9 DEF Continues
  <1> QED BY <1>1, <1>2, <1>6, <1>8, <1>10, RecordKnown

LEMMA RecordRollbackKnown ==
  ASSUME Types, Orderly, LogKnown, NEW p \in Procs, NEW s \in Streams, RecordRollback(p, s)
  PROVE  KnownAfter
  <1>1. PICK r : r = call[p]
    OBVIOUS
  <1>2. r \in CallRecord /\ AtLogRollback(r, s) /\ Fit(r, s) /\ At(p, s)
    BY <1>1, AtIs, StatementIs DEF RecordRollback, At
  <1>3. head[s] = r.commit /\ Fresh
    BY <1>1, <1>2 DEF LogKnown, KnownCall
  <1>4. PICK op : op = Operation(s, "rollback", r.before, r.commit, NoOp, clock)
    OBVIOUS
  <1>5. ops' = Append(ops, op) /\ Proceed(p) /\ UNCHANGED <<setting, up, head, base, status, changes, crashes>>
    BY <1>1, <1>4 DEF RecordRollback, RecordOperation
  <1>6. op.stream = s /\ op.type = "rollback" /\ op.after = r.commit /\ op.parent = NoOp /\ op.time = clock
    BY <1>4 DEF Operation
  <1>7. Latest(op, s)
    BY <1>3, <1>6, FreshIs DEF Latest, Types
  <1>8. Continues(op, s) /\ op.after = head[s]
    BY <1>3, <1>6 DEF Continues
  <1> QED BY <1>1, <1>2, <1>5, <1>7, <1>8, RecordKnown

LEMMA ResetHardKnown ==
  ASSUME Types, Orderly, LogKnown, NEW p \in Procs, NEW s \in Streams, ResetHard(p, s)
  PROVE  KnownAfter
  <1> USE DEF Types
  <1>1. PICK r : r = call[p]
    OBVIOUS
  <1>2. r \in CallRecord /\ AtReset(r, s) /\ Fit(r, s) /\ At(p, s)
    BY <1>1, AtIs, StatementIs DEF ResetHard, At
  <1>3. r.commit # Missing /\ r.commit \in Nat /\ r.before \in Nat
    BY <1>1, <1>2 DEF At, Missing, Commits
  <1>4. head' = [head EXCEPT ![s] = r.commit] /\ UNCHANGED <<setting, up, base, status, changes, ops, crashes>>
    BY <1>1 DEF ResetHard
  <1>5. head'[s] = r.commit /\ \A t \in Streams : t # s => head'[t] = head[t]
    BY <1>4 DEF GitTypes
  <1>6. \A t : ExpectedHeads(t)' = ExpectedHeads(t)
    BY <1>4, ExpectedStays
  <1>7. PICK a : a = After(r, r.commit, r.before)
    OBVIOUS
  <1>8. a \in CallRecord /\ a.commit = r.commit /\ AtLogRollback(a, s)
    BY <1>2, <1>3, <1>7, AfterIs, AfterWriting, ListsAre
  <1>9. call' = [call EXCEPT ![p] = a]
    BY <1>1, <1>7 DEF ResetHard, Proceed, Done
  <1>10. Fresh'
    BY <1>4, LaterIs, TimesAre DEF Fresh, ResetHard, TimePasses
  <1>11. Writing(a, s) /\ Writing(r, s)
    BY <1>2, <1>8 DEF Writing
  <1>12. /\ \A t : AtLogRollback(a, t) => t = s
         /\ \A t : ~ AtCommit(a, t) /\ ~ Committed(a, t) /\ ~ AtReset(a, t) /\ ~ AtLog(a, t) /\ ~ AtInsert(a, t)
    <2>1. Head(a.todo) = <<"log_rollback", s>> /\ a.todo[1] = Head(a.todo)
      BY <1>8, ListsAre DEF AtLogRollback
    <2>2. \A t : AtLogRollback(a, t) => Head(a.todo)[2] = t
      BY ListsAre
    <2>3. \A t : /\ AtCommit(a, t) => Head(a.todo)[1] = "commit"
                 /\ AtLog(a, t) => Head(a.todo)[1] = "log"
                 /\ AtReset(a, t) => Head(a.todo)[1] = "reset"
                 /\ Committed(a, t) => Head(a.todo)[1] \in {"change", "record", "log"}
                 /\ AtInsert(a, t) => a.todo[1][1] = "insert"
      BY ListsAre DEF AtInsert, Committed
    <2> QED BY <2>1, <2>2, <2>3
  <1>13. KnownCall(a)'
    BY <1>5, <1>8, <1>10, <1>12
       DEF KnownCall, Committed, AtCommit, AtChange, AtRecord, AtLog, AtReset, AtLogRollback, AtInsert
  <1>14. Increasing' /\ Parents' /\ NoGap'
    BY <1>4, LogIsSame DEF LogKnown
  <1>15. Sole(p)
    BY <1>1, <1>2, SoleIs DEF At
  <1>16. LogKnown'
    BY <1>8, <1>9, <1>13, <1>14, <1>15, KnownMoves
  <1>17. ASSUME Alone', LoggedHeads PROVE LoggedHeads'
    <2>1. Alone
      BY <1>4, <1>17 DEF Alone
    <2>2. ~ Repairing(a)
      BY <1>8, <1>11, RepairsOnly
    <2>3. Writing(call[p], s) /\ head'[s] # Missing
      BY <1>1, <1>3, <1>5, <1>11
    <2> QED BY <1>4, <1>5, <1>6, <1>8, <1>9, <1>11, <1>15, <1>17, <2>1, <2>2, <2>3, HeadsMove
  <1> QED BY <1>16, <1>17 DEF KnownAfter

\* A call that repairs: then heads and log did come apart.
LEMMA RepairKnown ==
  ASSUME Types, LogKnown, NEW p \in Procs, NEW s \in Streams, At(p, s), Repairing(call[p]),
         NEW a \in CallRecord, call' = [call EXCEPT ![p] = a], KnownCall(a)', Increasing', Parents', NoGap'
  PROVE  KnownAfter
  <1>1. Sole(p)
    BY SoleIs DEF At
  <1>2. LogKnown'
    BY <1>1, KnownMoves DEF Types
  <1>3. ~ LoggedHeads
    BY DEF LoggedHeads
  <1> QED BY <1>2, <1>3 DEF KnownAfter

LEMMA RepairProceedsKnown ==
  ASSUME Types, LogKnown, NEW p \in Procs, NEW s \in Streams, At(p, s), Repairing(call[p]),
         Proceed(p), Increasing', Parents', NoGap'
  PROVE  KnownAfter
  <1>1. PICK r : r = call[p]
    OBVIOUS
  <1>2. r \in CallRecord /\ Repairing(r) /\ r.commit \in Nat /\ r.before \in Nat /\ r.todo # <<>>
    BY <1>1 DEF At
  <1>3. PICK a : a = After(r, r.commit, r.before)
    OBVIOUS
  <1>4. a \in CallRecord /\ call' = [call EXCEPT ![p] = a]
    BY <1>1, <1>2, <1>3, AfterIs DEF Proceed, Done
  <1>5. \A t \in Streams : ~ Writing(a, t) /\ ~ AtInsert(a, t)
    <2>1. CASE a = NoCall
      BY <2>1, NoCallIs DEF Types
    <2>2. CASE a # NoCall
      <3>1. Repairing(a) /\ \A t : ~ AtInsert(a, t)
        BY <1>2, <1>3, <2>2, AfterRepairing
      <3> QED BY <1>4, <3>1, RepairsOnly
    <2> QED BY <2>1, <2>2
  <1>6. KnownCall(a)'
    BY <1>5, QuietCall
  <1> QED BY <1>1, <1>2, <1>4, <1>6, RepairKnown

LEMMA ReadHeadsKnown ==
  ASSUME Types, Orderly, LogKnown, NEW p \in Procs, NEW s \in Streams, ReadHeads(p, s)
  PROVE  KnownAfter
  <1> USE DEF Types
  <1>1. PICK r : r = call[p]
    OBVIOUS
  <1>2. r \in CallRecord /\ Repairing(r) /\ s \in setting.streams /\ At(p, s)
    <2>1. At(p, s) /\ Head(r.todo) = <<"read", s>> /\ "read" \in Reconciling
      BY <1>1, AtIs DEF ReadHeads, Reconciling
    <2> QED BY <1>1, <2>1, StatementIs DEF At
  <1>3. UNCHANGED <<setting, up, head, base, status, changes, ops, crashes>>
    BY DEF ReadHeads
  <1>4. Increasing' /\ Parents' /\ NoGap'
    BY <1>3, LogIsSame DEF LogKnown
  <1>5. CASE head[s] = Missing
    <2>1. Proceed(p)
      BY <1>5 DEF ReadHeads
    <2> QED BY <1>1, <1>2, <1>4, <2>1, RepairProceedsKnown
  <1>6. CASE head[s] # Missing
    <2>1. PICK b \in ExpectedHeads(s) :
            call' = [call EXCEPT ![p] = [todo |-> <<<<"insert", s>>>> \o Tail(@.todo),
                                         commit |-> head[s], before |-> b, back |-> 0]]
      BY <1>6 DEF ReadHeads
    <2>2. b \in Nat /\ head[s] \in Nat
      <3>1. b \in Commits /\ head[s] \in Commits
        BY <1>6, ExpectedAre DEF GitTypes
      <3> QED BY <3>1 DEF Commits
    <2>3. PICK a : a = Inserting(r, s, head[s], b)
      OBVIOUS
    <2>4. call' = [call EXCEPT ![p] = a]
      BY <1>1, <2>1, <2>3 DEF Inserting
    <2>5. a \in CallRecord /\ Repairing(a) /\ AtInsert(a, s)
      BY <1>2, <2>2, <2>3, InsertingIs DEF GitTypes
    <2>6. a.before = b
      BY <2>3 DEF Inserting
    <2>7. Fresh'
      BY <1>3, LaterIs, TimesAre DEF Fresh, ReadHeads, TimePasses
    <2>8. b \in ExpectedHeads(s)'
      BY <1>3, <2>1, ExpectedStays
    <2>9. \A t : /\ AtInsert(a, t) => t = s
                 /\ ~ AtCommit(a, t) /\ ~ Committed(a, t) /\ ~ AtReset(a, t) /\ ~ AtLog(a, t) /\ ~ AtLogRollback(a, t)
      <3>1. \A t : ~ Writing(a, t)
        BY <2>5, RepairsOnly
      <3>2. \A t : AtInsert(a, t) => t = s
        BY <2>5 DEF AtInsert
      <3> QED BY <3>1, <3>2 DEF Writing, Committed
    <2>10. KnownCall(a)'
      BY <2>6, <2>7, <2>8, <2>9
         DEF KnownCall, Committed, AtCommit, AtChange, AtRecord, AtLog, AtReset, AtLogRollback, AtInsert
    <2> QED BY <1>1, <1>2, <1>4, <2>4, <2>5, <2>10, RepairKnown
  <1> QED BY <1>5, <1>6

LEMMA RecordReconcileKnown ==
  ASSUME Types, Orderly, LogKnown, NEW p \in Procs, NEW s \in Streams, RecordReconcile(p, s)
  PROVE  KnownAfter
  <1> USE DEF Types
  <1>1. PICK r : r = call[p]
    OBVIOUS
  <1>2. r \in CallRecord /\ Repairing(r) /\ AtInsert(r, s) /\ s \in setting.streams /\ At(p, s)
    <2>1. At(p, s) /\ Head(r.todo) = <<"insert", s>> /\ "insert" \in Reconciling
      BY <1>1, AtIs DEF RecordReconcile, Reconciling
    <2> QED BY <1>1, <2>1, StatementIs DEF At
  <1>3. Fresh /\ r.before \in ExpectedHeads(s)
    BY <1>1, <1>2 DEF LogKnown, KnownCall
  <1>4. PICK op : op = Operation(s, "reconcile", r.before, r.commit, NoOp, clock)
    OBVIOUS
  <1>5. ops' = Append(ops, op) /\ Proceed(p) /\ UNCHANGED <<setting, up, head, base, status, changes, crashes>>
    BY <1>1, <1>4 DEF RecordReconcile, RecordOperation
  <1>6. op.stream = s /\ op.before = r.before /\ op.parent = NoOp /\ op.time = clock
    BY <1>4 DEF Operation
  <1>7. Latest(op, s)
    BY <1>3, <1>6, FreshIs DEF Latest
  <1>8. Continues(op, s)
    BY <1>3, <1>6 DEF Continues
  <1>9. Increasing' /\ Parents' /\ NoGap'
    BY <1>5, <1>7, <1>8, LogGoesOn DEF LogKnown
  <1> QED BY <1>1, <1>2, <1>5, <1>9, RepairProceedsKnown

LEMMA CreateStreamBranchKnown ==
  ASSUME Types, Orderly, LogKnown, NEW p \in Procs, NEW s \in Streams, CreateStreamBranch(p, s)
  PROVE  KnownAfter
  <1> USE DEF Types
  <1>1. PICK r : r = call[p]
    OBVIOUS
  <1>2. r \in CallRecord /\ Repairing(r) /\ s \in setting.streams /\ At(p, s)
    <2>1. At(p, s) /\ Head(r.todo) = <<"create", s>> /\ "create" \in Reconciling
      BY <1>1, AtIs DEF CreateStreamBranch, Reconciling
    <2> QED BY <1>1, <2>1, StatementIs DEF At
  <1>3. UNCHANGED <<setting, up, base, status, changes, ops, crashes>>
    BY DEF CreateStreamBranch
  <1>4. Increasing' /\ Parents' /\ NoGap'
    BY <1>3, LogIsSame DEF LogKnown
  <1> QED BY <1>1, <1>2, <1>4, RepairProceedsKnown DEF CreateStreamBranch

LEMMA CrashKnown ==
  ASSUME Types, Orderly, LogKnown, NEW p \in Procs, Crash(p)
  PROVE  KnownAfter
  <1> USE DEF Types
  <1>1. call' = [call EXCEPT ![p] = NoCall] /\ UNCHANGED <<setting, up, head, base, status, changes, ops, clock>>
    BY DEF Crash
  <1>2. NoCall \in CallRecord /\ KnownCall(NoCall)'
    BY NoCallIs, QuietCall
  <1>3. Increasing' /\ Parents' /\ NoGap'
    BY <1>1, LogIsSame DEF LogKnown
  <1>4. Sole(p)
    BY SoleIs DEF Crash, Idle
  <1>5. LogKnown'
    BY <1>1, <1>2, <1>3, <1>4, KnownMoves
  <1>6. ~ Alone'
    BY DEF Crash, LogTypes, GitTypes, Setting, Alone
  <1> QED BY <1>5, <1>6 DEF KnownAfter

-----------------------------------------------------------------------------
(* Beginnings, when no other call is under way *)

Still == \A p \in Procs : call[p].todo = <<>>

LEMMA StillIs ==
  ASSUME CallTypes, Orderly, Free
  PROVE  Still /\ (\A s \in Streams : ~ Working(s)) /\ \A p \in Procs : Sole(p)
  <1>1. Still
    BY DEF Orderly, Free, Idle, Still
  <1>2. \A s \in Streams : ~ Working(s)
    BY <1>1, WorkingIs, ListsAre DEF Still, Writing, Committed
  <1>3. \A p \in Procs : Sole(p)
    BY <1>1 DEF Still, Sole
  <1> QED BY <1>1, <1>2, <1>3

LEMMA BeginKnown ==
  ASSUME Types, Orderly, LogKnown, NEW p \in Procs, NEW r \in CallRecord, Begin(p, r), KnownCall(r)',
         ~ Repairing(r) \/ ~ (Alone /\ LoggedHeads)
  PROVE  KnownAfter
  <1> USE DEF Types
  <1>1. call' = [call EXCEPT ![p] = r] /\ UNCHANGED <<setting, up, head, base, status, changes, ops, clock, crashes>>
        /\ Free
    BY DEF Begin
  <1>2. Still /\ (\A s \in Streams : ~ Working(s)) /\ Sole(p)
    BY <1>1, StillIs
  <1>3. Increasing' /\ Parents' /\ NoGap'
    BY <1>1, LogIsSame DEF LogKnown
  <1>4. LogKnown'
    BY <1>1, <1>2, <1>3, KnownMoves
  <1>5. ASSUME Alone', LoggedHeads PROVE LoggedHeads'
    <2>1. Alone /\ ~ Repairing(r)
      BY <1>1, <1>5 DEF Alone
    <2>2. \A q \in Procs : ~ Repairing(call[q])'
      <3>1. ~ Repairing(r)'
        BY <1>1, <2>1 DEF Repairing
      <3>2. \A q \in Procs : q # p => call'[q].todo = <<>>
        BY <1>1, <1>2 DEF CallTypes, Still
      <3>3. call'[p] = r
        BY <1>1 DEF CallTypes
      <3> QED BY <3>1, <3>2, <3>3 DEF Repairing
    <2>3. \A s \in setting.streams : ExpectedHeads(s) = {head[s]}
      BY <1>2, <1>5, <2>1 DEF LoggedHeads, LogGivesHead, Alone, GitTypes, Setting
    <2>4. LogGivesHead'
      BY <1>1, <2>3, ExpectedStays DEF LogGivesHead
    <2> QED BY <1>1, <1>5, <2>2, <2>4 DEF LoggedHeads
  <1> QED BY <1>4, <1>5 DEF KnownAfter

LEMMA CommitsBeginKnown ==
  ASSUME Types, Orderly, LogKnown, NEW p \in Procs, NEW s \in Streams, CommitChanges(p, s) \/ CommitByHand(p, s)
  PROVE  KnownAfter
  <1>1. PICK r : CommitCall(p, s, r)
    BY CommitsBegin
  <1>2. r \in CallRecord /\ AtCommit(r, s) /\ Begin(p, r) /\ InSync(s)
    BY <1>1 DEF CommitCall, MayWrite
  <1>3. InSync(s)'
    BY <1>2, ExpectedStays DEF InSync, Begin
  <1>4. /\ \A t : AtCommit(r, t) => t = s
        /\ \A t : ~ Committed(r, t) /\ ~ AtLog(r, t) /\ ~ AtReset(r, t) /\ ~ AtLogRollback(r, t) /\ ~ AtInsert(r, t)
    <2>1. Head(r.todo) = <<"commit", s>> /\ r.todo # <<>>
      BY <1>2, ListsAre
    <2>2. r.todo[1] = Head(r.todo)
      BY <1>2, <2>1 DEF CallRecord
    <2>3. \A t : AtCommit(r, t) => Head(r.todo)[2] = t
      BY ListsAre
    <2>4. \A t : /\ AtLog(r, t) => Head(r.todo)[1] = "log"
                 /\ AtReset(r, t) => Head(r.todo)[1] = "reset"
                 /\ AtLogRollback(r, t) => Head(r.todo)[1] = "log_rollback"
                 /\ Committed(r, t) => Head(r.todo)[1] \in {"change", "record", "log"}
                 /\ AtInsert(r, t) => r.todo[1][1] = "insert"
      BY ListsAre DEF AtInsert, Committed
    <2> QED BY <2>1, <2>2, <2>3, <2>4
  <1>5. KnownCall(r)'
    BY <1>3, <1>4 DEF KnownCall, Committed, AtCommit, AtChange, AtRecord, AtLog, AtReset, AtLogRollback, AtInsert
  <1>6. ~ Repairing(r)
    BY <1>2, RepairsOnly DEF Writing
  <1> QED BY <1>2, <1>5, <1>6, BeginKnown

\* rollbackN finds the commit that many steps up.
LEMMA RollbackFinds ==
  ASSUME Types, LogKnown, NEW s \in Streams, InSync(s), NEW n \in 1 .. Len(ops),
         NEW o \in LatestOperations(s), Back[n][o] # NoOp
  PROVE  ops[Back[n][o]].after = Ancestor[n][head[s]]
  <1>1. o \in DOMAIN ops /\ n \in 0 .. Len(ops)
    BY LatestAre DEF Types, LogTypes
  <1>2. ops[Back[n][o]].after = Ancestor[n][ops[o].after]
    BY <1>1, BackIsAncestor DEF Types, LogKnown
  <1>3. ops[o].after \in ExpectedHeads(s)
    BY LatestAre DEF ExpectedHeads
  <1>4. head[s] = ops[o].after
    BY <1>3, OneExpected DEF InSync, Types, LogKnown
  <1> QED BY <1>2, <1>4

LEMMA RollbacksKnown ==
  ASSUME Types, Orderly, LogKnown, NEW p \in Procs, NEW s \in Streams,
         \/ RollbackToForkPoint(p, s)
         \/ \E o \in DOMAIN ops : RollbackToOperation(p, s, o)
         \/ \E n \in 1 .. Len(ops) : RollbackN(p, s, n)
  PROVE  KnownAfter
  <1>1. PICK c \in Commits, n \in Nat :
          /\ BeginRollback(p, s, c, n)
          /\ n > 0 => /\ n \in 1 .. Len(ops)
                      /\ \E o \in LatestOperations(s) : Back[n][o] # NoOp /\ c = ops[Back[n][o]].after
    BY RollbackTargets
  <1>2. PICK r : RollbackCall(p, s, c, n, r)
    BY <1>1, RollbackBegins
  <1>3. r \in CallRecord /\ AtReset(r, s) /\ Begin(p, r) /\ InSync(s) /\ r.commit = c /\ r.back = n
    BY <1>2 DEF RollbackCall, MayWrite
  <1>4. n > 0 => n <= Len(ops) /\ c = Ancestor[n][head[s]]
    BY <1>1, <1>3, RollbackFinds
  <1>5. UNCHANGED <<up, ops, head>>
    BY <1>3 DEF Begin
  <1>6. Ancestor' = Ancestor
    BY <1>5 DEF Ancestor, Commits
  <1>7. n > 0 => n <= Len(ops') /\ c = Ancestor'[n][head'[s]]
    BY <1>4, <1>5, <1>6
  <1>8. /\ \A t : AtReset(r, t) => t = s
        /\ \A t : ~ AtCommit(r, t) /\ ~ Committed(r, t) /\ ~ AtLog(r, t) /\ ~ AtLogRollback(r, t) /\ ~ AtInsert(r, t)
    <2>1. Head(r.todo) = <<"reset", s>> /\ r.todo # <<>>
      BY <1>3, ListsAre
    <2>2. r.todo[1] = Head(r.todo)
      BY <1>3, <2>1 DEF CallRecord
    <2>3. \A t : AtReset(r, t) => Head(r.todo)[2] = t
      BY ListsAre
    <2>4. \A t : /\ AtLog(r, t) => Head(r.todo)[1] = "log"
                 /\ AtCommit(r, t) => Head(r.todo)[1] = "commit"
                 /\ AtLogRollback(r, t) => Head(r.todo)[1] = "log_rollback"
                 /\ Committed(r, t) => Head(r.todo)[1] \in {"change", "record", "log"}
                 /\ AtInsert(r, t) => r.todo[1][1] = "insert"
      BY ListsAre DEF AtInsert, Committed
    <2> QED BY <2>1, <2>2, <2>3, <2>4
  <1>9. KnownCall(r)'
    BY <1>3, <1>7, <1>8 DEF KnownCall, Committed, AtCommit, AtChange, AtRecord, AtLog, AtReset, AtLogRollback, AtInsert
  <1>10. ~ Repairing(r)
    BY <1>3, RepairsOnly DEF Writing
  <1> QED BY <1>3, <1>9, <1>10, BeginKnown

LEMMA ReconcileKnown ==
  ASSUME Types, Orderly, LogKnown, NEW p \in Procs, NEW S \in Chosen, NEW u, NEW v, Reconcile(p, S, u, v)
  PROVE  KnownAfter
  <1>1. PICK D, M, r : RepairCall(p, S, D, M, r)
    BY ReconcileIs
  <1>2. r \in CallRecord /\ Repairing(r) /\ \A s : ~ AtInsert(r, s)
    BY <1>1, RepairsAre
  <1>3. \E s \in S : head[s] = Missing \/ ExpectedHeads(s) # {head[s]}
    BY <1>1, RepairsAre
  <1>4. KnownCall(r)'
    BY <1>2, RepairsOnly, QuietCall
  <1>5. Begin(p, r) /\ Free
    BY <1>1 DEF RepairCall, Begin
  <1>6. ~ (Alone /\ LoggedHeads)
    <2>1. S \subseteq setting.streams /\ setting.streams \subseteq Streams
      BY ChosenAre DEF Types
    <2>2. \A s \in Streams : ~ Working(s)
      BY <1>5, StillIs DEF Types
    <2>3. Alone /\ LoggedHeads => \A s \in S : head[s] # Missing /\ ExpectedHeads(s) = {head[s]}
      BY <2>1, <2>2 DEF LoggedHeads, LogGivesHead, Alone
    <2> QED BY <1>3, <2>3
  <1> QED BY <1>2, <1>4, <1>5, <1>6, BeginKnown

\* Branches move without the log only when no call is under way, and then the log is not all.
LEMMA OutsideKnown ==
  ASSUME Types, Orderly, LogKnown, NEW s \in Streams,
         OutsideCommit(s) \/ Rebase(s) \/ DeleteBranch(s) \/ SetStatus(s)
  PROVE  KnownAfter
  <1> USE DEF Types
  <1>1. Outside(s) /\ UNCHANGED <<setting, ops, call>>
    BY DEF OutsideCommit, Rebase, DeleteBranch, SetStatus
  <1>2. ~ Alone'
    BY <1>1 DEF Outside, Alone
  <1>3. \A c \in Commits : up'[c] = up[c]
    <2>1. up \in Seq(Nat) /\ Commits = 1 .. Len(up)
      BY DEF GitTypes, Commits
    <2>2. CASE up' = up
      BY <2>2
    <2>3. CASE OutsideCommit(s)
      <3>1. up' = Append(up, head[s])
        BY <2>3 DEF OutsideCommit
      <3> QED BY <2>1, <3>1
    <2>4. CASE Rebase(s)
      <3>1. PICK tail : tail \in Seq(Nat) /\ up' = up \o tail
        <4>1. Len(up) + 1 \in Nat
          BY <2>1
        <4>2. <<1, Len(up) + 1>> \in Seq(Nat) /\ <<1>> \in Seq(Nat)
          BY <4>1
        <4> QED BY <2>4, <4>2 DEF Rebase
      <3> QED BY <2>1, <3>1
    <2>5. DeleteBranch(s) \/ SetStatus(s) => up' = up
      BY DEF DeleteBranch, SetStatus
    <2> QED BY <2>2, <2>3, <2>4, <2>5
  <1>4. Increasing' /\ Parents' /\ NoGap'
    BY <1>1, <1>3, LogIsSame DEF LogKnown
  <1>5. Still
    BY <1>1, StillIs DEF Outside
  <1>6. \A q \in Procs : KnownCall(call[q])'
    <2> TAKE q \in Procs
    <2>1. PICK c : c = call[q]
      OBVIOUS
    <2>2. \A t : ~ Writing(c, t) /\ ~ AtInsert(c, t)
      BY <1>5, <2>1, ListsAre DEF Still, Writing, Committed, AtInsert
    <2>3. KnownCall(c)'
      BY <2>2, QuietCall
    <2> QED BY <1>1, <2>1, <2>3
  <1>7. LogKnown'
    BY <1>1, <1>4, <1>5, <1>6 DEF LogKnown, Idle, Still
  <1> QED BY <1>2, <1>7 DEF KnownAfter

-----------------------------------------------------------------------------
(* The theorems *)

LEMMA StepKnown ==
  ASSUME Types, Orderly, LogKnown, [Next]_vars
  PROVE  KnownAfter
  <1>1. ASSUME NEW p \in Procs, Step(p) PROVE KnownAfter
    BY <1>1, GitCommitKnown, CreateChangeKnown, RecordCommitKnown, RecordByHandKnown, ResetHardKnown,
       RecordRollbackKnown, ReadHeadsKnown, RecordReconcileKnown, CreateStreamBranchKnown DEF Step
  <1>2. ASSUME NEW p \in Procs, NEW s \in Streams, CommitChanges(p, s) \/ CommitByHand(p, s) PROVE KnownAfter
    BY <1>2, CommitsBeginKnown
  <1>3. ASSUME NEW p \in Procs, NEW s \in Streams,
               \/ RollbackToForkPoint(p, s)
               \/ \E o \in DOMAIN ops : RollbackToOperation(p, s, o)
               \/ \E n \in 1 .. Len(ops) : RollbackN(p, s, n)
        PROVE  KnownAfter
    BY <1>3, RollbacksKnown
  <1>4. ASSUME NEW s \in Streams, OutsideCommit(s) \/ Rebase(s) \/ DeleteBranch(s) \/ SetStatus(s) PROVE KnownAfter
    BY <1>4, OutsideKnown
  <1>5. CASE UNCHANGED vars
    <2>1. UNCHANGED <<setting, up, head, base, status, changes, ops, clock, call, crashes>>
      BY <1>5 DEF vars
    <2>2. \A t : ExpectedHeads(t)' = ExpectedHeads(t)
      BY <2>1, ExpectedStays
    <2>3. Ancestor' = Ancestor
      BY <2>1 DEF Ancestor, Commits
    <2>4. Increasing' /\ Parents' /\ NoGap'
      BY <2>1, LogIsSame DEF LogKnown, Types
    <2>5. \A p \in Procs : KnownCall(call[p])'
      <3> TAKE p \in Procs
      <3>1. PICK r : r = call[p]
        OBVIOUS
      <3>2. KnownCall(r)
        BY <3>1 DEF LogKnown
      <3>3. KnownCall(r)'
        BY <2>1, <2>2, <2>3, <3>2 DEF KnownCall, InSync, Fresh, Committed, AtCommit, AtChange, AtRecord, AtLog, AtReset,
                                     AtLogRollback, AtInsert
      <3> QED BY <2>1, <3>1, <3>3
    <2>6. LogKnown'
      BY <2>1, <2>4, <2>5 DEF LogKnown, Idle
    <2>7. Alone' /\ LoggedHeads => LoggedHeads'
      BY <2>1, <2>2 DEF LoggedHeads, Repairing, LogGivesHead, Working, Orderly
    <2> QED BY <2>6, <2>7 DEF KnownAfter
  <1> QED BY <1>1, <1>2, <1>3, <1>4, <1>5, CrashKnown, ReconcileKnown DEF Next

LEMMA SettingStays ==
  ASSUME [Next]_vars
  PROVE  setting' = setting
  <1>1. ASSUME NEW p \in Procs, Step(p) PROVE setting' = setting
    BY <1>1 DEF Step, GitCommit, CreateChange, RecordCommit, RecordByHand, ResetHard, RecordRollback, ReadHeads,
                RecordReconcile, CreateStreamBranch
  <1>2. ASSUME NEW p \in Procs, Crash(p) PROVE setting' = setting
    BY <1>2 DEF Crash
  <1>3. ASSUME NEW p \in Procs, NEW s \in Streams,
               \/ CommitChanges(p, s) \/ CommitByHand(p, s) \/ RollbackToForkPoint(p, s)
               \/ \E o \in DOMAIN ops : RollbackToOperation(p, s, o)
               \/ \E n \in 1 .. Len(ops) : RollbackN(p, s, n)
        PROVE  setting' = setting
    BY <1>3 DEF CommitChanges, CommitByHand, RollbackToForkPoint, RollbackToOperation, RollbackN, BeginRollback, Begin
  <1>4. ASSUME NEW p \in Procs, NEW S, NEW u, NEW v, Reconcile(p, S, u, v) PROVE setting' = setting
    BY <1>4 DEF Reconcile, Begin
  <1>5. ASSUME NEW s \in Streams, OutsideCommit(s) \/ Rebase(s) \/ DeleteBranch(s) \/ SetStatus(s) PROVE setting' = setting
    BY <1>5 DEF OutsideCommit, Rebase, DeleteBranch, SetStatus
  <1>6. UNCHANGED vars => setting' = setting
    BY DEF vars
  <1> QED BY <1>1, <1>2, <1>3, <1>4, <1>5, <1>6 DEF Next

LEMMA CrashesStay ==
  ASSUME Types, Types', [Next]_vars, Alone'
  PROVE  Alone
  <1>1. setting' = setting /\ setting.crashes \in Nat /\ crashes \in Nat
    BY SettingStays DEF Types, GitTypes, LogTypes, Setting
  <1>2. crashes' = crashes \/ crashes' = crashes + 1
    <2>1. ASSUME NEW p \in Procs, Step(p) PROVE crashes' = crashes
      BY <2>1 DEF Step, GitCommit, CreateChange, RecordCommit, RecordByHand, ResetHard, RecordRollback, ReadHeads,
                  RecordReconcile, CreateStreamBranch
    <2>2. ASSUME NEW p \in Procs, Crash(p) PROVE crashes' = crashes + 1
      BY <2>2 DEF Crash
    <2>3. ASSUME NEW p \in Procs, NEW s \in Streams,
                 \/ CommitChanges(p, s) \/ CommitByHand(p, s) \/ RollbackToForkPoint(p, s)
                 \/ \E o \in DOMAIN ops : RollbackToOperation(p, s, o)
                 \/ \E n \in 1 .. Len(ops) : RollbackN(p, s, n)
          PROVE  crashes' = crashes
      BY <2>3 DEF CommitChanges, CommitByHand, RollbackToForkPoint, RollbackToOperation, RollbackN, BeginRollback, Begin
    <2>4. ASSUME NEW p \in Procs, NEW S, NEW u, NEW v, Reconcile(p, S, u, v) PROVE crashes' = crashes
      BY <2>4 DEF Reconcile, Begin
    <2>5. ASSUME NEW s \in Streams, OutsideCommit(s) \/ Rebase(s) \/ DeleteBranch(s) \/ SetStatus(s) PROVE crashes' = crashes
      BY <2>5 DEF OutsideCommit, Rebase, DeleteBranch, SetStatus
    <2>6. UNCHANGED vars => crashes' = crashes
      BY DEF vars
    <2> QED BY <2>1, <2>2, <2>3, <2>4, <2>5, <2>6 DEF Next
  <1> QED BY <1>1, <1>2 DEF Alone

LEMMA LogStep ==
  ASSUME LogIndInv, [Next]_vars
  PROVE  LogIndInv'
  <1>1. Types /\ Types'
    BY StepTypes DEF LogIndInv
  <1>2. setting' = setting
    BY SettingStays
  <1>3. ASSUME Orderly' PROVE LogKnown' /\ (Alone' => LoggedHeads')
    <2>1. Orderly /\ LogKnown
      BY <1>2, <1>3 DEF Orderly, LogIndInv
    <2>2. KnownAfter
      BY <1>1, <2>1, StepKnown
    <2>3. Alone' => LoggedHeads
      BY <1>1, <2>1, CrashesStay DEF LogIndInv
    <2> QED BY <2>2, <2>3 DEF KnownAfter
  <1> QED BY <1>1, <1>3 DEF LogIndInv

LEMMA LogInit ==
  ASSUME Init
  PROVE  LogIndInv
  <1>1. Types
    BY InitTypes
  <1>2. call = [p \in Procs |-> NoCall] /\ ops = <<>>
    BY DEF Init
  <1>3. \A s \in Streams : head[s] = 1 /\ base[s] = 1
    BY DEF Init
  <1>4. Increasing /\ Parents /\ NoGap
    BY <1>2 DEF Increasing, Parents, NoGap
  <1>5. (\A s : ~ Writing(NoCall, s) /\ ~ AtInsert(NoCall, s)) /\ NoCall.todo = <<>> /\ ~ Repairing(NoCall)
    BY <1>1, NoCallIs DEF Types
  <1>6. LogKnown
    <2>1. KnownCall(NoCall)
      BY <1>5, QuietCall
    <2> QED BY <1>2, <1>4, <1>5, <2>1 DEF LogKnown, Idle
  <1>7. LoggedHeads
    <2>1. setting.streams \subseteq Streams
      BY <1>1 DEF Types, GitTypes, Setting
    <2>2. \A s \in Streams : ExpectedHeads(s) = {1}
      BY <1>2, <1>3 DEF ExpectedHeads, OpsOf
    <2> QED BY <1>2, <1>3, <1>5, <2>1, <2>2 DEF LoggedHeads, LogGivesHead, Missing
  <1> QED BY <1>1, <1>6, <1>7 DEF LogIndInv

\* Every commit, rollback and reconciliation that is in the log is in git, and the change
\* that a commit names is there; between calls that do not overlap the log of a stream has
\* no gap, and gives the head of its branch as long as nothing else moved it and no call
\* was cut short: operations.ts, rollback.ts and reconcile.ts, with tracker.commitChanges.
THEOREM LogIsTrue == Spec => []LogInv
  <1>1. Init => LogIndInv
    BY LogInit
  <1>2. LogIndInv /\ [Next]_vars => LogIndInv'
    BY LogStep
  <1>3. LogIndInv => LogInv
    <2> SUFFICES ASSUME LogIndInv PROVE LogInv
      OBVIOUS
    <2>1. TypeOK /\ LoggedChangeExists
      BY TypesAreRight DEF LogIndInv
    <2>2. NoGap
      BY DEF LogIndInv, LogKnown, NoGap
    <2>3. LogGivesHead
      BY DEF LogIndInv, LoggedHeads, LogGivesHead, Alone
    <2> QED BY <2>1, <2>2, <2>3 DEF LogInv
  <1> QED BY <1>1, <1>2, <1>3, PTL DEF Spec

\* rollbackN (rollback.ts) takes exactly the last n commits off the branch, when calls do not
\* overlap: the operation it finds by following parent_id n times is the one that made the
\* commit n steps up the branch.
THEOREM RollbackIsExact == Spec => RollbackCounts
  <1>1. Init => LogIndInv
    BY LogInit
  <1>2. LogIndInv /\ [Next]_vars => LogIndInv'
    BY LogStep
  <1>3. LogIndInv /\ [Next]_vars =>
          [\A p \in Procs, s \in Streams :
             (Orderly /\ ResetHard(p, s) /\ call[p].back > 0)
               => head'[s] = Ancestor[call[p].back][head[s]]]_vars
    <2> SUFFICES ASSUME LogIndInv, NEW p \in Procs, NEW s \in Streams, Orderly, ResetHard(p, s), call[p].back > 0
                 PROVE  head'[s] = Ancestor[call[p].back][head[s]]
      OBVIOUS
    <2>1. Types /\ LogKnown
      BY DEF LogIndInv
    <2>2. AtReset(call[p], s)
      BY <2>1, AtIs, StatementIs DEF ResetHard, At
    <2>3. call[p].commit = Ancestor[call[p].back][head[s]]
      BY <2>1, <2>2 DEF LogKnown, KnownCall
    <2>4. head'[s] = call[p].commit
      BY <2>1 DEF ResetHard, Types, GitTypes
    <2> QED BY <2>3, <2>4
  <1> QED BY <1>1, <1>2, <1>3, PTL DEF Spec, RollbackCounts
=============================================================================
