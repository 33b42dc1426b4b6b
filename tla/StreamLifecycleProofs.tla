----------------------- MODULE StreamLifecycleProofs -----------------------
(***************************************************************************)
(* Proofs about StreamLifecycle, for any number of streams and processes,  *)
(* whose calls overlap and are cut short anywhere: rows and branches       *)
(* correspond, what is archived had ended, and cascades are complete.      *)
(***************************************************************************)
EXTENDS StreamLifecycle, FiniteSetTheorems, TLAPS

-----------------------------------------------------------------------------
(* Statements, and lists of them *)

Creating == {"branch", "insert", "track"}
OfRows == {"set", "read", "archive", "abandon", "children"}
Pruning == {"unbranch", "drop"}
Ops == Creating \cup OfRows \cup Pruning \cup {"depend", "prune", "clean"}

Args == Streams \cup {None, Outside} \cup Statuses
Stmt == [op : Ops, stream : Streams \cup {None}, arg : Args]

-----------------------------------------------------------------------------
(* Induction.  The theorems of the library that take an operator cannot be *)
(* used, so an induction over n looks at the least n for which the claim    *)
(* fails: sets of naturals have a least element, because finite sets are    *)
(* well-founded under inclusion.                                            *)

LEMMA LeastOf ==
  ASSUME NEW T \in SUBSET Nat, T # {}
  PROVE  \E x \in T : \A y \in T : x <= y
  <1> DEFINE I == {1 .. n : n \in T}
  <1>1. I \subseteq FiniteSubsetsOf(Nat) /\ I # {}
    <2>1. \A n \in T : 1 .. n \in SUBSET Nat /\ IsFiniteSet(1 .. n)
      BY FS_Interval
    <2>2. \A n \in T : 1 .. n \in FiniteSubsetsOf(Nat)
      BY <2>1 DEF FiniteSubsetsOf
    <2> QED BY <2>2
  <1>2. PICK C \in I : \A D \in I : ~ (<<D, C>> \in StrictSubsetOrdering(Nat))
    <2> HIDE DEF I
    <2> QED BY <1>1, FS_StrictSubsetOrderingWellFounded, WFMin
  <1>3. PICK x \in T : C = 1 .. x
    OBVIOUS
  <1>4. ASSUME NEW y \in T, y < x PROVE FALSE
    <2> DEFINE D == 1 .. y  E == 1 .. x
    <2>1. D \in I /\ C = E
      BY <1>3
    <2>2. D \subseteq E /\ x \in E /\ x \notin D
      BY <1>4
    <2>3. D \in SUBSET Nat /\ E \in SUBSET Nat
      OBVIOUS
    <2> HIDE DEF D, E, I
    <2>4. <<D, E>> \in StrictSubsetOrdering(Nat)
      BY <2>2, <2>3 DEF StrictSubsetOrdering
    <2> QED BY <2>1, <2>4, <1>2
  <1> QED BY <1>4

\* What is false of some natural number and true of 0 becomes false in one step.
LEMMA LeastFailure ==
  ASSUME NEW G \in SUBSET Nat, 0 \in G, G # Nat
  PROVE  \E n \in Nat : n \in G /\ n + 1 \notin G
  <1> DEFINE T == Nat \ G
  <1>1. T \in SUBSET Nat /\ T # {}
    OBVIOUS
  <1> HIDE DEF T
  <1>2. PICK x \in T : \A y \in T : x <= y
    BY <1>1, LeastOf
  <1>3. x \in Nat /\ x \notin G /\ x # 0
    BY <1>2 DEF T
  <1>4. x - 1 \in Nat /\ x - 1 \notin T
    BY <1>2, <1>3
  <1>5. (x - 1) + 1 = x
    BY <1>3
  <1> QED BY <1>3, <1>4, <1>5 DEF T

-----------------------------------------------------------------------------
(* The loop over the rows of a SELECT *)

Item(S, todo, n) == IF n \in S THEN todo[n] ELSE <<>>
Listed(f, S, todo, n) == f = [m \in 0 .. n |-> IF m = 0 THEN <<>> ELSE f[m - 1] \o Item(S, todo, m)]

LEMMA ListExists ==
  ASSUME NEW S, NEW todo, NEW n \in Nat
  PROVE  \E f : Listed(f, S, todo, n)
  <1> DEFINE G == {m \in Nat : \E f : Listed(f, S, todo, m)}
  <1>1. 0 \in G
    <2> DEFINE f == [m \in 0 .. 0 |-> <<>>]
    <2>1. f = [m \in 0 .. 0 |-> IF m = 0 THEN <<>> ELSE f[m - 1] \o Item(S, todo, m)]
      OBVIOUS
    <2> HIDE DEF f
    <2> QED BY <2>1 DEF Listed
  <1>2. ASSUME NEW l \in Nat, l \in G PROVE l + 1 \in G
    <2>1. PICK f : Listed(f, S, todo, l)
      BY <1>2
    <2> DEFINE g == [m \in 0 .. l + 1 |-> IF m = l + 1 THEN f[l] \o Item(S, todo, l + 1) ELSE f[m]]
    <2>2. \A m \in 0 .. l : f[m] = IF m = 0 THEN <<>> ELSE f[m - 1] \o Item(S, todo, m)
      BY <2>1 DEF Listed
    <2>3. \A m \in 0 .. l : g[m] = f[m]
      OBVIOUS
    <2>4. g[l + 1] = f[l] \o Item(S, todo, l + 1)
      <3>1. l + 1 \in 0 .. l + 1
        OBVIOUS
      <3> QED BY <3>1, Zenon
    <2>5. g = [m \in 0 .. l + 1 |-> g[m]]
      OBVIOUS
    <2> HIDE DEF g
    <2>6. \A m \in 0 .. l + 1 : g[m] = IF m = 0 THEN <<>> ELSE g[m - 1] \o Item(S, todo, m)
      <3> TAKE m \in 0 .. l + 1
      <3>1. CASE m = l + 1
        <4>1. m # 0 /\ m - 1 = l /\ g[m - 1] = f[l]
          BY <3>1, <2>3
        <4> QED BY <4>1, <3>1, <2>4
      <3>2. CASE m # l + 1 /\ m # 0
        <4>1. m \in 0 .. l /\ m - 1 \in 0 .. l
          BY <3>2
        <4> QED BY <4>1, <3>2, <2>2, <2>3
      <3>3. CASE m = 0
        BY <3>3, <2>2, <2>3
      <3> QED BY <3>1, <3>2, <3>3
    <2>7. g = [m \in 0 .. l + 1 |-> IF m = 0 THEN <<>> ELSE g[m - 1] \o Item(S, todo, m)]
      BY <2>5, <2>6
    <2>8. Listed(g, S, todo, l + 1)
      BY <2>7 DEF Listed
    <2> QED BY <2>8
  <1> HIDE DEF G
  <1>3. G = Nat
    BY <1>1, <1>2, LeastFailure DEF G
  <1> QED BY <1>3 DEF G

LEMMA EachIs ==
  ASSUME NEW S, NEW todo
  PROVE  \E f : Listed(f, S, todo, MaxStreams) /\ Each(S, todo) = f[MaxStreams]
  <1>1. MaxStreams \in Nat
    BY StreamLifecycleAssumption
  <1>2. PICK f : Listed(f, S, todo, MaxStreams)
    BY <1>1, ListExists
  <1> DEFINE list == CHOOSE list : list = [n \in 0 .. MaxStreams |->
                       IF n = 0 THEN <<>> ELSE list[n - 1] \o (IF n \in S THEN todo[n] ELSE <<>>)]
  <1>3. list = [n \in 0 .. MaxStreams |->
                  IF n = 0 THEN <<>> ELSE list[n - 1] \o (IF n \in S THEN todo[n] ELSE <<>>)]
    BY <1>2 DEF Listed, Item
  <1>4. Each(S, todo) = list[MaxStreams]
    BY DEF Each
  <1>5. Listed(list, S, todo, MaxStreams)
    BY <1>3 DEF Listed, Item
  <1> QED BY <1>4, <1>5

\* The statement i of L is the statement k of w, between the same statements.
Same(L, i, w, k) ==
  /\ L[i] = w[k]
  /\ k > 1 => i > 1 /\ L[i - 1] = w[k - 1]
  /\ k < Len(w) => i + 1 \in DOMAIN L /\ L[i + 1] = w[k + 1]

From(L, S, todo) ==
  /\ L \in Seq(Stmt)
  /\ \A i \in DOMAIN L : \E s \in S : \E k \in DOMAIN todo[s] : Same(L, i, todo[s], k)

LEMMA Concatenation ==
  ASSUME NEW L \in Seq(Stmt), NEW M \in Seq(Stmt)
  PROVE  /\ L \o M \in Seq(Stmt) /\ DOMAIN L = 1 .. Len(L) /\ DOMAIN M = 1 .. Len(M)
         /\ DOMAIN (L \o M) = 1 .. Len(L) + Len(M)
         /\ \A i \in 1 .. Len(L) : (L \o M)[i] = L[i]
         /\ \A i \in Len(L) + 1 .. Len(L) + Len(M) : (L \o M)[i] = M[i - Len(L)]
  <1>1. L \o M \in Seq(Stmt) /\ Len(L \o M) = Len(L) + Len(M)
    OBVIOUS
  <1>2. DOMAIN (L \o M) = 1 .. Len(L) + Len(M)
    BY <1>1
  <1> QED BY <1>1, <1>2

LEMMA FromMore ==
  ASSUME NEW S, NEW todo, NEW L, NEW s \in S, From(L, S, todo), todo[s] \in Seq(Stmt)
  PROVE  From(L \o todo[s], S, todo)
  <1>1. PICK w : w = todo[s]
    OBVIOUS
  <1>2. L \in Seq(Stmt) /\ w \in Seq(Stmt)
    BY <1>1 DEF From
  <1>3. PICK M : M = L \o w
    OBVIOUS
  <1>4. /\ M \in Seq(Stmt) /\ DOMAIN L = 1 .. Len(L) /\ DOMAIN w = 1 .. Len(w)
        /\ DOMAIN M = 1 .. Len(L) + Len(w)
        /\ \A i \in 1 .. Len(L) : M[i] = L[i]
        /\ \A i \in Len(L) + 1 .. Len(L) + Len(w) : M[i] = w[i - Len(L)]
    BY <1>2, <1>3, Concatenation
  <1>5. Len(L) \in Nat /\ Len(w) \in Nat
    BY <1>2
  <1>6. ASSUME NEW i \in DOMAIN M
        PROVE  \E t \in S : \E k \in DOMAIN todo[t] : Same(M, i, todo[t], k)
    <2>1. CASE i \in DOMAIN L
      <3>0. PICK t \in S : \E k \in DOMAIN todo[t] : Same(L, i, todo[t], k)
        BY <2>1 DEF From
      <3>1. PICK k \in DOMAIN todo[t] : Same(L, i, todo[t], k)
        BY <3>0
      <3>2. PICK v : v = todo[t]
        OBVIOUS
      <3>3. /\ L[i] = v[k]
            /\ k > 1 => i > 1 /\ L[i - 1] = v[k - 1]
            /\ k < Len(v) => i + 1 \in DOMAIN L /\ L[i + 1] = v[k + 1]
        BY <3>1, <3>2 DEF Same
      <3>4. i \in 1 .. Len(L) /\ (i > 1 => i - 1 \in 1 .. Len(L))
        BY <2>1, <1>4, <1>5
      <3>5. M[i] = v[k] /\ (k > 1 => i > 1 /\ M[i - 1] = v[k - 1])
        BY <3>3, <3>4, <1>4
      <3>6. k < Len(v) => i + 1 \in DOMAIN M /\ M[i + 1] = v[k + 1]
        BY <3>3, <1>4, <1>5
      <3> QED BY <3>2, <3>5, <3>6 DEF Same
    <2>2. CASE i \notin DOMAIN L
      <3>1. PICK k : k = i - Len(L)
        OBVIOUS
      <3>0. i \in 1 .. Len(L) + Len(w) /\ i \notin 1 .. Len(L)
        BY <2>2, <1>4
      <3>2. i \in Len(L) + 1 .. Len(L) + Len(w) /\ k \in 1 .. Len(w) /\ i = Len(L) + k
        BY <3>0, <3>1, <1>5
      <3>7. M[i] = w[k]
        BY <3>1, <3>2, <1>4
      <3>3. k > 1 => i > 1 /\ M[i - 1] = w[k - 1]
        <4> HAVE k > 1
        <4>1. i - 1 \in Len(L) + 1 .. Len(L) + Len(w) /\ (i - 1) - Len(L) = k - 1 /\ i > 1
          BY <3>2, <1>5
        <4> QED BY <4>1, <1>4
      <3>4. k < Len(w) => i + 1 \in DOMAIN M /\ M[i + 1] = w[k + 1]
        <4> HAVE k < Len(w)
        <4>1. i + 1 \in Len(L) + 1 .. Len(L) + Len(w) /\ (i + 1) - Len(L) = k + 1 /\ i + 1 \in 1 .. Len(L) + Len(w)
          BY <3>2, <1>5
        <4> QED BY <4>1, <1>4
      <3>5. Same(M, i, w, k)
        BY <3>7, <3>3, <3>4 DEF Same
      <3>6. k \in DOMAIN w
        BY <3>2, <1>4
      <3> QED BY <3>5, <3>6, <1>1
    <2> QED BY <2>1, <2>2
  <1>7. From(M, S, todo)
    BY <1>4, <1>6 DEF From
  <1> QED BY <1>1, <1>3, <1>7

\* What is done for each row of S is what todo says, in the same order.
LEMMA EachFrom ==
  ASSUME NEW S \in SUBSET Streams, NEW todo \in [Streams -> Seq(Stmt)]
  PROVE  From(Each(S, todo), S, todo)
  <1>1. PICK f : Listed(f, S, todo, MaxStreams) /\ Each(S, todo) = f[MaxStreams]
    BY EachIs
  <1>2. MaxStreams \in Nat
    BY StreamLifecycleAssumption
  <1>3. \A m \in 0 .. MaxStreams : f[m] = IF m = 0 THEN <<>> ELSE f[m - 1] \o Item(S, todo, m)
    BY <1>1 DEF Listed
  <1> DEFINE G == {m \in Nat : m <= MaxStreams => From(f[m], S, todo)}
  <1>4. 0 \in G
    <2>1. f[0] = <<>>
      BY <1>2, <1>3
    <2>2. DOMAIN <<>> = {} /\ <<>> \in Seq(Stmt)
      OBVIOUS
    <2>3. From(f[0], S, todo)
      BY <2>1, <2>2 DEF From
    <2> QED BY <2>3
  <1>5. ASSUME NEW l \in Nat, l \in G PROVE l + 1 \in G
    <2> SUFFICES ASSUME l + 1 <= MaxStreams PROVE From(f[l + 1], S, todo)
      OBVIOUS
    <2>1. l + 1 \in 0 .. MaxStreams /\ l + 1 # 0 /\ (l + 1) - 1 = l
      BY <1>2
    <2>5. From(f[l], S, todo)
      BY <1>2, <1>5
    <2>6. f[l + 1] = f[l] \o Item(S, todo, l + 1)
      BY <1>3, <2>1
    <2>2. From(f[l], S, todo) /\ f[l + 1] = f[l] \o Item(S, todo, l + 1)
      BY <2>5, <2>6
    <2>3. CASE l + 1 \in S
      <3>1. Item(S, todo, l + 1) = todo[l + 1] /\ todo[l + 1] \in Seq(Stmt)
        BY <2>3 DEF Item
      <3> QED BY <2>2, <2>3, <3>1, FromMore
    <2>4. CASE l + 1 \notin S
      <3>1. Item(S, todo, l + 1) = <<>>
        BY <2>4 DEF Item
      <3>2. f[l] \in Seq(Stmt)
        BY <2>2 DEF From
      <3>3. f[l] \o <<>> = f[l]
        BY <3>2
      <3> QED BY <2>2, <3>1, <3>3
    <2> QED BY <2>3, <2>4
  <1> HIDE DEF G
  <1>6. G = Nat
    BY <1>4, <1>5, LeastFailure DEF G
  <1>7. MaxStreams \in G
    BY <1>2, <1>6
  <1> QED BY <1>1, <1>7, <1>2 DEF G

-----------------------------------------------------------------------------
(* The inductive invariant *)

Gone == {"archived", "expired", "pruned"}
Record == [place : {"none", "streams"} \cup Gone, status : Statuses,
           parent : Streams \cup {None}, tracks : Streams \cup {None, Outside}]

\* The statement i of the call c, where the streams are st and the branches br, and branches
\* are deleted as kp says: a stream being created is not there yet, one whose row is read has been, one that is pruned is
\* not a row; the branch comes before the row, and goes before it.
Fits(c, i, st, br, kp) ==
  LET e == c[i]  s == e.stream IN
  /\ e.op \notin {"prune", "clean"} => s \in Streams
  /\ e.op = "insert" => e.arg \in Streams \cup {None}
  /\ e.op = "track" => e.arg \in Streams \cup {Outside}
  /\ e.op = "set" => i = 1 /\ e.arg \in Statuses
  /\ e.op \in Creating => st[s] = Unused
  /\ e.op \in OfRows => st[s].place # "none"
  /\ e.op \in Pruning => st[s].place \in Gone
  /\ e.op = "branch" => i = 1 /\ 2 \in DOMAIN c /\ c[2].op = "insert" /\ c[2].stream = s
  /\ e.op = "insert" => \/ i = 1 /\ s \in br
                        \/ i = 2 /\ c[1].op = "branch" /\ c[1].stream = s
  /\ e.op = "track" => i = 1 /\ s \notin br
  /\ e.op = "drop" => \/ kp # "done" \/ s \notin br
                      \/ i > 1 /\ c[i - 1].op = "unbranch" /\ c[i - 1].stream = s
  /\ e.op = "read" => i + 1 \in DOMAIN c /\ c[i + 1].op = "archive"

CallOK(c, st, br, kp) == \A i \in DOMAIN c : Fits(c, i, st, br, kp)

StoreTypes ==
  /\ setting \in Settings
  /\ stream \in [Streams -> Record]
  /\ branch \subseteq Streams
  /\ history \cup held \subseteq Rows
  /\ \A s \in Rows : stream[s].parent \in Rows \cup {None}

Types == StoreTypes /\ call \in [Procs -> Seq(Stmt)]

\* No two calls create the same stream.
Creates(c, s) == \E i \in DOMAIN c : c[i].op \in Creating /\ c[i].stream = s
OneCreator == \A p, q \in Procs, s \in Streams : Creates(call[p], s) /\ Creates(call[q], s) => p = q

\* A stream in local mode has no branch of its own.
LocalHasNone == \A s \in Streams : stream[s].tracks # None => s \notin branch

\* Calls that do not overlap: a new row finds its parent, ...
OneCall == ~ setting.interleaved => \A p, q \in Procs : p = q \/ call[p] = <<>> \/ call[q] = <<>>
ParentThere ==
  ~ setting.interleaved => \A p \in Procs : \A i \in DOMAIN call[p] :
    call[p][i].op = "insert" => call[p][i].arg \in Rows \cup {None}

\* ... and a branch its row, where none is cut short.
Inserting(c, s) == c # <<>> /\ Head(c).op = "insert" /\ Head(c).stream = s
Recorded ==
  ~ setting.interleaved /\ ~ setting.crashes /\ setting.deletion = "done" => \A s \in branch :
    s \in Rows \cup Archived \/ \E p \in Procs : Inserting(call[p], s)

LifeInv ==
  /\ Types
  /\ \A p \in Procs : CallOK(call[p], stream, branch, setting.deletion)
  /\ OneCreator /\ RowHasBranch /\ LocalHasNone
  /\ OneCall /\ ParentThere /\ Recorded

\* Calls that do not overlap: what gc or updateStreamStatus archives has ended, or does with
\* the first statement of the call.
Archiving == {"read", "archive"}
ArchivesEnded(e) == e.op = "archive" /\ e.arg = None
HasEnded(s, st) == st[s].place = "streams" => st[s].status \in Ended
EndsFit(c, st) ==
  \A i \in DOMAIN c : ArchivesEnded(c[i]) =>
    IF c[1].op = "set" THEN c[i].stream = c[1].stream /\ c[1].arg \in Ended
    ELSE HasEnded(c[i].stream, st)
EndedInv == ~ setting.interleaved => \A p \in Procs : EndsFit(call[p], stream)

-----------------------------------------------------------------------------
(* Calls, as their statements are executed *)

LEMMA Parts ==
  ASSUME NEW c \in Seq(Stmt), c # <<>>
  PROVE  /\ Len(c) \in Nat /\ Len(c) >= 1 /\ DOMAIN c = 1 .. Len(c)
         /\ Head(c) = c[1] /\ c[1] \in Stmt
         /\ Tail(c) \in Seq(Stmt) /\ DOMAIN Tail(c) = 1 .. Len(c) - 1
         /\ \A i \in 1 .. Len(c) - 1 : Tail(c)[i] = c[i + 1]
  <1>1. Len(c) \in Nat /\ Len(c) >= 1 /\ DOMAIN c = 1 .. Len(c)
    OBVIOUS
  <1>2. Head(c) = c[1] /\ c[1] \in Stmt
    BY <1>1
  <1>3. Tail(c) \in Seq(Stmt) /\ Len(Tail(c)) = Len(c) - 1
    OBVIOUS
  <1>4. DOMAIN Tail(c) = 1 .. Len(c) - 1
    BY <1>3
  <1>5. \A i \in 1 .. Len(c) - 1 : Tail(c)[i] = c[i + 1]
    BY <1>1
  <1> QED BY <1>1, <1>2, <1>3, <1>4, <1>5

\* A statement still fits when its stream is as it was, as far as it matters.
LEMMA FitsKept ==
  ASSUME NEW c, NEW i, NEW st, NEW br, NEW kp, NEW st2, NEW br2, Fits(c, i, st, br, kp),
         NEW s, s = c[i].stream,
         c[i].op \in Creating => st2[s] = st[s] /\ (s \in br2 <=> s \in br),
         c[i].op \in OfRows => st2[s].place # "none",
         c[i].op \in Pruning => st2[s].place \in Gone /\ (s \in br2 => s \in br)
  PROVE  Fits(c, i, st2, br2, kp)
  BY DEF Fits, Creating, OfRows, Pruning

\* Behind the first statement nothing is created but the row of the branch that it makes.
Follows(t, first) ==
  \A i \in DOMAIN t : /\ t[i].op \notin {"branch", "track", "set"}
                      /\ t[i].op = "insert" => i = 1 /\ first.op = "branch" /\ t[i].stream = first.stream

LEMMA TailOK ==
  ASSUME NEW c \in Seq(Stmt), c # <<>>, NEW st, NEW br, NEW kp,
         \A i \in 2 .. Len(c) : Fits(c, i, st, br, kp),
         c[1].op = "branch" => c[1].stream \in br,
         c[1].op = "unbranch" => kp # "done" \/ c[1].stream \notin br
  PROVE  CallOK(Tail(c), st, br, kp) /\ Follows(Tail(c), c[1])
  <1> PICK t : t = Tail(c)
    OBVIOUS
  <1>1. /\ Len(c) \in Nat /\ Len(c) >= 1 /\ DOMAIN c = 1 .. Len(c)
        /\ DOMAIN t = 1 .. Len(c) - 1
        /\ \A i \in 1 .. Len(c) - 1 : t[i] = c[i + 1]
    BY Parts
  <1>2. ASSUME NEW i \in DOMAIN t
        PROVE  /\ Fits(t, i, st, br, kp)
               /\ t[i].op \notin {"branch", "track", "set"}
               /\ t[i].op = "insert" => i = 1 /\ c[1].op = "branch" /\ t[i].stream = c[1].stream
    <2>1. i \in Nat /\ i >= 1 /\ i + 1 \in 2 .. Len(c) /\ t[i] = c[i + 1] /\ (i + 1) - 1 = i
      BY <1>1
    <2>2. i > 1 => i - 1 \in 1 .. Len(c) - 1 /\ t[i - 1] = c[i]
      <3> HAVE i > 1
      <3>1. i - 1 \in 1 .. Len(c) - 1 /\ (i - 1) + 1 = i
        BY <2>1, <1>1
      <3> QED BY <3>1, <1>1
    <2>3. (i + 1) + 1 \in DOMAIN c => i + 1 \in DOMAIN t /\ t[i + 1] = c[(i + 1) + 1]
      BY <2>1, <1>1
    <2>4. i + 1 # 1 /\ (i + 1 = 2 => i = 1)
      BY <2>1
    <2>5. Fits(c, i + 1, st, br, kp)
      BY <2>1
    <2> PICK e : e = c[i + 1]
      OBVIOUS
    <2>6. /\ e.op \notin {"prune", "clean"} => e.stream \in Streams
          /\ e.op = "insert" => e.arg \in Streams \cup {None}
          /\ e.op = "track" => e.arg \in Streams \cup {Outside}
          /\ e.op # "set" /\ e.op # "branch" /\ e.op # "track"
          /\ e.op \in Creating => st[e.stream] = Unused
          /\ e.op \in OfRows => st[e.stream].place # "none"
          /\ e.op \in Pruning => st[e.stream].place \in Gone
      BY <2>5, <2>4 DEF Fits
    <2>7. e.op = "insert" => i = 1 /\ c[1].op = "branch" /\ c[1].stream = e.stream
      BY <2>5, <2>4 DEF Fits
    <2>8. e.op = "read" => i + 1 \in DOMAIN t /\ t[i + 1].op = "archive"
      BY <2>5, <2>3 DEF Fits
    <2>9. e.op = "drop" => kp # "done" \/ e.stream \notin br \/ (c[i].op = "unbranch" /\ c[i].stream = e.stream)
      BY <2>5, <2>1 DEF Fits
    <2>10. e.op = "drop" => \/ kp # "done" \/ e.stream \notin br
                            \/ i > 1 /\ t[i - 1].op = "unbranch" /\ t[i - 1].stream = e.stream
      <3>1. CASE i = 1
        BY <3>1, <2>9
      <3>2. CASE i > 1
        BY <3>2, <2>9, <2>2
      <3>3. i = 1 \/ i > 1
        BY <2>1
      <3> QED BY <3>1, <3>2, <3>3
    <2>11. Fits(t, i, st, br, kp)
      <3>1. t[i] = e
        BY <2>1
      <3>2. /\ e.op = "set" => i = 1 /\ e.arg \in Statuses
            /\ e.op = "track" => i = 1 /\ e.stream \notin br
            /\ e.op = "branch" => i = 1 /\ 2 \in DOMAIN t /\ t[2].op = "insert" /\ t[2].stream = e.stream
        BY <2>6
      <3>3. e.op = "insert" => (i = 1 /\ e.stream \in br) \/ (i = 2 /\ t[1].op = "branch" /\ t[1].stream = e.stream)
        BY <2>7
      <3> QED BY <2>6, <2>8, <2>10, <3>1, <3>2, <3>3 DEF Fits
    <2>12. t[i].op \notin {"branch", "track", "set"}
      BY <2>1, <2>6
    <2>13. t[i].op = "insert" => i = 1 /\ c[1].op = "branch" /\ t[i].stream = c[1].stream
      BY <2>1, <2>7
    <2> QED BY <2>11, <2>12, <2>13
  <1> QED BY <1>2 DEF CallOK, Follows

\* One list after the other.
LEMMA Joined ==
  ASSUME NEW L \in Seq(Stmt), NEW M \in Seq(Stmt), NEW st, NEW br, NEW kp,
         CallOK(L, st, br, kp), CallOK(M, st, br, kp),
         \A i \in DOMAIN M : M[i].op \notin Creating \cup {"set"}
  PROVE  L \o M \in Seq(Stmt) /\ CallOK(L \o M, st, br, kp)
  <1> PICK c : c = L \o M
    OBVIOUS
  <1>1. /\ c \in Seq(Stmt) /\ DOMAIN L = 1 .. Len(L) /\ DOMAIN M = 1 .. Len(M)
        /\ DOMAIN c = 1 .. Len(L) + Len(M)
        /\ \A i \in 1 .. Len(L) : c[i] = L[i]
        /\ \A i \in Len(L) + 1 .. Len(L) + Len(M) : c[i] = M[i - Len(L)]
        /\ Len(L) \in Nat /\ Len(M) \in Nat
    BY Concatenation
  <1>2. ASSUME NEW i \in 1 .. Len(L) PROVE Fits(c, i, st, br, kp)
    <2>1. Fits(L, i, st, br, kp) /\ c[i] = L[i] /\ i \in Nat /\ i >= 1
      BY <1>1 DEF CallOK
    <2>2. i > 1 => c[i - 1] = L[i - 1]
      <3> HAVE i > 1
      <3>1. i - 1 \in 1 .. Len(L)
        BY <1>1
      <3> QED BY <3>1, <1>1
    <2>3. \A j \in DOMAIN L : j \in DOMAIN c /\ c[j] = L[j]
      BY <1>1
    <2>4. i = 2 => c[1] = L[1]
      BY <2>2
    <2> PICK e : e = L[i]
      OBVIOUS
    <2>5. /\ e.op = "branch" => i = 1 /\ 2 \in DOMAIN c /\ c[2].op = "insert" /\ c[2].stream = e.stream
          /\ e.op = "insert" => \/ i = 1 /\ e.stream \in br
                                \/ i = 2 /\ c[1].op = "branch" /\ c[1].stream = e.stream
      BY <2>1, <2>3, <2>4 DEF Fits
    <2>6. /\ e.op = "drop" => \/ kp # "done" \/ e.stream \notin br
                              \/ i > 1 /\ c[i - 1].op = "unbranch" /\ c[i - 1].stream = e.stream
          /\ e.op = "read" => i + 1 \in DOMAIN c /\ c[i + 1].op = "archive"
      BY <2>1, <2>2, <2>3 DEF Fits
    <2> QED BY <2>1, <2>5, <2>6 DEF Fits
  <1>3. ASSUME NEW i \in Len(L) + 1 .. Len(L) + Len(M) PROVE Fits(c, i, st, br, kp)
    <2> PICK k : k = i - Len(L)
      OBVIOUS
    <2>1. k \in 1 .. Len(M) /\ c[i] = M[k] /\ i = Len(L) + k /\ k \in Nat /\ i \in Nat
      BY <1>1
    <2>2. k > 1 => i > 1 /\ c[i - 1] = M[k - 1]
      <3> HAVE k > 1
      <3>1. i - 1 \in Len(L) + 1 .. Len(L) + Len(M) /\ (i - 1) - Len(L) = k - 1 /\ i > 1
        BY <2>1, <1>1
      <3> QED BY <3>1, <1>1
    <2>3. k + 1 \in DOMAIN M => i + 1 \in DOMAIN c /\ c[i + 1] = M[k + 1]
      <3> HAVE k + 1 \in DOMAIN M
      <3>1. /\ i + 1 \in Len(L) + 1 .. Len(L) + Len(M) /\ (i + 1) - Len(L) = k + 1
            /\ i + 1 \in 1 .. Len(L) + Len(M)
        BY <2>1, <1>1
      <3> QED BY <3>1, <1>1
    <2>4. Fits(M, k, st, br, kp) /\ M[k].op \notin Creating \cup {"set"}
      BY <2>1, <1>1 DEF CallOK
    <2>5. M[k].op = "drop" => \/ kp # "done" \/ M[k].stream \notin br
                              \/ i > 1 /\ c[i - 1].op = "unbranch" /\ c[i - 1].stream = M[k].stream
      BY <2>2, <2>4 DEF Fits
    <2>6. M[k].op = "read" => i + 1 \in DOMAIN c /\ c[i + 1].op = "archive"
      BY <2>3, <2>4 DEF Fits
    <2> QED BY <2>1, <2>4, <2>5, <2>6 DEF Fits, Creating
  <1>4. \A i \in DOMAIN c : i \in 1 .. Len(L) \/ i \in Len(L) + 1 .. Len(L) + Len(M)
    BY <1>1
  <1>5. CallOK(c, st, br, kp)
    BY <1>2, <1>3, <1>4 DEF CallOK
  <1> QED BY <1>1, <1>5

-----------------------------------------------------------------------------
(* What the statements do to the streams *)

\* A stream that is not there stays so, one that was there is never new again, and one
\* that is gone does not come back; a branch that goes is one of those.
KeepsStore ==
  \A s \in Streams :
    /\ stream[s] = Unused => stream'[s] = Unused
    /\ stream[s].place # "none" => stream'[s].place # "none"
    /\ stream[s].place \in Gone => stream'[s].place \in Gone
    /\ stream'[s].place = "streams" => stream[s].place = "streams"
    /\ stream'[s].tracks = stream[s].tracks
    /\ s \in branch' => s \in branch
    /\ s \in branch /\ s \notin branch' => stream[s].place \in Gone

\* The streams with a record keep one as long as they have a branch.
KeepsRecords ==
  setting.deletion = "done" => \A s \in Streams :
    s \in branch' /\ stream[s].place \in {"streams", "archived", "expired"} =>
      stream'[s].place \in {"streams", "archived", "expired"}

LEMMA UnusedIs == Unused.place = "none" /\ Unused.tracks = None
  BY DEF Unused

LEMMA Kept ==
  ASSUME LifeInv, KeepsStore, NEW p \in Procs, NEW i \in DOMAIN call[p]
  PROVE  Fits(call[p], i, stream', branch', setting.deletion)
  <1> PICK c : c = call[p]
    OBVIOUS
  <1> PICK s : s = c[i].stream
    OBVIOUS
  <1>1. Fits(c, i, stream, branch, setting.deletion)
    BY DEF LifeInv, CallOK
  <1>2. branch \subseteq Streams
    BY DEF LifeInv, Types, StoreTypes
  <1>3. c[i].op \in Creating \cup OfRows \cup Pruning => s \in Streams
    BY <1>1 DEF Fits, Creating, OfRows, Pruning
  <1>4. c[i].op \in Creating => stream'[s] = stream[s] /\ (s \in branch' <=> s \in branch)
    <2> HAVE c[i].op \in Creating
    <2>1. stream[s] = Unused /\ stream[s].place = "none"
      BY <1>1, UnusedIs DEF Fits
    <2> QED BY <2>1, <1>3 DEF KeepsStore, Gone
  <1>5. c[i].op \in OfRows => stream'[s].place # "none"
    BY <1>1, <1>3 DEF Fits, KeepsStore
  <1>6. c[i].op \in Pruning => stream'[s].place \in Gone /\ (s \in branch' => s \in branch)
    BY <1>1, <1>3 DEF Fits, KeepsStore
  <1> QED BY <1>1, <1>4, <1>5, <1>6, FitsKept

LEMMA CallsKept ==
  ASSUME LifeInv, KeepsStore, NEW p \in Procs
  PROVE  CallOK(call[p], stream', branch', setting.deletion)
  BY Kept DEF CallOK

\* The rest of a call whose first statement makes no branch.
LEMMA RestKept ==
  ASSUME LifeInv, KeepsStore, NEW p \in Procs, call[p] # <<>>,
         Head(call[p]).op # "branch",
         Head(call[p]).op = "unbranch" => setting.deletion # "done" \/ Head(call[p]).stream \notin branch'
  PROVE  /\ Tail(call[p]) \in Seq(Stmt) /\ CallOK(Tail(call[p]), stream', branch', setting.deletion)
         /\ \A i \in DOMAIN Tail(call[p]) : Tail(call[p])[i].op \notin Creating \cup {"set"}
  <1> PICK c : c = call[p]
    OBVIOUS
  <1> PICK st : st = stream'
    OBVIOUS
  <1> PICK br : br = branch'
    OBVIOUS
  <1>1. c \in Seq(Stmt) /\ c # <<>>
    BY DEF LifeInv, Types
  <1>2. DOMAIN c = 1 .. Len(c) /\ Head(c) = c[1] /\ Tail(c) \in Seq(Stmt) /\ Len(c) \in Nat
    BY <1>1, Parts
  <1>3. \A i \in 2 .. Len(c) : Fits(c, i, st, br, setting.deletion)
    <2> TAKE i \in 2 .. Len(c)
    <2>1. i \in DOMAIN call[p]
      BY <1>2
    <2> QED BY <2>1, Kept
  <1>4. c[1].op # "branch" /\ (c[1].op = "unbranch" => setting.deletion # "done" \/ c[1].stream \notin br)
    BY <1>2
  <1>5. CallOK(Tail(c), st, br, setting.deletion) /\ Follows(Tail(c), c[1])
    BY <1>1, <1>3, <1>4, TailOK
  <1> QED BY <1>2, <1>4, <1>5 DEF Creating, Follows

LEMMA StillOneCall ==
  ASSUME OneCall, NEW p \in Procs, NEW c, MayRun(p) \/ c = <<>>, call \in [Procs -> Seq(Stmt)],
         call' = [call EXCEPT ![p] = c], UNCHANGED setting
  PROVE  OneCall'
  BY DEF OneCall, MayRun

LEMMA StillOneCreator ==
  ASSUME OneCreator, NEW p \in Procs, NEW c, call \in [Procs -> Seq(Stmt)],
         call' = [call EXCEPT ![p] = c],
         \A s \in Streams : Creates(c, s) => Creates(call[p], s) \/ \A q \in Procs : ~ Creates(call[q], s)
  PROVE  OneCreator'
  <1> SUFFICES ASSUME NEW q \in Procs, NEW r \in Procs, NEW s \in Streams,
                      Creates(call'[q], s), Creates(call'[r], s), q # r
               PROVE  FALSE
    BY DEF OneCreator, Creates
  <1>1. \A x \in Procs : call'[x] = IF x = p THEN c ELSE call[x]
    OBVIOUS
  <1>2. CASE q = p
    BY <1>1, <1>2 DEF OneCreator
  <1>3. CASE r = p
    BY <1>1, <1>3 DEF OneCreator
  <1>4. CASE q # p /\ r # p
    BY <1>1, <1>4 DEF OneCreator
  <1> QED BY <1>2, <1>3, <1>4

\* A step of a call that creates no stream.
LEMMA StepKeeps ==
  ASSUME LifeInv, NEW p \in Procs, NEW c \in Seq(Stmt), MayRun(p),
         call' = [call EXCEPT ![p] = c], UNCHANGED setting, StoreTypes', KeepsStore, KeepsRecords,
         CallOK(c, stream', branch', setting.deletion),
         \A i \in DOMAIN c : c[i].op \notin Creating,
         call[p] = <<>> \/ Head(call[p]).op \notin Creating
  PROVE  LifeInv'
  <1>1. call \in [Procs -> Seq(Stmt)] /\ StoreTypes
    BY DEF LifeInv, Types
  <1>2. \A q \in Procs : call'[q] = IF q = p THEN c ELSE call[q]
    BY <1>1
  <1>3. Types'
    BY <1>1 DEF Types
  <1>4. \A q \in Procs : CallOK(call'[q], stream', branch', setting.deletion)
    BY <1>2, CallsKept
  <1>5. OneCreator'
    BY <1>1, StillOneCreator DEF Creates, LifeInv
  <1>6. RowHasBranch'
    <2>1. \A s \in Streams : stream'[s].place = "streams" /\ stream'[s].tracks = None => s \in branch'
      BY DEF LifeInv, RowHasBranch, Rows, KeepsStore, Gone
    <2> QED BY <2>1 DEF RowHasBranch, Rows
  <1>7. LocalHasNone'
    BY DEF LifeInv, LocalHasNone, KeepsStore
  <1>8. OneCall'
    BY <1>1, StillOneCall DEF LifeInv
  <1>9. ParentThere'
    <2> SUFFICES ASSUME ~ setting.interleaved, NEW q \in Procs, NEW i \in DOMAIN call'[q], call'[q][i].op = "insert"
                 PROVE  FALSE
      BY DEF ParentThere
    <2>1. CASE q = p
      BY <2>1, <1>2 DEF Creating
    <2>2. CASE q # p
      <3>1. call'[q] = <<>>
        BY <2>2, <1>2 DEF MayRun
      <3> QED BY <3>1
    <2> QED BY <2>1, <2>2
  <1>10. Recorded'
    <2> SUFFICES ASSUME ~ setting.interleaved, ~ setting.crashes, setting.deletion = "done", NEW s \in branch'
                 PROVE  s \in Streams /\ stream'[s].place \in {"streams", "archived", "expired"}
      BY DEF Recorded, Rows, Archived
    <2>1. s \in Streams /\ s \in branch
      BY <1>1 DEF StoreTypes, KeepsStore
    <2>2. \A q \in Procs : ~ Inserting(call[q], s)
      BY DEF Inserting, MayRun, Creating
    <2>3. stream[s].place \in {"streams", "archived", "expired"}
      BY <2>1, <2>2 DEF LifeInv, Recorded, Rows, Archived
    <2> QED BY <2>1, <2>3 DEF KeepsRecords
  <1> QED BY <1>3, <1>4, <1>5, <1>6, <1>7, <1>8, <1>9, <1>10 DEF LifeInv

\* A step in no call.
LEMMA OutsideKeeps ==
  ASSUME LifeInv, UNCHANGED <<setting, call>>, StoreTypes', KeepsStore, KeepsRecords, Rows' = Rows
  PROVE  LifeInv'
  <1>1. call \in [Procs -> Seq(Stmt)] /\ StoreTypes
    BY DEF LifeInv, Types
  <1>2. \A s \in Streams : stream[s].place = "streams" <=> stream'[s].place = "streams"
    BY DEF Rows
  <1>3. Types'
    BY <1>1 DEF Types
  <1>4. \A q \in Procs : CallOK(call'[q], stream', branch', setting.deletion)
    BY CallsKept
  <1>5. OneCreator'
    BY DEF OneCreator, Creates, LifeInv
  <1>6. RowHasBranch'
    <2>1. \A s \in Streams : stream'[s].place = "streams" /\ stream'[s].tracks = None => s \in branch'
      BY DEF LifeInv, RowHasBranch, Rows, KeepsStore, Gone
    <2> QED BY <2>1 DEF RowHasBranch, Rows
  <1>7. LocalHasNone'
    BY DEF LifeInv, LocalHasNone, KeepsStore
  <1>8. OneCall'
    BY DEF LifeInv, OneCall
  <1>9. ParentThere'
    BY DEF LifeInv, ParentThere
  <1>10. Recorded'
    <2> SUFFICES ASSUME ~ setting.interleaved, ~ setting.crashes, setting.deletion = "done", NEW s \in branch',
                        \A q \in Procs : ~ Inserting(call[q], s)
                 PROVE  s \in Streams /\ stream'[s].place \in {"streams", "archived", "expired"}
      BY DEF Recorded, Rows, Archived, Inserting
    <2>1. s \in Streams /\ s \in branch
      BY <1>1 DEF StoreTypes, KeepsStore
    <2>3. stream[s].place \in {"streams", "archived", "expired"}
      BY <2>1 DEF LifeInv, Recorded, Rows, Archived
    <2> QED BY <2>1, <2>3 DEF KeepsRecords
  <1> QED BY <1>3, <1>4, <1>5, <1>6, <1>7, <1>8, <1>9, <1>10 DEF LifeInv

-----------------------------------------------------------------------------
(* The lists of statements that calls begin with *)

LEMMA DoIs ==
  ASSUME NEW op \in Ops, NEW s \in Streams \cup {None}
  PROVE  /\ Do(op, s) \in Stmt /\ Do(op, s).op = op /\ Do(op, s).stream = s
         /\ \A x \in Args : /\ With(op, s, x) \in Stmt
                            /\ With(op, s, x).op = op /\ With(op, s, x).stream = s /\ With(op, s, x).arg = x
  BY DEF Do, With, Stmt, Args

LEMMA OneIs ==
  ASSUME NEW a \in Stmt
  PROVE  <<a>> \in Seq(Stmt) /\ DOMAIN <<a>> = {1} /\ <<a>>[1] = a
  OBVIOUS

LEMMA TwoAre ==
  ASSUME NEW a \in Stmt, NEW b \in Stmt
  PROVE  <<a, b>> \in Seq(Stmt) /\ DOMAIN <<a, b>> = {1, 2} /\ <<a, b>>[1] = a /\ <<a, b>>[2] = b
         /\ Len(<<a, b>>) = 2
  OBVIOUS

\* A list of statements of O that fits.
ListOK(w, st, br, kp, O) == w \in Seq(Stmt) /\ CallOK(w, st, br, kp) /\ \A k \in DOMAIN w : w[k].op \in O

\* In the lists for several rows each statement fits as it does in the list for one.
LEMMA EachOK ==
  ASSUME NEW L, NEW S, NEW todo, From(L, S, todo), NEW st, NEW br, NEW kp, NEW O,
         O \cap (Creating \cup {"set"}) = {},
         \A s \in S : ListOK(todo[s], st, br, kp, O)
  PROVE  ListOK(L, st, br, kp, O)
  <1>1. L \in Seq(Stmt)
    BY DEF From
  <1>2. ASSUME NEW i \in DOMAIN L
        PROVE  Fits(L, i, st, br, kp) /\ L[i].op \in O
    <2>1. PICK s \in S : \E k \in DOMAIN todo[s] : Same(L, i, todo[s], k)
      BY DEF From
    <2> PICK w : w = todo[s]
      OBVIOUS
    <2>2. PICK k \in DOMAIN w : Same(L, i, w, k)
      BY <2>1
    <2>3. w \in Seq(Stmt) /\ Fits(w, k, st, br, kp) /\ w[k].op \in O
      BY DEF CallOK, ListOK
    <2>4. /\ L[i] = w[k]
          /\ k > 1 => i > 1 /\ L[i - 1] = w[k - 1]
          /\ k < Len(w) => i + 1 \in DOMAIN L /\ L[i + 1] = w[k + 1]
      BY <2>2 DEF Same
    <2>5. k \in Nat /\ Len(w) \in Nat /\ (k + 1 \in DOMAIN w => k < Len(w))
      BY <2>3
    <2>6. L[i].op = "read" => i + 1 \in DOMAIN L /\ L[i + 1].op = "archive"
      BY <2>3, <2>4, <2>5 DEF Fits
    <2>7. L[i].op = "drop" => \/ kp # "done" \/ L[i].stream \notin br
                              \/ i > 1 /\ L[i - 1].op = "unbranch" /\ L[i - 1].stream = L[i].stream
      BY <2>3, <2>4 DEF Fits
    <2>8. L[i].op \notin Creating \cup {"set"}
      BY <2>3, <2>4
    <2> QED BY <2>3, <2>4, <2>6, <2>7, <2>8 DEF Fits, Creating
  <1> QED BY <1>1, <1>2 DEF CallOK, ListOK

LEMMA ArchiveOK ==
  ASSUME NEW s \in Streams, NEW st, NEW br, NEW kp, st[s].place # "none"
  PROVE  ListOK(ArchiveStream(s), st, br, kp, {"read", "archive"})
  <1> PICK a : a = Do("read", s)
    OBVIOUS
  <1> PICK b : b = Do("archive", s)
    OBVIOUS
  <1>1. a \in Stmt /\ b \in Stmt /\ a.op = "read" /\ b.op = "archive" /\ a.stream = s /\ b.stream = s
    BY DoIs DEF Ops, OfRows
  <1> PICK w : w = <<a, b>>
    OBVIOUS
  <1>2. w \in Seq(Stmt) /\ DOMAIN w = {1, 2} /\ w[1] = a /\ w[2] = b
    BY <1>1, TwoAre
  <1>3. Fits(w, 1, st, br, kp) /\ Fits(w, 2, st, br, kp)
    BY <1>1, <1>2 DEF Fits, Creating, OfRows, Pruning
  <1>4. CallOK(w, st, br, kp)
    BY <1>2, <1>3 DEF CallOK
  <1> QED BY <1>1, <1>2, <1>4 DEF ArchiveStream, ListOK

\* archiveStream called for itself.
LEMMA DirectOK ==
  ASSUME NEW s \in Streams, NEW st, NEW br, NEW kp, st[s].place # "none"
  PROVE  ListOK(<<Do("read", s), With("archive", s, s)>>, st, br, kp, {"read", "archive"})
  <1> PICK a : a = Do("read", s)
    OBVIOUS
  <1> PICK b : b = With("archive", s, s)
    OBVIOUS
  <1>1. "read" \in Ops /\ "archive" \in Ops /\ s \in Args
    BY DEF Ops, OfRows, Args
  <1>2. a \in Stmt /\ a.op = "read" /\ a.stream = s
    BY <1>1, DoIs
  <1>3. b \in Stmt /\ b.op = "archive" /\ b.stream = s
    BY <1>1, DoIs
  <1> PICK w : w = <<a, b>>
    OBVIOUS
  <1>4. w \in Seq(Stmt) /\ DOMAIN w = {1, 2} /\ w[1] = a /\ w[2] = b
    BY <1>2, <1>3, TwoAre
  <1>5. Fits(w, 1, st, br, kp) /\ Fits(w, 2, st, br, kp)
    BY <1>2, <1>3, <1>4 DEF Fits, Creating, OfRows, Pruning
  <1>6. CallOK(w, st, br, kp)
    BY <1>4, <1>5 DEF CallOK
  <1> QED BY <1>2, <1>3, <1>4, <1>6 DEF ListOK

LEMMA PruneOK ==
  ASSUME LifeInv, NEW s \in Streams, stream[s].place \in Gone
  PROVE  ListOK(PruneStream(s), stream, branch, setting.deletion, {"unbranch", "drop"})
  <1> PICK a : a = Do("unbranch", s)
    OBVIOUS
  <1> PICK b : b = Do("drop", s)
    OBVIOUS
  <1>1. a \in Stmt /\ b \in Stmt /\ a.op = "unbranch" /\ b.op = "drop" /\ a.stream = s /\ b.stream = s
    BY DoIs DEF Ops, Pruning
  <1>2. CASE stream[s].tracks = None /\ setting.deletion # "off"
    <2> PICK w : w = <<a>> \o <<b>>
      OBVIOUS
    <2>0. /\ <<a>> \in Seq(Stmt) /\ <<b>> \in Seq(Stmt) /\ Len(<<a>>) = 1 /\ Len(<<b>>) = 1
          /\ <<a>>[1] = a /\ <<b>>[1] = b
      BY <1>1
    <2>1. w \in Seq(Stmt) /\ DOMAIN w = {1, 2} /\ w[1] = a /\ w[2] = b
      BY <2>0, Concatenation
    <2>2. Fits(w, 1, stream, branch, setting.deletion) /\ Fits(w, 2, stream, branch, setting.deletion)
      BY <1>1, <2>1 DEF Fits, Creating, OfRows, Pruning
    <2>3. CallOK(w, stream, branch, setting.deletion)
      BY <2>1, <2>2 DEF CallOK
    <2>5. PruneStream(s) = w
      BY <1>2 DEF PruneStream
    <2> QED BY <1>1, <2>1, <2>3, <2>5 DEF ListOK
  <1>3. CASE stream[s].tracks # None \/ setting.deletion = "off"
    <2> PICK w : w = <<b>>
      OBVIOUS
    <2>1. w \in Seq(Stmt) /\ DOMAIN w = {1} /\ w[1] = b
      BY <1>1, OneIs
    <2>2. setting.deletion # "done" \/ s \notin branch
      BY <1>3 DEF LifeInv, LocalHasNone
    <2>3. Fits(w, 1, stream, branch, setting.deletion)
      BY <1>1, <2>1, <2>2 DEF Fits, Creating, OfRows, Pruning
    <2>4. CallOK(w, stream, branch, setting.deletion)
      BY <2>1, <2>3 DEF CallOK
    <2>5. <<>> \o <<b>> = <<b>>
      BY <1>1
    <2>6. PruneStream(s) = w
      BY <1>3, <2>5 DEF PruneStream
    <2> QED BY <1>1, <2>1, <2>4, <2>6 DEF ListOK
  <1> QED BY <1>2, <1>3

ArchiveItems == [s \in Streams |-> ArchiveStream(s)]
PruneItems == [s \in Streams |-> PruneStream(s)]

LEMMA ArchiveEachOK ==
  ASSUME NEW S \in SUBSET Streams, NEW st, NEW br, NEW kp, \A s \in S : st[s].place # "none"
  PROVE  ListOK(ArchiveEach(S), st, br, kp, {"read", "archive"})
  <1> PICK todo : todo = ArchiveItems
    OBVIOUS
  <1> PICK L : L = ArchiveEach(S)
    OBVIOUS
  <1>1. \A s \in Streams : ArchiveStream(s) \in Seq(Stmt)
    <2> TAKE s \in Streams
    <2>1. Do("read", s) \in Stmt /\ Do("archive", s) \in Stmt
      BY DoIs DEF Ops, OfRows
    <2> QED BY <2>1 DEF ArchiveStream
  <1>2. todo \in [Streams -> Seq(Stmt)] /\ \A s \in Streams : todo[s] = ArchiveStream(s)
    BY <1>1 DEF ArchiveItems
  <1>3. From(L, S, todo)
    BY <1>2, EachFrom DEF ArchiveEach, ArchiveItems
  <1>4. \A s \in S : ListOK(todo[s], st, br, kp, {"read", "archive"})
    BY <1>2, ArchiveOK
  <1>5. {"read", "archive"} \cap (Creating \cup {"set"}) = {}
    BY DEF Creating
  <1>6. ListOK(L, st, br, kp, {"read", "archive"})
    BY <1>3, <1>4, <1>5, EachOK
  <1> QED BY <1>6

LEMMA PruneEachOK ==
  ASSUME LifeInv, NEW S \in SUBSET Streams, \A s \in S : stream[s].place \in Gone
  PROVE  ListOK(PruneEach(S), stream, branch, setting.deletion, {"unbranch", "drop"})
  <1> PICK todo : todo = PruneItems
    OBVIOUS
  <1> PICK L : L = PruneEach(S)
    OBVIOUS
  <1>1. \A s \in Streams : PruneStream(s) \in Seq(Stmt)
    <2> TAKE s \in Streams
    <2>1. Do("unbranch", s) \in Stmt /\ Do("drop", s) \in Stmt
      BY DoIs DEF Ops, Pruning
    <2> QED BY <2>1 DEF PruneStream
  <1>2. todo \in [Streams -> Seq(Stmt)] /\ \A s \in Streams : todo[s] = PruneStream(s)
    BY <1>1 DEF PruneItems
  <1>3. From(L, S, todo)
    BY <1>2, EachFrom DEF PruneEach, PruneItems
  <1>4. \A s \in S : ListOK(todo[s], stream, branch, setting.deletion, {"unbranch", "drop"})
    BY <1>2, PruneOK
  <1>5. {"unbranch", "drop"} \cap (Creating \cup {"set"}) = {}
    BY DEF Creating
  <1>6. ListOK(L, stream, branch, setting.deletion, {"unbranch", "drop"})
    BY <1>3, <1>4, <1>5, EachOK
  <1> QED BY <1>6

LEMMA CascadeOK ==
  ASSUME LifeInv, NEW s, NEW root \in Args
  PROVE  ListOK(Cascade(s, root), stream, branch, setting.deletion, {"abandon", "children"})
  <1> PICK todo : todo = [c \in Streams |-> <<With("abandon", c, root), With("children", c, root)>>]
    OBVIOUS
  <1> PICK L : L = Cascade(s, root)
    OBVIOUS
  <1> PICK S : S = Children(s)
    OBVIOUS
  <1>1. S \in SUBSET Streams /\ \A c \in S : stream[c].place = "streams"
    BY DEF Children, Rows
  <1>2. ASSUME NEW c \in Streams
        PROVE  /\ todo[c] \in Seq(Stmt)
               /\ \A k \in DOMAIN todo[c] : todo[c][k].op \in {"abandon", "children"}
               /\ stream[c].place = "streams" => CallOK(todo[c], stream, branch, setting.deletion)
    <2> PICK a : a = With("abandon", c, root)
      OBVIOUS
    <2> PICK b : b = With("children", c, root)
      OBVIOUS
    <2>1. /\ a \in Stmt /\ b \in Stmt /\ a.op = "abandon" /\ b.op = "children"
          /\ a.stream = c /\ b.stream = c
      <3>1. "abandon" \in Ops /\ "children" \in Ops /\ c \in Streams \cup {None}
        BY DEF Ops, OfRows
      <3>2. a \in Stmt /\ a.op = "abandon" /\ a.stream = c
        BY <3>1, DoIs
      <3>3. b \in Stmt /\ b.op = "children" /\ b.stream = c
        BY <3>1, DoIs
      <3> QED BY <3>2, <3>3
    <2> PICK w : w = <<a, b>>
      OBVIOUS
    <2>2. w \in Seq(Stmt) /\ DOMAIN w = {1, 2} /\ w[1] = a /\ w[2] = b
      BY <2>1, TwoAre
    <2>3. stream[c].place = "streams" => Fits(w, 1, stream, branch, setting.deletion) /\ Fits(w, 2, stream, branch, setting.deletion)
      BY <2>1, <2>2 DEF Fits, Creating, OfRows, Pruning
    <2>4. todo[c] = w
      OBVIOUS
    <2> QED BY <2>1, <2>2, <2>3, <2>4 DEF CallOK
  <1>3. todo \in [Streams -> Seq(Stmt)]
    BY <1>2
  <1>4. From(L, S, todo)
    BY <1>1, <1>3, EachFrom DEF Cascade
  <1>5. \A c \in S : ListOK(todo[c], stream, branch, setting.deletion, {"abandon", "children"})
    BY <1>1, <1>2 DEF ListOK
  <1>6. {"abandon", "children"} \cap (Creating \cup {"set"}) = {}
    BY DEF Creating
  <1>7. ListOK(L, stream, branch, setting.deletion, {"abandon", "children"})
    BY <1>4, <1>5, <1>6, EachOK
  <1> QED BY <1>7

-----------------------------------------------------------------------------
(* The beginning of calls that create nothing *)

LEMMA NothingChanges ==
  ASSUME LifeInv, UNCHANGED <<setting, stream, branch, history, held>>
  PROVE  StoreTypes' /\ KeepsStore /\ KeepsRecords
  BY DEF LifeInv, Types, StoreTypes, Rows, KeepsStore, KeepsRecords

\* The statements of a call are replaced; nothing else changes.
LEMMA OnlyCall ==
  ASSUME LifeInv, NEW p \in Procs, NEW c \in Seq(Stmt), MayRun(p),
         call' = [call EXCEPT ![p] = c], UNCHANGED <<setting, stream, branch, history, held>>,
         CallOK(c, stream, branch, setting.deletion),
         \A i \in DOMAIN c : c[i].op \notin Creating,
         call[p] = <<>> \/ Head(call[p]).op \notin Creating
  PROVE  LifeInv'
  <1>1. CallOK(c, stream', branch', setting.deletion)
    OBVIOUS
  <1> QED BY <1>1, NothingChanges, StepKeeps

LEMMA BeginKeeps ==
  ASSUME LifeInv, NEW p \in Procs, NEW c, NEW O, Begin(p, c), ListOK(c, stream, branch, setting.deletion, O),
         O \cap Creating = {}
  PROVE  LifeInv'
  <1>1. c \in Seq(Stmt) /\ CallOK(c, stream, branch, setting.deletion) /\ \A i \in DOMAIN c : c[i].op \notin Creating
    BY DEF ListOK
  <1>2. /\ MayRun(p) /\ call[p] = <<>> /\ call' = [call EXCEPT ![p] = c]
        /\ UNCHANGED <<setting, stream, branch, history, held>>
    BY DEF Begin, Free
  <1> QED BY <1>1, <1>2, OnlyCall

LEMMA JoinedLists ==
  ASSUME NEW L, NEW M, NEW st, NEW br, NEW kp, NEW O, ListOK(L, st, br, kp, O), ListOK(M, st, br, kp, O),
         O \cap (Creating \cup {"set"}) = {}
  PROVE  ListOK(L \o M, st, br, kp, O)
  <1> PICK c : c = L \o M
    OBVIOUS
  <1>1. /\ L \in Seq(Stmt) /\ M \in Seq(Stmt) /\ CallOK(L, st, br, kp) /\ CallOK(M, st, br, kp)
        /\ \A i \in DOMAIN M : M[i].op \notin Creating \cup {"set"}
    BY DEF ListOK
  <1>2. c \in Seq(Stmt) /\ CallOK(c, st, br, kp)
    BY <1>1, Joined
  <1>3. \A i \in DOMAIN c : c[i].op \in O
    <2>1. /\ DOMAIN L = 1 .. Len(L) /\ DOMAIN M = 1 .. Len(M)
          /\ DOMAIN c = 1 .. Len(L) + Len(M)
          /\ \A i \in 1 .. Len(L) : c[i] = L[i]
          /\ \A i \in Len(L) + 1 .. Len(L) + Len(M) : c[i] = M[i - Len(L)]
          /\ Len(L) \in Nat /\ Len(M) \in Nat
      BY <1>1, Concatenation
    <2> TAKE i \in DOMAIN c
    <2>2. CASE i \in 1 .. Len(L)
      BY <2>1, <2>2 DEF ListOK
    <2>3. CASE i \in Len(L) + 1 .. Len(L) + Len(M)
      <3>1. i - Len(L) \in DOMAIN M /\ c[i] = M[i - Len(L)]
        BY <2>1, <2>3
      <3> QED BY <3>1 DEF ListOK
    <2> QED BY <2>1, <2>2, <2>3
  <1> QED BY <1>2, <1>3 DEF ListOK

LEMMA MoreOps ==
  ASSUME NEW w, NEW st, NEW br, NEW kp, NEW O, NEW P, ListOK(w, st, br, kp, O), O \subseteq P
  PROVE  ListOK(w, st, br, kp, P)
  BY DEF ListOK

GCOps == {"read", "archive", "prune", "clean"}

LEMMA GCBegins ==
  ASSUME LifeInv, NEW p \in Procs, GC(p)
  PROVE  \E w : Begin(p, w) /\ ListOK(w, stream, branch, setting.deletion, GCOps)
  <1> PICK A : A = ArchiveEach(RowsWith("merged"))
    OBVIOUS
  <1> PICK B : B = ArchiveEach(RowsWith("abandoned"))
    OBVIOUS
  <1> PICK a : a = Do("prune", None)
    OBVIOUS
  <1> PICK b : b = Do("clean", None)
    OBVIOUS
  <1>1. \A st \in {"merged", "abandoned"} :
          /\ RowsWith(st) \in SUBSET Streams
          /\ \A s \in RowsWith(st) : stream[s].place # "none"
    BY DEF RowsWith, Rows
  <1>2. ListOK(A, stream, branch, setting.deletion, {"read", "archive"}) /\ ListOK(B, stream, branch, setting.deletion, {"read", "archive"})
    BY <1>1, ArchiveEachOK
  <1>3. ListOK(A, stream, branch, setting.deletion, GCOps) /\ ListOK(B, stream, branch, setting.deletion, GCOps)
    BY <1>2, MoreOps DEF GCOps
  <1>4. ListOK(<<a, b>>, stream, branch, setting.deletion, GCOps)
    <2>1. a \in Stmt /\ b \in Stmt /\ a.op = "prune" /\ b.op = "clean"
      BY DoIs DEF Ops
    <2> PICK w : w = <<a, b>>
      OBVIOUS
    <2>2. w \in Seq(Stmt) /\ DOMAIN w = {1, 2} /\ w[1] = a /\ w[2] = b
      BY <2>1, TwoAre
    <2>3. Fits(w, 1, stream, branch, setting.deletion) /\ Fits(w, 2, stream, branch, setting.deletion)
      BY <2>1, <2>2 DEF Fits, Creating, OfRows, Pruning
    <2>4. CallOK(w, stream, branch, setting.deletion)
      BY <2>2, <2>3 DEF CallOK
    <2> QED BY <2>1, <2>2, <2>4 DEF ListOK, GCOps
  <1>5. GCOps \cap (Creating \cup {"set"}) = {}
    BY DEF GCOps, Creating
  <1>6. ListOK(A \o B, stream, branch, setting.deletion, GCOps)
    BY <1>3, <1>5, JoinedLists
  <1>7. ListOK(A \o B \o <<a, b>>, stream, branch, setting.deletion, GCOps)
    BY <1>4, <1>5, <1>6, JoinedLists
  <1>8. Begin(p, A \o B \o <<a, b>>)
    BY DEF GC
  <1> QED BY <1>7, <1>8

LEMMA GCKeeps ==
  ASSUME LifeInv, NEW p \in Procs, GC(p)
  PROVE  LifeInv'
  <1>1. PICK w : Begin(p, w) /\ ListOK(w, stream, branch, setting.deletion, GCOps)
    BY GCBegins
  <1>2. GCOps \cap Creating = {}
    BY DEF GCOps, Creating
  <1> QED BY <1>1, <1>2, BeginKeeps

LEMMA PruneKeeps ==
  ASSUME LifeInv, NEW p \in Procs, Prune(p, Archived)
  PROVE  LifeInv'
  <1>1. Archived \in SUBSET Streams /\ \A s \in Archived : stream[s].place \in Gone
    BY DEF Archived, Gone
  <1>2. ListOK(PruneEach(Archived), stream, branch, setting.deletion, {"unbranch", "drop"})
    BY <1>1, PruneEachOK
  <1>3. Begin(p, PruneEach(Archived))
    BY DEF Prune
  <1>4. {"unbranch", "drop"} \cap Creating = {}
    BY DEF Creating
  <1> QED BY <1>2, <1>3, <1>4, BeginKeeps

LEMMA AbandonBegins ==
  ASSUME LifeInv, NEW p \in Procs, NEW s \in Rows, NEW cascade \in BOOLEAN,
         AbandonStream(p, s, cascade)
  PROVE  \E w : Begin(p, w) /\ ListOK(w, stream, branch, setting.deletion, {"abandon", "children"})
  <1> PICK a : a = With("abandon", s, s)
    OBVIOUS
  <1> PICK b : b = With("children", s, s)
    OBVIOUS
  <1> PICK d : d = Do("abandon", s)
    OBVIOUS
  <1>1. s \in Streams /\ stream[s].place = "streams" /\ s \in Args
    BY DEF Rows, Args
  <1>2. /\ a \in Stmt /\ b \in Stmt /\ d \in Stmt
        /\ a.op = "abandon" /\ b.op = "children" /\ d.op = "abandon"
        /\ a.stream = s /\ b.stream = s /\ d.stream = s
    <2>1. "abandon" \in Ops /\ "children" \in Ops /\ s \in Streams \cup {None}
      BY <1>1 DEF Ops, OfRows
    <2>2. a \in Stmt /\ a.op = "abandon" /\ a.stream = s
      BY <1>1, <2>1, DoIs
    <2>3. b \in Stmt /\ b.op = "children" /\ b.stream = s
      BY <1>1, <2>1, DoIs
    <2>4. d \in Stmt /\ d.op = "abandon" /\ d.stream = s
      BY <2>1, DoIs
    <2> QED BY <2>2, <2>3, <2>4
  <1>3. PICK w : w = IF cascade THEN <<a, b>> ELSE <<d>>
    OBVIOUS
  <1>4. ListOK(w, stream, branch, setting.deletion, {"abandon", "children"})
    <2>1. CASE cascade
      <3>1. w \in Seq(Stmt) /\ DOMAIN w = {1, 2} /\ w[1] = a /\ w[2] = b
        BY <1>2, <1>3, <2>1, TwoAre
      <3>2. Fits(w, 1, stream, branch, setting.deletion) /\ Fits(w, 2, stream, branch, setting.deletion)
        BY <1>1, <1>2, <3>1 DEF Fits, Creating, OfRows, Pruning
      <3> QED BY <1>2, <3>1, <3>2 DEF ListOK, CallOK
    <2>2. CASE ~ cascade
      <3>1. w \in Seq(Stmt) /\ DOMAIN w = {1} /\ w[1] = d
        BY <1>2, <1>3, <2>2, OneIs
      <3>2. Fits(w, 1, stream, branch, setting.deletion)
        BY <1>1, <1>2, <3>1 DEF Fits, Creating, OfRows, Pruning
      <3> QED BY <1>2, <3>1, <3>2 DEF ListOK, CallOK
    <2> QED BY <2>1, <2>2
  <1>5. Begin(p, w)
    BY <1>3 DEF AbandonStream
  <1> QED BY <1>4, <1>5

LEMMA AbandonKeeps ==
  ASSUME LifeInv, NEW p \in Procs, NEW s \in Rows, NEW cascade \in BOOLEAN,
         AbandonStream(p, s, cascade)
  PROVE  LifeInv'
  <1>1. PICK w : Begin(p, w) /\ ListOK(w, stream, branch, setting.deletion, {"abandon", "children"})
    BY AbandonBegins
  <1>2. {"abandon", "children"} \cap Creating = {}
    BY DEF Creating
  <1> QED BY <1>1, <1>2, BeginKeeps

LEMMA DirectBegins ==
  ASSUME NEW p \in Procs, NEW s \in Streams, ArchiveDirectly(p, s)
  PROVE  /\ Begin(p, <<Do("read", s), With("archive", s, s)>>)
         /\ ListOK(<<Do("read", s), With("archive", s, s)>>, stream, branch, setting.deletion, {"read", "archive"})
  <1>1. stream[s].place # "none"
    BY DEF ArchiveDirectly, Rows
  <1> QED BY <1>1, DirectOK DEF ArchiveDirectly

LEMMA DirectKeeps ==
  ASSUME LifeInv, NEW p \in Procs, NEW s \in Streams, ArchiveDirectly(p, s)
  PROVE  LifeInv'
  <1>1. {"read", "archive"} \cap Creating = {}
    BY DEF Creating
  <1> QED BY <1>1, DirectBegins, BeginKeeps

SetOps == {"set", "read", "archive"}

\* One statement that sets the status, alone or with those that archive the stream.
LEMMA SetOK ==
  ASSUME NEW s \in Rows, NEW st \in Statuses
  PROVE  /\ ListOK(<<With("set", s, st)>>, stream, branch, setting.deletion, SetOps)
         /\ ListOK(<<With("set", s, st)>> \o ArchiveStream(s), stream, branch, setting.deletion, SetOps)
  <1> PICK a : a = With("set", s, st)
    OBVIOUS
  <1>1. s \in Streams /\ stream[s].place = "streams" /\ st \in Args
    BY DEF Rows, Args
  <1>2. a \in Stmt /\ a.op = "set" /\ a.stream = s /\ a.arg = st
    <2>1. "set" \in Ops /\ s \in Streams \cup {None}
      BY <1>1 DEF Ops, OfRows
    <2> QED BY <1>1, <2>1, DoIs
  <1> PICK w : w = <<a>>
    OBVIOUS
  <1> PICK v : v = ArchiveStream(s)
    OBVIOUS
  <1>3. ListOK(w, stream, branch, setting.deletion, SetOps)
    <2>1. w \in Seq(Stmt) /\ DOMAIN w = {1} /\ w[1] = a
      BY <1>2, OneIs
    <2>2. Fits(w, 1, stream, branch, setting.deletion)
      BY <1>1, <1>2, <2>1 DEF Fits, Creating, OfRows, Pruning
    <2> QED BY <1>2, <2>1, <2>2 DEF ListOK, CallOK, SetOps
  <1>4. ListOK(v, stream, branch, setting.deletion, {"read", "archive"})
    BY <1>1, ArchiveOK
  <1>5. ListOK(w \o v, stream, branch, setting.deletion, SetOps)
    <2> PICK c : c = w \o v
      OBVIOUS
    <2>1. w \in Seq(Stmt) /\ v \in Seq(Stmt) /\ CallOK(w, stream, branch, setting.deletion) /\ CallOK(v, stream, branch, setting.deletion)
      BY <1>3, <1>4 DEF ListOK
    <2>2. \A i \in DOMAIN v : v[i].op \notin Creating \cup {"set"}
      BY <1>4 DEF ListOK, Creating
    <2>3. c \in Seq(Stmt) /\ CallOK(c, stream, branch, setting.deletion)
      BY <2>1, <2>2, Joined
    <2>4. /\ DOMAIN w = 1 .. Len(w) /\ DOMAIN v = 1 .. Len(v)
          /\ DOMAIN c = 1 .. Len(w) + Len(v)
          /\ \A i \in 1 .. Len(w) : c[i] = w[i]
          /\ \A i \in Len(w) + 1 .. Len(w) + Len(v) : c[i] = v[i - Len(w)]
          /\ Len(w) \in Nat /\ Len(v) \in Nat
      BY <2>1, Concatenation
    <2>5. \A i \in DOMAIN c : c[i].op \in SetOps
      <3> TAKE i \in DOMAIN c
      <3>1. CASE i \in 1 .. Len(w)
        BY <2>4, <3>1, <1>3 DEF ListOK
      <3>2. CASE i \in Len(w) + 1 .. Len(w) + Len(v)
        <4>1. i - Len(w) \in DOMAIN v /\ c[i] = v[i - Len(w)]
          BY <2>4, <3>2
        <4> QED BY <4>1, <1>4 DEF ListOK, SetOps
      <3> QED BY <2>4, <3>1, <3>2
    <2> QED BY <2>3, <2>5 DEF ListOK
  <1> QED BY <1>3, <1>5

LEMMA SetBegins ==
  ASSUME LifeInv, NEW p \in Procs, NEW s \in Streams, NEW st \in Statuses,
         UpdateStreamStatus(p, s, st) \/ \E from \in Statuses : SetStatus(p, s, from, st)
  PROVE  \E w : Begin(p, w) /\ ListOK(w, stream, branch, setting.deletion, SetOps)
  <1>1. s \in Rows
    BY DEF UpdateStreamStatus, SetStatus
  <1>2. /\ ListOK(<<With("set", s, st)>>, stream, branch, setting.deletion, SetOps)
        /\ ListOK(<<With("set", s, st)>> \o ArchiveStream(s), stream, branch, setting.deletion, SetOps)
    BY <1>1, SetOK
  <1>3. CASE UpdateStreamStatus(p, s, st)
    <2>1. PICK auto \in BOOLEAN :
            Begin(p, <<With("set", s, st)>> \o IF auto /\ st \in Ended THEN ArchiveStream(s) ELSE <<>>)
      BY <1>3 DEF UpdateStreamStatus
    <2>2. CASE auto /\ st \in Ended
      BY <1>2, <2>1, <2>2
    <2>3. CASE ~ (auto /\ st \in Ended)
      <3>1. <<With("set", s, st)>> \in Seq(Stmt)
        BY <1>2 DEF ListOK
      <3>2. <<With("set", s, st)>> \o <<>> = <<With("set", s, st)>>
        BY <3>1
      <3> QED BY <1>2, <2>1, <2>3, <3>2
    <2> QED BY <2>2, <2>3
  <1>4. CASE \E from \in Statuses : SetStatus(p, s, from, st)
    BY <1>2, <1>4 DEF SetStatus
  <1> QED BY <1>3, <1>4

LEMMA SetKeeps ==
  ASSUME LifeInv, NEW p \in Procs, NEW s \in Streams, NEW st \in Statuses,
         UpdateStreamStatus(p, s, st) \/ \E from \in Statuses : SetStatus(p, s, from, st)
  PROVE  LifeInv'
  <1>1. PICK w : Begin(p, w) /\ ListOK(w, stream, branch, setting.deletion, SetOps)
    BY SetBegins
  <1>2. SetOps \cap Creating = {}
    BY DEF SetOps, Creating
  <1> QED BY <1>1, <1>2, BeginKeeps

-----------------------------------------------------------------------------
(* The statements that create nothing *)

LEMMA AtHead ==
  ASSUME LifeInv, NEW p \in Procs, call[p] # <<>>
  PROVE  /\ Fits(call[p], 1, stream, branch, setting.deletion) /\ call[p][1] = Head(call[p]) /\ Head(call[p]) \in Stmt
         /\ Tail(call[p]) \in Seq(Stmt)
         /\ <<>> \o Tail(call[p]) = Tail(call[p])
  <1>1. call[p] \in Seq(Stmt)
    BY DEF LifeInv, Types
  <1>2. /\ 1 \in DOMAIN call[p] /\ call[p][1] = Head(call[p]) /\ Head(call[p]) \in Stmt
        /\ Tail(call[p]) \in Seq(Stmt)
    BY <1>1, Parts
  <1>3. Fits(call[p], 1, stream, branch, setting.deletion)
    BY <1>2 DEF LifeInv, CallOK
  <1> QED BY <1>2, <1>3

\* What the first statement is about.
LEMMA HeadFits ==
  ASSUME LifeInv, NEW p \in Procs, call[p] # <<>>, NEW e, e = Head(call[p])
  PROVE  /\ e \in Stmt
         /\ e.op \in Ops \ {"prune", "clean"} => e.stream \in Streams
         /\ e.op = "insert" => /\ e.arg \in Streams \cup {None} /\ e.stream \in branch
         /\ e.op = "track" => e.arg \in Streams \cup {Outside} /\ e.stream \notin branch
         /\ e.op = "set" => e.arg \in Statuses
         /\ e.op \in Creating => stream[e.stream] = Unused
         /\ e.op \in OfRows => stream[e.stream].place # "none"
         /\ e.op \in Pruning => stream[e.stream].place \in Gone
         /\ e.op = "drop" => setting.deletion # "done" \/ e.stream \notin branch
  <1>1. Fits(call[p], 1, stream, branch, setting.deletion) /\ call[p][1] = e /\ e \in Stmt
    BY AtHead
  <1> QED BY <1>1 DEF Fits, Ops

\* A statement after which the call goes on, or is given up.
LEMMA StatementKeeps ==
  ASSUME LifeInv, NEW p \in Procs, MayRun(p), call[p] # <<>>, NEW c,
         Head(call[p]).op \notin Creating,
         Head(call[p]).op = "unbranch" => setting.deletion # "done" \/ Head(call[p]).stream \notin branch',
         c = Tail(call[p]) \/ c = <<>>,
         call' = [call EXCEPT ![p] = c],
         UNCHANGED setting, StoreTypes', KeepsStore, KeepsRecords
  PROVE  LifeInv'
  <1>1. /\ Tail(call[p]) \in Seq(Stmt) /\ CallOK(Tail(call[p]), stream', branch', setting.deletion)
        /\ \A i \in DOMAIN Tail(call[p]) : Tail(call[p])[i].op \notin Creating \cup {"set"}
    BY RestKept DEF Creating
  <1>2. DOMAIN <<>> = {} /\ <<>> \in Seq(Stmt)
    OBVIOUS
  <1>3. c \in Seq(Stmt) /\ CallOK(c, stream', branch', setting.deletion) /\ \A i \in DOMAIN c : c[i].op \notin Creating
    BY <1>1, <1>2 DEF CallOK
  <1> QED BY <1>3, StepKeeps

LEMMA DependKeeps ==
  ASSUME LifeInv, NEW p \in Procs, AddForkDependency(p)
  PROVE  LifeInv'
  <1>1. /\ MayRun(p) /\ call[p] # <<>> /\ Head(call[p]).op = "depend"
        /\ call' = [call EXCEPT ![p] = <<>> \o Tail(@)]
        /\ UNCHANGED <<setting, stream, branch, history>>
        /\ held' \subseteq held \cup Rows
    BY DEF AddForkDependency, Does, Continue
  <1>2. call' = [call EXCEPT ![p] = Tail(call[p])]
    BY <1>1, AtHead
  <1>3. KeepsStore /\ KeepsRecords
    BY <1>1 DEF KeepsStore, KeepsRecords
  <1>4. StoreTypes'
    BY <1>1 DEF LifeInv, Types, StoreTypes, Rows
  <1>5. Head(call[p]).op \notin Creating /\ Head(call[p]).op # "unbranch"
    BY <1>1 DEF Creating
  <1> QED BY <1>1, <1>2, <1>3, <1>4, <1>5, StatementKeeps

\* A status is written to a row.
Written(s, st) == stream' = [stream EXCEPT ![s].status = st]

LEMMA WrittenKeeps ==
  ASSUME LifeInv, NEW s \in Rows, NEW st \in Statuses, Written(s, st),
         UNCHANGED <<setting, branch, history, held>>
  PROVE  StoreTypes' /\ KeepsStore /\ KeepsRecords
  <1>1. s \in Streams /\ stream \in [Streams -> Record] /\ stream[s].place = "streams"
    BY DEF Rows, LifeInv, Types, StoreTypes
  <1>2. \A x \in Streams :
          /\ stream'[x] \in Record
          /\ stream'[x].place = stream[x].place /\ stream'[x].parent = stream[x].parent
          /\ stream'[x].tracks = stream[x].tracks
          /\ x # s => stream'[x] = stream[x]
    BY <1>1 DEF Written, Record
  <1>3. stream' \in [Streams -> Record]
    BY <1>1, <1>2 DEF Written
  <1>4. Rows' = Rows
    BY <1>2 DEF Rows
  <1>5. StoreTypes'
    <2>1. \A x \in Rows' : stream'[x].parent \in Rows' \cup {None}
      BY <1>2, <1>4 DEF LifeInv, Types, StoreTypes, Rows
    <2> QED BY <2>1, <1>3, <1>4 DEF LifeInv, Types, StoreTypes
  <1>6. stream[s] # Unused
    BY <1>1, UnusedIs
  <1>7. KeepsStore /\ KeepsRecords
    BY <1>2, <1>6 DEF KeepsStore, KeepsRecords
  <1> QED BY <1>5, <1>7

LEMMA WriteStatusKeeps ==
  ASSUME LifeInv, NEW p \in Procs, WriteStatus(p)
  PROVE  LifeInv'
  <1> PICK e : e = Head(call[p])
    OBVIOUS
  <1>1. /\ MayRun(p) /\ call[p] # <<>> /\ e.op = "set"
        /\ call' = [call EXCEPT ![p] = <<>> \o Tail(@)]
        /\ UNCHANGED <<setting, branch, history, held>>
        /\ stream' = IF e.stream \in Rows THEN [stream EXCEPT ![e.stream].status = e.arg] ELSE stream
    BY DEF WriteStatus, Does, Continue
  <1>2. call' = [call EXCEPT ![p] = Tail(call[p])]
    BY <1>1, AtHead
  <1>3. e.arg \in Statuses
    BY <1>1, HeadFits
  <1>4. StoreTypes' /\ KeepsStore /\ KeepsRecords
    <2>1. CASE e.stream \in Rows
      BY <1>1, <1>3, <2>1, WrittenKeeps DEF Written
    <2>2. CASE e.stream \notin Rows
      BY <1>1, <2>2, NothingChanges
    <2> QED BY <2>1, <2>2
  <1>5. Head(call[p]).op \notin Creating /\ Head(call[p]).op # "unbranch"
    BY <1>1 DEF Creating
  <1> QED BY <1>1, <1>2, <1>4, <1>5, StatementKeeps

LEMMA AbandonStatementKeeps ==
  ASSUME LifeInv, NEW p \in Procs, Abandon(p)
  PROVE  LifeInv'
  <1> PICK e : e = Head(call[p])
    OBVIOUS
  <1>1. /\ MayRun(p) /\ call[p] # <<>> /\ e.op = "abandon"
        /\ UNCHANGED <<setting, branch, history, held>>
        /\ \/ /\ e.stream \in Rows /\ stream' = [stream EXCEPT ![e.stream].status = "abandoned"]
              /\ call' = [call EXCEPT ![p] = <<>> \o Tail(@)]
           \/ UNCHANGED stream /\ call' = [call EXCEPT ![p] = <<>>]
    BY DEF Abandon, Does, Continue, Throw
  <1>2. PICK c : (c = Tail(call[p]) \/ c = <<>>) /\ call' = [call EXCEPT ![p] = c]
    BY <1>1, AtHead
  <1>3. StoreTypes' /\ KeepsStore /\ KeepsRecords
    <2>1. CASE e.stream \in Rows /\ stream' = [stream EXCEPT ![e.stream].status = "abandoned"]
      BY <1>1, <2>1, WrittenKeeps DEF Written, Statuses
    <2>2. CASE UNCHANGED stream
      BY <1>1, <2>2, NothingChanges
    <2> QED BY <1>1, <2>1, <2>2
  <1>4. Head(call[p]).op \notin Creating /\ Head(call[p]).op # "unbranch"
    BY <1>1 DEF Creating
  <1> QED BY <1>1, <1>2, <1>3, <1>4, StatementKeeps

\* More statements in the place of one.
LEMMA ExpandKeeps ==
  ASSUME LifeInv, NEW p \in Procs, NEW L, NEW O, ListOK(L, stream, branch, setting.deletion, O),
         O \cap (Creating \cup {"set"}) = {},
         MayRun(p), call[p] # <<>>, Head(call[p]).op \in {"children", "prune"},
         call' = [call EXCEPT ![p] = L \o Tail(@)],
         UNCHANGED <<setting, stream, branch, history, held>>
  PROVE  LifeInv'
  <1>1. /\ Head(call[p]).op \notin Creating
        /\ Head(call[p]).op # "branch" /\ Head(call[p]).op # "unbranch"
    BY DEF Creating
  <1>2. StoreTypes' /\ KeepsStore /\ KeepsRecords
    BY NothingChanges
  <1> PICK t : t = Tail(call[p])
    OBVIOUS
  <1>3. /\ t \in Seq(Stmt) /\ CallOK(t, stream', branch', setting.deletion)
        /\ \A i \in DOMAIN t : t[i].op \notin Creating \cup {"set"}
    BY <1>1, <1>2, RestKept
  <1>4. CallOK(t, stream, branch, setting.deletion)
    BY <1>3
  <1> PICK Q : Q = Ops \ (Creating \cup {"set"})
    OBVIOUS
  <1>5. ListOK(t, stream, branch, setting.deletion, Q)
    <2>1. \A i \in DOMAIN t : t[i] \in Stmt
      BY <1>3
    <2> QED BY <2>1, <1>3, <1>4 DEF ListOK, Stmt
  <1>6. ListOK(L, stream, branch, setting.deletion, Q)
    <2>1. \A i \in DOMAIN L : L[i] \in Stmt /\ L[i].op \in O
      BY DEF ListOK
    <2> QED BY <2>1 DEF ListOK, Stmt
  <1>7. ListOK(L \o t, stream, branch, setting.deletion, Q)
    BY <1>5, <1>6, JoinedLists
  <1> PICK c : c = L \o t
    OBVIOUS
  <1>8. c \in Seq(Stmt) /\ CallOK(c, stream, branch, setting.deletion) /\ \A i \in DOMAIN c : c[i].op \notin Creating
    BY <1>7 DEF ListOK
  <1>9. call' = [call EXCEPT ![p] = c]
    OBVIOUS
  <1> QED BY <1>1, <1>8, <1>9, OnlyCall

LEMMA ChildrenKeeps ==
  ASSUME LifeInv, NEW p \in Procs, ListChildren(p)
  PROVE  LifeInv'
  <1> PICK e : e = Head(call[p])
    OBVIOUS
  <1>1. /\ MayRun(p) /\ call[p] # <<>> /\ e.op = "children"
        /\ call' = [call EXCEPT ![p] = Cascade(e.stream, e.arg) \o Tail(@)]
        /\ UNCHANGED <<setting, stream, branch, history, held>>
    BY DEF ListChildren, Does, Continue
  <1>2. e.arg \in Args
    BY <1>1, HeadFits DEF Stmt
  <1>3. ListOK(Cascade(e.stream, e.arg), stream, branch, setting.deletion, {"abandon", "children"})
    BY <1>2, CascadeOK
  <1>4. {"abandon", "children"} \cap (Creating \cup {"set"}) = {}
    BY DEF Creating
  <1> QED BY <1>1, <1>3, <1>4, ExpandKeeps

LEMMA GCPruneKeeps ==
  ASSUME LifeInv, NEW p \in Procs, GCPrune(p)
  PROVE  LifeInv'
  <1> PICK S : S = {s \in Archived : stream[s].place = "expired"}
    OBVIOUS
  <1>1. /\ MayRun(p) /\ call[p] # <<>> /\ Head(call[p]).op = "prune"
        /\ call' = [call EXCEPT ![p] = PruneEach(S) \o Tail(@)]
        /\ UNCHANGED <<setting, stream, branch, history, held>>
    BY DEF GCPrune, Does, Continue
  <1>2. S \in SUBSET Streams /\ \A s \in S : stream[s].place \in Gone
    BY DEF Archived, Gone
  <1>3. ListOK(PruneEach(S), stream, branch, setting.deletion, {"unbranch", "drop"})
    BY <1>2, PruneEachOK
  <1>4. {"unbranch", "drop"} \cap (Creating \cup {"set"}) = {}
    BY DEF Creating
  <1> QED BY <1>1, <1>3, <1>4, ExpandKeeps

\* Without a row the archive statement behind is not executed.
LEMMA ReadRowKeeps ==
  ASSUME LifeInv, NEW p \in Procs, ReadRow(p)
  PROVE  LifeInv'
  <1> PICK t : t = Tail(call[p])
    OBVIOUS
  <1> PICK c : c = IF Head(call[p]).stream \in Rows THEN t ELSE Tail(t)
    OBVIOUS
  <1>1. /\ MayRun(p) /\ call[p] # <<>> /\ Head(call[p]).op = "read"
        /\ call' = [call EXCEPT ![p] = c]
        /\ UNCHANGED <<setting, stream, branch, history, held>>
    BY DEF ReadRow, Does
  <1>2. StoreTypes' /\ KeepsStore /\ KeepsRecords
    BY <1>1, NothingChanges
  <1>3. /\ t \in Seq(Stmt) /\ CallOK(t, stream', branch', setting.deletion)
        /\ \A i \in DOMAIN t : t[i].op \notin Creating \cup {"set"}
    BY <1>1, <1>2, RestKept
  <1>4. CallOK(t, stream, branch, setting.deletion)
    BY <1>1, <1>3
  <1>5. t # <<>> /\ t[1].op = "archive"
    <2>1. call[p] \in Seq(Stmt)
      BY DEF LifeInv, Types
    <2>2. 2 \in DOMAIN call[p] /\ call[p][2].op = "archive"
      BY <1>1, AtHead DEF Fits
    <2>3. /\ Len(call[p]) \in Nat /\ DOMAIN call[p] = 1 .. Len(call[p])
          /\ DOMAIN t = 1 .. Len(call[p]) - 1
          /\ \A i \in 1 .. Len(call[p]) - 1 : t[i] = call[p][i + 1]
      BY <1>1, <2>1, Parts
    <2>4. 1 \in DOMAIN t /\ t[1] = call[p][2]
      BY <2>2, <2>3
    <2>5. DOMAIN <<>> = {}
      OBVIOUS
    <2> QED BY <2>2, <2>4, <2>5
  <1>6. /\ c \in Seq(Stmt) /\ CallOK(c, stream, branch, setting.deletion)
        /\ \A i \in DOMAIN c : c[i].op \notin Creating
    <2>1. CASE c = t
      BY <2>1, <1>3, <1>4
    <2>2. CASE c = Tail(t)
      <3>1. \A i \in 2 .. Len(t) : Fits(t, i, stream, branch, setting.deletion)
        <4>1. DOMAIN t = 1 .. Len(t) /\ Len(t) \in Nat
          BY <1>3
        <4> QED BY <4>1, <1>4 DEF CallOK
      <3>2. t[1].op # "branch" /\ t[1].op # "unbranch"
        BY <1>5
      <3>3. CallOK(c, stream, branch, setting.deletion) /\ Follows(c, t[1])
        BY <1>3, <1>5, <2>2, <3>1, <3>2, TailOK
      <3>4. c \in Seq(Stmt)
        BY <1>3, <1>5, <2>2
      <3> QED BY <3>2, <3>3, <3>4 DEF Follows, Creating
    <2> QED BY <2>1, <2>2
  <1>7. Head(call[p]).op \notin Creating
    BY <1>1 DEF Creating
  <1> QED BY <1>1, <1>6, <1>7, OnlyCall

LEMMA ArchiveKeeps ==
  ASSUME LifeInv, NEW p \in Procs, Archive(p)
  PROVE  LifeInv'
  <1> PICK s : s = Head(call[p]).stream
    OBVIOUS
  <1> PICK fails \in BOOLEAN : fails <=> (s \in Archived \/ (s \in Rows /\ Referenced(s)))
    OBVIOUS
  <1>1. /\ MayRun(p) /\ call[p] # <<>> /\ Head(call[p]).op = "archive"
        /\ call' = [call EXCEPT ![p] = Tail(call[p])]
        /\ stream' = IF fails THEN stream ELSE [stream EXCEPT ![s].place = "archived"]
        /\ UNCHANGED <<setting, branch, history, held>>
    BY DEF Archive, Does, AfterError
  <1>2. s \in Streams /\ stream[s].place # "none"
    BY <1>1, HeadFits DEF Ops, OfRows
  <1>3. /\ stream \in [Streams -> Record] /\ branch \subseteq Streams /\ setting \in Settings
        /\ history \cup held \subseteq Rows /\ \A x \in Rows : stream[x].parent \in Rows \cup {None}
    BY DEF LifeInv, Types, StoreTypes
  <1>4. StoreTypes' /\ KeepsStore /\ KeepsRecords
    <2>1. CASE fails
      BY <1>1, <2>1, NothingChanges
    <2>2. CASE ~ fails
      <3>1. \A x \in Streams :
              /\ stream'[x] \in Record
              /\ stream'[x].parent = stream[x].parent /\ stream'[x].tracks = stream[x].tracks
              /\ x # s => stream'[x] = stream[x]
        BY <1>1, <1>2, <1>3, <2>2 DEF Record, Gone
      <3>2. stream'[s].place = "archived"
        BY <1>1, <1>2, <1>3, <2>2 DEF Record
      <3>3. stream' \in [Streams -> Record]
        BY <1>1, <1>2, <1>3, <2>2, <3>1
      <3>4. Rows' = Rows \ {s}
        BY <3>1, <3>2 DEF Rows
      <3>5. s \notin history \cup held /\ \A x \in Rows : stream[x].parent # s
        <4>1. CASE s \in Rows
          BY <4>1, <2>2 DEF Referenced, Children
        <4>2. CASE s \notin Rows
          BY <4>2, <1>2, <1>3, StreamLifecycleAssumption
        <4> QED BY <4>1, <4>2
      <3>6. StoreTypes'
        <4>1. history' \cup held' \subseteq Rows'
          BY <1>1, <1>3, <3>4, <3>5
        <4>2. \A x \in Rows' : stream'[x].parent \in Rows' \cup {None}
          <5> TAKE x \in Rows'
          <5>1. x \in Rows /\ x \in Streams
            BY <3>4 DEF Rows
          <5> QED BY <5>1, <1>3, <3>1, <3>4, <3>5
        <4> QED BY <1>1, <1>3, <3>3, <4>1, <4>2 DEF StoreTypes
      <3>7. stream[s] # Unused
        BY <1>2, UnusedIs
      <3>8. KeepsStore
        BY <1>1, <1>2, <3>1, <3>2, <3>7 DEF KeepsStore, Gone
      <3>9. KeepsRecords
        BY <3>1, <3>2 DEF KeepsRecords
      <3> QED BY <3>6, <3>8, <3>9
    <2> QED BY <2>1, <2>2
  <1>5. Head(call[p]).op \notin Creating /\ Head(call[p]).op # "unbranch"
    BY <1>1 DEF Creating
  <1> QED BY <1>1, <1>4, <1>5, StatementKeeps

LEMMA DeleteBranchKeeps ==
  ASSUME LifeInv, NEW p \in Procs, DeleteBranch(p)
  PROVE  LifeInv'
  <1> PICK s : s = Head(call[p]).stream
    OBVIOUS
  <1>1. /\ MayRun(p) /\ call[p] # <<>> /\ Head(call[p]).op = "unbranch"
        /\ call' = [call EXCEPT ![p] = <<>> \o Tail(@)]
        /\ branch' = branch \ {s} \/ (setting.deletion = "refused" /\ branch' = branch)
        /\ UNCHANGED <<setting, stream, history, held>>
    BY DEF DeleteBranch, Does, Continue
  <1>2. call' = [call EXCEPT ![p] = Tail(call[p])]
    BY <1>1, AtHead
  <1>3. s \in Streams /\ stream[s].place \in Gone
    BY <1>1, HeadFits DEF Ops, Pruning
  <1>4. StoreTypes'
    BY <1>1 DEF LifeInv, Types, StoreTypes, Rows
  <1>5. KeepsStore /\ KeepsRecords
    BY <1>1, <1>3 DEF KeepsStore, KeepsRecords
  <1>6. Head(call[p]).op \notin Creating /\ (setting.deletion # "done" \/ s \notin branch')
    BY <1>1 DEF Creating
  <1> QED BY <1>1, <1>2, <1>4, <1>5, <1>6, StatementKeeps

LEMMA DropKeeps ==
  ASSUME LifeInv, NEW p \in Procs, DropRows(p)
  PROVE  LifeInv'
  <1> PICK s : s = Head(call[p]).stream
    OBVIOUS
  <1>1. /\ MayRun(p) /\ call[p] # <<>> /\ Head(call[p]).op = "drop"
        /\ call' = [call EXCEPT ![p] = <<>> \o Tail(@)]
        /\ stream' = IF s \in Archived THEN [stream EXCEPT ![s].place = "pruned"] ELSE stream
        /\ history' = history \ {s}
        /\ UNCHANGED <<setting, branch, held>>
    BY DEF DropRows, Does, Continue
  <1>2. call' = [call EXCEPT ![p] = Tail(call[p])]
    BY <1>1, AtHead
  <1>3. s \in Streams /\ stream[s].place \in Gone /\ (setting.deletion # "done" \/ s \notin branch)
    BY <1>1, HeadFits DEF Ops, Pruning
  <1>4. /\ stream \in [Streams -> Record] /\ branch \subseteq Streams /\ setting \in Settings
        /\ history \cup held \subseteq Rows /\ \A x \in Rows : stream[x].parent \in Rows \cup {None}
    BY DEF LifeInv, Types, StoreTypes
  <1>5. \A x \in Streams :
          /\ stream'[x] \in Record
          /\ stream'[x].parent = stream[x].parent /\ stream'[x].tracks = stream[x].tracks
          /\ x # s => stream'[x] = stream[x]
    <2>1. CASE s \in Archived
      BY <1>1, <1>3, <1>4, <2>1 DEF Record, Gone
    <2>2. CASE s \notin Archived
      BY <1>1, <1>3, <1>4, <2>2 DEF Record, Gone
    <2> QED BY <2>1, <2>2
  <1>6. stream'[s].place \in Gone
    BY <1>1, <1>3, <1>4 DEF Record, Gone
  <1>7. stream' \in [Streams -> Record]
    BY <1>1, <1>4, <1>5
  <1>8. Rows' = Rows
    BY <1>3, <1>5, <1>6 DEF Rows, Gone
  <1>9. StoreTypes'
    <2>1. history' \cup held' \subseteq Rows'
      BY <1>1, <1>4, <1>8
    <2>2. \A x \in Rows' : stream'[x].parent \in Rows' \cup {None}
      <3> TAKE x \in Rows'
      <3>1. x \in Rows /\ x \in Streams
        BY <1>8 DEF Rows
      <3> QED BY <3>1, <1>4, <1>5, <1>8
    <2> QED BY <1>1, <1>4, <1>7, <2>1, <2>2 DEF StoreTypes
  <1>10. stream[s] # Unused /\ stream[s].place # "none" /\ stream'[s].place # "none"
         /\ stream'[s].place # "streams"
    BY <1>3, <1>6, UnusedIs DEF Gone
  <1>11. KeepsStore /\ KeepsRecords
    BY <1>1, <1>3, <1>5, <1>6, <1>10 DEF KeepsStore, KeepsRecords
  <1>12. Head(call[p]).op \notin Creating /\ Head(call[p]).op # "unbranch"
    BY <1>1 DEF Creating
  <1> QED BY <1>1, <1>2, <1>9, <1>11, <1>12, StatementKeeps

LEMMA CleanKeeps ==
  ASSUME LifeInv, NEW p \in Procs, GCClean(p)
  PROVE  LifeInv'
  <1>1. /\ MayRun(p) /\ call[p] # <<>> /\ Head(call[p]).op = "clean"
        /\ call' = [call EXCEPT ![p] = <<>> \o Tail(@)]
        /\ UNCHANGED <<setting, stream, branch, history>>
        /\ held' \subseteq held
    BY DEF GCClean, Does, Continue
  <1>2. call' = [call EXCEPT ![p] = Tail(call[p])]
    BY <1>1, AtHead
  <1>3. KeepsStore /\ KeepsRecords
    BY <1>1 DEF KeepsStore, KeepsRecords
  <1>4. StoreTypes'
    BY <1>1 DEF LifeInv, Types, StoreTypes, Rows
  <1>5. Head(call[p]).op \notin Creating /\ Head(call[p]).op # "unbranch"
    BY <1>1 DEF Creating
  <1> QED BY <1>1, <1>2, <1>3, <1>4, <1>5, StatementKeeps

-----------------------------------------------------------------------------
(* The creation of streams *)

\* A new stream is in no call, and has neither a row nor a branch.
LEMMA NewIs ==
  ASSUME LifeInv, NEW s, NewId(s)
  PROVE  /\ s \in Streams /\ stream[s] = Unused /\ s \notin branch
         /\ \A q \in Procs : ~ Creates(call[q], s)
  <1>1. /\ s \in setting.streams /\ stream[s] = Unused /\ s \notin branch
        /\ \A p \in Procs, i \in 1 .. 3 : i \in DOMAIN call[p] => call[p][i].stream # s
    BY DEF NewId, Fresh
  <1>2. s \in Streams
    BY <1>1, StreamLifecycleAssumption DEF LifeInv, Types, StoreTypes, Setting
  <1>3. ASSUME NEW q \in Procs, NEW i \in DOMAIN call[q], call[q][i].op \in Creating, call[q][i].stream = s
        PROVE  FALSE
    <2>1. Fits(call[q], i, stream, branch, setting.deletion)
      BY DEF LifeInv, CallOK
    <2>2. i = 1 \/ i = 2
      BY <2>1, <1>3 DEF Fits, Creating
    <2>3. i \in 1 .. 3
      BY <2>2
    <2> QED BY <2>3, <1>1, <1>3
  <1> QED BY <1>1, <1>2, <1>3 DEF Creates

\* A call that creates a stream begins.
LEMMA NewKeeps ==
  ASSUME LifeInv, NEW p \in Procs, NEW c \in Seq(Stmt), NEW s, NewId(s), Begin(p, c),
         CallOK(c, stream, branch, setting.deletion),
         \A i \in DOMAIN c : c[i].op \in Creating => c[i].stream = s,
         \A i \in DOMAIN c : c[i].op = "insert" => c[i].arg \in Rows \cup {None}
  PROVE  LifeInv'
  <1>1. /\ MayRun(p) /\ call[p] = <<>> /\ call' = [call EXCEPT ![p] = c]
        /\ UNCHANGED <<setting, stream, branch, history, held>>
    BY DEF Begin, Free
  <1>2. call \in [Procs -> Seq(Stmt)]
    BY DEF LifeInv, Types
  <1>3. \A q \in Procs : call'[q] = IF q = p THEN c ELSE call[q]
    BY <1>1, <1>2
  <1>4. StoreTypes' /\ KeepsStore
    BY <1>1, NothingChanges
  <1>5. Types'
    BY <1>1, <1>2, <1>4 DEF Types
  <1>6. \A q \in Procs : CallOK(call'[q], stream', branch', setting.deletion)
    <2> TAKE q \in Procs
    <2>1. CASE q = p
      BY <2>1, <1>1, <1>3
    <2>2. CASE q # p
      BY <2>2, <1>3, <1>4, CallsKept
    <2> QED BY <2>1, <2>2
  <1>7. OneCreator'
    <2>1. \A x \in Streams : Creates(c, x) => \A q \in Procs : ~ Creates(call[q], x)
      BY NewIs DEF Creates
    <2> QED BY <2>1, <1>1, <1>2, StillOneCreator DEF LifeInv
  <1>8. RowHasBranch' /\ LocalHasNone'
    BY <1>1 DEF LifeInv, RowHasBranch, LocalHasNone, Rows
  <1>9. OneCall'
    BY <1>1, <1>2, StillOneCall DEF LifeInv
  <1>10. ParentThere'
    <2> SUFFICES ASSUME NEW q \in Procs, NEW i \in DOMAIN call'[q], call'[q][i].op = "insert", ~ setting.interleaved
                 PROVE  call'[q][i].arg \in Rows' \cup {None}
      BY <1>1 DEF ParentThere
    <2>1. Rows' = Rows
      BY <1>1 DEF Rows
    <2>2. CASE q = p
      BY <2>1, <2>2, <1>3
    <2>3. CASE q # p
      BY <2>1, <2>3, <1>3 DEF LifeInv, ParentThere
    <2> QED BY <2>2, <2>3
  <1>11. Recorded'
    <2> SUFFICES ASSUME ~ setting.interleaved, ~ setting.crashes, setting.deletion = "done", NEW x \in branch'
                 PROVE  x \in Rows' \cup Archived'
      BY <1>1 DEF Recorded
    <2>1. \A q \in Procs : call[q] = <<>>
      BY <1>1 DEF MayRun
    <2>2. x \in Rows \cup Archived
      BY <1>1, <2>1 DEF LifeInv, Recorded, Inserting
    <2> QED BY <2>2, <1>1 DEF Rows, Archived
  <1> QED BY <1>1, <1>5, <1>6, <1>7, <1>8, <1>9, <1>10, <1>11 DEF LifeInv

LEMMA BranchThenRowOK ==
  ASSUME LifeInv, NEW s, NewId(s), NEW x \in Streams \cup {None}
  PROVE  /\ BranchThenRow(s, x) \in Seq(Stmt) /\ CallOK(BranchThenRow(s, x), stream, branch, setting.deletion)
         /\ \A i \in DOMAIN BranchThenRow(s, x) : /\ BranchThenRow(s, x)[i].stream = s
                                                  /\ BranchThenRow(s, x)[i].op = "insert"
                                                       => BranchThenRow(s, x)[i].arg = x
  <1> PICK a : a = Do("branch", s)
    OBVIOUS
  <1> PICK b : b = With("insert", s, x)
    OBVIOUS
  <1>1. s \in Streams /\ stream[s] = Unused /\ x \in Args
    BY NewIs DEF Args
  <1>2. /\ a \in Stmt /\ a.op = "branch" /\ a.stream = s
        /\ b \in Stmt /\ b.op = "insert" /\ b.stream = s /\ b.arg = x
    <2>1. "branch" \in Ops /\ "insert" \in Ops /\ s \in Streams \cup {None}
      BY <1>1 DEF Ops, Creating
    <2>2. a \in Stmt /\ a.op = "branch" /\ a.stream = s
      BY <2>1, DoIs
    <2>3. b \in Stmt /\ b.op = "insert" /\ b.stream = s /\ b.arg = x
      BY <1>1, <2>1, DoIs
    <2> QED BY <2>2, <2>3
  <1> PICK w : w = <<a, b>>
    OBVIOUS
  <1>3. w \in Seq(Stmt) /\ DOMAIN w = {1, 2} /\ w[1] = a /\ w[2] = b
    BY <1>2, TwoAre
  <1>4. Fits(w, 1, stream, branch, setting.deletion) /\ Fits(w, 2, stream, branch, setting.deletion)
    BY <1>1, <1>2, <1>3 DEF Fits, Creating, OfRows, Pruning
  <1>5. CallOK(w, stream, branch, setting.deletion)
    BY <1>3, <1>4 DEF CallOK
  <1>6. BranchThenRow(s, x) = w
    BY DEF BranchThenRow
  <1> QED BY <1>2, <1>3, <1>5, <1>6

LEMMA CreateKeeps ==
  ASSUME LifeInv, NEW p \in Procs, NEW s \in Streams, CreateStream(p, s)
  PROVE  LifeInv'
  <1>1. NewId(s) /\ Begin(p, BranchThenRow(s, None))
    BY DEF CreateStream
  <1> PICK c : c = BranchThenRow(s, None)
    OBVIOUS
  <1>2. /\ c \in Seq(Stmt) /\ CallOK(c, stream, branch, setting.deletion)
        /\ \A i \in DOMAIN c : c[i].stream = s /\ (c[i].op = "insert" => c[i].arg = None)
    BY <1>1, BranchThenRowOK
  <1> QED BY <1>1, <1>2, NewKeeps

LEMMA ForkKeeps ==
  ASSUME LifeInv, NEW p \in Procs, NEW s \in Streams, NEW parent \in Streams, ForkStream(p, s, parent)
  PROVE  LifeInv'
  <1>1. /\ NewId(s) /\ parent \in Rows
        /\ Begin(p, BranchThenRow(s, parent) \o <<With("depend", s, parent)>>)
    BY DEF ForkStream
  <1> PICK w : w = BranchThenRow(s, parent)
    OBVIOUS
  <1> PICK a : a = With("depend", s, parent)
    OBVIOUS
  <1> PICK d : d = <<a>>
    OBVIOUS
  <1> PICK c : c = w \o d
    OBVIOUS
  <1>2. /\ w \in Seq(Stmt) /\ CallOK(w, stream, branch, setting.deletion)
        /\ \A i \in DOMAIN w : w[i].stream = s /\ (w[i].op = "insert" => w[i].arg = parent)
    BY <1>1, BranchThenRowOK
  <1>3. a \in Stmt /\ a.op = "depend" /\ a.stream = s
    <2>1. "depend" \in Ops /\ s \in Streams \cup {None} /\ parent \in Args
      BY DEF Ops, Args
    <2> QED BY <2>1, DoIs
  <1>4. d \in Seq(Stmt) /\ DOMAIN d = {1} /\ d[1] = a
    BY <1>3, OneIs
  <1>5. CallOK(d, stream, branch, setting.deletion)
    BY <1>3, <1>4 DEF CallOK, Fits, Creating, OfRows, Pruning
  <1>6. \A i \in DOMAIN d : d[i].op \notin Creating \cup {"set"}
    BY <1>3, <1>4 DEF Creating
  <1>7. c \in Seq(Stmt) /\ CallOK(c, stream, branch, setting.deletion)
    BY <1>2, <1>4, <1>5, <1>6, Joined
  <1>8. \A i \in DOMAIN c : c[i].stream = s /\ (c[i].op = "insert" => c[i].arg = parent)
    <2>1. /\ DOMAIN w = 1 .. Len(w) /\ DOMAIN d = 1 .. Len(d)
          /\ DOMAIN c = 1 .. Len(w) + Len(d)
          /\ \A i \in 1 .. Len(w) : c[i] = w[i]
          /\ \A i \in Len(w) + 1 .. Len(w) + Len(d) : c[i] = d[i - Len(w)]
          /\ Len(w) \in Nat /\ Len(d) \in Nat
      BY <1>2, <1>4, Concatenation
    <2> TAKE i \in DOMAIN c
    <2>2. CASE i \in 1 .. Len(w)
      BY <2>1, <2>2, <1>2
    <2>3. CASE i \in Len(w) + 1 .. Len(w) + Len(d)
      <3>1. i - Len(w) \in DOMAIN d /\ c[i] = d[i - Len(w)]
        BY <2>1, <2>3
      <3> QED BY <3>1, <1>3, <1>4
    <2> QED BY <2>1, <2>2, <2>3
  <1>9. Begin(p, c)
    BY <1>1
  <1> QED BY <1>1, <1>7, <1>8, <1>9, NewKeeps

LEMMA TrackKeeps ==
  ASSUME LifeInv, NEW p \in Procs, NEW s \in Streams, NEW b \in Streams \cup {Outside},
         TrackExistingBranch(p, s, b)
  PROVE  LifeInv'
  <1>1. NewId(s) /\ Begin(p, <<With("track", s, b)>>)
    BY DEF TrackExistingBranch
  <1> PICK a : a = With("track", s, b)
    OBVIOUS
  <1> PICK c : c = <<a>>
    OBVIOUS
  <1>2. a \in Stmt /\ a.op = "track" /\ a.stream = s /\ a.arg = b
    <2>1. "track" \in Ops /\ s \in Streams \cup {None} /\ b \in Args
      BY DEF Ops, Creating, Args
    <2> QED BY <2>1, DoIs
  <1>3. c \in Seq(Stmt) /\ DOMAIN c = {1} /\ c[1] = a
    BY <1>2, OneIs
  <1>4. stream[s] = Unused /\ s \notin branch
    BY <1>1, NewIs
  <1>5. Fits(c, 1, stream, branch, setting.deletion)
    BY <1>2, <1>3, <1>4 DEF Fits, Creating, OfRows, Pruning
  <1>6. CallOK(c, stream, branch, setting.deletion)
    BY <1>3, <1>5 DEF CallOK
  <1>7. \A i \in DOMAIN c : c[i].stream = s /\ c[i].op # "insert"
    BY <1>2, <1>3
  <1> QED BY <1>1, <1>3, <1>6, <1>7, NewKeeps

\* The branch of a new stream.
LEMMA CreateBranchKeeps ==
  ASSUME LifeInv, NEW p \in Procs, CreateBranch(p)
  PROVE  LifeInv'
  <1> PICK d : d = call[p]
    OBVIOUS
  <1> PICK s : s = Head(d).stream
    OBVIOUS
  <1> PICK c : c = Tail(d)
    OBVIOUS
  <1>1. /\ MayRun(p) /\ d # <<>> /\ Head(d).op = "branch"
        /\ branch' = branch \cup {s}
        /\ UNCHANGED <<setting, stream, history, held>>
        /\ call' = [call EXCEPT ![p] = c]
    BY AtHead DEF CreateBranch, Does, Continue
  <1>2. s \in Streams /\ stream[s] = Unused /\ stream[s].place = "none" /\ stream[s].tracks = None
    BY <1>1, HeadFits, UnusedIs DEF Ops, Creating
  <1>3. call \in [Procs -> Seq(Stmt)] /\ d \in Seq(Stmt) /\ StoreTypes
    BY DEF LifeInv, Types
  <1>4. /\ Len(d) \in Nat /\ DOMAIN d = 1 .. Len(d) /\ 1 \in DOMAIN d /\ Head(d) = d[1]
        /\ c \in Seq(Stmt) /\ DOMAIN c = 1 .. Len(d) - 1
        /\ \A i \in 1 .. Len(d) - 1 : c[i] = d[i + 1]
    BY <1>1, <1>3, Parts
  <1>5. Creates(d, s)
    BY <1>1, <1>4 DEF Creates, Creating
  <1>6. \A q \in Procs : call'[q] = IF q = p THEN c ELSE call[q]
    BY <1>1, <1>3
  <1>7. \A i \in DOMAIN d : Fits(d, i, stream, branch, setting.deletion)
    BY DEF LifeInv, CallOK
  <1> PICK br : br = branch \cup {s}
    OBVIOUS
  <1>8. CallOK(c, stream, br, setting.deletion) /\ Follows(c, d[1])
    <2>1. \A i \in 2 .. Len(d) : Fits(d, i, stream, br, setting.deletion)
      <3> TAKE i \in 2 .. Len(d)
      <3>1. Fits(d, i, stream, branch, setting.deletion) /\ i # 1
        BY <1>4, <1>7
      <3>2. d[i].op = "drop" => d[i].stream # s
        BY <3>1, <1>2 DEF Fits, Pruning, Gone
      <3> QED BY <3>1, <3>2 DEF Fits
    <2>2. d[1].op = "branch" => d[1].stream \in br
      BY <1>4
    <2>3. d[1].op # "unbranch"
      BY <1>1, <1>4
    <2> QED BY <1>1, <1>3, <2>1, <2>2, <2>3, TailOK
  <1>9. Types'
    BY <1>1, <1>2, <1>3, <1>4 DEF Types, StoreTypes, Rows
  <1>10. \A q \in Procs : CallOK(call'[q], stream', branch', setting.deletion)
    <2> TAKE q \in Procs
    <2>1. CASE q = p
      BY <2>1, <1>1, <1>6, <1>8
    <2>2. CASE q # p
      <3> PICK e : e = call[q]
        OBVIOUS
      <3>1. ASSUME NEW i \in DOMAIN e PROVE Fits(e, i, stream, br, setting.deletion)
        <4> PICK x : x = e[i].stream
          OBVIOUS
        <4>1. Fits(e, i, stream, branch, setting.deletion)
          BY DEF LifeInv, CallOK
        <4>2. e[i].op \in Creating => x # s
          <5>1. e[i].op \in Creating /\ x = s => Creates(e, s)
            BY DEF Creates
          <5> QED BY <5>1, <1>2, <1>5, <2>2 DEF LifeInv, OneCreator
        <4>3. e[i].op \in Pruning => x # s
          BY <4>1, <1>2 DEF Fits, Gone
        <4>4. e[i].op \in OfRows => stream[x].place # "none"
          BY <4>1 DEF Fits
        <4>5. e[i].op \in Pruning => stream[x].place \in Gone
          BY <4>1 DEF Fits
        <4>6. x # s => (x \in br <=> x \in branch)
          OBVIOUS
        <4>9. e[i].op = "insert" => (i = 1 /\ x \in br) \/ (i = 2 /\ e[1].op = "branch" /\ e[1].stream = x)
          BY <4>1, <4>2, <4>6 DEF Fits, Creating
        <4>10. e[i].op = "track" => i = 1 /\ x \notin br
          BY <4>1, <4>2, <4>6 DEF Fits, Creating
        <4>11. e[i].op = "drop" => \/ setting.deletion # "done" \/ x \notin br
                                   \/ i > 1 /\ e[i - 1].op = "unbranch" /\ e[i - 1].stream = x
          BY <4>1, <4>3, <4>6 DEF Fits, Pruning
        <4>12. /\ e[i].op \notin {"prune", "clean"} => x \in Streams
               /\ e[i].op = "insert" => e[i].arg \in Streams \cup {None}
               /\ e[i].op = "track" => e[i].arg \in Streams \cup {Outside}
               /\ e[i].op = "set" => i = 1 /\ e[i].arg \in Statuses
               /\ e[i].op \in Creating => stream[x] = Unused
          BY <4>1 DEF Fits
        <4>13. /\ e[i].op = "branch" => i = 1 /\ 2 \in DOMAIN e /\ e[2].op = "insert" /\ e[2].stream = x
               /\ e[i].op = "read" => i + 1 \in DOMAIN e /\ e[i + 1].op = "archive"
          BY <4>1 DEF Fits
        <4> QED BY <4>4, <4>5, <4>9, <4>10, <4>11, <4>12, <4>13, Zenon DEF Fits
      <3>2. CallOK(e, stream, br, setting.deletion)
        BY <3>1 DEF CallOK
      <3> QED BY <3>2, <2>2, <1>1, <1>6
    <2> QED BY <2>1, <2>2
  <1>11. OneCreator'
    <2>1. \A x \in Streams : Creates(c, x) => x = s
      BY <1>4, <1>8 DEF Creates, Creating, Follows
    <2>2. \A x \in Streams : Creates(c, x) => Creates(call[p], x) \/ \A q \in Procs : ~ Creates(call[q], x)
      BY <2>1, <1>5
    <2>3. OneCreator /\ call \in [Procs -> Seq(Stmt)] /\ call' = [call EXCEPT ![p] = c]
      BY <1>1, <1>3 DEF LifeInv
    <2> QED BY <2>2, <2>3, StillOneCreator
  <1>12. RowHasBranch' /\ LocalHasNone'
    BY <1>1, <1>2 DEF LifeInv, RowHasBranch, LocalHasNone, Rows
  <1>13. OneCall'
    BY <1>1, <1>3, StillOneCall DEF LifeInv
  <1>14. ParentThere'
    <2> SUFFICES ASSUME NEW q \in Procs, NEW i \in DOMAIN call'[q], call'[q][i].op = "insert", ~ setting.interleaved
                 PROVE  call'[q][i].arg \in Rows' \cup {None}
      BY <1>1 DEF ParentThere
    <2>1. Rows' = Rows
      BY <1>1 DEF Rows
    <2>2. CASE q = p
      <3>0. call'[q] = c
        BY <2>2, <1>6
      <3>1. i + 1 \in DOMAIN d /\ call'[q][i] = d[i + 1]
        <4>1. i \in 1 .. Len(d) - 1
          BY <3>0, <1>4
        <4>2. i + 1 \in 1 .. Len(d) /\ c[i] = d[i + 1]
          BY <4>1, <1>4
        <4> QED BY <4>2, <3>0, <1>4
      <3> QED BY <3>1, <2>1, <2>2 DEF LifeInv, ParentThere
    <2>3. CASE q # p
      BY <2>1, <2>3, <1>6 DEF LifeInv, ParentThere
    <2> QED BY <2>2, <2>3
  <1>15. Recorded'
    <2> SUFFICES ASSUME ~ setting.interleaved, ~ setting.crashes, setting.deletion = "done", NEW x \in branch'
                 PROVE  x \in Rows' \cup Archived' \/ \E q \in Procs : Inserting(call'[q], x)
      BY <1>1 DEF Recorded, Inserting
    <2>1. CASE x = s
      <3>1. 2 \in DOMAIN d /\ d[2].op = "insert" /\ d[2].stream = s
        BY <1>1, <1>4, <1>7 DEF Fits
      <3>2. 1 \in DOMAIN c /\ c[1] = d[2]
        BY <3>1, <1>4
      <3>3. c # <<>> /\ Head(c) = c[1]
        <4>1. DOMAIN <<>> = {}
          OBVIOUS
        <4>2. c # <<>>
          BY <3>2, <4>1
        <4> QED BY <4>2, <1>4, Parts
      <3>4. call'[p] = c
        BY <1>6
      <3> QED BY <2>1, <3>1, <3>2, <3>3, <3>4 DEF Inserting
    <2>2. CASE x # s
      <3>1. \A q \in Procs : ~ Inserting(call[q], x)
        BY <1>1 DEF Inserting, MayRun
      <3>2. x \in Rows \cup Archived
        BY <1>1, <2>2, <3>1 DEF LifeInv, Recorded
      <3> QED BY <3>2, <1>1 DEF Rows, Archived
    <2> QED BY <2>1, <2>2
  <1> QED BY <1>1, <1>9, <1>10, <1>11, <1>12, <1>13, <1>14, <1>15 DEF LifeInv

\* The row of a new stream, which has a branch just when it is not in local mode.
LEMMA RowAdded ==
  ASSUME LifeInv, NEW p \in Procs, NEW s, NEW r \in Record, MayRun(p), call[p] # <<>>,
         Head(call[p]).op \in {"insert", "track"}, s = Head(call[p]).stream,
         r.place = "streams", r.parent \in Rows \cup {None}, r.tracks = None <=> s \in branch,
         stream' = [stream EXCEPT ![s] = r], call' = [call EXCEPT ![p] = Tail(call[p])],
         UNCHANGED <<setting, branch, history, held>>
  PROVE  LifeInv'
  <1> PICK d : d = call[p]
    OBVIOUS
  <1> PICK c : c = Tail(d)
    OBVIOUS
  <1>1. d # <<>> /\ call' = [call EXCEPT ![p] = c] /\ Head(d).op \in {"insert", "track"} /\ Head(d).stream = s
    OBVIOUS
  <1>2. s \in Streams /\ stream[s] = Unused /\ stream[s].place = "none"
    BY HeadFits, UnusedIs DEF Ops, Creating
  <1>3. call \in [Procs -> Seq(Stmt)] /\ d \in Seq(Stmt) /\ StoreTypes
    BY DEF LifeInv, Types
  <1>4. /\ Len(d) \in Nat /\ DOMAIN d = 1 .. Len(d) /\ 1 \in DOMAIN d /\ Head(d) = d[1]
        /\ c \in Seq(Stmt)
    BY <1>1, <1>3, Parts
  <1>5. Creates(d, s)
    BY <1>1, <1>4 DEF Creates, Creating
  <1>6. \A q \in Procs : call'[q] = IF q = p THEN c ELSE call[q]
    BY <1>1, <1>3
  <1>7. \A i \in DOMAIN d : Fits(d, i, stream, branch, setting.deletion)
    BY DEF LifeInv, CallOK
  <1> PICK st : st = stream'
    OBVIOUS
  <1>8. st[s] = r /\ \A x \in Streams : x # s => st[x] = stream[x]
    BY <1>2, <1>3 DEF StoreTypes
  <1>9. stream' \in [Streams -> Record]
    BY <1>2, <1>3 DEF StoreTypes
  <1>10. Rows' = Rows \cup {s} /\ Archived' = Archived
    BY <1>2, <1>8 DEF Rows, Archived
  \* statements about other streams, and those that create nothing
  <1>11. ASSUME NEW e, NEW i, Fits(e, i, stream, branch, setting.deletion), e[i].op \in Creating => e[i].stream # s
         PROVE  Fits(e, i, st, branch, setting.deletion)
    <2> PICK x : x = e[i].stream
      OBVIOUS
    <2>1. e[i].op \in Creating \cup OfRows \cup Pruning => x \in Streams
      BY <1>11 DEF Fits, Creating, OfRows, Pruning
    <2>2. e[i].op \in Creating => st[x] = stream[x] /\ (x \in branch <=> x \in branch)
      BY <1>8, <1>11, <2>1
    <2>3. e[i].op \in OfRows => st[x].place # "none"
      <3> HAVE e[i].op \in OfRows
      <3>1. CASE x = s
        BY <3>1, <1>8
      <3>2. CASE x # s
        BY <3>2, <1>8, <1>11, <2>1 DEF Fits
      <3> QED BY <3>1, <3>2
    <2>4. e[i].op \in Pruning => st[x].place \in Gone /\ (x \in branch => x \in branch)
      <3> HAVE e[i].op \in Pruning
      <3>1. stream[x].place \in Gone /\ x \in Streams
        BY <1>11, <2>1 DEF Fits
      <3>2. x # s
        BY <3>1, <1>2 DEF Gone
      <3> QED BY <3>1, <3>2, <1>8
    <2> QED BY <1>11, <2>2, <2>3, <2>4 DEF Fits, Creating, OfRows, Pruning
  <1>12. CallOK(c, st, branch, setting.deletion) /\ Follows(c, d[1])
    <2>1. \A i \in 2 .. Len(d) : Fits(d, i, st, branch, setting.deletion)
      <3> TAKE i \in 2 .. Len(d)
      <3>1. Fits(d, i, stream, branch, setting.deletion) /\ i # 1
        BY <1>4, <1>7
      <3>2. d[i].op \notin Creating
        BY <3>1, <1>1, <1>4 DEF Fits, Creating
      <3> QED BY <3>1, <3>2, <1>11
    <2>2. d[1].op # "branch" /\ d[1].op # "unbranch"
      BY <1>1, <1>4
    <2> QED BY <1>1, <1>3, <2>1, <2>2, TailOK
  <1>13. Types'
    <2>1. history' \cup held' \subseteq Rows'
      BY <1>3, <1>10 DEF StoreTypes
    <2>2. \A x \in Rows' : stream'[x].parent \in Rows' \cup {None}
      <3> TAKE x \in Rows'
      <3>1. CASE x = s
        BY <3>1, <1>8, <1>10
      <3>2. CASE x # s
        <4>1. x \in Rows /\ x \in Streams
          BY <3>2, <1>10 DEF Rows
        <4> QED BY <4>1, <3>2, <1>3, <1>8, <1>10 DEF StoreTypes
      <3> QED BY <3>1, <3>2
    <2> QED BY <2>1, <2>2, <1>1, <1>3, <1>4, <1>9 DEF Types, StoreTypes
  <1>14. \A q \in Procs : CallOK(call'[q], stream', branch', setting.deletion)
    <2> TAKE q \in Procs
    <2>1. CASE q = p
      BY <2>1, <1>6, <1>12
    <2>2. CASE q # p
      <3> PICK e : e = call[q]
        OBVIOUS
      <3>1. ASSUME NEW i \in DOMAIN e PROVE Fits(e, i, st, branch, setting.deletion)
        <4>1. Fits(e, i, stream, branch, setting.deletion)
          BY DEF LifeInv, CallOK
        <4>2. e[i].op \in Creating /\ e[i].stream = s => Creates(e, s)
          BY DEF Creates
        <4>3. ~ Creates(e, s)
          BY <1>2, <1>5, <2>2 DEF LifeInv, OneCreator
        <4> QED BY <4>1, <4>2, <4>3, <1>11
      <3>2. CallOK(e, st, branch, setting.deletion)
        BY <3>1 DEF CallOK
      <3> QED BY <3>2, <2>2, <1>6
    <2> QED BY <2>1, <2>2
  <1>15. \A i \in DOMAIN c : c[i].op \notin Creating
    BY <1>1, <1>4, <1>12 DEF Follows, Creating
  <1>16. OneCreator'
    BY <1>1, <1>3, <1>15, StillOneCreator DEF LifeInv, Creates
  <1>17. RowHasBranch'
    BY <1>8, <1>10 DEF LifeInv, RowHasBranch, Rows
  <1>18. LocalHasNone'
    BY <1>8 DEF LifeInv, LocalHasNone
  <1>19. OneCall'
    BY <1>1, <1>3, StillOneCall DEF LifeInv
  <1>20. ParentThere'
    <2> SUFFICES ASSUME NEW q \in Procs, NEW i \in DOMAIN call'[q], call'[q][i].op = "insert", ~ setting.interleaved
                 PROVE  FALSE
      BY DEF ParentThere
    <2>1. CASE q = p
      BY <2>1, <1>6, <1>15 DEF Creating
    <2>2. CASE q # p
      <3>1. call'[q] = <<>>
        BY <2>2, <1>6 DEF MayRun
      <3> QED BY <3>1
    <2> QED BY <2>1, <2>2
  <1>21. Recorded'
    <2> SUFFICES ASSUME ~ setting.interleaved, ~ setting.crashes, setting.deletion = "done", NEW x \in branch
                 PROVE  x \in Rows' \cup Archived'
      BY DEF Recorded
    <2>1. CASE x = s
      BY <2>1, <1>10
    <2>2. CASE x # s
      <3>1. \A q \in Procs : ~ Inserting(call[q], x)
        BY <1>1, <2>2 DEF Inserting, MayRun
      <3> QED BY <3>1, <1>10 DEF LifeInv, Recorded
    <2> QED BY <2>1, <2>2
  <1> QED BY <1>13, <1>14, <1>16, <1>17, <1>18, <1>19, <1>20, <1>21 DEF LifeInv

\* A call is given up, which leaves nothing behind unless others run or die.
LEMMA GivenUp ==
  ASSUME LifeInv, NEW p \in Procs, Throw(p), UNCHANGED <<setting, stream, branch, history, held>>,
         setting.interleaved \/ setting.crashes
  PROVE  LifeInv'
  <1>1. call \in [Procs -> Seq(Stmt)]
    BY DEF LifeInv, Types
  <1>2. DOMAIN <<>> = {} /\ <<>> \in Seq(Stmt)
    OBVIOUS
  <1>3. call' = [call EXCEPT ![p] = <<>>] /\ \A q \in Procs : call'[q] = IF q = p THEN <<>> ELSE call[q]
    BY <1>1 DEF Throw
  <1>4. StoreTypes'
    BY NothingChanges
  <1>5. Types'
    BY <1>1, <1>2, <1>3, <1>4 DEF Types
  <1>6. \A q \in Procs : CallOK(call'[q], stream', branch', setting.deletion)
    BY <1>2, <1>3 DEF LifeInv, CallOK
  <1>7. OneCreator'
    BY <1>1, <1>2, <1>3, StillOneCreator DEF LifeInv, Creates
  <1>8. RowHasBranch' /\ LocalHasNone'
    BY DEF LifeInv, RowHasBranch, LocalHasNone, Rows
  <1>9. OneCall'
    BY <1>1, <1>3, StillOneCall DEF LifeInv
  <1>10. ParentThere'
    <2>1. Rows' = Rows
      BY DEF Rows
    <2> QED BY <2>1, <1>2, <1>3 DEF LifeInv, ParentThere
  <1>11. Recorded'
    BY DEF Recorded
  <1> QED BY <1>5, <1>6, <1>7, <1>8, <1>9, <1>10, <1>11 DEF LifeInv

\* The rows that are inserted, as the model writes them.
LEMMA RowOf ==
  ASSUME NEW x
  PROVE  /\ [Unused EXCEPT !.place = "streams", !.parent = x]
              = [place |-> "streams", status |-> "active", parent |-> x, tracks |-> None]
         /\ [Unused EXCEPT !.place = "streams", !.tracks = x]
              = [place |-> "streams", status |-> "active", parent |-> None, tracks |-> x]
  <1> PICK u : u = [place |-> "streams", status |-> "active", parent |-> None, tracks |-> None]
    OBVIOUS
  <1>1. [Unused EXCEPT !.place = "streams"] = u
    BY DEF Unused
  <1>2. [u EXCEPT !.parent = x] = [place |-> "streams", status |-> "active", parent |-> x, tracks |-> None]
    OBVIOUS
  <1>3. [u EXCEPT !.tracks = x] = [place |-> "streams", status |-> "active", parent |-> None, tracks |-> x]
    OBVIOUS
  <1>4. [[Unused EXCEPT !.place = "streams"] EXCEPT !.parent = x] = [u EXCEPT !.parent = x]
    BY <1>1, Zenon
  <1>5. [[Unused EXCEPT !.place = "streams"] EXCEPT !.tracks = x] = [u EXCEPT !.tracks = x]
    BY <1>1, Zenon
  <1> QED BY <1>1, <1>2, <1>3, <1>4, <1>5

LEMMA InsertRowKeeps ==
  ASSUME LifeInv, NEW p \in Procs, InsertRow(p)
  PROVE  LifeInv'
  <1> PICK e : e = Head(call[p])
    OBVIOUS
  <1> PICK s : s = e.stream
    OBVIOUS
  <1> PICK x : x = e.arg
    OBVIOUS
  <1>1. UNCHANGED <<setting, branch, history, held>>
    BY DEF InsertRow
  <1>2. CASE /\ Does(p, "insert") /\ x \in Rows \cup {None}
             /\ stream' = [stream EXCEPT ![s] = [Unused EXCEPT !.place = "streams", !.parent = x]]
             /\ Continue(p, <<>>)
    <2>3. [Unused EXCEPT !.place = "streams", !.parent = x]
            = [place |-> "streams", status |-> "active", parent |-> x, tracks |-> None]
      BY RowOf
    <2> PICK r : r = [place |-> "streams", status |-> "active", parent |-> x, tracks |-> None]
      OBVIOUS
    <2>1. MayRun(p) /\ call[p] # <<>> /\ e.op = "insert"
      BY <1>2 DEF Does
    <2>2. s \in branch
      BY <2>1, HeadFits
    <2>4. x \in Streams \cup {None}
      BY <1>2 DEF Rows
    <2>5. r \in Record
      BY <2>4 DEF Record, Statuses
    <2>6. r.place = "streams" /\ r.parent = x /\ r.tracks = None
      OBVIOUS
    <2>8. stream' = [stream EXCEPT ![s] = r]
      BY <1>2, <2>3
    <2>7. call' = [call EXCEPT ![p] = Tail(call[p])]
      BY <1>2, <2>1, AtHead DEF Continue
    <2>9. r.parent \in Rows \cup {None} /\ (r.tracks = None <=> s \in branch)
      BY <1>2, <2>2, <2>6
    <2>10. Head(call[p]).op \in {"insert", "track"} /\ s = Head(call[p]).stream
      BY <2>1
    <2> QED BY <1>1, <2>1, <2>5, <2>6, <2>7, <2>8, <2>9, <2>10, RowAdded
  <1>3. CASE Does(p, "insert") /\ x \notin Rows \cup {None} /\ UNCHANGED stream /\ Throw(p)
    <2>1. MayRun(p) /\ call[p] # <<>> /\ e.op = "insert"
      BY <1>3 DEF Does
    <2>2. call[p][1] = e /\ 1 \in DOMAIN call[p]
      <3>1. call[p] \in Seq(Stmt)
        BY DEF LifeInv, Types
      <3> QED BY <2>1, <3>1, Parts
    <2>3. setting.interleaved
      BY <1>3, <2>1, <2>2 DEF LifeInv, ParentThere
    <2> QED BY <1>1, <1>3, <2>3, GivenUp
  <1>4. CASE /\ Does(p, "track")
             /\ stream' = [stream EXCEPT ![s] = [Unused EXCEPT !.place = "streams", !.tracks = x]]
             /\ Continue(p, <<>>)
    <2>3. [Unused EXCEPT !.place = "streams", !.tracks = x]
            = [place |-> "streams", status |-> "active", parent |-> None, tracks |-> x]
      BY RowOf
    <2> PICK r : r = [place |-> "streams", status |-> "active", parent |-> None, tracks |-> x]
      OBVIOUS
    <2>1. MayRun(p) /\ call[p] # <<>> /\ e.op = "track"
      BY <1>4 DEF Does
    <2>2. s \notin branch /\ x \in Streams \cup {Outside}
      BY <2>1, HeadFits
    <2>4. x # None
      BY <2>2, StreamLifecycleAssumption
    <2>5. r \in Record
      BY <2>2 DEF Record, Statuses
    <2>6. r.place = "streams" /\ r.parent = None /\ r.tracks # None
      BY <2>4
    <2>8. stream' = [stream EXCEPT ![s] = r]
      BY <1>4, <2>3
    <2>7. call' = [call EXCEPT ![p] = Tail(call[p])]
      BY <1>4, <2>1, AtHead DEF Continue
    <2> QED BY <1>1, <2>1, <2>2, <2>5, <2>6, <2>7, <2>8, RowAdded
  <1> QED BY <1>2, <1>3, <1>4 DEF InsertRow

-----------------------------------------------------------------------------
(* Every step *)

LEMMA CallKeeps ==
  ASSUME LifeInv, NEW p \in Procs, Call(p)
  PROVE  LifeInv'
  <1>1. setting.statuses \subseteq Statuses
    BY StreamLifecycleAssumption DEF LifeInv, Types, StoreTypes, Setting
  <1>2. CASE GC(p) \/ Prune(p, Archived)
    BY <1>2, GCKeeps, PruneKeeps
  <1>3. ASSUME NEW s \in Streams, CreateStream(p, s)
        PROVE  LifeInv'
    BY <1>3, CreateKeeps
  <1>4. ASSUME NEW s \in Streams, NEW parent \in Streams, ForkStream(p, s, parent)
        PROVE  LifeInv'
    BY <1>4, ForkKeeps
  <1>5. ASSUME NEW s \in Streams, NEW b \in Streams \cup {Outside}, TrackExistingBranch(p, s, b)
        PROVE  LifeInv'
    BY <1>5, TrackKeeps
  <1>6. ASSUME NEW s \in Rows, NEW cascade \in BOOLEAN, AbandonStream(p, s, cascade)
        PROVE  LifeInv'
    BY <1>6, AbandonKeeps
  <1>7. ASSUME NEW s \in Streams, NEW st \in setting.statuses, UpdateStreamStatus(p, s, st)
        PROVE  LifeInv'
    BY <1>1, <1>7, SetKeeps
  <1>8. ASSUME NEW s \in Streams, NEW from \in setting.statuses, NEW to \in setting.statuses,
               SetStatus(p, s, from, to)
        PROVE  LifeInv'
    BY <1>1, <1>8, SetKeeps
  <1>9. ASSUME NEW s \in Streams, ArchiveDirectly(p, s)
        PROVE  LifeInv'
    BY <1>9, DirectKeeps
  <1> QED BY <1>2, <1>3, <1>4, <1>5, <1>6, <1>7, <1>8, <1>9 DEF Call

LEMMA StepsKeep ==
  ASSUME LifeInv, NEW p \in Procs, Step(p)
  PROVE  LifeInv'
  BY CreateBranchKeeps, InsertRowKeeps, DependKeeps, WriteStatusKeeps, AbandonStatementKeeps, ChildrenKeeps,
     ReadRowKeeps, ArchiveKeeps, DeleteBranchKeeps, DropKeeps, GCPruneKeeps, CleanKeeps DEF Step

LEMMA EnvironmentKeeps ==
  ASSUME LifeInv, Environment
  PROVE  LifeInv'
  <1>1. PICK s \in Streams : Work(s) \/ Hold(s) \/ Release(s) \/ Expire(s)
    BY DEF Environment
  <1>2. CASE Work(s) \/ Hold(s) \/ Release(s)
    <2>1. /\ UNCHANGED <<setting, stream, branch, call>>
          /\ history' \cup held' \subseteq history \cup held \cup Rows
      BY <1>2 DEF Work, Hold, Release
    <2>2. KeepsStore /\ KeepsRecords /\ Rows' = Rows
      BY <2>1 DEF KeepsStore, KeepsRecords, Rows
    <2>3. StoreTypes'
      <3>1. history' \cup held' \subseteq Rows'
        BY <2>1, <2>2 DEF LifeInv, Types, StoreTypes
      <3> QED BY <2>1, <2>2, <3>1 DEF LifeInv, Types, StoreTypes
    <2> QED BY <2>1, <2>2, <2>3, OutsideKeeps
  <1>3. CASE Expire(s)
    <2>1. /\ stream[s].place = "archived" /\ stream' = [stream EXCEPT ![s].place = "expired"]
          /\ UNCHANGED <<setting, branch, history, held, call>>
      BY <1>3 DEF Expire
    <2>2. stream \in [Streams -> Record]
      BY DEF LifeInv, Types, StoreTypes
    <2>3. \A x \in Streams :
            /\ stream'[x] \in Record
            /\ stream'[x].parent = stream[x].parent /\ stream'[x].tracks = stream[x].tracks
            /\ x # s => stream'[x] = stream[x]
      BY <2>1, <2>2 DEF Record, Gone
    <2>4. stream'[s].place = "expired" /\ stream[s] # Unused
      BY <2>1, <2>2, UnusedIs DEF Record
    <2>5. stream' \in [Streams -> Record]
      BY <2>1, <2>2, <2>3
    <2>6. Rows' = Rows
      BY <2>1, <2>3, <2>4 DEF Rows
    <2>7. StoreTypes'
      <3>1. \A x \in Rows' : stream'[x].parent \in Rows' \cup {None}
        BY <2>3, <2>6 DEF LifeInv, Types, StoreTypes, Rows
      <3> QED BY <3>1, <2>1, <2>5, <2>6 DEF LifeInv, Types, StoreTypes
    <2>8. KeepsStore
      BY <2>1, <2>3, <2>4 DEF KeepsStore, Gone
    <2>9. KeepsRecords
      BY <2>3, <2>4 DEF KeepsRecords
    <2> QED BY <2>1, <2>6, <2>7, <2>8, <2>9, OutsideKeeps
  <1> QED BY <1>1, <1>2, <1>3

LEMMA LifeInit == Init => LifeInv
  <1> SUFFICES ASSUME Init PROVE LifeInv
    OBVIOUS
  <1>1. /\ setting \in Settings /\ stream = [s \in Streams |-> Unused]
        /\ branch = {} /\ history = {} /\ held = {} /\ call = [p \in Procs |-> <<>>]
    BY DEF Init
  <1>2. Unused \in Record
    BY DEF Unused, Record, Statuses
  <1>3. Rows = {}
    BY <1>1, UnusedIs DEF Rows
  <1>4. StoreTypes
    BY <1>1, <1>2, <1>3 DEF StoreTypes
  <1>5. DOMAIN <<>> = {} /\ <<>> \in Seq(Stmt)
    OBVIOUS
  <1>6. Types /\ \A p \in Procs : call[p] = <<>>
    BY <1>1, <1>4, <1>5 DEF Types
  <1>7. \A p \in Procs : CallOK(call[p], stream, branch, setting.deletion) /\ \A s \in Streams : ~ Creates(call[p], s)
    BY <1>5, <1>6 DEF CallOK, Creates
  <1> QED BY <1>1, <1>3, <1>5, <1>6, <1>7
          DEF LifeInv, OneCreator, RowHasBranch, LocalHasNone, OneCall, ParentThere, Recorded

LEMMA LifeStep == LifeInv /\ [Next]_vars => LifeInv'
  <1> SUFFICES ASSUME LifeInv, [Next]_vars PROVE LifeInv'
    OBVIOUS
  <1>1. setting.procs \subseteq Procs
    BY StreamLifecycleAssumption DEF LifeInv, Types, StoreTypes, Setting
  <1>2. ASSUME NEW p \in setting.procs, Call(p) PROVE LifeInv'
    BY <1>1, <1>2, CallKeeps
  <1>3. ASSUME NEW p \in setting.procs, Step(p) PROVE LifeInv'
    BY <1>1, <1>3, StepsKeep
  <1>4. ASSUME NEW p \in setting.procs, Crash(p) PROVE LifeInv'
    BY <1>1, <1>4, GivenUp DEF Crash
  <1>5. CASE Environment
    BY <1>5, EnvironmentKeeps
  <1>6. CASE UNCHANGED vars
    <2>1. UNCHANGED <<setting, call>> /\ Rows' = Rows
      BY <1>6 DEF vars, Rows
    <2>2. StoreTypes' /\ KeepsStore /\ KeepsRecords
      BY <1>6, NothingChanges DEF vars
    <2> QED BY <2>1, <2>2, OutsideKeeps
  <1> QED BY <1>2, <1>3, <1>4, <1>5, <1>6 DEF Next

\* A stream that is not in local mode has its branch from the moment its row is there,
\* whoever prunes and whatever dies; where no call is cut short and git deletes the branches
\* it is told to, a branch stream/<id> has a row or is archived; and the foreign keys hold (createStream, gc.ts).
THEOREM RowsAndBranchesCorrespond == Spec => []RecordInv
  <1>1. LifeInv => RecordInv
    <2> SUFFICES ASSUME LifeInv PROVE RecordInv
      OBVIOUS
    <2>1. TypeOK
      <3>1. \A s \in Streams : stream[s] \in Record
        BY DEF LifeInv, Types, StoreTypes
      <3>2. \A s \in Streams :
              /\ stream[s].place \in {"none", "streams", "archived", "expired", "pruned"}
              /\ stream[s].status \in Statuses
              /\ stream[s].parent \in Streams \cup {None}
        BY <3>1 DEF Record, Gone
      <3> QED BY <3>2 DEF LifeInv, Types, StoreTypes, TypeOK
    <2>2. BranchHasRecord
      BY DEF BranchHasRecord, LifeInv, Recorded, Quiet, Inserting
    <2> QED BY <2>1, <2>2 DEF RecordInv, LifeInv
  <1> QED BY <1>1, LifeInit, LifeStep, PTL DEF Spec

-----------------------------------------------------------------------------
(* What is archived had ended *)

\* Of a list without statements that set a status.
AllEnded(c, st) ==
  \A i \in DOMAIN c : c[i].op # "set" /\ (ArchivesEnded(c[i]) => HasEnded(c[i].stream, st))

LEMMA AllEndedFits ==
  ASSUME NEW c \in Seq(Stmt), NEW st, AllEnded(c, st)
  PROVE  EndsFit(c, st)
  <1> SUFFICES ASSUME NEW i \in DOMAIN c, ArchivesEnded(c[i])
               PROVE  c[1].op # "set" /\ HasEnded(c[i].stream, st)
    BY DEF EndsFit
  <1>1. 1 \in DOMAIN c
    OBVIOUS
  <1> QED BY <1>1 DEF AllEnded

LEMMA NoneArchived ==
  ASSUME NEW c \in Seq(Stmt), NEW st, \A i \in DOMAIN c : c[i].op \notin Archiving
  PROVE  EndsFit(c, st)
  BY DEF EndsFit, Archiving, ArchivesEnded

LEMMA NoneArchivedOf ==
  ASSUME NEW c, NEW st, NEW st2, NEW br, NEW kp, NEW O, ListOK(c, st, br, kp, O), O \cap (Archiving \cup {"set"}) = {}
  PROVE  c \in Seq(Stmt) /\ AllEnded(c, st2)
  BY DEF ListOK, AllEnded, Archiving, ArchivesEnded

LEMMA AllEndedJoined ==
  ASSUME NEW L \in Seq(Stmt), NEW M \in Seq(Stmt), NEW st, AllEnded(L, st), AllEnded(M, st)
  PROVE  L \o M \in Seq(Stmt) /\ AllEnded(L \o M, st)
  <1> PICK c : c = L \o M
    OBVIOUS
  <1>1. /\ c \in Seq(Stmt) /\ DOMAIN L = 1 .. Len(L) /\ DOMAIN M = 1 .. Len(M)
        /\ DOMAIN c = 1 .. Len(L) + Len(M)
        /\ \A i \in 1 .. Len(L) : c[i] = L[i]
        /\ \A i \in Len(L) + 1 .. Len(L) + Len(M) : c[i] = M[i - Len(L)]
        /\ Len(L) \in Nat /\ Len(M) \in Nat
    BY Concatenation
  <1>2. ASSUME NEW i \in DOMAIN c
        PROVE  c[i].op # "set" /\ (ArchivesEnded(c[i]) => HasEnded(c[i].stream, st))
    <2>1. CASE i \in 1 .. Len(L)
      BY <1>1, <2>1 DEF AllEnded
    <2>2. CASE i \in Len(L) + 1 .. Len(L) + Len(M)
      <3>1. i - Len(L) \in DOMAIN M /\ c[i] = M[i - Len(L)]
        BY <1>1, <2>2
      <3> QED BY <3>1 DEF AllEnded
    <2> QED BY <1>1, <2>1, <2>2
  <1> QED BY <1>1, <1>2 DEF AllEnded

LEMMA AllEndedTail ==
  ASSUME NEW c \in Seq(Stmt), c # <<>>, NEW st, AllEnded(c, st)
  PROVE  Tail(c) \in Seq(Stmt) /\ AllEnded(Tail(c), st)
  <1> PICK t : t = Tail(c)
    OBVIOUS
  <1>1. /\ Len(c) \in Nat /\ DOMAIN c = 1 .. Len(c) /\ t \in Seq(Stmt) /\ DOMAIN t = 1 .. Len(c) - 1
        /\ \A i \in 1 .. Len(c) - 1 : t[i] = c[i + 1]
    BY Parts
  <1>2. \A i \in DOMAIN t : i + 1 \in DOMAIN c /\ t[i] = c[i + 1]
    BY <1>1
  <1> QED BY <1>1, <1>2 DEF AllEnded

\* A row that had ended still has, if it is a row.
KeepsEnded ==
  \A s \in Streams : stream[s].place # "none" /\ stream'[s].place = "streams" =>
    stream[s].place = "streams" /\ (stream[s].status \in Ended => stream'[s].status \in Ended)

\* Where calls do not overlap the statements of a call concern no other.
LEMMA OnlyMine ==
  ASSUME LifeInv, NEW p \in Procs, NEW c, MayRun(p) \/ call[p] # <<>>,
         call' = [call EXCEPT ![p] = c], UNCHANGED setting,
         ~ setting.interleaved => EndsFit(c, stream')
  PROVE  EndedInv'
  <1> SUFFICES ASSUME ~ setting.interleaved, NEW q \in Procs
               PROVE  EndsFit(call'[q], stream')
    BY DEF EndedInv
  <1>1. call'[q] = IF q = p THEN c ELSE call[q]
    BY DEF LifeInv, Types
  <1>2. CASE q = p
    BY <1>1, <1>2
  <1>3. CASE q # p
    <2>1. call'[q] = <<>>
      BY <1>1, <1>3 DEF MayRun, LifeInv, OneCall
    <2>2. DOMAIN <<>> = {}
      OBVIOUS
    <2> QED BY <2>1, <2>2 DEF EndsFit
  <1> QED BY <1>2, <1>3

LEMMA EndedBegun ==
  ASSUME LifeInv, NEW p \in Procs, NEW c, Begin(p, c), EndsFit(c, stream)
  PROVE  EndedInv'
  <1>1. MayRun(p) /\ call' = [call EXCEPT ![p] = c] /\ UNCHANGED <<setting, stream>>
    BY DEF Begin, Free
  <1>2. EndsFit(c, stream')
    BY <1>1
  <1> QED BY <1>1, <1>2, OnlyMine

\* The rest of a call that does not set a status first.
LEMMA RestEnded ==
  ASSUME LifeInv, EndedInv, ~ setting.interleaved, NEW p \in Procs, call[p] # <<>>,
         Head(call[p]).op # "set", KeepsEnded
  PROVE  Tail(call[p]) \in Seq(Stmt) /\ AllEnded(Tail(call[p]), stream')
  <1> PICK c : c = call[p]
    OBVIOUS
  <1> PICK st : st = stream'
    OBVIOUS
  <1>1. c \in Seq(Stmt) /\ c # <<>>
    BY DEF LifeInv, Types
  <1>2. 1 \in DOMAIN c /\ c[1].op # "set"
    BY <1>1, Parts
  <1>3. ASSUME NEW i \in DOMAIN c
        PROVE  c[i].op # "set" /\ (ArchivesEnded(c[i]) => HasEnded(c[i].stream, st))
    <2>1. Fits(c, i, stream, branch, setting.deletion)
      BY DEF LifeInv, CallOK
    <2>2. c[i].op # "set"
      BY <1>2, <2>1 DEF Fits
    <2>3. ArchivesEnded(c[i]) => c[i].stream \in Streams /\ stream[c[i].stream].place # "none"
      BY <2>1 DEF Fits, ArchivesEnded, OfRows
    <2>4. ArchivesEnded(c[i]) => HasEnded(c[i].stream, stream)
      BY <1>2 DEF EndedInv, EndsFit
    <2> QED BY <2>2, <2>3, <2>4 DEF KeepsEnded, HasEnded
  <1>4. AllEnded(c, st)
    BY <1>3 DEF AllEnded
  <1> QED BY <1>1, <1>4, AllEndedTail

\* A statement after which the call goes on, or is given up.
LEMMA StatementEnded ==
  ASSUME LifeInv, EndedInv, NEW p \in Procs, call[p] # <<>>, NEW c,
         Head(call[p]).op # "set", c = Tail(call[p]) \/ c = <<>>,
         call' = [call EXCEPT ![p] = c], UNCHANGED setting, KeepsEnded
  PROVE  EndedInv'
  <1>1. ASSUME ~ setting.interleaved PROVE EndsFit(c, stream')
    <2>1. CASE c = Tail(call[p])
      <3> PICK t : t = Tail(call[p])
        OBVIOUS
      <3> PICK st : st = stream'
        OBVIOUS
      <3>1. t \in Seq(Stmt) /\ AllEnded(t, st)
        BY <1>1, RestEnded
      <3> QED BY <2>1, <3>1, AllEndedFits
    <2>2. CASE c = <<>>
      <3>1. DOMAIN <<>> = {}
        OBVIOUS
      <3> QED BY <2>2, <3>1 DEF EndsFit
    <2> QED BY <2>1, <2>2
  <1> QED BY <1>1, OnlyMine

LEMMA NothingEnds ==
  ASSUME UNCHANGED stream
  PROVE  KeepsEnded
  BY DEF KeepsEnded

\* The rows that gc archives have ended.
LEMMA ArchiveEachEnded ==
  ASSUME NEW st \in Ended, NEW st2, st2 = stream
  PROVE  AllEnded(ArchiveEach(RowsWith(st)), st2)
  <1> PICK S : S = RowsWith(st)
    OBVIOUS
  <1> PICK todo : todo = ArchiveItems
    OBVIOUS
  <1> PICK L : L = ArchiveEach(S)
    OBVIOUS
  <1>1. S \in SUBSET Streams /\ \A s \in S : stream[s].status \in Ended
    BY DEF RowsWith, Rows
  <1>2. ASSUME NEW s \in Streams
        PROVE  /\ todo[s] \in Seq(Stmt)
               /\ \A k \in DOMAIN todo[s] : todo[s][k].op # "set" /\ todo[s][k].stream = s
    <2> PICK a : a = Do("read", s)
      OBVIOUS
    <2> PICK b : b = Do("archive", s)
      OBVIOUS
    <2>1. a \in Stmt /\ b \in Stmt /\ a.op = "read" /\ b.op = "archive" /\ a.stream = s /\ b.stream = s
      BY DoIs DEF Ops, OfRows
    <2> PICK w : w = <<a, b>>
      OBVIOUS
    <2>2. w \in Seq(Stmt) /\ DOMAIN w = {1, 2} /\ w[1] = a /\ w[2] = b
      BY <2>1, TwoAre
    <2>3. todo[s] = w
      BY DEF ArchiveItems, ArchiveStream
    <2> QED BY <2>1, <2>2, <2>3
  <1>3. todo \in [Streams -> Seq(Stmt)]
    BY <1>2 DEF ArchiveItems
  <1>4. From(L, S, todo)
    BY <1>1, <1>3, EachFrom DEF ArchiveEach, ArchiveItems
  <1>5. ASSUME NEW i \in DOMAIN L
        PROVE  L[i].op # "set" /\ HasEnded(L[i].stream, stream)
    <2>1. PICK s \in S : \E k \in DOMAIN todo[s] : Same(L, i, todo[s], k)
      BY <1>4 DEF From
    <2>2. PICK k \in DOMAIN todo[s] : Same(L, i, todo[s], k)
      BY <2>1
    <2>3. L[i] = todo[s][k] /\ s \in Streams
      BY <2>2, <1>1 DEF Same
    <2> QED BY <2>3, <1>1, <1>2 DEF HasEnded
  <1> QED BY <1>5 DEF AllEnded

LEMMA GCEnds ==
  ASSUME LifeInv, NEW p \in Procs, GC(p)
  PROVE  EndedInv'
  <1> PICK A : A = ArchiveEach(RowsWith("merged"))
    OBVIOUS
  <1> PICK B : B = ArchiveEach(RowsWith("abandoned"))
    OBVIOUS
  <1> PICK d : d = <<Do("prune", None), Do("clean", None)>>
    OBVIOUS
  <1> PICK st : st = stream
    OBVIOUS
  <1>1. AllEnded(A, st) /\ AllEnded(B, st)
    BY ArchiveEachEnded DEF Ended
  <1>2. \A x \in {"merged", "abandoned"} :
          /\ RowsWith(x) \in SUBSET Streams
          /\ \A s \in RowsWith(x) : stream[s].place # "none"
    BY DEF RowsWith, Rows
  <1>3. ListOK(A, stream, branch, setting.deletion, {"read", "archive"}) /\ ListOK(B, stream, branch, setting.deletion, {"read", "archive"})
    BY <1>2, ArchiveEachOK
  <1>4. A \in Seq(Stmt) /\ B \in Seq(Stmt)
    BY <1>3 DEF ListOK
  <1>5. d \in Seq(Stmt) /\ AllEnded(d, st)
    <2> PICK a : a = Do("prune", None)
      OBVIOUS
    <2> PICK b : b = Do("clean", None)
      OBVIOUS
    <2>1. a \in Stmt /\ b \in Stmt /\ a.op = "prune" /\ b.op = "clean"
      BY DoIs DEF Ops
    <2> PICK w : w = <<a, b>>
      OBVIOUS
    <2>2. w \in Seq(Stmt) /\ DOMAIN w = {1, 2} /\ w[1] = a /\ w[2] = b
      BY <2>1, TwoAre
    <2>3. AllEnded(w, st)
      BY <2>1, <2>2 DEF AllEnded, ArchivesEnded
    <2> QED BY <2>2, <2>3
  <1>6. A \o B \in Seq(Stmt) /\ AllEnded(A \o B, st)
    BY <1>1, <1>4, AllEndedJoined
  <1>7. A \o B \o d \in Seq(Stmt) /\ AllEnded(A \o B \o d, st)
    BY <1>5, <1>6, AllEndedJoined
  <1>8. EndsFit(A \o B \o d, st)
    BY <1>7, AllEndedFits
  <1>9. Begin(p, A \o B \o d)
    BY DEF GC
  <1> QED BY <1>8, <1>9, EndedBegun

\* The calls that archive nothing.
LEMMA BegunWithout ==
  ASSUME LifeInv, NEW p \in Procs, NEW c, NEW O, Begin(p, c), ListOK(c, stream, branch, setting.deletion, O),
         O \cap (Archiving \cup {"set"}) = {}
  PROVE  EndedInv'
  <1> PICK st : st = stream
    OBVIOUS
  <1>1. c \in Seq(Stmt) /\ AllEnded(c, st)
    BY NoneArchivedOf
  <1>2. EndsFit(c, st)
    BY <1>1, AllEndedFits
  <1> QED BY <1>2, EndedBegun

LEMMA PruneEnds ==
  ASSUME LifeInv, NEW p \in Procs, Prune(p, Archived)
  PROVE  EndedInv'
  <1>1. Archived \in SUBSET Streams /\ \A s \in Archived : stream[s].place \in Gone
    BY DEF Archived, Gone
  <1>2. ListOK(PruneEach(Archived), stream, branch, setting.deletion, {"unbranch", "drop"})
    BY <1>1, PruneEachOK
  <1>3. Begin(p, PruneEach(Archived))
    BY DEF Prune
  <1>4. {"unbranch", "drop"} \cap (Archiving \cup {"set"}) = {}
    BY DEF Archiving
  <1> QED BY <1>2, <1>3, <1>4, BegunWithout

LEMMA AbandonEnds ==
  ASSUME LifeInv, NEW p \in Procs, NEW s \in Rows, NEW cascade \in BOOLEAN,
         AbandonStream(p, s, cascade)
  PROVE  EndedInv'
  <1>1. PICK w : Begin(p, w) /\ ListOK(w, stream, branch, setting.deletion, {"abandon", "children"})
    BY AbandonBegins
  <1>2. {"abandon", "children"} \cap (Archiving \cup {"set"}) = {}
    BY DEF Archiving
  <1> QED BY <1>1, <1>2, BegunWithout

\* archiveStream asks for no status, and is not among what has to have ended.
LEMMA DirectEnds ==
  ASSUME LifeInv, NEW p \in Procs, NEW s \in Streams, ArchiveDirectly(p, s)
  PROVE  EndedInv'
  <1> PICK a : a = Do("read", s)
    OBVIOUS
  <1> PICK b : b = With("archive", s, s)
    OBVIOUS
  <1> PICK c : c = <<a, b>>
    OBVIOUS
  <1>1. a.op = "read" /\ b.op = "archive" /\ b.arg # None
    BY StreamLifecycleAssumption DEF Do, With
  <1>2. DOMAIN c = {1, 2} /\ c[1] = a /\ c[2] = b
    OBVIOUS
  <1>3. EndsFit(c, stream)
    BY <1>1, <1>2 DEF EndsFit, ArchivesEnded
  <1>4. Begin(p, c)
    BY DEF ArchiveDirectly
  <1> QED BY <1>3, <1>4, EndedBegun

\* The calls that create a stream.
LEMMA NewBegins ==
  ASSUME LifeInv, NEW p \in Procs, NEW s \in Streams,
         \/ CreateStream(p, s)
         \/ \E parent \in Streams : ForkStream(p, s, parent)
         \/ \E b \in Streams \cup {Outside} : TrackExistingBranch(p, s, b)
  PROVE  \E c : Begin(p, c) /\ \A i \in DOMAIN c : c[i].op \in Creating \cup {"depend"}
  <1>1. ASSUME NEW x PROVE /\ Do("branch", s).op = "branch" /\ With("insert", s, x).op = "insert"
                           /\ With("depend", s, x).op = "depend" /\ With("track", s, x).op = "track"
    BY DEF Do, With
  <1>2. CASE CreateStream(p, s)
    <2> PICK a : a = Do("branch", s)
      OBVIOUS
    <2> PICK b : b = With("insert", s, None)
      OBVIOUS
    <2> PICK c : c = <<a, b>>
      OBVIOUS
    <2>1. DOMAIN c = {1, 2} /\ c[1] = a /\ c[2] = b
      OBVIOUS
    <2>2. \A i \in DOMAIN c : c[i].op \in Creating \cup {"depend"}
      BY <1>1, <2>1 DEF Creating
    <2>3. Begin(p, c)
      BY <1>2 DEF CreateStream, BranchThenRow
    <2> QED BY <2>2, <2>3
  <1>3. ASSUME NEW parent \in Streams, ForkStream(p, s, parent)
        PROVE  \E c : Begin(p, c) /\ \A i \in DOMAIN c : c[i].op \in Creating \cup {"depend"}
    <2> PICK a : a = Do("branch", s)
      OBVIOUS
    <2> PICK b : b = With("insert", s, parent)
      OBVIOUS
    <2> PICK d : d = With("depend", s, parent)
      OBVIOUS
    <2> PICK c : c = <<a, b>> \o <<d>>
      OBVIOUS
    <2>1. DOMAIN c = {1, 2, 3} /\ c[1] = a /\ c[2] = b /\ c[3] = d
      OBVIOUS
    <2>2. \A i \in DOMAIN c : c[i].op \in Creating \cup {"depend"}
      BY <1>1, <2>1 DEF Creating
    <2>3. Begin(p, c)
      BY <1>3 DEF ForkStream, BranchThenRow
    <2> QED BY <2>2, <2>3
  <1>4. ASSUME NEW b \in Streams \cup {Outside}, TrackExistingBranch(p, s, b)
        PROVE  \E c : Begin(p, c) /\ \A i \in DOMAIN c : c[i].op \in Creating \cup {"depend"}
    <2> PICK a : a = With("track", s, b)
      OBVIOUS
    <2> PICK c : c = <<a>>
      OBVIOUS
    <2>1. DOMAIN c = {1} /\ c[1] = a
      OBVIOUS
    <2>2. \A i \in DOMAIN c : c[i].op \in Creating \cup {"depend"}
      BY <1>1, <2>1 DEF Creating
    <2>3. Begin(p, c)
      BY <1>4 DEF TrackExistingBranch
    <2> QED BY <2>2, <2>3
  <1> QED BY <1>2, <1>3, <1>4

LEMMA NewEnds ==
  ASSUME LifeInv, NEW p \in Procs, NEW s \in Streams,
         \/ CreateStream(p, s)
         \/ \E parent \in Streams : ForkStream(p, s, parent)
         \/ \E b \in Streams \cup {Outside} : TrackExistingBranch(p, s, b)
  PROVE  EndedInv'
  <1>1. PICK c : Begin(p, c) /\ \A i \in DOMAIN c : c[i].op \in Creating \cup {"depend"}
    BY NewBegins
  <1>2. EndsFit(c, stream)
    BY <1>1 DEF EndsFit, Creating, ArchivesEnded
  <1> QED BY <1>1, <1>2, EndedBegun

\* The calls that set a status; what is archived behind gets one with which it has ended.
LEMMA SetEnds ==
  ASSUME LifeInv, NEW p \in Procs, NEW s \in Streams, NEW x,
         UpdateStreamStatus(p, s, x) \/ \E from \in Statuses : SetStatus(p, s, from, x)
  PROVE  EndedInv'
  <1> PICK st : st = stream
    OBVIOUS
  <1> PICK a : a = With("set", s, x)
    OBVIOUS
  <1> PICK r : r = Do("read", s)
    OBVIOUS
  <1> PICK d : d = Do("archive", s)
    OBVIOUS
  <1>1. a.op = "set" /\ a.stream = s /\ a.arg = x /\ r.op = "read" /\ r.stream = s /\ d.op = "archive" /\ d.stream = s
    BY DEF Do, With
  <1>2. CASE Begin(p, <<a>>)
    <2> PICK c : c = <<a>>
      OBVIOUS
    <2>1. DOMAIN c = {1} /\ c[1] = a
      OBVIOUS
    <2>2. EndsFit(c, st)
      BY <1>1, <2>1 DEF EndsFit, ArchivesEnded
    <2> QED BY <1>2, <2>2, EndedBegun
  <1>3. CASE Begin(p, <<a>> \o <<r, d>>) /\ x \in Ended
    <2> PICK c : c = <<a>> \o <<r, d>>
      OBVIOUS
    <2>1. DOMAIN c = {1, 2, 3} /\ c[1] = a /\ c[2] = r /\ c[3] = d
      OBVIOUS
    <2>2. EndsFit(c, st)
      BY <1>1, <1>3, <2>1 DEF EndsFit, ArchivesEnded
    <2> QED BY <1>3, <2>2, EndedBegun
  <1>4. CASE UpdateStreamStatus(p, s, x)
    <2>1. PICK auto \in BOOLEAN : Begin(p, <<a>> \o IF auto /\ x \in Ended THEN ArchiveStream(s) ELSE <<>>)
      BY <1>4 DEF UpdateStreamStatus
    <2>2. <<a>> \o <<>> = <<a>>
      OBVIOUS
    <2>3. CASE auto /\ x \in Ended
      BY <1>3, <2>1, <2>3 DEF ArchiveStream
    <2>4. CASE ~ (auto /\ x \in Ended)
      BY <1>2, <2>1, <2>2, <2>4
    <2> QED BY <2>3, <2>4
  <1>5. CASE \E from \in Statuses : SetStatus(p, s, from, x)
    BY <1>2, <1>5 DEF SetStatus
  <1> QED BY <1>4, <1>5

LEMMA WriteStatusEnds ==
  ASSUME LifeInv, EndedInv, NEW p \in Procs, WriteStatus(p)
  PROVE  EndedInv'
  <1> PICK c : c = call[p]
    OBVIOUS
  <1> PICK s : s = c[1].stream
    OBVIOUS
  <1> PICK x : x = c[1].arg
    OBVIOUS
  <1> PICK st : st = stream'
    OBVIOUS
  <1>1. c \in Seq(Stmt) /\ c # <<>> /\ Head(c) = c[1] /\ c[1].op = "set"
    <2>1. call[p] \in Seq(Stmt) /\ call[p] # <<>> /\ Head(call[p]).op = "set"
      BY DEF WriteStatus, Does, LifeInv, Types
    <2> QED BY <2>1, Parts
  <1>2. /\ call' = [call EXCEPT ![p] = <<>> \o Tail(@)] /\ UNCHANGED setting
        /\ st = IF s \in Rows THEN [stream EXCEPT ![s].status = x] ELSE stream
    BY <1>1 DEF WriteStatus, Continue
  <1>3. call' = [call EXCEPT ![p] = Tail(c)]
    BY <1>1, <1>2, AtHead
  <1>4. ASSUME ~ setting.interleaved PROVE EndsFit(Tail(c), st)
    <2> PICK t : t = Tail(c)
      OBVIOUS
    <2>1. /\ Len(c) \in Nat /\ DOMAIN c = 1 .. Len(c) /\ t \in Seq(Stmt) /\ DOMAIN t = 1 .. Len(c) - 1
          /\ \A i \in 1 .. Len(c) - 1 : t[i] = c[i + 1]
      BY <1>1, Parts
    <2>2. ASSUME NEW i \in DOMAIN t
          PROVE  t[i].op # "set" /\ (ArchivesEnded(t[i]) => HasEnded(t[i].stream, st))
      <3>1. i + 1 \in DOMAIN c /\ i + 1 # 1 /\ t[i] = c[i + 1]
        BY <2>1
      <3>2. Fits(c, i + 1, stream, branch, setting.deletion)
        BY <3>1 DEF LifeInv, CallOK
      <3>3. t[i].op # "set"
        BY <3>1, <3>2 DEF Fits
      <3>4. ASSUME ArchivesEnded(t[i]) PROVE HasEnded(t[i].stream, st)
        <4>1. t[i].stream = s /\ x \in Ended
          BY <1>1, <1>4, <3>1, <3>4 DEF EndedInv, EndsFit
        <4>2. s \in Streams
          BY <3>1, <3>2, <3>4, <4>1 DEF Fits, ArchivesEnded
        <4>3. stream \in [Streams -> Record]
          BY DEF LifeInv, Types, StoreTypes
        <4>4. CASE s \in Rows
          <5>1. st[s].status = x
            BY <1>2, <4>2, <4>3, <4>4 DEF Record
          <5> QED BY <4>1, <5>1 DEF HasEnded
        <4>5. CASE s \notin Rows
          <5>1. st[s].place # "streams"
            BY <1>2, <4>2, <4>5 DEF Rows
          <5> QED BY <4>1, <5>1 DEF HasEnded
        <4> QED BY <4>4, <4>5
      <3> QED BY <3>3, <3>4
    <2>3. AllEnded(t, st)
      BY <2>2 DEF AllEnded
    <2> QED BY <2>1, <2>3, AllEndedFits
  <1> QED BY <1>1, <1>2, <1>3, <1>4, OnlyMine

LEMMA ExpandEnds ==
  ASSUME LifeInv, EndedInv, NEW p \in Procs, NEW L, NEW O, ListOK(L, stream, branch, setting.deletion, O),
         O \cap (Archiving \cup {"set"}) = {},
         call[p] # <<>>, Head(call[p]).op # "set",
         call' = [call EXCEPT ![p] = L \o Tail(@)], UNCHANGED <<setting, stream>>
  PROVE  EndedInv'
  <1> PICK t : t = Tail(call[p])
    OBVIOUS
  <1> PICK st : st = stream
    OBVIOUS
  <1>1. ASSUME ~ setting.interleaved PROVE EndsFit(L \o t, stream')
    <2>1. t \in Seq(Stmt) /\ AllEnded(t, stream')
      BY <1>1, RestEnded, NothingEnds
    <2>2. AllEnded(t, st)
      BY <2>1
    <2>3. L \in Seq(Stmt) /\ AllEnded(L, st)
      BY NoneArchivedOf
    <2>4. L \o t \in Seq(Stmt) /\ AllEnded(L \o t, st)
      BY <2>1, <2>2, <2>3, AllEndedJoined
    <2>5. EndsFit(L \o t, st)
      BY <2>4, AllEndedFits
    <2> QED BY <2>5
  <1> PICK c : c = L \o t
    OBVIOUS
  <1>2. call' = [call EXCEPT ![p] = c] /\ (~ setting.interleaved => EndsFit(c, stream'))
    BY <1>1
  <1> QED BY <1>2, OnlyMine

LEMMA ChildrenEnds ==
  ASSUME LifeInv, EndedInv, NEW p \in Procs, ListChildren(p) \/ GCPrune(p)
  PROVE  EndedInv'
  <1>1. CASE ListChildren(p)
    <2> PICK e : e = Head(call[p])
      OBVIOUS
    <2>1. /\ call[p] # <<>> /\ e.op = "children"
          /\ call' = [call EXCEPT ![p] = Cascade(e.stream, e.arg) \o Tail(@)]
          /\ UNCHANGED <<setting, stream>>
      BY <1>1 DEF ListChildren, Does, Continue
    <2>2. e.arg \in Args
      BY <2>1, HeadFits DEF Stmt
    <2>3. ListOK(Cascade(e.stream, e.arg), stream, branch, setting.deletion, {"abandon", "children"})
      BY <2>2, CascadeOK
    <2>4. {"abandon", "children"} \cap (Archiving \cup {"set"}) = {}
      BY DEF Archiving
    <2>5. Head(call[p]).op # "set"
      BY <2>1
    <2> QED BY <2>1, <2>3, <2>4, <2>5, ExpandEnds
  <1>2. CASE GCPrune(p)
    <2> PICK S : S = {s \in Archived : stream[s].place = "expired"}
      OBVIOUS
    <2>1. /\ call[p] # <<>> /\ Head(call[p]).op = "prune"
          /\ call' = [call EXCEPT ![p] = PruneEach(S) \o Tail(@)]
          /\ UNCHANGED <<setting, stream>>
      BY <1>2 DEF GCPrune, Does, Continue
    <2>2. S \in SUBSET Streams /\ \A s \in S : stream[s].place \in Gone
      BY DEF Archived, Gone
    <2>3. ListOK(PruneEach(S), stream, branch, setting.deletion, {"unbranch", "drop"})
      BY <2>2, PruneEachOK
    <2>4. {"unbranch", "drop"} \cap (Archiving \cup {"set"}) = {}
      BY DEF Archiving
    <2>5. Head(call[p]).op # "set"
      BY <2>1
    <2> QED BY <2>1, <2>3, <2>4, <2>5, ExpandEnds
  <1> QED BY <1>1, <1>2

\* Where a row has none, the statement that would archive it is not executed.
LEMMA ReadRowEnds ==
  ASSUME LifeInv, EndedInv, NEW p \in Procs, ReadRow(p)
  PROVE  EndedInv'
  <1> PICK t : t = Tail(call[p])
    OBVIOUS
  <1>1. /\ call[p] # <<>> /\ Head(call[p]).op = "read" /\ UNCHANGED <<setting, stream>>
        /\ call' = [call EXCEPT ![p] = IF Head(@).stream \in Rows THEN Tail(@) ELSE Tail(Tail(@))]
    BY DEF ReadRow, Does
  <1>2. call' = [call EXCEPT ![p] = IF Head(call[p]).stream \in Rows THEN t ELSE Tail(t)]
    BY <1>1
  <1>3. KeepsEnded
    BY <1>1, NothingEnds
  <1>4. CASE Head(call[p]).stream \in Rows
    <2>1. call' = [call EXCEPT ![p] = t]
      BY <1>2, <1>4
    <2> QED BY <1>1, <1>3, <2>1, StatementEnded
  <1>5. CASE Head(call[p]).stream \notin Rows
    <2> PICK st : st = stream'
      OBVIOUS
    <2> PICK u : u = Tail(t)
      OBVIOUS
    <2>1. call' = [call EXCEPT ![p] = u]
      BY <1>2, <1>5
    <2>2. ASSUME ~ setting.interleaved PROVE EndsFit(u, st)
      <3>1. t \in Seq(Stmt) /\ AllEnded(t, st)
        BY <1>1, <1>3, <2>2, RestEnded
      <3>2. t # <<>>
        <4>1. Fits(call[p], 1, stream, branch, setting.deletion) /\ call[p][1].op = "read" /\ call[p] \in Seq(Stmt)
          BY <1>1, AtHead DEF LifeInv, Types
        <4>2. 2 \in DOMAIN call[p]
          BY <4>1 DEF Fits
        <4>3. Len(call[p]) \in Nat /\ DOMAIN call[p] = 1 .. Len(call[p]) /\ DOMAIN t = 1 .. Len(call[p]) - 1
          BY <1>1, <4>1, Parts
        <4>4. 1 \in DOMAIN t
          BY <4>2, <4>3
        <4>5. DOMAIN <<>> = {}
          OBVIOUS
        <4> QED BY <4>4, <4>5
      <3>3. u \in Seq(Stmt) /\ AllEnded(u, st)
        BY <3>1, <3>2, AllEndedTail
      <3> QED BY <3>3, AllEndedFits
    <2> QED BY <1>1, <2>1, <2>2, OnlyMine
  <1> QED BY <1>4, <1>5

\* The statements that write no stream.
LEMMA QuietEnds ==
  ASSUME LifeInv, EndedInv, NEW p \in Procs,
         CreateBranch(p) \/ AddForkDependency(p) \/ DeleteBranch(p) \/ GCClean(p)
  PROVE  EndedInv'
  <1>1. /\ call[p] # <<>> /\ Head(call[p]).op \in {"branch", "depend", "unbranch", "clean"}
        /\ call' = [call EXCEPT ![p] = <<>> \o Tail(@)]
        /\ UNCHANGED <<setting, stream>>
    BY DEF CreateBranch, AddForkDependency, DeleteBranch, GCClean, Does, Continue
  <1>2. call' = [call EXCEPT ![p] = Tail(call[p])]
    BY <1>1, AtHead
  <1>3. KeepsEnded /\ Head(call[p]).op # "set"
    BY <1>1, NothingEnds
  <1> QED BY <1>1, <1>2, <1>3, StatementEnded

LEMMA InsertRowEnds ==
  ASSUME LifeInv, EndedInv, NEW p \in Procs, InsertRow(p)
  PROVE  EndedInv'
  <1> PICK s : s = Head(call[p]).stream
    OBVIOUS
  <1>1. /\ call[p] # <<>> /\ Head(call[p]).op \in {"insert", "track"} /\ UNCHANGED setting
        /\ call' = [call EXCEPT ![p] = <<>> \o Tail(@)] \/ call' = [call EXCEPT ![p] = <<>>]
        /\ stream' = stream \/ \E r : stream' = [stream EXCEPT ![s] = r]
    BY DEF InsertRow, Does, Continue, Throw
  <1>2. PICK c : (c = Tail(call[p]) \/ c = <<>>) /\ call' = [call EXCEPT ![p] = c]
    BY <1>1, AtHead
  <1>3. s \in Streams /\ stream[s].place = "none"
    BY <1>1, HeadFits, UnusedIs DEF Ops, Creating
  <1>4. \A x \in Streams : x # s => stream'[x] = stream[x]
    BY <1>1 DEF LifeInv, Types, StoreTypes
  <1>5. KeepsEnded
    BY <1>3, <1>4 DEF KeepsEnded
  <1>6. Head(call[p]).op # "set"
    BY <1>1
  <1> QED BY <1>1, <1>2, <1>5, <1>6, StatementEnded

LEMMA AbandonStatementEnds ==
  ASSUME LifeInv, EndedInv, NEW p \in Procs, Abandon(p)
  PROVE  EndedInv'
  <1> PICK s : s = Head(call[p]).stream
    OBVIOUS
  <1>1. /\ call[p] # <<>> /\ Head(call[p]).op = "abandon" /\ UNCHANGED setting
        /\ call' = [call EXCEPT ![p] = <<>> \o Tail(@)] \/ call' = [call EXCEPT ![p] = <<>>]
        /\ stream' = stream \/ (s \in Rows /\ stream' = [stream EXCEPT ![s].status = "abandoned"])
    BY DEF Abandon, Does, Continue, Throw
  <1>2. PICK c : (c = Tail(call[p]) \/ c = <<>>) /\ call' = [call EXCEPT ![p] = c]
    BY <1>1, AtHead
  <1>3. stream \in [Streams -> Record]
    BY DEF LifeInv, Types, StoreTypes
  <1>4. KeepsEnded
    BY <1>1, <1>3 DEF KeepsEnded, Rows, Record, Ended
  <1>5. Head(call[p]).op # "set"
    BY <1>1
  <1> QED BY <1>1, <1>2, <1>4, <1>5, StatementEnded

LEMMA ArchiveEnds ==
  ASSUME LifeInv, EndedInv, NEW p \in Procs, Archive(p)
  PROVE  EndedInv'
  <1> PICK s : s = Head(call[p]).stream
    OBVIOUS
  <1>1. /\ call[p] # <<>> /\ Head(call[p]).op = "archive" /\ UNCHANGED setting
        /\ call' = [call EXCEPT ![p] = Tail(call[p])]
        /\ stream' = stream \/ stream' = [stream EXCEPT ![s].place = "archived"]
    BY DEF Archive, Does, AfterError
  <1>2. s \in Streams
    BY <1>1, HeadFits DEF Ops, OfRows
  <1>3. stream \in [Streams -> Record]
    BY DEF LifeInv, Types, StoreTypes
  <1>4. \A x \in Streams : \/ stream'[x] = stream[x]
                           \/ x = s /\ stream'[x].place = "archived"
    BY <1>1, <1>2, <1>3 DEF Record
  <1>5. KeepsEnded
    BY <1>4 DEF KeepsEnded
  <1>6. Head(call[p]).op # "set"
    BY <1>1
  <1> QED BY <1>1, <1>5, <1>6, StatementEnded

LEMMA DropEnds ==
  ASSUME LifeInv, EndedInv, NEW p \in Procs, DropRows(p)
  PROVE  EndedInv'
  <1> PICK s : s = Head(call[p]).stream
    OBVIOUS
  <1>1. /\ call[p] # <<>> /\ Head(call[p]).op = "drop" /\ UNCHANGED setting
        /\ call' = [call EXCEPT ![p] = <<>> \o Tail(@)]
        /\ stream' = stream \/ stream' = [stream EXCEPT ![s].place = "pruned"]
    BY DEF DropRows, Does, Continue
  <1>2. call' = [call EXCEPT ![p] = Tail(call[p])]
    BY <1>1, AtHead
  <1>3. s \in Streams /\ stream \in [Streams -> Record]
    BY <1>1, HeadFits DEF Ops, Pruning, LifeInv, Types, StoreTypes
  <1>4. \A x \in Streams : \/ stream'[x] = stream[x]
                           \/ x = s /\ stream'[x].place = "pruned"
    BY <1>1, <1>3 DEF Record
  <1>5. KeepsEnded
    BY <1>4 DEF KeepsEnded
  <1>6. Head(call[p]).op # "set"
    BY <1>1
  <1> QED BY <1>1, <1>2, <1>5, <1>6, StatementEnded

LEMMA OutsideEnds ==
  ASSUME LifeInv, EndedInv, Environment \/ UNCHANGED vars
  PROVE  EndedInv'
  <1>1. UNCHANGED <<setting, call>>
    BY DEF Environment, Work, Hold, Release, Expire, vars
  <1>2. \A x \in Streams : \/ stream'[x] = stream[x]
                           \/ stream[x].place = "archived" /\ stream'[x].place = "expired"
    <2>1. CASE UNCHANGED stream
      BY <2>1
    <2>2. CASE \E s \in Streams : Expire(s)
      <3>1. PICK s \in Streams : stream[s].place = "archived" /\ stream' = [stream EXCEPT ![s].place = "expired"]
        BY <2>2 DEF Expire
      <3>2. stream \in [Streams -> Record]
        BY DEF LifeInv, Types, StoreTypes
      <3> QED BY <3>1, <3>2 DEF Record
    <2> QED BY <2>1, <2>2 DEF Environment, Work, Hold, Release, vars
  <1>3. ASSUME ~ setting.interleaved, NEW q \in Procs PROVE EndsFit(call'[q], stream')
    <2> PICK c : c = call[q]
      OBVIOUS
    <2> PICK st : st = stream'
      OBVIOUS
    <2>1. EndsFit(c, stream)
      BY <1>3 DEF EndedInv
    <2>2. \A i \in DOMAIN c : ArchivesEnded(c[i]) => c[i].stream \in Streams
      BY DEF LifeInv, CallOK, Fits, ArchivesEnded
    <2>3. \A x \in Streams : HasEnded(x, stream) => HasEnded(x, st)
      BY <1>2 DEF HasEnded
    <2>4. EndsFit(c, st)
      BY <2>1, <2>2, <2>3 DEF EndsFit
    <2>5. call'[q] = c
      BY <1>1
    <2> QED BY <2>4, <2>5
  <1> QED BY <1>1, <1>3 DEF EndedInv

LEMMA CallEnds ==
  ASSUME LifeInv, NEW p \in Procs, Call(p)
  PROVE  EndedInv'
  <1>1. setting.statuses \subseteq Statuses
    BY StreamLifecycleAssumption DEF LifeInv, Types, StoreTypes, Setting
  <1>2. ASSUME GC(p) PROVE EndedInv'
    BY <1>2, GCEnds
  <1>3. ASSUME Prune(p, Archived) PROVE EndedInv'
    BY <1>3, PruneEnds
  <1>4. ASSUME NEW s \in Streams,
               \/ CreateStream(p, s)
               \/ \E parent \in Streams : ForkStream(p, s, parent)
               \/ \E b \in Streams \cup {Outside} : TrackExistingBranch(p, s, b)
        PROVE  EndedInv'
    BY <1>4, NewEnds
  <1>5. ASSUME NEW s \in Rows, NEW cascade \in BOOLEAN, AbandonStream(p, s, cascade)
        PROVE  EndedInv'
    BY <1>5, AbandonEnds
  <1>6. ASSUME NEW s \in Streams, NEW st \in setting.statuses, UpdateStreamStatus(p, s, st)
        PROVE  EndedInv'
    BY <1>6, SetEnds
  <1>7. ASSUME NEW s \in Streams, NEW from \in setting.statuses, NEW to \in setting.statuses,
               SetStatus(p, s, from, to)
        PROVE  EndedInv'
    <2>1. from \in Statuses
      BY <1>1
    <2> QED BY <1>7, <2>1, SetEnds
  <1>8. ASSUME NEW s \in Streams, ArchiveDirectly(p, s) PROVE EndedInv'
    BY <1>8, DirectEnds
  <1> QED BY <1>2, <1>3, <1>4, <1>5, <1>6, <1>7, <1>8 DEF Call

LEMMA StepsEnd ==
  ASSUME LifeInv, EndedInv, NEW p \in Procs, Step(p)
  PROVE  EndedInv'
  BY QuietEnds, ChildrenEnds, ReadRowEnds, InsertRowEnds, WriteStatusEnds, AbandonStatementEnds,
     ArchiveEnds, DropEnds DEF Step

LEMMA CrashEnds ==
  ASSUME LifeInv, NEW p \in Procs, Crash(p)
  PROVE  EndedInv'
  <1>1. /\ call[p] # <<>> /\ call' = [call EXCEPT ![p] = <<>>]
        /\ UNCHANGED <<setting, stream>>
    BY DEF Crash, Throw
  <1>2. DOMAIN <<>> = {}
    OBVIOUS
  <1>3. EndsFit(<<>>, stream')
    BY <1>2 DEF EndsFit
  <1> QED BY <1>1, <1>3, OnlyMine

LEMMA EndedInit == Init => EndedInv
  <1>1. DOMAIN <<>> = {}
    OBVIOUS
  <1> QED BY <1>1 DEF Init, EndedInv, EndsFit

LEMMA EndedStep == LifeInv /\ EndedInv /\ [Next]_vars => EndedInv'
  <1> SUFFICES ASSUME LifeInv, EndedInv, [Next]_vars
               PROVE  EndedInv'
    OBVIOUS
  <1>1. setting.procs \subseteq Procs
    BY StreamLifecycleAssumption DEF LifeInv, Types, StoreTypes, Setting
  <1>2. ASSUME NEW p \in setting.procs, Call(p) PROVE EndedInv'
    BY <1>1, <1>2, CallEnds
  <1>3. ASSUME NEW p \in setting.procs, Step(p) PROVE EndedInv'
    BY <1>1, <1>3, StepsEnd
  <1>4. ASSUME NEW p \in setting.procs, Crash(p) PROVE EndedInv'
    BY <1>1, <1>4, CrashEnds
  <1> QED BY <1>2, <1>3, <1>4, OutsideEnds DEF Next

\* Where calls do not overlap, whatever dies: what gc and updateStreamStatus archive was
\* merged or abandoned, by the call itself or before it began.
THEOREM OnlyTheEndedAreArchived == Spec => ArchivedWasEnded
  <1> DEFINE HasEndedNow ==
        ~ setting.interleaved =>
          \A p \in Procs, s \in Rows :
            call[p] # <<>> /\ Head(call[p]) = Do("archive", s) => stream[s].status \in Ended
  <1>1. LifeInv /\ EndedInv => HasEndedNow
    <2> SUFFICES ASSUME LifeInv, EndedInv, ~ setting.interleaved, NEW p \in Procs, NEW s \in Rows,
                        call[p] # <<>>, Head(call[p]) = Do("archive", s)
                 PROVE  stream[s].status \in Ended
      OBVIOUS
    <2>1. s \in Streams /\ stream[s].place = "streams"
      BY DEF Rows
    <2>2. 1 \in DOMAIN call[p] /\ call[p][1] = Do("archive", s)
      <3>1. call[p] \in Seq(Stmt)
        BY DEF LifeInv, Types
      <3> QED BY <3>1, Parts
    <2>3. ArchivesEnded(call[p][1]) /\ call[p][1].op # "set" /\ call[p][1].stream = s
      BY <2>2 DEF ArchivesEnded, Do
    <2>4. HasEnded(s, stream)
      BY <2>2, <2>3 DEF EndedInv, EndsFit
    <2> QED BY <2>1, <2>4 DEF HasEnded
  <1>2. HasEndedNow => [~ setting.interleaved =>
          \A p \in Procs, s \in Rows :
            call[p] # <<>> /\ Head(call[p]) = Do("archive", s) /\ stream'[s].place = "archived"
            => stream[s].status \in Ended]_vars
    OBVIOUS
  <1> HIDE DEF HasEndedNow
  <1> QED BY <1>1, <1>2, LifeInit, LifeStep, EndedInit, EndedStep, PTL DEF Spec, ArchivedWasEnded

-----------------------------------------------------------------------------
(* A cascade reaches all descendants *)

(* Descendants *)

\* The children of a descendant, and of the stream itself, are descendants of it.
LEMMA Closed ==
  ASSUME NEW root, NEW x \in Descendants(root) \cup {root}
  PROVE  Children(x) \subseteq Descendants(root)
  <1> SUFFICES ASSUME NEW c \in Children(x), NEW S \in SUBSET Rows,
                      \A y \in S \cup {root} : Children(y) \subseteq S
               PROVE  c \in S
    BY DEF Descendants, Children
  <1>1. x \in S \cup {root}
    BY DEF Descendants
  <1> QED BY <1>1

\* A descendant is a child, or a descendant of one.
LEMMA Generations ==
  ASSUME NEW s, NEW t \in Descendants(s)
  PROVE  t \in Children(s) \/ \E c \in Children(s) : t \in Descendants(c)
  <1> PICK T : T = Children(s) \cup {x \in Rows : \E c \in Children(s) : x \in Descendants(c)}
    OBVIOUS
  <1>1. T \in SUBSET Rows
    BY DEF Children
  <1>2. ASSUME NEW x \in T \cup {s}, NEW y \in Children(x) PROVE y \in T
    <2>1. CASE x = s
      BY <1>2, <2>1
    <2>2. CASE x \in Children(s)
      <3>1. y \in Descendants(x)
        BY <1>2, Closed
      <3> QED BY <2>2, <3>1 DEF Descendants
    <2>3. ASSUME NEW c \in Children(s), x \in Descendants(c) PROVE y \in T
      <3>1. y \in Descendants(c)
        BY <1>2, <2>3, Closed
      <3> QED BY <3>1 DEF Descendants
    <2> QED BY <2>1, <2>2, <2>3
  <1>3. t \in T
    BY <1>1, <1>2 DEF Descendants
  <1> QED BY <1>3

Family(root) == {root} \cup Descendants(root)

LEMMA SameTree ==
  ASSUME \A s \in Streams : stream'[s].place = stream[s].place /\ stream'[s].parent = stream[s].parent
  PROVE  Rows' = Rows /\ \A x : Descendants(x)' = Descendants(x)
  <1>1. Rows' = Rows
    BY DEF Rows
  <1>2. \A x : Children(x)' = Children(x)
    BY <1>1 DEF Children, Rows
  <1>3. ASSUME NEW x PROVE Descendants(x)' = Descendants(x)
    BY <1>1, <1>2 DEF Descendants
  <1> QED BY <1>1, <1>3

(* Each statement of todo is in the list. *)

Has(L, S, m, todo) ==
  \A s \in S : s <= m => \A k \in DOMAIN todo[s] : \E i \in DOMAIN L : L[i] = todo[s][k]

LEMMA HasMore ==
  ASSUME NEW S \in SUBSET Nat, NEW todo, NEW L \in Seq(Stmt), NEW l \in Nat, Has(L, S, l, todo),
         NEW w \in Seq(Stmt), l + 1 \in S => w = todo[l + 1]
  PROVE  L \o w \in Seq(Stmt) /\ Has(L \o w, S, l + 1, todo)
  <1> PICK M : M = L \o w
    OBVIOUS
  <1>1. /\ M \in Seq(Stmt) /\ DOMAIN L = 1 .. Len(L) /\ DOMAIN w = 1 .. Len(w)
        /\ DOMAIN M = 1 .. Len(L) + Len(w)
        /\ \A i \in 1 .. Len(L) : M[i] = L[i]
        /\ \A i \in Len(L) + 1 .. Len(L) + Len(w) : M[i] = w[i - Len(L)]
        /\ Len(L) \in Nat /\ Len(w) \in Nat
    BY Concatenation
  <1>2. ASSUME NEW s \in S, s <= l + 1, NEW k \in DOMAIN todo[s]
        PROVE  \E i \in DOMAIN M : M[i] = todo[s][k]
    <2>1. CASE s <= l
      <3>1. PICK i \in DOMAIN L : L[i] = todo[s][k]
        BY <2>1 DEF Has
      <3>2. i \in DOMAIN M /\ M[i] = L[i]
        BY <1>1
      <3> QED BY <3>1, <3>2
    <2>2. CASE ~ (s <= l)
      <3>1. s = l + 1
        BY <1>2, <2>2
      <3>2. w = todo[s] /\ k \in DOMAIN w
        BY <3>1
      <3>3. k \in 1 .. Len(w)
        BY <1>1, <3>2
      <3> PICK i : i = Len(L) + k
        OBVIOUS
      <3>4. i \in Len(L) + 1 .. Len(L) + Len(w) /\ i \in 1 .. Len(L) + Len(w) /\ i - Len(L) = k
        BY <1>1, <3>3
      <3>5. M[i] = w[k]
        BY <1>1, <3>4
      <3> QED BY <1>1, <3>2, <3>4, <3>5
    <2> QED BY <2>1, <2>2
  <1> QED BY <1>1, <1>2 DEF Has

LEMMA EachHas ==
  ASSUME NEW S \in SUBSET Streams, NEW todo \in [Streams -> Seq(Stmt)],
         NEW s \in S, NEW k \in DOMAIN todo[s]
  PROVE  \E i \in DOMAIN Each(S, todo) : Each(S, todo)[i] = todo[s][k]
  <1>1. PICK f : Listed(f, S, todo, MaxStreams) /\ Each(S, todo) = f[MaxStreams]
    BY EachIs
  <1>2. MaxStreams \in Nat
    BY StreamLifecycleAssumption
  <1>3. \A m \in 0 .. MaxStreams : f[m] = IF m = 0 THEN <<>> ELSE f[m - 1] \o Item(S, todo, m)
    BY <1>1 DEF Listed
  <1>4. S \in SUBSET Nat /\ \A x \in S : x >= 1 /\ x <= MaxStreams
    BY <1>2 DEF Streams
  <1> DEFINE G == {m \in Nat : m <= MaxStreams => f[m] \in Seq(Stmt) /\ Has(f[m], S, m, todo)}
  <1>5. 0 \in G
    <2>1. f[0] = <<>> /\ <<>> \in Seq(Stmt)
      BY <1>2, <1>3
    <2>2. Has(f[0], S, 0, todo)
      BY <1>4 DEF Has
    <2> QED BY <2>1, <2>2
  <1>6. ASSUME NEW l \in Nat, l \in G PROVE l + 1 \in G
    <2> SUFFICES ASSUME l + 1 <= MaxStreams
                 PROVE  f[l + 1] \in Seq(Stmt) /\ Has(f[l + 1], S, l + 1, todo)
      OBVIOUS
    <2>1. l + 1 \in 0 .. MaxStreams /\ l + 1 # 0 /\ (l + 1) - 1 = l /\ l <= MaxStreams
      BY <1>2
    <2>2. f[l] \in Seq(Stmt) /\ Has(f[l], S, l, todo)
      BY <1>6, <2>1
    <2>3. PICK w : w = Item(S, todo, l + 1)
      OBVIOUS
    <2>4. f[l + 1] = f[l] \o w
      BY <1>3, <2>1, <2>3
    <2>5. w \in Seq(Stmt) /\ (l + 1 \in S => w = todo[l + 1])
      BY <2>3 DEF Item
    <2> PICK L : L = f[l]
      OBVIOUS
    <2>6. L \in Seq(Stmt) /\ Has(L, S, l, todo)
      BY <2>2
    <2>7. L \o w \in Seq(Stmt) /\ Has(L \o w, S, l + 1, todo)
      BY <1>4, <2>5, <2>6, HasMore
    <2> QED BY <2>4, <2>7
  <1> HIDE DEF G
  <1>7. G = Nat
    <2>1. G \in SUBSET Nat
      BY DEF G
    <2> QED BY <2>1, <1>5, <1>6, LeastFailure
  <1>8. Has(f[MaxStreams], S, MaxStreams, todo)
    BY <1>2, <1>7 DEF G
  <1> QED BY <1>1, <1>4, <1>8 DEF Has

(* What the statements of a cascade still have to do *)

Cascading == {"abandon", "children"}
Covered(c, t) == \E i \in DOMAIN c :
  \/ c[i].op = "abandon" /\ c[i].stream = t
  \/ c[i].op = "children" /\ t \in Descendants(c[i].stream)

\* A call is no cascade, or nothing else; whoever is not abandoned by the cascade is going to be.
Plain(c) == \A i \in DOMAIN c : c[i].op \notin Cascading
IsCascade(c, root) ==
  \A i \in DOMAIN c : c[i].op \in Cascading /\ c[i].arg = root /\ c[i].stream \in Rows
Reaches(c, root) == \A t \in Family(root) : stream[t].status = "abandoned" \/ Covered(c, t)
CascadeFits(c) ==
  Plain(c) \/ \E root \in Streams \cup {None} : IsCascade(c, root) /\ (root # None => Reaches(c, root))
CascadeInv == ~ setting.interleaved => \A p \in Procs : CascadeFits(call[p])

FamilyAbandoned ==
  ~ setting.interleaved /\ ~ setting.crashes => \A p \in Procs :
     /\ call[p] # <<>> /\ call'[p] = <<>>
     /\ Head(call[p]).op \in Cascading /\ Head(call[p]).arg # None
     => \A s \in Family(Head(call[p]).arg) : stream'[s].status = "abandoned"

LEMMA EmptyIsPlain == Plain(<<>>)
  <1>1. DOMAIN <<>> = {}
    OBVIOUS
  <1> QED BY <1>1 DEF Plain

\* Where calls do not overlap the other calls are over.
LEMMA MyCascade ==
  ASSUME LifeInv, NEW p \in Procs, NEW c, MayRun(p) \/ call[p] # <<>>,
         call' = [call EXCEPT ![p] = c], UNCHANGED setting,
         ~ setting.interleaved => CascadeFits(c)'
  PROVE  CascadeInv'
  <1> SUFFICES ASSUME ~ setting.interleaved, NEW q \in Procs
               PROVE  CascadeFits(call[q])'
    BY DEF CascadeInv
  <1>1. call'[q] = IF q = p THEN c ELSE call[q]
    BY DEF LifeInv, Types
  <1>2. CASE q = p
    BY <1>1, <1>2
  <1>3. CASE q # p
    <2>1. call'[q] = <<>>
      BY <1>1, <1>3 DEF MayRun, LifeInv, OneCall
    <2>2. Plain(call'[q])
      BY <2>1, EmptyIsPlain
    <2> QED BY <2>2 DEF CascadeFits, Plain
  <1> QED BY <1>2, <1>3

\* A step that leaves a call without cascade, and was none of one.
LEMMA NoCascade ==
  ASSUME LifeInv, NEW p \in Procs, NEW c, MayRun(p) \/ call[p] # <<>>,
         call' = [call EXCEPT ![p] = c], UNCHANGED setting,
         call[p] = <<>> \/ Head(call[p]).op \notin Cascading,
         ~ setting.interleaved => Plain(c)
  PROVE  CascadeInv' /\ FamilyAbandoned
  <1>1. ~ setting.interleaved => CascadeFits(c)'
    BY DEF CascadeFits, Plain
  <1>2. CascadeInv'
    BY <1>1, MyCascade
  <1>3. \A q \in Procs : q # p => call'[q] = call[q]
    BY DEF LifeInv, Types
  <1>4. FamilyAbandoned
    BY <1>3 DEF FamilyAbandoned
  <1> QED BY <1>2, <1>4

LEMMA PlainTail ==
  ASSUME NEW c \in Seq(Stmt), c # <<>>, Plain(c)
  PROVE  Tail(c) \in Seq(Stmt) /\ Plain(Tail(c))
  <1> PICK t : t = Tail(c)
    OBVIOUS
  <1>1. /\ Len(c) \in Nat /\ DOMAIN c = 1 .. Len(c) /\ t \in Seq(Stmt) /\ DOMAIN t = 1 .. Len(c) - 1
        /\ \A i \in 1 .. Len(c) - 1 : t[i] = c[i + 1]
    BY Parts
  <1>2. \A i \in DOMAIN t : i + 1 \in DOMAIN c /\ t[i] = c[i + 1]
    BY <1>1
  <1> QED BY <1>1, <1>2 DEF Plain

LEMMA PlainJoined ==
  ASSUME NEW L \in Seq(Stmt), NEW M \in Seq(Stmt), Plain(L), Plain(M)
  PROVE  Plain(L \o M)
  <1> PICK c : c = L \o M
    OBVIOUS
  <1>1. /\ c \in Seq(Stmt) /\ DOMAIN L = 1 .. Len(L) /\ DOMAIN M = 1 .. Len(M)
        /\ DOMAIN c = 1 .. Len(L) + Len(M)
        /\ \A i \in 1 .. Len(L) : c[i] = L[i]
        /\ \A i \in Len(L) + 1 .. Len(L) + Len(M) : c[i] = M[i - Len(L)]
        /\ Len(L) \in Nat /\ Len(M) \in Nat
    BY Concatenation
  <1>2. ASSUME NEW i \in DOMAIN c PROVE c[i].op \notin Cascading
    <2>1. CASE i \in 1 .. Len(L)
      BY <1>1, <2>1 DEF Plain
    <2>2. CASE i \in Len(L) + 1 .. Len(L) + Len(M)
      <3>1. i - Len(L) \in DOMAIN M /\ c[i] = M[i - Len(L)]
        BY <1>1, <2>2
      <3> QED BY <3>1 DEF Plain
    <2> QED BY <1>1, <2>1, <2>2
  <1> QED BY <1>2 DEF Plain

LEMMA PlainList ==
  ASSUME NEW w, NEW st, NEW br, NEW kp, NEW O, ListOK(w, st, br, kp, O), O \cap Cascading = {}
  PROVE  w \in Seq(Stmt) /\ Plain(w)
  BY DEF ListOK, Plain

\* A call whose first statement is not of a cascade has none that is.
LEMMA PlainCall ==
  ASSUME LifeInv, CascadeInv, ~ setting.interleaved, NEW p \in Procs, call[p] # <<>>,
         Head(call[p]).op \notin Cascading
  PROVE  Plain(call[p]) /\ Tail(call[p]) \in Seq(Stmt) /\ Plain(Tail(call[p]))
  <1> PICK c : c = call[p]
    OBVIOUS
  <1>1. c \in Seq(Stmt) /\ c # <<>>
    BY DEF LifeInv, Types
  <1>2. 1 \in DOMAIN c /\ c[1].op \notin Cascading
    BY <1>1, Parts
  <1>3. CascadeFits(c)
    BY DEF CascadeInv
  <1>4. Plain(c)
    BY <1>2, <1>3 DEF CascadeFits, IsCascade
  <1> QED BY <1>1, <1>4, PlainTail

\* A statement after which the call goes on, or is given up.
LEMMA PlainStatement ==
  ASSUME LifeInv, CascadeInv, NEW p \in Procs, call[p] # <<>>, NEW c,
         Head(call[p]).op \notin Cascading, c = Tail(call[p]) \/ c = <<>>,
         call' = [call EXCEPT ![p] = c], UNCHANGED setting
  PROVE  CascadeInv' /\ FamilyAbandoned
  <1>1. ~ setting.interleaved => Plain(c)
    BY PlainCall, EmptyIsPlain
  <1> QED BY <1>1, NoCascade

(* Calls *)

LEMMA PlainBegins ==
  ASSUME LifeInv, NEW p \in Procs, NEW c, Begin(p, c), Plain(c)
  PROVE  CascadeInv' /\ FamilyAbandoned
  <1>1. MayRun(p) /\ call[p] = <<>> /\ call' = [call EXCEPT ![p] = c] /\ UNCHANGED setting
    BY DEF Begin, Free
  <1> QED BY <1>1, NoCascade

\* A cascade begins with the stream itself, and all its descendants are below it.
LEMMA CascadeBegins ==
  ASSUME LifeInv, NEW p \in Procs, NEW s \in Rows, AbandonStream(p, s, TRUE)
  PROVE  CascadeInv' /\ FamilyAbandoned
  <1> PICK a : a = With("abandon", s, s)
    OBVIOUS
  <1> PICK b : b = With("children", s, s)
    OBVIOUS
  <1> PICK c : c = <<a, b>>
    OBVIOUS
  <1>1. s \in Streams /\ MayRun(p) /\ call[p] = <<>> /\ call' = [call EXCEPT ![p] = c]
        /\ UNCHANGED <<setting, stream>>
    BY DEF AbandonStream, Begin, Free, Rows
  <1>2. /\ a.op = "abandon" /\ a.stream = s /\ a.arg = s
        /\ b.op = "children" /\ b.stream = s /\ b.arg = s
    BY DEF With
  <1>3. DOMAIN c = {1, 2} /\ c[1] = a /\ c[2] = b
    OBVIOUS
  <1>4. Rows' = Rows /\ \A x : Descendants(x)' = Descendants(x)
    BY <1>1, SameTree
  <1>5. IsCascade(c, s)'
    BY <1>2, <1>3, <1>4 DEF IsCascade, Cascading
  <1>6. Reaches(c, s)'
    <2> SUFFICES ASSUME NEW t \in {s} \cup Descendants(s)
                 PROVE  Covered(c, t)'
      BY <1>4 DEF Reaches, Family
    <2>1. CASE t = s
      BY <1>2, <1>3, <2>1 DEF Covered
    <2>2. CASE t \in Descendants(s)
      BY <1>2, <1>3, <1>4, <2>2 DEF Covered
    <2> QED BY <2>1, <2>2
  <1>7. CascadeFits(c)'
    BY <1>1, <1>5, <1>6 DEF CascadeFits
  <1>8. CascadeInv'
    BY <1>1, <1>7, MyCascade
  <1>9. FamilyAbandoned
    <2>1. \A q \in Procs : q # p => call'[q] = call[q]
      BY <1>1 DEF LifeInv, Types
    <2> QED BY <1>1, <2>1 DEF FamilyAbandoned
  <1> QED BY <1>8, <1>9

\* Without children only the stream itself is abandoned.
LEMMA AloneBegins ==
  ASSUME LifeInv, NEW p \in Procs, NEW s \in Rows, AbandonStream(p, s, FALSE)
  PROVE  CascadeInv' /\ FamilyAbandoned
  <1> PICK a : a = Do("abandon", s)
    OBVIOUS
  <1> PICK c : c = <<a>>
    OBVIOUS
  <1>1. MayRun(p) /\ call[p] = <<>> /\ call' = [call EXCEPT ![p] = c] /\ UNCHANGED <<setting, stream>>
    BY DEF AbandonStream, Begin, Free
  <1>2. a.op = "abandon" /\ a.stream = s /\ a.arg = None
    BY DEF Do
  <1>3. DOMAIN c = {1} /\ c[1] = a
    OBVIOUS
  <1>4. Rows' = Rows
    BY <1>1, SameTree
  <1>5. IsCascade(c, None)'
    BY <1>2, <1>3, <1>4 DEF IsCascade, Cascading
  <1>6. CascadeFits(c)'
    BY <1>5 DEF CascadeFits
  <1>7. CascadeInv'
    BY <1>1, <1>6, MyCascade
  <1>8. FamilyAbandoned
    <2>1. \A q \in Procs : q # p => call'[q] = call[q]
      BY <1>1 DEF LifeInv, Types
    <2> QED BY <1>1, <2>1 DEF FamilyAbandoned
  <1> QED BY <1>7, <1>8

LEMMA CallCascades ==
  ASSUME LifeInv, NEW p \in Procs, Call(p)
  PROVE  CascadeInv' /\ FamilyAbandoned
  <1>1. setting.statuses \subseteq Statuses
    BY StreamLifecycleAssumption DEF LifeInv, Types, StoreTypes, Setting
  <1>2. ASSUME GC(p) PROVE CascadeInv' /\ FamilyAbandoned
    <2>1. PICK w : Begin(p, w) /\ ListOK(w, stream, branch, setting.deletion, GCOps)
      BY <1>2, GCBegins
    <2>2. GCOps \cap Cascading = {}
      BY DEF GCOps, Cascading
    <2> QED BY <2>1, <2>2, PlainList, PlainBegins
  <1>3. ASSUME Prune(p, Archived) PROVE CascadeInv' /\ FamilyAbandoned
    <2>1. Archived \in SUBSET Streams /\ \A s \in Archived : stream[s].place \in Gone
      BY DEF Archived, Gone
    <2>2. ListOK(PruneEach(Archived), stream, branch, setting.deletion, {"unbranch", "drop"})
      BY <2>1, PruneEachOK
    <2>3. Begin(p, PruneEach(Archived))
      BY <1>3 DEF Prune
    <2>4. {"unbranch", "drop"} \cap Cascading = {}
      BY DEF Cascading
    <2> QED BY <2>2, <2>3, <2>4, PlainList, PlainBegins
  <1>4. ASSUME NEW s \in Streams,
               \/ CreateStream(p, s)
               \/ \E parent \in Streams : ForkStream(p, s, parent)
               \/ \E b \in Streams \cup {Outside} : TrackExistingBranch(p, s, b)
        PROVE  CascadeInv' /\ FamilyAbandoned
    <2>1. PICK c : Begin(p, c) /\ \A i \in DOMAIN c : c[i].op \in Creating \cup {"depend"}
      BY <1>4, NewBegins
    <2>2. Plain(c)
      BY <2>1 DEF Plain, Creating, Cascading
    <2> QED BY <2>1, <2>2, PlainBegins
  <1>5. ASSUME NEW s \in Rows, NEW cascade \in BOOLEAN, AbandonStream(p, s, cascade)
        PROVE  CascadeInv' /\ FamilyAbandoned
    <2>1. CASE cascade = TRUE
      BY <1>5, <2>1, CascadeBegins
    <2>2. CASE cascade = FALSE
      BY <1>5, <2>2, AloneBegins
    <2> QED BY <2>1, <2>2
  <1>6. ASSUME NEW s \in Streams, NEW st \in Statuses,
               UpdateStreamStatus(p, s, st) \/ \E from \in Statuses : SetStatus(p, s, from, st)
        PROVE  CascadeInv' /\ FamilyAbandoned
    <2>1. PICK w : Begin(p, w) /\ ListOK(w, stream, branch, setting.deletion, SetOps)
      BY <1>6, SetBegins
    <2>2. SetOps \cap Cascading = {}
      BY DEF SetOps, Cascading
    <2> QED BY <2>1, <2>2, PlainList, PlainBegins
  <1>9. ASSUME NEW s \in Streams, ArchiveDirectly(p, s) PROVE CascadeInv' /\ FamilyAbandoned
    <2>1. {"read", "archive"} \cap Cascading = {}
      BY DEF Cascading
    <2> QED BY <1>9, <2>1, DirectBegins, PlainList, PlainBegins
  <1>7. ASSUME NEW s \in Streams, NEW st \in setting.statuses, UpdateStreamStatus(p, s, st)
        PROVE  CascadeInv' /\ FamilyAbandoned
    BY <1>1, <1>6, <1>7
  <1>8. ASSUME NEW s \in Streams, NEW from \in setting.statuses, NEW to \in setting.statuses,
               SetStatus(p, s, from, to)
        PROVE  CascadeInv' /\ FamilyAbandoned
    <2>1. from \in Statuses /\ to \in Statuses
      BY <1>1
    <2> QED BY <1>6, <1>8, <2>1
  <1> QED BY <1>2, <1>3, <1>4, <1>5, <1>7, <1>8, <1>9 DEF Call

(* The statements of other calls *)

LEMMA OtherStatements ==
  ASSUME LifeInv, CascadeInv, NEW p \in Procs,
         \/ CreateBranch(p) \/ InsertRow(p) \/ AddForkDependency(p) \/ WriteStatus(p)
         \/ Archive(p) \/ DeleteBranch(p) \/ DropRows(p) \/ GCClean(p)
  PROVE  CascadeInv' /\ FamilyAbandoned
  <1>1. /\ call[p] # <<>> /\ UNCHANGED setting
        /\ Head(call[p]).op \notin Cascading
        /\ \/ call' = [call EXCEPT ![p] = <<>> \o Tail(@)]
           \/ call' = [call EXCEPT ![p] = Tail(@)]
           \/ call' = [call EXCEPT ![p] = <<>>]
    BY DEF CreateBranch, InsertRow, AddForkDependency, WriteStatus, Archive, DeleteBranch, DropRows,
           GCClean, Does, Continue, Throw, AfterError, Cascading
  <1>2. PICK c : (c = Tail(call[p]) \/ c = <<>>) /\ call' = [call EXCEPT ![p] = c]
    BY <1>1, AtHead
  <1> QED BY <1>1, <1>2, PlainStatement

LEMMA GCPruneCascades ==
  ASSUME LifeInv, CascadeInv, NEW p \in Procs, GCPrune(p)
  PROVE  CascadeInv' /\ FamilyAbandoned
  <1> PICK S : S = {s \in Archived : stream[s].place = "expired"}
    OBVIOUS
  <1> PICK L : L = PruneEach(S)
    OBVIOUS
  <1> PICK c : c = L \o Tail(call[p])
    OBVIOUS
  <1>1. /\ call[p] # <<>> /\ Head(call[p]).op = "prune"
        /\ call' = [call EXCEPT ![p] = c]
        /\ UNCHANGED setting
    BY DEF GCPrune, Does, Continue
  <1>2. S \in SUBSET Streams /\ \A s \in S : stream[s].place \in Gone
    BY DEF Archived, Gone
  <1>3. ListOK(L, stream, branch, setting.deletion, {"unbranch", "drop"})
    BY <1>2, PruneEachOK
  <1>4. {"unbranch", "drop"} \cap Cascading = {} /\ Head(call[p]).op \notin Cascading
    BY <1>1 DEF Cascading
  <1>5. L \in Seq(Stmt) /\ Plain(L)
    BY <1>3, <1>4, PlainList
  <1>6. ASSUME ~ setting.interleaved PROVE Plain(c)
    <2>1. Tail(call[p]) \in Seq(Stmt) /\ Plain(Tail(call[p]))
      BY <1>1, <1>4, <1>6, PlainCall
    <2> QED BY <1>5, <2>1, PlainJoined
  <1> QED BY <1>1, <1>4, <1>6, NoCascade

LEMMA ReadRowCascades ==
  ASSUME LifeInv, CascadeInv, NEW p \in Procs, ReadRow(p)
  PROVE  CascadeInv' /\ FamilyAbandoned
  <1> PICK t : t = Tail(call[p])
    OBVIOUS
  <1>1. /\ call[p] # <<>> /\ Head(call[p]).op = "read" /\ UNCHANGED setting
        /\ call' = [call EXCEPT ![p] = IF Head(call[p]).stream \in Rows THEN t ELSE Tail(t)]
    BY DEF ReadRow, Does
  <1>2. Head(call[p]).op \notin Cascading
    BY <1>1 DEF Cascading
  <1>3. t # <<>>
    <2>1. Fits(call[p], 1, stream, branch, setting.deletion) /\ call[p][1].op = "read" /\ call[p] \in Seq(Stmt)
      BY <1>1, AtHead DEF LifeInv, Types
    <2>2. 2 \in DOMAIN call[p]
      BY <2>1 DEF Fits
    <2>3. Len(call[p]) \in Nat /\ DOMAIN call[p] = 1 .. Len(call[p]) /\ DOMAIN t = 1 .. Len(call[p]) - 1
      BY <1>1, <2>1, Parts
    <2>4. 1 \in DOMAIN t
      BY <2>2, <2>3
    <2>5. DOMAIN <<>> = {}
      OBVIOUS
    <2> QED BY <2>4, <2>5
  <1> PICK c : c = IF Head(call[p]).stream \in Rows THEN t ELSE Tail(t)
    OBVIOUS
  <1>4. ASSUME ~ setting.interleaved PROVE Plain(c)
    <2>1. t \in Seq(Stmt) /\ Plain(t)
      BY <1>1, <1>2, <1>4, PlainCall
    <2>2. Plain(Tail(t))
      BY <1>3, <2>1, PlainTail
    <2> QED BY <2>1, <2>2
  <1> QED BY <1>1, <1>2, <1>4, NoCascade

(* The statements of a cascade *)

\* A cascade that does not throw ends when the whole family is abandoned.
LEMMA Finished ==
  ASSUME LifeInv, NEW p \in Procs, NEW c, NEW root, call' = [call EXCEPT ![p] = c],
         root = Head(call[p]).arg, \A x : Descendants(x)' = Descendants(x),
         ~ setting.interleaved /\ root # None => Reaches(c, root)'
  PROVE  FamilyAbandoned
  <1> SUFFICES ASSUME ~ setting.interleaved, NEW q \in Procs, call[q] # <<>>, call'[q] = <<>>,
                      Head(call[q]).arg # None, NEW s \in Family(Head(call[q]).arg)
               PROVE  stream'[s].status = "abandoned"
    BY DEF FamilyAbandoned
  <1>1. call'[q] = IF q = p THEN c ELSE call[q]
    BY DEF LifeInv, Types
  <1>2. q = p /\ c = <<>>
    BY <1>1
  <1>3. s \in {root} \cup Descendants(root)
    BY <1>2 DEF Family
  <1>4. stream'[s].status = "abandoned" \/ Covered(c, s)'
    BY <1>2, <1>3 DEF Reaches, Family
  <1>5. DOMAIN <<>> = {}
    OBVIOUS
  <1> QED BY <1>2, <1>4, <1>5 DEF Covered

LEMMA AbandonCascades ==
  ASSUME LifeInv, CascadeInv, NEW p \in Procs, Abandon(p)
  PROVE  CascadeInv' /\ FamilyAbandoned
  <1> PICK c : c = call[p]
    OBVIOUS
  <1> PICK t : t = Tail(c)
    OBVIOUS
  <1>1. /\ c \in Seq(Stmt) /\ c # <<>> /\ Len(c) \in Nat /\ DOMAIN c = 1 .. Len(c) /\ 1 \in DOMAIN c
        /\ Head(c) = c[1] /\ t \in Seq(Stmt) /\ DOMAIN t = 1 .. Len(c) - 1
        /\ \A i \in 1 .. Len(c) - 1 : t[i] = c[i + 1]
    <2>1. c \in Seq(Stmt) /\ c # <<>>
      BY DEF Abandon, Does, LifeInv, Types
    <2> QED BY <2>1, Parts
  <1> PICK s : s = c[1].stream
    OBVIOUS
  <1> PICK root : root = c[1].arg
    OBVIOUS
  <1>2. /\ c[1].op = "abandon" /\ UNCHANGED setting
        /\ s \in Rows => /\ stream' = [stream EXCEPT ![s].status = "abandoned"]
                         /\ call' = [call EXCEPT ![p] = t]
    <2>1. <<>> \o Tail(call[p]) = t
      BY <1>1, AtHead
    <2> QED BY <1>1, <2>1 DEF Abandon, Does, Continue
  <1>3. stream \in [Streams -> Record]
    BY DEF LifeInv, Types, StoreTypes
  <1>4. CASE setting.interleaved
    BY <1>2, <1>4 DEF CascadeInv, FamilyAbandoned
  <1>5. CASE ~ setting.interleaved
    <2>1. CascadeFits(c)
      BY <1>5 DEF CascadeInv
    <2>2. ~ Plain(c)
      BY <1>1, <1>2 DEF Plain, Cascading
    <2>3. root \in Streams \cup {None} /\ IsCascade(c, root) /\ (root # None => Reaches(c, root))
      BY <1>1, <2>1, <2>2 DEF CascadeFits, IsCascade
    <2>4. s \in Rows
      BY <1>1, <2>3 DEF IsCascade
    <2>5. call' = [call EXCEPT ![p] = t] /\ stream' = [stream EXCEPT ![s].status = "abandoned"]
      BY <1>2, <2>4
    <2>6. \A x \in Streams : /\ stream'[x].place = stream[x].place /\ stream'[x].parent = stream[x].parent
                             /\ stream'[x].status = IF x = s THEN "abandoned" ELSE stream[x].status
      BY <1>3, <2>5 DEF Record
    <2>7. Rows' = Rows /\ \A x : Descendants(x)' = Descendants(x)
      BY <2>6, SameTree
    <2>8. \A i \in DOMAIN t : i + 1 \in DOMAIN c /\ t[i] = c[i + 1]
      BY <1>1
    <2>9. IsCascade(t, root)'
      BY <2>3, <2>7, <2>8 DEF IsCascade
    <2>10. ASSUME root # None PROVE Reaches(t, root)'
      <3> SUFFICES ASSUME NEW x \in Family(root)
                   PROVE  stream'[x].status = "abandoned" \/ Covered(t, x)'
        BY <2>7 DEF Reaches, Family
      <3>1. x \in Streams
        BY <2>3, <2>10 DEF Family, Descendants, Rows
      <3>2. CASE stream[x].status = "abandoned"
        BY <2>6, <3>1, <3>2
      <3>3. ASSUME NEW i \in DOMAIN c, \/ c[i].op = "abandon" /\ c[i].stream = x
                                       \/ c[i].op = "children" /\ x \in Descendants(c[i].stream)
            PROVE  stream'[x].status = "abandoned" \/ Covered(t, x)'
        <4>1. CASE i = 1
          BY <1>2, <2>6, <3>1, <3>3, <4>1
        <4>2. CASE i # 1
          <5>1. i - 1 \in DOMAIN t /\ t[i - 1] = c[i]
            BY <1>1, <4>2
          <5> QED BY <2>7, <3>3, <5>1 DEF Covered
        <4> QED BY <4>1, <4>2
      <3>4. stream[x].status = "abandoned" \/ Covered(c, x)
        BY <2>3, <2>10 DEF Reaches
      <3> QED BY <3>2, <3>3, <3>4 DEF Covered
    <2>11. CascadeFits(t)'
      BY <2>3, <2>9, <2>10 DEF CascadeFits
    <2>12. CascadeInv'
      BY <1>1, <1>2, <2>5, <2>11, MyCascade
    <2>13. FamilyAbandoned
      BY <1>1, <2>5, <2>7, <2>10, Finished
    <2> QED BY <2>12, <2>13
  <1> QED BY <1>4, <1>5

\* The list for the children of s: each of them, and what is below it.
LEMMA CascadeIs ==
  ASSUME LifeInv, NEW s, NEW root \in Args
  PROVE  /\ Cascade(s, root) \in Seq(Stmt)
         /\ IsCascade(Cascade(s, root), root)
         /\ \A x \in Descendants(s) : Covered(Cascade(s, root), x)
  <1> PICK todo : todo = [c \in Streams |-> <<With("abandon", c, root), With("children", c, root)>>]
    OBVIOUS
  <1> PICK L : L = Cascade(s, root)
    OBVIOUS
  <1> PICK S : S = Children(s)
    OBVIOUS
  <1>1. S \in SUBSET Streams /\ S \subseteq Rows
    BY DEF Children, Rows
  <1>2. ASSUME NEW c \in Streams
        PROVE  /\ todo[c] \in Seq(Stmt) /\ DOMAIN todo[c] = {1, 2}
               /\ todo[c][1].op = "abandon" /\ todo[c][2].op = "children"
               /\ \A k \in {1, 2} : todo[c][k].stream = c /\ todo[c][k].arg = root
    <2> PICK a : a = With("abandon", c, root)
      OBVIOUS
    <2> PICK b : b = With("children", c, root)
      OBVIOUS
    <2>1. "abandon" \in Ops /\ "children" \in Ops /\ c \in Streams \cup {None}
      BY DEF Ops, OfRows
    <2>2. a \in Stmt /\ a.op = "abandon" /\ a.stream = c /\ a.arg = root
      BY <2>1, DoIs
    <2>3. b \in Stmt /\ b.op = "children" /\ b.stream = c /\ b.arg = root
      BY <2>1, DoIs
    <2> PICK w : w = <<a, b>>
      OBVIOUS
    <2>4. w \in Seq(Stmt) /\ DOMAIN w = {1, 2} /\ w[1] = a /\ w[2] = b
      BY <2>2, <2>3, TwoAre
    <2>5. todo[c] = w
      OBVIOUS
    <2> QED BY <2>2, <2>3, <2>4, <2>5
  <1>3. todo \in [Streams -> Seq(Stmt)]
    BY <1>2
  <1>4. From(L, S, todo)
    BY <1>1, <1>3, EachFrom DEF Cascade
  <1>5. ASSUME NEW i \in DOMAIN L
        PROVE  L[i].op \in Cascading /\ L[i].arg = root /\ L[i].stream \in Rows
    <2>1. PICK c \in S : \E k \in DOMAIN todo[c] : Same(L, i, todo[c], k)
      BY <1>4 DEF From
    <2>2. PICK k \in DOMAIN todo[c] : Same(L, i, todo[c], k)
      BY <2>1
    <2>3. L[i] = todo[c][k] /\ c \in Streams /\ c \in Rows
      BY <1>1, <2>2 DEF Same
    <2>4. k = 1 \/ k = 2
      BY <1>2, <2>3
    <2> QED BY <1>2, <2>3, <2>4 DEF Cascading
  <1>6. ASSUME NEW c \in S, NEW k \in {1, 2}
        PROVE  \E i \in DOMAIN L : L[i] = todo[c][k]
    <2>1. c \in Streams /\ k \in DOMAIN todo[c]
      BY <1>1, <1>2
    <2>2. L = Each(S, todo)
      BY DEF Cascade
    <2>3. \E i \in DOMAIN Each(S, todo) : Each(S, todo)[i] = todo[c][k]
      BY <1>1, <1>3, <2>1, EachHas
    <2> QED BY <2>2, <2>3
  <1>7. ASSUME NEW x \in Descendants(s) PROVE Covered(L, x)
    <2>1. CASE x \in S
      <3>1. PICK i \in DOMAIN L : L[i] = todo[x][1]
        BY <1>6, <2>1
      <3> QED BY <1>1, <1>2, <2>1, <3>1 DEF Covered
    <2>2. ASSUME NEW c \in S, x \in Descendants(c) PROVE Covered(L, x)
      <3>1. PICK i \in DOMAIN L : L[i] = todo[c][2]
        BY <1>6
      <3>2. L[i].op = "children" /\ L[i].stream = c
        BY <1>1, <1>2, <3>1
      <3> QED BY <2>2, <3>2 DEF Covered
    <2>3. x \in S \/ \E c \in S : x \in Descendants(c)
      BY Generations
    <2> QED BY <2>1, <2>2, <2>3
  <1>8. L \in Seq(Stmt) /\ IsCascade(L, root)
    BY <1>4, <1>5 DEF From, IsCascade
  <1> QED BY <1>7, <1>8

\* d are the statements of c, but its first one replaced by those of L.
Replaces(d, c, L) ==
  /\ \A i \in DOMAIN d : (\E k \in DOMAIN L : d[i] = L[k]) \/ \E k \in DOMAIN c : d[i] = c[k]
  /\ \A k \in DOMAIN L : \E i \in DOMAIN d : d[i] = L[k]
  /\ \A k \in DOMAIN c : k # 1 => \E i \in DOMAIN d : d[i] = c[k]

LEMMA Replaced ==
  ASSUME NEW c \in Seq(Stmt), c # <<>>, NEW L \in Seq(Stmt)
  PROVE  Replaces(L \o Tail(c), c, L)
  <1>1. PICK t \in Seq(Stmt) : t = Tail(c) /\ DOMAIN t = 1 .. Len(c) - 1
                               /\ \A i \in 1 .. Len(c) - 1 : t[i] = c[i + 1]
    BY Parts
  <1>2. Len(c) \in Nat /\ DOMAIN c = 1 .. Len(c)
    BY Parts
  <1> PICK d : d = L \o t
    OBVIOUS
  <1>3. /\ DOMAIN L = 1 .. Len(L) /\ DOMAIN t = 1 .. Len(t) /\ DOMAIN d = 1 .. Len(L) + Len(t)
        /\ \A i \in 1 .. Len(L) : d[i] = L[i]
        /\ \A i \in Len(L) + 1 .. Len(L) + Len(t) : d[i] = t[i - Len(L)]
        /\ Len(L) \in Nat /\ Len(t) \in Nat
    BY Concatenation
  <1>4. \A i \in 1 .. Len(t) : t[i] = c[i + 1] /\ i + 1 \in DOMAIN c
    BY <1>1, <1>2, <1>3
  <1>5. \A k \in DOMAIN c : k # 1 => k - 1 \in 1 .. Len(t) /\ t[k - 1] = c[k]
    BY <1>1, <1>2, <1>3
  <1>6. ASSUME NEW i \in DOMAIN d
        PROVE  (\E k \in DOMAIN L : d[i] = L[k]) \/ \E k \in DOMAIN c : d[i] = c[k]
    <2>1. CASE i \in 1 .. Len(L)
      BY <1>3, <2>1
    <2>2. CASE i \in Len(L) + 1 .. Len(L) + Len(t)
      <3>1. i - Len(L) \in 1 .. Len(t) /\ d[i] = t[i - Len(L)]
        BY <1>3, <2>2
      <3> QED BY <1>4, <3>1
    <2> QED BY <1>3, <2>1, <2>2
  <1>7. \A k \in DOMAIN L : \E i \in DOMAIN d : d[i] = L[k]
    BY <1>3
  <1>8. ASSUME NEW k \in DOMAIN c, k # 1 PROVE \E i \in DOMAIN d : d[i] = c[k]
    <2>1. PICK m \in 1 .. Len(t) : t[m] = c[k]
      BY <1>5, <1>8
    <2> PICK i : i = Len(L) + m
      OBVIOUS
    <2>2. i \in Len(L) + 1 .. Len(L) + Len(t) /\ i \in 1 .. Len(L) + Len(t) /\ i - Len(L) = m
      BY <1>3
    <2> QED BY <1>3, <2>1, <2>2
  <1>9. Replaces(d, c, L)
    BY <1>6, <1>7, <1>8 DEF Replaces
  <1> QED BY <1>1, <1>9

LEMMA ChildrenCascades ==
  ASSUME LifeInv, CascadeInv, NEW p \in Procs, ListChildren(p)
  PROVE  CascadeInv' /\ FamilyAbandoned
  <1> PICK c : c = call[p]
    OBVIOUS
  <1>1. /\ c \in Seq(Stmt) /\ c # <<>> /\ Len(c) \in Nat /\ DOMAIN c = 1 .. Len(c) /\ 1 \in DOMAIN c
        /\ Head(c) = c[1] /\ c[1] \in Stmt
    <2>1. c \in Seq(Stmt) /\ c # <<>>
      BY DEF ListChildren, Does, LifeInv, Types
    <2> QED BY <2>1, Parts
  <1> PICK s : s = c[1].stream
    OBVIOUS
  <1> PICK root : root = c[1].arg
    OBVIOUS
  <1> PICK L : L = Cascade(s, root)
    OBVIOUS
  <1>0. PICK d : d = L \o Tail(c)
    OBVIOUS
  <1>2. /\ c[1].op = "children" /\ UNCHANGED <<setting, stream>>
        /\ call' = [call EXCEPT ![p] = d]
    BY <1>0, <1>1 DEF ListChildren, Does, Continue
  <1>3. root \in Args
    BY <1>1 DEF Stmt
  <1>4. L \in Seq(Stmt) /\ IsCascade(L, root) /\ \A x \in Descendants(s) : Covered(L, x)
    BY <1>3, CascadeIs
  <1>5. Replaces(d, c, L)
    <2>1. Replaces(L \o Tail(c), c, L)
      BY <1>1, <1>4, Replaced
    <2> QED BY <1>0, <2>1
  <1>6. Rows' = Rows /\ \A x : Descendants(x)' = Descendants(x)
    BY <1>2, SameTree
  <1>7. CASE setting.interleaved
    BY <1>2, <1>7 DEF CascadeInv, FamilyAbandoned
  <1>8. CASE ~ setting.interleaved
    <2>1. CascadeFits(c)
      BY <1>8 DEF CascadeInv
    <2>2. ~ Plain(c)
      BY <1>1, <1>2 DEF Plain, Cascading
    <2>3. root \in Streams \cup {None} /\ IsCascade(c, root) /\ (root # None => Reaches(c, root))
      BY <1>1, <2>1, <2>2 DEF CascadeFits, IsCascade
    <2>4. IsCascade(d, root)'
      <3>1. \A i \in DOMAIN d : d[i].op \in Cascading /\ d[i].arg = root /\ d[i].stream \in Rows
        BY <1>4, <1>5, <2>3 DEF IsCascade, Replaces
      <3> QED BY <1>6, <3>1 DEF IsCascade
    <2>5. ASSUME NEW x, Covered(L, x) PROVE Covered(d, x)'
      <3>1. PICK i \in DOMAIN L : \/ L[i].op = "abandon" /\ L[i].stream = x
                                  \/ L[i].op = "children" /\ x \in Descendants(L[i].stream)
        BY <2>5 DEF Covered
      <3>2. PICK k \in DOMAIN d : d[k] = L[i]
        BY <1>5 DEF Replaces
      <3> QED BY <1>6, <3>1, <3>2 DEF Covered
    <2>6. ASSUME NEW x, NEW i \in DOMAIN c, i # 1,
                 \/ c[i].op = "abandon" /\ c[i].stream = x
                 \/ c[i].op = "children" /\ x \in Descendants(c[i].stream)
          PROVE  Covered(d, x)'
      <3>1. PICK k \in DOMAIN d : d[k] = c[i]
        BY <1>5, <2>6 DEF Replaces
      <3> QED BY <1>6, <2>6, <3>1 DEF Covered
    <2>7. ASSUME root # None PROVE Reaches(d, root)'
      <3> SUFFICES ASSUME NEW x \in Family(root)
                   PROVE  stream[x].status = "abandoned" \/ Covered(d, x)'
        BY <1>2, <1>6 DEF Reaches, Family
      <3>1. stream[x].status = "abandoned" \/ Covered(c, x)
        BY <2>3, <2>7 DEF Reaches
      <3>2. ASSUME NEW i \in DOMAIN c, \/ c[i].op = "abandon" /\ c[i].stream = x
                                       \/ c[i].op = "children" /\ x \in Descendants(c[i].stream)
            PROVE  Covered(d, x)'
        <4>1. CASE i = 1
          <5>1. Covered(L, x)
            BY <1>2, <1>4, <3>2, <4>1
          <5> QED BY <2>5, <5>1
        <4>2. CASE i # 1
          BY <2>6, <3>2, <4>2
        <4> QED BY <4>1, <4>2
      <3> QED BY <3>1, <3>2 DEF Covered
    <2>8. CascadeFits(d)'
      BY <2>3, <2>4, <2>7 DEF CascadeFits
    <2>9. CascadeInv'
      BY <1>1, <1>2, <2>8, MyCascade
    <2>10. FamilyAbandoned
      BY <1>1, <1>2, <1>6, <2>7, Finished
    <2> QED BY <2>9, <2>10
  <1> QED BY <1>7, <1>8

(* All steps *)

LEMMA StepCascades ==
  ASSUME LifeInv, CascadeInv, NEW p \in Procs, Step(p)
  PROVE  CascadeInv' /\ FamilyAbandoned
  BY OtherStatements, GCPruneCascades, ReadRowCascades, AbandonCascades, ChildrenCascades DEF Step

LEMMA CrashCascades ==
  ASSUME LifeInv, CascadeInv, NEW p \in Procs, Crash(p)
  PROVE  CascadeInv' /\ FamilyAbandoned
  <1>1. /\ call[p] # <<>> /\ call' = [call EXCEPT ![p] = <<>>] /\ setting.crashes
        /\ UNCHANGED <<setting, stream>>
    BY DEF Crash, Throw
  <1>2. CascadeFits(<<>>)'
    BY EmptyIsPlain DEF CascadeFits, Plain
  <1>3. CascadeInv'
    BY <1>1, <1>2, MyCascade
  <1> QED BY <1>1, <1>3 DEF FamilyAbandoned

\* Where calls do not overlap nothing else happens during one.
LEMMA OutsideCascades ==
  ASSUME LifeInv, CascadeInv, Environment \/ UNCHANGED vars
  PROVE  CascadeInv' /\ FamilyAbandoned
  <1>1. UNCHANGED <<setting, call>>
    BY DEF Environment, Work, Hold, Release, Expire, vars
  <1>2. FamilyAbandoned
    BY <1>1 DEF FamilyAbandoned
  <1>3. CASE UNCHANGED vars
    <2>1. UNCHANGED <<setting, stream, call>>
      BY <1>3 DEF vars
    <2>2. Rows' = Rows /\ \A x : Descendants(x)' = Descendants(x)
      BY <2>1, SameTree
    <2>3. ASSUME NEW c, CascadeFits(c) PROVE CascadeFits(c)'
      <3>1. CASE Plain(c)
        BY <3>1 DEF CascadeFits, Plain
      <3>2. ASSUME NEW root \in Streams \cup {None}, IsCascade(c, root), root # None => Reaches(c, root)
            PROVE  CascadeFits(c)'
        <4>1. IsCascade(c, root)'
          BY <2>2, <3>2 DEF IsCascade
        <4>2. root # None => Reaches(c, root)'
          BY <2>1, <2>2, <3>2 DEF Reaches, Family, Covered
        <4> QED BY <4>1, <4>2 DEF CascadeFits
      <3> QED BY <2>3, <3>1, <3>2 DEF CascadeFits
    <2>4. ASSUME ~ setting.interleaved, NEW q \in Procs PROVE CascadeFits(call[q])'
      <3> PICK c : c = call[q]
        OBVIOUS
      <3>1. CascadeFits(c)
        BY <2>4 DEF CascadeInv
      <3>2. CascadeFits(c)' /\ call'[q] = c
        BY <2>1, <2>3, <3>1
      <3> QED BY <3>2
    <2> QED BY <1>2, <2>1, <2>4 DEF CascadeInv
  <1>4. CASE Environment
    <2>1. ASSUME ~ setting.interleaved, NEW q \in Procs PROVE CascadeFits(call[q])'
      <3>1. call'[q] = <<>>
        BY <1>1, <1>4, <2>1 DEF Environment, Quiet
      <3>2. Plain(call'[q])
        BY <3>1, EmptyIsPlain
      <3> QED BY <3>2 DEF CascadeFits, Plain
    <2> QED BY <1>1, <1>2, <2>1 DEF CascadeInv
  <1> QED BY <1>3, <1>4

LEMMA CascadeInit == Init => CascadeInv
  BY EmptyIsPlain DEF Init, CascadeInv, CascadeFits

LEMMA CascadeStep == LifeInv /\ CascadeInv /\ [Next]_vars => CascadeInv' /\ FamilyAbandoned
  <1> SUFFICES ASSUME LifeInv, CascadeInv, [Next]_vars
               PROVE  CascadeInv' /\ FamilyAbandoned
    OBVIOUS
  <1>1. setting.procs \subseteq Procs
    BY StreamLifecycleAssumption DEF LifeInv, Types, StoreTypes, Setting
  <1>2. ASSUME NEW p \in setting.procs, Call(p) PROVE CascadeInv' /\ FamilyAbandoned
    BY <1>1, <1>2, CallCascades
  <1>3. ASSUME NEW p \in setting.procs, Step(p) PROVE CascadeInv' /\ FamilyAbandoned
    BY <1>1, <1>3, StepCascades
  <1>4. ASSUME NEW p \in setting.procs, Crash(p) PROVE CascadeInv' /\ FamilyAbandoned
    BY <1>1, <1>4, CrashCascades
  <1> QED BY <1>2, <1>3, <1>4, OutsideCascades DEF Next

\* Where calls neither overlap nor are cut short, abandonStream with cascade ends only when the
\* stream and all its descendants are abandoned, however many generations there are.
THEOREM CascadesAreComplete == Spec => AbandonComplete
  <1>1. FamilyAbandoned <=>
          (~ setting.interleaved /\ ~ setting.crashes => \A p \in Procs :
             /\ call[p] # <<>> /\ call'[p] = <<>>
             /\ Head(call[p]).op \in {"abandon", "children"} /\ Head(call[p]).arg # None
             => \A s \in {Head(call[p]).arg} \cup Descendants(Head(call[p]).arg) :
                  stream'[s].status = "abandoned")
    BY DEF FamilyAbandoned, Cascading, Family
  <1> QED BY <1>1, LifeInit, LifeStep, CascadeInit, CascadeStep, PTL DEF Spec, AbandonComplete

=============================================================================
